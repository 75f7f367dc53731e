---------------------------- MODULE ProviderPage ----------------------------
(***************************************************************************)
(* The provider page of an administrator (ProviderConfigsPage.tsx) with    *)
(* its form (ProviderConfigForm.tsx): the dialogs, of which showModal lets *)
(* only the open one be used, the mutations and the query under way, and   *)
(* the probes by which the form lists and tests models of a draft.  The    *)
(* API is seen from the page: it keeps rows, accepts or refuses a change,  *)
(* and answers.  TanStack Query is external.                               *)
(***************************************************************************)
EXTENDS Naturals

CONSTANTS
  Providers,       \* every provider configuration there will be
  Details,         \* connection details that can be typed
  ProbeDetails,    \* those of them a probe can be sent with
  NewDetails,      \* those an empty form starts with
  Models,          \* ids of models
  modelsOf,        \* what the service at some details lists
  Nobody,          \* no provider, no details, no model
  MaxProbes,       \* bound on probes
  MaxAdminActs,    \* bound on the administrator's acts
  MaxAdminFaults   \* bound on lost answers and on changes by others

ASSUME ProviderPageConstants ==
  /\ ProbeDetails \subseteq Details /\ NewDetails \in ProbeDetails /\ modelsOf \in [ProbeDetails -> SUBSET Models]
  /\ Nobody \notin Providers \cup Details \cup Models
  /\ MaxProbes \in Nat /\ MaxAdminActs \in Nat /\ MaxAdminFaults \in Nat

VARIABLES
  view,      \* which dialogs are open and which buttons spin
  form,      \* the mounted ProviderConfigForm
  probes,    \* requests of the form, each with its AbortController
  asked,     \* the mutation under way of each kind, with what its handler captured
  testing,   \* per provider: tests of the saved configuration under way
  listing,   \* the providers query
  server,    \* rows and the default provider
  adminActs, adminFaults

adminVars == <<view, form, probes, asked, testing, listing, server, adminActs, adminFaults>>

Kinds == {"save", "delete", "default", "pull"}
Probes == 1..MaxProbes

Unsaved == [state |-> "unsaved", details |-> Nobody, model |-> Nobody]
Saved(d, m) == [state |-> "saved", details |-> d, model |-> m]
Removed == [Unsaved EXCEPT !.state = "removed"]
Rows == {Unsaved, Removed} \cup {Saved(d, m) : d \in Details, m \in Models}

NotListed == [rows |-> [p \in Providers |-> Unsaved], default |-> Nobody]
IsSaved(s, p) == s.rows[p].state = "saved"

NoMutation == [pc |-> "none", provider |-> Nobody, row |-> Unsaved]
NoProbe == [pc |-> "none", kind |-> "list", details |-> Nobody, model |-> Nobody,
            aborted |-> FALSE]
NoVerdict == [details |-> Nobody, model |-> Nobody]

ClosedForm == [details |-> Nobody, model |-> Nobody, models |-> {}, listedFor |-> Nobody,
               armed |-> Nobody, loading |-> FALSE, tested |-> NoVerdict, testing |-> FALSE]
ClosedView == [formOpen |-> FALSE, editing |-> Nobody, deleting |-> Nobody, pulling |-> Nobody,
               testingId |-> Nobody, pullingId |-> Nobody]

ListingAsked == [pc |-> "asked", answer |-> NotListed, retried |-> FALSE, sure |-> FALSE]
ListingIdle == [ListingAsked EXCEPT !.pc = "none"]

\* The page has just been opened on some saved providers: the query is under way.
AdminInit ==
  /\ view = ClosedView /\ form = ClosedForm
  /\ probes = [i \in Probes |-> NoProbe]
  /\ asked = [k \in Kinds |-> NoMutation] /\ testing = [p \in Providers |-> 0]
  /\ listing = [fetch |-> ListingAsked, data |-> NotListed, loaded |-> FALSE, failed |-> FALSE,
                doubtful |-> FALSE]
  /\ \E rows \in [Providers -> Rows \ {Removed}] :
       server = [rows |-> rows, default |-> Nobody]
  /\ adminActs = 0 /\ adminFaults = 0

AdminAct == adminActs < MaxAdminActs /\ adminActs' = adminActs + 1 /\ UNCHANGED adminFaults
AdminFault == adminFaults < MaxAdminFaults /\ adminFaults' = adminFaults + 1 /\ UNCHANGED adminActs
NoAct == UNCHANGED <<adminActs, adminFaults>>

DialogOpen == view.formOpen \/ view.deleting # Nobody \/ view.pulling # Nobody
Pending(k) == asked[k].pc # "none"
Shown(p) == listing.loaded /\ IsSaved(listing.data, p)

-----------------------------------------------------------------------------
(* The providers query.                                                    *)

\* A fetch under way serves as the refetch.
ListingShared == IF listing.fetch.pc = "none" THEN [listing EXCEPT !.fetch = ListingAsked] ELSE listing

\* refetch() and invalidateQueries cancel a fetch under way once there is data; the first
\* one is shared, and may have been read before the change.
ListingAgain ==
  IF listing.loaded THEN [listing EXCEPT !.fetch = ListingAsked]
  ELSE [ListingShared EXCEPT !.fetch.sure = FALSE, !.doubtful = TRUE]

AnswerListing ==
  /\ listing.fetch.pc = "asked"
  /\ listing' = [listing EXCEPT !.fetch.pc = "answered", !.fetch.answer = server, !.fetch.sure = TRUE]
  /\ NoAct /\ UNCHANGED <<view, form, probes, asked, testing, server>>

LoseListing ==
  /\ listing.fetch.pc \in {"asked", "answered"} /\ AdminFault
  /\ listing' = [listing EXCEPT !.fetch.pc = "refused"]
  /\ UNCHANGED <<view, form, probes, asked, testing, server>>

\* An error is retried once, then shown; what was listed before stays.
ReceiveListing ==
  /\ \/ /\ listing.fetch.pc = "answered"
        /\ listing' = [fetch |-> ListingIdle, data |-> listing.fetch.answer, loaded |-> TRUE,
                       failed |-> FALSE, doubtful |-> listing.doubtful /\ ~listing.fetch.sure]
     \/ /\ listing.fetch.pc = "refused" /\ ~listing.fetch.retried
        /\ listing' = [listing EXCEPT !.fetch = [ListingAsked EXCEPT !.retried = TRUE]]
     \/ /\ listing.fetch.pc = "refused" /\ listing.fetch.retried
        /\ listing' = [listing EXCEPT !.fetch = ListingIdle, !.failed = TRUE]
  /\ NoAct /\ UNCHANGED <<view, form, probes, asked, testing, server>>

RefreshProviders ==
  /\ ~DialogOpen /\ AdminAct
  /\ listing' = ListingAgain
  /\ UNCHANGED <<view, form, probes, asked, testing, server>>

\* refetchOnWindowFocus: shares a fetch under way.
FocusWindow ==
  /\ AdminAct
  /\ listing' = ListingShared
  /\ UNCHANGED <<view, form, probes, asked, testing, server>>

-----------------------------------------------------------------------------
(* The form.  A handler, the render it causes and the effects of that      *)
(* render are one step: React runs the effects of a discrete event before  *)
(* the next one.                                                           *)

Abort(ps, kind) ==
  [i \in Probes |-> [ps[i] EXCEPT !.aborted = @ \/ (ps[i].pc # "none" /\ ps[i].kind = kind)]]

\* The effect on the connection details: the timer and the probe before it are dropped,
\* and a new probe is armed if the details allow one.
ListingArmed(f) ==
  [f EXCEPT !.models = {}, !.listedFor = Nobody,
            !.armed = IF f.details \in ProbeDetails THEN f.details ELSE Nobody,
            !.loading = f.details \in ProbeDetails]

\* The effect on the details and the model: the verdict of a test is of them.
Untested(f) == [f EXCEPT !.tested = NoVerdict, !.testing = FALSE]

OpenedForm(d, m) == ListingArmed([ClosedForm EXCEPT !.details = d, !.model = m])

\* Unmounting aborts both probes.
UnmountForm ==
  /\ form' = ClosedForm
  /\ probes' = Abort(Abort(probes, "list"), "test")

CanType == view.formOpen /\ ~Pending("save")

ChangeDetails(d) ==
  /\ CanType /\ d # form.details /\ AdminAct
  /\ form' = Untested(ListingArmed([form EXCEPT !.details = d]))
  /\ probes' = Abort(Abort(probes, "list"), "test")
  /\ UNCHANGED <<view, asked, testing, listing, server>>

\* Typed, or selected from the list.
ChangeModel(m) ==
  /\ CanType /\ m # form.model /\ AdminAct
  /\ form' = Untested([form EXCEPT !.model = m])
  /\ probes' = Abort(probes, "test")
  /\ UNCHANGED <<view, asked, testing, listing, server>>

RefreshModels ==
  /\ CanType /\ ~form.loading /\ AdminAct
  /\ form' = ListingArmed(form)
  /\ probes' = Abort(probes, "list")
  /\ UNCHANGED <<view, asked, testing, listing, server>>

FreeProbe(i) == probes[i].pc = "none" /\ \A j \in 1..(i - 1) : probes[j].pc # "none"

\* The timer of 700 ms: the details are those of the render that armed it.
LoadModels(i) ==
  /\ form.armed # Nobody /\ FreeProbe(i)
  /\ form' = [form EXCEPT !.armed = Nobody]
  /\ probes' = [probes EXCEPT ![i] = [NoProbe EXCEPT !.pc = "sent", !.details = form.armed]]
  /\ NoAct /\ UNCHANGED <<view, asked, testing, listing, server>>

\* trigger() is awaited first, which lets no event in before the values are read.
TestModel(i) ==
  /\ CanType /\ ~form.testing /\ form.details \in ProbeDetails /\ form.model # Nobody
  /\ FreeProbe(i) /\ AdminAct
  /\ form' = [Untested(form) EXCEPT !.testing = TRUE]
  /\ probes' = [Abort(probes, "test") EXCEPT
                  ![i] = [NoProbe EXCEPT !.pc = "sent", !.kind = "test",
                                         !.details = form.details, !.model = form.model]]
  /\ UNCHANGED <<view, asked, testing, listing, server>>

\* The models listed for the details, none, or an error: each ends the spinner, unless the
\* controller was aborted meanwhile.
ModelsLoaded(i) ==
  /\ probes[i].pc = "sent" /\ probes[i].kind = "list"
  /\ probes' = [probes EXCEPT ![i] = NoProbe]
  /\ IF probes[i].aborted THEN UNCHANGED form
     ELSE \E ids \in {{}, modelsOf[probes[i].details]} :
            form' = [form EXCEPT !.models = ids, !.listedFor = probes[i].details, !.loading = FALSE]
  /\ NoAct /\ UNCHANGED <<view, asked, testing, listing, server>>

ModelTested(i) ==
  /\ probes[i].pc = "sent" /\ probes[i].kind = "test"
  /\ probes' = [probes EXCEPT ![i] = NoProbe]
  /\ form' = IF probes[i].aborted THEN form
             ELSE [form EXCEPT !.testing = FALSE,
                               !.tested = [details |-> probes[i].details, model |-> probes[i].model]]
  /\ NoAct /\ UNCHANGED <<view, asked, testing, listing, server>>

-----------------------------------------------------------------------------
(* The page's handlers.                                                    *)

Ask(k, p, row) == asked' = [asked EXCEPT ![k] = [pc |-> "sent", provider |-> p, row |-> row]]

OpenCreateForm ==
  /\ ~DialogOpen /\ AdminAct
  /\ view' = [view EXCEPT !.formOpen = TRUE, !.editing = Nobody, !.deleting = Nobody,
                          !.pulling = Nobody]
  /\ form' = OpenedForm(NewDetails, Nobody)
  /\ UNCHANGED <<probes, asked, testing, listing, server>>

\* The form starts from the row as it is listed.
OpenEditForm(p) ==
  /\ ~DialogOpen /\ Shown(p) /\ AdminAct
  /\ view' = [view EXCEPT !.formOpen = TRUE, !.editing = p, !.deleting = Nobody,
                          !.pulling = Nobody]
  /\ form' = OpenedForm(listing.data.rows[p].details, listing.data.rows[p].model)
  /\ UNCHANGED <<probes, asked, testing, listing, server>>

\* Cancel, the close button and Escape: none while the save is under way.
CloseForm ==
  /\ view.formOpen /\ ~Pending("save") /\ AdminAct
  /\ view' = [view EXCEPT !.formOpen = FALSE, !.editing = Nobody]
  /\ UnmountForm
  /\ UNCHANGED <<asked, testing, listing, server>>

HandleSubmit ==
  /\ CanType /\ form.model # Nobody /\ AdminAct
  /\ Ask("save", view.editing, Saved(form.details, form.model))
  /\ UNCHANGED <<view, form, probes, testing, listing, server>>

OpenDeleteConfirm(p) ==
  /\ ~DialogOpen /\ Shown(p) /\ AdminAct
  /\ view' = [view EXCEPT !.formOpen = FALSE, !.editing = Nobody, !.pulling = Nobody,
                          !.deleting = p]
  /\ UNCHANGED <<form, probes, asked, testing, listing, server>>

CancelDelete ==
  /\ view.deleting # Nobody /\ ~Pending("delete") /\ AdminAct
  /\ view' = [view EXCEPT !.deleting = Nobody]
  /\ UNCHANGED <<form, probes, asked, testing, listing, server>>

ConfirmDelete ==
  /\ view.deleting # Nobody /\ ~Pending("delete") /\ AdminAct
  /\ Ask("delete", view.deleting, Removed)
  /\ UNCHANGED <<view, form, probes, testing, listing, server>>

OpenPullPanel(p) ==
  /\ ~DialogOpen /\ Shown(p) /\ view.pullingId # p /\ AdminAct
  /\ view' = [view EXCEPT !.formOpen = FALSE, !.deleting = Nobody, !.pulling = p]
  /\ UNCHANGED <<form, probes, asked, testing, listing, server>>

ClosePullPanel ==
  /\ view.pulling # Nobody /\ view.pullingId # view.pulling /\ AdminAct
  /\ view' = [view EXCEPT !.pulling = Nobody]
  /\ UNCHANGED <<form, probes, asked, testing, listing, server>>

\* A blank name is refused by the panel itself.
HandlePullModel ==
  /\ view.pulling # Nobody /\ view.pullingId # view.pulling /\ AdminAct
  /\ view' = [view EXCEPT !.pullingId = view.pulling]
  /\ Ask("pull", view.pulling, Unsaved)
  /\ UNCHANGED <<form, probes, testing, listing, server>>

HandleSetDefaultProvider(p) ==
  /\ ~DialogOpen /\ Shown(p) /\ listing.data.default # p /\ ~Pending("default") /\ AdminAct
  /\ Ask("default", p, Unsaved)
  /\ UNCHANGED <<view, form, probes, testing, listing, server>>

\* One id tells which test runs: another provider's test may be started meanwhile.
HandleTestProvider(p) ==
  /\ ~DialogOpen /\ Shown(p) /\ view.testingId # p /\ AdminAct
  /\ view' = [view EXCEPT !.testingId = p]
  /\ testing' = [testing EXCEPT ![p] = @ + 1]
  /\ UNCHANGED <<form, probes, asked, listing, server>>

TestProviderEnds(p) ==
  /\ testing[p] > 0
  /\ testing' = [testing EXCEPT ![p] = @ - 1]
  /\ view' = [view EXCEPT !.testingId = Nobody]
  /\ NoAct /\ UNCHANGED <<form, probes, asked, listing, server>>

-----------------------------------------------------------------------------
(* The API, and other administrators.                                      *)

\* What a change makes of the rows, and which provider is the default then: the one asked
\* for, or whichever the API elects among those saved (ProviderDefaults says which).
Changes(k, p, row) ==
  LET rows == CASE k = "save" -> {[server.rows EXCEPT ![q] = row] : q \in
                     IF p # Nobody THEN {p} ELSE {x \in Providers : server.rows[x] = Unsaved}}
                [] k = "delete" -> {[server.rows EXCEPT ![p] = row]}
                [] OTHER -> {server.rows}
      defaults == CASE k = "default" -> {p}
                    [] k = "pull" -> {server.default}
                    [] OTHER -> Providers \cup {Nobody}
  IN {s \in [rows : rows, default : defaults] : s.default # Nobody => IsSaved(s, s.default)}

\* A change of a row that is not there is refused; so is one the validation rejects.
Serve(k) ==
  /\ asked[k].pc = "sent"
  /\ \/ /\ asked[k].provider # Nobody => IsSaved(server, asked[k].provider)
        /\ server' \in Changes(k, asked[k].provider, asked[k].row)
        /\ asked' = [asked EXCEPT ![k].pc = "accepted"]
     \/ /\ asked' = [asked EXCEPT ![k].pc = "refused"]
        /\ UNCHANGED server
  /\ NoAct /\ UNCHANGED <<view, form, probes, testing, listing>>

\* The answer is lost, or later than the 10 s the page waits for any of them.
LoseAnswer(k) ==
  /\ asked[k].pc \in {"sent", "accepted"} /\ AdminFault
  /\ asked' = [asked EXCEPT ![k].pc = "refused"]
  /\ \/ UNCHANGED server
     \/ /\ asked[k].pc = "sent"
        /\ asked[k].provider # Nobody => IsSaved(server, asked[k].provider)
        /\ server' \in Changes(k, asked[k].provider, asked[k].row)
  /\ listing' = [listing EXCEPT !.doubtful = TRUE, !.fetch.sure = FALSE]
  /\ UNCHANGED <<view, form, probes, testing>>

ChangeByOther ==
  /\ AdminFault
  /\ \E k \in {"save", "delete", "default"}, p \in Providers, d \in Details, m \in Models :
       /\ IsSaved(server, p)
       /\ server' \in Changes(k, p, IF k = "delete" THEN Removed ELSE Saved(d, m))
  /\ server' # server
  /\ listing' = [listing EXCEPT !.doubtful = TRUE, !.fetch.sure = FALSE]
  /\ UNCHANGED <<view, form, probes, asked, testing>>

-----------------------------------------------------------------------------
(* What the handlers do when they are answered: a dialog whose request     *)
(* failed stays, with the error in it.                                     *)

SaveEnds ==
  /\ asked["save"].pc \in {"accepted", "refused"}
  /\ asked' = [asked EXCEPT !["save"] = NoMutation]
  /\ IF asked["save"].pc = "accepted"
     THEN /\ listing' = ListingAgain
          /\ view' = [view EXCEPT !.formOpen = FALSE, !.editing = Nobody]
          /\ UnmountForm
     ELSE UNCHANGED <<listing, view, form, probes>>
  /\ NoAct /\ UNCHANGED <<testing, server>>

DeleteEnds ==
  /\ asked["delete"].pc \in {"accepted", "refused"}
  /\ asked' = [asked EXCEPT !["delete"] = NoMutation]
  /\ IF asked["delete"].pc = "accepted"
     THEN /\ listing' = ListingAgain
          /\ view' = [view EXCEPT !.deleting = Nobody]
     ELSE UNCHANGED <<listing, view>>
  /\ NoAct /\ UNCHANGED <<form, probes, testing, server>>

\* Invalidates the models only.  A pull the provider failed is told in the panel.
PullEnds ==
  /\ asked["pull"].pc \in {"accepted", "refused"}
  /\ asked' = [asked EXCEPT !["pull"] = NoMutation]
  /\ view' = [view EXCEPT !.pullingId = Nobody,
                          !.pulling = IF asked["pull"].pc = "accepted" THEN Nobody ELSE @]
  /\ NoAct /\ UNCHANGED <<form, probes, testing, listing, server>>

DefaultEnds ==
  /\ asked["default"].pc \in {"accepted", "refused"}
  /\ asked' = [asked EXCEPT !["default"] = NoMutation]
  /\ listing' = IF asked["default"].pc = "accepted" THEN ListingAgain ELSE listing
  /\ NoAct /\ UNCHANGED <<view, form, probes, testing, server>>

AdminStep ==
  \/ \E d \in Details : ChangeDetails(d)
  \/ \E m \in Models : ChangeModel(m)
  \/ \E i \in Probes : TestModel(i)
  \/ \E p \in Providers : OpenEditForm(p) \/ OpenDeleteConfirm(p) \/ OpenPullPanel(p)
                            \/ HandleSetDefaultProvider(p) \/ HandleTestProvider(p)
  \/ RefreshModels \/ RefreshProviders \/ FocusWindow \/ OpenCreateForm \/ CloseForm
  \/ HandleSubmit \/ CancelDelete \/ ConfirmDelete \/ ClosePullPanel \/ HandlePullModel

AnswerStep ==
  \/ \E i \in Probes : LoadModels(i) \/ ModelsLoaded(i) \/ ModelTested(i)
  \/ \E p \in Providers : TestProviderEnds(p)
  \/ SaveEnds \/ DeleteEnds \/ PullEnds \/ DefaultEnds \/ ReceiveListing

ServerAnswers == (\E k \in Kinds : Serve(k) \/ LoseAnswer(k)) \/ ChangeByOther \/ AnswerListing \/ LoseListing

AdminNext == AdminStep \/ AnswerStep \/ ServerAnswers

AdminSpec == AdminInit /\ [][AdminNext]_adminVars

-----------------------------------------------------------------------------
View == [formOpen : BOOLEAN, editing : Providers \cup {Nobody}, deleting : Providers \cup {Nobody},
         pulling : Providers \cup {Nobody}, testingId : Providers \cup {Nobody},
         pullingId : Providers \cup {Nobody}]
Verdict == [details : Details \cup {Nobody}, model : Models \cup {Nobody}]
Form == [details : Details \cup {Nobody}, model : Models \cup {Nobody}, models : SUBSET Models,
         listedFor : Details \cup {Nobody}, armed : ProbeDetails \cup {Nobody},
         loading : BOOLEAN, tested : Verdict, testing : BOOLEAN]
Probe == [pc : {"none", "sent"}, kind : {"list", "test"}, details : ProbeDetails \cup {Nobody},
          model : Models \cup {Nobody}, aborted : BOOLEAN]
Mutation == [pc : {"none", "sent", "accepted", "refused"}, provider : Providers \cup {Nobody},
             row : Rows]
ApiState == [rows : [Providers -> Rows], default : Providers \cup {Nobody}]
Fetch == [pc : {"none", "asked", "answered", "refused"}, answer : ApiState, retried : BOOLEAN,
          sure : BOOLEAN]
Listing == [fetch : Fetch, data : ApiState, loaded : BOOLEAN, failed : BOOLEAN, doubtful : BOOLEAN]

AdminTypeOK ==
  /\ view \in View /\ form \in Form /\ probes \in [Probes -> Probe] /\ asked \in [Kinds -> Mutation]
  /\ testing \in [Providers -> 0..MaxAdminActs] /\ listing \in Listing /\ server \in ApiState
  /\ adminActs \in 0..MaxAdminActs /\ adminFaults \in 0..MaxAdminFaults

\* However the administrator types while probes are under way and come back out of order:
\* the models offered and the verdict shown are those of the details and the model in the
\* form, a spinner has something to wait for, and a closed form waits for nothing.
FormIsOfItsDraft ==
  LET live(kind) == {i \in Probes : probes[i].pc # "none" /\ probes[i].kind = kind /\ ~probes[i].aborted}
  IN /\ form.models # {} => form.listedFor = form.details
     /\ form.tested # NoVerdict => form.tested = [details |-> form.details, model |-> form.model]
     /\ form.loading <=> form.armed # Nobody \/ live("list") # {}
     /\ form.testing <=> live("test") # {}
     /\ \A i \in live("list") \cup live("test") : view.formOpen /\ probes[i].details = form.details

\* A request under way holds the dialog it was asked in, so that its answer closes that one
\* and no other; and there is one dialog at a time.
DialogWaitsForItsAnswer ==
  /\ Pending("save") => view.formOpen /\ view.editing = asked["save"].provider
  /\ Pending("delete") => view.deleting = asked["delete"].provider
  /\ Pending("pull") => view.pulling = asked["pull"].provider /\ view.pullingId = view.pulling
  /\ view.pullingId # Nobody => Pending("pull")
  /\ view.testingId # Nobody => testing[view.testingId] > 0
  /\ ~(view.formOpen /\ view.deleting # Nobody) /\ ~(view.formOpen /\ view.pulling # Nobody)
  /\ view.deleting = Nobody \/ view.pulling = Nobody

\* Once the page's own changes are answered and the query is at rest without an error, the
\* list is what the API holds - unless an answer was lost or another administrator changed
\* something since it was read, or the first list was under way when the change was made.
SettledProvidersAreStored ==
  /\ listing.loaded /\ listing.fetch.pc = "none" /\ ~listing.failed /\ ~listing.doubtful
  /\ \A k \in Kinds : asked[k].pc # "accepted"
  => listing.data = server
=============================================================================
