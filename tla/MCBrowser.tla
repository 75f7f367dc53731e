------------------------------ MODULE MCBrowser ------------------------------
(* Instances of three parts of the browser for TLC, which share no state:  *)
(* the job-event client with features of two types and a job of each       *)
(* workspace (its page open, or about to be opened); the chat page with a  *)
(* prompt in the composers of two sessions, one of them selected; or the   *)
(* provider page with one or two configurations saved.                     *)
EXTENDS Browser, TLC

CONSTANTS rA, rB, rC, tA, tB, j1, j2, s1, s2, s3, hi, p1, p2, d1, d2, m1

TypeOf == rA :> tA @@ rB :> tB @@ rC :> tA
JobType == j1 :> tA @@ j2 :> tB
JobWorkspace == j1 :> 1 @@ j2 :> 2
ModelsOf == d1 :> {m1} @@ d2 :> {m1}
WorkspaceOf == s1 :> 1 @@ s2 :> 1 @@ s3 :> 2

Page == [Fresh EXCEPT !.workspaceId = 1, !.registrations = {rA}]

NoFeed ==
  /\ client = Fresh /\ token = 0 /\ expired = {} /\ final = {} /\ told = {} /\ logouts = 0
  /\ acts = 0 /\ faults = 0 /\ learned = [r \in Registrations |-> {}]

NoPage ==
  /\ page = OpenedPage(1) /\ stored = [s \in Sessions |-> Unborn]
  /\ call = NoCall /\ cached = [s \in Sessions |-> NoData]
  /\ fetches = [s \in Sessions |-> NoFetch] /\ creating = NoChange /\ deleting = NoChange
  /\ serving = [n \in Prompted |-> NoRequest] /\ seen = NothingSeen
  /\ pageActs = 0 /\ pageFaults = 0

FeedInit ==
  /\ client \in {Fresh, Reconcile(Page, 1)}
  /\ token = 1 /\ expired = {} /\ final = {} /\ told = {} /\ logouts = 0 /\ acts = 0 /\ faults = 0
  /\ learned = [r \in Registrations |-> {}]

\* s1 has been selected, its messages have been asked for, and prompts have been typed.
ComposedInit ==
  /\ page = [OpenedPage(1) EXCEPT !.selected = s1, !.shown = hi,
                                  !.drafts = [s \in Sessions |-> IF s = s3 THEN None ELSE hi]]
  /\ stored = [s \in Sessions |-> IF s = s3 THEN Unborn ELSE <<>>]
  /\ fetches = [s \in Sessions |-> IF s = s1 THEN Asked(FALSE) ELSE NoFetch]
  /\ call = NoCall /\ cached = [s \in Sessions |-> NoData]
  /\ creating = NoChange /\ deleting = NoChange
  /\ serving = [n \in Prompted |-> NoRequest] /\ seen = NothingSeen
  /\ pageActs = 0 /\ pageFaults = 0

NoAdmin ==
  /\ view = ClosedView /\ form = ClosedForm /\ probes = [i \in Probes |-> NoProbe]
  /\ asked = [k \in Kinds |-> NoMutation] /\ testing = [p \in Providers |-> 0]
  /\ listing = [fetch |-> ListingIdle, data |-> NotListed, loaded |-> FALSE, failed |-> FALSE,
                doubtful |-> FALSE]
  /\ server = NotListed /\ adminActs = 0 /\ adminFaults = 0

SavedInit ==
  /\ AdminInit
  /\ server.rows[p1] = Saved(d1, m1) /\ server.rows[p2] \in {Unsaved, Saved(d2, m1)}

MCInit ==
  \/ FeedInit /\ NoPage /\ NoAdmin
  \/ NoFeed /\ ComposedInit /\ NoAdmin
  \/ NoFeed /\ NoPage /\ SavedInit

ProvidersPart == server # NotListed
PagePart == stored[s1] # Unborn

MCNext ==
  \/ ~ProvidersPart /\ ~PagePart /\ Next /\ UNCHANGED <<pageVars, adminVars>>
  \/ PagePart /\ PageNext /\ UNCHANGED <<vars, adminVars>>
  \/ ProvidersPart /\ AdminNext /\ UNCHANGED <<vars, pageVars>>

MCSpec == MCInit /\ [][MCNext]_<<vars, pageVars, adminVars>> /\ Fairness
=============================================================================
