------------------------------ MODULE ChatPage ------------------------------
(***************************************************************************)
(* The chat page of the browser (Home.tsx): the selected session and the   *)
(* drafts of its composer, the one streamed reply the page waits for, the  *)
(* cached messages that the reply's events and the queries both write, and *)
(* the API behind them.  A handler that awaits goes on with what it        *)
(* captured when it was called, whatever the user has selected since.      *)
(* TanStack Query is external: one fetch per query, written when it comes. *)
(***************************************************************************)
EXTENDS Naturals, FiniteSets, Sequences

CONSTANTS
  Sessions,       \* every chat session there will be
  PageWorkspaces,
  workspaceOf,    \* the workspace of each session
  Prompts,        \* what a user may type
  None,           \* no session; also an empty draft
  MaxPrompts,     \* bound on submitted prompts
  MaxDeltas,      \* bound on the pieces of one answer
  MaxPageActs,    \* bound on the user's acts
  MaxPageFaults   \* bound on failures of the network or of a generation

ASSUME PageConstants ==
  /\ workspaceOf \in [Sessions -> PageWorkspaces] /\ None \notin Sessions \cup Prompts
  /\ MaxPrompts \in Nat /\ MaxDeltas \in Nat \ {0} /\ MaxPageActs \in Nat /\ MaxPageFaults \in Nat

VARIABLES
  page,      \* the component's state and refs
  call,      \* the streamGenerateMessage call the page waits for
  cached,    \* data of the messages query of each session
  fetches,   \* its fetch under way
  creating,  \* the createSession mutation
  deleting,  \* the deleteSession mutation, with what its handler captured
  serving,   \* per submitted prompt: the request as the API handles it
  stored,    \* per session: its messages in the database, Unborn or Deleted
  seen,      \* history the properties speak of
  pageActs, pageFaults

pageVars == <<page, call, cached, fetches, creating, deleting, serving, stored, seen,
              pageActs, pageFaults>>

Prompted == 1..MaxPrompts
Unborn == <<[kind |-> "unborn"]>>
Deleted == <<[kind |-> "deleted"]>>
NoData == <<[kind |-> "no data"]>>

\* A message by what it is: the prompt n, its stored answer, or a temporary one, whose id
\* is a number of its own and whose text is the pieces it has taken.
User(n) == [kind |-> "user", n |-> n]
Reply(n) == [kind |-> "answer", n |-> n]
Temporary(id, n, pieces) == [kind |-> "temporary", n |-> n, id |-> id, pieces |-> pieces,
                             incomplete |-> FALSE]

IsTemporary(m, id) == m.kind = "temporary" /\ m.id = id

NoCall == [open |-> FALSE, n |-> 0, session |-> None, prompt |-> None, aborted |-> FALSE,
           taken |-> 0]
NoChange == [pc |-> "none", session |-> None, selected |-> None]
NoFetch == [pc |-> "none", workspace |-> 0, list |-> <<>>, retried |-> FALSE, sure |-> FALSE]
NoRequest == [pc |-> "none", session |-> None, workspace |-> 0, pieces |-> 0,
              frames |-> <<>>, left |-> FALSE]

NothingSeen == [moved |-> {}, wiped |-> {}, doubtful |-> {}, stray |-> FALSE]

\* A page that has just been opened: no session is selected.
OpenedPage(w) ==
  [workspace |-> w, selected |-> None, shown |-> None, drafts |-> [s \in Sessions |-> None],
   streaming |-> FALSE, streamingId |-> 0, hasOutput |-> FALSE, ids |-> 0]

PageInit ==
  /\ \E w \in PageWorkspaces : page = OpenedPage(w)
  /\ call = NoCall /\ cached = [s \in Sessions |-> NoData]
  /\ fetches = [s \in Sessions |-> NoFetch]
  /\ creating = NoChange /\ deleting = NoChange
  /\ serving = [n \in Prompted |-> NoRequest]
  /\ stored \in [Sessions -> {<<>>, Unborn}]
  /\ seen = NothingSeen
  /\ pageActs = 0 /\ pageFaults = 0

PageAct == pageActs < MaxPageActs /\ pageActs' = pageActs + 1 /\ UNCHANGED pageFaults
PageFault == pageFaults < MaxPageFaults /\ pageFaults' = pageFaults + 1 /\ UNCHANGED pageActs
Quiet == UNCHANGED <<pageActs, pageFaults>>

-----------------------------------------------------------------------------
(* The messages query (useChatSessionMessages) and its cache.              *)

\* The request names the workspace of the route at the time it is sent.
Asked(retried) == [NoFetch EXCEPT !.pc = "asked", !.workspace = page.workspace, !.retried = retried]

\* A mounted query fetches unless a fetch is under way.
Mounted(f, s, w) ==
  IF f[s].pc # "none" THEN f ELSE [f EXCEPT ![s] = [Asked(FALSE) EXCEPT !.workspace = w]]

\* refetchQueries: replaces a fetch under way once there is data, shares it before; a query
\* that is not observed and has never had data is left alone.
RefetchMessages(s) ==
  IF cached[s] = NoData
  THEN IF page.selected = s THEN Mounted(fetches, s, page.workspace) ELSE fetches
  ELSE [fetches EXCEPT ![s] = Asked(FALSE)]

Exists(s) == stored[s] \notin {Unborn, Deleted}

\* The API: a session is found in its own workspace only.
AnswerFetch(s) ==
  /\ fetches[s].pc = "asked"
  /\ IF Exists(s) /\ fetches[s].workspace = workspaceOf[s]
     THEN fetches' = [fetches EXCEPT ![s].pc = "answered", ![s].list = stored[s], ![s].sure = TRUE]
     ELSE fetches' = [fetches EXCEPT ![s].pc = "refused"]
  /\ Quiet
  /\ UNCHANGED <<page, call, cached, creating, deleting, serving, stored, seen>>

LoseFetch(s) ==
  /\ fetches[s].pc = "asked" /\ PageFault
  /\ fetches' = [fetches EXCEPT ![s].pc = "refused"]
  /\ UNCHANGED <<page, call, cached, creating, deleting, serving, stored, seen>>

\* Data replaces what the events have written.  An error is retried once, while observed.
ReceiveFetch(s) ==
  /\ \/ /\ fetches[s].pc = "answered"
        /\ cached' = [cached EXCEPT ![s] = fetches[s].list]
        /\ fetches' = [fetches EXCEPT ![s] = NoFetch]
        /\ seen' = [seen EXCEPT !.doubtful = IF fetches[s].sure THEN @ \ {s} ELSE @]
     \/ /\ fetches[s].pc = "refused" /\ page.selected = s /\ ~fetches[s].retried
        /\ fetches' = [fetches EXCEPT ![s] = Asked(TRUE)]
        /\ UNCHANGED <<cached, seen>>
     \/ /\ fetches[s].pc = "refused" /\ (page.selected # s \/ fetches[s].retried)
        /\ fetches' = [fetches EXCEPT ![s] = NoFetch]
        /\ seen' = [seen EXCEPT !.doubtful = @ \cup {s}]
        /\ UNCHANGED cached
  /\ Quiet /\ UNCHANGED <<page, call, creating, deleting, serving, stored>>

-----------------------------------------------------------------------------
(* What the user does.                                                     *)

\* The effects of a workspace that changes.  The reply being streamed goes on.
SwitchWorkspace(w) ==
  /\ w # page.workspace /\ PageAct
  /\ page' = [OpenedPage(w) EXCEPT !.streaming = page.streaming, !.ids = page.ids]
  /\ seen' = [seen EXCEPT !.moved = IF call.open THEN @ \cup {call.n} ELSE @, !.wiped = {},
                          !.stray = FALSE]
  /\ UNCHANGED <<call, cached, fetches, creating, deleting, serving, stored>>

\* Mutant: the composer keeps what it shows.
SelectedKeeping(p, s) == [p EXCEPT !.selected = s]

\* setSelectedSessionId and the effect that restores the draft of that session.
Selected(p, s) ==
  [p EXCEPT !.selected = s, !.shown = IF s = None THEN None ELSE p.drafts[s]]

\* A row of the list: a session that is there, or whose deletion is not answered yet.
Listed(s) ==
  /\ workspaceOf[s] = page.workspace
  /\ Exists(s) \/ (deleting.pc # "none" /\ deleting.session = s)

SelectSession(s) ==
  /\ Listed(s) /\ s # page.selected /\ PageAct
  /\ page' = Selected(page, s)
  /\ fetches' = Mounted(fetches, s, page.workspace)
  /\ seen' = [seen EXCEPT !.wiped = @ \ {s}, !.stray = ~Exists(s)]
  /\ UNCHANGED <<call, cached, creating, deleting, serving, stored>>

\* The composer is there for a session whose detail has come, and disabled while streaming.
Composer == page.selected # None /\ workspaceOf[page.selected] = page.workspace /\ ~page.streaming

UpdatePromptDraft(text) ==
  /\ Composer /\ text # page.shown /\ PageAct
  /\ page' = [page EXCEPT !.shown = text, !.drafts[page.selected] = text]
  /\ seen' = [seen EXCEPT !.wiped = @ \ {page.selected}]
  /\ UNCHANGED <<call, cached, fetches, creating, deleting, serving, stored>>

Submitted == {n \in Prompted : serving[n].pc # "none"}

SubmitPrompt ==
  /\ Composer /\ page.shown # None /\ Submitted # Prompted /\ PageAct
  /\ LET n == Cardinality(Submitted) + 1 IN
       /\ call' = [NoCall EXCEPT !.open = TRUE, !.n = n, !.session = page.selected,
                                 !.prompt = page.shown]
       /\ serving' = [serving EXCEPT ![n] = [NoRequest EXCEPT !.pc = "asked",
                        !.session = page.selected, !.workspace = page.workspace]]
  /\ page' = [page EXCEPT !.streaming = TRUE, !.streamingId = 0, !.hasOutput = FALSE]
  /\ UNCHANGED <<cached, fetches, creating, deleting, stored, seen>>

\* The Stop button is part of the composer.
StopStreaming ==
  /\ call.open /\ ~call.aborted /\ PageAct
  /\ page.selected # None /\ workspaceOf[page.selected] = page.workspace
  /\ call' = [call EXCEPT !.aborted = TRUE]
  /\ UNCHANGED <<page, cached, fetches, creating, deleting, serving, stored, seen>>

\* handleCreateSession and the handlers of a deletion: what is asked names the workspace of
\* the route; the answer of a deletion meets the selection its handler has captured.
CreateSession ==
  /\ creating.pc = "none" /\ PageAct
  /\ \E s \in Sessions : /\ stored[s] = Unborn /\ workspaceOf[s] = page.workspace
                         /\ creating' = [NoChange EXCEPT !.pc = "asked", !.session = s]
  /\ UNCHANGED <<page, call, cached, fetches, deleting, serving, stored, seen>>

ConfirmDeleteSession(s) ==
  /\ deleting.pc = "none" /\ Exists(s) /\ workspaceOf[s] = page.workspace /\ PageAct
  /\ deleting' = [pc |-> "asked", session |-> s, selected |-> page.selected]
  /\ UNCHANGED <<page, call, cached, fetches, creating, serving, stored, seen>>

Change ==
  /\ \/ /\ creating.pc = "asked"
        /\ stored' = [stored EXCEPT ![creating.session] = <<>>]
        /\ creating' = [creating EXCEPT !.pc = "done"] /\ UNCHANGED <<deleting, seen>>
     \/ /\ deleting.pc = "asked"
        /\ stored' = [stored EXCEPT ![deleting.session] = Deleted]
        /\ deleting' = [deleting EXCEPT !.pc = "done"] /\ UNCHANGED creating
        /\ seen' = [seen EXCEPT !.stray = @ \/ page.selected = deleting.session]
  /\ Quiet /\ UNCHANGED <<page, call, cached, fetches, serving>>

\* The session that was created is selected, whichever workspace is open by now.
SessionCreated ==
  /\ creating.pc = "done" /\ creating' = NoChange
  /\ page' = Selected(page, creating.session)
  /\ IF workspaceOf[creating.session] = page.workspace
     THEN fetches' = Mounted(fetches, creating.session, page.workspace)
     ELSE UNCHANGED fetches
  /\ seen' = [seen EXCEPT !.stray = ~Exists(creating.session)
                                    \/ workspaceOf[creating.session] # page.workspace]
  /\ Quiet /\ UNCHANGED <<call, cached, deleting, serving, stored>>

SessionDeleted ==
  /\ deleting.pc = "done" /\ deleting' = NoChange
  /\ page' = IF deleting.selected = deleting.session THEN Selected(page, None) ELSE page
  /\ seen' = [seen EXCEPT !.stray = page'.selected # None /\ @]
  /\ Quiet /\ UNCHANGED <<call, cached, fetches, creating, serving, stored>>

-----------------------------------------------------------------------------
(* The API's side of a submitted prompt: what it stores, it stores before  *)
(* it says so, and it goes on for a while after the client has left.       *)

Written(n, frame) == IF serving[n].left THEN serving[n].frames ELSE Append(serving[n].frames, frame)

\* A message the client no longer hears of, or that a fetch has just missed.
Store(n, message) ==
  LET s == serving[n].session IN
    /\ stored' = [stored EXCEPT ![s] = Append(@, message)]
    /\ IF serving[n].left
       THEN /\ seen' = [seen EXCEPT !.doubtful = @ \cup {s}]
            /\ fetches' = [fetches EXCEPT ![s].sure = FALSE]
       ELSE UNCHANGED <<seen, fetches>>

Accepted(n) == /\ Exists(serving[n].session)
               /\ serving[n].workspace = workspaceOf[serving[n].session]

StoreUserMessage(n) ==
  /\ serving[n].pc = "asked" /\ Accepted(n)
  /\ Store(n, User(n))
  /\ serving' = [serving EXCEPT ![n].pc = "started", ![n].frames = Written(n, "user_message")]
  /\ Quiet /\ UNCHANGED <<page, call, cached, creating, deleting>>

SendDelta(n) ==
  /\ serving[n].pc = "started" /\ ~serving[n].left /\ serving[n].pieces < MaxDeltas
  /\ serving' = [serving EXCEPT ![n].pieces = @ + 1, ![n].frames = Written(n, "delta")]
  /\ Quiet /\ UNCHANGED <<page, call, cached, fetches, creating, deleting, stored, seen>>

Finish(n) ==
  /\ serving[n].pc = "started" /\ serving[n].pieces > 0 /\ Exists(serving[n].session)
  /\ Store(n, Reply(n))
  /\ serving' = [serving EXCEPT ![n].pc = "over",
                   ![n].frames = IF serving[n].left THEN @ ELSE @ \o <<"assistant_message", "done">>]
  /\ Quiet /\ UNCHANGED <<page, call, cached, creating, deleting>>

\* The request is refused, the generation fails, or the API notices that the client has
\* left; a partial answer is stored, and told before the error.
GiveUp(n) ==
  LET partial == serving[n].pieces > 0 /\ Exists(serving[n].session) IN
    /\ serving[n].pc \in {"asked", "started"}
    /\ IF serving[n].left \/ ~Accepted(n) THEN Quiet ELSE PageFault
    /\ IF partial THEN Store(n, Reply(n)) ELSE UNCHANGED <<stored, seen, fetches>>
    /\ serving' = [serving EXCEPT ![n].pc = "over", ![n].frames =
           IF serving[n].left THEN @
           ELSE @ \o (IF partial THEN <<"assistant_message", "error">> ELSE <<"error">>)]
    /\ UNCHANGED <<page, call, cached, creating, deleting>>

\* The connection breaks: the client reads an error after what has come so far.
BreakStream(n) ==
  /\ call.open /\ call.n = n /\ ~serving[n].left /\ PageFault
  /\ serving' = [serving EXCEPT ![n].left = TRUE, ![n].frames = Append(@, "error")]
  /\ UNCHANGED <<page, call, cached, fetches, creating, deleting, stored, seen>>

-----------------------------------------------------------------------------
(* What the page does with the events of the reply it waits for.           *)

\* updateCachedMessages: the cache begins with what the events write.
Data(s) == IF cached[s] = NoData THEN <<>> ELSE cached[s]

Has(list, m) == \E i \in DOMAIN list : list[i] = m
HasTemporary(list, id) == \E i \in DOMAIN list : IsTemporary(list[i], id)

\* Every message of a list that is the temporary one with this id becomes another.
Replaced(list, id, new(_)) ==
  [i \in DOMAIN list |-> IF IsTemporary(list[i], id) THEN new(list[i]) ELSE list[i]]

\* A list without the temporary message of this id, of which it has one at most: ids are
\* given once.
WithoutTemporary(list, id) ==
  LET at == CHOOSE i \in DOMAIN list : IsTemporary(list[i], id) IN
    IF HasTemporary(list, id) THEN SubSeq(list, 1, at - 1) \o SubSeq(list, at + 1, Len(list))
    ELSE list

\* A frame has been dispatched.
Taken == serving' = [serving EXCEPT ![call.n].frames = Tail(@)]

Arrives(frame) ==
  /\ call.open /\ ~call.aborted /\ serving[call.n].frames # <<>>
  /\ Head(serving[call.n].frames) = frame

\* Mutant: the draft of the session that is selected now is dropped.
SentHere(p, s) == IF p.selected = None THEN p ELSE [p EXCEPT !.shown = None, !.drafts[p.selected] = None]

\* onUserMessage: the prompt leaves the composer, and the draft of its session.
Sent(p, s) == [p EXCEPT !.shown = None, !.drafts[s] = None]

\* appendCachedMessage, and the prompt has been sent.
TakeUserMessage ==
  /\ Arrives("user_message") /\ Taken
  /\ cached' = [cached EXCEPT ![call.session] =
                  IF Has(Data(call.session), User(call.n)) THEN Data(call.session) ELSE Append(Data(call.session), User(call.n))]
  /\ page' = Sent(page, call.session)
  /\ seen' = [seen EXCEPT !.wiped = IF page.selected \in {None, call.session} THEN @
                                    ELSE @ \cup {page.selected}]
  /\ Quiet /\ UNCHANGED <<call, fetches, creating, deleting, stored>>

\* Mutant: the piece goes to the session that is selected now.
AppendDeltaHere ==
  /\ page.selected # None
  /\ LET id == IF page.streamingId = 0 THEN page.ids + 1 ELSE page.streamingId
         piece == call.taken + 1
         list == Data(page.selected)
     IN /\ cached' = [cached EXCEPT ![page.selected] =
                 IF HasTemporary(list, id)
                 THEN Replaced(list, id, LAMBDA m : [m EXCEPT !.pieces = Append(@, piece)])
                 ELSE Append(list, Temporary(id, call.n, <<piece>>))]
        /\ page' = [page EXCEPT !.streamingId = id, !.hasOutput = TRUE,
                                !.ids = IF id > @ THEN id ELSE @]

\* appendAssistantDelta: the temporary message is made by the first piece, and again when
\* a fetch or a change of workspace has taken it away.
AppendDelta ==
  LET id == IF page.streamingId = 0 THEN page.ids + 1 ELSE page.streamingId
      piece == call.taken + 1
      list == Data(call.session)
  IN /\ cached' = [cached EXCEPT ![call.session] =
              IF HasTemporary(list, id)
              THEN Replaced(list, id, LAMBDA m : [m EXCEPT !.pieces = Append(@, piece)])
              ELSE Append(list, Temporary(id, call.n, <<piece>>))]
     /\ page' = [page EXCEPT !.streamingId = id, !.hasOutput = TRUE,
                             !.ids = IF id > @ THEN id ELSE @]

TakeDelta ==
  /\ Arrives("delta") /\ Taken /\ AppendDelta
  /\ call' = [call EXCEPT !.taken = @ + 1]
  /\ Quiet /\ UNCHANGED <<fetches, creating, deleting, stored, seen>>

\* reconcileAssistantMessage: a fetch may have brought the answer already.
Reconciled(list, answer) ==
  IF Has(list, answer) THEN WithoutTemporary(list, page.streamingId)
  ELSE IF page.streamingId = 0 THEN Append(list, answer)
  ELSE Replaced(list, page.streamingId, LAMBDA m : answer)

TakeAssistantMessage ==
  /\ Arrives("assistant_message") /\ Taken
  /\ cached' = [cached EXCEPT ![call.session] = Reconciled(Data(call.session), Reply(call.n))]
  /\ page' = [page EXCEPT !.streamingId = 0]
  /\ Quiet /\ UNCHANGED <<call, fetches, creating, deleting, stored, seen>>

\* The finally block: a partial answer stays as it is shown, otherwise the messages are
\* fetched again.
Finally(s) ==
  IF page.streamingId # 0 /\ page.hasOutput
  THEN /\ page' = [page EXCEPT !.streaming = FALSE]
       /\ fetches' = [fetches EXCEPT ![s].sure = FALSE]
       /\ seen' = [seen EXCEPT !.doubtful = @ \cup {s}]
  ELSE /\ page' = [page EXCEPT !.streaming = FALSE, !.streamingId = 0, !.hasOutput = FALSE]
       /\ LET alone == cached[s] = NoData /\ fetches[s].pc # "asked"
          IN /\ fetches' = IF alone THEN [RefetchMessages(s) EXCEPT ![s].sure = FALSE]
                           ELSE RefetchMessages(s)
             /\ seen' = [seen EXCEPT !.doubtful = IF alone THEN @ \cup {s} ELSE @]

StreamDone ==
  /\ Arrives("done") /\ serving' = [serving EXCEPT ![call.n].frames = <<>>, ![call.n].left = TRUE]
  /\ call' = NoCall /\ Finally(call.session)
  /\ Quiet /\ UNCHANGED <<cached, creating, deleting, stored>>

\* The catch block, after an error of the stream or the user's Stop: a partial answer is
\* marked incomplete.
StreamFailed ==
  /\ \/ call.open /\ call.aborted
     \/ Arrives("error")
  /\ serving' = [serving EXCEPT ![call.n].frames = <<>>, ![call.n].left = TRUE]
  /\ call' = NoCall
  /\ cached' = IF page.streamingId = 0 THEN cached
               ELSE [cached EXCEPT ![call.session] =
                       IF page.hasOutput
                       THEN Replaced(Data(call.session), page.streamingId,
                                     LAMBDA m : [m EXCEPT !.incomplete = TRUE])
                       ELSE WithoutTemporary(Data(call.session), page.streamingId)]
  /\ Finally(call.session)
  /\ Quiet /\ UNCHANGED <<creating, deleting, stored>>

-----------------------------------------------------------------------------
UserStep ==
  \/ \E w \in PageWorkspaces : SwitchWorkspace(w)
  \/ \E s \in Sessions : SelectSession(s) \/ ConfirmDeleteSession(s)
  \/ \E text \in Prompts \cup {None} : UpdatePromptDraft(text)
  \/ SubmitPrompt \/ StopStreaming \/ CreateSession

ApiStep ==
  \/ \E s \in Sessions : AnswerFetch(s) \/ LoseFetch(s)
  \/ \E n \in Prompted : StoreUserMessage(n) \/ SendDelta(n) \/ Finish(n) \/ GiveUp(n) \/ BreakStream(n)
  \/ Change

StreamStep ==
  TakeUserMessage \/ TakeDelta \/ TakeAssistantMessage \/ StreamDone \/ StreamFailed

QueryStep == SessionCreated \/ SessionDeleted \/ \E s \in Sessions : ReceiveFetch(s)

PageNext == UserStep \/ ApiStep \/ StreamStep \/ QueryStep

PageSpec == PageInit /\ [][PageNext]_pageVars

-----------------------------------------------------------------------------
PageTypeOK ==
  /\ page.workspace \in PageWorkspaces /\ page.selected \in Sessions \cup {None}
  /\ page.shown \in Prompts \cup {None} /\ page.drafts \in [Sessions -> Prompts \cup {None}]
  /\ page.streaming = call.open /\ page.streamingId <= page.ids
  /\ call.n \in 0..MaxPrompts /\ call.taken \in 0..MaxDeltas
  /\ \A s \in Sessions : fetches[s].pc \in {"none", "asked", "answered", "refused"}
  /\ \A n \in Prompted : serving[n].pc \in {"none", "asked", "started", "over"}
  /\ pageActs \in 0..MaxPageActs /\ pageFaults \in 0..MaxPageFaults

\* Messages never go to another session's list, however the user moves between sessions
\* and workspaces while a reply comes in, and a list has no message twice: once the stored
\* answer is shown and its stream has ended, what was shown of it while it came in is gone,
\* whatever fetches wrote meanwhile - unless it failed, and is marked so, or the workspace
\* was left.
ListsAreTheirOwn ==
  \A s \in {x \in Sessions : cached[x] # NoData} :
    \A i, j \in DOMAIN cached[s] :
      LET m == cached[s][i]  k == cached[s][j] IN
        /\ serving[m.n].session = s
        /\ i # j /\ m.kind = k.kind => m.n # k.n \/ ("id" \in DOMAIN m /\ m.id # k.id)
        /\ m.kind = "answer" /\ k.kind = "temporary" /\ k.n = m.n =>
             k.incomplete \/ m.n \in seen.moved \/ (call.open /\ call.n = m.n)

\* When nothing is under way, a list that was not left in doubt is what the database holds:
\* no fetch that started earlier has the last word over the events of a reply.  In doubt:
\* a partial answer was kept, a fetch failed, the API wrote after the page had left.
SettledListIsStored ==
  \A s \in Sessions \ seen.doubtful :
    /\ Exists(s) /\ cached[s] # NoData /\ fetches[s].pc = "none"
    /\ ~(call.open /\ call.session = s)
    => cached[s] = stored[s]

\* The selected session is one of the open workspace and is there, and the composer shows
\* its draft.  Not so when a mutation that was under way has selected or deleted a session
\* behind the user's back; and a user_message for another session blanks the draft that is
\* shown, until its session is selected again.
ComposerFollowsSelection ==
  page.selected # None =>
    /\ seen.stray \/ (Exists(page.selected) /\ workspaceOf[page.selected] = page.workspace)
    /\ page.selected \in seen.wiped \/ page.shown = page.drafts[page.selected]

\* A draft leaves its session only when it is edited there, when the workspace is left, or
\* when the API has stored exactly that text as a message of that session: a prompt that is
\* refused, or never heard of again, is still in the composer of its session.
DraftsAreKept ==
  \A s \in Sessions : page'.drafts[s] # page.drafts[s] =>
    \/ page'.workspace # page.workspace
    \/ page.selected = s /\ page'.shown = page'.drafts[s] /\ ~page'.streaming
    \/ /\ call.open /\ call.session = s /\ call.prompt = page.drafts[s] /\ page'.drafts[s] = None
       /\ serving[call.n].pc # "asked"

DraftsStayWithTheirSessions == [][DraftsAreKept]_pageVars
=============================================================================
