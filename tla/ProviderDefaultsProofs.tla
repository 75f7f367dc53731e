----------------------- MODULE ProviderDefaultsProofs -----------------------
(***************************************************************************)
(* Theorems about ProviderDefaults, for any number of providers and calls. *)
(***************************************************************************)
EXTENDS ProviderDefaults, TLAPS

-----------------------------------------------------------------------------
(* Types.                                                                  *)

\* A field of a call replaced by a value of its type leaves a call.
LEMMA CallFields ==
  ASSUME NEW call \in Call
  PROVE  /\ \A pc \in {"idle", "bootstrap", "find", "lock", "read", "commit", "listActive",
                       "fallback"} :
              [call EXCEPT !.pc = pc] \in Call
         /\ \A kind \in Kinds : [call EXCEPT !.kind = kind] \in Call
         /\ \A ids \in SUBSET Providers : [call EXCEPT !.fallbacks = ids] \in Call
         /\ \A p \in Providers \cup {0} : [call EXCEPT !.current = p] \in Call
         /\ \A b \in BOOLEAN : [call EXCEPT !.usable = b] \in Call
         /\ \A b \in BOOLEAN : [call EXCEPT !.isDefault = b] \in Call
BY DEF Call

\* The idle call is a call.
LEMMA IdleIsCall == Idle \in Call
BY DEF Idle, Call, Kinds

\* The default, as findFirst returns it, is a provider or null.
LEMMA CurrentIsProvider == currentDefault \in Providers \cup {0}
<1>1. CASE Defaults(rows) = {}
  BY <1>1 DEF currentDefault
<1>2. CASE Defaults(rows) # {}
  <2>1. currentDefault \in Defaults(rows)
    BY <1>2 DEF currentDefault
  <2> QED BY <2>1 DEF Defaults
<1> QED BY <1>1, <1>2

\* The automatic selection writes a well-typed table and log.
LEMMA SelectionType ==
  ASSUME NEW table \in [Providers -> Row], NEW old \in Providers \cup {0},
         NEW reason \in {"INITIAL_SELECTION", "PROVIDER_DISABLED", "PROVIDER_DELETED"},
         lastSwitch \in Switch, SelectAutomatic(table, old, reason)
  PROVE  rows' \in [Providers -> Row] /\ lastSwitch' \in Switch
<1>1. CASE Active(table) = {} /\ rows' = table /\ UNCHANGED lastSwitch
  BY <1>1
<1>2. ASSUME NEW next \in Active(table),
             rows' = [table EXCEPT ![next].default = "AUTO"],
             lastSwitch' = [old |-> old, new |-> next, reason |-> reason]
      PROVE  rows' \in [Providers -> Row] /\ lastSwitch' \in Switch
  <2>1. next \in Providers /\ table[next] \in Row
    BY DEF Active
  <2>2. [table[next] EXCEPT !.default = "AUTO"] \in Row
    BY <2>1 DEF Row
  <2> QED BY <1>2, <2>1, <2>2 DEF Switch
<1> QED BY <1>1, <1>2 DEF SelectAutomatic

\* A new configuration is a row.
LEMMA CreateType ==
  ASSUME rows \in [Providers -> Row], NEW enabled \in BOOLEAN, Create(enabled)
  PROVE  rows' \in [Providers -> Row]
<1>1. [Absent EXCEPT !.state = "present", !.enabled = enabled] \in Row
  BY DEF Absent, Row
<1> QED BY <1>1 DEF Create

\* A call whose default is known goes on as a call.
LEMMA FoundType ==
  ASSUME NEW c \in Calls, calls \in [Calls -> Call], NEW p \in Providers \cup {0}, Found(c, p)
  PROVE  calls' \in [Calls -> Call]
<1>1. [Idle EXCEPT !.pc = "listActive", !.kind = "generate", !.from = p] \in Call
  BY DEF Idle, Call, Kinds
<1> QED BY <1>1, IdleIsCall DEF Found

\* A step that only moves a call within its program keeps the calls typed.
LEMMA GotoType ==
  ASSUME NEW c \in Calls, calls \in [Calls -> Call],
         NEW pc \in {"find", "bootstrap", "lock", "read"}, Goto(c, pc)
  PROVE  calls' \in [Calls -> Call]
BY CallFields DEF Goto

\* Every commit and rollback keeps the lock typed.
LEMMA ReleaseType ==
  ASSUME NEW c \in Calls, lock \in Calls \cup {NoCall}, Release(c)
  PROVE  lock' \in Calls \cup {NoCall}
BY DEF Release

\* The calls that begin keep the types.
LEMMA BeginType ==
  ASSUME TypeOK, NEW c \in Calls, Begin(c)
  PROVE  TypeOK'
<1> USE DEF TypeOK
<1>1. CASE CreateProvider(c)
  <2>1. rows' \in [Providers -> Row] /\ UNCHANGED <<lock, lastSwitch>>
    BY <1>1, CreateType DEF CreateProvider, Create
  <2>2. [calls[c] EXCEPT !.pc = "find"] \in Call
    BY CallFields
  <2>3. [[calls[c] EXCEPT !.pc = "find"] EXCEPT !.kind = "select"] \in Call
    BY <2>2, CallFields DEF Kinds
  <2>4. calls' \in [Calls -> Call]
    BY <1>1, <2>3 DEF CreateProvider
  <2> QED BY <2>1, <2>4
<1>2. CASE ListProviders(c)
  BY <1>2, GotoType DEF ListProviders
<1>3. CASE Generate(c)
  <2>1. [calls[c] EXCEPT !.pc = "find"] \in Call
    BY CallFields
  <2>2. [[calls[c] EXCEPT !.pc = "find"] EXCEPT !.kind = "generate"] \in Call
    BY <2>1, CallFields DEF Kinds
  <2> QED BY <1>3, <2>2 DEF Generate
<1>4. ASSUME NEW p \in Providers, NEW kind \in Kinds, NEW enabled \in {"true", "false", "keep"},
             Administer(c, kind, p, enabled)
      PROVE  TypeOK'
  <2>1. [Idle EXCEPT !.pc = "lock", !.kind = kind, !.id = p, !.enabled = enabled] \in Call
    BY DEF Idle, Call
  <2> QED BY <1>4, <2>1 DEF Administer
<1> QED BY <1>1, <1>2, <1>3, <1>4 DEF Begin, Kinds

\* The steps of a call outside its commit keep the types.
LEMMA StepType ==
  ASSUME TypeOK, NEW c \in Calls,
         \/ Bootstrap(c) \/ Find(c) \/ ListActive(c) \/ NotSwitched(c) \/ Switched(c)
         \/ Lock(c) \/ Read(c) \/ Fail(c)
  PROVE  TypeOK'
<1> USE DEF TypeOK
<1>1. CASE Bootstrap(c)
  <2>1. rows' \in [Providers -> Row]
    BY <1>1, CreateType DEF Bootstrap
  <2> QED BY <1>1, <2>1, GotoType DEF Bootstrap, Create
<1>2. CASE Find(c)
  <2>1. CASE Found(c, currentDefault)
    BY <1>2, <2>1, FoundType, CurrentIsProvider DEF Find
  <2>2. CASE Goto(c, "lock")
    BY <1>2, <2>2, GotoType DEF Find
  <2> QED BY <1>2, <2>1, <2>2 DEF Find
<1>3. CASE ListActive(c)
  <2> DEFINE ids == IF calls[c].from \in Active(rows) THEN Active(rows) \ {calls[c].from} ELSE {}
  <2>1. ids \in SUBSET Providers
    BY DEF Active
  <2>2. [calls[c] EXCEPT !.pc = "fallback"] \in Call
    BY CallFields
  <2>3. [[calls[c] EXCEPT !.pc = "fallback"] EXCEPT !.fallbacks = ids] \in Call
    BY <2>1, <2>2, CallFields
  <2> HIDE DEF ids
  <2>4. calls' = [calls EXCEPT ![c].pc = "fallback", ![c].fallbacks = ids]
    BY <1>3 DEF ListActive, ids
  <2> QED BY <1>3, <2>3, <2>4 DEF ListActive
<1>4. CASE NotSwitched(c)
  BY <1>4, IdleIsCall DEF NotSwitched
<1>5. CASE Switched(c)
  <2>1. PICK p \in Providers :
          calls' = [calls EXCEPT ![c] = [Idle EXCEPT !.pc = "lock", !.kind = "promote", !.id = p,
                                                     !.from = calls[c].from]]
    BY <1>5 DEF Switched, Active
  <2>2. calls[c].from \in Providers \cup {0}
    BY DEF Call
  <2>3. [Idle EXCEPT !.pc = "lock", !.kind = "promote", !.id = p, !.from = calls[c].from] \in Call
    BY <2>2 DEF Idle, Call, Kinds
  <2> QED BY <1>5, <2>1, <2>3 DEF Switched
<1>6. CASE Lock(c)
  BY <1>6, GotoType DEF Lock
<1>7. CASE Read(c)
  <2> DEFINE call1 == [calls[c] EXCEPT !.pc = "commit"]
             call2 == [call1 EXCEPT !.current = currentDefault]
             usable == calls[c].id \in Active(rows)
             call3 == [call2 EXCEPT !.usable = usable]
             isDefault == calls[c].id \in Defaults(rows)
             call4 == [call3 EXCEPT !.isDefault = isDefault]
  <2>1. call1 \in Call
    BY CallFields
  <2>2. call2 \in Call
    BY <2>1, CallFields, CurrentIsProvider
  <2>3. usable \in BOOLEAN /\ isDefault \in BOOLEAN
    OBVIOUS
  <2>4. calls' = [calls EXCEPT ![c] = call4]
    BY <1>7 DEF Read
  <2> HIDE DEF usable, isDefault, call2
  <2>5. call3 \in Call
    BY <2>2, <2>3, CallFields
  <2> HIDE DEF call3
  <2>6. call4 \in Call
    BY <2>3, <2>5, CallFields
  <2> HIDE DEF call4
  <2>7. calls' \in [Calls -> Call]
    BY <2>4, <2>6
  <2>8. UNCHANGED <<rows, lock, lastSwitch>>
    BY <1>7 DEF Read
  <2> QED BY <2>7, <2>8
<1>8. CASE Fail(c)
  BY <1>8, IdleIsCall, ReleaseType DEF Fail
<1> QED BY <1>1, <1>2, <1>3, <1>4, <1>5, <1>6, <1>7, <1>8

\* The commits keep the types.
LEMMA CommitType ==
  ASSUME TypeOK, NEW c \in Calls, Commit(c)
  PROVE  TypeOK'
<1> USE DEF TypeOK
<1>1. calls[c].id \in Providers \cup {0} /\ calls[c].from \in Providers \cup {0}
      /\ calls[c].current \in Providers \cup {0}
  BY DEF Call
<1>2. lock' \in Calls \cup {NoCall}
  BY ReleaseType DEF Commit, CommitSelect, CommitSetDefault, CommitPromote, CommitUpdate,
                     CommitDelete
<1>3. CASE CommitSelect(c)
  <2>1. CASE calls[c].current # 0
    BY <1>1, <1>2, <1>3, <2>1, FoundType DEF CommitSelect
  <2>2. CASE calls[c].current = 0
    <3>1. rows' \in [Providers -> Row] /\ lastSwitch' \in Switch
      BY <1>3, <2>2, SelectionType DEF CommitSelect
    <3>2. lastSwitch'.new \in Providers \cup {0}
      BY <3>1 DEF Switch
    <3>3. calls' \in [Calls -> Call]
      BY <1>3, <2>2, <3>2, FoundType, IdleIsCall DEF CommitSelect
    <3> QED BY <1>2, <3>1, <3>3
  <2> QED BY <2>1, <2>2
<1>4. CASE CommitSetDefault(c)
  <2>1. \A p \in Providers :
          [rows[p] EXCEPT !.default = IF p = calls[c].id THEN "ADMIN" ELSE "none"] \in Row
    BY DEF Row
  <2>2. rows' \in [Providers -> Row]
    BY <1>4, <2>1 DEF CommitSetDefault
  <2> QED BY <1>2, <1>4, <2>2, IdleIsCall DEF CommitSetDefault
<1>5. CASE CommitPromote(c)
  <2>1. calls' \in [Calls -> Call]
    BY <1>5, IdleIsCall DEF CommitPromote
  <2>2. rows' \in [Providers -> Row] /\ lastSwitch' \in Switch
    <3> DEFINE from == calls[c].from
               to == calls[c].id
               table == [rows EXCEPT ![from].default = "none"]
    <3>1. CASE UNCHANGED <<rows, lastSwitch>>
      BY <3>1
    <3>2. CASE /\ rows' = [rows EXCEPT ![from].default = "none", ![to].default = "AUTO"]
               /\ lastSwitch' = [old |-> from, new |-> to, reason |-> "AVAILABILITY_FAILURE"]
      <4>1. \A row \in Row : [row EXCEPT !.default = "none"] \in Row
                             /\ [row EXCEPT !.default = "AUTO"] \in Row
        BY DEF Row
      <4>2. table \in [Providers -> Row]
        BY <4>1
      <4>3. rows' = [table EXCEPT ![to] = [table[to] EXCEPT !.default = "AUTO"]]
        BY <3>2
      <4> HIDE DEF table
      <4>4. rows' \in [Providers -> Row]
        BY <4>1, <4>2, <4>3
      <4> QED BY <1>1, <3>2, <4>4 DEF Switch
    <3> QED BY <1>5, <3>1, <3>2 DEF CommitPromote
  <2> QED BY <1>2, <2>1, <2>2
<1>6. CASE CommitUpdate(c)
  <2> DEFINE p == calls[c].id
             removingDefault == calls[c].isDefault /\ calls[c].enabled = "false"
             updated == [rows EXCEPT ![p].enabled = EnabledAfter(calls[c], rows[p]),
                                     ![p].default = IF removingDefault THEN "none" ELSE @]
  <2>1. updated \in [Providers -> Row]
    <3>1. CASE p \in Providers
      <4>1. EnabledAfter(calls[c], rows[p]) \in BOOLEAN
        BY <3>1 DEF EnabledAfter, Row
      <4>2. \A row \in Row, b \in BOOLEAN :
              /\ [row EXCEPT !.enabled = b] \in Row
              /\ [row EXCEPT !.default = IF removingDefault THEN "none" ELSE @] \in Row
        BY DEF Row
      <4> DEFINE table == [rows EXCEPT ![p] = [rows[p] EXCEPT
                                                 !.enabled = EnabledAfter(calls[c], rows[p])]]
      <4>3. table \in [Providers -> Row]
        BY <3>1, <4>1, <4>2
      <4>4. updated = [table EXCEPT ![p] = [table[p] EXCEPT
                                              !.default = IF removingDefault THEN "none" ELSE @]]
        OBVIOUS
      <4> HIDE DEF table, updated, removingDefault
      <4> QED BY <3>1, <4>2, <4>3, <4>4
    <3>2. CASE p \notin Providers
      BY <3>2
    <3> QED BY <3>1, <3>2
  <2> HIDE DEF updated
  <2>2. \/ SelectAutomatic(updated, p, "PROVIDER_DISABLED")
        \/ SelectAutomatic(updated, 0, "INITIAL_SELECTION")
        \/ rows' = updated /\ UNCHANGED lastSwitch
    BY <1>6 DEF CommitUpdate, updated
  <2>3. rows' \in [Providers -> Row] /\ lastSwitch' \in Switch
    BY <1>1, <2>1, <2>2, SelectionType
  <2> QED BY <1>2, <1>6, <2>3, IdleIsCall DEF CommitUpdate
<1>7. CASE CommitDelete(c)
  <2> DEFINE gone == [state |-> "deleted", enabled |-> FALSE, default |-> "none"]
             deleted == [rows EXCEPT ![calls[c].id] = gone]
  <2>1. deleted \in [Providers -> Row]
    BY DEF Row
  <2>2. \/ SelectAutomatic(deleted, calls[c].id, "PROVIDER_DELETED")
        \/ rows' = deleted /\ UNCHANGED lastSwitch
    BY <1>7 DEF CommitDelete
  <2> HIDE DEF deleted
  <2>3. rows' \in [Providers -> Row] /\ lastSwitch' \in Switch
    BY <1>1, <2>1, <2>2, SelectionType
  <2> QED BY <1>2, <1>7, <2>3, IdleIsCall DEF CommitDelete
<1> QED BY <1>3, <1>4, <1>5, <1>6, <1>7 DEF Commit

\* Every reachable state is well typed.
THEOREM TypeCorrect == Spec => []TypeOK
<1>1. Init => TypeOK
  BY IdleIsCall DEF Init, TypeOK, Absent, Row, Switch
<1>2. TypeOK /\ [Next]_vars => TypeOK'
  <2> SUFFICES ASSUME TypeOK, [Next]_vars PROVE TypeOK'
    OBVIOUS
  <2>1. CASE UNCHANGED vars
    BY <2>1 DEF TypeOK, vars
  <2>2. ASSUME NEW c \in Calls, Begin(c) \/ Step(c) \/ Fail(c)
        PROVE  TypeOK'
    BY <2>2, BeginType, StepType, CommitType DEF Step
  <2> QED BY <2>1, <2>2 DEF Next
<1> QED BY <1>1, <1>2, PTL DEF Spec

-----------------------------------------------------------------------------
(* The inductive invariant.                                                *)

\* A transaction that has begun to read is the holder of the lock.
LockHeld(c) == calls[c].pc \in {"read", "commit"} => lock = c

\* What a transaction has read still holds when it commits.
ReadsHold(c) ==
  calls[c].pc = "commit" =>
    /\ calls[c].current = currentDefault
    /\ calls[c].usable => calls[c].id \in Active(rows)
    /\ calls[c].isDefault <=> calls[c].id \in Defaults(rows)

Known(table) == {p \in Providers : table[p].state # "absent"}

\* Transactions are about configurations that were created.
TargetExists(c) ==
  /\ calls[c].pc \in {"lock", "read", "commit"} =>
       /\ calls[c].kind \in {"setDefault", "promote", "update", "delete"} =>
            calls[c].id \in Known(rows)
       /\ calls[c].kind = "promote" => calls[c].from \in Providers
  /\ calls[c].pc \in {"listActive", "fallback"} => calls[c].from \in Providers
  /\ calls[c].pc \in {"idle", "bootstrap", "find"} => calls[c].kind \in {"select", "generate"}

CallInv(c) == LockHeld(c) /\ ReadsHold(c) /\ TargetExists(c)

\* At most one default, and a usable one.
Sound(table) ==
  /\ \A p, q \in Defaults(table) : p = q
  /\ Defaults(table) \subseteq Active(table)

IInv == TypeOK /\ Sound(rows) /\ \A c \in Calls : CallInv(c)

\* The default, as findFirst returns it, is one of the defaults there are.
LEMMA CurrentIsDefault ==
  /\ Defaults(rows) = {} => currentDefault = 0
  /\ Defaults(rows) # {} => currentDefault \in Defaults(rows)
  /\ currentDefault = 0 => Defaults(rows) = {}
<1>1. Defaults(rows) # {} => currentDefault \in Defaults(rows)
  BY DEF currentDefault
<1>2. 0 \notin Defaults(rows)
  BY DEF Defaults, Providers
<1> QED BY <1>1, <1>2 DEF currentDefault

\* The automatic selection where no default is left makes at most one, a usable one.
LEMMA SelectionSound ==
  ASSUME NEW table \in [Providers -> Row], NEW old, NEW reason,
         Defaults(table) = {}, SelectAutomatic(table, old, reason)
  PROVE  /\ Sound(rows')
         /\ Known(rows') = Known(table)
         /\ Active(rows') = Active(table)
         /\ \/ Active(table) = {} /\ rows' = table
            \/ \E next \in Active(table) :
                 /\ \A p \in Active(table) : next <= p
                 /\ Defaults(rows') = {next} /\ rows'[next].default = "AUTO"
                 /\ lastSwitch'.new = next
<1>1. CASE Active(table) = {} /\ rows' = table
  BY <1>1 DEF Sound
<1>2. ASSUME NEW next \in Active(table), \A p \in Active(table) : next <= p,
             rows' = [table EXCEPT ![next].default = "AUTO"],
             lastSwitch' = [old |-> old, new |-> next, reason |-> reason]
      PROVE  /\ Sound(rows')
             /\ Known(rows') = Known(table)
             /\ Active(rows') = Active(table)
             /\ Defaults(rows') = {next} /\ rows'[next].default = "AUTO"
             /\ lastSwitch'.new = next
  <2>1. next \in Providers
    BY DEF Active
  <2>2. \A p \in Providers : table[p] \in Row
    OBVIOUS
  <2>3. \A p \in Providers : /\ rows'[p].state = table[p].state
                            /\ rows'[p].enabled = table[p].enabled
                            /\ rows'[p].default = IF p = next THEN "AUTO" ELSE table[p].default
    BY <1>2, <2>1, <2>2 DEF Row
  <2>4. Known(rows') = Known(table) /\ Active(rows') = Active(table)
    BY <2>3 DEF Known, Active
  <2>5. Defaults(rows') = {next}
    BY <2>1, <2>3 DEF Defaults
  <2> QED BY <1>2, <2>1, <2>3, <2>4, <2>5 DEF Sound
<1> QED BY <1>1, <1>2 DEF SelectAutomatic

\* A new configuration is no default.
LEMMA CreateSound ==
  ASSUME rows \in [Providers -> Row], Sound(rows), NEW enabled \in BOOLEAN, Create(enabled)
  PROVE  /\ Sound(rows')
         /\ Known(rows) \subseteq Known(rows')
         /\ Defaults(rows') = Defaults(rows)
         /\ Active(rows) \subseteq Active(rows')
         /\ \A p \in Defaults(rows) : rows'[p] = rows[p]
         /\ \E p \in Providers : Active(rows') \in {Active(rows) \cup {p}, Active(rows) \ {p}}
<1>1. PICK p \in Providers :
        /\ rows[p].state = "absent"
        /\ rows' = [rows EXCEPT ![p] = [Absent EXCEPT !.state = "present", !.enabled = enabled]]
  BY DEF Create
<1>2. p \notin Active(rows) /\ p \notin Defaults(rows)
  BY <1>1 DEF Active, Sound
<1>3. /\ rows'[p].state = "present" /\ rows'[p].enabled = enabled /\ rows'[p].default = "none"
      /\ \A q \in Providers \ {p} : rows'[q] = rows[q]
  BY <1>1 DEF Absent
<1>4. Defaults(rows') = Defaults(rows)
  BY <1>2, <1>3 DEF Defaults
<1>5. Active(rows') = IF enabled THEN Active(rows) \cup {p} ELSE Active(rows) \ {p}
  BY <1>2, <1>3 DEF Active
<1>6. Known(rows) \subseteq Known(rows')
  BY <1>3 DEF Known
<1>7. \A q \in Defaults(rows) : rows'[q] = rows[q]
  BY <1>2, <1>3 DEF Defaults
<1> QED BY <1>2, <1>4, <1>5, <1>6, <1>7 DEF Sound

-----------------------------------------------------------------------------
(* What a commit does to the table.                                        *)

OneChange(p) == Active(rows') \in {Active(rows) \cup {p}, Active(rows) \ {p}}

\* The default stays, the first usable provider takes its place, an
\* administrator chooses it, or a reply promotes it.
Moves(p) ==
  \/ /\ OneChange(p) /\ Defaults(rows') = Defaults(rows)
     /\ \A q \in Defaults(rows) : rows'[q].default = rows[q].default
  \/ /\ OneChange(p) /\ Defaults(rows) \cap Active(rows') = {}
     /\ \/ Active(rows') = {} /\ Defaults(rows') = {}
        \/ \E next \in Active(rows') :
             /\ \A q \in Active(rows') : next <= q
             /\ Defaults(rows') = {next} /\ rows'[next].default = "AUTO"
  \/ /\ p \in Active(rows) /\ Active(rows') = Active(rows)
     /\ Defaults(rows') = {p} /\ rows'[p].default = "ADMIN"
  \/ /\ p \in Active(rows) \ Defaults(rows) /\ Active(rows') = Active(rows)
     /\ Defaults(rows) # {}
     /\ Defaults(rows') = {p} /\ rows'[p].default = "AUTO"

\* What is shown of each commit.
SoundMove ==
  /\ Sound(rows')
  /\ Known(rows) \subseteq Known(rows')
  /\ rows' = rows \/ \E p \in Providers : Moves(p)

\* The selection after which nothing else of the table has changed but one provider.
LEMMA SelectionMoves ==
  ASSUME rows \in [Providers -> Row], NEW table \in [Providers -> Row], NEW p \in Providers,
         NEW old, NEW reason, SelectAutomatic(table, old, reason),
         Defaults(table) = {}, Known(table) = Known(rows),
         Active(table) \in {Active(rows) \cup {p}, Active(rows) \ {p}},
         Defaults(rows) \cap Active(table) = {}
  PROVE  SoundMove
<1>1. Sound(rows') /\ Known(rows') = Known(table) /\ Active(rows') = Active(table)
  BY SelectionSound
<1>2. \/ Active(rows') = {} /\ Defaults(rows') = {}
      \/ \E next \in Active(rows') :
           /\ \A q \in Active(rows') : next <= q
           /\ Defaults(rows') = {next} /\ rows'[next].default = "AUTO"
  BY <1>1, SelectionSound
<1>3. Moves(p)
  BY <1>1, <1>2 DEF Moves, OneChange
<1> QED BY <1>1, <1>3 DEF SoundMove

\* getOrSelectDefault leaves the default it finds and selects one where there is none.
LEMMA SelectSound ==
  ASSUME IInv, NEW c \in Calls, CommitSelect(c)
  PROVE  SoundMove
<1>1. calls[c].current = currentDefault
  BY DEF IInv, CallInv, ReadsHold, CommitSelect
<1>2. CASE calls[c].current # 0
  BY <1>2 DEF CommitSelect, SoundMove, IInv
<1>3. CASE calls[c].current = 0
  <2>1. Defaults(rows) = {} /\ SelectAutomatic(rows, 0, "INITIAL_SELECTION")
    BY <1>1, <1>3, CurrentIsDefault DEF CommitSelect
  <2>2. CASE Active(rows) = {}
    BY <2>1, <2>2 DEF SelectAutomatic, SoundMove, IInv
  <2>3. ASSUME NEW p \in Active(rows) PROVE SoundMove
    <3>1. p \in Providers /\ Active(rows) = Active(rows) \cup {p}
      BY DEF Active
    <3> QED BY <2>1, <3>1, SelectionMoves DEF IInv, TypeOK
  <2> QED BY <2>2, <2>3
<1> QED BY <1>2, <1>3

\* setDefault leaves its target as the only default, of an administrator's choice.
LEMMA SetDefaultTable ==
  ASSUME IInv, NEW c \in Calls, CommitSetDefault(c), calls[c].usable, NEW p, p = calls[c].id
  PROVE  /\ p \in Providers /\ p \in Active(rows)
         /\ Active(rows') = Active(rows) /\ Known(rows') = Known(rows)
         /\ Defaults(rows') = {p} /\ rows'[p].default = "ADMIN"
<1>1. p \in Active(rows) /\ p \in Providers
  BY DEF IInv, CallInv, ReadsHold, CommitSetDefault, Active
<1>2. \A q \in Providers : rows[q] \in Row
  BY DEF IInv, TypeOK
<1>3. \A q \in Providers : /\ rows'[q].state = rows[q].state
                          /\ rows'[q].enabled = rows[q].enabled
                          /\ rows'[q].default = IF q = p THEN "ADMIN" ELSE "none"
  BY <1>2 DEF CommitSetDefault, Row
<1>4. Active(rows') = Active(rows) /\ Known(rows') = Known(rows)
  BY <1>3 DEF Active, Known
<1>5. Defaults(rows') = {p} /\ rows'[p].default = "ADMIN"
  BY <1>1, <1>3 DEF Defaults
<1> QED BY <1>1, <1>4, <1>5

\* setDefault replaces every default by a usable provider.
LEMMA SetDefaultSound ==
  ASSUME IInv, NEW c \in Calls, CommitSetDefault(c)
  PROVE  SoundMove
<1>1. CASE ~calls[c].usable
  BY <1>1 DEF CommitSetDefault, SoundMove, IInv
<1>2. CASE calls[c].usable
  BY <1>2, SetDefaultTable DEF SoundMove, Sound, Moves
<1> QED BY <1>1, <1>2

\* promoteDefault moves the default from the one provider that has it to its target.
LEMMA PromotedTable ==
  ASSUME IInv, NEW c \in Calls, CommitPromote(c), Promotes(calls[c]),
         NEW from, from = calls[c].from, NEW to, to = calls[c].id
  PROVE  /\ from \in Providers /\ to \in Providers /\ to \in Active(rows) /\ from # to
         /\ Defaults(rows) = {from}
         /\ Active(rows') = Active(rows) /\ Known(rows') = Known(rows)
         /\ Defaults(rows') = {to} /\ rows'[to].default = "AUTO"
<1>1. from = currentDefault /\ to \in Active(rows) /\ from # to
  BY DEF Promotes, IInv, CallInv, ReadsHold, CommitPromote
<1>2. from \in Providers /\ to \in Providers /\ from # 0
  <2>1. from \in Providers
    BY DEF IInv, CallInv, TargetExists, CommitPromote
  <2> QED BY <1>1, <2>1 DEF Active, Providers
<1>3. Defaults(rows) = {from}
  BY <1>1, <1>2, CurrentIsDefault DEF IInv, Sound
<1>4. \A q \in Providers : rows[q] \in Row
  BY DEF IInv, TypeOK
<1>5. rows' = [rows EXCEPT ![from].default = "none", ![to].default = "AUTO"]
  BY DEF CommitPromote
<1>6. \A q \in Providers :
        /\ rows'[q].state = rows[q].state
        /\ rows'[q].enabled = rows[q].enabled
        /\ rows'[q].default = IF q = to THEN "AUTO" ELSE IF q = from THEN "none"
                              ELSE rows[q].default
  BY <1>1, <1>2, <1>4, <1>5 DEF Row, IInv, TypeOK
<1>7. Active(rows') = Active(rows) /\ Known(rows') = Known(rows)
  BY <1>6 DEF Active, Known
<1>8. Defaults(rows') = {to} /\ rows'[to].default = "AUTO"
  BY <1>2, <1>3, <1>6 DEF Defaults
<1> QED BY <1>1, <1>2, <1>3, <1>7, <1>8

\* promoteDefault keeps one default, a usable one.
LEMMA PromoteSound ==
  ASSUME IInv, NEW c \in Calls, CommitPromote(c)
  PROVE  SoundMove
<1>1. CASE ~Promotes(calls[c])
  BY <1>1 DEF CommitPromote, SoundMove, IInv
<1>2. CASE Promotes(calls[c])
  BY <1>2, PromotedTable DEF SoundMove, Sound, Moves
<1> QED BY <1>1, <1>2

\* What update writes before it looks for a default.
RemovingDefault(c) == calls[c].isDefault /\ calls[c].enabled = "false"

Updated(c) ==
  [rows EXCEPT ![calls[c].id].enabled = EnabledAfter(calls[c], rows[calls[c].id]),
               ![calls[c].id].default = IF RemovingDefault(c) THEN "none" ELSE @]

\* An update changes whether its target is enabled; the default it removes is no longer
\* usable, and any other default stays and is.
LEMMA UpdatedTable ==
  ASSUME IInv, NEW c \in Calls, CommitUpdate(c), NEW p, p = calls[c].id
  PROVE  /\ p \in Providers
         /\ Updated(c) \in [Providers -> Row]
         /\ Known(Updated(c)) = Known(rows)
         /\ Active(Updated(c)) \in {Active(rows) \cup {p}, Active(rows) \ {p}}
         /\ RemovingDefault(c) =>
              /\ Defaults(rows) = {p} /\ Defaults(Updated(c)) = {}
              /\ p \notin Active(Updated(c))
         /\ ~RemovingDefault(c) =>
              /\ Defaults(Updated(c)) = Defaults(rows)
              /\ Defaults(rows) \subseteq Active(Updated(c))
              /\ \A q \in Providers : Updated(c)[q].default = rows[q].default
<1> DEFINE removingDefault == RemovingDefault(c)
           enabled == EnabledAfter(calls[c], rows[p])
           updated == [rows EXCEPT ![p].enabled = enabled,
                                   ![p].default = IF removingDefault THEN "none" ELSE @]
<1>1. p \in Providers /\ p \in Known(rows)
  BY DEF IInv, CallInv, TargetExists, CommitUpdate, Known
<1>2. \A q \in Providers : rows[q] \in Row
  BY DEF IInv, TypeOK
<1>3. enabled \in BOOLEAN
  BY <1>1, <1>2 DEF EnabledAfter, Row
<1>4. calls[c].isDefault <=> p \in Defaults(rows)
  BY DEF IInv, CallInv, ReadsHold, CommitUpdate
<1>5. updated = Updated(c)
  BY DEF Updated
<1>6. updated \in [Providers -> Row]
  <2> DEFINE row1 == [rows[p] EXCEPT !.enabled = enabled]
             row2 == [row1 EXCEPT !.default = IF removingDefault THEN "none" ELSE @]
  <2>1. row1 \in Row
    BY <1>1, <1>2, <1>3 DEF Row
  <2> HIDE DEF row1, enabled, removingDefault
  <2>2. row2 \in Row
    BY <2>1 DEF Row
  <2>3. updated = [rows EXCEPT ![p] = row2]
    BY <1>1 DEF row1, IInv, TypeOK
  <2> HIDE DEF row2, updated
  <2> QED BY <2>2, <2>3 DEF IInv, TypeOK
<1>7. \A q \in Providers :
        /\ updated[q].state = rows[q].state
        /\ updated[q].enabled = IF q = p THEN enabled ELSE rows[q].enabled
        /\ updated[q].default = IF q = p /\ removingDefault THEN "none" ELSE rows[q].default
  <2> HIDE DEF removingDefault, enabled
  <2> QED BY <1>1, <1>2 DEF Row, IInv, TypeOK
<1>8. removingDefault => enabled = FALSE
  BY DEF EnabledAfter, RemovingDefault
<1>9. p \in Defaults(rows) /\ ~removingDefault => enabled = TRUE
  <2>1. p \in Defaults(rows) => rows[p].enabled = TRUE
    BY <1>1, <1>2 DEF IInv, Sound, Active, Row
  <2>2. p \in Defaults(rows) /\ ~removingDefault => calls[c].enabled # "false"
    BY <1>4 DEF RemovingDefault
  <2>3. calls[c].enabled \in {"true", "false", "keep"}
    BY DEF IInv, TypeOK, Call
  <2> QED BY <2>1, <2>2, <2>3 DEF EnabledAfter
<1> HIDE DEF enabled, updated, removingDefault
<1>10. Known(updated) = Known(rows)
  BY <1>7 DEF Known
<1>11. Active(updated) \in {Active(rows) \cup {p}, Active(rows) \ {p}}
  <2>1. CASE rows[p].state = "present" /\ enabled = TRUE
    <3>1. \A q \in Providers : q \in Active(updated) <=> q \in Active(rows) \/ q = p
      BY <1>7, <2>1 DEF Active
    <3>2. Active(updated) = Active(rows) \cup {p}
      BY <1>1, <3>1 DEF Active
    <3> QED BY <3>2
  <2>2. CASE rows[p].state # "present" \/ enabled = FALSE
    <3>1. Active(updated) = Active(rows) \ {p}
      BY <1>1, <1>7, <2>2 DEF Active
    <3> QED BY <3>1
  <2> QED BY <1>3, <2>1, <2>2
<1>12. ASSUME removingDefault
       PROVE  Defaults(rows) = {p} /\ Defaults(updated) = {} /\ p \notin Active(updated)
  <2>1. Defaults(rows) = {p}
    BY <1>4, <1>12 DEF removingDefault, RemovingDefault, IInv, Sound
  <2>2. Defaults(updated) = {}
    BY <1>1, <1>7, <1>12, <2>1 DEF Defaults
  <2>3. p \notin Active(updated)
    BY <1>1, <1>7, <1>8, <1>12 DEF Active
  <2> QED BY <2>1, <2>2, <2>3
<1>13. ASSUME ~removingDefault
       PROVE  /\ Defaults(updated) = Defaults(rows)
              /\ Defaults(rows) \subseteq Active(updated)
              /\ \A q \in Providers : updated[q].default = rows[q].default
  <2>1. \A q \in Providers : updated[q].default = rows[q].default
    BY <1>7, <1>13
  <2>2. Defaults(updated) = Defaults(rows)
    BY <2>1 DEF Defaults
  <2>3. Defaults(rows) \subseteq Active(updated)
    BY <1>1, <1>7, <1>9, <1>13 DEF IInv, Sound, Active, Defaults
  <2> QED BY <2>1, <2>2, <2>3
<1> QED BY <1>1, <1>5, <1>6, <1>10, <1>11, <1>12, <1>13 DEF removingDefault

\* How update goes on from there.
LEMMA UpdateCases ==
  ASSUME NEW c \in Calls, CommitUpdate(c)
  PROVE  \/ RemovingDefault(c) /\ SelectAutomatic(Updated(c), calls[c].id, "PROVIDER_DISABLED")
         \/ /\ ~RemovingDefault(c) /\ Defaults(Updated(c)) = {}
            /\ SelectAutomatic(Updated(c), 0, "INITIAL_SELECTION")
         \/ /\ ~RemovingDefault(c) /\ Defaults(Updated(c)) # {}
            /\ rows' = Updated(c) /\ UNCHANGED lastSwitch
BY DEF CommitUpdate, RemovingDefault, Updated

\* update replaces a default that it disables and finds one where there is none.
LEMMA UpdateSound ==
  ASSUME IInv, NEW c \in Calls, CommitUpdate(c)
  PROVE  SoundMove
<1> DEFINE p == calls[c].id
<1>1. /\ p \in Providers
      /\ Updated(c) \in [Providers -> Row]
      /\ Known(Updated(c)) = Known(rows)
      /\ Active(Updated(c)) \in {Active(rows) \cup {p}, Active(rows) \ {p}}
  BY UpdatedTable
<1>2. CASE RemovingDefault(c)
  <2>1. Defaults(rows) = {p} /\ Defaults(Updated(c)) = {} /\ p \notin Active(Updated(c))
    BY <1>2, UpdatedTable
  <2>2. SelectAutomatic(Updated(c), p, "PROVIDER_DISABLED")
    BY <1>2, UpdateCases
  <2> QED BY <1>1, <2>1, <2>2, SelectionMoves DEF IInv, TypeOK
<1>3. CASE ~RemovingDefault(c)
  <2>1. /\ Defaults(Updated(c)) = Defaults(rows)
        /\ Defaults(rows) \subseteq Active(Updated(c))
        /\ \A q \in Providers : Updated(c)[q].default = rows[q].default
    BY <1>3, UpdatedTable
  <2>2. CASE Defaults(Updated(c)) = {} /\ SelectAutomatic(Updated(c), 0, "INITIAL_SELECTION")
    BY <1>1, <2>1, <2>2, SelectionMoves DEF IInv, TypeOK
  <2>3. CASE rows' = Updated(c)
    <3>1. Sound(rows')
      BY <2>1, <2>3 DEF IInv, Sound
    <3>2. \A q \in Defaults(rows) : rows'[q].default = rows[q].default
      BY <2>1, <2>3 DEF Defaults
    <3>3. Moves(p)
      BY <1>1, <2>1, <2>3, <3>2 DEF Moves, OneChange
    <3> QED BY <1>1, <2>3, <3>1, <3>3 DEF SoundMove
  <2> QED BY <1>3, <2>2, <2>3, UpdateCases
<1> QED BY <1>2, <1>3

\* What softDelete writes before it looks for a default.
Deleted(c) ==
  [rows EXCEPT ![calls[c].id] = [state |-> "deleted", enabled |-> FALSE, default |-> "none"]]

\* A deletion takes its target from the usable providers and from the defaults.
LEMMA DeletedTable ==
  ASSUME IInv, NEW c \in Calls, CommitDelete(c), NEW p, p = calls[c].id
  PROVE  /\ p \in Providers
         /\ Deleted(c) \in [Providers -> Row]
         /\ Known(Deleted(c)) = Known(rows)
         /\ Active(Deleted(c)) = Active(rows) \ {p}
         /\ Defaults(Deleted(c)) = Defaults(rows) \ {p}
         /\ \A q \in Providers \ {p} : Deleted(c)[q] = rows[q]
         /\ \/ p \in Defaults(rows) /\ SelectAutomatic(Deleted(c), p, "PROVIDER_DELETED")
            \/ p \notin Defaults(rows) /\ rows' = Deleted(c) /\ UNCHANGED lastSwitch
<1> DEFINE gone == [state |-> "deleted", enabled |-> FALSE, default |-> "none"]
           deleted == Deleted(c)
<1>1. p \in Providers /\ p \in Known(rows)
  BY DEF IInv, CallInv, TargetExists, CommitDelete, Known
<1>2. calls[c].isDefault <=> p \in Defaults(rows)
  BY DEF IInv, CallInv, ReadsHold, CommitDelete
<1>3. \/ p \in Defaults(rows) /\ SelectAutomatic(deleted, p, "PROVIDER_DELETED")
      \/ p \notin Defaults(rows) /\ rows' = deleted /\ UNCHANGED lastSwitch
  BY <1>2 DEF CommitDelete, Deleted
<1>4. deleted \in [Providers -> Row]
  BY DEF IInv, TypeOK, Row, Deleted
<1>5. deleted[p] = gone /\ \A q \in Providers \ {p} : deleted[q] = rows[q]
  BY <1>1 DEF IInv, TypeOK, Deleted
<1> HIDE DEF deleted
<1>6. Known(deleted) = Known(rows)
  BY <1>1, <1>5 DEF Known
<1>7. Active(deleted) = Active(rows) \ {p}
  BY <1>1, <1>5 DEF Active
<1>8. Defaults(deleted) = Defaults(rows) \ {p}
  BY <1>1, <1>5 DEF Defaults
<1> QED BY <1>1, <1>3, <1>4, <1>5, <1>6, <1>7, <1>8 DEF deleted

\* softDelete replaces a default that it deletes.
LEMMA DeleteSound ==
  ASSUME IInv, NEW c \in Calls, CommitDelete(c)
  PROVE  SoundMove
<1> DEFINE p == calls[c].id
<1>1. /\ p \in Providers
      /\ Deleted(c) \in [Providers -> Row]
      /\ Known(Deleted(c)) = Known(rows)
      /\ Active(Deleted(c)) = Active(rows) \ {p}
      /\ Defaults(Deleted(c)) = Defaults(rows) \ {p}
      /\ \A q \in Providers \ {p} : Deleted(c)[q] = rows[q]
      /\ \/ p \in Defaults(rows) /\ SelectAutomatic(Deleted(c), p, "PROVIDER_DELETED")
         \/ p \notin Defaults(rows) /\ rows' = Deleted(c)
  BY DeletedTable
<1> HIDE DEF p
<1>2. CASE p \in Defaults(rows)
  <2>1. Defaults(rows) = {p}
    BY <1>2 DEF IInv, Sound
  <2> QED BY <1>1, <1>2, <2>1, SelectionMoves DEF IInv, TypeOK
<1>3. CASE p \notin Defaults(rows)
  <2>1. rows' = Deleted(c) /\ Defaults(rows') = Defaults(rows)
    BY <1>1, <1>3
  <2>2. Sound(rows')
    BY <1>1, <1>3, <2>1 DEF IInv, Sound
  <2>3. \A q \in Defaults(rows) : rows'[q].default = rows[q].default
    BY <1>1, <1>3, <2>1 DEF Defaults
  <2>4. Moves(p)
    BY <1>1, <2>1, <2>3 DEF Moves, OneChange
  <2> QED BY <1>1, <2>1, <2>2, <2>4 DEF SoundMove
<1> QED BY <1>2, <1>3

-----------------------------------------------------------------------------
(* Every step keeps the invariant.                                         *)

\* The default after a step is one of the defaults after it.
LEMMA NextIsDefault ==
  /\ Defaults(rows') = {} => currentDefault' = 0
  /\ Defaults(rows') # {} => currentDefault' \in Defaults(rows')
BY DEF currentDefault

\* A step that leaves the defaults alone leaves the default alone.
LEMMA SameDefault ==
  ASSUME Sound(rows), Defaults(rows') = Defaults(rows)
  PROVE  currentDefault' = currentDefault
BY CurrentIsDefault, NextIsDefault DEF Sound

\* A step without a commit: it may create a configuration.
Steady ==
  /\ Sound(rows')
  /\ Known(rows) \subseteq Known(rows')
  /\ Defaults(rows') = Defaults(rows)
  /\ Active(rows) \subseteq Active(rows')

\* The other calls are not disturbed by a step of c: without the lock c writes
\* nothing they have read, and with the lock none of them has read anything.
LEMMA OthersInv ==
  ASSUME IInv, NEW c \in Calls, NEW d \in Calls, d # c, calls'[d] = calls[d],
         \/ Steady /\ (lock' = lock \/ lock \in {c, NoCall})
         \/ lock = c /\ Known(rows) \subseteq Known(rows')
  PROVE  CallInv(d)'
<1>1. lock \in {c, NoCall} => calls[d].pc \notin {"read", "commit"}
  BY CallsAssumption DEF IInv, CallInv, LockHeld
<1>2. LockHeld(d)'
  BY <1>1 DEF IInv, CallInv, LockHeld
<1>3. ReadsHold(d)'
  <2>1. CASE calls[d].pc # "commit"
    BY <2>1 DEF ReadsHold
  <2>2. CASE calls[d].pc = "commit"
    <3>1. Steady
      BY <1>1, <2>2
    <3>2. currentDefault' = currentDefault
      BY <3>1, SameDefault DEF IInv, Steady
    <3> QED BY <2>2, <3>1, <3>2 DEF IInv, CallInv, ReadsHold, Steady
  <2> QED BY <2>1, <2>2
<1>4. TargetExists(d)'
  BY DEF IInv, CallInv, TargetExists, Steady
<1> QED BY <1>2, <1>3, <1>4 DEF CallInv

\* A call that is in none of the guarded places has nothing to show.
LEMMA FreeInv ==
  ASSUME NEW c \in Calls,
         \/ /\ calls'[c].pc \in {"idle", "find", "bootstrap", "lock"}
            /\ calls'[c].kind \in {"select", "generate"}
         \/ calls'[c].pc \in {"listActive", "fallback"} /\ calls'[c].from \in Providers
  PROVE  CallInv(c)'
BY DEF CallInv, LockHeld, ReadsHold, TargetExists

\* The steps that write nothing to the table are steady.
LEMMA UnchangedSteady ==
  ASSUME IInv, UNCHANGED rows
  PROVE  Steady
BY DEF IInv, Steady

\* The creation of a configuration is steady.
LEMMA CreateSteady ==
  ASSUME IInv, NEW enabled \in BOOLEAN, Create(enabled)
  PROVE  Steady
BY CreateSound DEF IInv, TypeOK, Steady

\* A call whose default is known is over, or remembers it.
LEMMA FoundInv ==
  ASSUME TypeOK, NEW c \in Calls, NEW p \in Providers, Found(c, p)
  PROVE  /\ CallInv(c)'
         /\ \A d \in Calls \ {c} : calls'[d] = calls[d]
<1>1. calls' = [calls EXCEPT ![c] = IF calls[c].kind # "generate" THEN Idle
                  ELSE [Idle EXCEPT !.pc = "listActive", !.kind = "generate", !.from = p]]
  BY DEF Found
<1>2. \/ calls'[c].pc = "idle" /\ calls'[c].kind = "select"
      \/ calls'[c].pc = "listActive" /\ calls'[c].from \in Providers
  BY <1>1 DEF Idle, TypeOK
<1> QED BY <1>1, <1>2, FreeInv DEF TypeOK

\* A call that moves on keeps its kind and its targets.
LEMMA GotoFields ==
  ASSUME TypeOK, NEW c \in Calls, NEW pc, Goto(c, pc)
  PROVE  /\ calls'[c].pc = pc
         /\ calls'[c].kind = calls[c].kind
         /\ calls'[c].id = calls[c].id
         /\ calls'[c].from = calls[c].from
         /\ \A d \in Calls \ {c} : calls'[d] = calls[d]
BY DEF Goto, TypeOK, Call

\* A call that begins keeps the invariant.
LEMMA BeginInv ==
  ASSUME IInv, NEW c \in Calls, Begin(c)
  PROVE  Steady /\ \A d \in Calls : CallInv(d)'
<1>1. TypeOK
  BY DEF IInv
<1>2. Steady /\ lock' = lock
  <2>1. CASE CreateProvider(c)
    BY <2>1, CreateSteady DEF CreateProvider, Create
  <2>2. CASE UNCHANGED <<rows, lock>>
    BY <2>2, UnchangedSteady
  <2> QED BY <2>1, <2>2 DEF Begin, ListProviders, Generate, Administer
<1>3. (\A d \in Calls \ {c} : calls'[d] = calls[d]) /\ CallInv(c)'
  <2>1. CASE CreateProvider(c) \/ Generate(c)
    <3>1. /\ calls'[c].pc = "find" /\ calls'[c].kind \in {"select", "generate"}
          /\ \A d \in Calls \ {c} : calls'[d] = calls[d]
      BY <1>1, <2>1 DEF CreateProvider, Generate, TypeOK, Call
    <3> QED BY <3>1, FreeInv
  <2>2. CASE ListProviders(c)
    <3>1. calls[c].kind \in {"select", "generate"}
      BY <2>2 DEF ListProviders, IInv, CallInv, TargetExists
    <3> QED BY <1>1, <2>2, <3>1, GotoFields, FreeInv DEF ListProviders
  <2>3. ASSUME NEW p \in Providers, NEW kind \in {"setDefault", "update", "delete"}, NEW enabled,
               Administer(c, kind, p, enabled)
        PROVE  (\A d \in Calls \ {c} : calls'[d] = calls[d]) /\ CallInv(c)'
    <3>1. calls'[c].pc = "lock" /\ calls'[c].kind = kind /\ calls'[c].id = p
      BY <1>1, <2>3 DEF Administer, Idle, TypeOK
    <3>2. p \in Known(rows')
      BY <2>3 DEF Administer, Known
    <3>3. CallInv(c)'
      BY <3>1, <3>2 DEF CallInv, LockHeld, ReadsHold, TargetExists
    <3> QED BY <1>1, <2>3, <3>3 DEF Administer, TypeOK
  <2> QED BY <2>1, <2>2, <2>3 DEF Begin
<1> QED BY <1>2, <1>3, OthersInv

\* A step of a call outside its commit keeps the invariant.
LEMMA StepInv ==
  ASSUME IInv, NEW c \in Calls,
         \/ Bootstrap(c) \/ Find(c) \/ ListActive(c) \/ NotSwitched(c) \/ Switched(c)
         \/ Lock(c) \/ Read(c) \/ Fail(c)
  PROVE  Steady /\ \A d \in Calls : CallInv(d)'
<1>1. TypeOK
  BY DEF IInv
<1>2. Steady
  <2>1. CASE Bootstrap(c)
    BY <2>1, CreateSteady DEF Bootstrap
  <2>2. CASE UNCHANGED rows
    BY <2>2, UnchangedSteady
  <2> QED BY <2>1, <2>2 DEF Find, ListActive, NotSwitched, Switched, Lock, Read, Fail
<1>3. lock' = lock \/ lock \in {c, NoCall}
  BY DEF Bootstrap, Create, Find, ListActive, NotSwitched, Switched, Lock, Read, Fail, Release
<1>4. \A d \in Calls \ {c} : calls'[d] = calls[d]
  BY <1>1 DEF Bootstrap, Find, Found, Goto, ListActive, NotSwitched, Switched, Lock, Read, Fail, TypeOK
<1>5. CallInv(c)'
  <2>1. CASE Bootstrap(c)
    <3>1. calls[c].kind \in {"select", "generate"}
      BY <2>1 DEF Bootstrap, IInv, CallInv, TargetExists
    <3> QED BY <1>1, <2>1, <3>1, GotoFields, FreeInv DEF Bootstrap
  <2>2. CASE Find(c) /\ currentDefault # 0
    BY <1>1, <2>2, CurrentIsProvider, FoundInv DEF Find
  <2>3. CASE Find(c) /\ currentDefault = 0
    <3>1. Goto(c, "lock") /\ calls[c].pc = "find"
      BY <2>3 DEF Find
    <3>2. calls[c].kind \in {"select", "generate"}
      BY <3>1 DEF IInv, CallInv, TargetExists
    <3> QED BY <1>1, <3>1, <3>2, GotoFields, FreeInv
  <2>4. CASE ListActive(c)
    <3>1. calls'[c].pc = "fallback" /\ calls'[c].from = calls[c].from
      BY <1>1, <2>4 DEF ListActive, TypeOK, Call
    <3>2. calls[c].from \in Providers
      BY <2>4 DEF ListActive, IInv, CallInv, TargetExists
    <3> QED BY <3>1, <3>2, FreeInv
  <2>5. CASE NotSwitched(c) \/ Fail(c)
    <3>1. calls'[c].pc = "idle" /\ calls'[c].kind = "select"
      BY <1>1, <2>5 DEF NotSwitched, Fail, Idle, TypeOK
    <3> QED BY <3>1, FreeInv
  <2>6. CASE Switched(c)
    <3>1. PICK p \in Active(rows) :
            calls' = [calls EXCEPT ![c] = [Idle EXCEPT !.pc = "lock", !.kind = "promote", !.id = p,
                                                       !.from = calls[c].from]]
      BY <2>6 DEF Switched
    <3>2. calls'[c].pc = "lock" /\ calls'[c].id = p /\ calls'[c].from = calls[c].from
      BY <1>1, <3>1 DEF Idle, TypeOK
    <3>3. p \in Known(rows') /\ calls[c].from \in Providers
      BY <2>6 DEF Switched, Active, Known, IInv, CallInv, TargetExists
    <3> QED BY <3>2, <3>3 DEF CallInv, LockHeld, ReadsHold, TargetExists
  <2>7. CASE Lock(c)
    <3>1. lock' = c /\ rows' = rows /\ calls'[c].pc = "read" /\ calls'[c].kind = calls[c].kind
          /\ calls'[c].id = calls[c].id /\ calls'[c].from = calls[c].from
      BY <1>1, <2>7, GotoFields DEF Lock
    <3>2. calls[c].pc = "lock" /\ TargetExists(c)
      BY <2>7 DEF Lock, IInv, CallInv
    <3> QED BY <3>1, <3>2 DEF CallInv, LockHeld, ReadsHold, TargetExists
  <2>8. CASE Read(c)
    <3>1. /\ calls'[c].pc = "commit" /\ calls'[c].kind = calls[c].kind
          /\ calls'[c].id = calls[c].id /\ calls'[c].from = calls[c].from
          /\ calls'[c].current = currentDefault
          /\ calls'[c].usable = (calls[c].id \in Active(rows))
          /\ calls'[c].isDefault = (calls[c].id \in Defaults(rows))
      BY <1>1, <2>8 DEF Read, TypeOK, Call
    <3>2. calls[c].pc = "read" /\ rows' = rows /\ lock' = lock /\ currentDefault' = currentDefault
      BY <2>8, SameDefault DEF Read, IInv
    <3>3. LockHeld(c) /\ TargetExists(c)
      BY DEF IInv, CallInv
    <3> QED BY <3>1, <3>2, <3>3 DEF CallInv, LockHeld, ReadsHold, TargetExists
  <2> QED BY <2>1, <2>2, <2>3, <2>4, <2>5, <2>6, <2>7, <2>8
<1> QED BY <1>2, <1>3, <1>4, <1>5, OthersInv

\* A commit keeps the invariant.
LEMMA CommitInv ==
  ASSUME IInv, NEW c \in Calls, Commit(c)
  PROVE  SoundMove /\ \A d \in Calls : CallInv(d)'
<1>1. TypeOK
  BY DEF IInv
<1>2. SoundMove
  BY SelectSound, SetDefaultSound, PromoteSound, UpdateSound, DeleteSound DEF Commit
<1>3. lock = c
  BY DEF Commit, CommitSelect, CommitSetDefault, CommitPromote, CommitUpdate, CommitDelete,
         IInv, CallInv, LockHeld
<1>4. (\A d \in Calls \ {c} : calls'[d] = calls[d]) /\ CallInv(c)'
  <2>1. CASE calls' = [calls EXCEPT ![c] = Idle]
    <3>1. calls'[c].pc = "idle" /\ calls'[c].kind = "select"
      BY <1>1, <2>1 DEF Idle, TypeOK
    <3> QED BY <1>1, <2>1, <3>1, FreeInv DEF TypeOK
  <2>2. ASSUME CommitSelect(c), calls[c].current # 0
        PROVE  (\A d \in Calls \ {c} : calls'[d] = calls[d]) /\ CallInv(c)'
    <3>1. calls[c].current \in Providers /\ Found(c, calls[c].current)
      BY <1>1, <2>2 DEF CommitSelect, TypeOK, Call
    <3> QED BY <1>1, <3>1, FoundInv
  <2>3. ASSUME CommitSelect(c), calls[c].current = 0, Active(rows) # {}
        PROVE  (\A d \in Calls \ {c} : calls'[d] = calls[d]) /\ CallInv(c)'
    <3>1. lastSwitch'.new \in Active(rows) /\ Found(c, lastSwitch'.new)
      BY <2>3 DEF CommitSelect, SelectAutomatic
    <3> QED BY <1>1, <3>1, FoundInv DEF Active
  <2> QED BY <2>1, <2>2, <2>3
        DEF Commit, CommitSelect, CommitSetDefault, CommitPromote, CommitUpdate, CommitDelete
<1> QED BY <1>2, <1>3, <1>4, OthersInv DEF SoundMove

\* Every step keeps the invariant.
LEMMA NextInv == IInv /\ [Next]_vars => IInv'
<1> SUFFICES ASSUME IInv, [Next]_vars PROVE IInv'
  OBVIOUS
<1>1. TypeOK'
  <2>1. CASE UNCHANGED vars
    BY <2>1 DEF IInv, TypeOK, vars
  <2>2. ASSUME NEW c \in Calls, Begin(c) \/ Step(c) \/ Fail(c) PROVE TypeOK'
    BY <2>2, BeginType, StepType, CommitType DEF Step, IInv
  <2> QED BY <2>1, <2>2 DEF Next
<1>2. CASE UNCHANGED vars
  BY <1>1, <1>2 DEF IInv, Sound, Defaults, Active, CallInv, LockHeld, ReadsHold, TargetExists, Known,
                    vars, currentDefault
<1>3. ASSUME NEW c \in Calls, Begin(c) \/ Step(c) \/ Fail(c)
      PROVE  Sound(rows') /\ \A d \in Calls : CallInv(d)'
  BY <1>3, BeginInv, StepInv, CommitInv DEF Step, Steady, SoundMove
<1> QED BY <1>1, <1>2, <1>3 DEF Next, IInv

\* The invariant holds at the start.
LEMMA InitInv == Init => IInv
<1> SUFFICES ASSUME Init PROVE IInv
  OBVIOUS
<1>1. TypeOK
  BY IdleIsCall DEF Init, TypeOK, Absent, Row, Switch
<1>2. Sound(rows)
  BY DEF Init, Sound, Defaults, Absent
<1>3. \A c \in Calls : CallInv(c)
  BY DEF Init, Idle, CallInv, LockHeld, ReadsHold, TargetExists
<1> QED BY <1>1, <1>2, <1>3 DEF IInv

\* The inductive invariant holds in every reachable state.
THEOREM Invariant == Spec => []IInv
BY InitInv, NextInv, PTL DEF Spec

\* At most one provider is the default, without the help of the unique index.
THEOREM OneDefault == Spec => []AtMostOneDefault
<1>1. IInv => AtMostOneDefault
  BY DEF IInv, Sound, AtMostOneDefault
<1> QED BY <1>1, Invariant, PTL

\* The default is one, enabled and not deleted, whichever calls overlap.
THEOREM UsableDefault == Spec => []DefaultIsUsable
<1>1. IInv => DefaultIsUsable
  BY DEF IInv, Sound, AtMostOneDefault, DefaultIsUsable
<1> QED BY <1>1, Invariant, PTL

-----------------------------------------------------------------------------
(* The program implements DefaultProvider.                                 *)

\* Where there is at most one default, it is the one findFirst returns.
LEMMA MappedDefault ==
  ASSUME Sound(rows), NEW p \in Defaults(rows)
  PROVE  currentDefault = p
BY CurrentIsDefault DEF Sound

\* The same after a step.
LEMMA NextMappedDefault ==
  ASSUME NEW p, Defaults(rows') = {p}, p \in Providers
  PROVE  currentDefault' = p /\ p # 0
BY NextIsDefault DEF Providers

\* Each way the table moves is a step of DefaultProvider.
LEMMA MovesAreSteps ==
  ASSUME IInv, Sound(rows'), NEW p \in Providers, Moves(p)
  PROVE  Default!Next
<1>1. CASE /\ OneChange(p) /\ Defaults(rows') = Defaults(rows)
           /\ \A q \in Defaults(rows) : rows'[q].default = rows[q].default
  <2>1. currentDefault' = currentDefault
    BY <1>1, SameDefault DEF IInv
  <2>2. currentDefault \in Active(rows') \cup {0}
    BY <1>1, CurrentIsDefault DEF Sound
  <2>3. currentDefault # 0 => rows'[currentDefault].default = rows[currentDefault].default
    BY <1>1, CurrentIsDefault
  <2>4. Default!Change(p)
    BY <1>1, <2>1, <2>2, <2>3 DEF Default!Change, OneChange
  <2> QED BY <2>4 DEF Default!Next
<1>2. CASE /\ OneChange(p) /\ Defaults(rows) \cap Active(rows') = {}
           /\ \/ Active(rows') = {} /\ Defaults(rows') = {}
              \/ \E next \in Active(rows') :
                   /\ \A q \in Active(rows') : next <= q
                   /\ Defaults(rows') = {next} /\ rows'[next].default = "AUTO"
  <2>1. currentDefault \notin Active(rows')
    <3>1. 0 \notin Active(rows')
      BY DEF Active, Providers
    <3> QED BY <1>2, <3>1, CurrentIsDefault
  <2>2. Default!SelectFirst
    <3>1. CASE Active(rows') = {} /\ Defaults(rows') = {}
      BY <3>1, NextIsDefault DEF Default!SelectFirst
    <3>2. ASSUME NEW next \in Active(rows'), \A q \in Active(rows') : next <= q,
                 Defaults(rows') = {next}, rows'[next].default = "AUTO"
          PROVE  Default!SelectFirst
      <4>1. next \in Providers
        BY DEF Active
      <4>2. currentDefault' = next /\ next # 0
        BY <3>2, <4>1, NextMappedDefault
      <4> QED BY <3>2, <4>2 DEF Default!SelectFirst
    <3> QED BY <1>2, <3>1, <3>2
  <2>3. Default!Change(p)
    BY <1>2, <2>1, <2>2 DEF Default!Change, OneChange
  <2> QED BY <2>3 DEF Default!Next
<1>3. CASE /\ p \in Active(rows) /\ Active(rows') = Active(rows)
           /\ Defaults(rows') = {p} /\ rows'[p].default = "ADMIN"
  <2>1. Default!Choose(p)
    BY <1>3, NextMappedDefault DEF Default!Choose
  <2> QED BY <2>1 DEF Default!Next
<1>4. CASE /\ p \in Active(rows) \ Defaults(rows) /\ Active(rows') = Active(rows)
           /\ Defaults(rows) # {}
           /\ Defaults(rows') = {p} /\ rows'[p].default = "AUTO"
  <2>1. currentDefault # 0 /\ currentDefault # p
    BY <1>4, CurrentIsDefault
  <2>2. Default!Promote(p)
    BY <1>4, <2>1, NextMappedDefault DEF Default!Promote
  <2> QED BY <2>2 DEF Default!Next
<1> QED BY <1>1, <1>2, <1>3, <1>4 DEF Moves

\* The creation of a configuration is a step of DefaultProvider.
LEMMA CreateMoves ==
  ASSUME IInv, NEW enabled \in BOOLEAN, Create(enabled)
  PROVE  \E p \in Providers : Moves(p)
BY CreateSound DEF IInv, TypeOK, Moves, OneChange

\* A step that leaves the table alone leaves the abstract state alone.
LEMMA SameTable ==
  ASSUME IInv, UNCHANGED rows
  PROVE  UNCHANGED Default!defaultVars
<1>1. Defaults(rows') = Defaults(rows) /\ Active(rows') = Active(rows)
  OBVIOUS
<1>2. currentDefault' = currentDefault
  BY <1>1, SameDefault DEF IInv
<1> QED BY <1>1, <1>2 DEF Default!defaultVars

\* The default provider of the program behaves as DefaultProvider promises: it
\* is usable, never lost while a usable provider is left, and moves only for a reason.
THEOREM ImplementsDefault == Spec => KeepsDefault
<1>1. Init => Default!Init
  <2> SUFFICES ASSUME Init PROVE Default!Init
    OBVIOUS
  <2>1. Defaults(rows) = {} /\ Active(rows) = {}
    BY DEF Init, Defaults, Active, Absent
  <2> QED BY <2>1, CurrentIsDefault DEF Default!Init
<1>2. IInv /\ IInv' /\ [Next]_vars => [Default!Next]_Default!defaultVars
  <2> SUFFICES ASSUME IInv, IInv', [Next]_vars PROVE [Default!Next]_Default!defaultVars
    OBVIOUS
  <2>1. UNCHANGED rows \/ \E p \in Providers : Moves(p)
    <3>1. CASE UNCHANGED vars
      BY <3>1 DEF vars
    <3>2. ASSUME NEW c \in Calls, Begin(c) PROVE UNCHANGED rows \/ \E p \in Providers : Moves(p)
      BY <3>2, CreateMoves DEF Begin, CreateProvider, ListProviders, Generate, Administer
    <3>3. ASSUME NEW c \in Calls, Step(c) \/ Fail(c)
          PROVE UNCHANGED rows \/ \E p \in Providers : Moves(p)
      <4>1. CASE Bootstrap(c)
        BY <4>1, CreateMoves DEF Bootstrap
      <4>2. CASE Commit(c)
        BY <4>2, CommitInv DEF SoundMove
      <4>3. CASE UNCHANGED rows
        BY <4>3
      <4> QED BY <3>3, <4>1, <4>2, <4>3
              DEF Step, Find, ListActive, NotSwitched, Switched, Lock, Read, Fail
    <3> QED BY <3>1, <3>2, <3>3 DEF Next
  <2> QED BY <2>1, SameTable, MovesAreSteps DEF IInv
<1> QED BY <1>1, <1>2, Invariant, PTL DEF Spec, KeepsDefault, Default!Spec

-----------------------------------------------------------------------------
(* The default moves for a reason, and the log says how it moved.          *)

\* The actions that AdminChoiceStands and SwitchesAreTruthful box.
ChoiceStands ==
  \A p \in Providers :
    rows[p].default = "ADMIN" /\ rows'[p].default # "ADMIN" =>
      \/ p \notin Active(rows')
      \/ \E q \in Providers : rows'[q].default = "ADMIN"
      \/ \E c \in Calls : calls[c].kind = "promote" /\ calls[c].from = p

Truthful ==
  lastSwitch' # lastSwitch =>
    /\ Defaults(rows) \subseteq {lastSwitch'.old}
    /\ Defaults(rows') = {lastSwitch'.new}
    /\ rows'[lastSwitch'.new].default = "AUTO"

\* A step that logs nothing and touches no default.
LEMMA KeptDeserved ==
  ASSUME UNCHANGED lastSwitch, \A p \in Defaults(rows) : rows'[p].default = rows[p].default
  PROVE  ChoiceStands /\ Truthful
BY DEF ChoiceStands, Truthful, Defaults

\* The automatic selection after the default named in its log is gone.
LEMMA SelectionDeserved ==
  ASSUME NEW table \in [Providers -> Row], NEW old, NEW reason,
         SelectAutomatic(table, old, reason), Defaults(table) = {},
         Defaults(rows) \subseteq {old}, Defaults(rows) \cap Active(table) = {}
  PROVE  ChoiceStands /\ Truthful
<1>1. Active(rows') = Active(table)
  BY SelectionSound
<1>2. ChoiceStands
  BY <1>1 DEF ChoiceStands, Defaults
<1>3. CASE UNCHANGED lastSwitch
  BY <1>2, <1>3 DEF Truthful
<1>4. ASSUME NEW next \in Active(table), rows' = [table EXCEPT ![next].default = "AUTO"],
             lastSwitch' = [old |-> old, new |-> next, reason |-> reason]
      PROVE  Truthful
  <2>1. next \in Providers
    BY DEF Active
  <2>2. \A p \in Providers : table[p] \in Row
    OBVIOUS
  <2>3. \A p \in Providers : rows'[p].default = IF p = next THEN "AUTO" ELSE table[p].default
    BY <1>4, <2>1, <2>2 DEF Row
  <2>4. Defaults(rows') = {next} /\ rows'[next].default = "AUTO"
    BY <2>1, <2>3 DEF Defaults
  <2> QED BY <1>4, <2>4 DEF Truthful
<1> QED BY <1>2, <1>3, <1>4 DEF SelectAutomatic

\* Every commit moves the default for a reason and logs what it did.
LEMMA CommitDeserved ==
  ASSUME IInv, NEW c \in Calls, Commit(c)
  PROVE  ChoiceStands /\ Truthful
<1> DEFINE p == calls[c].id
<1>1. rows \in [Providers -> Row]
  BY DEF IInv, TypeOK
<1>2. CASE CommitSelect(c)
  <2>1. calls[c].current = currentDefault
    BY <1>2 DEF IInv, CallInv, ReadsHold, CommitSelect
  <2>2. CASE calls[c].current # 0
    BY <1>2, <2>2, KeptDeserved DEF CommitSelect
  <2>3. CASE calls[c].current = 0
    <3>1. Defaults(rows) = {} /\ SelectAutomatic(rows, 0, "INITIAL_SELECTION")
      BY <1>2, <2>1, <2>3, CurrentIsDefault DEF CommitSelect
    <3> QED BY <1>1, <3>1, SelectionDeserved
  <2> QED BY <2>2, <2>3
<1>3. CASE CommitSetDefault(c)
  <2>1. UNCHANGED lastSwitch
    BY <1>3 DEF CommitSetDefault
  <2>2. CASE ~calls[c].usable
    BY <1>3, <2>1, <2>2, KeptDeserved DEF CommitSetDefault
  <2>3. CASE calls[c].usable
    <3>1. p \in Providers /\ rows'[p].default = "ADMIN"
      BY <1>3, <2>3, SetDefaultTable
    <3> QED BY <2>1, <3>1 DEF ChoiceStands, Truthful
  <2> QED BY <2>2, <2>3
<1>4. CASE CommitPromote(c)
  <2>1. CASE ~Promotes(calls[c])
    BY <1>4, <2>1, KeptDeserved DEF CommitPromote
  <2>2. CASE Promotes(calls[c])
    <3> DEFINE from == calls[c].from
    <3>1. Defaults(rows) = {from} /\ Defaults(rows') = {p} /\ rows'[p].default = "AUTO"
      BY <1>4, <2>2, PromotedTable
    <3>2. calls[c].kind = "promote" /\ lastSwitch'.old = from /\ lastSwitch'.new = p
      BY <1>4, <2>2 DEF CommitPromote
    <3>3. \A q \in Providers : rows[q].default = "ADMIN" => q = from
      BY <3>1 DEF Defaults
    <3>4. ChoiceStands
      BY <3>2, <3>3 DEF ChoiceStands
    <3>5. Truthful
      BY <3>1, <3>2 DEF Truthful
    <3> QED BY <3>4, <3>5
  <2> QED BY <2>1, <2>2
<1>5. CASE CommitUpdate(c)
  <2>1. Updated(c) \in [Providers -> Row]
    BY <1>5, UpdatedTable
  <2>2. CASE RemovingDefault(c)
    <3>1. Defaults(rows) = {p} /\ Defaults(Updated(c)) = {} /\ p \notin Active(Updated(c))
      BY <1>5, <2>2, UpdatedTable
    <3>2. SelectAutomatic(Updated(c), p, "PROVIDER_DISABLED")
      BY <1>5, <2>2, UpdateCases
    <3> QED BY <2>1, <3>1, <3>2, SelectionDeserved
  <2>3. CASE ~RemovingDefault(c)
    <3>1. /\ Defaults(Updated(c)) = Defaults(rows)
          /\ \A q \in Providers : Updated(c)[q].default = rows[q].default
      BY <1>5, <2>3, UpdatedTable
    <3>2. CASE Defaults(Updated(c)) = {} /\ SelectAutomatic(Updated(c), 0, "INITIAL_SELECTION")
      BY <2>1, <3>1, <3>2, SelectionDeserved
    <3>3. CASE rows' = Updated(c) /\ UNCHANGED lastSwitch
      BY <3>1, <3>3, KeptDeserved DEF Defaults
    <3> QED BY <1>5, <2>3, <3>2, <3>3, UpdateCases
  <2> QED BY <2>2, <2>3
<1>6. CASE CommitDelete(c)
  <2>1. /\ Deleted(c) \in [Providers -> Row]
        /\ Active(Deleted(c)) = Active(rows) \ {p}
        /\ Defaults(Deleted(c)) = Defaults(rows) \ {p}
        /\ \A q \in Providers \ {p} : Deleted(c)[q] = rows[q]
        /\ \/ p \in Defaults(rows) /\ SelectAutomatic(Deleted(c), p, "PROVIDER_DELETED")
           \/ p \notin Defaults(rows) /\ rows' = Deleted(c) /\ UNCHANGED lastSwitch
    BY <1>6, DeletedTable
  <2> HIDE DEF p
  <2>2. CASE p \in Defaults(rows)
    <3>1. Defaults(rows) = {p}
      BY <2>2 DEF IInv, Sound
    <3> QED BY <2>1, <2>2, <3>1, SelectionDeserved
  <2>3. CASE p \notin Defaults(rows)
    <3>1. \A q \in Defaults(rows) : rows'[q].default = rows[q].default
      BY <2>1, <2>3 DEF Defaults
    <3> QED BY <2>1, <2>3, <3>1, KeptDeserved
  <2> QED BY <2>2, <2>3
<1> QED BY <1>2, <1>3, <1>4, <1>5, <1>6 DEF Commit

\* Every step moves the default for a reason and logs what it did.
LEMMA NextDeserved == IInv /\ [Next]_vars => [ChoiceStands]_vars /\ [Truthful]_vars
<1> SUFFICES ASSUME IInv, [Next]_vars PROVE [ChoiceStands]_vars /\ [Truthful]_vars
  OBVIOUS
<1>1. CASE UNCHANGED vars
  BY <1>1
<1>2. ASSUME NEW enabled \in BOOLEAN, Create(enabled) PROVE ChoiceStands /\ Truthful
  <2>1. \A p \in Defaults(rows) : rows'[p].default = rows[p].default
    BY <1>2, CreateSound DEF IInv, TypeOK
  <2> QED BY <1>2, <2>1, KeptDeserved DEF Create
<1>3. ASSUME UNCHANGED <<rows, lastSwitch>> PROVE ChoiceStands /\ Truthful
  BY <1>3, KeptDeserved
<1>4. ASSUME NEW c \in Calls, Begin(c) \/ Step(c) \/ Fail(c) PROVE ChoiceStands /\ Truthful
  <2>1. CASE CreateProvider(c) \/ Bootstrap(c)
    BY <1>2, <2>1 DEF CreateProvider, Bootstrap
  <2>2. CASE Commit(c)
    BY <2>2, CommitDeserved
  <2>3. CASE UNCHANGED <<rows, lastSwitch>>
    BY <1>3, <2>3
  <2> QED BY <1>4, <2>1, <2>2, <2>3
          DEF Begin, Step, ListProviders, Generate, Administer, Find, ListActive, NotSwitched,
              Switched, Lock, Read, Fail
<1> QED BY <1>1, <1>4 DEF Next

\* Whichever calls overlap, an administrator's choice gives way only to another one,
\* to its own removal or to a fallback after it failed, and every switch in the log
\* names the default there was before it and the one there is after it.
THEOREM DeservedSwitches == Spec => SwitchesAreDeserved
<1>1. IInv /\ [Next]_vars => [ChoiceStands]_vars
  BY NextDeserved
<1>2. IInv /\ [Next]_vars => [Truthful]_vars
  BY NextDeserved
<1>3. Spec => [][ChoiceStands]_vars /\ [][Truthful]_vars
  BY <1>1, <1>2, Invariant, PTL DEF Spec
<1> QED BY <1>3, PTL DEF SwitchesAreDeserved, AdminChoiceStands, SwitchesAreTruthful, ChoiceStands, Truthful
=============================================================================
