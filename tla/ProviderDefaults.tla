-------------------------- MODULE ProviderDefaults --------------------------
(***************************************************************************)
(* LLM provider configurations and the one default among them: the calls   *)
(* of administrators (llmProvider.service.ts) and of default-mode chat     *)
(* generations (chat.service.ts) over llmProviderConfig.repository.ts.     *)
(*                                                                         *)
(* A transaction takes the advisory lock, reads, and later writes and      *)
(* commits.  Checks made before it, the fast path of getOrSelectDefault    *)
(* and create run without the lock.  The unique index and the CHECK of     *)
(* the migration are left out: the code must not depend on them.           *)
(***************************************************************************)
EXTENDS Naturals

CONSTANTS
  MaxProviders,  \* bound on the configurations ever created
  Calls,         \* slots for concurrent calls
  NoCall         \* null call

ASSUME ProvidersAssumption == MaxProviders \in Nat
ASSUME CallsAssumption == NoCall \notin Calls

VARIABLES
  rows,       \* the table "llm_provider_configs"
  lock,       \* holder of pg_advisory_xact_lock(753006, 1)
  calls,      \* calls in progress
  lastSwitch  \* the newest row of "llm_default_provider_switches"

vars == <<rows, lock, calls, lastSwitch>>

-----------------------------------------------------------------------------
Providers == 1..MaxProviders  \* ids, in the order of createdAt

\* default: defaultSource, "none" where isDefault is false.
Row == [state : {"absent", "present", "deleted"}, enabled : BOOLEAN,
        default : {"none", "ADMIN", "AUTO"}]

Absent == [state |-> "absent", enabled |-> FALSE, default |-> "none"]

Kinds == {"select", "generate", "setDefault", "promote", "update", "delete"}

\* id: target of the call; from: the default a generation started with;
\* enabled: data.enabled of an update; isDefault, usable, current: what the
\* transaction has read of its target and of the default.
Call ==
  [pc : {"idle", "bootstrap", "find", "lock", "read", "commit", "listActive", "fallback"},
   kind : Kinds, id : Providers \cup {0}, from : Providers \cup {0},
   enabled : {"true", "false", "keep"}, fallbacks : SUBSET Providers,
   isDefault : BOOLEAN, usable : BOOLEAN, current : Providers \cup {0}]

Idle == [pc |-> "idle", kind |-> "select", id |-> 0, from |-> 0, enabled |-> "keep",
         fallbacks |-> {}, isDefault |-> FALSE, usable |-> FALSE, current |-> 0]

Switch == [old : Providers \cup {0}, new : Providers \cup {0},
           reason : {"none", "INITIAL_SELECTION", "PROVIDER_DISABLED", "PROVIDER_DELETED",
                     "AVAILABILITY_FAILURE"}]

TypeOK ==
  /\ rows \in [Providers -> Row]
  /\ lock \in Calls \cup {NoCall}
  /\ calls \in [Calls -> Call]
  /\ lastSwitch \in Switch

Init ==
  /\ rows = [p \in Providers |-> Absent]
  /\ lock = NoCall
  /\ calls = [c \in Calls |-> Idle]
  /\ lastSwitch = [old |-> 0, new |-> 0, reason |-> "none"]

-----------------------------------------------------------------------------
Active(table) == {p \in Providers : table[p].state = "present" /\ table[p].enabled}
Defaults(table) == {p \in Providers : table[p].default # "none"}

\* findFirst({ where: { isDefault: true } })
currentDefault == IF Defaults(rows) = {} THEN 0 ELSE CHOOSE p \in Defaults(rows) : TRUE

Goto(c, pc) == calls' = [calls EXCEPT ![c].pc = pc]

\* repository.create, outside the lock
Create(enabled) ==
  /\ \E p \in Providers :
       /\ rows[p].state = "absent" /\ \A q \in 1..(p - 1) : rows[q].state # "absent"
       /\ rows' = [rows EXCEPT ![p] = [Absent EXCEPT !.state = "present", !.enabled = enabled]]
  /\ UNCHANGED <<lock, lastSwitch>>

\* Mutants: the default gets no source; a default that is gone is not replaced.
SelectWithoutSource(table, old, reason) ==
  \/ Active(table) = {} /\ rows' = table /\ UNCHANGED lastSwitch
  \/ \E next \in Active(table) :
       /\ \A p \in Active(table) : next <= p
       /\ rows' = [table EXCEPT ![next].default = "null"]
       /\ lastSwitch' = [old |-> old, new |-> next, reason |-> reason]

SelectNone(table, old, reason) == rows' = table /\ UNCHANGED lastSwitch

\* selectAutomatic, of the first active provider
SelectAutomatic(table, old, reason) ==
  \/ Active(table) = {} /\ rows' = table /\ UNCHANGED lastSwitch
  \/ \E next \in Active(table) :
       /\ \A p \in Active(table) : next <= p
       /\ rows' = [table EXCEPT ![next].default = "AUTO"]
       /\ lastSwitch' = [old |-> old, new |-> next, reason |-> reason]

-----------------------------------------------------------------------------
(* Calls begin.                                                            *)

\* createProvider: the new row is there before the default is looked for.
CreateProvider(c) ==
  /\ calls[c].pc = "idle"
  /\ \E enabled \in BOOLEAN : Create(enabled)
  /\ calls' = [calls EXCEPT ![c].pc = "find", ![c].kind = "select"]

\* listProviders: ensureBootstrapProviderConfig, then getOrSelectDefault.
ListProviders(c) ==
  /\ calls[c].pc = "idle"
  /\ Goto(c, IF \E p \in Providers : rows[p].state = "present" THEN "find" ELSE "bootstrap")
  /\ UNCHANGED <<rows, lock, lastSwitch>>

Bootstrap(c) ==
  /\ calls[c].pc = "bootstrap"
  /\ Create(TRUE)
  /\ Goto(c, "find")

\* A generation without a provider or a model of its own.
Generate(c) ==
  /\ calls[c].pc = "idle"
  /\ calls' = [calls EXCEPT ![c].pc = "find", ![c].kind = "generate"]
  /\ UNCHANGED <<rows, lock, lastSwitch>>

\* setDefaultProvider, updateProvider, deleteProvider: getProviderConfigById
\* refuses a deleted provider, setDefaultProvider also a disabled one.
Administer(c, kind, p, enabled) ==
  /\ calls[c].pc = "idle"
  /\ rows[p].state = "present"
  /\ kind = "setDefault" => rows[p].enabled
  /\ calls' = [calls EXCEPT ![c] = [Idle EXCEPT !.pc = "lock", !.kind = kind, !.id = p,
                                                !.enabled = enabled]]
  /\ UNCHANGED <<rows, lock, lastSwitch>>

-----------------------------------------------------------------------------
(* getOrSelectDefault and the fallback of a generation.                    *)

\* With its default known an administrator's call is over.
Found(c, p) ==
  calls' = [calls EXCEPT ![c] =
              IF @.kind # "generate" THEN Idle
              ELSE [Idle EXCEPT !.pc = "listActive", !.kind = "generate", !.from = p]]

Find(c) ==
  /\ calls[c].pc = "find"
  /\ IF currentDefault # 0 THEN Found(c, currentDefault) ELSE Goto(c, "lock")
  /\ UNCHANGED <<rows, lock, lastSwitch>>

\* listFallbackProviderIds
ListActive(c) ==
  /\ calls[c].pc = "listActive"
  /\ LET from == calls[c].from
         ids == IF from \in Active(rows) THEN Active(rows) \ {from} ELSE {}
     IN calls' = [calls EXCEPT ![c].pc = "fallback", ![c].fallbacks = ids]
  /\ UNCHANGED <<rows, lock, lastSwitch>>

\* The first provider answers, or nobody does.
NotSwitched(c) ==
  /\ calls[c].pc = "fallback"
  /\ calls' = [calls EXCEPT ![c] = Idle]
  /\ UNCHANGED <<rows, lock, lastSwitch>>

\* After failures one of the fallbacks, usable when it is resolved, answers.
Switched(c) ==
  /\ calls[c].pc = "fallback"
  /\ \E p \in calls[c].fallbacks \cap Active(rows) :
       calls' = [calls EXCEPT ![c] = [Idle EXCEPT !.pc = "lock", !.kind = "promote", !.id = p,
                                                  !.from = calls[c].from]]
  /\ UNCHANGED <<rows, lock, lastSwitch>>

-----------------------------------------------------------------------------
(* Transactions.                                                           *)

\* Mutant: the transaction does not wait for the lock.
LockWithoutWaiting(c) ==
  /\ calls[c].pc = "lock"
  /\ lock' = c
  /\ Goto(c, "read")
  /\ UNCHANGED <<rows, lastSwitch>>

\* lockDefault
Lock(c) ==
  /\ calls[c].pc = "lock" /\ lock = NoCall
  /\ lock' = c
  /\ Goto(c, "read")
  /\ UNCHANGED <<rows, lastSwitch>>

Read(c) ==
  /\ calls[c].pc = "read"
  /\ LET p == calls[c].id IN
       calls' = [calls EXCEPT ![c].pc = "commit",
                              ![c].current = currentDefault,
                              ![c].usable = p \in Active(rows),
                              ![c].isDefault = p \in Defaults(rows)]
  /\ UNCHANGED <<rows, lock, lastSwitch>>

\* COMMIT, or a rollback, gives the lock back.
Release(c) == lock' = IF lock = c THEN NoCall ELSE lock

CommitSelect(c) ==
  /\ calls[c].pc = "commit" /\ calls[c].kind \in {"select", "generate"}
  /\ IF calls[c].current # 0
     THEN Found(c, calls[c].current) /\ UNCHANGED <<rows, lastSwitch>>
     ELSE /\ SelectAutomatic(rows, 0, "INITIAL_SELECTION")
          /\ IF Active(rows) = {} THEN calls' = [calls EXCEPT ![c] = Idle]
             ELSE Found(c, lastSwitch'.new)
  /\ Release(c)

CommitSetDefault(c) ==
  /\ calls[c].pc = "commit" /\ calls[c].kind = "setDefault"
  /\ rows' = IF ~calls[c].usable THEN rows
             ELSE [p \in Providers |->
                     [rows[p] EXCEPT !.default = IF p = calls[c].id THEN "ADMIN" ELSE "none"]]
  /\ calls' = [calls EXCEPT ![c] = Idle]
  /\ Release(c)
  /\ UNCHANGED lastSwitch

\* Mutant: the default is taken from whichever provider failed.
PromotesAny(call) == call.usable

Promotes(call) == call.current = call.from /\ call.usable /\ call.from # call.id

CommitPromote(c) ==
  /\ calls[c].pc = "commit" /\ calls[c].kind = "promote"
  /\ LET from == calls[c].from
         to == calls[c].id
     IN IF ~Promotes(calls[c]) THEN UNCHANGED <<rows, lastSwitch>>
        ELSE /\ rows' = [rows EXCEPT ![from].default = "none", ![to].default = "AUTO"]
             /\ lastSwitch' = [old |-> from, new |-> to, reason |-> "AVAILABILITY_FAILURE"]
  /\ calls' = [calls EXCEPT ![c] = Idle]
  /\ Release(c)

EnabledAfter(call, row) ==
  IF call.enabled = "keep" THEN row.enabled ELSE call.enabled = "true"

CommitUpdate(c) ==
  /\ calls[c].pc = "commit" /\ calls[c].kind = "update"
  /\ LET p == calls[c].id
         removingDefault == calls[c].isDefault /\ calls[c].enabled = "false"
         updated == [rows EXCEPT ![p].enabled = EnabledAfter(calls[c], rows[p]),
                                 ![p].default = IF removingDefault THEN "none" ELSE @]
     IN CASE removingDefault -> SelectAutomatic(updated, p, "PROVIDER_DISABLED")
          [] ~removingDefault /\ Defaults(updated) = {} ->
               SelectAutomatic(updated, 0, "INITIAL_SELECTION")
          [] OTHER -> rows' = updated /\ UNCHANGED lastSwitch
  /\ calls' = [calls EXCEPT ![c] = Idle]
  /\ Release(c)

CommitDelete(c) ==
  /\ calls[c].pc = "commit" /\ calls[c].kind = "delete"
  /\ LET p == calls[c].id
         deleted == [rows EXCEPT ![p] = [state |-> "deleted", enabled |-> FALSE, default |-> "none"]]
     IN IF calls[c].isDefault THEN SelectAutomatic(deleted, p, "PROVIDER_DELETED")
        ELSE rows' = deleted /\ UNCHANGED lastSwitch
  /\ calls' = [calls EXCEPT ![c] = Idle]
  /\ Release(c)

Commit(c) ==
  \/ CommitSelect(c) \/ CommitSetDefault(c) \/ CommitPromote(c)
  \/ CommitUpdate(c) \/ CommitDelete(c)

\* The API process dies, or a statement fails: an open transaction is rolled back.
Fail(c) ==
  /\ calls[c].pc # "idle"
  /\ calls' = [calls EXCEPT ![c] = Idle]
  /\ Release(c)
  /\ UNCHANGED <<rows, lastSwitch>>

-----------------------------------------------------------------------------
Step(c) ==
  \/ Bootstrap(c) \/ Find(c) \/ ListActive(c) \/ NotSwitched(c) \/ Switched(c)
  \/ Lock(c) \/ Read(c) \/ Commit(c)

Begin(c) ==
  \/ CreateProvider(c) \/ ListProviders(c) \/ Generate(c)
  \/ \E p \in Providers :
       \/ \E kind \in {"setDefault", "delete"} : Administer(c, kind, p, "keep")
       \/ \E enabled \in {"true", "false", "keep"} : Administer(c, "update", p, enabled)

Next == \E c \in Calls : Begin(c) \/ Step(c) \/ Fail(c)

Spec == Init /\ [][Next]_vars

-----------------------------------------------------------------------------
\* The unique index on the default is never what keeps a second one out.
AtMostOneDefault ==
  \A p, q \in Defaults(rows) : p = q

\* The default is one and can be used: it is enabled and not deleted, although checks are
\* made before the transaction and providers come and go meanwhile.
DefaultIsUsable == AtMostOneDefault /\ Defaults(rows) \subseteq Active(rows)

\* An administrator's default gives way to another choice of an administrator,
\* to its own removal, or to a fallback that answered after it had failed itself.
AdminChoiceStands ==
  [][\A p \in Providers :
       rows[p].default = "ADMIN" /\ rows'[p].default # "ADMIN" =>
         \/ p \notin Active(rows')
         \/ \E q \in Providers : rows'[q].default = "ADMIN"
         \/ \E c \in Calls : calls[c].kind = "promote" /\ calls[c].from = p]_vars

\* Each logged switch names the default before it and the one after it.
SwitchesAreTruthful ==
  [][lastSwitch' # lastSwitch =>
       /\ Defaults(rows) \subseteq {lastSwitch'.old}
       /\ Defaults(rows') = {lastSwitch'.new}
       /\ rows'[lastSwitch'.new].default = "AUTO"]_vars

\* The default moves for a reason, and the log says how it moved.
SwitchesAreDeserved == AdminChoiceStands /\ SwitchesAreTruthful

Default == INSTANCE DefaultProvider WITH
  usable <- Active(rows),
  default <- currentDefault,
  source <- IF currentDefault = 0 THEN "none" ELSE rows[currentDefault].default

\* The default is never lost while a usable provider is left, and moves only as
\* DefaultProvider allows, whatever calls overlap.
KeepsDefault == Default!Spec
=============================================================================
