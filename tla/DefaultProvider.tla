-------------------------- MODULE DefaultProvider --------------------------
(***************************************************************************)
(* What the default provider promises: there is at most one, it is usable, *)
(* it is lost only when nothing usable is left, and it moves by itself     *)
(* only when it becomes unusable or an answer came from another provider.  *)
(***************************************************************************)
EXTENDS Naturals

CONSTANT Providers  \* positive numbers, in the order of their creation

VARIABLES usable,   \* providers that are enabled and not deleted
          default,  \* the default provider, 0 if there is none
          source    \* "ADMIN" or "AUTO", "none" without a default

defaultVars == <<usable, default, source>>

Init == usable = {} /\ default = 0 /\ source = "none"

SelectFirst ==
  \/ usable' = {} /\ default' = 0 /\ source' = "none"
  \/ /\ default' \in usable' /\ \A p \in usable' : default' <= p
     /\ source' = "AUTO"

\* One provider is added, enabled, disabled or deleted.
Change(p) ==
  /\ usable' \in {usable \cup {p}, usable \ {p}}
  /\ \/ default \in usable' \cup {0} /\ UNCHANGED <<default, source>>
     \/ default \notin usable' /\ SelectFirst

\* An administrator picks a default.
Choose(p) ==
  /\ p \in usable
  /\ default' = p /\ source' = "ADMIN"
  /\ UNCHANGED usable

\* A reply came from p after the default had failed.
Promote(p) ==
  /\ default # 0 /\ p \in usable \ {default}
  /\ default' = p /\ source' = "AUTO"
  /\ UNCHANGED usable

Next == \E p \in Providers : Change(p) \/ Choose(p) \/ Promote(p)

Spec == Init /\ [][Next]_defaultVars
=============================================================================
