------------------------------ MODULE Sessions ------------------------------
(***************************************************************************)
(* Chat sessions: SessionTitles has their titles, WorkspaceAccess the      *)
(* accounts and workspaces that may reach them.  They share no state.      *)
(***************************************************************************)
EXTENDS SessionTitles, WorkspaceAccess

\* What each keeps is of its type.
TypesOK == TypeOK /\ AccessTypeOK

\* Both at once; neither waits for the other.
SessionParts == Spec /\ AccessSpec
=============================================================================
