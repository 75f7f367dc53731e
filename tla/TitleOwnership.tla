--------------------------- MODULE TitleOwnership ---------------------------
(***************************************************************************)
(* Who owns the title of a chat session (session-title-schema.md): an      *)
(* untouched placeholder may be replaced once by a generated title, the    *)
(* user may name the session at any time, and what the user wrote is only  *)
(* ever replaced by the user.                                              *)
(***************************************************************************)
CONSTANT Sessions

VARIABLE owner  \* per session: "absent", "PLACEHOLDER", "GENERATED", "USER" or "deleted"

\* Sessions to come, and sessions that are gone.
Init == owner \in [Sessions -> {"absent", "deleted"}]

Become(s, from, to) == owner[s] \in from /\ owner' = [owner EXCEPT ![s] = to]

Live == {"PLACEHOLDER", "GENERATED", "USER"}

Next ==
  \E s \in Sessions :
    \/ Become(s, {"absent"}, "PLACEHOLDER") \/ Become(s, {"absent"}, "USER")
    \/ Become(s, {"PLACEHOLDER"}, "GENERATED")
    \/ Become(s, Live, "USER")
    \/ Become(s, Live, "deleted")

Spec == Init /\ [][Next]_owner
=============================================================================
