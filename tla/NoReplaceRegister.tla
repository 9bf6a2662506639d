-------------------------- MODULE NoReplaceRegister --------------------------
(***************************************************************************)
(* What private staging promises to a reader of the destination name: the  *)
(* name is absent, or holds one complete artifact.  An artifact once put   *)
(* there is never replaced; a power loss may take it away again, but only  *)
(* as long as nobody has been told that it is durable.                     *)
(***************************************************************************)
CONSTANTS Artifacts,  \* what the destination may come to hold
          Absent      \* the destination name does not exist

VARIABLES value,      \* what the destination name refers to
          durable     \* the artifacts somebody was told are durable

vars == <<value, durable>>

Init == value \in Artifacts \cup {Absent} /\ durable = {}

Publish(a) ==
    /\ value = Absent
    /\ value' = a
    /\ UNCHANGED durable

\* Only what is in place may be acknowledged.
Acknowledge(a) ==
    /\ value = a
    /\ durable' = durable \cup {a}
    /\ UNCHANGED value

\* A power loss before the acknowledgement.
Lose ==
    /\ value \notin durable
    /\ value' = Absent
    /\ UNCHANGED durable

Next ==
    \/ \E a \in Artifacts : Publish(a) \/ Acknowledge(a)
    \/ Lose

Spec == Init /\ [][Next]_vars
=============================================================================
