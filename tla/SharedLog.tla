----------------------------- MODULE SharedLog -----------------------------
(***************************************************************************)
(* What the service promises its users: there is one list of versions of   *)
(* the document, which only grows, and every user reads it from the start, *)
(* one version after the other, never ahead of its end.                    *)
(***************************************************************************)
EXTENDS Integers, Sequences

CONSTANTS Users, InitialText

VARIABLES versions,      \* versions[r + 1] is the text of revision r
          seen           \* the revision each user has reached

vars == <<versions, seen>>

Init == /\ versions = <<InitialText>>
        /\ seen = [u \in Users |-> 0]

Commit == /\ Len(versions') = Len(versions) + 1
          /\ \A i \in 1 .. Len(versions) : versions'[i] = versions[i]
          /\ UNCHANGED seen

Observe(u) == /\ seen[u] + 1 < Len(versions)
              /\ seen' = [seen EXCEPT ![u] = @ + 1]
              /\ UNCHANGED versions

Next == Commit \/ \E u \in Users : Observe(u)

Spec == Init /\ [][Next]_vars
=============================================================================
