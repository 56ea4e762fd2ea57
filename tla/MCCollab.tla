------------------------------ MODULE MCCollab ------------------------------
(* Small instances of CollabEditing. *)
EXTENDS CollabEditing

CONSTANTS TextLength, OwnerEdits, OtherEdits

\* Distinct characters, none of them a user id (what users type).
MCInitialText == [i \in 1 .. TextLength |-> 10 + i]
MCMaxEdits == [u \in Users |-> IF u = Owner THEN OwnerEdits ELSE OtherEdits]

\* A story: the owner removes text, then the others edit, one operation at a
\* time, and then the program runs; what the others did reaches the session
\* before what the owner did.
Story ==
    LET others == Users \ {Owner}
    IN  /\ edits # MaxEdits =>
              /\ Owner \notin ToSet(local[Owner])
              /\ revision = 0 /\ commands = << >> /\ \A t \in pool : t.step = "received"
        /\ edits[Owner] # MaxEdits[Owner] => \A u \in others : edits[u] = 0
        /\ \A u \in Users : Len(pending[u]) + Len(buffer[u]) <= edits[u]
        /\ (\E u \in others : state[u] # "SYN" \/ inbox[u] # << >>) =>
              \A t \in pool : t.userId = Owner => t.step = "received"
StorySpec == Init /\ [][Next /\ Story']_vars

=============================================================================
