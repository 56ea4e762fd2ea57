---------------------------- MODULE MCMembership ----------------------------
(* Two users and one document, which u1 creates, in five stories: what the  *)
(* users do in each is bounded, in which order is not.                      *)
EXTENDS Membership, TLC

CONSTANTS u1, u2

May(acts) == acts @@ [a \in Acts |-> 0]

\* u2 opens the document while u1 edits it.
Joining ==
    u1 :> May("create" :> 1 @@ "share" :> 1 @@ "edit" :> 2)
      @@ u2 :> May("open" :> 1)

\* u1 closes the window and opens it again.
Reopening ==
    u1 :> May("create" :> 1 @@ "leave" :> 1 @@ "open" :> 1 @@ "edit" :> 2)
      @@ u2 :> May("refresh" :> 1)

\* u1 deletes the document while its window opens, or closes or loses it.
Deleting ==
    u1 :> May("create" :> 1 @@ "delete" :> 1 @@ "cursor" :> 1
                @@ "leave" :> 1 @@ "loss" :> 1)
      @@ u2 :> May(<< >>)

\* u2 asks for what only the owner may do.
Refusing ==
    u1 :> May("create" :> 1 @@ "share" :> 1)
      @@ u2 :> May("share" :> 1 @@ "delete" :> 1)

\* u2 loses the connection.
Losing ==
    u1 :> May("create" :> 1 @@ "share" :> 1)
      @@ u2 :> May("open" :> 1 @@ "cursor" :> 1 @@ "loss" :> 1)

OneJoin == {Joining}
Stories == {Joining, Reopening, Deleting, Refusing, Losing}
=============================================================================
