--------------------------- MODULE CollabEditing ---------------------------
(***************************************************************************)
(* One open document edited by several users: every client's OTController  *)
(* and LocalDocument, the server's thread pool and MessageHandler, the     *)
(* command queue and thread of the DocumentSession, and the Document.      *)
(*                                                                         *)
(* A message from a client is an element of pool from the moment it is     *)
(* sent: the socket keeps the order, but every frame becomes a pool task   *)
(* of its own (main.cpp:96), so two messages of one client are handled in  *)
(* either order.  A handler that reads shared state and acts on it later   *)
(* takes two steps, the task staying in pool between them.  inbox[u] is    *)
(* the write queue of u's session, the socket and the client's event       *)
(* queue, which are FIFO.                                                  *)
(*                                                                         *)
(* All users have joined when the behaviour starts.                        *)
(***************************************************************************)
EXTENDS Document

CONSTANTS Owner,        \* the user who created the document
          Removals,     \* numbers of characters one edit may remove
          Additions,    \* numbers of characters one edit may add
          MaxEdits,     \* bound on the edits of each user
          MaxShares,    \* bound on the changes of roles
          MaxCloses,    \* bound on the windows closed by their users
          MaxFaults     \* bound on the connections lost

ASSUME CollabAssumption ==
    /\ Owner \in Users
    /\ Removals \subseteq Nat /\ Additions \subseteq {0, 1}
    /\ MaxEdits \in [Users -> Nat]
    /\ MaxShares \in Nat /\ MaxCloses \in Nat /\ MaxFaults \in Nat

VARIABLES
    \* client: EditorWindow, OTController, LocalDocument
    open,             \* the editor window exists
    readonly,         \* QPlainTextEdit::isReadOnly
    online,           \* online_user_ids_
    state,            \* "SYN", "ACK" or "BUF": OTController::State
    rev,              \* OTController::revision_
    pending,          \* pending_op_, a sequence of at most one operation
    buffer,           \* buffer_
    local,            \* LocalDocument::content_
    \* network and server
    linked,           \* the connection of the user's session is up
    disconnected,     \* ClientSession::disconnected_
    current_doc,      \* ClientSession::current_doc_id() is this document
    role,             \* AccessControl::rights_ for this document
    pool,             \* messages sent and not completely handled
    notices,          \* role changes made and not yet announced
    commands,         \* DocumentSession::command_queue_
    connected_users,  \* DocumentSession::connected_users_
    subscribers,      \* Document::subscribers_
    inbox,            \* messages on their way to each client
    \* history variables and counters of the bounds
    edits, shares, closes, faults

clientVars == <<open, readonly, online, state, rev, pending, buffer, local>>
otVars == <<state, rev, pending, buffer, local>>
sessionVars == <<connected_users, subscribers>>
linkVars == <<linked, disconnected>>
boundVars == <<edits, shares, closes, faults>>

vars == <<docVars, clientVars, linkVars, current_doc, role, pool, notices,
          commands, sessionVars, inbox, boundVars>>

Init ==
    /\ DocInit
    /\ open = [u \in Users |-> TRUE]
    /\ readonly = [u \in Users |-> FALSE]
    /\ online = [u \in Users |-> Users]
    /\ state = [u \in Users |-> "SYN"]
    /\ rev = [u \in Users |-> 0]
    /\ pending = [u \in Users |-> << >>]
    /\ buffer = [u \in Users |-> << >>]
    /\ local = [u \in Users |-> InitialText]
    /\ linked = [u \in Users |-> TRUE]
    /\ disconnected = [u \in Users |-> FALSE]
    /\ current_doc = [u \in Users |-> TRUE]
    /\ role = [u \in Users |-> IF u = Owner THEN "owner" ELSE "editor"]
    /\ pool = {} /\ notices = {} /\ commands = << >>
    /\ connected_users = Users
    /\ subscribers = Users
    /\ inbox = [u \in Users |-> << >>]
    /\ edits = [u \in Users |-> 0]
    /\ shares = 0 /\ closes = 0 /\ faults = 0

-----------------------------------------------------------------------------
(* Messages *)

\* The wire form of an operation: an insertion carries no length, a deletion
\* no text, and neither carries its author or revision.
to_entry(op) == IF op.type = "insert"
                THEN [op |-> "insert", pos |-> op.position, text |-> op.text, len |-> 0]
                ELSE [op |-> "delete", pos |-> op.position, text |-> << >>, len |-> op.length]

from_entry(entry, userId, r) ==
    IF entry.op = "insert" THEN make_insert(entry.pos, entry.text, userId, r)
                           ELSE make_delete(entry.pos, entry.len, userId, r)

\* sendOp: the message carries the client's present revision.
OperationTask(u, op, r) == [userId |-> u, type |-> "operation", step |-> "received",
                            revision |-> r, entry |-> to_entry(op)]
LeaveTask(u) == [userId |-> u, type |-> "leave", step |-> "received"]

\* sendFrame drops what is sent on a socket that is not connected.
Sent(u, tasks) == IF linked[u] THEN tasks ELSE {}

Ack(r) == [type |-> "ack", revision |-> r]
Broadcast_bug_revision(u, r, op) == [type |-> "broadcast", userId |-> u,
                                     revision |-> r - 1, entry |-> to_entry(op)]
Broadcast(u, r, op) == [type |-> "broadcast", userId |-> u, revision |-> r,
                        entry |-> to_entry(op)]
Error(code) == [type |-> "error", code |-> code]
RoleChanged(newRole) == [type |-> "role_changed", role |-> newRole]
UserLeft(u) == [type |-> "user_left", userId |-> u]

\* A message that finds no connection, or no editor window, has no effect.
Reaches(u) == linked[u] /\ ~ disconnected[u] /\ open[u]

Delivered_bug_full(u, m) ==
    IF Reaches(u) /\ inbox[u] = << >> THEN Append(inbox[u], m) ELSE inbox[u]
Delivered_bug_throws(u, m) ==
    IF Reaches(u) /\ \A v \in connected_users : linked[v]
    THEN Append(inbox[u], m) ELSE inbox[u]

\* ClientSession::send of m to u.
Delivered(u, m) == IF Reaches(u) THEN Append(inbox[u], m) ELSE inbox[u]

\* msgs[u] to every user u of the domain of msgs.
SendTo(msgs) ==
    inbox' = [u \in Users |-> IF u \in DOMAIN msgs THEN Delivered(u, msgs[u]) ELSE inbox[u]]

-----------------------------------------------------------------------------
(* The client *)

\* EditorWidget::onContentsChange: n characters removed at p, text added.
ContentsChange(u, p, n, text) ==
    (IF n > 0 THEN <<make_delete(p, n, u, rev[u])>> ELSE << >>)
      \o (IF text # << >> THEN <<make_insert(p, text, u, rev[u])>> ELSE << >>)

onLocalOperations_bug_sends(u, ops) ==
    /\ ops # << >>
    /\ local' = [local EXCEPT ![u] = FoldLeft(apply, @, ops)]
    /\ pending' = [pending EXCEPT ![u] = <<Head(ops)>>]
    /\ buffer' = [buffer EXCEPT ![u] = @ \o Tail(ops)]
    /\ pool' = pool \cup Sent(u, {OperationTask(u, Head(ops), rev[u])})
    /\ state' = [state EXCEPT ![u] = IF buffer'[u] = << >> THEN "ACK" ELSE "BUF"]
    /\ UNCHANGED rev

onLocalOperations(u, ops) ==
    /\ ops # << >>
    /\ local' = [local EXCEPT ![u] = FoldLeft(apply, @, ops)]
    /\ IF state[u] = "SYN"
       THEN /\ pending' = [pending EXCEPT ![u] = <<Head(ops)>>]
            /\ buffer' = [buffer EXCEPT ![u] = @ \o Tail(ops)]
            /\ pool' = pool \cup Sent(u, {OperationTask(u, Head(ops), rev[u])})
            /\ state' = [state EXCEPT ![u] = IF Tail(ops) = << >> THEN "ACK" ELSE "BUF"]
       ELSE /\ buffer' = [buffer EXCEPT ![u] = @ \o ops]
            /\ state' = [state EXCEPT ![u] = "BUF"]
            /\ UNCHANGED <<pending, pool>>
    /\ UNCHANGED rev

\* The user types, deletes, or replaces a selection.
Edit(u) ==
    /\ open[u] /\ ~ readonly[u]
    /\ edits[u] < MaxEdits[u]
    /\ \E p \in 0 .. Len(local[u]), n \in Removals, k \in Additions :
          /\ p + n <= Len(local[u])
          /\ onLocalOperations(u, ContentsChange(u, p, n, [i \in 1 .. k |-> u]))
    /\ edits' = [edits EXCEPT ![u] = @ + 1]
    /\ UNCHANGED <<docVars, open, readonly, online, linkVars, current_doc, role,
                   notices, commands, sessionVars, inbox, shares, closes, faults>>

\* The window goes away, with everything on its way to it.
WindowCloses(u) ==
    /\ open' = [open EXCEPT ![u] = FALSE]
    /\ inbox' = [inbox EXCEPT ![u] = << >>]

\* EditorWindow::closeEvent, by the user.  Operations in buffer are not sent.
closeEvent(u) ==
    /\ open[u]
    /\ closes < MaxCloses
    /\ WindowCloses(u)
    /\ pool' = pool \cup Sent(u, {LeaveTask(u)})
    /\ closes' = closes + 1
    /\ UNCHANGED <<docVars, readonly, online, otVars, linkVars, current_doc, role,
                   notices, commands, sessionVars, edits, shares, faults>>

\* NetworkManager reports the lost connection after the data that arrived.
onDisconnected(u) ==
    /\ open[u] /\ ~ linked[u] /\ inbox[u] = << >>
    /\ WindowCloses(u)
    /\ UNCHANGED <<docVars, readonly, online, otVars, linkVars, current_doc, role,
                   pool, notices, commands, sessionVars, boundVars>>

Consumed(u) == inbox' = [inbox EXCEPT ![u] = Tail(@)]

handleAck_bug_state(u, m) ==
    /\ m.type = "ack"
    /\ rev' = [rev EXCEPT ![u] = m.revision]
    /\ IF buffer[u] # << >>
       THEN /\ pending' = [pending EXCEPT ![u] = <<Head(buffer[u])>>]
            /\ buffer' = [buffer EXCEPT ![u] = Tail(@)]
            /\ pool' = pool \cup Sent(u, {OperationTask(u, Head(buffer[u]), m.revision)})
            /\ UNCHANGED state
       ELSE /\ pending' = [pending EXCEPT ![u] = << >>]
            /\ state' = [state EXCEPT ![u] = "SYN"]
            /\ UNCHANGED <<buffer, pool>>
    /\ Consumed(u)
    /\ UNCHANGED <<open, readonly, online, local>>

handleAck(u, m) ==
    /\ m.type = "ack"
    /\ rev' = [rev EXCEPT ![u] = m.revision]
    /\ IF state[u] = "BUF"
       THEN LET next == Head(buffer[u])
                rest == Tail(buffer[u])
            IN  /\ pending' = [pending EXCEPT ![u] = <<next>>]
                /\ buffer' = [buffer EXCEPT ![u] = rest]
                /\ pool' = pool \cup Sent(u, {OperationTask(u, next, m.revision)})
                /\ state' = [state EXCEPT ![u] = IF rest = << >> THEN "ACK" ELSE @]
       ELSE /\ pending' = [pending EXCEPT ![u] = << >>]
            /\ state' = [state EXCEPT ![u] = "SYN"]
            /\ UNCHANGED <<buffer, pool>>
    /\ Consumed(u)
    /\ UNCHANGED <<open, readonly, online, local>>

CarriedPast_bug_pending(serverOp, ops) ==
    [i \in 0 .. Len(ops) |-> IF i = 0 THEN serverOp ELSE transform(ops[1], serverOp)[2]]

CarriedPast_bug_unmoved(serverOp, ops) == [i \in 0 .. Len(ops) |-> serverOp]

\* CarriedPast(serverOp, ops)[i] is the server's operation carried past the
\* first i of the client's own.
CarriedPast(serverOp, ops) ==
    LET evolved[i \in 0 .. Len(ops)] ==
            IF i = 0 THEN serverOp ELSE transform(ops[i], evolved[i - 1])[2]
    IN  evolved

handleBroadcast(u, m) ==
    LET ops == pending[u] \o buffer[u]
        evolved == CarriedPast(from_entry(m.entry, m.userId, m.revision), ops)
        primed(i) == transform(ops[i], evolved[i - 1])[1]
        n == Len(pending[u])
    IN  /\ m.type = "broadcast"
        /\ m.userId # u
        /\ local' = [local EXCEPT ![u] = apply(@, evolved[Len(ops)])]
        /\ pending' = [pending EXCEPT ![u] = [i \in 1 .. n |-> primed(i)]]
        /\ buffer' = [buffer EXCEPT ![u] = [i \in 1 .. Len(@) |-> primed(n + i)]]
        /\ rev' = [rev EXCEPT ![u] = m.revision]
        /\ Consumed(u)
        /\ UNCHANGED <<open, readonly, online, state, pool>>

handleError_bug_forgets(u, m) ==
    /\ m.type = "error"
    /\ pending' = [pending EXCEPT ![u] = << >>]
    /\ state' = [state EXCEPT ![u] = IF buffer[u] = << >> THEN "SYN" ELSE @]
    /\ Consumed(u)
    /\ UNCHANGED <<open, pool, readonly, online, rev, buffer, local>>

handleError_bug_ignores(u, m) ==
    /\ m.type = "error"
    /\ Consumed(u)
    /\ UNCHANGED <<open, pool, readonly, online, otVars>>

\* handleError: only revision_too_old closes the window, any other error is
\* logged and the controller stays as it is.  The message box that comes
\* before the window closes is not modelled (here and in onDisconnected).
handleError(u, m) ==
    /\ m.type = "error"
    /\ IF m.code = "revision_too_old"
       THEN WindowCloses(u) /\ pool' = pool \cup Sent(u, {LeaveTask(u)})
       ELSE Consumed(u) /\ UNCHANGED <<open, pool>>
    /\ UNCHANGED <<readonly, online, otVars>>

handleRoleChanged(u, m) ==
    /\ m.type = "role_changed"
    /\ readonly' = [readonly EXCEPT ![u] = m.role \notin {"owner", "editor"}]
    /\ Consumed(u)
    /\ UNCHANGED <<open, online, otVars, pool>>

handleUserLeft(u, m) ==
    /\ m.type = "user_left"
    /\ online' = [online EXCEPT ![u] = @ \ {m.userId}]
    /\ Consumed(u)
    /\ UNCHANGED <<open, readonly, otVars, pool>>

onNetworkMessage(u) ==
    /\ open[u] /\ inbox[u] # << >>
    /\ LET m == Head(inbox[u])
       IN  \/ handleAck(u, m)
           \/ handleBroadcast(u, m)
           \/ handleError(u, m)
           \/ handleRoleChanged(u, m)
           \/ handleUserLeft(u, m)
    /\ UNCHANGED <<docVars, linkVars, current_doc, role, notices, commands,
                   sessionVars, boundVars>>

-----------------------------------------------------------------------------
(* The server's thread pool: MessageHandler *)

Refused(task, code) ==
    /\ pool' = pool \ {task}
    /\ SendTo([u \in {task.userId} |-> Error(code)])
    /\ UNCHANGED commands

Advanced(task, step) == (pool \ {task}) \cup {[task EXCEPT !.step = step]}

\* handle_operation up to the call of enqueue_command. The clients of the model
\* are authenticated and send well-formed messages of one operation to a session
\* that exists (its deletion is not modelled), so the answers to malformed
\* messages, to unknown documents and to oversized batches do not occur.
handle_operation(task) ==
    /\ task.type = "operation" /\ task.step = "received"
    /\ IF ~ current_doc[task.userId] THEN Refused(task, "not_in_document")
       ELSE IF role[task.userId] \notin {"owner", "editor"} THEN Refused(task, "access_denied")
       ELSE pool' = Advanced(task, "admitted") /\ UNCHANGED <<inbox, commands>>
    /\ UNCHANGED current_doc

enqueue_command(task) ==
    /\ task.type = "operation" /\ task.step = "admitted"
    /\ commands' = Append(commands,
          [type |-> "operation", userId |-> task.userId,
           operation |-> from_entry(task.entry, task.userId, task.revision)])
    /\ pool' = pool \ {task}
    /\ UNCHANGED <<current_doc, inbox>>

LeaveCommand(u) == [type |-> "leave", userId |-> u]

\* handle_doc_leave enqueues the command before it resets current_doc_id.
handle_doc_leave(task) ==
    /\ task.type = "leave" /\ task.step = "received"
    /\ commands' = Append(commands, LeaveCommand(task.userId))
    /\ pool' = Advanced(task, "enqueued")
    /\ UNCHANGED <<current_doc, inbox>>

set_current_doc(task) ==
    /\ task.type = "leave" /\ task.step = "enqueued"
    /\ current_doc' = [current_doc EXCEPT ![task.userId] = FALSE]
    /\ pool' = pool \ {task}
    /\ UNCHANGED <<commands, inbox>>

handle_message(u) ==
    /\ \E task \in {t \in pool : t.userId = u} :
          \/ handle_operation(task) \/ enqueue_command(task)
          \/ handle_doc_leave(task) \/ set_current_doc(task)
    /\ UNCHANGED <<docVars, clientVars, linkVars, role, notices, sessionVars, boundVars>>

\* handle_doc_share, a request of the owner: the right is changed, and then
\* announced if the target's session is found and in this document.  The Qt
\* client only asks for "editor" (editor_window.cpp:297); the other roles come
\* from other clients of the protocol (test_server_integration.cpp:156).
handle_doc_share(target, newRole) ==
    /\ shares < MaxShares
    /\ target # Owner
    /\ role' = [role EXCEPT ![target] = newRole]
    /\ notices' = notices \cup {[userId |-> target, role |-> newRole, id |-> shares]}
    /\ shares' = shares + 1
    /\ UNCHANGED <<docVars, clientVars, linkVars, current_doc, pool, commands,
                   sessionVars, inbox, edits, closes, faults>>

announce_role(notice) ==
    /\ notices' = notices \ {notice}
    /\ IF current_doc[notice.userId]
       THEN SendTo([u \in {notice.userId} |-> RoleChanged(notice.role)])
       ELSE UNCHANGED inbox
    /\ UNCHANGED <<docVars, clientVars, linkVars, current_doc, role, pool, commands,
                   sessionVars, boundVars>>

-----------------------------------------------------------------------------
(* The document session's thread *)

\* DocumentSession::handle_operation: send_to_user and broadcast find the
\* sessions in connected_users.
session_handle_operation(cmd) ==
    LET op == cmd.operation
        author == {cmd.userId} \cap connected_users
    IN  /\ cmd.type = "operation"
        /\ \/ /\ apply_with_ot(op)
              /\ SendTo([u \in connected_users |->
                            IF u = cmd.userId THEN Ack(revision')
                            ELSE Broadcast(cmd.userId, revision', Transformed(op))])
           \/ /\ refuse_op(op)
              /\ SendTo([u \in author |-> Error("revision_too_old")])
        /\ UNCHANGED sessionVars

session_handle_leave(cmd) ==
    /\ cmd.type = "leave"
    /\ connected_users' = connected_users \ {cmd.userId}
    /\ subscribers' = subscribers \ {cmd.userId}
    /\ SendTo([u \in connected_users' |-> UserLeft(cmd.userId)])
    /\ UNCHANGED textVars

process_command ==
    /\ commands # << >>
    /\ session_handle_operation(Head(commands)) \/ session_handle_leave(Head(commands))
    /\ commands' = Tail(commands)
    /\ UNCHANGED <<incoming, history_limit, clientVars, linkVars, current_doc, role,
                   pool, notices, boundVars>>

-----------------------------------------------------------------------------
(* Connections *)

\* The connection breaks.  What was in the socket may be lost, the latest
\* first: a leave that was sent after an operation is lost with it.
LoseConnection(u) ==
    /\ linked[u] /\ faults < MaxFaults
    /\ linked' = [linked EXCEPT ![u] = FALSE]
    /\ \E lost \in SUBSET {t \in pool : t.userId = u /\ t.step = "received"} :
          /\ (\E t \in lost : t.type = "operation") =>
                \A t \in pool : t.userId = u /\ t.type = "leave" => t \in lost
          /\ pool' = pool \ lost
    /\ \E k \in 0 .. Len(inbox[u]) : inbox' = [inbox EXCEPT ![u] = SubSeq(@, 1, k)]
    /\ faults' = faults + 1
    /\ UNCHANGED <<docVars, clientVars, disconnected, current_doc, role, notices,
                   commands, sessionVars, edits, shares, closes>>

on_disconnect_bug_silent(u) ==
    /\ ~ linked[u] /\ ~ disconnected[u]
    /\ disconnected' = [disconnected EXCEPT ![u] = TRUE]
    /\ UNCHANGED <<docVars, clientVars, linked, current_doc, role, pool, notices,
                   commands, sessionVars, inbox, boundVars>>

\* The read or write that fails calls main's on_disconnect, once.
on_disconnect(u) ==
    /\ ~ linked[u] /\ ~ disconnected[u]
    /\ disconnected' = [disconnected EXCEPT ![u] = TRUE]
    /\ commands' = IF current_doc[u] THEN Append(commands, LeaveCommand(u)) ELSE commands
    /\ UNCHANGED <<docVars, clientVars, linked, current_doc, role, pool, notices,
                   sessionVars, inbox, boundVars>>

-----------------------------------------------------------------------------

\* What the program does by itself, and what its users and the network do.
SystemStep ==
    \/ \E u \in Users : \/ onNetworkMessage(u) \/ onDisconnected(u)
                        \/ handle_message(u) \/ on_disconnect(u)
    \/ \E n \in notices : announce_role(n)
    \/ process_command

UserStep ==
    \E u \in Users : \/ Edit(u) \/ closeEvent(u)
                     \/ \E r \in {"editor", "viewer", "none"} : handle_doc_share(u, r)

Next == SystemStep \/ UserStep \/ \E u \in Users : LoseConnection(u)

Spec == Init /\ [][Next]_vars

\* Some thread of the program has something to do.
Busy == \/ pool # {} \/ notices # {} \/ commands # << >>
        \/ \E u \in Users : \/ open[u] /\ (inbox[u] # << >> \/ ~ linked[u])
                            \/ ~ linked[u] /\ ~ disconnected[u]

\* The pool's workers, the session's thread, the clients' event loops and the
\* detection of a broken connection do not all stop while one of them has
\* work: weak fairness of SystemStep, whose enabling condition is Busy.  This
\* is far less than that each of them keeps running; users and the network
\* owe nothing.
FairSpec == Spec /\ ([]<>~Busy \/ []<><<SystemStep>>_vars)

-----------------------------------------------------------------------------
(* Properties *)

TypeOK ==
    /\ content \in Seq(Int) /\ revision \in Nat
    /\ open \in [Users -> BOOLEAN] /\ readonly \in [Users -> BOOLEAN]
    /\ online \in [Users -> SUBSET Users]
    /\ state \in [Users -> {"SYN", "ACK", "BUF"}]
    /\ rev \in [Users -> Nat]
    /\ pending \in [Users -> Seq(Operation)] /\ buffer \in [Users -> Seq(Operation)]
    /\ local \in [Users -> Seq(Int)]
    /\ linked \in [Users -> BOOLEAN] /\ disconnected \in [Users -> BOOLEAN]
    /\ current_doc \in [Users -> BOOLEAN]
    /\ role \in [Users -> {"owner", "editor", "viewer", "none"}]
    /\ \A t \in pool : t.userId \in Users
    /\ \A i \in 1 .. Len(commands) : commands[i].userId \in Users
    /\ connected_users \subseteq Users /\ subscribers \subseteq Users

\* The label the user sees (SYN, ACK, BUF) agrees with what the controller
\* holds, so that handleBroadcast never dereferences an empty pending_op_ and
\* handleAck never takes the front of an empty buffer_.
ControllerStates ==
    \A u \in Users :
        /\ state[u] = "SYN" <=> pending[u] = << >>
        /\ state[u] = "BUF" <=> buffer[u] # << >>
        /\ Len(pending[u]) <= 1

\* What a client shows is always the server's text of the revision the client
\* has reached, with its unacknowledged operations on top: in whatever order
\* edits, broadcasts and acknowledgements come.  With three deletions waiting
\* and two broadcasts after them transform_delete_delete breaks it.
LocalView ==
    \A u \in Users :
        open[u] => local[u] = FoldLeft(apply, versions[rev[u] + 1],
                                       pending[u] \o buffer[u])

\* Everyone who has nothing unacknowledged and nothing left to receive sees
\* the server's text.  It rests on LocalView, and fails where that does.
Converged(u) == local[u] = content /\ rev[u] = revision
Convergence ==
    \A u \in Users :
        Reaches(u) /\ state[u] = "SYN" /\ inbox[u] = << >> => Converged(u)

\* The acknowledgements and broadcasts on their way to a connected client are
\* exactly the revisions it has not seen, in order: none is missed, repeated
\* or overtaken.
Numbered(s) == {i \in 1 .. Len(s) : s[i].type \in {"ack", "broadcast"}}
NoGaps ==
    \A u \in Users :
        Reaches(u) =>
            /\ \A i, j \in Numbered(inbox[u]) :
                  i < j => inbox[u][i].revision < inbox[u][j].revision
            /\ {inbox[u][i].revision : i \in Numbered(inbox[u])} = rev[u] + 1 .. revision

\* When the acknowledgement of an operation is next, the client has
\* transformed the operation into exactly what the server committed, though
\* the two saw the concurrent operations at different times.
AckMatchesPending ==
    \A u \in Users :
        open[u] /\ inbox[u] # << >> /\ Head(inbox[u]).type = "ack" =>
            /\ pending[u] # << >>
            /\ apply(versions[rev[u] + 1], Head(pending[u])) = versions[rev[u] + 2]
            /\ rev[u] >= oldest_revision =>
                  to_entry(history[rev[u] - oldest_revision + 1]) = to_entry(Head(pending[u]))

\* A client has at most one operation between sendOp and its acknowledgement,
\* so the server never transforms two operations of one author against each
\* other (they would not shift one another: ot.cpp:16-20).
OneInFlight ==
    \A u \in Users :
        LET queued == {i \in 1 .. Len(commands) :
                          commands[i].type = "operation" /\ commands[i].userId = u}
            acks == {i \in 1 .. Len(inbox[u]) : inbox[u][i].type = "ack"}
        IN  Cardinality({t \in pool : t.userId = u /\ t.type = "operation"})
              + Cardinality(queued) + Cardinality(acks) <= Len(pending[u])

\* Once every change of a user's role has been announced and received, the
\* editor is read-only exactly for those the server would refuse: what the
\* window says of the user's role ("Your role is now: ...") is true.
RoleAgreement ==
    \A u \in Users :
        /\ Reaches(u)
        /\ \A n \in notices : n.userId # u
        /\ \A i \in 1 .. Len(inbox[u]) : inbox[u][i].type # "role_changed"
        => readonly[u] = (role[u] \notin {"owner", "editor"})

\* The detailed system implements the list of versions every user reads in
\* order: a client's revision is its place in the list.
Log == INSTANCE SharedLog WITH seen <- rev
ImplementsSharedLog == Log!Spec

\* When the program has nothing left to do, every open window is synchronised
\* and shows the server's text: no client waits for an answer that will never
\* come, and every user sees the changes of the others.
SettledWhenQuiet ==
    ~ Busy => \A u \in Users : open[u] => state[u] = "SYN" /\ Converged(u)

\* Everyone agrees and stays in agreement once the users stop editing.
EventuallyConsistent ==
    <>[](\A u \in Users : open[u] => state[u] = "SYN" /\ Converged(u))

\* A user whose connection broke or who closed the window is eventually taken
\* off the session's tables, and off online_user_ids_ of every other window,
\* which is what their status bars count.  The caret and the entry on the panel
\* are another matter: handle_doc_leave keeps the cursor (Membership).
LeaversForgotten ==
    \A u \in Users :
        (~ linked[u] \/ ~ open[u]) ~>
            /\ u \notin connected_users /\ u \notin subscribers
            /\ \A v \in Users : Reaches(v) => u \notin online[v]
=============================================================================
