----------------------------- MODULE Membership -----------------------------
(***************************************************************************)
(* Who is in which document: the list window and the editor windows of     *)
(* every client, the requests they send, the handlers of MessageHandler    *)
(* that create, list, open, leave, share and delete documents, the         *)
(* registration of users in a DocumentSession, and the cursors.            *)
(*                                                                         *)
(* A request is an element of tasks[u] from the moment it is sent until    *)
(* its handler ends: every frame is a pool task of its own, so the         *)
(* requests of one user are handled in any order and step by step.  A      *)
(* handler takes one step per piece of shared state that another thread    *)
(* can change under it.  inbox[u] is the way to the client, which is FIFO. *)
(*                                                                         *)
(* A text is the sequence of the revisions whose operations it contains:   *)
(* what the operations do to it is the matter of CollabEditing.  A user    *)
(* has one connection; one who lost it does not come back.                 *)
(***************************************************************************)
EXTENDS Naturals, Sequences, FiniteSets, SequencesExt

CONSTANTS Users,
          MaxDocs,     \* bound on the documents
          MaxTasks,    \* bound on the requests of one user being handled
          MaxRounds,   \* bound on the rounds of CursorAggregator
          Budgets      \* bounds on what the users do, one of which is chosen

Acts == {"create", "open", "share", "delete", "refresh", "leave", "edit",
         "cursor", "loss"}

ASSUME MembershipAssumption ==
    /\ MaxDocs \in Nat /\ MaxTasks \in Nat /\ MaxRounds \in Nat
    /\ Budgets \subseteq [Users -> [Acts -> Nat]]

Docs == 1 .. MaxDocs

VARIABLES
    app,             \* the windows of each client
    inbox,           \* messages on their way to each client
    link,            \* "up", "lost", "closing" or "gone"
    tasks,           \* requests sent and not completely handled
    current_doc,     \* ClientSession::current_doc_id_
    rights,          \* AccessControl::rights_
    documents,       \* documents_ of DocumentManager
    next_doc_id,
    sessions,        \* "none", "running", "stopping" or "ended": the thread
    cursor_buffers,  \* cursor_buffers_ of DocumentManager
    revision,        \* Document::revision_
    queue,           \* DocumentSession::command_queue_
    announce,        \* the operation committed and not yet sent out
    connected_users, \* DocumentSession::connected_users_
    since,           \* history: the revision at which a user was registered
    gathered,        \* the cursors CursorAggregator is about to send
    budget, rounds     \* what is left of the bounds

managerVars == <<documents, next_doc_id, cursor_buffers>>
sessionVars == <<sessions, revision, queue, announce, connected_users, since>>
serverVars == <<current_doc, rights, managerVars, sessionVars, gathered>>
vars == <<app, inbox, link, tasks, serverVars, budget, rounds>>

Upto(n) == [i \in 1 .. n |-> i]    \* the text at revision n

Spend(u, act) == budget[u][act] > 0 /\ budget' = [budget EXCEPT ![u][act] = @ - 1]

-----------------------------------------------------------------------------
(* Requests and messages: protocol.h *)

Request(type, doc, target, n) ==
    [type |-> type, doc |-> doc, target |-> target, n |-> n,
     pc |-> "received", text |-> << >>, fresh |-> FALSE, role |-> "none"]

DocListResponse(docs) == [type |-> "doc_list_response", docs |-> docs]
DocCreateResponse(d) == [type |-> "doc_create_response", doc |-> d]
DocJoinResponse(d, text, rev, role, users, task) ==
    [type |-> "doc_join_response", success |-> TRUE, doc |-> d, text |-> text,
     rev |-> rev, role |-> role, users |-> users, n |-> task.n,
     fresh |-> task.fresh]
DocJoinFailure == [type |-> "doc_join_response", success |-> FALSE, doc |-> 0]
Message(type, d, u) == [type |-> type, doc |-> d, user |-> u]
OperationMessage(type, d, u, r) == [type |-> type, doc |-> d, user |-> u, rev |-> r]
IsOperation(m, d) == m.type \in {"operation_ack", "operation_broadcast"} /\ m.doc = d
CursorBroadcast(d, users) ==
    [type |-> "cursor_broadcast", doc |-> d, users |-> users]
Error == [type |-> "error"]
Plain(type) == [type |-> type]

\* ClientSession::send: nothing is sent on a connection that is closed.
SentTo(box, us, m) ==
    [u \in Users |-> IF u \in us /\ link[u] = "up" THEN Append(box[u], m) ELSE box[u]]

-----------------------------------------------------------------------------
(* The client: DocumentListWindow, EditorWindow, OTController,             *)
(* UserPanelWidget and RemoteCursorsModel.  An operator maps the state c   *)
(* of one client to the next; c.out are the requests it sends.             *)

Closed == [list |-> {}, pending |-> 0, visible |-> FALSE, windows |-> {},
           asked |-> [d \in Docs |-> 0], out |-> << >>]

\* asked is a history variable: it numbers the requests of this client that
\* open or leave a document.  The windows of one document differ in it.
Ask(c, type, d, target) ==
    IF type \in {"doc_join_request", "doc_leave_request"}
    THEN [c EXCEPT !.asked[d] = @ + 1,
                   !.out = Append(@, Request(type, d, target, c.asked[d] + 1))]
    ELSE [c EXCEPT !.out = Append(@, Request(type, d, target, 0))]

refresh(c) == Ask(c, "doc_list_request", 0, "")

requestJoin(c, d) ==
    IF c.pending # 0 THEN c
    ELSE Ask([c EXCEPT !.pending = d], "doc_join_request", d, "")

handleDocCreateResponse(c, m) == requestJoin(refresh(c), m.doc)

\* The constructor of EditorWindow ends with scheduleCursorBroadcast.
EditorWindow(u, m) ==
    [doc |-> m.doc, text |-> m.text, rev |-> m.rev, role |-> m.role,
     busy |-> FALSE, cursor_dirty |-> TRUE, panel |-> m.users \cup {u},
     cursors |-> {}, opened |-> Len(m.text), n |-> m.n, fresh |-> m.fresh]

openEditor(u, c, m) ==
    [c EXCEPT !.windows = @ \cup {EditorWindow(u, m)}, !.visible = FALSE]

handleDocJoinResponse(u, c, m) ==
    IF c.pending # 0 /\ m.doc # c.pending THEN c
    ELSE LET answered == [c EXCEPT !.pending = 0]
         IN  IF m.success THEN openEditor(u, answered, m) ELSE answered

handleErrorMessage(c) == [c EXCEPT !.pending = 0]

onMessageReceived(u, c, m) ==
    CASE m.type = "doc_list_response" -> [c EXCEPT !.list = m.docs]
      [] m.type = "doc_create_response" -> handleDocCreateResponse(c, m)
      [] m.type = "doc_join_response" -> handleDocJoinResponse(u, c, m)
      [] m.type = "error" -> handleErrorMessage(c)
      [] m.type \in {"doc_delete_response", "doc_share_response", "role_changed",
                     "doc_deleted", "user_joined", "user_left"} -> refresh(c)
      [] OTHER -> c

\* The window holds its own operation since the user made it; it is counted
\* in the text when its revision is known.
handleAck(w, m) ==
    [w EXCEPT !.rev = m.rev, !.busy = FALSE,
              !.text = IF w.busy THEN Append(@, m.rev) ELSE @]
handleBroadcast(u, w, m) ==
    IF m.user = u THEN w ELSE [w EXCEPT !.rev = m.rev, !.text = Append(@, m.rev)]

handleUserJoined(w, m) == [w EXCEPT !.panel = @ \cup {m.user}]
handleUserLeft(u, w, m) ==
    [w EXCEPT !.panel = @ \ ({m.user} \ {u}), !.cursors = @ \ {m.user}]

\* The remote cursors are replaced, and every owner of one is put on the panel.
applyBroadcast(u, users) == users \ {u}
onRemoteCursorsChanged(w) == [w EXCEPT !.panel = @ \cup w.cursors]
handleCursorBroadcast(u, w, m) ==
    onRemoteCursorsChanged([w EXCEPT !.cursors = applyBroadcast(u, m.users)])

handleRoleChanged(w, m) == [w EXCEPT !.role = m.role]

onNetworkMessage(u, w, m) ==
    CASE m.type = "operation_ack" -> handleAck(w, m)
      [] m.type = "operation_broadcast" -> handleBroadcast(u, w, m)
      [] m.type = "user_joined" -> handleUserJoined(w, m)
      [] m.type = "user_left" -> handleUserLeft(u, w, m)
      [] m.type = "cursor_broadcast" -> handleCursorBroadcast(u, w, m)
      [] m.type = "role_changed" -> handleRoleChanged(w, m)
      [] OTHER -> w

\* leftDocument: the list window is shown again and refreshed.
leftDocument(c) == refresh([c EXCEPT !.visible = TRUE])

\* Every editor window sees every message and looks at those of its document.
Editors(u, c, m) ==
    LET of(w) == "doc" \in DOMAIN m /\ m.doc = w.doc
    IN  {IF of(w) THEN onNetworkMessage(u, w, m) ELSE w : w \in c.windows}

\* Each of the windows that close leaves its document.
handleDocDeleted(c, m) ==
    LET closed == {w \in c.windows : w.doc = m.doc}
        refreshes == [i \in 1 .. Cardinality(closed) |->
                        Request("doc_list_request", 0, "", 0)]
    IN  [c EXCEPT !.windows = @ \ closed, !.visible = @ \/ closed # {},
                  !.out = @ \o refreshes]

\* The list window was connected to messageReceived first; a window that it
\* opens does not see the message that opened it.
Received(u, c, m) ==
    LET listed == onMessageReceived(u, c, m)
        new == listed.windows \ c.windows
        all == [listed EXCEPT !.windows = Editors(u, c, m) \cup new]
    IN  IF m.type = "doc_deleted" THEN handleDocDeleted(all, m) ELSE all

\* The client of u goes to the state c and sends what c asks for.
Becomes(u, c) ==
    /\ link[u] = "up"
    /\ Len(tasks[u]) + Len(c.out) <= MaxTasks
    /\ app' = [app EXCEPT ![u] = [c EXCEPT !.out = << >>]]
    /\ tasks' = [tasks EXCEPT ![u] = @ \o c.out]
    /\ UNCHANGED <<link, serverVars, rounds>>

Deliver(u) ==
    /\ inbox[u] # << >>
    /\ Becomes(u, Received(u, app[u], Head(inbox[u])))
    /\ inbox' = [inbox EXCEPT ![u] = Tail(@)]
    /\ UNCHANGED budget

User(u, act, c) == Spend(u, act) /\ Becomes(u, c) /\ UNCHANGED inbox

Listed(u) == IF app[u].visible THEN app[u].list ELSE {}

onNewClicked(u) ==
    app[u].visible /\ User(u, "create", Ask(app[u], "doc_create_request", 0, ""))

onRefreshClicked(u) == app[u].visible /\ User(u, "refresh", refresh(app[u]))

onOpenClicked(u) ==
    \E d \in Listed(u) : app[u].pending = 0 /\ User(u, "open", requestJoin(app[u], d))

onDeleteClicked(u) ==
    \E d \in Listed(u) : User(u, "delete", Ask(app[u], "doc_delete_request", d, ""))

\* From the list or from the tool bar of an editor window.
onShareClicked(u) ==
    \E d \in Listed(u) \cup {w.doc : w \in app[u].windows}, t \in Users :
        User(u, "share", Ask(app[u], "doc_share_request", d, t))

closeEvent(u) ==
    \E w \in app[u].windows :
        LET left == [app[u] EXCEPT !.windows = @ \ {w}]
        IN  User(u, "leave", leftDocument(Ask(left, "doc_leave_request", w.doc, "")))

\* The window w becomes x and sends a request for its document.
Sends(u, act, w, x, type) ==
    User(u, act, Ask([app[u] EXCEPT !.windows = (@ \ {w}) \cup {x}], type, w.doc, ""))

\* One operation at a time: OTController's buffer is part of CollabEditing.
Edit(u) ==
    \E w \in app[u].windows :
        /\ w.role \in {"owner", "editor"} /\ ~ w.busy
        /\ Sends(u, "edit", w, [w EXCEPT !.busy = TRUE, !.cursor_dirty = TRUE], "operation")

onCursorBroadcastTimeout(u) ==
    \E w \in app[u].windows :
        /\ w.cursor_dirty
        /\ Sends(u, "cursor", w, [w EXCEPT !.cursor_dirty = FALSE], "cursor_update")

-----------------------------------------------------------------------------
(* The server: MessageHandler in the tasks of the pool *)

Task(u, i, type, pc) == tasks[u][i].type = type /\ tasks[u][i].pc = pc

Done(u, i) == tasks' = [tasks EXCEPT ![u] = RemoveAt(@, i)]
Goto(u, i, t) == tasks' = [tasks EXCEPT ![u][i] = t]
Send(us, m) == inbox' = SentTo(inbox, us, m)

get_session(d) == d # 0 /\ sessions[d] = "running"

\* What is queued for a thread that has ended stays there.
enqueue_command(d, cmd) ==
    queue' = IF sessions[d] = "ended" THEN queue ELSE [queue EXCEPT ![d] = Append(@, cmd)]
Command(type, u) == [type |-> type, user |-> u]

grant(d, u, role) == rights' = [rights EXCEPT ![d][u] = role]
revoke_all_for_document(d) == rights' = [rights EXCEPT ![d] = [u \in Users |-> "none"]]
can_read(d, u) == rights[d][u] # "none"
can_edit(d, u) == rights[d][u] \in {"owner", "editor"}
can_share(d, u) == rights[d][u] = "owner"
can_delete(d, u) == rights[d][u] = "owner"

list_documents(u) == {d \in Docs : rights[d][u] # "none"}

handle_doc_list(u, i) ==
    /\ Task(u, i, "doc_list_request", "received")
    /\ Done(u, i) /\ Send({u}, DocListResponse(list_documents(u)))
    /\ UNCHANGED serverVars

create_document(u) ==
    /\ next_doc_id' = next_doc_id + 1
    /\ documents' = documents \cup {next_doc_id}
    /\ grant(next_doc_id, u, "owner")
    /\ UNCHANGED cursor_buffers

handle_doc_create(u, i) ==
    /\ Task(u, i, "doc_create_request", "received")
    /\ next_doc_id \in Docs
    /\ create_document(u)
    /\ Done(u, i) /\ Send({u}, DocCreateResponse(next_doc_id))
    /\ UNCHANGED <<current_doc, sessionVars, gathered>>

get_or_create_session(d) == sessions' = [sessions EXCEPT ![d] = "running"]

\* fresh is a history variable: when the content is read, nothing is left of
\* an earlier visit of the user to the document, neither a window nor a
\* request, a command or an answer on its way.
Fresh(u, i, d) ==
    /\ u \notin connected_users[d]
    /\ \A c \in ToSet(queue[d]) : c.user # u
    /\ \A j \in DOMAIN tasks[u] \ {i} :
          tasks[u][j].doc = d
          => tasks[u][j].type \notin {"doc_join_request", "doc_leave_request", "operation"}
    /\ \A w \in app[u].windows : w.doc # d
    /\ \A m \in ToSet(inbox[u]) : m.type = "doc_join_response" => m.doc # d

handle_doc_join(u, i) ==
    LET t == tasks[u][i]
        d == t.doc
    IN  \/ /\ Task(u, i, "doc_join_request", "received")
           /\ ~ can_read(d, u) \/ d \notin documents
           /\ Done(u, i) /\ Send({u}, DocJoinFailure)
           /\ UNCHANGED serverVars
        \/ /\ Task(u, i, "doc_join_request", "received")
           /\ can_read(d, u) /\ d \in documents
           /\ get_or_create_session(d)
           /\ Goto(u, i, [t EXCEPT !.pc = "located", !.role = rights[d][u]])
           /\ UNCHANGED <<inbox, current_doc, rights, managerVars, revision,
                          queue, announce, connected_users, since, gathered>>
        \/ /\ Task(u, i, "doc_join_request", "located")
           /\ Goto(u, i, [t EXCEPT !.pc = "read", !.text = Upto(revision[d]),
                                   !.fresh = Fresh(u, i, d)])
           /\ UNCHANGED <<inbox, serverVars>>
        \/ /\ Task(u, i, "doc_join_request", "read")
           /\ current_doc' = [current_doc EXCEPT ![u] = d]
           /\ Send({u}, DocJoinResponse(d, t.text, revision[d], t.role,
                                        connected_users[d], t))
           /\ Goto(u, i, [t EXCEPT !.pc = "answered", !.text = << >>])
           /\ UNCHANGED <<rights, managerVars, sessionVars, gathered>>
        \/ /\ Task(u, i, "doc_join_request", "answered")
           /\ enqueue_command(d, Command("Join", u))
           /\ Done(u, i)
           /\ UNCHANGED <<inbox, current_doc, rights, managerVars, sessions,
                          revision, announce, connected_users, since, gathered>>

handle_doc_leave(u, i) ==
    LET d == tasks[u][i].doc
    IN  \/ /\ Task(u, i, "doc_leave_request", "received")
           /\ IF get_session(d) THEN enqueue_command(d, Command("Leave", u))
              ELSE UNCHANGED queue
           /\ Goto(u, i, [tasks[u][i] EXCEPT !.pc = "enqueued"])
           /\ UNCHANGED <<inbox, current_doc, rights, managerVars, sessions,
                          revision, announce, connected_users, since, gathered>>
        \/ /\ Task(u, i, "doc_leave_request", "enqueued")
           /\ current_doc' = [current_doc EXCEPT ![u] = 0]
           /\ Done(u, i) /\ Send({u}, Plain("doc_leave_response"))
           /\ UNCHANGED <<rights, managerVars, sessionVars, gathered>>

\* The session's thread is asked to stop; it still handles what is queued.
delete_document(d) ==
    /\ documents' = documents \ {d}
    /\ sessions' = [sessions EXCEPT ![d] = IF @ = "running" THEN "stopping" ELSE @]
    /\ cursor_buffers' = [cursor_buffers EXCEPT ![d] = {}]
    /\ revoke_all_for_document(d)
    /\ UNCHANGED next_doc_id

handle_doc_delete(u, i) ==
    LET d == tasks[u][i].doc
    IN  \/ /\ Task(u, i, "doc_delete_request", "received")
           /\ ~ can_delete(d, u)
           /\ Done(u, i)
           /\ inbox' = SentTo(SentTo(inbox, {u}, Error), {u}, Plain("doc_delete_response"))
           /\ UNCHANGED serverVars
        \/ /\ Task(u, i, "doc_delete_request", "received")
           /\ can_delete(d, u)
           /\ IF get_session(d) THEN enqueue_command(d, Command("Delete", u))
              ELSE UNCHANGED queue
           /\ Goto(u, i, [tasks[u][i] EXCEPT !.pc = "enqueued"])
           /\ UNCHANGED <<inbox, current_doc, rights, managerVars, sessions,
                          revision, announce, connected_users, since, gathered>>
        \/ /\ Task(u, i, "doc_delete_request", "enqueued")
           /\ delete_document(d)
           /\ Done(u, i) /\ Send({u}, Plain("doc_delete_response"))
           /\ UNCHANGED <<current_doc, revision, queue, announce,
                          connected_users, since, gathered>>

\* The windows of this client only ever grant the role of an editor.
handle_doc_share(u, i) ==
    LET d == tasks[u][i].doc
        target == tasks[u][i].target
    IN  \/ /\ Task(u, i, "doc_share_request", "received")
           /\ ~ can_share(d, u) \/ target = u
           /\ Done(u, i) /\ Send({u}, Error)
           /\ UNCHANGED serverVars
        \/ /\ Task(u, i, "doc_share_request", "received")
           /\ can_share(d, u) /\ target # u
           /\ grant(d, target, "editor")
           /\ Goto(u, i, [tasks[u][i] EXCEPT !.pc = "granted"])
           /\ Send({u}, Plain("doc_share_response"))
           /\ UNCHANGED <<current_doc, managerVars, sessionVars, gathered>>
        \/ /\ Task(u, i, "doc_share_request", "granted")
           /\ Done(u, i)
           /\ IF current_doc[target] = d
              THEN Send({target}, [type |-> "role_changed", doc |-> d, role |-> "editor"])
              ELSE UNCHANGED inbox
           /\ UNCHANGED serverVars

\* The checks and the enqueuing are one step: a leave, a join or a deletion
\* that comes between has the effect of one that comes before or after both,
\* since the requests of a user are handled in any order anyway.
handle_operation(u, i) ==
    LET d == tasks[u][i].doc
        refused == current_doc[u] # d \/ ~ can_edit(d, u) \/ ~ get_session(d)
    IN  /\ Task(u, i, "operation", "received")
        /\ Done(u, i)
        /\ IF refused THEN Send({u}, Error) /\ UNCHANGED queue
           ELSE enqueue_command(d, Command("Operation", u)) /\ UNCHANGED inbox
        /\ UNCHANGED <<current_doc, rights, managerVars, sessions, revision,
                       announce, connected_users, since, gathered>>

remove_cursor(d, u) ==
    cursor_buffers' = [e \in Docs |-> cursor_buffers[e] \ IF e = d THEN {u} ELSE {}]
update_cursor(d, u) == cursor_buffers' = [cursor_buffers EXCEPT ![d] = @ \cup {u}]

handle_cursor_update(u, i) ==
    LET d == tasks[u][i].doc
    IN  \/ /\ Task(u, i, "cursor_update", "received")
           /\ IF current_doc[u] = d /\ get_session(d)
              THEN Goto(u, i, [tasks[u][i] EXCEPT !.pc = "checked"])
              ELSE Done(u, i)
           /\ UNCHANGED <<inbox, serverVars>>
        \/ /\ Task(u, i, "cursor_update", "checked")
           /\ update_cursor(d, u)
           /\ Done(u, i)
           /\ UNCHANGED <<inbox, current_doc, rights, documents, next_doc_id,
                          sessionVars, gathered>>

handle_message(u) ==
    /\ \E i \in DOMAIN tasks[u] :
          \/ handle_doc_list(u, i) \/ handle_doc_create(u, i)
          \/ handle_doc_join(u, i) \/ handle_doc_leave(u, i)
          \/ handle_doc_delete(u, i) \/ handle_doc_share(u, i)
          \/ handle_operation(u, i) \/ handle_cursor_update(u, i)
    /\ UNCHANGED <<app, link, budget, rounds>>

-----------------------------------------------------------------------------
(* The thread of a DocumentSession *)

handle_join(d, u) ==
    /\ connected_users' = [connected_users EXCEPT ![d] = @ \cup {u}]
    /\ since' = [since EXCEPT ![d][u] = revision[d]]
    /\ Send(connected_users[d] \ {u}, Message("user_joined", d, u))
    /\ UNCHANGED <<revision, announce>>

handle_leave(d, u) ==
    /\ connected_users' = [connected_users EXCEPT ![d] = @ \ {u}]
    /\ Send(connected_users[d] \ {u}, Message("user_left", d, u))
    /\ UNCHANGED <<revision, announce, since>>

\* apply_with_ot; what follows it is Announce.
Commit(d, u) ==
    /\ revision' = [revision EXCEPT ![d] = @ + 1]
    /\ announce' = [announce EXCEPT ![d] = {u}]
    /\ UNCHANGED <<inbox, connected_users, since>>

handle_delete(d) ==
    /\ Send(connected_users[d], Message("doc_deleted", d, 0))
    /\ connected_users' = [connected_users EXCEPT ![d] = {}]
    /\ UNCHANGED <<revision, announce, since>>

process_command(d) ==
    /\ sessions[d] \in {"running", "stopping"}
    /\ announce[d] = {} /\ queue[d] # << >>
    /\ LET cmd == Head(queue[d])
       IN  CASE cmd.type = "Join" -> handle_join(d, cmd.user)
             [] cmd.type = "Leave" -> handle_leave(d, cmd.user)
             [] cmd.type = "Operation" -> Commit(d, cmd.user)
             [] cmd.type = "Delete" -> handle_delete(d)
    /\ queue' = [queue EXCEPT ![d] = Tail(@)]
    /\ UNCHANGED sessions

\* The loop over the table ends at the author instead of skipping the entry.
Announcement_bug_break(d, u) ==
    LET acked == SentTo(inbox, connected_users[d] \cap {u},
                        OperationMessage("operation_ack", d, u, revision[d]))
    IN  SentTo(acked, IF u \in connected_users[d] THEN {} ELSE connected_users[d],
               OperationMessage("operation_broadcast", d, u, revision[d]))

\* The acknowledgement to the author and the broadcast to the others.
Announcement(d, u) ==
    LET acked == SentTo(inbox, connected_users[d] \cap {u},
                        OperationMessage("operation_ack", d, u, revision[d]))
    IN  SentTo(acked, connected_users[d] \ {u},
               OperationMessage("operation_broadcast", d, u, revision[d]))

Announce(d) ==
    /\ \E u \in announce[d] : inbox' = Announcement(d, u)
    /\ announce' = [announce EXCEPT ![d] = {}]
    /\ UNCHANGED <<sessions, revision, queue, connected_users, since>>

\* run returns and the session is destroyed with its table of users.
EndSession(d) ==
    /\ sessions[d] = "stopping" /\ queue[d] = << >> /\ announce[d] = {}
    /\ sessions' = [sessions EXCEPT ![d] = "ended"]
    /\ connected_users' = [connected_users EXCEPT ![d] = {}]
    /\ UNCHANGED <<inbox, revision, queue, announce, since>>

Session(d) ==
    /\ process_command(d) \/ Announce(d) \/ EndSession(d)
    /\ UNCHANGED <<app, link, tasks, current_doc, rights, managerVars, gathered, budget, rounds>>

-----------------------------------------------------------------------------
(* CursorAggregator, connections *)

\* broadcast_loop copies the cursors of a document, then asks for its users.
get_cursors(d) ==
    /\ gathered = << >> /\ get_session(d) /\ cursor_buffers[d] # {}
    /\ rounds > 0 /\ rounds' = rounds - 1
    /\ gathered' = <<d, cursor_buffers[d]>>
    /\ UNCHANGED <<app, inbox, link, tasks, current_doc, rights, managerVars,
                   sessionVars, budget>>

broadcast_loop ==
    /\ gathered # << >>
    /\ LET d == gathered[1]
       IN  IF get_session(d) THEN Send(connected_users[d], CursorBroadcast(d, gathered[2]))
           ELSE UNCHANGED inbox
    /\ gathered' = << >>
    /\ UNCHANGED <<app, link, tasks, current_doc, rights, managerVars,
                   sessionVars, budget, rounds>>

\* The client's windows close and it quits; the requests that had not reached
\* the server are lost with the connection.
LoseLink(u) ==
    /\ link[u] = "up" /\ Spend(u, "loss")
    /\ link' = [link EXCEPT ![u] = "lost"]
    /\ app' = [app EXCEPT ![u] = Closed]
    /\ inbox' = [inbox EXCEPT ![u] = << >>]
    /\ \E k \in 0 .. Len(tasks[u]) :
          /\ \A i \in k + 1 .. Len(tasks[u]) : tasks[u][i].pc = "received"
          /\ tasks' = [tasks EXCEPT ![u] = SubSeq(@, 1, k)]
    /\ UNCHANGED <<serverVars, rounds>>

QueueLeave_bug_registered(u) ==
    LET d == current_doc[u]
    IN  IF get_session(d) /\ u \in connected_users[d]
        THEN enqueue_command(d, Command("Leave", u)) ELSE UNCHANGED queue
QueueLeave(u) ==
    LET d == current_doc[u]
    IN  IF get_session(d) THEN enqueue_command(d, Command("Leave", u))
        ELSE UNCHANGED queue

\* The callback of main.cpp, which asks for current_doc_id more than once.
on_disconnect(u) ==
    /\ \/ /\ link[u] = "lost" /\ current_doc[u] # 0
          /\ QueueLeave(u)
          /\ link' = [link EXCEPT ![u] = "closing"]
          /\ UNCHANGED cursor_buffers
       \/ /\ link[u] = "closing" \/ (link[u] = "lost" /\ current_doc[u] = 0)
          /\ IF link[u] = "closing" THEN remove_cursor(current_doc[u], u)
             ELSE UNCHANGED cursor_buffers
          /\ link' = [link EXCEPT ![u] = "gone"]
          /\ UNCHANGED queue
    /\ UNCHANGED <<app, inbox, tasks, current_doc, rights, documents, next_doc_id,
                   sessions, revision, announce, connected_users, since, gathered, budget, rounds>>

-----------------------------------------------------------------------------

\* Everyone has signed in; the list window asks for the list as it opens.
Init ==
    /\ app = [u \in Users |-> [Closed EXCEPT !.visible = TRUE]]
    /\ tasks = [u \in Users |-> <<Request("doc_list_request", 0, "", 0)>>]
    /\ inbox = [u \in Users |-> << >>] /\ link = [u \in Users |-> "up"]
    /\ current_doc = [u \in Users |-> 0]
    /\ rights = [d \in Docs |-> [u \in Users |-> "none"]]
    /\ documents = {} /\ next_doc_id = 1
    /\ sessions = [d \in Docs |-> "none"]
    /\ cursor_buffers = [d \in Docs |-> {}]
    /\ revision = [d \in Docs |-> 0] /\ queue = [d \in Docs |-> << >>]
    /\ announce = [d \in Docs |-> {}] /\ connected_users = [d \in Docs |-> {}]
    /\ since = [d \in Docs |-> [u \in Users |-> 0]]
    /\ gathered = << >> /\ budget \in Budgets /\ rounds = MaxRounds

Next ==
    \/ \E u \in Users :
          \/ Deliver(u) \/ onNewClicked(u) \/ onRefreshClicked(u)
          \/ onOpenClicked(u) \/ onDeleteClicked(u) \/ onShareClicked(u)
          \/ closeEvent(u) \/ Edit(u) \/ onCursorBroadcastTimeout(u)
          \/ handle_message(u) \/ LoseLink(u) \/ on_disconnect(u)
    \/ \E d \in Docs : Session(d) \/ get_cursors(d)
    \/ broadcast_loop

\* The pool, the threads of the sessions and the io thread keep running; no
\* user has to do anything.
Fairness ==
    /\ \A u \in Users : WF_vars(handle_message(u)) /\ WF_vars(on_disconnect(u))
    /\ \A d \in Docs : WF_vars(Session(d))

Spec == Init /\ [][Next]_vars /\ Fairness

-----------------------------------------------------------------------------
(* Properties *)

\* handle_doc_join reads the text before the session's thread registers the
\* user.  A window that the user opened when nothing of an earlier visit was
\* left, and has not left since, is sent every revision at most once and in
\* order; once the Join is handled it misses exactly the revisions committed
\* after the text was read and before the user was registered.  (What a window
\* closed before still had on its way is missed too, which is what fresh is
\* for: its acknowledgement reaches the new window, whose text has it not.)
OnlyHoleIsTheJoin ==
    \A u \in Users : \A w \in app[u].windows :
        w.fresh /\ w.n = app[u].asked[w.doc] =>
            LET d == w.doc
                sent == {i \in DOMAIN inbox[u] : IsOperation(inbox[u][i], d)}
                held == ToSet(w.text)
                coming == {inbox[u][i].rev : i \in sent}
                next == IF u \in connected_users[d] /\ announce[d] # {}
                        THEN {revision[d]} ELSE {}
            IN  /\ \A i, j \in DOMAIN w.text : i < j => w.text[i] < w.text[j]
                /\ \A i, j \in sent : i < j => inbox[u][i].rev < inbox[u][j].rev
                /\ \A x \in held, y \in coming : x < y
                /\ \A x \in held \cup coming, y \in next : x < y
                /\ u \in connected_users[d] =>
                      1 .. revision[d] \ (held \cup coming \cup next)
                        = w.opened + 1 .. since[d][u]

\* A connection that breaks when no request of its user is being handled
\* leaves nothing behind: main.cpp's callback has the session forget the user,
\* and the user's cursor is no longer sent to the others.
LostAreForgotten ==
    \A u \in Users, d \in Docs :
        (link[u] = "lost" /\ tasks[u] = << >> /\ current_doc[u] = d)
            ~> [](u \notin connected_users[d] /\ u \notin cursor_buffers[d])

\* README.md:3 of the repository: everybody sees the changes of the others.
\* When nothing is on its way any more and the window waits for nothing, the
\* editor window of a registered user holds all revisions of its document.
SeesEveryChange ==
    \A u \in Users : \A w \in app[u].windows :
        /\ u \in connected_users[w.doc] /\ ~ w.busy
        /\ tasks[u] = << >> /\ inbox[u] = << >>
        /\ queue[w.doc] = << >> /\ announce[w.doc] = {}
        => w.text = Upto(revision[w.doc])
=============================================================================
