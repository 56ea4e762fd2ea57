# Collaborative text editor: a TLA+ model

The program is a server (C++20, Boost.Asio) and a Qt client for editing plain
text documents together. Concurrent edits are reconciled by operational
transformation (OT): the server puts all operations of a document in one order,
and every client transforms what it receives against what it has not had
acknowledged. This directory models the part where the program can go wrong in
ways a test hardly reaches, checks it with TLC on small instances and proves
parts of it with TLAPS for all instances.

Paths below are relative to the repository.

## 1. Inventory

| component | state | operations | hard part |
|---|---|---|---|
| `Operation`, `ot` (`core/src/operation.cpp`, `ot.cpp`) | none | `transform`, `apply`, `is_noop` | unsigned arithmetic; the two orders of a pair must agree |
| `Document` (`core/src/document.cpp`) | text, revision, bounded history, queue, dirty flag, subscribers, snapshot counters | `apply_with_ot`, `process_queue`, `set_history_limit`, `mark_saved`, ... | late operations against a trimmed history |
| `OTController`, `LocalDocument` (`client/src/ot_controller.cpp`, `local_document.cpp`) | SYN/ACK/BUF, pending operation, buffer, revision, text | local operations, acknowledgement, broadcast, error | broadcasts while operations are pending and buffered |
| `EditorWidget`, `EditorWindow` (`client/src/editor_*.cpp`) | read-only flag, users shown, cursors | edits, close, disconnect, role change, user joined/left | events in any order, closing with unsent edits |
| `NetworkManager` (`client/src/network_manager.cpp`) | socket, receive buffer | send, receive, (dis)connect | what is sent while disconnected is dropped |
| `DocumentListWindow` (`client/src/document_list_window.cpp`) | pending join | open, create, delete, share | answers that match no request |
| `ClientSession`, `TcpServer` (`server/src/client_session.cpp`, `tcp_server.cpp`) | write queue, current document, disconnected flag; table of sessions | read and write loops, send | several threads send, one callback on disconnect |
| `ThreadPool` (`core/src/thread_pool.cpp`) | task queue, active count | submit, wait_idle | every frame is a task: two messages of one client are handled in any order |
| `MessageHandler` (`server/src/message_handler.cpp`) | none of its own | one handler per request | reads shared state in several critical sections |
| `AccessControl`, `AuthManager` (`core/src/`) | role per user and document; accounts | grant, revoke, can_*; register, login | the check and the act are separate |
| `DocumentManager` (`server/src/document_manager.cpp`) | documents, sessions, cursors, next id, files | create, get, delete, sessions | delete and load racing with everything else; restart |
| `DocumentSession` (`server/src/document_session.cpp`) | command queue, thread, connected users | join, leave, operation, delete | order of commands against what was promised at join |
| `MPSCQueue` (`core/include/collab/mpsc_queue.h`) | linked list, hazard slots | enqueue, try_dequeue | lock-free, memory reclamation |
| `AutosaveThread` (`server/src/autosave.cpp`) | files, snapshots | save, snapshot, force_save_all | saving while operations go on, crash between two steps |
| `CursorAggregator`, `RemoteCursorsModel` | cursor buffers | update, broadcast, shift | cursors of users who left |
| protocol, logging, configuration, theme, hashing | (almost) none | encoding, display | nothing to interleave |

How they interact. The I/O thread reads frames and submits one pool task per
frame. A pool task runs `MessageHandler::handle_message`, which answers
directly or puts a command into the queue of the document's session. The
session's thread takes the commands one by one, calls `apply_with_ot`, sends the
author an acknowledgement and everyone else a broadcast, through the write
queues of their sessions. The client's event loop passes edits and messages to
`OTController`. Lost connections call `on_disconnect` in the I/O thread, which
enqueues a Leave command.

What makes it correct: every window shows the server's text of the revision it
has reached plus its own unacknowledged operations; everyone who is up to date
sees the same text; nobody misses or repeats a revision; text disappears only
when someone removed it; whoever leaves is forgotten; a refused or late client
does not wait for ever; what was acknowledged is on disk after a restart; the
role a window shows is the role the server enforces. `PROJECT.json` lists the
hazards line by line under `hazards`.

## 2. Modules

| module | models | used by |
|---|---|---|
| `OT` | `core/src/operation.cpp`, `core/src/ot.cpp`: pure operators, words of `2 * HalfWord` values | all |
| `OTDiamond` | two sites, one operation each, both orders; the reference merge `Merged` | `MCOTDiamond`, `OTDiamondProofs` |
| `Document` | the class `Document`, one action per method | `DocumentUse`, `CollabEditing` |
| `DocumentUse` | any number of threads that call a `Document` | `MCDocument`, `DocumentProofs` |
| `SharedLog` | abstract: one growing list of versions which everyone reads in order | `CollabEditing` |
| `CollabEditing` | clients, network, pool, handlers, session and `Document` together | `MCCollab`, `CollabProofs` |
| `Channel` | abstract: what was sent is received once and in order | `MPSCQueue` |
| `MPSCQueue` | the lock-free queue of session commands and log records, and the loop of its consumer | `MCParts`, `MPSCQueueProofs` |
| `ThreadPool` | workers, `wait_idle`, the destructor | `MCParts`, `PartsProofs` |
| `Connection` | signing in and the byte stream: `ConnectionDialog`, `NetworkManager`, `TcpServer`, `ClientSession`, `AuthManager`, authentication in `MessageHandler` | `MCParts`, `PartsProofs` |
| `Storage` | `DocumentManager`, life of the sessions, `AutosaveThread`, shutdown, crash and restart | `MCStorage`, `StorageProofs` |
| `Membership` | `DocumentListWindow`, `EditorWindow`, the handlers for documents and cursors, registration in `DocumentSession`, `CursorAggregator` | `MCMembership`, `MembershipProofs` |
| `SequenceFacts` | lemmas about `Append`, `Head`, `Tail`, `SubSeq` and concatenation of sequences whose elements have no type; induction over the numbers | `OTDiamondProofs`, `DocumentProofs`, `CollabProofs`, `PartsProofs`, `MembershipProofs` |
| `OTDiamondProofs`, `DocumentProofs`, `CollabProofs`, `MPSCQueueProofs`, `PartsProofs`, `StorageProofs`, `MembershipProofs` | theorems, see section 4 | |

How they fit together. `CollabEditing` takes as given what the others establish:
that the session's queue is a FIFO (`MPSCQueue` implements `Channel`), that
frames arrive whole and in order (`Connection`), that a pool runs every task but
in any order (`ThreadPool`), and that everyone has joined and the document stays
(`Membership` and `Storage` have the joining, leaving and deleting).
`MCParts` explores `MPSCQueue`, `ThreadPool` and `Connection` in one run; they
share no state, so each behaviour is one of a single part.

Definitions keep the names of the functions they translate; `PROJECT.json` gives
the lines under `map`. Definitions whose name contains `_bug_` are not part of
any specification: they are deliberately wrong versions of a definition, one for
each property, and TLC finds the property violated when one takes its place.

State and code in `CollabEditing`:

* `state`, `rev`, `pending`, `buffer` are the members of `OTController`
  (`pending` is a sequence of length 0 or 1), `local` is
  `LocalDocument::content_`. `onLocalOperations`, `handleAck`,
  `handleBroadcast`, `handleError` are whole handlers.
* `pool` is the set of messages a client has sent and the server has not
  completely handled, whether they are in the socket or in the pool: since the
  pool reorders, nothing distinguishes the two until a connection breaks.
  `handle_operation` and `handle_doc_leave` take two steps each, because they
  read or change shared state in two critical sections. `notices` are the calls
  of `handle_doc_share` that have changed a role and not yet announced it.
* `commands` is the queue of the `DocumentSession`, taken as an atomic FIFO;
  `process_command` is its thread. A command is one step: the text and the set
  of connected users are changed by no other thread, and the messages it sends
  go to different users.
* `inbox[u]` is the write queue of `u`'s session, the socket and the client's
  event queue, which keep the order.
* `LoseConnection` (external) may lose a suffix of what is on its way to the
  client and what the server has not read of the client's messages.
* `versions` (the text at every revision), `request` and the counters of the
  bounds are history variables.

Abstractions there: texts are sequences of numbers, a user types his own number;
UTF-8/UTF-16 offsets, the editor widget's copy of the text, names and colours,
logging and JSON are left out; message boxes before a window closes are left
out. All users have joined at the start, one session each. Where a remote cursor
goes when an operation is applied (`translate` in `OT`) is a question about one
operation and is asked in `OTDiamond`; who has a cursor is in `Membership`.

`MPSCQueue`. One step per access to shared memory, interleaved as if memory were
sequentially consistent. `pc[p]` is a producer's place in `enqueue`, `cpc` the
consumer's in `run`, `try_dequeue` and `try_reclaim_`. A freed address may be
allocated again at once, which is what makes the second look at `tail_` in
`enqueue` necessary. `RequestStop` is the destructor's; the loop after it drains
the queue.

`ThreadPool`. `idle_cv_` is modelled with its mutex, since its notification
depends on the counter that is changed outside of the mutex; `queue_cv_`, which
is notified after every push, is "goes on when the predicate holds".

`Connection`. The client is two threads, GUI and network, that talk through
queued calls (`netq`) and queued signals (`guiq`). `link`, `up` and `down` are
the TCP connections and Qt's socket (external): bytes arrive in pieces of any
size, a connection may be lost at any byte. Frames are real: a header of
`HeaderSize` digits in base `Base`, then the payload; a length above `MaxPayload`
ends the session on the server. A user acts when the events queued
before have been handled; the message box of `reportFailure` is modal, and the
disconnection is asked for after it. The hash of a password is abstracted to
equality.

`Storage`. A text is the number of operations applied to it. Files are inodes,
so two threads that open one `.tmp` file write into the same file and a rename
takes away what the other still writes to. `saver` holds the two threads that
run `save_document`, each step of which (take the text, open, write, rename,
mark as saved) is an action. `mutex` is `DocumentManager::mutex_` where it is
kept for long: `remove_session` and `delete_document` join a session's thread
under it. `Crash` is possible at any step, `Shutdown` is `shutdown_server` after a signal, and
`Restart` keeps the files only, numbers starting again from 1. `raced`, `overlapped`, `owed`
and `excused` are history variables that name the exceptions of the properties.
Titles and `.meta` files are left out, and writes succeed once a file is open.

`Membership`. A text is the sequence of the revisions it contains: what
operations do to characters is the matter of `CollabEditing`. `tasks[u]` are the
requests of `u` that were sent and are not completely handled; each is handled
in steps, one per piece of state that another thread can change meanwhile, and
in any order. Three look-ups that fail with the same answer (`can_read`,
`get_document`, `get_or_create_session`) are one step; so are the check and the
enqueuing of `handle_operation`, whose separation `CollabEditing` has. The client
is a function from client state and message to client state, as its event loop
is. `fresh`, `asked`, `n`, `opened` and `since` are history. A user has one
connection and does not reconnect; message boxes are left out.

## 3. Runs

| run | instance | shows |
|---|---|---|
| `otdiamond` | all pairs of operations on texts of 0 to 5 characters | `BothPathsConverge` (TP1), `MergesIntentions` (the common result is the reference merge), `CursorKeepsPlace` (a cursor that a remote operation moves stays between the same characters) |
| `document` | 2 users who insert different texts of different lengths, text of 2 characters, 3 revisions, history limit switching between 1 and 10, queue of 1 | `HistoryWindow`, `HistoryReplays`, and `AuthorAgrees`: an operation that is up to 2 revisions late gives the text its author computes, whichever of two insertions at one place is first, if the author has no other operation under way |
| `collab` | 2 users, text of 2, one with two edits (up to four operations, so a buffer of three), one with one edit of up to two operations | `ControllerStates`, `LocalView`, `Convergence`, `NoGaps`, `AckMatchesPending`, `OneInFlight`, and that the system implements `SharedLog` |
| `three` | 3 users with a deletion each, one change of roles at any moment | `LocalView`, `Convergence` with three-way concurrency and refused operations |
| `faults` | 2 users, history limit 1, one broken connection, one closed window | the same with late operations refused, plus `EventuallyConsistent` and `LeaversForgotten` (off the session's tables and off the others' count of users online) |
| `parts` | queue: 2 producers with 2 and 1 items, 3 addresses, reclamation at every item; pool: 2 workers, 3 tasks; connection: 1 name, 2 attempts to sign in, 1 other message, 1 lost connection, headers of 2 binary digits | `NoUseAfterFree`, `QueueImplementsChannel`, `QueueDelivers`; `IdleMeansRun`, `WaitIdleReturns`, `JoinedMeansRun`, `DestroyedPoolIsJoined`; `StreamKeepsOrder`, `IdentityAgrees`, `AttemptEnds` |
| `storage` | 1 document number, 2 `Document` objects, 1 session, 2 operations, 1 file that does not open, 1 end of the process | `FilesHoldWholeTexts`, `CleanMeansSaved`, `GracefulStopSaves`, `LockHolderGoesOn` (whoever deletes a document or removes a session under the manager's lock waits for no one who waits for the lock), `DirtyGetsSaved` |
| `membership` | 2 users, 1 document, five stories of who opens, edits, shares, leaves, deletes or loses | `OnlyHoleIsTheJoin`, `LostAreForgotten` |
| `joingap` | the story in which one user joins while the other edits | `SeesEveryChange` violated, see below |
| `divergence` | text of 5, first three deletions by one user, then two operations by the other, which reach the server first | `Convergence` violated, see below |
| `roles` | two changes of a role | `RoleAgreement` violated, see below |
| `refused` | one change of a role | `SettledWhenQuiet` violated, see below |

Why the bounds are enough to be interesting. A text of 5 characters has two
ranges in every relative position (apart, touching, overlapping, nested, equal)
with room on both sides. Buffers of three are the first in which an operation is
carried past an operation that was itself transformed against an already
transformed one. A history limit of 1 makes every client that is two revisions
late be refused. `HalfWord = 128` instead of 2^31 is far above all lengths, so
only subtractions below zero wrap, exactly as in the program. Editing is finite
in all instances, therefore they may stop: deadlock is not checked.

Three addresses are the least with which a producer can stand still at a node
that is taken, freed and allocated again by the time it goes on. A pool needs
two workers for one to hold a task while the other makes the counter 0. Two
binary digits of header allow lengths 0 to 3 with a maximum of 2, so that a
header arrives in two pieces, a frame can be too long, and two frames arrive
together. Two `Document` objects of one number are what a
deletion and a later load, or a restart, need. The stories of
`membership` are bounded so that every pair of requests that touch the same
state meets in at least one: join and operation, leave and join, delete and
everything, loss and join or cursor.

What the properties leave out, and why.

* `IdentityAgrees` speaks of a client that is still connected; a signal that is
  late by one connection is covered because the dialog waits for its own action.
* `FilesHoldWholeTexts`, `CleanMeansSaved` and `GracefulStopSaves` except a
  document that the autosave thread and the shutdown save at the same time:
  they share one `.tmp` file, and nothing in the code prevents it (`force_save_all`
  is called before the autosave thread is joined). `CleanMeansSaved` also excepts
  a text that changed between `get_content` and `mark_saved`: it counts as saved
  and is not. `GracefulStopSaves` also excepts a session that a pool task holds,
  because nobody then waits for its thread, and a document whose file cannot be
  opened in the last save. Both except a document of which there are two objects
  (`OneObject`): it was deleted, a thread that still held it wrote its file
  again, and the file was loaded. The model has all of these behaviours; the
  properties say that there are no other ways. For `FilesHoldWholeTexts` the
  empty text is a whole one, so it says nothing of the text that
  `create_document` truncates after a restart.
* `DirtyGetsSaved` speaks of a document that stays in memory while the server
  runs. That the autosave thread is not stopped for ever at the manager's lock is
  the matter of `LockHolderGoesOn`.
* `LeaversForgotten` speaks of the session's tables and of `online_user_ids_`. A
  user who leaves does not disappear from the others' text and panel:
  `handle_doc_leave` does not call `remove_cursor`, as the callback for a lost
  connection does, the aggregator goes on sending the cursor, and a window that
  has removed the user on `user_left` shows the caret and the entry on the panel
  again after the next round. `Membership` has this behaviour (`handle_doc_leave`,
  `get_cursors`, `handleCursorBroadcast`).
* `IdleMeansRun` allows a task that a worker has popped and not yet counted
  to be unfinished when `wait_idle` returns. The code has this window; the tests
  of the repository, which look at the effects of tasks after the pool was
  destroyed, do not say whether it is meant.
* `LocalView`, `Convergence` and `AckMatchesPending` hold in the instances of
  `collab`, `three` and `faults`, `AuthorAgrees` in that of `document`. They do
  not hold for all instances: `divergence` has longer edits for which
  `Convergence` fails. They are checked where the error of
  `transform_delete_delete` cannot yet act, and show there that the rest of the
  transformation keeps the texts together.
* `AuthorAgrees` is about authors with one unacknowledged operation
  (`OneUnacknowledged`), although `DocumentUse` lets any operation be submitted.
  Two concurrent insertions of one author at one place do not shift each other
  (`ot.cpp:16-20`), and author and server then have them in different order. A
  client has only one operation under way (`OneInFlight`, proved); one user in
  two sessions could have two, see section 5.
* `OnlyHoleIsTheJoin` is about windows opened when nothing of an earlier visit
  of their user was left (`Fresh`), and until their user leaves the document or
  asks for it again. A leave that is handled after the next join drops the user,
  and such a window gets nothing. An operation of a window closed before that is
  committed after the text was read is acknowledged to the new window:
  `OTController::handleAck` takes over the revision and does not know that its
  text has not the change. An earlier form of the property looked for leaves
  only; its proof failed at the acknowledgement, and with three requests under
  way TLC has the counterexample (create, edit, close, open).
* `LostAreForgotten` is about a break when no request of the user is being
  handled: if the join is, its Join command can follow the Leave, and the user
  stays on the list.
* `SeesEveryChange` leaves out windows that wait for an acknowledgement, so that
  what it shows is the missing change and not an unfinished edit.

Fairness (`FairSpec`): as long as a pool task, a command, a message, a lost
connection not yet noticed or a role to announce is there, some step of the
program is taken again and again. This is weak fairness of the program as a
whole, which the threads and event loops that wait on their queues give; it is
written with the enabling condition `Busy` spelled out. Users and the network
are not fair. The model's queues shrink with every system step, so nothing
stronger is needed.

The later modules state weak fairness thread by thread: each producer and the
consumer; each worker of the pool and the caller that is inside `wait_idle`; the
client's two threads, the server's pool and the I/O thread for each connection;
the autosave thread, the main thread, the sessions' threads and the pool's thread
that is inside `delete_document`. Every one of
these is a loop that blocks only until its next piece of work is there. No
user, network fault, signal, crash, restart or caller of `submit` is obliged to
do anything.

Findings.

* `divergence`: `transform_delete_delete` moves a deletion of length 0 that lies
  inside the other range by the full length of that range. Its position wraps
  below zero, the next overlap is computed with the wrapped position, and a
  length wraps as well: a buffered deletion then erases everything behind it.
  It takes one pending and two buffered deletions to get there. In `abcde` the
  owner deletes `b`, `ac` and `d`; the other user deletes `b` too and inserts `z`
  before `e`, and is first at the server. When everything is acknowledged and
  received, the owner's window is empty and all others show `dze`. For one
  operation on each side the pair of transformed operations is right
  (`OTDiamond`, proved), which is what the repository's tests look at. The run
  follows one story (`Story` in `MCCollab`): all edits come before the first
  step of the program, which keeps the search small.
* `roles`: two role changes of one user are announced in the opposite order.
* `refused`: an operation refused for any reason but `revision_too_old` leaves
  its author waiting for ever with a text that no one else has.

* `joingap`: `handle_doc_join` reads text and revision, answers, and only then
  enqueues the command that makes the session send to the new user. What is
  committed in between is never shown in the new window until it is reopened.
  If it falls between the reading of the text and that of the revision, the
  window even has a revision that its text does not contain. `membership`
  shows, and `MembershipProofs` proves, that this is the only way to miss a
  change for a window with no earlier visit under way.

`roles` and `refused` need an owner whose client asks for roles other than `editor`; the
protocol and the server allow it and the integration tests do it, the Qt client
does not offer it.

## 4. Proofs

`OTDiamondProofs` proves `Spec => []BothPathsConverge` for every set of texts of
which no two together reach half a word (`TextsAssumption`,
`HalfWordAssumption`). First, how insertions and removals in a sequence commute,
index by index (`Inserted` and `Removed` say what each element of the result
is): two insertions, an insertion before, behind or inside a removed range,
disjoint and overlapping removals. Then `apply` and `transform` are reduced to
these for operations in range: no word wraps, except for an empty removal
inside another range, whose position does not matter because it changes
nothing. `TransformSwaps` turns the remaining cases around. The invariant says
which text a site has at each stage.

`Spec => []MergesIntentions` says which text that is. The reference merge is a
`FlattenSeq` of as many pieces as the text has gaps, hence a recursive function:
`FlattenTiles` shows that a text which the pieces cut up without a rest is what
it gives, by induction over the number of pieces (in the form of the least
counterexample of a set of numbers, `SetInduction`, since the theorems with an
operator parameter cannot be used). The rest is where the cuts are: for each pair
of types `ends` counts what is in front of a gap, and the three `Merge` lemmas
compare what is behind it, element by element, with the text that `transform` and
`apply` make.

`Spec => []CursorKeepsPlace` rests on the same lemmas: what an insertion or a
removal leaves on both sides of a cursor.

`DocumentProofs` proves `Spec => []HistoryWindow` and
`Spec => []HistoryReplays` for every initial text, set of limits and users and
all bounds. Neither is inductive alone: that the deque's operations lead from
version to version needs its length and the length of the version list
(`Shape`), and trimming keeps it only because the number of elements dropped is
exactly what `oldest_revision_` advances by, whatever limit was set before.

`CollabProofs` proves `ControllerStates`, `OneInFlight`, `NoGaps` and the
refinement of `SharedLog` for every number of users, every text and history
limit and any number of edits, changes of roles, closed windows and broken
connections (`CollabAssumption` has the types of the bounds only). What
`transform` and `apply` compute plays no role in the argument, so operations and
texts have no type there. `NoGaps` is about connected clients and not inductive:
a connection that breaks cuts the stream of messages, the window goes on reading
what arrived, and a client whose window is closed may still be on the session's
list. The invariant `CollabInv` therefore says of every inbox that its numbered
messages are the revisions after the client's own without a gap (`Stream`), and
that they reach the server's revision while the client is connected (`Full`);
that the operation a client has sent is in exactly one place, a task, a command
or an acknowledgement, and that nothing of it is left when the client waits for
nothing; that a user whose window is open and whose connection is up is on the
list; and that `versions` has one text per revision. A step of `SharedLog` is
then a commit, a message that is taken, or nothing.

`MPSCQueueProofs` proves `NoUseAfterFree` and that the queue implements
`Channel` for any number of producers up to `MaxProducers`, any number of items,
any heap and any threshold of reclamation (`QueueAssumption`). The invariant
speaks of the chain of nodes from `head` to the last: `tail` is on it, retired
nodes are not; a node that a producer has validated is on it or retired, and in
the second case the producer's slot is one the consumer's scan has yet to read
or has read with that node in it. The second look at `tail_` in `enqueue` is
where this is established: a node that is `tail` at that moment is on the chain,
even if its address was freed and allocated again since the first look.

`PartsProofs` proves `IdleMeansRun` and `JoinedMeansRun` for any finite set
of workers and any tasks (`PoolAssumption`). A submitted task is in the queue,
with a worker, or has run; `active_tasks_` is the number of workers between the
two changes of the counter, so that 0 leaves only those that have popped and not
counted; a worker ends only with the stop requested and the queue empty, and
nothing is submitted after that.

`PartsProofs` also proves `ConnSpec => []StreamKeepsOrder`, for headers of any
width in any base, messages of any size that a header can hold, those above
`MaxPayload` too, and any number of attempts, pushes and lost connections
(`ConnectionAssumption`). `HeaderDecodes` shows that the digits of a header give
back the length; `FramesAreWhole`, by induction over the frames that are left,
that the loop of `onReadyRead`, started where a frame begins, finds the next
payloads and stops where a frame begins. The invariant `Streams` then says of the
connection in use that `rx_buffer`, the bytes under way and, while it is open,
the write queue are together the frames of what was sent and not yet emitted
(`Aligned`), and of the connections to come that nothing of them exists. It is
kept only because nothing but a new connection clears the buffer: `connectToHost`
clears it in any state of the socket, and `Dialog` shows that it is never called
while a connection is in use, since a failed attempt has asked for the
disconnection before the next one can begin (`Calls`, `Idle`, `Quiet`).

On top of `Dialog` and `Streams` it proves `ConnSpec => []IdentityAgrees`, for any
names, with two more invariants. `Server` says of every connection what is needed
at each stage of a request. The bytes under way to the session are the frames of
messages sent, up to the point where the session reads (`Comes`), and of each
message, in the stream or in a task of the pool, that on the connection in use it
carries the name the dialog keeps, and asks for more only of a session that is
authenticated (`Sent`). A task past `register_user` or `login` knows the account,
and past `set_auth` has the session authenticated (`ServedTask`); hence the
session is that of the dialog's user (`SessionServed`), and an answer that says
success is sent only then (`AnswersServed`). Accounts keep their identifiers, so
that a second authentication changes nothing (`UsersStay`). `Client` says that the
signals waiting for the dialog came on the connection in use (`Hears`) and that
nobody is signed in and no message is left while a connection is being opened
(`OpensFirst`). Without that, a success of an earlier attempt, still queued for the
GUI thread, would be taken for an answer to this one.

`StorageProofs` proves `FilesHoldWholeTexts`, `CleanMeansSaved` and
`GracefulStopSaves` for any finite sets of document numbers and `Document`
objects, any sessions, operations, files that do not open, signals and crashes
(`StorageAssumption`). Three invariants, each inductive given those before it:

* `StoreInv`: an inode is the file or the `.tmp` file of one document; a thread
  that writes has the `.tmp` file of the document it saves; a thread that is
  alone with a document has its whole text in the `.tmp` file when it renames;
  numbers below `next_doc_id` were given to an object of this process, so that
  `create_document` never meets a thread that saves its number. There are always
  enough inodes: two per document and one per thread.
* `CleanInv`: the text a thread has taken is the present one, or the change was
  noted in `raced`; what was renamed and not yet marked is the file.
* `StopInv`: from the signal on, until a document's session has been waited for,
  the text and the session's queue together have what is owed; afterwards the
  text has it, and the document is before `force_save_all`, or in its hands with a
  text that is new enough, or its file has it and no thread holds an older text
  that it will still write.

`MembershipProofs` proves `Spec => []OnlyHoleIsTheJoin` for any set of users and
any number of documents and requests (`MembershipAssumption` has the types of the
bounds only). The invariant is about one user and one document at a time. A visit
goes through three stages, each of which must already carry what the next one
needs:

* `Reading`: a handler has read the text and nothing else of the user is under
  way for the document, neither a request nor a command nor a window nor an
  answer;
* `Answering`: the answer is on its way. From here on `View` holds of its text:
  the Join of the visit is in exactly one place, its task or the queue, or it is
  done, and before that nothing is sent (`RegStage`, `Unregistered`); the text
  has the first revisions and later ones in order, and whoever is registered has,
  in the text, in the box behind the answer or about to be announced, every
  revision since the registration (`Text`); of operations there is at most one,
  in a task, in the queue, committed or acknowledged, and none if the window is
  not waiting (`OpStage`);
* `Showing`: the same of the window, with all of the box. That an
  acknowledgement adds the change to the text needs the window to be waiting,
  which is what `OpStage` is for.

`n` and `asked` tell the visits to one document apart: a request that leaves or
opens raises the count, after which nothing is said of the older window
(`Numbered`). Besides, the messages in a box are in the order of their revisions
(`Ordered`) and what was read is the text of some revision (`ReadTexts`). The
parts of the state are parameters of these definitions, so that most lemmas are
free of actions: `VisitEmbeds` says once that requests, commands and messages
that have nothing to do with the visit may come and go, and there is one lemma
for each event of a visit (`VisitAsked`, `VisitRead`, `VisitAnswered`,
`VisitQueuesJoin`, `VisitJoined`, `VisitQueuesOp`, `VisitCommitted`,
`VisitAnnounced`, `VisitEdits`, `VisitOperationArrives`, `VisitAnswerArrives`).
The step lemmas then say which of them an action is.

Not proved, because they are false in general: `LocalView`, `Convergence`,
`AckMatchesPending` and `AuthorAgrees`, and with them `EventuallyConsistent`
(run `divergence`).

Only model-checked: liveness (`EventuallyConsistent`, `LeaversForgotten`,
`QueueDelivers`, `WaitIdleReturns`, `DestroyedPoolIsJoined`, `AttemptEnds`,
`DirtyGetsSaved`, `LostAreForgotten`) and `LockHolderGoesOn`, which says that
a step is enabled, both of which are out of the prover's reach; the
type invariants of `CollabEditing` and `DocumentUse`, for which the folds in
`handleBroadcast` and `apply_with_ot` would have to be typed by induction over a
sequence.

## 5. Not modelled, and what is left

Not modelled:

* Several sessions of one user. `connected_users_`, the cursors and the tie-break
  of concurrent insertions go by user id, so two windows of one user in one
  document disturb each other in ways for which the code states no intention.
* Memory orderings weaker than sequential consistency in `MPSCQueue`, more
  producers than slots (the process aborts), and the cache of slots when one
  queue is built at the address of another.
* `server_shutdown`, which closes windows like a deletion; `TcpServer::stop` and
  `broadcast_all`; an accept that fails, after which the loop does not accept
  again; a write to a file that fails after it was opened.
* Requests that no client of the repository sends (answered `not_implemented` or
  `invalid_message`) and the count of malformed messages.
* `TokenBucket`, which neither program uses and which computes with elapsed time
  in floating point; the sinks of the log, whose queue is that of `MPSCQueue`;
  JSON encoding, painting, panels, theme, UTF-8 conversion, configuration and
  hashing, which have no state that others depend on.

Theorems next: the type invariants, with one lemma on what a fold of `transform`
preserves.
