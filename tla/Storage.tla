------------------------------ MODULE Storage ------------------------------
(***************************************************************************)
(* The documents of the server and their files: DocumentManager, the life  *)
(* of the document sessions, AutosaveThread, the shutdown of main.cpp, and *)
(* what a crash and a restart leave.                                       *)
(*                                                                         *)
(* A text is the number of operations applied to it, starting from 0, the  *)
(* empty text.  A file is an inode: two threads that open the same .tmp    *)
(* file write to the same one, and rename moves it.  A process that dies   *)
(* loses everything but the files.                                         *)
(***************************************************************************)
EXTENDS Integers, FiniteSets

CONSTANTS Ids,                 \* numbers of documents, 1, 2, ...
          Objects,             \* bound on the Document objects, 1, 2, ...
          Instances,           \* bound on the sessions, 1, 2, ...
          SnapshotThreshold,   \* snapshot_threshold_
          MaxOps,              \* bound on the operations
          MaxOpenFailures,     \* bound on the files that cannot be opened
          MaxEnds              \* bound on the ends of a process, by crash or signal

ASSUME StorageAssumption ==
    /\ Ids \subseteq Nat \ {0} /\ Objects \subseteq Nat \ {0}
    /\ IsFiniteSet(Ids) /\ IsFiniteSet(Objects)
    /\ Instances \subseteq Nat \ {0}
    /\ SnapshotThreshold \in Nat \ {0}
    /\ MaxOps \in Nat /\ MaxOpenFailures \in Nat /\ MaxEnds \in Nat

VARIABLES
    life,              \* "running", "shutdown", "exited" or "down"
    \* Document objects
    id, text, base,    \* the number, the present text and the text at revision 0
    dirty, lastSnap,   \* is_dirty, last_snapshot_revision_
    \* DocumentManager
    documents,         \* documents_, 0 where there is none
    next_doc_id, rights,
    sessions,          \* sessions_, 0 where there is none
    mutex,             \* what holds mutex_ while it joins a session's thread
    loading,           \* documents read by load_from_disk and not inserted
    inst,              \* DocumentSession: its object, thread and queue
    \* files
    path, tmp, data,   \* inodes at <id>.txt and <id>.txt.tmp, their contents
    snapshots,         \* snapshot files: number, revision, text
    \* threads that save: the autosave thread and the one that shuts down
    saver, stopping,
    \* history variables and counters of the bounds
    raced,             \* objects changed between get_content and mark_saved
    overlapped,        \* documents both threads were saving at once
    owed,              \* texts that include all that was queued at the signal
    excused,           \* documents whose session was removed while a pool
                       \* task held it, or whose last save failed
    ops, failures, ends

docVars == <<id, text, base, dirty, lastSnap>>
managerVars == <<documents, next_doc_id, rights, sessions, mutex, loading>>
fileVars == <<path, tmp, data, snapshots>>
historyVars == <<raced, overlapped, owed, excused>>
boundVars == <<ops, failures, ends>>
vars == <<life, docVars, managerVars, inst, fileVars, saver, stopping,
          historyVars, boundVars>>

Savers == {"autosave", "shutdown"}
Inodes == 1 .. 2 * Cardinality(Ids) + 2
Partial == -1       \* the content of a file that is truncated or mixed up

NoSession == [obj |-> 0, state |-> "none", queue |-> 0, holding |-> 0]
Unlocked == <<"free", 0, 0>>
IdleSaver == [pc |-> "wait", docs |-> {}, obj |-> 0, content |-> 0, fd |-> 0]

\* The state of a process that has just started.
Fresh ==
    [zero |-> [o \in Objects |-> 0], clean |-> [o \in Objects |-> FALSE],
     none |-> [d \in Ids |-> 0], rights |-> [d \in Ids |-> "none"],
     inst |-> [i \in Instances |-> NoSession], saver |-> [s \in Savers |-> IdleSaver]]

Init ==
    /\ life = "running"
    /\ id = Fresh.zero /\ text = Fresh.zero /\ base = Fresh.zero
    /\ dirty = Fresh.clean /\ lastSnap = Fresh.zero
    /\ documents = Fresh.none /\ next_doc_id = 1 /\ rights = Fresh.rights
    /\ sessions = Fresh.none /\ mutex = Unlocked /\ loading = {}
    /\ inst = Fresh.inst /\ saver = Fresh.saver /\ stopping = FALSE
    /\ path = Fresh.none /\ tmp = Fresh.none
    /\ data = [n \in Inodes |-> 0] /\ snapshots = {}
    /\ raced = {} /\ overlapped = {} /\ excused = {} /\ owed = Fresh.none
    /\ ops = 0 /\ failures = 0 /\ ends = 0

Alive == life \in {"running", "shutdown"}
Loaded == {documents[d] : d \in Ids} \ {0}
revision(o) == text[o] - base[o]

UsedInodes == {path[d] : d \in Ids} \cup {tmp[d] : d \in Ids}
                \cup {saver[s].fd : s \in Savers}
FreshInode == CHOOSE n \in Inodes : n \notin UsedInodes
FreeObject == CHOOSE o \in Objects : id[o] = 0
ObjectsLeft == \E o \in Objects : id[o] = 0

Exists(d) == path[d] # 0

\* The contents when the name d no longer stands for the inode path[d]; an
\* inode that nothing refers to is free.
Unlinked(d) == IF Exists(d) /\ \A s \in Savers : saver[s].fd # path[d]
               THEN [data EXCEPT ![path[d]] = 0] ELSE data

\* What a file holds, for a document that has one.
OnDisk(d) == data[path[d]]

NewObject(d, t) ==
    /\ id' = [id EXCEPT ![FreeObject] = d]
    /\ text' = [text EXCEPT ![FreeObject] = t]
    /\ base' = [base EXCEPT ![FreeObject] = t]
    /\ documents' = [documents EXCEPT ![d] = FreeObject]
    /\ UNCHANGED <<dirty, lastSnap>>

-----------------------------------------------------------------------------
(* DocumentManager, called by tasks of the pool *)

\* The file of the new document is created, or truncated if there is one.
create_document ==
    /\ Alive /\ mutex = Unlocked /\ next_doc_id \in Ids /\ ObjectsLeft
    /\ LET d == next_doc_id
           n == IF Exists(d) THEN path[d] ELSE FreshInode
       IN  /\ NewObject(d, 0)
           /\ rights' = [rights EXCEPT ![d] = "owner"]
           /\ path' = [path EXCEPT ![d] = n]
           /\ data' = [data EXCEPT ![n] = 0]
    /\ next_doc_id' = next_doc_id + 1
    /\ overlapped' = overlapped \ {next_doc_id}
    /\ UNCHANGED <<life, sessions, mutex, loading, inst, tmp, snapshots, saver,
                   stopping, raced, owed, excused, boundVars>>

\* get_document of a document that is not in memory: read its file ...
load_from_disk(d) ==
    /\ Alive /\ mutex = Unlocked /\ rights[d] # "none" /\ documents[d] = 0 /\ Exists(d)
    /\ loading' = loading \cup {<<d, OnDisk(d)>>}
    /\ UNCHANGED <<life, docVars, documents, next_doc_id, rights, sessions, mutex,
                   inst, fileVars, saver, stopping, historyVars, boundVars>>

\* ... and insert it, unless another task has done so.
get_document(d) ==
    /\ Alive /\ mutex = Unlocked /\ ObjectsLeft
    /\ \E l \in loading :
        /\ l[1] = d
        /\ loading' = loading \ {l}
        /\ IF documents[d] = 0 THEN NewObject(d, l[2]) ELSE UNCHANGED <<docVars, documents>>
        /\ next_doc_id' = IF documents[d] = 0 /\ d >= next_doc_id THEN d + 1 ELSE next_doc_id
    /\ UNCHANGED <<life, rights, sessions, mutex, inst, fileVars, saver,
                   stopping, historyVars, boundVars>>

get_or_create_session(d) ==
    /\ Alive /\ mutex = Unlocked /\ documents[d] # 0 /\ sessions[d] = 0
    /\ \E i \in {j \in Instances : inst[j].state = "none"
                    /\ \A k \in Instances : k < j => inst[k].state # "none"} :
        /\ inst' = [inst EXCEPT ![i] = [NoSession EXCEPT !.obj = documents[d],
                                                         !.state = "running"]]
        /\ sessions' = [sessions EXCEPT ![d] = i]
    /\ UNCHANGED <<life, docVars, documents, next_doc_id, rights, mutex, loading,
                   fileVars, saver, stopping, historyVars, boundVars>>

\* A task of the pool has the session's pointer (get_session) ...
get_session(d) ==
    /\ Alive /\ mutex = Unlocked /\ sessions[d] # 0 /\ ops < MaxOps
    /\ inst' = [inst EXCEPT ![sessions[d]].holding = @ + 1]
    /\ ops' = ops + 1
    /\ UNCHANGED <<life, docVars, managerVars, fileVars, saver, stopping,
                   historyVars, failures, ends>>

\* ... and gives it an operation.
enqueue_operation(i) ==
    /\ Alive /\ inst[i].holding > 0
    /\ inst' = [inst EXCEPT ![i].holding = @ - 1, ![i].queue = @ + 1]
    /\ UNCHANGED <<life, docVars, managerVars, fileVars, saver, stopping,
                   historyVars, boundVars>>

\* request_stop and the end of the map's pointer to session i of document d.
Removed(d, i) ==
    /\ inst' = [inst EXCEPT ![i].state = "stopping"]
    /\ sessions' = [sessions EXCEPT ![d] = 0]

\* The destructor of the session has joined its thread, or a pool task still
\* holds the session and will destroy it later.
Joined(i) == inst[i].state = "ended" \/ inst[i].holding > 0

\* delete_document keeps mutex_ while the session is destroyed.
delete_document(d) ==
    /\ Alive /\ mutex = Unlocked /\ rights[d] = "owner"
    /\ documents' = [documents EXCEPT ![d] = 0]
    /\ IF sessions[d] # 0
       THEN Removed(d, sessions[d]) /\ mutex' = <<"delete", d, sessions[d]>>
       ELSE mutex' = <<"delete", d, 0>> /\ UNCHANGED <<sessions, inst>>
    /\ UNCHANGED <<life, docVars, next_doc_id, rights, loading, fileVars, saver,
                   stopping, historyVars, boundVars>>

finish_delete ==
    /\ Alive /\ mutex[1] = "delete"
    /\ mutex[3] # 0 => Joined(mutex[3])
    /\ rights' = [rights EXCEPT ![mutex[2]] = "none"]
    /\ path' = [path EXCEPT ![mutex[2]] = 0]
    /\ data' = Unlinked(mutex[2])
    /\ mutex' = Unlocked
    /\ UNCHANGED <<life, docVars, documents, next_doc_id, sessions, loading, inst,
                   tmp, snapshots, saver, stopping, historyVars, boundVars>>

\* handle_doc_share grants a role to a document that has just been deleted:
\* its check came before the deletion.
late_grant(d) ==
    /\ Alive /\ rights[d] = "none" /\ d < next_doc_id
    /\ rights' = [rights EXCEPT ![d] = "editor"]
    /\ UNCHANGED <<life, docVars, documents, next_doc_id, sessions, mutex, loading,
                   inst, fileVars, saver, stopping, historyVars, boundVars>>

-----------------------------------------------------------------------------
(* The thread of a DocumentSession *)

Saving(o) == {s \in Savers : saver[s].obj = o
                /\ saver[s].pc \in {"open", "write", "rename", "mark"}}

\* An operation that also calls the manager, say to move the cursors.
CommitOperation_bug_locks(i) ==
    LET o == inst[i].obj
    IN  /\ Alive /\ inst[i].state \in {"running", "stopping"} /\ inst[i].queue > 0
        /\ mutex = Unlocked
        /\ inst' = [inst EXCEPT ![i].queue = @ - 1]
        /\ text' = [text EXCEPT ![o] = @ + 1]
        /\ dirty' = [dirty EXCEPT ![o] = TRUE]
        /\ raced' = IF Saving(o) = {} THEN raced ELSE raced \cup {o}
        /\ UNCHANGED <<life, id, base, lastSnap, managerVars, fileVars, saver,
                       stopping, overlapped, owed, excused, boundVars>>

\* process_command of an operation: the text changes and is dirty.  It calls
\* nothing of the manager, so it does not ask for mutex_.
CommitOperation(i) ==
    LET o == inst[i].obj
    IN  /\ Alive /\ inst[i].state \in {"running", "stopping"} /\ inst[i].queue > 0
        /\ inst' = [inst EXCEPT ![i].queue = @ - 1]
        /\ text' = [text EXCEPT ![o] = @ + 1]
        /\ dirty' = [dirty EXCEPT ![o] = TRUE]
        /\ raced' = IF Saving(o) = {} THEN raced ELSE raced \cup {o}
        /\ UNCHANGED <<life, id, base, lastSnap, managerVars, fileVars, saver,
                       stopping, overlapped, owed, excused, boundVars>>

EndSession_bug_undrained(i) ==
    /\ Alive /\ inst[i].state = "stopping"
    /\ inst' = [inst EXCEPT ![i].state = "ended"]
    /\ UNCHANGED <<life, docVars, managerVars, fileVars, saver, stopping,
                   historyVars, boundVars>>

\* run ends: it has been asked to stop and has emptied the queue.
EndSession(i) ==
    /\ Alive /\ inst[i].state = "stopping" /\ inst[i].queue = 0
    /\ inst' = [inst EXCEPT ![i].state = "ended"]
    /\ UNCHANGED <<life, docVars, managerVars, fileVars, saver, stopping,
                   historyVars, boundVars>>

SessionThread(i) == CommitOperation(i) \/ EndSession(i)

-----------------------------------------------------------------------------
(* AutosaveThread: run, force_save_all, save_document, maybe_create_snapshot *)

At(s, pc) == Alive /\ saver[s].pc = pc
Goto(s, pc) == saver' = [saver EXCEPT ![s].pc = pc]
\* The same at the end of a save or of a snapshot, where the locals end.
GotoFresh(s, pc) == saver' = [saver EXCEPT ![s].pc = pc, ![s].content = 0, ![s].obj =
                                IF pc = "loop" THEN 0 ELSE @]
Number(s) == id[saver[s].obj]
AfterSave(s) == IF s = "autosave" THEN "snap" ELSE "loop"

\* The interval is over: all_loaded_documents.
StartRound ==
    /\ At("autosave", "wait") /\ ~ stopping /\ mutex = Unlocked
    /\ saver' = [saver EXCEPT !["autosave"].pc = "loop", !["autosave"].docs = Loaded]
    /\ UNCHANGED <<life, docVars, managerVars, inst, fileVars, stopping,
                   historyVars, boundVars>>

\* The thread ends when it finds the stop, never in the middle of a round.
EndAutosave ==
    /\ At("autosave", "wait") /\ stopping
    /\ Goto("autosave", "ended")
    /\ UNCHANGED <<life, docVars, managerVars, inst, fileVars, stopping,
                   historyVars, boundVars>>

\* The next document of the list; the autosave thread passes over clean ones.
NextDocument(s) ==
    /\ At(s, "loop")
    /\ \/ /\ saver[s].docs = {}
          /\ Goto(s, IF s = "autosave" THEN "wait" ELSE "saved")
          /\ overlapped' = overlapped
       \/ \E o \in saver[s].docs :
            LET skip == s = "autosave" /\ ~ dirty[o]
                other == CHOOSE x \in Savers : x # s
                busy == /\ saver[other].pc \in {"content", "open", "write", "rename", "mark"}
                        /\ saver[other].obj # 0 /\ Number(other) = id[o]
            IN  /\ saver' = [saver EXCEPT ![s].docs = @ \ {o},
                                          ![s].obj = IF skip THEN @ ELSE o,
                                          ![s].pc = IF skip THEN "loop" ELSE "content"]
                /\ overlapped' = IF ~ skip /\ busy THEN overlapped \cup {id[o]} ELSE overlapped
    /\ UNCHANGED <<life, docVars, managerVars, inst, fileVars, stopping, raced,
                   owed, excused, boundVars>>

GetContent(s) ==
    /\ At(s, "content")
    /\ saver' = [saver EXCEPT ![s].pc = "open", ![s].content = text[saver[s].obj]]
    /\ UNCHANGED <<life, docVars, managerVars, inst, fileVars, stopping,
                   historyVars, boundVars>>

OpenTmp_bug_inplace(s) ==
    /\ At(s, "open")
    /\ LET d == Number(s)
           n == IF path[d] # 0 THEN path[d] ELSE FreshInode
       IN  /\ saver' = [saver EXCEPT ![s].pc = "write", ![s].fd = n]
           /\ tmp' = [tmp EXCEPT ![d] = n]
           /\ data' = [data EXCEPT ![n] = Partial]
    /\ UNCHANGED <<life, docVars, managerVars, inst, path, snapshots, stopping,
                   historyVars, boundVars>>

\* std::ofstream(tmp_path) creates the file or truncates the one that is there.
OpenTmp(s) ==
    /\ At(s, "open")
    /\ LET d == Number(s)
           n == IF tmp[d] # 0 THEN tmp[d] ELSE FreshInode
       IN  /\ saver' = [saver EXCEPT ![s].pc = "write", ![s].fd = n]
           /\ tmp' = [tmp EXCEPT ![d] = n]
           /\ data' = [data EXCEPT ![n] = Partial]
    /\ UNCHANGED <<life, docVars, managerVars, inst, path, snapshots, stopping,
                   historyVars, boundVars>>

OpenFails_bug_saved(s) ==
    /\ At(s, "open") /\ failures < MaxOpenFailures
    /\ Goto(s, "mark")
    /\ failures' = failures + 1
    /\ UNCHANGED <<life, docVars, managerVars, inst, fileVars, stopping,
                   historyVars, ops, ends>>

OpenFails_bug_gives_up(s) ==
    /\ At(s, "open") /\ failures < MaxOpenFailures
    /\ GotoFresh(s, "ended")
    /\ failures' = failures + 1
    /\ UNCHANGED <<life, docVars, managerVars, inst, fileVars, stopping,
                   historyVars, ops, ends>>

\* The file cannot be opened: the document stays dirty.
OpenFails(s) ==
    /\ At(s, "open") /\ failures < MaxOpenFailures
    /\ GotoFresh(s, AfterSave(s))
    /\ failures' = failures + 1
    /\ excused' = IF s = "shutdown" THEN excused \cup {Number(s)} ELSE excused
    /\ UNCHANGED <<life, docVars, managerVars, inst, fileVars, stopping,
                   raced, overlapped, owed, ops, ends>>

\* file << content; close().  Over what another thread has written through
\* the same inode the result is this text or a mixture.
WriteTmp(s) ==
    LET n == saver[s].fd
        c == saver[s].content
    IN  /\ At(s, "write")
        /\ \E r \in IF data[n] = Partial THEN {c} ELSE {c, Partial} :
            data' = [data EXCEPT ![n] = r]
        /\ saver' = [saver EXCEPT ![s].pc = "rename", ![s].fd = 0]
        /\ UNCHANGED <<life, docVars, managerVars, inst, path, tmp, snapshots,
                       stopping, historyVars, boundVars>>

RenameTmp(s) ==
    LET d == Number(s)
    IN  /\ At(s, "rename") /\ tmp[d] # 0
        /\ path' = [path EXCEPT ![d] = tmp[d]]
        /\ tmp' = [tmp EXCEPT ![d] = 0]
        /\ data' = Unlinked(d)
        /\ Goto(s, "mark")
        /\ raced' = IF saver[s].content = text[saver[s].obj]
                    THEN raced \ {saver[s].obj} ELSE raced
        /\ UNCHANGED <<life, docVars, managerVars, inst, snapshots, stopping,
                       overlapped, owed, excused, boundVars>>

MarkSaved(s) ==
    /\ At(s, "mark")
    /\ dirty' = [dirty EXCEPT ![saver[s].obj] = FALSE]
    /\ GotoFresh(s, AfterSave(s))
    /\ UNCHANGED <<life, id, text, base, lastSnap, managerVars, inst, fileVars,
                   stopping, historyVars, boundVars>>

needs_snapshot(o) == /\ revision(o) > 0 /\ revision(o) % SnapshotThreshold = 0
                     /\ revision(o) # lastSnap[o]

\* maybe_create_snapshot: the check, the content, the revision with the file
\* that it names, and the mark are four critical sections.
CheckSnapshot ==
    /\ At("autosave", "snap")
    /\ GotoFresh("autosave", IF needs_snapshot(saver["autosave"].obj)
                             THEN "snapcontent" ELSE "loop")
    /\ UNCHANGED <<life, docVars, managerVars, inst, fileVars, stopping,
                   historyVars, boundVars>>

SnapshotContent ==
    /\ At("autosave", "snapcontent")
    /\ saver' = [saver EXCEPT !["autosave"].pc = "snapwrite",
                              !["autosave"].content = text[saver["autosave"].obj]]
    /\ UNCHANGED <<life, docVars, managerVars, inst, fileVars, stopping,
                   historyVars, boundVars>>

SnapshotWrite ==
    LET o == saver["autosave"].obj
    IN  /\ At("autosave", "snapwrite")
        /\ snapshots' = {f \in snapshots : f[1] # id[o] \/ f[2] # revision(o)}
                          \cup {<<id[o], revision(o), saver["autosave"].content - base[o]>>}
        /\ Goto("autosave", "snapmark")
        /\ UNCHANGED <<life, docVars, managerVars, inst, path, tmp, data, stopping,
                       historyVars, boundVars>>

\* The snapshot's file cannot be opened: it is not marked and tried again in
\* the next round that saves.
SnapshotFails ==
    /\ At("autosave", "snapwrite") /\ failures < MaxOpenFailures
    /\ GotoFresh("autosave", "loop")
    /\ failures' = failures + 1
    /\ UNCHANGED <<life, docVars, managerVars, inst, fileVars, stopping,
                   historyVars, ops, ends>>

SnapshotMark ==
    LET o == saver["autosave"].obj
    IN  /\ At("autosave", "snapmark")
        /\ lastSnap' = [lastSnap EXCEPT ![o] = revision(o)]
        /\ GotoFresh("autosave", "loop")
        /\ UNCHANGED <<life, id, text, base, dirty, managerVars, inst, fileVars,
                       stopping, historyVars, boundVars>>

save_document(s) == \/ GetContent(s) \/ OpenTmp(s) \/ OpenFails(s) \/ WriteTmp(s)
                    \/ RenameTmp(s) \/ MarkSaved(s)
maybe_create_snapshot == \/ CheckSnapshot \/ SnapshotContent \/ SnapshotWrite
                         \/ SnapshotFails \/ SnapshotMark

Autosave == \/ StartRound \/ EndAutosave \/ NextDocument("autosave")
            \/ save_document("autosave") \/ maybe_create_snapshot

-----------------------------------------------------------------------------
(* shutdown_server, crash and restart *)

\* What the session of d, if there is one, has yet to handle.  Only a document
\* that is deleted loses its session before the server stops.
Queued(d) == IF sessions[d] = 0 THEN 0 ELSE inst[sessions[d]].queue

\* The signal arrives.
Shutdown ==
    /\ life = "running" /\ ends < MaxEnds
    /\ life' = "shutdown" /\ ends' = ends + 1
    /\ owed' = [d \in Ids |-> IF documents[d] = 0 THEN 0
                              ELSE text[documents[d]] + Queued(d)]
    /\ UNCHANGED <<docVars, managerVars, inst, fileVars, saver, stopping, raced,
                   overlapped, excused, ops, failures>>

\* The numbers of the documents with a session are read once ...
all_active_doc_ids ==
    /\ life = "shutdown" /\ saver["shutdown"].pc = "wait" /\ mutex = Unlocked
    /\ saver' = [saver EXCEPT !["shutdown"].pc = "removing",
                              !["shutdown"].docs = {d \in Ids : sessions[d] # 0}]
    /\ UNCHANGED <<life, docVars, managerVars, inst, fileVars, stopping,
                   historyVars, boundVars>>

\* ... each of these sessions is removed and, unless someone still holds it,
\* waited for ...
remove_session(d) ==
    /\ At("shutdown", "removing") /\ d \in saver["shutdown"].docs /\ mutex = Unlocked
    /\ saver' = [saver EXCEPT !["shutdown"].docs = @ \ {d}]
    /\ IF sessions[d] # 0
       THEN Removed(d, sessions[d]) /\ mutex' = <<"remove", d, sessions[d]>>
       ELSE UNCHANGED <<sessions, inst, mutex>>
    /\ UNCHANGED <<life, docVars, documents, next_doc_id, rights, loading, fileVars,
                   stopping, historyVars, boundVars>>

finish_remove ==
    /\ Alive /\ mutex[1] = "remove" /\ Joined(mutex[3])
    /\ excused' = IF inst[mutex[3]].state = "ended" THEN excused ELSE excused \cup {mutex[2]}
    /\ mutex' = Unlocked
    /\ UNCHANGED <<life, docVars, documents, next_doc_id, rights, sessions, loading,
                   inst, fileVars, saver, stopping, raced, overlapped, owed, boundVars>>

\* ... force_save_all ...
force_save_all ==
    /\ At("shutdown", "removing") /\ saver["shutdown"].docs = {} /\ mutex = Unlocked
    /\ saver' = [saver EXCEPT !["shutdown"].pc = "loop", !["shutdown"].docs = Loaded]
    /\ UNCHANGED <<life, docVars, managerVars, inst, fileVars, stopping,
                   historyVars, boundVars>>

\* ... autosave.stop(), which joins the thread, and the end of the process.
StopAutosave ==
    /\ life = "shutdown" /\ saver["shutdown"].pc = "saved" /\ ~ stopping
    /\ stopping' = TRUE
    /\ UNCHANGED <<life, docVars, managerVars, inst, fileVars, saver,
                   historyVars, boundVars>>

ExitProcess ==
    /\ life = "shutdown" /\ stopping /\ saver["autosave"].pc = "ended"
    /\ life' = "exited"
    /\ UNCHANGED <<docVars, managerVars, inst, fileVars, saver, stopping,
                   historyVars, boundVars>>

\* The process ends without notice and loses all but the files.
Dies ==
    /\ life' = "down"
    /\ id' = Fresh.zero /\ text' = Fresh.zero /\ base' = Fresh.zero
    /\ dirty' = Fresh.clean /\ lastSnap' = Fresh.zero
    /\ documents' = Fresh.none /\ next_doc_id' = 1 /\ rights' = Fresh.rights
    /\ sessions' = Fresh.none /\ mutex' = Unlocked /\ loading' = {}
    /\ inst' = Fresh.inst /\ saver' = Fresh.saver /\ stopping' = FALSE
    /\ raced' = {} /\ excused' = {} /\ owed' = Fresh.none
    /\ UNCHANGED <<fileVars, overlapped, ops, failures>>

\* fs::rename throws when the other thread has moved the file: nothing
\* catches the exception, in either thread.
RenameThrows(s) ==
    /\ At(s, "rename") /\ tmp[Number(s)] = 0
    /\ Dies /\ ends' = ends

Crash ==
    /\ Alive /\ ends < MaxEnds
    /\ ends' = ends + 1
    /\ Dies

\* Accounts, rights and numbers start afresh; the files are still there.
Restart ==
    /\ life = "down"
    /\ life' = "running"
    /\ UNCHANGED <<docVars, managerVars, inst, fileVars, saver, stopping,
                   historyVars, boundVars>>

MainThread == \/ all_active_doc_ids \/ \E d \in Ids : remove_session(d)
              \/ force_save_all \/ NextDocument("shutdown") \/ save_document("shutdown")
              \/ StopAutosave \/ ExitProcess

Manager == \/ create_document \/ finish_delete
           \/ \E d \in Ids : \/ load_from_disk(d) \/ get_document(d) \/ delete_document(d)
                             \/ get_or_create_session(d) \/ get_session(d) \/ late_grant(d)
           \/ \E i \in Instances : enqueue_operation(i)

Next == \/ Manager \/ Autosave \/ MainThread \/ Shutdown \/ finish_remove
        \/ \E i \in Instances : SessionThread(i)
        \/ \E s \in Savers : RenameThrows(s)
        \/ Crash \/ Restart

\* The threads of the process run on; nobody has to send requests, stop the
\* server or start it again.
Fairness == /\ WF_vars(Autosave) /\ WF_vars(MainThread)
            /\ WF_vars(finish_delete) /\ WF_vars(finish_remove)
            /\ \A i \in Instances : WF_vars(SessionThread(i))

Spec == Init /\ [][Next]_vars /\ Fairness

-----------------------------------------------------------------------------
(* Properties *)

\* A document's file always holds a whole text, whenever the process dies:
\* save_document writes to another file and renames it.  The one exception is
\* a document that two threads were saving at once.  The empty text is a whole
\* one: create_document truncates.  A snapshot never holds a
\* newer text than the revision in its name says.
FilesHoldWholeTexts ==
    /\ \A d \in Ids : Exists(d) /\ OnDisk(d) = Partial => d \in overlapped
    /\ \A f \in snapshots : f[3] <= f[2]

\* The document was not deleted and, brought back by a saver that still held
\* it, loaded again.
OneObject(d) == Cardinality({o \in Objects : id[o] = d}) = 1

\* A document that counts as saved is on disk as it is in memory, unless it
\* changed between get_content and mark_saved, or two threads saved it at once,
\* or it is one of two objects of its number (OneObject).
CleanMeansSaved ==
    Alive => \A d \in Ids : documents[d] # 0 =>
        LET o == documents[d]
        IN  ~ dirty[o] /\ OneObject(d)
                => OnDisk(d) = text[o] \/ o \in raced \/ d \in overlapped

\* When the server has stopped in good order, everything that was committed or
\* queued when the signal arrived is on disk: shutdown_server ends the sessions
\* before it saves.  Exceptions: two threads saved at once, the file could not
\* be opened, a task of the pool held the session, so that nobody waited
\* for its thread, or the document has two objects (OneObject).
GracefulStopSaves ==
    life = "exited" => \A d \in Ids : documents[d] # 0 /\ OneObject(d) =>
        OnDisk(d) >= owed[d] \/ d \in overlapped \cup excused

\* A dirty document is saved within the next rounds, though files may fail to
\* open, unless it is deleted or the process ends.
DirtyGetsSaved ==
    \A d \in Ids, t \in 1 .. MaxOps :
        /\ life = "running" /\ documents[d] # 0 /\ saver["autosave"].pc = "wait"
        /\ dirty[documents[d]] /\ text[documents[d]] = t
        ~> life # "running" \/ documents[d] = 0 \/ OnDisk(d) >= t

\* delete_document and remove_session, which keep mutex_ while they wait for the
\* thread of a session, never wait for one that waits for them: until it has
\* ended or someone else will destroy the session, the thread can go on.  Every
\* other call of the manager waits for mutex_ meanwhile.
LockHolderGoesOn ==
    Alive /\ mutex # Unlocked /\ mutex[3] # 0
        => Joined(mutex[3]) \/ ENABLED SessionThread(mutex[3])
=============================================================================
