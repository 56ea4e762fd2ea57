--------------------------- MODULE StorageProofs ---------------------------
(***************************************************************************)
(* Three theorems about the files, for any number of documents, sessions   *)
(* and operations: a file holds a whole text whenever the process dies, a  *)
(* document that counts as saved is on disk, and a server that has stopped *)
(* in good order has saved all that had reached it.                        *)
(*                                                                         *)
(* The argument for the first: an inode belongs to one document, as its    *)
(* file or as its .tmp file, and a thread that writes has the .tmp file of *)
(* the document it saves.  Unless two threads save a document at once, the *)
(* .tmp file is complete when it is renamed (StoreInv).  For the second:   *)
(* the text a thread has taken is the present one or the change was noted  *)
(* (CleanInv).  For the third: until its session has been waited for, the  *)
(* text and the queue together have what is owed; from then on the text    *)
(* has it, and force_save_all has the document before it or has written a  *)
(* file that neither thread will replace by an older one (StopInv).        *)
(***************************************************************************)
EXTENDS Storage, FiniteSetTheorems, FunctionTheorems, TLAPS

Busy == {"content", "open", "write", "rename", "mark"}
Snapping == {"snap", "snapcontent", "snapwrite", "snapmark"}
Places == Busy \cup Snapping \cup {"wait", "loop", "removing", "saved", "ended"}

\* The objects that have been given out in this process.
Live == {o \in Objects : id[o] # 0}

SaverType == [pc : Places, docs : SUBSET Nat, obj : Objects \cup {0}, content : Int,
              fd : Inodes \cup {0}]

StoreShape ==
    /\ id \in [Objects -> Ids \cup {0}]
    /\ text \in [Objects -> Int] /\ base \in [Objects -> Int]
    /\ dirty \in [Objects -> BOOLEAN]
    /\ documents \in [Ids -> Objects \cup {0}]
    /\ next_doc_id \in Nat \ {0}
    /\ DOMAIN rights = Ids
    /\ path \in [Ids -> Inodes \cup {0}] /\ tmp \in [Ids -> Inodes \cup {0}]
    /\ data \in [Inodes -> Int]
    /\ saver \in [Savers -> SaverType]

\* Every number below next_doc_id was given to an object of this process, and
\* no other number can be asked for.
Numbers ==
    /\ \A o \in Objects : id[o] < next_doc_id
    /\ \A d \in Ids : documents[d] # 0 => id[documents[d]] = d
    /\ \A d \in Ids : rights[d] # "none" => d < next_doc_id
    /\ \A d \in Ids : d < next_doc_id => \E o \in Objects : id[o] = d
    /\ mutex[1] = "delete" => mutex[2] \in Ids /\ documents[mutex[2]] = 0

\* A text that a torn file was read into is one of a document that two
\* threads had saved at once.
Texts ==
    /\ \A o \in Objects : text[o] >= Partial
    /\ \A o \in Live : text[o] = Partial => id[o] \in overlapped
    /\ \A n \in Inodes : data[n] >= Partial
    /\ \A l \in loading : /\ l[1] \in Ids /\ l[1] < next_doc_id
                          /\ l[2] \in Int /\ l[2] >= Partial
                          /\ l[2] = Partial => l[1] \in overlapped

\* No inode belongs to two documents, or to one as both of its files.
Owned ==
    /\ \A d, e \in Ids : path[d] # 0 => path[d] # tmp[e] /\ (path[d] = path[e] => d = e)
    /\ \A d, e \in Ids : tmp[d] # 0 /\ tmp[d] = tmp[e] => d = e
    /\ \A s \in Savers, d \in Ids :
          saver[s].fd # 0 /\ saver[s].fd \in {path[d], tmp[d]} => Number(s) = d

\* A thread that saves, alone, a document.
SaverInv(s) ==
    /\ saver[s].pc \in Busy \cup Snapping => saver[s].obj \in Live
    /\ saver[s].pc # "removing" => saver[s].docs \subseteq Live
    /\ saver[s].fd # 0 <=> saver[s].pc = "write"
    /\ saver[s].content >= Partial
    /\ saver[s].pc \in Busy /\ Number(s) \notin overlapped =>
          /\ saver[s].pc \in {"open", "write", "rename"} => saver[s].content # Partial
          /\ saver[s].pc = "write" =>
                saver[s].fd = tmp[Number(s)] /\ data[tmp[Number(s)]] = Partial
          /\ saver[s].pc = "rename" =>
                tmp[Number(s)] # 0 /\ data[tmp[Number(s)]] = saver[s].content
    /\ saver[s].pc = "snapwrite" => saver[s].content <= text[saver[s].obj]

\* Two threads that save a document at once are noticed.
Exclusive ==
    \A s, t \in Savers : s # t /\ saver[s].pc \in Busy /\ saver[t].pc \in Busy
        /\ Number(s) = Number(t) => Number(s) \in overlapped

StoreInv == /\ StoreShape /\ Numbers /\ Texts /\ Owned
            /\ \A s \in Savers : SaverInv(s)
            /\ Exclusive
            /\ FilesHoldWholeTexts

-----------------------------------------------------------------------------

\* d has one object, the one in memory, and was never saved by two threads.
Current(d) == /\ documents[d] # 0 /\ d \notin overlapped
              /\ \A o, p \in Objects : id[o] = d /\ id[p] = d => o = p

Saved(d) == data[path[d]] = text[documents[d]] \/ documents[d] \in raced

\* The text a thread has taken is the present one, or the change is noted.
TakenInv(s) ==
    saver[s].pc \in Busy /\ Current(Number(s)) /\ documents[Number(s)] = saver[s].obj =>
        /\ saver[s].pc \in {"open", "write", "rename"} =>
              saver[s].content = text[saver[s].obj] \/ saver[s].obj \in raced
        /\ saver[s].pc = "mark" => Saved(Number(s))

CleanInv ==
    /\ \A d \in Ids : Current(d) => path[d] # 0 /\ (~ dirty[documents[d]] => Saved(d))
    /\ \A s \in Savers : TakenInv(s)

-----------------------------------------------------------------------------

SessionStates == {"none", "running", "stopping", "ended"}
InstType == [obj : Objects \cup {0}, state : SessionStates, queue : Nat, holding : Nat]

\* The session of a document works on the object that is in memory, and the
\* thread that shuts down has its order of work.
StopShape ==
    /\ inst \in [Instances -> InstType]
    /\ sessions \in [Ids -> Instances \cup {0}]
    /\ owed \in [Ids -> Int]
    /\ \A d \in Ids : sessions[d] # 0 =>
          /\ documents[d] # 0 /\ inst[sessions[d]].obj = documents[d]
          /\ inst[sessions[d]].state = "running"
    /\ \A d \in Ids : d < next_doc_id \/ owed[d] <= 0
    /\ life \in {"running", "down"} => saver["shutdown"].pc = "wait"
    /\ stopping => saver["shutdown"].pc = "saved"
    /\ saver["shutdown"].pc = "saved" => saver["shutdown"].docs = {}
    /\ life = "exited" => stopping

Removing == saver["shutdown"].pc \in {"wait", "removing"}

\* A session that has not been waited for yet will bring the text of d to what
\* it must contain.
InCharge(d) ==
    \E i \in Instances :
        /\ inst[i].obj = documents[d] /\ inst[i].state \in {"running", "stopping"}
        /\ text[documents[d]] + inst[i].queue >= owed[d]
        /\ \/ sessions[d] = i /\ (saver["shutdown"].pc = "wait" \/ d \in saver["shutdown"].docs)
           \/ mutex = <<"remove", d, i>>

Writing == {"open", "write", "rename"}

\* The file of d has it all, and no thread will replace it by less.
Settled(d) ==
    /\ data[path[d]] >= owed[d]
    /\ \A s \in Savers : saver[s].pc \in Writing /\ Number(s) = d => saver[s].content >= owed[d]

\* force_save_all will save d, or is saving it.
ToBeSaved(d) ==
    \/ documents[d] \in saver["shutdown"].docs
    \/ /\ saver["shutdown"].obj = documents[d]
       /\ saver["shutdown"].pc \in {"content", "open", "write", "rename"}
       /\ saver["shutdown"].pc # "content" => saver["shutdown"].content >= owed[d]

Kept(d) ==
    IF Removing THEN text[documents[d]] >= owed[d] \/ InCharge(d)
    ELSE text[documents[d]] >= owed[d] /\ (ToBeSaved(d) \/ Settled(d))

StopInv ==
    /\ StopShape
    /\ \A d \in Ids : life \in {"shutdown", "exited"} /\ Current(d) /\ d \notin excused => Kept(d)

-----------------------------------------------------------------------------
(* A free inode and a free object *)

LEMMA ImageOfIds ==
    ASSUME NEW f, DOMAIN f = Ids
    PROVE  /\ IsFiniteSet({f[d] : d \in Ids})
           /\ Cardinality({f[d] : d \in Ids}) <= Cardinality(Ids)
<1> DEFINE T == {f[d] : d \in Ids}
<1>1. [d \in Ids |-> f[d]] \in Surjection(Ids, T)
  BY DEF Surjection
<1> QED
  BY <1>1, StorageAssumption, FS_Surjection

\* Whoever is about to open a file has a name without an inode, so that of the
\* 2 * Cardinality(Ids) + 2 inodes one is free.
LEMMA InodesSuffice ==
    ASSUME StoreShape, 0 \in UsedInodes
    PROVE  FreshInode \in Inodes /\ FreshInode \notin UsedInodes
<1> DEFINE n == Cardinality(Ids)
           P == {path[d] : d \in Ids}
           T == {tmp[d] : d \in Ids}
           F == {saver[s].fd : s \in Savers}
<1>1. n \in Nat
  BY StorageAssumption, FS_CardinalityType
<1>2. /\ IsFiniteSet(P) /\ Cardinality(P) <= n /\ IsFiniteSet(T) /\ Cardinality(T) <= n
  BY ImageOfIds DEF StoreShape
<1>3. IsFiniteSet(F) /\ Cardinality(F) <= 2
  <2> DEFINE A == {saver["autosave"].fd}
             B == {saver["shutdown"].fd}
  <2>1. F = A \cup B
    BY DEF Savers
  <2>2. /\ IsFiniteSet(A) /\ Cardinality(A) = 1
        /\ IsFiniteSet(B) /\ Cardinality(B) = 1
    BY FS_Singleton
  <2> HIDE DEF A, B, F
  <2>3. Cardinality(A \cap B) \in Nat
    BY <2>2, FS_Intersection, FS_CardinalityType
  <2>4. IsFiniteSet(A \cup B) /\ Cardinality(A \cup B) = 2 - Cardinality(A \cap B)
    BY <2>2, <2>3, FS_Union
  <2> QED
    BY <2>1, <2>3, <2>4
<1>4. /\ IsFiniteSet(P \cup T) /\ Cardinality(P \cup T) \in Nat
      /\ Cardinality(P \cup T) <= 2 * n
  <2>1. Cardinality(P) \in Nat /\ Cardinality(T) \in Nat /\ Cardinality(P \cap T) \in Nat
    BY <1>2, FS_Intersection, FS_CardinalityType
  <2>2. /\ IsFiniteSet(P \cup T)
        /\ Cardinality(P \cup T) = Cardinality(P) + Cardinality(T) - Cardinality(P \cap T)
    BY <1>2, FS_Union
  <2> QED
    BY <1>1, <1>2, <2>1, <2>2, FS_CardinalityType
<1>5. /\ IsFiniteSet(UsedInodes) /\ Cardinality(UsedInodes) \in Nat
      /\ Cardinality(UsedInodes) <= 2 * n + 2
  <2>1. UsedInodes = (P \cup T) \cup F
    BY DEF UsedInodes
  <2>2. Cardinality(F) \in Nat /\ Cardinality((P \cup T) \cap F) \in Nat
    BY <1>3, <1>4, FS_Intersection, FS_CardinalityType
  <2>3. /\ IsFiniteSet((P \cup T) \cup F)
        /\ Cardinality((P \cup T) \cup F)
              = Cardinality(P \cup T) + Cardinality(F) - Cardinality((P \cup T) \cap F)
    BY <1>3, <1>4, FS_Union
  <2>4. Cardinality((P \cup T) \cup F) \in Nat
    BY <2>3, FS_CardinalityType
  <2> HIDE DEF P, T, F, n
  <2> QED
    BY <1>1, <1>3, <1>4, <2>1, <2>2, <2>3, <2>4
<1>6. \E m \in Inodes : m \notin UsedInodes
  <2>1. SUFFICES ASSUME Inodes \subseteq UsedInodes PROVE FALSE
    OBVIOUS
  <2>2. 0 .. 2 * n + 2 \subseteq UsedInodes
    BY <1>1, <2>1 DEF Inodes
  <2>3. Cardinality(0 .. 2 * n + 2) = 2 * n + 3
    BY <1>1, FS_Interval
  <2>4. Cardinality(0 .. 2 * n + 2) <= Cardinality(UsedInodes)
    BY <1>5, <2>2, FS_Subset
  <2> HIDE DEF n
  <2> QED
    BY <1>1, <1>5, <2>3, <2>4
<1> QED
  BY <1>6 DEF FreshInode

LEMMA FreeObjectIsFree ==
    ASSUME ObjectsLeft
    PROVE  FreeObject \in Objects /\ id[FreeObject] = 0
  BY DEF ObjectsLeft, FreeObject

\* What the arithmetic of the proofs needs to know of the constants.
LEMMA StoreConstants ==
    /\ Partial \in Int /\ Partial < 0
    /\ Ids \subseteq Nat \ {0} /\ Objects \subseteq Nat \ {0}
    /\ Inodes \subseteq Nat \ {0}
    /\ Savers = {"autosave", "shutdown"}
<1>1. Cardinality(Ids) \in Nat
  BY StorageAssumption, FS_CardinalityType
<1> QED
  BY <1>1, StorageAssumption DEF Partial, Inodes, Savers

-----------------------------------------------------------------------------
(* StoreInv is inductive *)

LEMMA InitStore == Init => StoreInv
<1> SUFFICES ASSUME Init PROVE StoreInv
  OBVIOUS
<1>1. /\ \A o \in Objects : id[o] = 0 /\ text[o] = 0 /\ base[o] = 0
      /\ \A d \in Ids : documents[d] = 0 /\ path[d] = 0 /\ tmp[d] = 0 /\ rights[d] = "none"
      /\ \A n \in Inodes : data[n] = 0
      /\ \A s \in Savers : saver[s] = IdleSaver
      /\ loading = {} /\ snapshots = {} /\ mutex = <<"free", 0, 0>> /\ next_doc_id = 1
  BY DEF Init, Fresh, Unlocked
<1>2. StoreShape
  <2>1. IdleSaver \in SaverType
    BY DEF IdleSaver, SaverType, Places
  <2> QED
    BY <2>1 DEF StoreShape, Init, Fresh
<1>3. Numbers
  BY <1>1, StoreConstants DEF Numbers
<1>4. Texts
  BY <1>1, StoreConstants DEF Texts, Live
<1>5. Owned /\ Exclusive
  BY <1>1 DEF Owned, Exclusive, IdleSaver, Busy
<1>6. ASSUME NEW s \in Savers PROVE SaverInv(s)
  BY <1>1, StoreConstants DEF SaverInv, IdleSaver, Busy, Snapping
<1>7. FilesHoldWholeTexts
  BY <1>1 DEF FilesHoldWholeTexts, Exists
<1> QED
  BY <1>2, <1>3, <1>4, <1>5, <1>6, <1>7 DEF StoreInv

\* A step of thread s that leaves the files alone.
LEMMA SaverMoves ==
    ASSUME StoreInv, NEW s \in Savers, NEW r \in SaverType,
           saver' = [saver EXCEPT ![s] = r],
           saver[s].pc # "write", r.pc \notin {"write", "rename"}, r.fd = saver[s].fd,
           r.pc \in Busy \cup Snapping => r.obj \in Live,
           r.pc # "removing" => r.docs \subseteq Live,
           r.content >= Partial,
           r.pc = "open" /\ r.content = Partial => id[r.obj] \in overlapped,
           r.pc = "snapwrite" => r.content <= text[r.obj],
           overlapped \subseteq overlapped',
           \A t \in Savers \ {s} : r.pc \in Busy /\ saver[t].pc \in Busy
                /\ Number(t) = id[r.obj] => id[r.obj] \in overlapped',
           \A f \in snapshots' : f[3] <= f[2],
           dirty' \in [Objects -> BOOLEAN],
           mutex'[1] = "delete" => mutex' = mutex,
           UNCHANGED <<id, text, base, documents, next_doc_id, rights, loading, path, tmp, data>>
    PROVE  StoreInv'
<1>1. /\ saver'[s] = r /\ \A t \in Savers \ {s} : saver'[t] = saver[t]
      /\ saver' \in [Savers -> SaverType]
  BY DEF StoreInv, StoreShape
<1>2. r.fd = 0
  BY DEF StoreInv, SaverInv
<1>3. StoreShape'
  BY <1>1 DEF StoreInv, StoreShape, SaverType
<1>4. Numbers'
  BY DEF StoreInv, Numbers
<1>5. Texts'
  BY DEF StoreInv, Texts, Live
<1>6. Owned'
  BY <1>1, <1>2 DEF StoreInv, Owned, Number
<1>7. ASSUME NEW t \in Savers PROVE SaverInv(t)'
  <2>1. CASE t = s
    BY <1>1, <1>2, <2>1 DEF SaverInv, Number, Live, Busy, Snapping
  <2>2. CASE t # s
    BY <1>1, <2>2 DEF StoreInv, SaverInv, Number, Live
  <2> QED
    BY <2>1, <2>2
<1>8. Exclusive'
  <2> SUFFICES ASSUME NEW t \in Savers, NEW u \in Savers, t # u,
                      saver'[t].pc \in Busy, saver'[u].pc \in Busy, Number(t)' = Number(u)'
               PROVE  Number(t)' \in overlapped'
    BY DEF Exclusive
  <2>1. CASE t = s
    BY <1>1, <2>1 DEF Number
  <2>2. CASE u = s
    BY <1>1, <2>2 DEF Number
  <2>3. CASE t # s /\ u # s
    BY <1>1, <2>3 DEF StoreInv, Exclusive, Number
  <2> QED
    BY <2>1, <2>2, <2>3
<1>9. FilesHoldWholeTexts'
  BY DEF StoreInv, FilesHoldWholeTexts, Exists, OnDisk
<1> QED
  BY <1>3, <1>4, <1>5, <1>6, <1>7, <1>8, <1>9 DEF StoreInv

\* Thread s goes to the place pc with these locals; its file stays.
Moves(s, pc, docs, obj, content) ==
    \E r \in SaverType : /\ saver' = [saver EXCEPT ![s] = r]
                         /\ r.pc = pc /\ r.docs = docs /\ r.obj = obj
                         /\ r.content = content /\ r.fd = saver[s].fd

LEMMA MovesTo ==
    ASSUME StoreShape, NEW s \in Savers, NEW pc \in Places
    PROVE  /\ Goto(s, pc) => Moves(s, pc, saver[s].docs, saver[s].obj, saver[s].content)
           /\ GotoFresh(s, pc) => Moves(s, pc, saver[s].docs,
                                        IF pc = "loop" THEN 0 ELSE saver[s].obj, 0)
<1>1. saver[s] \in SaverType
  BY DEF StoreShape
<1>2. ASSUME Goto(s, pc)
      PROVE  Moves(s, pc, saver[s].docs, saver[s].obj, saver[s].content)
  <2> DEFINE r == [saver[s] EXCEPT !.pc = pc]
  <2>1. saver' = [saver EXCEPT ![s] = r]
    BY <1>2 DEF Goto
  <2>2. /\ r \in SaverType /\ r.pc = pc /\ r.docs = saver[s].docs /\ r.obj = saver[s].obj
        /\ r.content = saver[s].content /\ r.fd = saver[s].fd
    BY <1>1 DEF SaverType
  <2> QED
    BY <2>1, <2>2 DEF Moves
<1>3. ASSUME GotoFresh(s, pc)
      PROVE  Moves(s, pc, saver[s].docs, IF pc = "loop" THEN 0 ELSE saver[s].obj, 0)
  <2>1. PICK o \in Objects \cup {0} : o = IF pc = "loop" THEN 0 ELSE saver[s].obj
    BY <1>1 DEF SaverType
  <2>2. PICK c \in Int : c = 0
    OBVIOUS
  <2> DEFINE r == [saver[s] EXCEPT !.pc = pc, !.content = c, !.obj = o]
  <2>3. saver' = [saver EXCEPT ![s] = r]
    BY <1>1, <1>3, <2>1, <2>2 DEF GotoFresh, StoreShape
  <2>4. r \in SaverType
    BY <1>1 DEF SaverType
  <2>5. /\ r.pc = pc /\ r.docs = saver[s].docs /\ r.obj = o
        /\ r.content = c /\ r.fd = saver[s].fd
    BY <1>1 DEF SaverType
  <2> QED
    BY <2>1, <2>2, <2>3, <2>4, <2>5 DEF Moves
<1> QED
  BY <1>2, <1>3

LEMMA MovesWithList ==
    ASSUME StoreShape, NEW s \in Savers, NEW pc \in Places, NEW docs \in SUBSET Nat,
           saver' = [saver EXCEPT ![s].pc = pc, ![s].docs = docs]
    PROVE  Moves(s, pc, docs, saver[s].obj, saver[s].content)
<1> DEFINE r == [saver[s] EXCEPT !.pc = pc, !.docs = docs]
<1>1. saver[s] \in SaverType
  BY DEF StoreShape
<1>2. saver' = [saver EXCEPT ![s] = r]
  BY <1>1 DEF StoreShape
<1>3. /\ r \in SaverType /\ r.pc = pc /\ r.docs = docs /\ r.obj = saver[s].obj
      /\ r.content = saver[s].content /\ r.fd = saver[s].fd
  BY <1>1 DEF SaverType
<1> QED
  BY <1>2, <1>3 DEF Moves

LEMMA MovesWithContent ==
    ASSUME StoreShape, NEW s \in Savers, NEW pc \in Places, NEW content \in Int,
           saver' = [saver EXCEPT ![s].pc = pc, ![s].content = content]
    PROVE  Moves(s, pc, saver[s].docs, saver[s].obj, content)
<1> DEFINE r == [saver[s] EXCEPT !.pc = pc, !.content = content]
<1>1. saver[s] \in SaverType
  BY DEF StoreShape
<1>2. saver' = [saver EXCEPT ![s] = r]
  BY <1>1 DEF StoreShape
<1>3. /\ r \in SaverType /\ r.pc = pc /\ r.docs = saver[s].docs /\ r.obj = saver[s].obj
      /\ r.content = content /\ r.fd = saver[s].fd
  BY <1>1 DEF SaverType
<1> QED
  BY <1>2, <1>3 DEF Moves

LEMMA LoadedLive == ASSUME StoreInv PROVE Loaded \subseteq Live /\ Loaded \in SUBSET Nat
<1>1. ASSUME NEW d \in Ids, documents[d] # 0
      PROVE  documents[d] \in Live /\ documents[d] \in Nat
  BY <1>1, StoreConstants, ZenonT(40) DEF StoreInv, StoreShape, Numbers, Live
<1> QED
  BY <1>1 DEF Loaded

\* The same as SaverMoves, for the steps that do not look at other threads.
LEMMA SaverGoes ==
    ASSUME StoreInv, NEW s \in Savers, NEW pc, NEW docs, NEW obj, NEW content,
           Moves(s, pc, docs, obj, content),
           saver[s].pc # "write", pc \notin {"write", "rename"},
           pc \in Busy => saver[s].pc \in Busy /\ obj = saver[s].obj,
           pc \in Snapping => obj \in Live,
           pc # "removing" => docs \subseteq Live,
           content >= Partial,
           pc = "open" /\ content = Partial => id[obj] \in overlapped,
           pc = "snapwrite" => content <= text[obj],
           \A f \in snapshots' : f[3] <= f[2],
           dirty' \in [Objects -> BOOLEAN],
           mutex'[1] = "delete" => mutex' = mutex,
           UNCHANGED <<id, text, base, documents, next_doc_id, rights, loading, path, tmp,
                       data, overlapped>>
    PROVE  StoreInv'
<1>1. PICK r \in SaverType : /\ saver' = [saver EXCEPT ![s] = r]
                             /\ r.pc = pc /\ r.docs = docs /\ r.obj = obj
                             /\ r.content = content /\ r.fd = saver[s].fd
  BY DEF Moves
<1>2. pc \in Busy \cup Snapping => obj \in Live
  BY DEF StoreInv, SaverInv
<1>3. \A t \in Savers \ {s} : pc \in Busy /\ saver[t].pc \in Busy
          /\ Number(t) = id[obj] => id[obj] \in overlapped'
  BY DEF StoreInv, Exclusive, Number
<1> QED
  BY <1>1, <1>2, <1>3, SaverMoves, ZenonT(40)

LEMMA StepRound ==
    ASSUME StoreInv, StartRound \/ EndAutosave \/ all_active_doc_ids \/ force_save_all
    PROVE  StoreInv'
<1>1. StoreShape /\ \A f \in snapshots : f[3] <= f[2]
  BY DEF StoreInv, FilesHoldWholeTexts
<1>2. /\ SaverInv("autosave") /\ saver["autosave"] \in SaverType
      /\ SaverInv("shutdown") /\ saver["shutdown"] \in SaverType
      /\ "autosave" \in Savers /\ "shutdown" \in Savers
  BY DEF StoreInv, StoreShape, Savers
<1>3. CASE StartRound
  <2>1. Moves("autosave", "loop", Loaded, saver["autosave"].obj, saver["autosave"].content)
    BY <1>1, <1>2, <1>3, MovesWithList, LoadedLive DEF StartRound, Places
  <2> QED
    BY <1>1, <1>2, <1>3, <2>1, SaverGoes, LoadedLive
       DEF StartRound, At, StoreShape, SaverInv, docVars, managerVars, fileVars, historyVars, Busy, Snapping
<1>4. CASE EndAutosave
  <2>1. Moves("autosave", "ended", saver["autosave"].docs, saver["autosave"].obj,
              saver["autosave"].content)
    BY <1>1, <1>2, <1>4, MovesTo DEF EndAutosave, Places
  <2> QED
    BY <1>1, <1>2, <1>4, <2>1, SaverGoes
       DEF EndAutosave, At, StoreShape, SaverInv, docVars, managerVars, fileVars, historyVars, Busy, Snapping
<1>5. CASE all_active_doc_ids
  <2>1. Moves("shutdown", "removing", {d \in Ids : sessions[d] # 0}, saver["shutdown"].obj,
              saver["shutdown"].content)
    <3>1. {d \in Ids : sessions[d] # 0} \in SUBSET Nat
      BY StoreConstants
    <3> QED
      BY <1>1, <1>2, <1>5, <3>1, MovesWithList DEF all_active_doc_ids, Places
  <2> QED
    BY <1>1, <1>2, <1>5, <2>1, SaverGoes
       DEF all_active_doc_ids, StoreShape, SaverInv, docVars, managerVars, fileVars, historyVars, Busy, Snapping
<1>6. CASE force_save_all
  <2>1. Moves("shutdown", "loop", Loaded, saver["shutdown"].obj, saver["shutdown"].content)
    BY <1>1, <1>2, <1>6, MovesWithList, LoadedLive DEF force_save_all, Places
  <2> QED
    BY <1>1, <1>2, <1>6, <2>1, SaverGoes, LoadedLive
       DEF force_save_all, At, StoreShape, SaverInv, docVars, managerVars, fileVars, historyVars, Busy, Snapping
<1> QED
  BY <1>3, <1>4, <1>5, <1>6

LEMMA StepGetContent == ASSUME StoreInv, NEW s \in Savers, GetContent(s) PROVE StoreInv'
<1>1. /\ StoreShape /\ (\A f \in snapshots : f[3] <= f[2]) /\ SaverInv(s)
      /\ saver[s] \in SaverType
  BY DEF StoreInv, StoreShape, FilesHoldWholeTexts
<1>2. saver[s].pc = "content" /\ saver[s].obj \in Live /\ saver[s].docs \subseteq Live
  BY <1>1 DEF GetContent, At, SaverInv, Busy
<1>3. PICK c \in Int : c = text[saver[s].obj]
  BY <1>1, <1>2 DEF Live, StoreShape
<1>4. c >= Partial /\ (c = Partial => id[saver[s].obj] \in overlapped)
  BY <1>2, <1>3 DEF StoreInv, Texts, Live
<1>5. Moves(s, "open", saver[s].docs, saver[s].obj, c)
  BY <1>1, <1>3, MovesWithContent DEF GetContent, Places, Busy
<1> QED
  BY <1>1, <1>2, <1>4, <1>5, SaverGoes
     DEF GetContent, StoreShape, docVars, managerVars, fileVars, historyVars, Busy, Snapping

LEMMA StepAfterSave ==
    ASSUME StoreInv, NEW s \in Savers, OpenFails(s) \/ MarkSaved(s)
    PROVE  StoreInv'
<1>1. /\ StoreShape /\ (\A f \in snapshots : f[3] <= f[2]) /\ SaverInv(s)
      /\ saver[s] \in SaverType
  BY DEF StoreInv, StoreShape, FilesHoldWholeTexts
<1>2. /\ saver[s].pc \in {"open", "mark"} /\ saver[s].obj \in Live
      /\ saver[s].docs \subseteq Live
  BY <1>1 DEF OpenFails, MarkSaved, At, SaverInv, Busy
<1>3. PICK pc \in {"snap", "loop"} : pc = AfterSave(s)
  BY DEF AfterSave
<1>4. Moves(s, pc, saver[s].docs, IF pc = "loop" THEN 0 ELSE saver[s].obj, 0)
  BY <1>1, <1>3, MovesTo DEF OpenFails, MarkSaved, Places, Snapping
<1>5. /\ dirty' \in [Objects -> BOOLEAN] /\ mutex' = mutex /\ snapshots' = snapshots
      /\ UNCHANGED <<id, text, base, documents, next_doc_id, rights, loading, path, tmp,
                     data, overlapped>>
  BY <1>1 DEF OpenFails, MarkSaved, StoreShape, docVars, managerVars, fileVars, historyVars
<1>6. PICK c \in Int : c = 0 /\ c >= Partial
  BY StoreConstants
<1>7. CASE pc = "snap"
  <2>1. Moves(s, "snap", saver[s].docs, saver[s].obj, c)
    BY <1>4, <1>6, <1>7
  <2> QED
    BY <1>1, <1>2, <1>5, <1>6, <2>1, SaverGoes DEF Busy, Snapping
<1>8. CASE pc = "loop"
  <2>1. Moves(s, "loop", saver[s].docs, 0, c)
    BY <1>4, <1>6, <1>8
  <2> QED
    BY <1>1, <1>2, <1>5, <1>6, <2>1, SaverGoes DEF Busy, Snapping
<1> QED
  BY <1>7, <1>8

LEMMA StepNextDocument == ASSUME StoreInv, NEW s \in Savers, NextDocument(s) PROVE StoreInv'
<1>1. /\ StoreShape /\ (\A f \in snapshots : f[3] <= f[2]) /\ SaverInv(s)
      /\ saver[s] \in SaverType
  BY DEF StoreInv, StoreShape, FilesHoldWholeTexts
<1>2. /\ saver[s].pc = "loop" /\ saver[s].docs \subseteq Live
      /\ saver[s].content >= Partial /\ saver[s].content \in Int
  BY <1>1, ZenonT(40) DEF NextDocument, At, SaverInv, SaverType
<1>3. /\ dirty' \in [Objects -> BOOLEAN] /\ mutex' = mutex /\ snapshots' = snapshots
      /\ UNCHANGED <<id, text, base, documents, next_doc_id, rights, loading, path, tmp, data>>
  BY <1>1 DEF NextDocument, StoreShape, docVars, managerVars, fileVars
<1>4. ASSUME NEW pc \in {"wait", "saved"}, Goto(s, pc), overlapped' = overlapped
      PROVE  StoreInv'
  <2>1. Moves(s, pc, saver[s].docs, saver[s].obj, saver[s].content)
    BY <1>1, <1>4, MovesTo DEF Places
  <2> QED
    BY <1>1, <1>2, <1>3, <1>4, <2>1, SaverGoes DEF Busy, Snapping
<1>5. ASSUME NEW o \in saver[s].docs, NEW skip \in BOOLEAN, NEW busy \in BOOLEAN,
             saver' = [saver EXCEPT ![s].docs = @ \ {o}, ![s].obj = IF skip THEN @ ELSE o,
                                    ![s].pc = IF skip THEN "loop" ELSE "content"],
             overlapped' = IF ~ skip /\ busy THEN overlapped \cup {id[o]} ELSE overlapped,
             \A t \in Savers \ {s} : saver[t].pc \in Busy /\ Number(t) = id[o] => busy
      PROVE  StoreInv'
  <2>1. o \in Live
    BY <1>2
  <2>2. PICK p \in Places : p = IF skip THEN "loop" ELSE "content"
    BY DEF Places, Busy
  <2>3. PICK q \in Objects \cup {0} : q = IF skip THEN saver[s].obj ELSE o
    BY <1>1, <2>1 DEF SaverType, Live
  <2>4. PICK docs \in SUBSET Nat : docs = saver[s].docs \ {o}
    BY <1>1 DEF SaverType
  <2> DEFINE r == [saver[s] EXCEPT !.docs = docs, !.obj = q, !.pc = p]
  <2>5. saver' = [saver EXCEPT ![s] = r]
    BY <1>1, <1>5, <2>2, <2>3, <2>4 DEF StoreShape, SaverType
  <2>6. r \in SaverType
    BY <1>1 DEF SaverType
  <2>7. /\ r.pc = p /\ r.docs = docs /\ r.obj = q
        /\ r.content = saver[s].content /\ r.fd = saver[s].fd
    BY <1>1 DEF SaverType
  <2> HIDE DEF r
  <2>8. p \in Busy \cup Snapping => q = o /\ ~ skip
    BY <2>2, <2>3 DEF Busy, Snapping
  <2>9. p \notin {"write", "rename", "open", "snapwrite", "removing"}
    BY <2>2
  <2>10. overlapped \subseteq overlapped'
    BY <1>5
  <2>11. \A t \in Savers \ {s} : r.pc \in Busy /\ saver[t].pc \in Busy
            /\ Number(t) = id[r.obj] => id[r.obj] \in overlapped'
    BY <1>5, <2>7, <2>8
  <2>12. \A f \in snapshots' : f[3] <= f[2]
    BY <1>1, <1>3
  <2>13. r.docs \subseteq Live /\ (r.pc \in Busy \cup Snapping => r.obj \in Live)
    BY <1>2, <2>1, <2>4, <2>7, <2>8
  <2> QED
    BY <1>2, <1>3, <2>5, <2>6, <2>7, <2>9, <2>10, <2>11, <2>12, <2>13, SaverMoves
<1>6. CASE saver[s].docs = {} /\ Goto(s, IF s = "autosave" THEN "wait" ELSE "saved")
              /\ overlapped' = overlapped
  BY <1>4, <1>6
<1>7. CASE \E o \in saver[s].docs :
            LET skip == s = "autosave" /\ ~ dirty[o]
                other == CHOOSE x \in Savers : x # s
                busy == /\ saver[other].pc \in {"content", "open", "write", "rename", "mark"}
                        /\ saver[other].obj # 0 /\ Number(other) = id[o]
            IN  /\ saver' = [saver EXCEPT ![s].docs = @ \ {o},
                                          ![s].obj = IF skip THEN @ ELSE o,
                                          ![s].pc = IF skip THEN "loop" ELSE "content"]
                /\ overlapped' = IF ~ skip /\ busy THEN overlapped \cup {id[o]} ELSE overlapped
  <2> DEFINE other == CHOOSE x \in Savers : x # s
             skip(o) == s = "autosave" /\ ~ dirty[o]
             busy(o) == /\ saver[other].pc \in {"content", "open", "write", "rename", "mark"}
                        /\ saver[other].obj # 0 /\ Number(other) = id[o]
  <2>1. PICK o \in saver[s].docs :
           /\ saver' = [saver EXCEPT ![s].docs = @ \ {o}, ![s].obj = IF skip(o) THEN @ ELSE o,
                                     ![s].pc = IF skip(o) THEN "loop" ELSE "content"]
           /\ overlapped' = IF ~ skip(o) /\ busy(o) THEN overlapped \cup {id[o]} ELSE overlapped
    BY <1>7
  <2>2. \A t \in Savers \ {s} : t = other
    <3>1. other \in Savers /\ other # s
      BY DEF Savers
    <3> QED
      BY <3>1 DEF Savers
  <2>3. \A t \in Savers \ {s} : saver[t].pc \in Busy /\ Number(t) = id[o] => busy(o)
    <3>1. \A t \in Savers : saver[t].pc \in Busy => saver[t].obj # 0
      BY StoreConstants DEF StoreInv, SaverInv, Live
    <3> QED
      BY <2>2, <3>1 DEF Busy
  <2>4. PICK k \in BOOLEAN : k = skip(o)
    OBVIOUS
  <2>5. PICK b \in BOOLEAN : b = busy(o)
    OBVIOUS
  <2> HIDE DEF other, skip, busy
  <2> QED
    BY <1>5, <2>1, <2>3, <2>4, <2>5
<1> QED
  BY <1>6, <1>7, ZenonT(40) DEF NextDocument

LEMMA StepSnapshot == ASSUME StoreInv, maybe_create_snapshot PROVE StoreInv'
<1> DEFINE s == "autosave"
<1>1. /\ StoreShape /\ (\A f \in snapshots : f[3] <= f[2]) /\ SaverInv(s)
      /\ saver[s] \in SaverType /\ s \in Savers
  BY DEF StoreInv, StoreShape, FilesHoldWholeTexts, Savers
<1>2. /\ saver[s].pc \in Snapping /\ saver[s].obj \in Live /\ saver[s].docs \subseteq Live
      /\ saver[s].content >= Partial /\ saver[s].content \in Int
  BY <1>1 DEF maybe_create_snapshot, CheckSnapshot, SnapshotContent, SnapshotWrite,
              SnapshotFails, SnapshotMark, At, SaverInv, SaverType, Snapping
<1>3. /\ dirty' \in [Objects -> BOOLEAN] /\ mutex' = mutex
      /\ UNCHANGED <<id, text, base, documents, next_doc_id, rights, loading, path, tmp, data,
                     overlapped>>
  BY <1>1 DEF maybe_create_snapshot, CheckSnapshot, SnapshotContent, SnapshotWrite,
              SnapshotFails, SnapshotMark, StoreShape, docVars, managerVars, fileVars, historyVars
<1>4. PICK z \in Int : z = 0 /\ z >= Partial
  BY StoreConstants
<1>5. ASSUME NEW pc \in {"snapcontent", "loop"}, GotoFresh(s, pc), snapshots' = snapshots
      PROVE  StoreInv'
  <2>1. PICK o : o = IF pc = "loop" THEN 0 ELSE saver[s].obj
    OBVIOUS
  <2>2. Moves(s, pc, saver[s].docs, o, z)
    BY <1>1, <1>4, <1>5, <2>1, MovesTo DEF Places, Snapping
  <2>3. pc \in Snapping => o \in Live
    BY <1>2, <2>1 DEF Snapping
  <2> QED
    BY <1>1, <1>2, <1>3, <1>4, <1>5, <2>2, <2>3, SaverGoes DEF Busy, Snapping
<1>6. CASE SnapshotContent
  <2>1. PICK c \in Int : c = text[saver[s].obj] /\ c >= Partial
    BY <1>1, <1>2 DEF StoreInv, StoreShape, Texts, Live
  <2>2. Moves(s, "snapwrite", saver[s].docs, saver[s].obj, c)
    BY <1>1, <1>6, <2>1, MovesWithContent DEF SnapshotContent, Places, Snapping
  <2>3. snapshots' = snapshots
    BY <1>6 DEF SnapshotContent, fileVars
  <2> QED
    BY <1>1, <1>2, <1>3, <2>1, <2>2, <2>3, SaverGoes DEF Busy, Snapping
<1>7. CASE SnapshotWrite
  <2>1. Moves(s, "snapmark", saver[s].docs, saver[s].obj, saver[s].content)
    BY <1>1, <1>7, MovesTo DEF SnapshotWrite, Places, Snapping
  <2>2. saver[s].content <= text[saver[s].obj]
    BY <1>1, <1>7 DEF SnapshotWrite, At, SaverInv
  <2>3. saver[s].content - base[saver[s].obj] <= revision(saver[s].obj)
    BY <1>1, <1>2, <2>2 DEF StoreShape, Live, revision
  <2>4. \A f \in snapshots' : f[3] <= f[2]
    BY <1>1, <1>7, <2>3 DEF SnapshotWrite
  <2> QED
    BY <1>1, <1>2, <1>3, <2>1, <2>4, SaverGoes DEF Busy, Snapping
<1>8. CASE CheckSnapshot \/ SnapshotFails \/ SnapshotMark
  BY <1>5, <1>8 DEF CheckSnapshot, SnapshotFails, SnapshotMark, fileVars
<1> QED
  BY <1>6, <1>7, <1>8 DEF maybe_create_snapshot

LEMMA StepRemove == ASSUME StoreInv, NEW d \in Ids, remove_session(d) PROVE StoreInv'
<1> DEFINE s == "shutdown"
<1>1. /\ StoreShape /\ (\A f \in snapshots : f[3] <= f[2]) /\ SaverInv(s)
      /\ saver[s] \in SaverType /\ s \in Savers
  BY DEF StoreInv, StoreShape, FilesHoldWholeTexts, Savers
<1>2. saver[s].pc = "removing" /\ saver[s].content >= Partial
  BY <1>1 DEF remove_session, At, SaverInv
<1>3. PICK docs \in SUBSET Nat : docs = saver[s].docs \ {d}
  BY <1>1 DEF SaverType
<1> DEFINE r == [saver[s] EXCEPT !.docs = docs]
<1>4. saver' = [saver EXCEPT ![s] = r]
  BY <1>1, <1>3 DEF remove_session, StoreShape, SaverType
<1>5. r \in SaverType
  BY <1>1 DEF SaverType
<1>6. /\ r.pc = "removing" /\ r.docs = docs /\ r.obj = saver[s].obj
      /\ r.content = saver[s].content /\ r.fd = saver[s].fd
  BY <1>1, <1>2 DEF SaverType
<1>7. Moves(s, "removing", docs, saver[s].obj, saver[s].content)
  BY <1>4, <1>5, <1>6 DEF Moves
<1>8. mutex'[1] = "delete" => mutex' = mutex
  BY DEF remove_session, Removed
<1>9. /\ dirty' \in [Objects -> BOOLEAN] /\ snapshots' = snapshots
      /\ UNCHANGED <<id, text, base, documents, next_doc_id, rights, loading, path, tmp, data,
                     overlapped>>
  BY <1>1 DEF remove_session, StoreShape, docVars, fileVars, historyVars
<1> QED
  BY <1>1, <1>2, <1>7, <1>8, <1>9, SaverGoes DEF Busy, Snapping

\* Steps that leave the texts, the files and the threads that save alone.
LEMMA ManagerSteps ==
    ASSUME StoreInv,
           documents' \in [Ids -> Objects \cup {0}],
           \A e \in Ids : documents'[e] \in {documents[e], 0},
           DOMAIN rights' = Ids,
           \A e \in Ids : rights'[e] # "none" => e < next_doc_id,
           \A l \in loading' : l \in loading \/
                /\ l[1] \in Ids /\ l[1] < next_doc_id /\ l[2] \in Int /\ l[2] >= Partial
                /\ l[2] = Partial => l[1] \in overlapped,
           mutex'[1] = "delete" => mutex'[2] \in Ids /\ documents'[mutex'[2]] = 0,
           UNCHANGED <<id, text, base, dirty, next_doc_id, path, tmp, data, snapshots, saver,
                       overlapped>>
    PROVE  StoreInv'
<1>1. StoreShape'
  BY DEF StoreInv, StoreShape, SaverType
<1>2. Numbers'
  BY DEF StoreInv, Numbers
<1>3. Texts'
  BY DEF StoreInv, Texts, Live
<1>4. Owned' /\ Exclusive'
  BY DEF StoreInv, Owned, Exclusive, Number
<1>5. \A s \in Savers : SaverInv(s)'
  BY DEF StoreInv, SaverInv, Number, Live
<1>6. FilesHoldWholeTexts'
  BY DEF StoreInv, FilesHoldWholeTexts, Exists, OnDisk
<1> QED
  BY <1>1, <1>2, <1>3, <1>4, <1>5, <1>6 DEF StoreInv

LEMMA StepManager ==
    ASSUME StoreInv, NEW d \in Ids,
           load_from_disk(d) \/ delete_document(d) \/ late_grant(d)
    PROVE  StoreInv'
<1>1. StoreShape /\ Numbers
  BY DEF StoreInv
<1>2. CASE load_from_disk(d)
  <2>1. /\ data[path[d]] \in Int /\ data[path[d]] >= Partial /\ d < next_doc_id
        /\ data[path[d]] = Partial => d \in overlapped
    BY <1>2 DEF load_from_disk, Exists, OnDisk, StoreInv, StoreShape, Numbers, Texts,
                FilesHoldWholeTexts
  <2>2. \A l \in loading' : l \in loading \/
                /\ l[1] \in Ids /\ l[1] < next_doc_id /\ l[2] \in Int /\ l[2] >= Partial
                /\ l[2] = Partial => l[1] \in overlapped
    BY <1>2, <2>1 DEF load_from_disk, OnDisk
  <2> QED
    BY <1>1, <1>2, <2>2, ManagerSteps
       DEF load_from_disk, StoreShape, Numbers, docVars, fileVars, historyVars
<1>3. CASE delete_document(d)
  <2>1. /\ documents' = [documents EXCEPT ![d] = 0] /\ mutex'[2] = d
        /\ UNCHANGED <<rights, loading>>
        /\ UNCHANGED <<id, text, base, dirty, next_doc_id, path, tmp, data, snapshots, saver,
                       overlapped>>
    BY <1>3 DEF delete_document, docVars, fileVars, historyVars
  <2>2. /\ documents' \in [Ids -> Objects \cup {0}] /\ documents'[d] = 0
        /\ \A e \in Ids : documents'[e] \in {documents[e], 0}
    BY <1>1, <2>1 DEF StoreShape
  <2> QED
    BY <1>1, <2>1, <2>2, ManagerSteps DEF StoreShape, Numbers
<1>4. CASE late_grant(d)
  <2>1. /\ DOMAIN rights' = Ids /\ \A e \in Ids : rights'[e] # "none" => e < next_doc_id
    BY <1>1, <1>4 DEF late_grant, StoreShape, Numbers
  <2> QED
    BY <1>1, <1>4, <2>1, ManagerSteps
       DEF late_grant, StoreShape, Numbers, docVars, fileVars, historyVars
<1> QED
  BY <1>2, <1>3, <1>4

\* Sessions, the queue, the signal and the end of the process.
LEMMA StepOutside ==
    ASSUME StoreInv,
           \/ \E d \in Ids : get_or_create_session(d) \/ get_session(d)
           \/ \E i \in Instances : enqueue_operation(i) \/ EndSession(i)
           \/ Shutdown \/ finish_remove \/ StopAutosave \/ ExitProcess \/ Restart
           \/ UNCHANGED vars
    PROVE  StoreInv'
<1>1. StoreShape /\ Numbers
  BY DEF StoreInv
<1>2. /\ UNCHANGED <<id, text, base, dirty, next_doc_id, path, tmp, data, snapshots, saver,
                     overlapped, documents, rights, loading>>
      /\ mutex' = mutex \/ mutex' = Unlocked
  BY DEF get_or_create_session, get_session, enqueue_operation, EndSession, Shutdown,
         finish_remove, StopAutosave, ExitProcess, Restart, vars, docVars, managerVars,
         fileVars, historyVars
<1> QED
  BY <1>1, <1>2, ManagerSteps DEF StoreShape, Numbers, Unlocked

\* What NewObject leaves of the objects that are there.
LEMMA NewObjectShape ==
    ASSUME StoreShape, ObjectsLeft, NEW d \in Ids, NEW t \in Int, NewObject(d, t)
    PROVE  \E o \in Objects :
              /\ id[o] = 0 /\ id'[o] = d /\ text'[o] = t /\ documents'[d] = o
              /\ \A p \in Objects \ {o} : id'[p] = id[p] /\ text'[p] = text[p]
              /\ \A e \in Ids \ {d} : documents'[e] = documents[e]
              /\ id' \in [Objects -> Ids \cup {0}] /\ text' \in [Objects -> Int]
              /\ base' \in [Objects -> Int] /\ documents' \in [Ids -> Objects \cup {0}]
              /\ dirty' = dirty
<1>1. PICK o \in Objects : o = FreeObject /\ id[o] = 0
  BY FreeObjectIsFree
<1>2. /\ id' = [id EXCEPT ![o] = d] /\ text' = [text EXCEPT ![o] = t]
      /\ base' = [base EXCEPT ![o] = t] /\ documents' = [documents EXCEPT ![d] = o]
      /\ dirty' = dirty
  BY <1>1 DEF NewObject
<1> QED
  BY <1>1, <1>2 DEF StoreShape

\* The inode of a new document is nobody else's.
LEMMA InodeOfNew ==
    ASSUME StoreInv, NEW d \in Ids, d = next_doc_id
    PROVE  \E n \in Inodes : /\ n = IF Exists(d) THEN path[d] ELSE FreshInode
                             /\ \A e \in Ids : n # tmp[e] /\ (n = path[e] => e = d)
                             /\ \A s \in Savers : n # saver[s].fd
<1>1. CASE Exists(d)
  <2>1. path[d] \in Inodes /\ path[d] # 0
    BY <1>1 DEF Exists, StoreInv, StoreShape
  <2>2. ASSUME NEW s \in Savers, saver[s].fd = path[d] PROVE FALSE
    <3>1. saver[s].fd # 0 /\ Number(s) = d
      BY <2>1, <2>2 DEF StoreInv, Owned
    <3>2. Number(s) < next_doc_id
      BY <3>1 DEF StoreInv, SaverInv, Number, Numbers, Live, Busy
    <3> QED
      BY <3>1, <3>2 DEF StoreInv, StoreShape
  <2> QED
    BY <1>1, <2>1, <2>2 DEF StoreInv, Owned
<1>2. CASE ~ Exists(d)
  <2>1. 0 \in UsedInodes
    BY <1>2 DEF Exists, UsedInodes
  <2>2. FreshInode \in Inodes /\ FreshInode \notin UsedInodes
    BY <2>1, InodesSuffice DEF StoreInv
  <2> QED
    BY <1>2, <2>2 DEF UsedInodes
<1> QED
  BY <1>1, <1>2

LEMMA StepCreate == ASSUME StoreInv, create_document PROVE StoreInv'
<1>1. PICK d \in Ids : d = next_doc_id
  BY DEF create_document
<1>2. PICK n \in Inodes : /\ n = IF Exists(d) THEN path[d] ELSE FreshInode
                          /\ \A e \in Ids : n # tmp[e] /\ (n = path[e] => e = d)
                          /\ \A s \in Savers : n # saver[s].fd
  BY <1>1, InodeOfNew
<1>3. /\ path' = [path EXCEPT ![d] = n] /\ data' = [data EXCEPT ![n] = 0]
      /\ next_doc_id' = d + 1 /\ overlapped' = overlapped \ {d}
      /\ rights' = [rights EXCEPT ![d] = "owner"] /\ mutex = Unlocked
      /\ NewObject(d, 0) /\ ObjectsLeft
      /\ UNCHANGED <<mutex, loading, tmp, snapshots, saver>>
  BY <1>1, <1>2 DEF create_document
<1>4. PICK o \in Objects :
         /\ id[o] = 0 /\ id'[o] = d /\ text'[o] = 0 /\ documents'[d] = o
         /\ \A p \in Objects \ {o} : id'[p] = id[p] /\ text'[p] = text[p]
         /\ \A e \in Ids \ {d} : documents'[e] = documents[e]
         /\ id' \in [Objects -> Ids \cup {0}] /\ text' \in [Objects -> Int]
         /\ base' \in [Objects -> Int] /\ documents' \in [Ids -> Objects \cup {0}]
         /\ dirty' = dirty
  BY <1>3, NewObjectShape DEF StoreInv
<1>5. /\ path'[d] = n /\ \A e \in Ids \ {d} : path'[e] = path[e]
      /\ data'[n] = 0 /\ \A m \in Inodes \ {n} : data'[m] = data[m]
      /\ path' \in [Ids -> Inodes \cup {0}] /\ data' \in [Inodes -> Int]
      /\ d \in Nat /\ n # 0
  BY <1>3, StoreConstants DEF StoreInv, StoreShape
<1>6. StoreShape'
  BY <1>1, <1>3, <1>4, <1>5 DEF StoreInv, StoreShape, SaverType
<1>7. \A p \in Live : p # o /\ id[p] # d /\ id'[p] = id[p] /\ text'[p] = text[p] /\ p \in Live'
  BY <1>1, <1>4 DEF StoreInv, StoreShape, Numbers, Live
<1>8. d < next_doc_id' /\ \A x \in Nat : x < next_doc_id => x < next_doc_id' /\ x # d
  BY <1>1, <1>3, <1>5
<1>9. Numbers'
  <2>1. ASSUME NEW p \in Objects PROVE id'[p] < next_doc_id'
    <3>1. id[p] \in Ids \cup {0} /\ id[p] < next_doc_id
      BY DEF StoreInv, StoreShape, Numbers
    <3>2. id[p] \in Nat
      <4>1. \A x \in Ids \cup {0} : x \in Nat
        BY StoreConstants
      <4> QED
        BY <3>1, <4>1
    <3> QED
      BY <1>4, <1>8, <3>1, <3>2
  <2>2. ASSUME NEW e \in Ids, documents'[e] # 0 PROVE id'[documents'[e]] = e
    <3>1. CASE e = d
      BY <1>4, <3>1
    <3>2. CASE e # d
      <4>1. /\ documents'[e] = documents[e] /\ documents[e] \in Objects
            /\ id[documents[e]] = e
        BY <1>4, <2>2, <3>2 DEF StoreInv, StoreShape, Numbers
      <4>2. documents[e] # o
        BY <1>4, <4>1, StoreConstants
      <4> QED
        BY <1>4, <4>1, <4>2
    <3> QED
      BY <3>1, <3>2
  <2>3. ASSUME NEW e \in Ids, rights'[e] # "none" PROVE e < next_doc_id'
    <3>1. e \in Nat /\ (e # d => e < next_doc_id)
      BY <1>3, <2>3, StoreConstants DEF StoreInv, StoreShape, Numbers
    <3> QED
      BY <1>8, <3>1
  <2>4. ASSUME NEW e \in Ids, e < next_doc_id' PROVE \E p \in Objects : id'[p] = e
    <3>1. CASE e = d
      BY <1>4, <3>1
    <3>2. CASE e # d
      <4>1. e < next_doc_id
        BY <1>1, <1>3, <1>5, <2>4, <3>2, StoreConstants
      <4> QED
        BY <1>4, <4>1, StoreConstants DEF StoreInv, Numbers
    <3> QED
      BY <3>1, <3>2
  <2>5. mutex'[1] # "delete"
    BY <1>3 DEF Unlocked
  <2> QED
    BY <2>1, <2>2, <2>3, <2>4, <2>5 DEF Numbers
<1>10. Texts'
  <2>1. \A p \in Objects : text'[p] >= Partial
    BY <1>4, StoreConstants DEF StoreInv, Texts
  <2>2. \A p \in Live' : text'[p] = Partial => id'[p] \in overlapped'
    BY <1>3, <1>4, <1>7, StoreConstants DEF StoreInv, Texts, Live
  <2>3. \A m \in Inodes : data'[m] >= Partial
    BY <1>5, StoreConstants DEF StoreInv, Texts
  <2>4. \A l \in loading' : /\ l[1] \in Ids /\ l[1] < next_doc_id'
                            /\ l[2] \in Int /\ l[2] >= Partial
                            /\ l[2] = Partial => l[1] \in overlapped'
    <3>1. \A l \in loading : l[1] \in Nat /\ l[1] < next_doc_id
      BY StoreConstants DEF StoreInv, Texts
    <3> QED
      BY <1>3, <1>8, <3>1 DEF StoreInv, Texts
  <2> QED
    BY <2>1, <2>2, <2>3, <2>4 DEF Texts
<1>11. \A s \in Savers : saver[s].pc \in Busy \cup Snapping =>
          Number(s)' = Number(s) /\ Number(s) # d /\ Number(s) \in Ids
  BY <1>3, <1>7 DEF StoreInv, StoreShape, SaverInv, Number, Live
<1>12. Owned'
  BY <1>2, <1>3, <1>5, <1>11 DEF StoreInv, Owned, SaverInv, Busy
<1>13. ASSUME NEW s \in Savers PROVE SaverInv(s)'
  <2>1. SaverInv(s)
    BY DEF StoreInv
  <2>2. \A x : x # d => (x \in overlapped' <=> x \in overlapped)
    BY <1>3
  <2>3. saver[s].pc \in Busy => data'[tmp[Number(s)]] = data[tmp[Number(s)]] \/ tmp[Number(s)] = 0
    BY <1>2, <1>5, <1>11, ZenonT(40) DEF StoreInv, StoreShape
  <2>4. saver[s].pc = "write" => saver[s].fd # 0
    BY <2>1 DEF SaverInv
  <2> QED
    BY <1>3, <1>7, <1>11, <2>1, <2>2, <2>3, <2>4 DEF SaverInv, Busy, Snapping
<1>14. Exclusive'
  BY <1>3, <1>11 DEF StoreInv, Exclusive
<1>15. FilesHoldWholeTexts'
  BY <1>2, <1>3, <1>5, StoreConstants DEF StoreInv, StoreShape, FilesHoldWholeTexts, Exists, OnDisk
<1> QED
  BY <1>6, <1>9, <1>10, <1>12, <1>13, <1>14, <1>15 DEF StoreInv

LEMMA StepGetDocument == ASSUME StoreInv, NEW d \in Ids, get_document(d) PROVE StoreInv'
<1>1. PICK l \in loading :
         /\ l[1] = d /\ loading' = loading \ {l}
         /\ IF documents[d] = 0 THEN NewObject(d, l[2]) ELSE UNCHANGED <<docVars, documents>>
         /\ next_doc_id' = IF documents[d] = 0 /\ d >= next_doc_id THEN d + 1 ELSE next_doc_id
  BY DEF get_document
<1>2. PICK t \in Int : t = l[2] /\ t >= Partial /\ (t = Partial => d \in overlapped)
  BY <1>1 DEF StoreInv, Texts
<1>3. d < next_doc_id /\ d \in Nat /\ next_doc_id \in Nat
  BY <1>1, StoreConstants DEF StoreInv, StoreShape, Texts
<1>4. next_doc_id' = next_doc_id
  BY <1>1, <1>3
<1>5. /\ mutex = Unlocked /\ ObjectsLeft
      /\ UNCHANGED <<rights, mutex, path, tmp, data, snapshots, saver, overlapped>>
  BY DEF get_document, fileVars, historyVars
<1>6. CASE documents[d] # 0
  BY <1>1, <1>4, <1>5, <1>6, ManagerSteps DEF StoreInv, StoreShape, Numbers, Unlocked, docVars
<1>7. CASE documents[d] = 0
  <2>1. PICK o \in Objects :
           /\ id[o] = 0 /\ id'[o] = d /\ text'[o] = t /\ documents'[d] = o
           /\ \A p \in Objects \ {o} : id'[p] = id[p] /\ text'[p] = text[p]
           /\ \A e \in Ids \ {d} : documents'[e] = documents[e]
           /\ id' \in [Objects -> Ids \cup {0}] /\ text' \in [Objects -> Int]
           /\ base' \in [Objects -> Int] /\ documents' \in [Ids -> Objects \cup {0}]
           /\ dirty' = dirty
    BY <1>1, <1>2, <1>5, <1>7, NewObjectShape DEF StoreInv
  <2>2. \A p \in Live : p # o /\ id'[p] = id[p] /\ text'[p] = text[p] /\ p \in Live'
    BY <2>1 DEF StoreInv, StoreShape, Numbers, Live
  <2>3. StoreShape'
    BY <1>4, <1>5, <2>1 DEF StoreInv, StoreShape, SaverType
  <2>4. Numbers'
    <3>1. \A p \in Objects : id'[p] < next_doc_id'
      BY <1>3, <1>4, <2>1 DEF StoreInv, Numbers
    <3>2. ASSUME NEW e \in Ids, documents'[e] # 0 PROVE id'[documents'[e]] = e
      <4>1. CASE e = d
        BY <2>1, <4>1
      <4>2. CASE e # d
        <5>1. documents'[e] = documents[e] /\ documents[e] \in Objects
          BY <2>1, <3>2, <4>2 DEF StoreInv, StoreShape
        <5>2. id[documents[e]] = e /\ e # 0
          BY <3>2, <5>1, StoreConstants DEF StoreInv, Numbers
        <5> QED
          BY <2>1, <5>1, <5>2
      <4> QED
        BY <4>1, <4>2
    <3>3. \A e \in Ids : e < next_doc_id' => \E p \in Objects : id'[p] = e
      BY <1>4, <2>1, StoreConstants DEF StoreInv, Numbers
    <3> QED
      BY <1>4, <1>5, <3>1, <3>2, <3>3 DEF StoreInv, Numbers, Unlocked
  <2>5. Texts'
    <3>1. \A p \in Objects : text'[p] >= Partial
      BY <1>2, <2>1 DEF StoreInv, Texts
    <3>2. \A p \in Live' : text'[p] = Partial => id'[p] \in overlapped'
      BY <1>2, <1>5, <2>1 DEF StoreInv, Texts, Live
    <3> QED
      BY <1>1, <1>4, <1>5, <3>1, <3>2 DEF StoreInv, Texts
  <2>6. \A s \in Savers : saver[s].pc \in Busy \cup Snapping => Number(s)' = Number(s)
    BY <1>5, <2>2 DEF StoreInv, SaverInv, Number
  <2>7. Owned' /\ Exclusive'
    BY <1>5, <2>6 DEF StoreInv, Owned, Exclusive, SaverInv, Busy
  <2>8. \A s \in Savers : SaverInv(s)'
    BY <1>5, <2>2, <2>6 DEF StoreInv, SaverInv, Busy, Snapping
  <2>9. FilesHoldWholeTexts'
    BY <1>5 DEF StoreInv, FilesHoldWholeTexts, Exists, OnDisk
  <2> QED
    BY <2>3, <2>4, <2>5, <2>7, <2>8, <2>9 DEF StoreInv
<1> QED
  BY <1>6, <1>7

LEMMA StepCommit == ASSUME StoreInv, NEW i \in Instances, CommitOperation(i) PROVE StoreInv'
<1>1. PICK o : /\ text' = [text EXCEPT ![o] = @ + 1] /\ dirty' = [dirty EXCEPT ![o] = TRUE]
  BY DEF CommitOperation
<1>2. UNCHANGED <<id, base, documents, next_doc_id, rights, mutex, loading, path, tmp, data,
                  snapshots, saver, overlapped>>
  BY DEF CommitOperation, managerVars, fileVars
<1>3. /\ text' \in [Objects -> Int] /\ dirty' \in [Objects -> BOOLEAN]
      /\ \A p \in Objects : text'[p] \in {text[p], text[p] + 1} /\ text[p] \in Int
  <2>1. text \in [Objects -> Int] /\ dirty \in [Objects -> BOOLEAN]
    BY DEF StoreInv, StoreShape
  <2>2. dirty' \in [Objects -> BOOLEAN]
    BY <1>1, <2>1
  <2>3. text' \in [Objects -> Int]
    <3>1. CASE o \in Objects
      BY <1>1, <2>1, <3>1
    <3>2. CASE o \notin Objects
      BY <1>1, <2>1, <3>2
    <3> QED
      BY <3>1, <3>2
  <2>4. \A p \in Objects : text'[p] \in {text[p], text[p] + 1} /\ text[p] \in Int
    BY <1>1, <2>1
  <2> QED
    BY <2>2, <2>3, <2>4
<1>4. StoreShape'
  BY <1>2, <1>3 DEF StoreInv, StoreShape, SaverType
<1>5. Numbers' /\ Owned' /\ Exclusive'
  BY <1>2 DEF StoreInv, Numbers, Owned, Exclusive, Number
<1>6. \A p \in Objects : text'[p] >= text[p] /\ text'[p] >= Partial
                         /\ (text'[p] = Partial => text[p] = Partial)
  BY <1>3, StoreConstants DEF StoreInv, Texts
<1>7. Texts'
  BY <1>2, <1>6 DEF StoreInv, Texts, Live
<1>8. ASSUME NEW s \in Savers PROVE SaverInv(s)'
  <2>1. SaverInv(s) /\ saver[s] \in SaverType
    BY DEF StoreInv, StoreShape
  <2>2. saver[s].pc = "snapwrite" => saver[s].content <= text'[saver[s].obj]
    BY <1>3, <1>6, <2>1 DEF SaverInv, SaverType, Snapping, Live
  <2> QED
    BY <1>2, <2>1, <2>2 DEF SaverInv, Number, Live
<1>9. FilesHoldWholeTexts'
  BY <1>2 DEF StoreInv, FilesHoldWholeTexts, Exists, OnDisk
<1> QED
  BY <1>4, <1>5, <1>7, <1>8, <1>9 DEF StoreInv

LEMMA StepOpenTmp == ASSUME StoreInv, NEW s \in Savers, OpenTmp(s) PROVE StoreInv'
<1>1. /\ StoreShape /\ SaverInv(s) /\ saver[s] \in SaverType /\ saver[s].pc = "open"
  BY DEF StoreInv, StoreShape, OpenTmp, At
<1>2. PICK d \in Ids : d = Number(s)
  BY <1>1 DEF StoreShape, SaverInv, Number, Live, Busy
<1>3. PICK n \in Inodes :
         /\ n = IF tmp[d] # 0 THEN tmp[d] ELSE FreshInode
         /\ \A e \in Ids : n # path[e] /\ (n = tmp[e] => e = d)
         /\ \A t \in Savers : n = saver[t].fd => Number(t) = d
  <2>1. CASE tmp[d] # 0
    <3>1. tmp[d] \in Inodes
      BY <1>1, <2>1 DEF StoreShape
    <3>2. \A e \in Ids : tmp[d] # path[e] /\ (tmp[d] = tmp[e] => e = d)
      BY <2>1 DEF StoreInv, Owned
    <3>3. \A t \in Savers : tmp[d] = saver[t].fd => Number(t) = d
      BY <2>1 DEF StoreInv, Owned
    <3> QED
      BY <2>1, <3>1, <3>2, <3>3
  <2>2. CASE tmp[d] = 0
    <3>1. 0 \in UsedInodes
      BY <2>2 DEF UsedInodes
    <3>2. FreshInode \in Inodes /\ FreshInode \notin UsedInodes
      BY <1>1, <3>1, InodesSuffice
    <3> QED
      BY <2>2, <3>2 DEF UsedInodes
  <2> QED
    BY <2>1, <2>2
<1>4. /\ saver' = [saver EXCEPT ![s].pc = "write", ![s].fd = n]
      /\ tmp' = [tmp EXCEPT ![d] = n] /\ data' = [data EXCEPT ![n] = Partial]
      /\ UNCHANGED <<id, text, base, dirty, documents, next_doc_id, rights, mutex, loading, path,
                     snapshots, overlapped>>
  BY <1>2, <1>3 DEF OpenTmp, docVars, managerVars, historyVars
<1> DEFINE r == [saver[s] EXCEPT !.pc = "write", !.fd = n]
<1>5. r \in SaverType
  BY <1>1 DEF SaverType, Places, Busy
<1>6. /\ saver'[s].pc = "write" /\ saver'[s].fd = n /\ saver'[s].obj = saver[s].obj
      /\ saver'[s].docs = saver[s].docs /\ saver'[s].content = saver[s].content
      /\ \A t \in Savers \ {s} : saver'[t] = saver[t]
      /\ saver' \in [Savers -> SaverType]
  <2>1. saver' = [saver EXCEPT ![s] = r]
    BY <1>1, <1>4 DEF StoreShape
  <2>2. /\ r.pc = "write" /\ r.fd = n /\ r.obj = saver[s].obj
        /\ r.docs = saver[s].docs /\ r.content = saver[s].content
    BY <1>1 DEF SaverType
  <2> HIDE DEF r
  <2> QED
    BY <1>1, <1>5, <2>1, <2>2 DEF StoreShape
<1>7. /\ tmp'[d] = n /\ \A e \in Ids \ {d} : tmp'[e] = tmp[e]
      /\ data'[n] = Partial /\ \A m \in Inodes \ {n} : data'[m] = data[m]
      /\ tmp' \in [Ids -> Inodes \cup {0}] /\ data' \in [Inodes -> Int] /\ n # 0
  BY <1>1, <1>4, StoreConstants DEF StoreShape
<1>8. \A t \in Savers : Number(t)' = Number(t)
  BY <1>4, <1>6 DEF Number
<1>9. StoreShape'
  BY <1>1, <1>4, <1>6, <1>7 DEF StoreShape
<1>10. Numbers'
  BY <1>4 DEF StoreInv, Numbers
<1>11. Texts'
  BY <1>4, <1>7, StoreConstants DEF StoreInv, Texts, Live
<1>12. Owned'
  <2>1. /\ \A x, e \in Ids : path'[x] # 0 => path'[x] # tmp'[e] /\ (path'[x] = path'[e] => x = e)
        /\ \A x, e \in Ids : tmp'[x] # 0 /\ tmp'[x] = tmp'[e] => x = e
    BY <1>3, <1>4, <1>7 DEF StoreInv, Owned
  <2>2. \A t \in Savers, e \in Ids :
           saver'[t].fd # 0 /\ saver'[t].fd \in {path'[e], tmp'[e]} => Number(t)' = e
    BY <1>2, <1>3, <1>4, <1>6, <1>7, <1>8 DEF StoreInv, Owned
  <2> QED
    BY <2>1, <2>2 DEF Owned
<1>13. ASSUME NEW t \in Savers, t # s, saver[t].pc \in Busy, Number(t) \notin overlapped
       PROVE  Number(t) \in Ids \ {d}
  <2>1. Number(t) # d
    BY <1>1, <1>2, <1>13 DEF StoreInv, Exclusive, Busy
  <2>2. Number(t) \in Ids
    BY <1>1, <1>13 DEF StoreInv, StoreShape, SaverInv, Number, Live
  <2> QED
    BY <2>1, <2>2
<1>14. ASSUME NEW t \in Savers PROVE SaverInv(t)'
  <2>1. CASE t = s
    BY <1>1, <1>2, <1>4, <1>6, <1>7, <1>8, <2>1 DEF SaverInv, Busy, Snapping, Live
  <2>2. CASE t # s
    <3>1. SaverInv(t) /\ saver'[t] = saver[t]
      BY <1>6, <2>2 DEF StoreInv
    <3>2. saver[t].pc \in Busy /\ Number(t) \notin overlapped =>
             /\ tmp'[Number(t)] = tmp[Number(t)]
             /\ tmp[Number(t)] # 0 => data'[tmp[Number(t)]] = data[tmp[Number(t)]]
      BY <1>1, <1>3, <1>7, <1>13, <2>2 DEF StoreShape
    <3> QED
      BY <1>4, <1>8, <3>1, <3>2 DEF SaverInv, Busy, Snapping, Live
  <2> QED
    BY <2>1, <2>2
<1>15. Exclusive'
  BY <1>1, <1>4, <1>6, <1>8 DEF StoreInv, Exclusive, Busy
<1>16. FilesHoldWholeTexts'
  BY <1>1, <1>3, <1>4, <1>7 DEF StoreInv, StoreShape, FilesHoldWholeTexts, Exists, OnDisk
<1> QED
  BY <1>9, <1>10, <1>11, <1>12, <1>14, <1>15, <1>16 DEF StoreInv

LEMMA StepWriteTmp == ASSUME StoreInv, NEW s \in Savers, WriteTmp(s) PROVE StoreInv'
<1>1. /\ StoreShape /\ SaverInv(s) /\ saver[s] \in SaverType /\ saver[s].pc = "write"
  BY DEF StoreInv, StoreShape, WriteTmp, At
<1>2. PICK d \in Ids : d = Number(s)
  BY <1>1 DEF StoreShape, SaverInv, Number, Live, Busy
<1>3. PICK n \in Inodes : n = saver[s].fd
  BY <1>1 DEF SaverInv, SaverType
<1>4. PICK x \in {saver[s].content, Partial} :
         /\ data[n] = Partial => x = saver[s].content
         /\ data' = [data EXCEPT ![n] = x]
  BY <1>3 DEF WriteTmp
<1>5. /\ saver' = [saver EXCEPT ![s].pc = "rename", ![s].fd = 0]
      /\ UNCHANGED <<id, text, base, dirty, documents, next_doc_id, rights, mutex, loading, path,
                     tmp, snapshots, overlapped>>
  BY DEF WriteTmp, docVars, managerVars, historyVars
<1> DEFINE r == [saver[s] EXCEPT !.pc = "rename", !.fd = 0]
<1>6. /\ saver'[s].pc = "rename" /\ saver'[s].fd = 0 /\ saver'[s].obj = saver[s].obj
      /\ saver'[s].docs = saver[s].docs /\ saver'[s].content = saver[s].content
      /\ \A t \in Savers \ {s} : saver'[t] = saver[t]
      /\ saver' \in [Savers -> SaverType]
  <2>1. saver' = [saver EXCEPT ![s] = r]
    BY <1>1, <1>5 DEF StoreShape
  <2>2. r \in SaverType
    BY <1>1 DEF SaverType, Places, Busy
  <2>3. /\ r.pc = "rename" /\ r.fd = 0 /\ r.obj = saver[s].obj
        /\ r.docs = saver[s].docs /\ r.content = saver[s].content
    BY <1>1 DEF SaverType
  <2> HIDE DEF r
  <2> QED
    BY <1>1, <2>1, <2>2, <2>3 DEF StoreShape
<1>7. /\ x \in Int /\ x >= Partial /\ data'[n] = x /\ \A m \in Inodes \ {n} : data'[m] = data[m]
      /\ data' \in [Inodes -> Int] /\ n # 0
  BY <1>1, <1>4, StoreConstants DEF StoreShape, SaverInv, SaverType
<1>8. \A t \in Savers : Number(t)' = Number(t)
  BY <1>5, <1>6 DEF Number
<1>9. \A e \in Ids : n \in {path[e], tmp[e]} => e = d
  BY <1>2, <1>3, <1>7 DEF StoreInv, Owned
<1>10. StoreShape'
  BY <1>1, <1>5, <1>6, <1>7 DEF StoreShape
<1>11. Numbers'
  BY <1>5 DEF StoreInv, Numbers
<1>12. Texts'
  BY <1>5, <1>7 DEF StoreInv, Texts, Live
<1>13. Owned'
  BY <1>5, <1>6, <1>8 DEF StoreInv, Owned
<1>14. ASSUME NEW t \in Savers, t # s, saver[t].pc \in Busy, Number(t) \notin overlapped
       PROVE  Number(t) \in Ids \ {d}
  <2>1. Number(t) # d
    BY <1>1, <1>2, <1>14 DEF StoreInv, Exclusive, Busy
  <2>2. Number(t) \in Ids
    BY <1>1, <1>14 DEF StoreInv, StoreShape, SaverInv, Number, Live
  <2> QED
    BY <2>1, <2>2
<1>15. d \notin overlapped => n = tmp[d] /\ x = saver[s].content
  BY <1>1, <1>2, <1>3, <1>4 DEF SaverInv, Busy
<1>16. ASSUME NEW t \in Savers PROVE SaverInv(t)'
  <2>1. CASE t = s
    BY <1>1, <1>2, <1>5, <1>6, <1>7, <1>8, <1>15, <2>1 DEF SaverInv, Busy, Snapping, Live
  <2>2. CASE t # s
    <3>1. SaverInv(t) /\ saver'[t] = saver[t]
      BY <1>6, <2>2 DEF StoreInv
    <3>2. saver[t].pc \in Busy /\ Number(t) \notin overlapped /\ tmp[Number(t)] # 0 =>
             data'[tmp[Number(t)]] = data[tmp[Number(t)]]
      BY <1>1, <1>7, <1>9, <1>14, <2>2 DEF StoreShape
    <3> QED
      BY <1>5, <1>8, <3>1, <3>2 DEF SaverInv, Busy, Snapping, Live
  <2> QED
    BY <2>1, <2>2
<1>17. Exclusive'
  BY <1>1, <1>5, <1>6, <1>8 DEF StoreInv, Exclusive, Busy
<1>18. FilesHoldWholeTexts'
  <2>1. ASSUME NEW e \in Ids, path[e] # 0, data'[path[e]] = Partial PROVE e \in overlapped
    <3>1. CASE path[e] = n
      <4>1. e = d /\ path[d] # tmp[d]
        BY <1>7, <1>9, <2>1, <3>1 DEF StoreInv, Owned
      <4> QED
        BY <1>15, <3>1, <4>1
    <3>2. CASE path[e] # n
      BY <1>1, <1>7, <2>1, <3>2 DEF StoreInv, StoreShape, FilesHoldWholeTexts, Exists, OnDisk
    <3> QED
      BY <3>1, <3>2
  <2> QED
    BY <1>5, <2>1 DEF StoreInv, FilesHoldWholeTexts, Exists, OnDisk
<1> QED
  BY <1>10, <1>11, <1>12, <1>13, <1>16, <1>17, <1>18 DEF StoreInv

\* What is left of the contents when the name d no longer stands for its inode.
LEMMA UnlinkedShape ==
    ASSUME StoreInv, NEW d \in Ids
    PROVE  /\ Unlinked(d) \in [Inodes -> Int]
           /\ \A m \in Inodes : m # path[d] => Unlinked(d)[m] = data[m]
           /\ \A m \in Inodes : Unlinked(d)[m] >= Partial
<1>1. data \in [Inodes -> Int] /\ \A m \in Inodes : data[m] >= Partial
  BY DEF StoreInv, StoreShape, Texts
<1>2. CASE Exists(d) /\ \A s \in Savers : saver[s].fd # path[d]
  <2>1. Unlinked(d) = [data EXCEPT ![path[d]] = 0]
    BY <1>2 DEF Unlinked
  <2>2. path[d] \in Inodes
    BY <1>2 DEF Exists, StoreInv, StoreShape
  <2> QED
    BY <1>1, <2>1, <2>2, StoreConstants
<1>3. CASE ~ (Exists(d) /\ \A s \in Savers : saver[s].fd # path[d])
  BY <1>1, <1>3 DEF Unlinked
<1> QED
  BY <1>2, <1>3

LEMMA StepFinishDelete == ASSUME StoreInv, finish_delete PROVE StoreInv'
<1>1. PICK d \in Ids : d = mutex[2] /\ documents[d] = 0
  BY DEF finish_delete, StoreInv, Numbers
<1>2. /\ rights' = [rights EXCEPT ![d] = "none"] /\ path' = [path EXCEPT ![d] = 0]
      /\ data' = Unlinked(d) /\ mutex' = Unlocked
      /\ UNCHANGED <<id, text, base, dirty, documents, next_doc_id, loading, tmp, snapshots, saver,
                     overlapped>>
  BY <1>1 DEF finish_delete, docVars, historyVars
<1>3. StoreShape
  BY DEF StoreInv
<1>4. /\ data' \in [Inodes -> Int] /\ \A m \in Inodes : m # path[d] => data'[m] = data[m]
      /\ \A m \in Inodes : data'[m] >= Partial
      /\ path'[d] = 0 /\ \A e \in Ids \ {d} : path'[e] = path[e]
      /\ path' \in [Ids -> Inodes \cup {0}]
  BY <1>2, <1>3, UnlinkedShape DEF StoreShape
<1>5. StoreShape'
  BY <1>2, <1>3, <1>4 DEF StoreShape, SaverType
<1>6. Numbers'
  BY <1>2, <1>3 DEF StoreInv, StoreShape, Numbers, Unlocked
<1>7. Texts'
  BY <1>2, <1>4 DEF StoreInv, Texts, Live
<1>8. Owned' /\ Exclusive'
  BY <1>2, <1>4 DEF StoreInv, Owned, Exclusive, Number
<1>9. ASSUME NEW t \in Savers PROVE SaverInv(t)'
  <2>1. SaverInv(t)
    BY DEF StoreInv
  <2>2. \A e \in Ids : tmp[e] # 0 => data'[tmp[e]] = data[tmp[e]]
    BY <1>3, <1>4 DEF StoreInv, StoreShape, Owned
  <2>3. saver[t].pc \in Busy => Number(t) \in Ids
    BY <1>3, <2>1 DEF StoreShape, SaverInv, Number, Live
  <2> QED
    BY <1>2, <2>1, <2>2, <2>3 DEF SaverInv, Number, Live
<1>10. FilesHoldWholeTexts'
  <2>1. ASSUME NEW e \in Ids, path'[e] # 0, data'[path'[e]] = Partial PROVE e \in overlapped
    <3>1. e # d /\ path'[e] = path[e] /\ path[e] # path[d] /\ path[e] \in Inodes
      BY <1>3, <1>4, <2>1 DEF StoreInv, StoreShape, Owned
    <3> QED
      BY <1>4, <2>1, <3>1 DEF StoreInv, FilesHoldWholeTexts, Exists, OnDisk
  <2> QED
    BY <1>2, <2>1 DEF StoreInv, FilesHoldWholeTexts, Exists, OnDisk
<1> QED
  BY <1>5, <1>6, <1>7, <1>8, <1>9, <1>10 DEF StoreInv

LEMMA StepDies == ASSUME StoreInv, Dies PROVE StoreInv'
<1>1. /\ \A o \in Objects : id'[o] = 0 /\ text'[o] = 0 /\ base'[o] = 0
      /\ \A d \in Ids : documents'[d] = 0 /\ rights'[d] = "none"
      /\ \A s \in Savers : saver'[s] = IdleSaver
      /\ loading' = {} /\ mutex' = <<"free", 0, 0>> /\ next_doc_id' = 1
      /\ UNCHANGED <<path, tmp, data, snapshots, overlapped>>
  BY DEF Dies, Fresh, Unlocked, fileVars
<1>2. StoreShape'
  <2>1. IdleSaver \in SaverType
    BY DEF IdleSaver, SaverType, Places
  <2> QED
    BY <1>1, <2>1 DEF StoreInv, StoreShape, Dies, Fresh
<1>3. Numbers'
  <2>1. \A o \in Objects : id'[o] < next_doc_id'
    BY <1>1
  <2>2. \A d \in Ids : ~ d < next_doc_id'
    BY <1>1, StorageAssumption
  <2>3. mutex'[1] # "delete"
    BY <1>1
  <2> QED
    BY <1>1, <2>1, <2>2, <2>3 DEF Numbers
<1>4. Texts'
  BY <1>1, StoreConstants DEF StoreInv, Texts, Live
<1>5. Owned' /\ Exclusive'
  BY <1>1 DEF StoreInv, Owned, Exclusive, IdleSaver, Busy
<1>6. ASSUME NEW s \in Savers PROVE SaverInv(s)'
  BY <1>1, StoreConstants DEF SaverInv, IdleSaver, Busy, Snapping
<1>7. FilesHoldWholeTexts'
  BY <1>1 DEF StoreInv, FilesHoldWholeTexts, Exists, OnDisk
<1> QED
  BY <1>2, <1>3, <1>4, <1>5, <1>6, <1>7 DEF StoreInv

LEMMA StepRenameTmp == ASSUME StoreInv, NEW s \in Savers, RenameTmp(s) PROVE StoreInv'
<1>1. /\ StoreShape /\ SaverInv(s) /\ saver[s] \in SaverType /\ saver[s].pc = "rename"
  BY DEF StoreInv, StoreShape, RenameTmp, At
<1>2. PICK d \in Ids : d = Number(s) /\ tmp[d] # 0
  BY <1>1 DEF StoreShape, SaverInv, Number, Live, Busy, RenameTmp
<1>3. PICK n \in Inodes : n = tmp[d]
  BY <1>1, <1>2 DEF StoreShape
<1>4. /\ path' = [path EXCEPT ![d] = n] /\ tmp' = [tmp EXCEPT ![d] = 0]
      /\ data' = Unlinked(d) /\ Goto(s, "mark")
      /\ UNCHANGED <<id, text, base, dirty, documents, next_doc_id, rights, mutex, loading,
                     snapshots, overlapped>>
  BY <1>2, <1>3 DEF RenameTmp, docVars, managerVars
<1>5. PICK r \in SaverType :
         /\ saver' = [saver EXCEPT ![s] = r] /\ r.pc = "mark" /\ r.docs = saver[s].docs
         /\ r.obj = saver[s].obj /\ r.content = saver[s].content /\ r.fd = saver[s].fd
  BY <1>1, <1>4, MovesTo DEF Moves, Places, Busy
<1>6. /\ saver'[s] = r /\ \A t \in Savers \ {s} : saver'[t] = saver[t]
      /\ saver' \in [Savers -> SaverType] /\ r.fd = 0
  BY <1>1, <1>5 DEF StoreShape, SaverInv
<1>7. /\ data' \in [Inodes -> Int] /\ \A m \in Inodes : m # path[d] => data'[m] = data[m]
      /\ \A m \in Inodes : data'[m] >= Partial
      /\ path'[d] = n /\ \A e \in Ids \ {d} : path'[e] = path[e]
      /\ tmp'[d] = 0 /\ \A e \in Ids \ {d} : tmp'[e] = tmp[e]
      /\ path' \in [Ids -> Inodes \cup {0}] /\ tmp' \in [Ids -> Inodes \cup {0}]
      /\ n # 0 /\ n # path[d]
  <2>1. n # 0
    BY <1>2, <1>3
  <2>2. n # path[d]
    BY <1>3, <2>1 DEF StoreInv, Owned
  <2> QED
    BY <1>1, <1>4, <2>1, <2>2, UnlinkedShape DEF StoreShape
<1>8. \A t \in Savers : Number(t)' = Number(t)
  BY <1>4, <1>5, <1>6 DEF Number
<1>9. StoreShape'
  BY <1>1, <1>4, <1>6, <1>7 DEF StoreShape
<1>10. Numbers'
  BY <1>4 DEF StoreInv, Numbers
<1>11. Texts'
  BY <1>4, <1>7 DEF StoreInv, Texts, Live
<1>12. Owned'
  <2>1. /\ \A x, e \in Ids : path'[x] # 0 => path'[x] # tmp'[e] /\ (path'[x] = path'[e] => x = e)
        /\ \A x, e \in Ids : tmp'[x] # 0 /\ tmp'[x] = tmp'[e] => x = e
    BY <1>2, <1>3, <1>7 DEF StoreInv, Owned
  <2>2. ASSUME NEW t \in Savers, NEW e \in Ids,
               saver'[t].fd # 0, saver'[t].fd \in {path'[e], tmp'[e]}
        PROVE  Number(t)' = e
    <3>1. t # s /\ saver'[t] = saver[t]
      BY <1>6, <2>2
    <3>2. saver[t].fd \in {path[e], tmp[e]}
      BY <1>3, <1>7, <2>2, <3>1
    <3> QED
      BY <1>8, <2>2, <3>1, <3>2 DEF StoreInv, Owned
  <2> QED
    BY <2>1, <2>2 DEF Owned
<1>13. ASSUME NEW t \in Savers, t # s, saver[t].pc \in Busy, Number(t) \notin overlapped
       PROVE  Number(t) \in Ids \ {d}
  <2>1. Number(t) # d
    BY <1>1, <1>2, <1>13 DEF StoreInv, Exclusive, Busy
  <2>2. Number(t) \in Ids
    BY <1>1, <1>13 DEF StoreInv, StoreShape, SaverInv, Number, Live
  <2> QED
    BY <2>1, <2>2
<1>14. ASSUME NEW t \in Savers PROVE SaverInv(t)'
  <2>1. CASE t = s
    BY <1>1, <1>4, <1>5, <1>6, <2>1 DEF SaverInv, Busy, Snapping, Live
  <2>2. CASE t # s
    <3>1. SaverInv(t) /\ saver'[t] = saver[t]
      BY <1>6, <2>2 DEF StoreInv
    <3>2. saver[t].pc \in Busy /\ Number(t) \notin overlapped =>
             /\ tmp'[Number(t)] = tmp[Number(t)]
             /\ tmp[Number(t)] # 0 => data'[tmp[Number(t)]] = data[tmp[Number(t)]]
      BY <1>1, <1>7, <1>13, <2>2 DEF StoreInv, StoreShape, Owned
    <3>3. saver[t].pc = "write" => saver[t].fd # 0
      BY <3>1 DEF SaverInv
    <3> QED
      BY <1>4, <1>8, <3>1, <3>2, <3>3 DEF SaverInv, Busy, Snapping, Live
  <2> QED
    BY <2>1, <2>2
<1>15. Exclusive'
  BY <1>1, <1>4, <1>5, <1>6, <1>8 DEF StoreInv, Exclusive, Busy
<1>16. FilesHoldWholeTexts'
  <2>1. ASSUME NEW e \in Ids, path'[e] # 0, data'[path'[e]] = Partial PROVE e \in overlapped
    <3>1. CASE e = d
      BY <1>1, <1>2, <1>3, <1>7, <2>1, <3>1 DEF SaverInv, Busy
    <3>2. CASE e # d
      <4>1. path'[e] = path[e] /\ path[e] # path[d] /\ path[e] \in Inodes
        BY <1>1, <1>7, <2>1, <3>2 DEF StoreInv, StoreShape, Owned
      <4> QED
        BY <1>7, <2>1, <4>1 DEF StoreInv, FilesHoldWholeTexts, Exists, OnDisk
    <3> QED
      BY <3>1, <3>2
  <2> QED
    BY <1>4, <2>1 DEF StoreInv, FilesHoldWholeTexts, Exists, OnDisk
<1> QED
  BY <1>9, <1>10, <1>11, <1>12, <1>14, <1>15, <1>16 DEF StoreInv

LEMMA StepStore == ASSUME StoreInv, [Next]_vars PROVE StoreInv'
<1>1. ASSUME NEW s \in Savers, save_document(s) PROVE StoreInv'
  BY <1>1, StepGetContent, StepOpenTmp, StepAfterSave, StepWriteTmp, StepRenameTmp
     DEF save_document
<1>2. CASE Autosave
  BY <1>1, <1>2, StepRound, StepNextDocument, StepSnapshot DEF Autosave, Savers
<1>3. CASE MainThread
  BY <1>1, <1>3, StepRound, StepRemove, StepNextDocument, StepOutside DEF MainThread, Savers
<1>4. CASE Manager
  BY <1>4, StepCreate, StepFinishDelete, StepManager, StepGetDocument, StepOutside DEF Manager
<1>5. CASE Shutdown \/ finish_remove \/ Restart \/ UNCHANGED vars
  BY <1>5, StepOutside
<1>6. CASE \E i \in Instances : SessionThread(i)
  BY <1>6, StepCommit, StepOutside DEF SessionThread
<1>7. CASE Crash \/ \E s \in Savers : RenameThrows(s)
  BY <1>7, StepDies DEF Crash, RenameThrows
<1> QED
  BY <1>2, <1>3, <1>4, <1>5, <1>6, <1>7 DEF Next

\* Inodes, numbers and threads stay in step: what the three theorems rest on.
THEOREM StoreInvariant == Spec => []StoreInv
  BY InitStore, StepStore, PTL DEF Spec

\* Whenever the process dies, every document's file holds a whole text, unless
\* two threads were saving the document at once; and no snapshot holds more
\* than its name says.
THEOREM FilesAreWhole == Spec => []FilesHoldWholeTexts
<1>1. StoreInv => FilesHoldWholeTexts
  BY DEF StoreInv
<1> QED
  BY <1>1, StoreInvariant, PTL

-----------------------------------------------------------------------------
(* CleanInv is inductive, given StoreInv *)

\* The document d is as it was, in memory and on disk.
SameDocument(d) ==
    /\ Current(d) /\ documents'[d] = documents[d]
    /\ text'[documents[d]] = text[documents[d]]
    /\ path'[d] = path[d] /\ data'[path[d]] = data[path[d]]

SameDocuments == \A d \in Ids : Current(d)' => SameDocument(d)

\* Thread s has taken no text in this step and has renamed no file.
SameSave(s) ==
    saver'[s].pc \in {"open", "write", "rename", "mark"} =>
        /\ saver[s].pc \in {"open", "write", "rename", "mark"}
        /\ saver'[s].pc = "mark" <=> saver[s].pc = "mark"
        /\ saver'[s].obj = saver[s].obj /\ saver'[s].content = saver[s].content
        /\ Number(s)' = Number(s)

LEMMA BusyNumber ==
    ASSUME StoreInv, NEW s \in Savers, saver[s].pc \in Busy
    PROVE  Number(s) \in Ids /\ saver[s].obj \in Live
  BY DEF StoreInv, StoreShape, SaverInv, Number, Live

LEMMA CleanKeeps ==
    ASSUME StoreInv, CleanInv, raced \subseteq raced',
           \A d \in Ids : Current(d)' => SameDocument(d),
           \A d \in Ids : Current(d)' /\ ~ dirty'[documents[d]] => ~ dirty[documents[d]] \/ Saved(d),
           \A s \in Savers : SameSave(s) \/ TakenInv(s)'
    PROVE  CleanInv'
<1>1. ASSUME NEW d \in Ids, Current(d)', Saved(d) PROVE Saved(d)'
  BY <1>1 DEF SameDocument, Saved
<1>2. ASSUME NEW d \in Ids, Current(d)'
      PROVE  path'[d] # 0 /\ (~ dirty'[documents'[d]] => Saved(d)')
  <2>1. SameDocument(d) /\ Current(d)
    BY <1>2 DEF SameDocument
  <2>2. path[d] # 0 /\ (~ dirty[documents[d]] => Saved(d))
    BY <2>1 DEF CleanInv
  <2> QED
    BY <1>1, <1>2, <2>1, <2>2 DEF SameDocument
<1>3. ASSUME NEW s \in Savers, SameSave(s) PROVE TakenInv(s)'
  <2> SUFFICES ASSUME saver'[s].pc \in Busy, Current(Number(s))',
                      documents'[Number(s)'] = saver'[s].obj,
                      saver'[s].pc \in {"open", "write", "rename", "mark"}
               PROVE  /\ saver'[s].pc \in {"open", "write", "rename"} =>
                            saver'[s].content = text'[saver'[s].obj] \/ saver'[s].obj \in raced'
                      /\ saver'[s].pc = "mark" => Saved(Number(s))'
    BY DEF TakenInv, Busy
  <2>1. /\ saver[s].pc \in {"open", "write", "rename", "mark"} /\ saver[s].pc \in Busy
        /\ saver'[s].pc = "mark" <=> saver[s].pc = "mark"
        /\ saver'[s].obj = saver[s].obj /\ saver'[s].content = saver[s].content
        /\ Number(s)' = Number(s)
    BY <1>3 DEF SameSave, Busy
  <2>2. PICK d \in Ids : d = Number(s)
    BY <2>1, BusyNumber
  <2>3. Current(d)'
    BY <2>1, <2>2 DEF Current
  <2>4. SameDocument(d) /\ Current(d) /\ documents[d] = saver[s].obj
    BY <2>1, <2>2, <2>3 DEF SameDocument
  <2>5. /\ saver[s].pc # "mark" => saver[s].content = text[saver[s].obj] \/ saver[s].obj \in raced
        /\ saver[s].pc = "mark" => Saved(d)
    BY <2>1, <2>2, <2>4 DEF CleanInv, TakenInv
  <2>6. Saved(d) => Saved(Number(s))'
    BY <1>1, <2>1, <2>2, <2>3 DEF Saved
  <2> QED
    BY <2>1, <2>4, <2>5, <2>6 DEF SameDocument
<1> QED
  BY <1>2, <1>3 DEF CleanInv

LEMMA InitClean == Init => CleanInv
  BY DEF Init, Fresh, CleanInv, Current, TakenInv, Busy, IdleSaver

\* A step of the threads that save which leaves the files alone.
LEMMA CleanThreads ==
    ASSUME StoreInv, CleanInv, overlapped \subseteq overlapped',
           raced \subseteq raced', dirty' = dirty,
           \A s \in Savers : SameSave(s) \/ TakenInv(s)',
           UNCHANGED <<id, text, documents, path, data>>
    PROVE  CleanInv' /\ SameDocuments
<1>1. \A d \in Ids : Current(d)' => SameDocument(d)
  BY DEF Current, SameDocument
<1> QED
  BY <1>1, CleanKeeps DEF SameDocuments

LEMMA OnlyOne ==
    ASSUME StoreInv, NEW s \in Savers, NEW t \in Savers, s # t,
           saver[s].pc \in Busy, saver[t].pc \in Busy, Current(Number(t))
    PROVE  Number(s) # Number(t)
  BY DEF StoreInv, Exclusive, Current

Holding == {"open", "write", "rename", "mark"}

\* Only thread s moves, and it holds no text afterwards.
Releases(s) == saver'[s].pc \notin Holding /\ \A t \in Savers \ {s} : saver'[t] = saver[t]

LEMMA ReleasesSame ==
    ASSUME NEW s \in Savers, Releases(s), id' = id
    PROVE  \A t \in Savers : SameSave(t)
  BY DEF Releases, SameSave, Holding, Number

LEMMA NextReleases ==
    ASSUME StoreInv, NEW s \in Savers, NextDocument(s)
    PROVE  Releases(s)
<1>1. saver \in [Savers -> SaverType]
  BY DEF StoreInv, StoreShape
<1>2. CASE saver[s].docs = {} /\ Goto(s, IF s = "autosave" THEN "wait" ELSE "saved")
  BY <1>1, <1>2 DEF Goto, Releases, Holding, SaverType
<1>3. CASE \E o \in saver[s].docs, skip \in BOOLEAN :
              saver' = [saver EXCEPT ![s].docs = @ \ {o}, ![s].obj = IF skip THEN @ ELSE o,
                                     ![s].pc = IF skip THEN "loop" ELSE "content"]
  BY <1>1, <1>3 DEF Releases, Holding, SaverType
<1> QED
  BY <1>2, <1>3 DEF NextDocument

LEMMA AutosaveReleases ==
    ASSUME StoreInv,
           \/ StartRound \/ EndAutosave \/ NextDocument("autosave") \/ OpenFails("autosave")
           \/ MarkSaved("autosave") \/ maybe_create_snapshot
    PROVE  Releases("autosave")
<1>1. saver \in [Savers -> SaverType] /\ "autosave" \in Savers /\ "shutdown" \in Savers
  BY DEF StoreInv, StoreShape, Savers
<1>2. CASE StartRound
  BY <1>1, <1>2 DEF StartRound, Releases, Holding, SaverType
<1>3. CASE EndAutosave
  BY <1>1, <1>3 DEF EndAutosave, Goto, Releases, Holding, SaverType
<1>4. CASE NextDocument("autosave")
  BY <1>1, <1>4, NextReleases
<1>5. CASE OpenFails("autosave") \/ MarkSaved("autosave")
  BY <1>1, <1>5 DEF OpenFails, MarkSaved, GotoFresh, AfterSave, Releases, Holding, SaverType
<1>6. ASSUME NEW pc \in {"loop", "snapcontent"}, GotoFresh("autosave", pc)
      PROVE  Releases("autosave")
  BY <1>1, <1>6 DEF GotoFresh, Releases, Holding, SaverType
<1>7. CASE CheckSnapshot \/ SnapshotFails \/ SnapshotMark
  BY <1>1, <1>6, <1>7 DEF CheckSnapshot, SnapshotFails, SnapshotMark
<1>8. CASE SnapshotContent
  BY <1>1, <1>8 DEF SnapshotContent, Releases, Holding, SaverType
<1>9. CASE SnapshotWrite
  BY <1>1, <1>9 DEF SnapshotWrite, Goto, Releases, Holding, SaverType
<1> QED
  BY <1>2, <1>3, <1>4, <1>5, <1>7, <1>8, <1>9 DEF maybe_create_snapshot

LEMMA ShutdownReleases ==
    ASSUME StoreInv,
           \/ all_active_doc_ids \/ force_save_all \/ \E d \in Ids : remove_session(d)
           \/ NextDocument("shutdown") \/ OpenFails("shutdown") \/ MarkSaved("shutdown")
    PROVE  Releases("shutdown")
<1>1. saver \in [Savers -> SaverType] /\ "autosave" \in Savers /\ "shutdown" \in Savers
  BY DEF StoreInv, StoreShape, Savers
<1>2. CASE all_active_doc_ids
  BY <1>1, <1>2 DEF all_active_doc_ids, Releases, Holding, SaverType
<1>3. CASE force_save_all
  BY <1>1, <1>3 DEF force_save_all, Releases, Holding, SaverType
<1>4. CASE \E d \in Ids : remove_session(d)
  BY <1>1, <1>4 DEF remove_session, At, Releases, Holding, SaverType
<1>5. CASE NextDocument("shutdown")
  BY <1>1, <1>5, NextReleases
<1>6. CASE OpenFails("shutdown") \/ MarkSaved("shutdown")
  BY <1>1, <1>6 DEF OpenFails, MarkSaved, GotoFresh, AfterSave, Releases, Holding, SaverType
<1> QED
  BY <1>2, <1>3, <1>4, <1>5, <1>6

LEMMA CleanRound ==
    ASSUME StoreInv, CleanInv,
           \/ StartRound \/ EndAutosave \/ all_active_doc_ids \/ force_save_all
           \/ \E d \in Ids : remove_session(d)
           \/ \E s \in Savers : NextDocument(s) \/ OpenFails(s)
           \/ maybe_create_snapshot
    PROVE  CleanInv' /\ SameDocuments
<1>1. "autosave" \in Savers /\ "shutdown" \in Savers
  BY DEF Savers
<1>2. \E s \in Savers : Releases(s)
  BY <1>1, AutosaveReleases, ShutdownReleases DEF Savers
<1>3. /\ overlapped \subseteq overlapped' /\ raced \subseteq raced' /\ dirty' = dirty
      /\ UNCHANGED <<id, text, documents, path, data>>
  BY DEF StartRound, EndAutosave, all_active_doc_ids, force_save_all, remove_session,
         NextDocument, OpenFails, maybe_create_snapshot, CheckSnapshot, SnapshotContent,
         SnapshotWrite, SnapshotFails, SnapshotMark, docVars, managerVars, fileVars, historyVars
<1> QED
  BY <1>2, <1>3, ReleasesSame, CleanThreads

LEMMA CleanGetContent == ASSUME StoreInv, CleanInv, NEW s \in Savers, GetContent(s) PROVE CleanInv' /\ SameDocuments
<1>1. saver \in [Savers -> SaverType] /\ saver[s].pc = "content"
  BY DEF StoreInv, StoreShape, GetContent, At
<1>2. /\ saver' = [saver EXCEPT ![s].pc = "open", ![s].content = text[saver[s].obj]]
      /\ UNCHANGED <<id, text, documents, path, data, overlapped, raced, dirty>>
  BY DEF GetContent, docVars, managerVars, fileVars, historyVars
<1>3. /\ saver'[s].pc = "open" /\ saver'[s].content = text[saver[s].obj]
      /\ saver'[s].obj = saver[s].obj
      /\ \A t \in Savers \ {s} : saver'[t] = saver[t]
  BY <1>1, <1>2 DEF SaverType
<1>4. TakenInv(s)'
  BY <1>2, <1>3 DEF TakenInv
<1>5. \A t \in Savers \ {s} : SameSave(t)
  BY <1>2, <1>3 DEF SameSave, Number
<1> QED
  BY <1>2, <1>4, <1>5, CleanThreads

LEMMA CleanOutside ==
    ASSUME StoreInv, CleanInv,
           \/ \E d \in Ids : \/ get_or_create_session(d) \/ get_session(d) \/ load_from_disk(d)
                             \/ delete_document(d) \/ late_grant(d)
           \/ \E i \in Instances : enqueue_operation(i) \/ EndSession(i)
           \/ Shutdown \/ finish_remove \/ StopAutosave \/ ExitProcess \/ Restart
           \/ UNCHANGED vars
    PROVE  CleanInv' /\ SameDocuments
<1>1. /\ UNCHANGED <<id, text, dirty, path, data, saver, overlapped, raced>>
      /\ \A d \in Ids : documents'[d] # 0 => documents'[d] = documents[d]
  <2>1. documents \in [Ids -> Objects \cup {0}]
    BY DEF StoreInv, StoreShape
  <2> QED
    BY <2>1
       DEF get_or_create_session, get_session, load_from_disk, delete_document, late_grant,
           enqueue_operation, EndSession, Shutdown, finish_remove, StopAutosave, ExitProcess,
           Restart, vars, docVars, managerVars, fileVars, historyVars
<1>2. \A d \in Ids : Current(d)' => SameDocument(d)
  BY <1>1 DEF Current, SameDocument
<1>3. \A s \in Savers : SameSave(s)
  BY <1>1 DEF SameSave, Number
<1> QED
  BY <1>1, <1>2, <1>3, CleanKeeps DEF SameDocuments

LEMMA CleanMark == ASSUME StoreInv, CleanInv, NEW s \in Savers, MarkSaved(s) PROVE CleanInv' /\ SameDocuments
<1>1. /\ saver \in [Savers -> SaverType] /\ dirty \in [Objects -> BOOLEAN]
      /\ saver[s].pc = "mark"
  BY DEF StoreInv, StoreShape, MarkSaved, At
<1>2. /\ dirty' = [dirty EXCEPT ![saver[s].obj] = FALSE]
      /\ UNCHANGED <<id, text, documents, path, data, overlapped, raced>>
  BY DEF MarkSaved, managerVars, fileVars, historyVars
<1>3. Releases(s)
  BY <1>1 DEF MarkSaved, GotoFresh, AfterSave, Releases, Holding, SaverType
<1>4. \A d \in Ids : Current(d)' => SameDocument(d)
  BY <1>2 DEF Current, SameDocument
<1>5. ASSUME NEW d \in Ids, Current(d)', ~ dirty'[documents[d]]
      PROVE  ~ dirty[documents[d]] \/ Saved(d)
  <2>1. Current(d) /\ documents[d] \in Objects /\ id[documents[d]] = d
    BY <1>4, <1>5 DEF SameDocument, Current, StoreInv, StoreShape, Numbers
  <2>2. CASE documents[d] = saver[s].obj
    BY <1>1, <2>1, <2>2 DEF CleanInv, TakenInv, Number, Busy
  <2>3. CASE documents[d] # saver[s].obj
    BY <1>1, <1>2, <1>5, <2>1, <2>3
  <2> QED
    BY <2>2, <2>3
<1> QED
  BY <1>2, <1>3, <1>4, <1>5, ReleasesSame, CleanKeeps DEF SameDocuments

LEMMA CleanOpenTmp ==
    ASSUME StoreInv, StoreInv', CleanInv, NEW s \in Savers, OpenTmp(s)
    PROVE  CleanInv' /\ SameDocuments
<1>1. saver \in [Savers -> SaverType] /\ saver[s].pc = "open"
  BY DEF StoreInv, StoreShape, OpenTmp, At
<1>2. PICK d \in Ids : d = Number(s)
  BY <1>1, BusyNumber DEF Busy
<1>3. PICK n : /\ saver' = [saver EXCEPT ![s].pc = "write", ![s].fd = n]
               /\ tmp' = [tmp EXCEPT ![d] = n] /\ data' = [data EXCEPT ![n] = Partial]
  BY <1>2 DEF OpenTmp
<1>4. UNCHANGED <<id, text, documents, path, overlapped, raced, dirty>>
  BY DEF OpenTmp, docVars, managerVars, historyVars
<1>5. /\ saver'[s].pc = "write" /\ saver'[s].content = saver[s].content
      /\ saver'[s].obj = saver[s].obj
      /\ \A t \in Savers \ {s} : saver'[t] = saver[t]
  BY <1>1, <1>3 DEF SaverType
<1>6. \A t \in Savers : SameSave(t)
  BY <1>1, <1>4, <1>5 DEF SameSave, Number
<1>7. tmp'[d] = n
  BY <1>3 DEF StoreInv, StoreShape
<1>8. ASSUME NEW e \in Ids, Current(e)' PROVE SameDocument(e)
  <2>1. Current(e)
    BY <1>4, <1>8 DEF Current
  <2>2. path[e] # 0 /\ path[e] \in Inodes
    BY <2>1 DEF CleanInv, StoreInv, StoreShape
  <2>3. path[e] # n
    BY <1>4, <1>7, <2>2 DEF StoreInv, Owned
  <2>4. data'[path[e]] = data[path[e]]
    BY <1>3, <2>2, <2>3 DEF StoreInv, StoreShape
  <2> QED
    BY <1>4, <2>1, <2>4 DEF SameDocument
<1> QED
  BY <1>4, <1>6, <1>8, CleanKeeps DEF SameDocuments

LEMMA CleanWriteTmp ==
    ASSUME StoreInv, CleanInv, NEW s \in Savers, WriteTmp(s)
    PROVE  CleanInv' /\ SameDocuments
<1>1. saver \in [Savers -> SaverType] /\ saver[s].pc = "write" /\ SaverInv(s)
  BY DEF StoreInv, StoreShape, WriteTmp, At
<1>2. PICK d \in Ids : d = Number(s)
  BY <1>1, BusyNumber DEF Busy
<1>3. PICK x : /\ saver' = [saver EXCEPT ![s].pc = "rename", ![s].fd = 0]
               /\ data' = [data EXCEPT ![saver[s].fd] = x]
  BY DEF WriteTmp
<1>4. UNCHANGED <<id, text, documents, path, overlapped, raced, dirty>>
  BY DEF WriteTmp, docVars, managerVars, historyVars
<1>5. /\ saver'[s].pc = "rename" /\ saver'[s].content = saver[s].content
      /\ saver'[s].obj = saver[s].obj
      /\ \A t \in Savers \ {s} : saver'[t] = saver[t]
  BY <1>1, <1>3 DEF SaverType
<1>6. \A t \in Savers : SameSave(t)
  BY <1>1, <1>4, <1>5 DEF SameSave, Number
<1>7. ASSUME NEW e \in Ids, Current(e)' PROVE SameDocument(e)
  <2>1. Current(e) /\ e \notin overlapped
    BY <1>4, <1>7 DEF Current
  <2>2. path[e] # 0 /\ path[e] \in Inodes
    BY <2>1 DEF CleanInv, StoreInv, StoreShape
  <2>3. path[e] # saver[s].fd
    <3>1. SUFFICES ASSUME path[e] = saver[s].fd PROVE FALSE
      OBVIOUS
    <3>2. Number(s) = e
      BY <2>2, <3>1 DEF StoreInv, Owned
    <3>3. saver[s].fd = tmp[e]
      BY <1>1, <2>1, <3>2 DEF SaverInv, Busy
    <3> QED
      BY <2>2, <3>1, <3>3 DEF StoreInv, Owned
  <2>4. data'[path[e]] = data[path[e]]
    BY <1>3, <2>2, <2>3 DEF StoreInv, StoreShape
  <2> QED
    BY <1>4, <2>1, <2>4 DEF SameDocument
<1> QED
  BY <1>4, <1>6, <1>7, CleanKeeps DEF SameDocuments

LEMMA CleanFinishDelete == ASSUME StoreInv, CleanInv, finish_delete PROVE CleanInv' /\ SameDocuments
<1>1. PICK d \in Ids : d = mutex[2] /\ documents[d] = 0
  BY DEF finish_delete, StoreInv, Numbers
<1>2. /\ path' = [path EXCEPT ![d] = 0] /\ data' = Unlinked(d)
      /\ UNCHANGED <<id, text, documents, overlapped, raced, dirty, saver>>
  BY <1>1 DEF finish_delete, docVars, historyVars
<1>3. \A t \in Savers : SameSave(t)
  BY <1>2 DEF SameSave, Number
<1>4. ASSUME NEW e \in Ids, Current(e)' PROVE SameDocument(e)
  <2>1. Current(e) /\ e # d
    BY <1>1, <1>2, <1>4 DEF Current
  <2>2. path[e] # 0 /\ path[e] \in Inodes
    BY <2>1 DEF CleanInv, StoreInv, StoreShape
  <2>3. path[e] # path[d] /\ path'[e] = path[e]
    BY <1>2, <2>1, <2>2 DEF StoreInv, StoreShape, Owned
  <2>4. data'[path[e]] = data[path[e]]
    BY <1>2, <2>2, <2>3, UnlinkedShape
  <2> QED
    BY <1>2, <2>1, <2>3, <2>4 DEF SameDocument
<1> QED
  BY <1>2, <1>3, <1>4, CleanKeeps DEF SameDocuments

\* A second object of a number that has one: the document is no longer Current.
LEMMA CleanGetDocument ==
    ASSUME StoreInv, CleanInv, NEW d \in Ids, get_document(d)
    PROVE  CleanInv' /\ SameDocuments
<1>1. PICK l \in loading :
         /\ l[1] = d
         /\ IF documents[d] = 0 THEN NewObject(d, l[2]) ELSE UNCHANGED <<docVars, documents>>
  BY DEF get_document
<1>2. l[2] \in Int /\ d < next_doc_id
  BY <1>1 DEF StoreInv, Texts
<1>3. ObjectsLeft /\ UNCHANGED <<path, data, saver, overlapped, raced>>
  BY DEF get_document, fileVars, historyVars
<1>4. CASE documents[d] # 0
  BY <1>1, <1>3, <1>4, CleanThreads DEF docVars, SameSave, Number
<1>5. CASE documents[d] = 0
  <2>1. PICK t \in Int : t = l[2]
    BY <1>2
  <2>2. PICK o \in Objects :
           /\ id[o] = 0 /\ id'[o] = d /\ text'[o] = t /\ documents'[d] = o
           /\ \A p \in Objects \ {o} : id'[p] = id[p] /\ text'[p] = text[p]
           /\ \A e \in Ids \ {d} : documents'[e] = documents[e]
           /\ dirty' = dirty
    BY <1>1, <1>3, <1>5, <2>1, NewObjectShape DEF StoreInv
  <2>3. PICK q \in Objects : id[q] = d
    BY <1>2 DEF StoreInv, Numbers
  <2>4. q # o /\ id'[q] = d
    BY <2>2, <2>3, StoreConstants
  <2>5. ~ Current(d)'
    BY <2>2, <2>4 DEF Current
  <2>6. ASSUME NEW e \in Ids, Current(e)' PROVE SameDocument(e)
    <3>1. e # d /\ documents'[e] = documents[e] /\ documents[e] # 0 /\ e \notin overlapped
      BY <1>3, <2>2, <2>5, <2>6 DEF Current
    <3>2. \A p \in Objects : id[p] = e => id'[p] = e /\ p # o
      BY <2>2, StoreConstants
    <3>3. Current(e)
      BY <2>6, <3>1, <3>2 DEF Current
    <3>4. documents[e] \in Objects /\ id[documents[e]] = e
      BY <3>1 DEF StoreInv, StoreShape, Numbers
    <3>5. text'[documents[e]] = text[documents[e]]
      BY <2>2, <3>2, <3>4
    <3> QED
      BY <1>3, <3>1, <3>3, <3>5 DEF SameDocument
  <2>7. ASSUME NEW s \in Savers PROVE SameSave(s)
    <3>1. saver[s].pc \in Busy => saver[s].obj \in Live
      BY BusyNumber
    <3> QED
      BY <1>3, <2>2, <3>1 DEF SameSave, Number, Live, Busy
  <2> QED
    BY <1>3, <2>2, <2>6, <2>7, CleanKeeps DEF SameDocuments
<1> QED
  BY <1>4, <1>5

\* A change makes the document dirty, and is noted when a thread has its text.
LEMMA CleanCommit ==
    ASSUME StoreInv, CleanInv, NEW i \in Instances, CommitOperation(i)
    PROVE  CleanInv'
<1>1. PICK o : /\ text' = [text EXCEPT ![o] = @ + 1] /\ dirty' = [dirty EXCEPT ![o] = TRUE]
               /\ raced' = IF Saving(o) = {} THEN raced ELSE raced \cup {o}
  BY DEF CommitOperation
<1>2. UNCHANGED <<id, documents, path, data, saver, overlapped>>
  BY DEF CommitOperation, managerVars, fileVars
<1>3. text \in [Objects -> Int] /\ dirty \in [Objects -> BOOLEAN]
  BY DEF StoreInv, StoreShape
<1>4. ASSUME NEW e \in Ids, Current(e)'
      PROVE  /\ Current(e) /\ documents'[e] = documents[e]
             /\ documents[e] \in Objects /\ id[documents[e]] = e
  BY <1>2, <1>4 DEF Current, StoreInv, StoreShape, Numbers
<1>5. ASSUME NEW e \in Ids, Current(e)', documents[e] # o, Saved(e) PROVE Saved(e)'
  <2>1. text'[documents[e]] = text[documents[e]]
    BY <1>1, <1>3, <1>4, <1>5
  <2> QED
    BY <1>1, <1>2, <1>5, <2>1 DEF Saved
<1>6. ASSUME NEW e \in Ids, Current(e)'
      PROVE  path'[e] # 0 /\ (~ dirty'[documents'[e]] => Saved(e)')
  <2>1. path[e] # 0 /\ (~ dirty[documents[e]] => Saved(e))
    BY <1>4, <1>6 DEF CleanInv
  <2>2. CASE documents[e] = o
    <3>1. dirty'[documents[e]] = TRUE
      BY <1>1, <1>3, <1>4, <1>6, <2>2
    <3> QED
      BY <1>2, <1>4, <1>6, <2>1, <3>1
  <2>3. CASE documents[e] # o
    <3>1. dirty'[documents[e]] = dirty[documents[e]]
      BY <1>1, <1>3, <1>4, <1>6, <2>3
    <3> QED
      BY <1>2, <1>4, <1>5, <1>6, <2>1, <2>3, <3>1
  <2> QED
    BY <2>2, <2>3
<1>7. ASSUME NEW s \in Savers PROVE TakenInv(s)'
  <2> SUFFICES ASSUME saver[s].pc \in Busy, Current(Number(s))',
                      documents[Number(s)] = saver[s].obj,
                      saver[s].pc \in {"open", "write", "rename", "mark"}
               PROVE  /\ saver[s].pc \in {"open", "write", "rename"} =>
                            saver[s].content = text'[saver[s].obj] \/ saver[s].obj \in raced'
                      /\ saver[s].pc = "mark" => Saved(Number(s))'
    BY <1>2 DEF TakenInv, Busy, Number
  <2>1. PICK e \in Ids : e = Number(s)
    BY BusyNumber
  <2>2. Current(e)' /\ Current(e) /\ documents[e] = saver[s].obj /\ documents[e] \in Objects
    <3>1. Current(e)'
      BY <1>2, <2>1 DEF Current, Number
    <3> QED
      BY <1>4, <2>1, <3>1
  <2>3. /\ saver[s].pc # "mark" => saver[s].content = text[saver[s].obj] \/ saver[s].obj \in raced
        /\ saver[s].pc = "mark" => Saved(e)
    BY <2>1, <2>2 DEF CleanInv, TakenInv
  <2>4. CASE saver[s].obj = o
    <3>1. o \in raced'
      BY <1>1, <2>4 DEF Saving
    <3> QED
      BY <1>2, <2>1, <2>2, <2>4, <3>1 DEF Saved, Number
  <2>5. CASE saver[s].obj # o
    <3>1. text'[saver[s].obj] = text[saver[s].obj]
      BY <1>1, <1>3, <2>2, <2>5
    <3>2. Saved(e) => Saved(Number(s))'
      BY <1>2, <1>5, <2>1, <2>2, <2>5 DEF Saved, Number
    <3> QED
      BY <1>1, <2>3, <3>1, <3>2
  <2> QED
    BY <2>4, <2>5
<1> QED
  BY <1>6, <1>7 DEF CleanInv

LEMMA CleanRename ==
    ASSUME StoreInv, CleanInv, NEW s \in Savers, RenameTmp(s)
    PROVE  /\ CleanInv'
           /\ \A e \in Ids : Current(e)' /\ e # Number(s) => SameDocument(e)
           /\ \A e \in Ids : Current(e)' /\ e = Number(s) =>
                 /\ Current(e) /\ documents[e] = saver[s].obj
                 /\ data'[path'[e]] = saver[s].content
<1>1. /\ StoreShape /\ SaverInv(s) /\ saver[s] \in SaverType /\ saver[s].pc = "rename"
  BY DEF StoreInv, StoreShape, RenameTmp, At
<1>2. PICK d \in Ids : d = Number(s) /\ tmp[d] # 0
  BY <1>1, BusyNumber DEF RenameTmp, Busy
<1>3. PICK n \in Inodes : n = tmp[d]
  BY <1>1, <1>2 DEF StoreShape
<1>4. /\ path' = [path EXCEPT ![d] = n] /\ data' = Unlinked(d) /\ Goto(s, "mark")
      /\ raced' = IF saver[s].content = text[saver[s].obj] THEN raced \ {saver[s].obj} ELSE raced
      /\ UNCHANGED <<id, text, dirty, documents, overlapped>>
  BY <1>2, <1>3 DEF RenameTmp, docVars, managerVars
<1>5. /\ saver'[s].pc = "mark" /\ saver'[s].obj = saver[s].obj
      /\ \A t \in Savers \ {s} : saver'[t] = saver[t]
  BY <1>1, <1>4 DEF Goto, StoreShape, SaverType
<1>6. \A t \in Savers : Number(t)' = Number(t)
  BY <1>4, <1>5 DEF Number
<1>7. /\ path'[d] = n /\ \A e \in Ids \ {d} : path'[e] = path[e]
      /\ \A m \in Inodes : m # path[d] => data'[m] = data[m]
      /\ n # 0 /\ n # path[d]
  <2>1. n # 0
    BY <1>2, <1>3
  <2>2. n # path[d]
    BY <1>3, <2>1 DEF StoreInv, Owned
  <2> QED
    BY <1>1, <1>4, <2>1, <2>2, UnlinkedShape DEF StoreShape
<1>8. \A e \in Ids : Current(e)' <=> Current(e)
  BY <1>4 DEF Current
<1>9. ASSUME NEW e \in Ids, Current(e) PROVE documents[e] \in Objects /\ id[documents[e]] = e
  BY <1>9 DEF Current, StoreInv, StoreShape, Numbers
\* The document that is saved: the file now holds the text that was taken.
<1>10. ASSUME Current(d)
       PROVE  Saved(d)' /\ documents[d] = saver[s].obj /\ data'[path'[d]] = saver[s].content
  <2>1. data'[path'[d]] = saver[s].content
    <3>1. data[n] = saver[s].content
      BY <1>1, <1>2, <1>3, <1>10 DEF SaverInv, Busy, Current
    <3> QED
      BY <1>7, <3>1
  <2>2. documents[d] = saver[s].obj
    <3>1. id[saver[s].obj] = d /\ saver[s].obj \in Objects
      BY <1>1, <1>2, BusyNumber DEF Number, Live, Busy
    <3> QED
      BY <1>9, <1>10, <3>1 DEF Current
  <2>3. saver[s].content = text[saver[s].obj] \/ saver[s].obj \in raced
    BY <1>1, <1>2, <1>10, <2>2 DEF CleanInv, TakenInv, Busy
  <2> QED
    BY <1>4, <2>1, <2>2, <2>3 DEF Saved
\* Any other document is as it was.
<1>11. ASSUME NEW e \in Ids \ {d}, Current(e)
       PROVE  path[e] # 0 /\ path'[e] = path[e] /\ (Saved(e) => Saved(e)') /\ SameDocument(e)
  <2>1. path[e] # 0 /\ path[e] \in Inodes
    BY <1>1, <1>11 DEF CleanInv, StoreShape
  <2>2. path[e] # path[d]
    BY <2>1, <1>11 DEF StoreInv, Owned
  <2>3. documents[e] # saver[s].obj
    BY <1>2, <1>9, <1>11 DEF Number
  <2> QED
    BY <1>4, <1>7, <1>11, <2>1, <2>2, <2>3 DEF Saved, SameDocument
<1>12. ASSUME NEW e \in Ids, Current(e)'
       PROVE  path'[e] # 0 /\ (~ dirty'[documents'[e]] => Saved(e)')
  <2>1. CASE e = d
    BY <1>7, <1>8, <1>10, <1>12, <2>1
  <2>2. CASE e # d
    BY <1>4, <1>8, <1>11, <1>12, <2>2 DEF CleanInv
  <2> QED
    BY <2>1, <2>2
<1>13. ASSUME NEW t \in Savers PROVE TakenInv(t)'
  <2>1. CASE t = s
    <3>1. Current(Number(s))' => Saved(Number(s))'
      BY <1>2, <1>6, <1>8, <1>10 DEF Current, Saved
    <3> QED
      BY <1>5, <2>1, <3>1 DEF TakenInv
  <2>2. CASE t # s
    <3> SUFFICES ASSUME saver[t].pc \in Busy, Current(Number(t))',
                        documents[Number(t)] = saver[t].obj
                 PROVE  /\ saver[t].pc \in {"open", "write", "rename"} =>
                              saver[t].content = text[saver[t].obj] \/ saver[t].obj \in raced'
                        /\ saver[t].pc = "mark" => Saved(Number(t))'
      BY <1>4, <1>5, <1>6, <2>2 DEF TakenInv
    <3>1. PICK e \in Ids : e = Number(t)
      BY BusyNumber
    <3>2. Current(e) /\ Current(Number(t))
      BY <1>6, <1>8, <3>1 DEF Current
    <3>3. e # d
      BY <1>1, <1>2, <2>2, <3>1, <3>2, OnlyOne DEF Busy
    <3>4. saver[t].obj # saver[s].obj
      BY <1>2, <3>1, <3>3 DEF Number
    <3>5. /\ saver[t].pc \in {"open", "write", "rename"} =>
                saver[t].content = text[saver[t].obj] \/ saver[t].obj \in raced
          /\ saver[t].pc = "mark" => Saved(e)
      BY <3>1, <3>2 DEF CleanInv, TakenInv
    <3>6. Saved(e) => Saved(Number(t))'
      BY <1>6, <1>11, <3>1, <3>2, <3>3 DEF Saved
    <3> QED
      BY <1>4, <3>4, <3>5, <3>6
  <2> QED
    BY <2>1, <2>2
<1> QED
  BY <1>2, <1>8, <1>10, <1>11, <1>12, <1>13 DEF CleanInv

\* The new document is on disk, empty as in memory, and no thread has its number.
LEMMA CleanCreate ==
    ASSUME StoreInv, CleanInv, create_document
    PROVE  /\ CleanInv'
           /\ \A d \in Ids : Current(d)' /\ d # next_doc_id => SameDocument(d)
<1>1. PICK d \in Ids : d = next_doc_id
  BY DEF create_document
<1>2. PICK n \in Inodes : /\ n = IF Exists(d) THEN path[d] ELSE FreshInode
                          /\ \A e \in Ids : n # tmp[e] /\ (n = path[e] => e = d)
                          /\ \A s \in Savers : n # saver[s].fd
  BY <1>1, InodeOfNew
<1>3. /\ path' = [path EXCEPT ![d] = n] /\ data' = [data EXCEPT ![n] = 0]
      /\ overlapped' = overlapped \ {d} /\ NewObject(d, 0) /\ ObjectsLeft
      /\ UNCHANGED <<saver, raced>>
  BY <1>1, <1>2 DEF create_document
<1>4. PICK o \in Objects :
         /\ id[o] = 0 /\ id'[o] = d /\ text'[o] = 0 /\ documents'[d] = o
         /\ \A p \in Objects \ {o} : id'[p] = id[p] /\ text'[p] = text[p]
         /\ \A e \in Ids \ {d} : documents'[e] = documents[e]
         /\ dirty' = dirty
  BY <1>3, NewObjectShape DEF StoreInv
<1>5. /\ path'[d] = n /\ \A e \in Ids \ {d} : path'[e] = path[e]
      /\ data'[n] = 0 /\ \A m \in Inodes \ {n} : data'[m] = data[m]
      /\ n # 0
  BY <1>3, StoreConstants DEF StoreInv, StoreShape
<1>6. \A p \in Live : p # o /\ id[p] # d /\ id'[p] = id[p]
  BY <1>1, <1>4 DEF StoreInv, StoreShape, Numbers, Live
<1>7. ASSUME NEW e \in Ids \ {d}, Current(e)' PROVE SameDocument(e)
  <2>1. documents'[e] = documents[e] /\ documents[e] # 0 /\ e \notin overlapped
    BY <1>3, <1>4, <1>7 DEF Current
  <2>2. \A p \in Objects : id[p] = e => id'[p] = e /\ p # o
    BY <1>4, StoreConstants
  <2>3. Current(e)
    BY <1>7, <2>1, <2>2 DEF Current
  <2>4. documents[e] \in Objects /\ id[documents[e]] = e
    BY <2>1 DEF StoreInv, StoreShape, Numbers
  <2>5. text'[documents[e]] = text[documents[e]]
    BY <1>4, <2>2, <2>4
  <2>6. path[e] # 0 /\ path[e] \in Inodes /\ path[e] # n
    BY <1>2, <2>3 DEF CleanInv, StoreInv, StoreShape
  <2> QED
    BY <1>5, <2>1, <2>3, <2>5, <2>6 DEF SameDocument
<1>8. ASSUME NEW e \in Ids \ {d}, Current(e)', Saved(e) PROVE Saved(e)'
  BY <1>3, <1>7, <1>8 DEF SameDocument, Saved
<1>9. ASSUME NEW e \in Ids, Current(e)'
      PROVE  path'[e] # 0 /\ (~ dirty'[documents'[e]] => Saved(e)')
  <2>1. CASE e = d
    BY <1>4, <1>5, <2>1 DEF Saved
  <2>2. CASE e # d
    <3>1. SameDocument(e) /\ Current(e)
      BY <1>7, <1>9, <2>2 DEF SameDocument
    <3>2. path[e] # 0 /\ (~ dirty[documents[e]] => Saved(e))
      BY <3>1 DEF CleanInv
    <3> QED
      BY <1>4, <1>8, <1>9, <2>2, <3>1, <3>2 DEF SameDocument
  <2> QED
    BY <2>1, <2>2
<1>10. ASSUME NEW s \in Savers PROVE TakenInv(s)'
  <2> SUFFICES ASSUME saver[s].pc \in Busy, Current(Number(s))',
                      documents'[Number(s)'] = saver[s].obj
               PROVE  /\ saver[s].pc \in {"open", "write", "rename"} =>
                            saver[s].content = text'[saver[s].obj] \/ saver[s].obj \in raced
                      /\ saver[s].pc = "mark" => Saved(Number(s))'
    BY <1>3 DEF TakenInv
  <2>1. PICK e \in Ids \ {d} : e = Number(s) /\ Number(s)' = e
    BY <1>3, <1>6, BusyNumber DEF Number
  <2>2. SameDocument(e) /\ Current(e) /\ Current(e)' /\ documents[e] = saver[s].obj
    <3>1. Current(e)'
      BY <2>1 DEF Current
    <3> QED
      BY <1>7, <2>1, <3>1 DEF SameDocument
  <2>3. /\ saver[s].pc \in {"open", "write", "rename"} =>
              saver[s].content = text[saver[s].obj] \/ saver[s].obj \in raced
        /\ saver[s].pc = "mark" => Saved(e)
    BY <2>1, <2>2 DEF CleanInv, TakenInv
  <2>4. Saved(e) => Saved(Number(s))'
    BY <1>8, <2>1, <2>2 DEF Saved
  <2> QED
    BY <2>2, <2>3, <2>4 DEF SameDocument
<1> QED
  BY <1>1, <1>7, <1>9, <1>10 DEF CleanInv

LEMMA CleanDies == ASSUME Dies PROVE CleanInv'
<1>1. /\ \A d \in Ids : documents'[d] = 0
      /\ \A s \in Savers : saver'[s].pc = "wait"
  BY DEF Dies, Fresh, IdleSaver
<1> QED
  BY <1>1 DEF CleanInv, Current, TakenInv, Busy

LEMMA StepClean ==
    ASSUME StoreInv, StoreInv', CleanInv, [Next]_vars
    PROVE  CleanInv'
<1>1. ASSUME NEW s \in Savers, save_document(s) PROVE CleanInv'
  BY <1>1, CleanGetContent, CleanOpenTmp, CleanRound, CleanWriteTmp, CleanRename, CleanMark
     DEF save_document
<1>2. CASE Autosave
  BY <1>1, <1>2, CleanRound DEF Autosave, Savers
<1>3. CASE MainThread
  BY <1>1, <1>3, CleanRound, CleanOutside DEF MainThread, Savers
<1>4. CASE Manager
  BY <1>4, CleanCreate, CleanFinishDelete, CleanGetDocument, CleanOutside DEF Manager
<1>5. CASE Shutdown \/ finish_remove \/ Restart \/ UNCHANGED vars
  BY <1>5, CleanOutside
<1>6. CASE \E i \in Instances : SessionThread(i)
  BY <1>6, CleanCommit, CleanOutside DEF SessionThread
<1>7. CASE Crash \/ \E s \in Savers : RenameThrows(s)
  BY <1>7, CleanDies DEF Crash, RenameThrows
<1> QED
  BY <1>2, <1>3, <1>4, <1>5, <1>6, <1>7 DEF Next

LEMMA OneMeansOnly ==
    ASSUME NEW d \in Ids, OneObject(d)
    PROVE  \A o, p \in Objects : id[o] = d /\ id[p] = d => o = p
<1> DEFINE S == {o \in Objects : id[o] = d}
<1>1. IsFiniteSet(S)
  BY StorageAssumption, FS_Subset
<1>2. \E x : S = {x}
  BY <1>1, FS_Singleton DEF OneObject
<1> QED
  BY <1>2

\* A document that is not dirty is on disk as it is in memory: whatever crash,
\* reload, deletion or shutdown came before, unless it changed while a thread
\* was saving it, two threads saved it at once, or it was brought back.
THEOREM SavedMeansOnDisk == Spec => []CleanMeansSaved
<1>1. Init => StoreInv /\ CleanInv
  BY InitStore, InitClean
<1>2. StoreInv /\ CleanInv /\ [Next]_vars => (StoreInv /\ CleanInv)'
  BY StepStore, StepClean
<1>3. StoreInv /\ CleanInv => CleanMeansSaved
  <2> SUFFICES ASSUME CleanInv, NEW d \in Ids, documents[d] # 0, ~ dirty[documents[d]],
                      OneObject(d), d \notin overlapped
               PROVE  OnDisk(d) = text[documents[d]] \/ documents[d] \in raced
    BY DEF CleanMeansSaved
  <2>1. Current(d)
    BY OneMeansOnly DEF Current
  <2> QED
    BY <2>1 DEF CleanInv, Saved, OnDisk
<1> QED
  BY <1>1, <1>2, <1>3, PTL DEF Spec
-----------------------------------------------------------------------------
(* StopInv is inductive, given StoreInv and CleanInv *)

LEMMA InitStop == Init => StopInv
<1> SUFFICES ASSUME Init PROVE StopInv
  OBVIOUS
<1>1. /\ inst = [i \in Instances |-> NoSession]
      /\ sessions = [d \in Ids |-> 0] /\ owed = [d \in Ids |-> 0]
      /\ saver["shutdown"] = IdleSaver /\ life = "running" /\ stopping = FALSE
  BY DEF Init, Fresh, Savers
<1>2. NoSession \in InstType
  BY DEF NoSession, InstType, SessionStates
<1> QED
  BY <1>1, <1>2 DEF StopInv, StopShape, IdleSaver

\* What a step must keep while the server stops, when the documents stay as
\* they are.
LEMMA KeptBy ==
    ASSUME StopInv, StopShape', owed' = owed, excused \subseteq excused', SameDocuments,
           life' \in {"shutdown", "exited"} => life \in {"shutdown", "exited"},
           Removing' <=> Removing,
           \A d \in Ids : Current(d)' /\ d \notin excused' /\ Removing /\ InCharge(d) =>
              text[documents[d]] >= owed[d] \/ InCharge(d)',
           \A d \in Ids : Current(d)' /\ d \notin excused' /\ ~ Removing
                /\ text[documents[d]] >= owed[d] /\ ToBeSaved(d) => ToBeSaved(d)',
           \A d \in Ids : Current(d)' /\ ~ Removing /\ text[documents[d]] >= owed[d] /\ Settled(d) =>
              \A s \in Savers : saver'[s].pc \in Writing /\ Number(s)' = d =>
                  saver'[s].content >= owed[d]
    PROVE  StopInv'
<1> SUFFICES ASSUME NEW d \in Ids, life' \in {"shutdown", "exited"}, Current(d)', d \notin excused'
             PROVE  Kept(d)'
  BY DEF StopInv
<1>1. /\ SameDocument(d) /\ Current(d) /\ documents'[d] = documents[d]
      /\ text'[documents[d]] = text[documents[d]]
      /\ path'[d] = path[d] /\ data'[path[d]] = data[path[d]]
  BY DEF SameDocuments, SameDocument
<1>2. Kept(d)
  BY <1>1 DEF StopInv
<1>3. CASE Removing
  BY <1>1, <1>2, <1>3 DEF Kept
<1>4. CASE ~ Removing
  <2>1. text[documents[d]] >= owed[d] /\ (ToBeSaved(d) \/ Settled(d))
    BY <1>2, <1>4 DEF Kept
  <2>2. CASE ToBeSaved(d)
    BY <1>1, <1>4, <2>1, <2>2 DEF Kept
  <2>3. CASE Settled(d)
    <3>1. Settled(d)'
      BY <1>1, <1>4, <2>1, <2>3 DEF Settled
    <3> QED
      BY <1>1, <1>4, <2>1, <3>1 DEF Kept
  <2> QED
    BY <2>1, <2>2, <2>3
<1> QED
  BY <1>3, <1>4

\* A step of the autosave thread.
LEMMA AutosaveKeeps ==
    ASSUME StopInv, SameDocuments, saver'["shutdown"] = saver["shutdown"],
           UNCHANGED <<life, id, inst, sessions, mutex, owed, excused, stopping, next_doc_id,
                       documents>>,
           \A d \in Ids : Current(d)' /\ text[documents[d]] >= owed[d] /\ Settled(d)
                /\ saver'["autosave"].pc \in Writing /\ Number("autosave")' = d =>
                    saver'["autosave"].content >= owed[d]
    PROVE  StopInv'
<1>1. StopShape'
  BY DEF StopInv, StopShape
<1>2. Removing' <=> Removing
  BY DEF Removing
<1>3. ASSUME NEW d \in Ids, Current(d)'
      PROVE  (InCharge(d) => InCharge(d)') /\ (ToBeSaved(d) => ToBeSaved(d)')
  BY <1>3 DEF SameDocuments, SameDocument, InCharge, ToBeSaved
<1>4. \A d \in Ids : Settled(d) /\ saver'["shutdown"].pc \in Writing /\ Number("shutdown")' = d =>
          saver'["shutdown"].content >= owed[d]
  BY DEF Settled, Number, Savers
<1>5. ASSUME NEW d \in Ids, Current(d)', text[documents[d]] >= owed[d], Settled(d), NEW s \in Savers,
             saver'[s].pc \in Writing, Number(s)' = d
      PROVE  saver'[s].content >= owed[d]
  BY <1>4, <1>5 DEF Savers
<1> QED
  BY <1>1, <1>2, <1>3, <1>5, KeptBy

\* A step of force_save_all.
LEMMA ShutdownKeeps ==
    ASSUME StopInv, SameDocuments, saver'["autosave"] = saver["autosave"],
           UNCHANGED <<life, id, inst, sessions, mutex, owed, stopping, next_doc_id, documents>>,
           excused \subseteq excused', Alive,
           saver["shutdown"].pc \notin {"wait", "removing", "saved"},
           saver'["shutdown"].pc \notin {"wait", "removing"},
           saver'["shutdown"].pc = "saved" => saver'["shutdown"].docs = {},
           \A d \in Ids : Current(d)' /\ d \notin excused' /\ text[documents[d]] >= owed[d]
                /\ ToBeSaved(d) => ToBeSaved(d)',
           \A d \in Ids : Current(d)' /\ text[documents[d]] >= owed[d] /\ Settled(d)
                /\ saver'["shutdown"].pc \in Writing /\ Number("shutdown")' = d =>
                    saver'["shutdown"].content >= owed[d]
    PROVE  StopInv'
<1>1. life = "shutdown" /\ ~ stopping
  BY DEF StopInv, StopShape, Alive
<1>2. StopShape'
  BY <1>1 DEF StopInv, StopShape
<1>3. ~ Removing' /\ ~ Removing
  BY DEF Removing
<1>4. \A d \in Ids : Settled(d) /\ saver'["autosave"].pc \in Writing /\ Number("autosave")' = d =>
          saver'["autosave"].content >= owed[d]
  BY DEF Settled, Number, Savers
<1>5. ASSUME NEW d \in Ids, Current(d)', text[documents[d]] >= owed[d], Settled(d), NEW s \in Savers,
             saver'[s].pc \in Writing, Number(s)' = d
      PROVE  saver'[s].content >= owed[d]
  BY <1>4, <1>5 DEF Savers
<1> QED
  BY <1>2, <1>3, <1>5, KeptBy

LEMMA StopAutosaveRound ==
    ASSUME StoreInv, CleanInv, StopInv,
           \/ StartRound \/ EndAutosave \/ NextDocument("autosave") \/ OpenFails("autosave")
           \/ MarkSaved("autosave") \/ maybe_create_snapshot
    PROVE  StopInv'
<1>1. "autosave" \in Savers /\ "shutdown" \in Savers
  BY DEF Savers
<1>2. Releases("autosave")
  BY AutosaveReleases
<1>3. SameDocuments
  BY <1>1, CleanRound, CleanMark
<1>4. UNCHANGED <<life, id, inst, sessions, mutex, owed, excused, stopping, next_doc_id, documents>>
  BY DEF StartRound, EndAutosave, NextDocument, OpenFails, MarkSaved, maybe_create_snapshot,
         CheckSnapshot, SnapshotContent, SnapshotWrite, SnapshotFails, SnapshotMark,
         docVars, managerVars, fileVars, historyVars
<1> QED
  BY <1>1, <1>2, <1>3, <1>4, AutosaveKeeps DEF Releases, Holding, Writing

\* A document that is Current has one object: a thread that saves its number
\* has this one.
LEMMA CurrentObject ==
    ASSUME StoreInv, NEW s \in Savers, saver[s].pc \in Busy, Current(Number(s))
    PROVE  documents[Number(s)] = saver[s].obj
<1>1. Number(s) \in Ids /\ saver[s].obj \in Objects
  BY BusyNumber DEF Live
<1>2. documents[Number(s)] \in Objects /\ id[documents[Number(s)]] = Number(s)
  BY <1>1 DEF StoreInv, StoreShape, Numbers, Current
<1> QED
  BY <1>1, <1>2 DEF Current, Number

\* The autosave thread takes a text that has everything, or has taken one.
LEMMA StopAutosaveWrites ==
    ASSUME StoreInv, StoreInv', CleanInv, StopInv,
           GetContent("autosave") \/ OpenTmp("autosave") \/ WriteTmp("autosave")
    PROVE  StopInv'
<1>1. /\ "autosave" \in Savers /\ "shutdown" \in Savers /\ saver \in [Savers -> SaverType]
  BY DEF Savers, StoreInv, StoreShape
<1>2. SameDocuments
  BY <1>1, CleanGetContent, CleanOpenTmp, CleanWriteTmp
<1>3. UNCHANGED <<life, inst, sessions, mutex, owed, excused, stopping, next_doc_id, documents, id>>
  BY DEF GetContent, OpenTmp, WriteTmp, docVars, managerVars, historyVars
<1>4. /\ saver'["shutdown"] = saver["shutdown"] /\ saver'["autosave"].obj = saver["autosave"].obj
      /\ Number("autosave")' = Number("autosave")
  <2>1. CASE GetContent("autosave")
    BY <1>1, <1>3, <2>1 DEF GetContent, SaverType, Number
  <2>2. CASE OpenTmp("autosave")
    BY <1>1, <1>3, <2>2 DEF OpenTmp, SaverType, Number
  <2>3. CASE WriteTmp("autosave")
    BY <1>1, <1>3, <2>3 DEF WriteTmp, SaverType, Number
  <2> QED
    BY <2>1, <2>2, <2>3
<1>5. ASSUME NEW d \in Ids, Current(d)', text[documents[d]] >= owed[d], Settled(d),
             Number("autosave")' = d
      PROVE  saver'["autosave"].content >= owed[d]
  <2>1. CASE GetContent("autosave")
    <3>1. saver["autosave"].pc \in Busy /\ saver'["autosave"].content = text[saver["autosave"].obj]
      BY <1>1, <2>1 DEF GetContent, At, SaverType, Busy
    <3>2. Current(Number("autosave")) /\ Number("autosave") = d
      BY <1>2, <1>4, <1>5 DEF SameDocuments, SameDocument
    <3> QED
      BY <1>1, <1>5, <3>1, <3>2, CurrentObject
  <2>2. CASE OpenTmp("autosave")
    BY <1>1, <1>4, <1>5, <2>2 DEF OpenTmp, At, SaverType, Settled, Writing
  <2>3. CASE WriteTmp("autosave")
    BY <1>1, <1>4, <1>5, <2>3 DEF WriteTmp, At, SaverType, Settled, Writing
  <2> QED
    BY <2>1, <2>2, <2>3
<1> QED
  BY <1>2, <1>3, <1>4, <1>5, AutosaveKeeps

\* Both threads: the renamed file has the text that was taken.
LEMMA StopRename ==
    ASSUME StoreInv, CleanInv, StopInv, NEW s \in Savers, RenameTmp(s)
    PROVE  StopInv'
<1>1. /\ saver \in [Savers -> SaverType] /\ saver[s].pc = "rename"
      /\ "autosave" \in Savers /\ "shutdown" \in Savers
  BY DEF StoreInv, StoreShape, RenameTmp, At, Savers
<1>2. /\ \A e \in Ids : Current(e)' /\ e # Number(s) => SameDocument(e)
      /\ \A e \in Ids : Current(e)' /\ e = Number(s) =>
            /\ Current(e) /\ documents[e] = saver[s].obj
            /\ data'[path'[e]] = saver[s].content
  BY CleanRename
<1>3. /\ Goto(s, "mark") /\ Alive
      /\ UNCHANGED <<life, id, text, inst, sessions, mutex, owed, excused, stopping, next_doc_id,
                     documents>>
  BY DEF RenameTmp, At, docVars, managerVars
<1>4. /\ saver'[s].pc = "mark" /\ saver'[s].docs = saver[s].docs
      /\ \A t \in Savers \ {s} : saver'[t] = saver[t]
  BY <1>1, <1>3 DEF Goto, SaverType
<1>5. Removing' <=> Removing
  BY <1>1, <1>4 DEF Removing, Savers
<1>6. StopShape'
  BY <1>1, <1>3, <1>4 DEF StopInv, StopShape, Savers
<1> SUFFICES ASSUME NEW d \in Ids, life \in {"shutdown", "exited"}, Current(d)', d \notin excused
             PROVE  Kept(d)'
  BY <1>3, <1>6 DEF StopInv
<1>7. Current(d) /\ Kept(d)
  BY <1>2 DEF SameDocument, StopInv
<1>8. CASE Removing
  <2>1. saver'["shutdown"] = saver["shutdown"]
    BY <1>1, <1>4, <1>8 DEF Removing
  <2>2. InCharge(d) => InCharge(d)'
    BY <1>3, <2>1 DEF InCharge
  <2> QED
    BY <1>3, <1>5, <1>7, <1>8, <2>2 DEF Kept
<1>9. CASE ~ Removing
  <2>1. text'[documents'[d]] >= owed'[d] /\ (ToBeSaved(d) \/ Settled(d))
    BY <1>3, <1>7, <1>9 DEF Kept
  <2>2. CASE d = Number(s)
    <3>1. documents[d] = saver[s].obj /\ data'[path'[d]] = saver[s].content
      BY <1>2, <2>2
    <3>2. CASE s = "shutdown"
      <4>1. \/ documents[d] \in saver'["shutdown"].docs
            \/ saver[s].content >= owed[d]
        BY <1>1, <1>4, <2>1, <2>2, <3>2 DEF ToBeSaved, Settled, Writing
      <4>2. ~ (saver["autosave"].pc \in Busy /\ Number("autosave") = d)
        BY <1>1, <1>7, <2>2, <3>2, OnlyOne DEF Busy
      <4>3. saver'["autosave"] = saver["autosave"] /\ Number("autosave")' = Number("autosave")
        BY <1>1, <1>3, <1>4, <3>2 DEF Number
      <4>4. ASSUME NEW t \in Savers, saver'[t].pc \in Writing, Number(t)' = d PROVE FALSE
        BY <1>4, <3>2, <4>2, <4>3, <4>4 DEF Writing, Busy, Savers
      <4>5. saver[s].content >= owed[d] => Settled(d)'
        BY <1>3, <3>1, <4>4 DEF Settled
      <4> QED
        BY <1>3, <1>5, <1>9, <2>1, <4>1, <4>5 DEF Kept, ToBeSaved
    <3>3. CASE s = "autosave"
      <4>1. saver'["shutdown"] = saver["shutdown"] /\ saver'["autosave"].pc = "mark"
        BY <1>1, <1>4, <3>3
      <4>2. ToBeSaved(d) => ToBeSaved(d)'
        BY <1>3, <4>1 DEF ToBeSaved
      <4>3. Settled(d) => Settled(d)'
        BY <1>1, <1>3, <2>2, <3>1, <3>3, <4>1 DEF Settled, Writing, Savers, Number
      <4> QED
        BY <1>5, <1>9, <2>1, <4>2, <4>3 DEF Kept
    <3> QED
      BY <3>2, <3>3 DEF Savers
  <2>3. CASE d # Number(s)
    <3>1. SameDocument(d)
      BY <1>2, <2>3
    <3>2. documents[d] # saver[s].obj
      BY <1>7, <2>3 DEF Current, StoreInv, StoreShape, Numbers, Number
    <3>3. ToBeSaved(d) => ToBeSaved(d)'
      <4>1. CASE s = "shutdown"
        BY <1>3, <1>4, <3>2, <4>1 DEF ToBeSaved
      <4>2. CASE s = "autosave"
        BY <1>1, <1>3, <1>4, <4>2 DEF ToBeSaved
      <4> QED
        BY <4>1, <4>2 DEF Savers
    <3>4. Settled(d) => Settled(d)'
      <4>1. \A t \in Savers : saver'[t].pc \in Writing =>
                saver'[t] = saver[t] /\ Number(t)' = Number(t)
        BY <1>3, <1>4 DEF Writing, Number
      <4> QED
        BY <1>3, <3>1, <4>1 DEF Settled, SameDocument
    <3> QED
      BY <1>5, <1>9, <2>1, <3>3, <3>4 DEF Kept
  <2> QED
    BY <2>2, <2>3
<1> QED
  BY <1>8, <1>9

\* Every step of force_save_all between NextDocument and MarkSaved.
LEMMA StopShutdownSaves ==
    ASSUME StoreInv, StoreInv', CleanInv, StopInv,
           \/ NextDocument("shutdown") \/ GetContent("shutdown") \/ OpenTmp("shutdown")
           \/ OpenFails("shutdown") \/ WriteTmp("shutdown") \/ MarkSaved("shutdown")
    PROVE  StopInv'
<1> DEFINE S == saver["shutdown"]
           T == saver'["shutdown"]
<1>1. /\ "autosave" \in Savers /\ "shutdown" \in Savers /\ saver \in [Savers -> SaverType]
  BY DEF Savers, StoreInv, StoreShape
<1>2. SameDocuments
  BY <1>1, CleanRound, CleanGetContent, CleanOpenTmp, CleanWriteTmp, CleanMark
<1>3. /\ UNCHANGED <<life, id, inst, sessions, mutex, owed, stopping, next_doc_id, documents>>
      /\ excused \subseteq excused' /\ Alive
  BY DEF NextDocument, GetContent, OpenTmp, OpenFails, WriteTmp, MarkSaved, At, docVars,
         managerVars, historyVars
<1>4. ASSUME NEW d \in Ids, Current(d)'
      PROVE  /\ documents[d] \in Objects /\ id[documents[d]] = d
             /\ documents'[d] = documents[d] /\ Current(d)
  BY <1>2, <1>4 DEF SameDocuments, SameDocument, Current, StoreInv, StoreShape, Numbers
<1>5. CASE NextDocument("shutdown")
  <2>1. CASE S.docs = {} /\ Goto("shutdown", "saved")
    <3>1. /\ S.pc = "loop" /\ T.pc = "saved" /\ T.docs = {}
          /\ saver'["autosave"] = saver["autosave"]
      BY <1>1, <1>5, <2>1 DEF NextDocument, At, Goto, SaverType
    <3>2. \A d \in Ids : ~ ToBeSaved(d)
      BY <2>1, <3>1 DEF ToBeSaved
    <3> QED
      BY <1>2, <1>3, <3>1, <3>2, ShutdownKeeps DEF Writing
  <2>2. CASE \E o \in S.docs :
                saver' = [saver EXCEPT !["shutdown"].docs = @ \ {o}, !["shutdown"].obj = o,
                                       !["shutdown"].pc = "content"]
    <3>1. PICK o \in S.docs :
             saver' = [saver EXCEPT !["shutdown"].docs = @ \ {o}, !["shutdown"].obj = o,
                                    !["shutdown"].pc = "content"]
      BY <2>2
    <3>2. /\ S.pc = "loop" /\ T.pc = "content" /\ T.docs = S.docs \ {o} /\ T.obj = o
          /\ saver'["autosave"] = saver["autosave"]
      <4>1. S.pc = "loop"
        BY <1>5 DEF NextDocument, At
      <4> QED
        BY <1>1, <3>1, <4>1 DEF SaverType
    <3>3. \A d \in Ids : Current(d)' /\ ToBeSaved(d) => ToBeSaved(d)'
      BY <1>4, <3>2 DEF ToBeSaved
    <3> QED
      BY <1>2, <1>3, <3>2, <3>3, ShutdownKeeps DEF Writing
  <2> QED
    BY <1>5, <2>1, <2>2 DEF NextDocument
<1>6. CASE GetContent("shutdown")
  <2>1. /\ S.pc = "content" /\ T.pc = "open" /\ T.docs = S.docs /\ T.obj = S.obj
        /\ T.content = text[S.obj] /\ saver'["autosave"] = saver["autosave"]
    BY <1>1, <1>6 DEF GetContent, At, SaverType
  <2>2. \A d \in Ids : Current(d)' /\ text[documents[d]] >= owed[d] /\ ToBeSaved(d) => ToBeSaved(d)'
    BY <1>3, <1>4, <2>1 DEF ToBeSaved
  <2>3. ASSUME NEW d \in Ids, Current(d)', text[documents[d]] >= owed[d], Number("shutdown")' = d
        PROVE  T.content >= owed[d]
    <3>1. Number("shutdown") = d /\ Current(Number("shutdown"))
      BY <1>3, <1>4, <2>1, <2>3 DEF Number
    <3> QED
      BY <1>1, <2>1, <2>3, <3>1, CurrentObject DEF Busy
  <2> QED
    BY <1>2, <1>3, <2>1, <2>2, <2>3, ShutdownKeeps
<1>7. CASE OpenTmp("shutdown") \/ WriteTmp("shutdown")
  <2>1. /\ S.pc \in {"open", "write"} /\ T.pc \in {"write", "rename"}
        /\ T.docs = S.docs /\ T.obj = S.obj /\ T.content = S.content
        /\ saver'["autosave"] = saver["autosave"]
    <3>1. CASE OpenTmp("shutdown")
      BY <1>1, <3>1 DEF OpenTmp, At, SaverType
    <3>2. CASE WriteTmp("shutdown")
      BY <1>1, <3>2 DEF WriteTmp, At, SaverType
    <3> QED
      BY <1>7, <3>1, <3>2
  <2>2. \A d \in Ids : Current(d)' /\ ToBeSaved(d) => ToBeSaved(d)'
    BY <1>3, <1>4, <2>1 DEF ToBeSaved
  <2>3. \A d \in Ids : Settled(d) /\ Number("shutdown")' = d => T.content >= owed[d]
    BY <1>1, <1>3, <2>1 DEF Settled, Writing, Number
  <2> QED
    BY <1>2, <1>3, <2>1, <2>2, <2>3, ShutdownKeeps
<1>8. CASE OpenFails("shutdown") \/ MarkSaved("shutdown")
  <2>1. /\ S.pc \in {"open", "mark"} /\ T.pc = "loop" /\ T.docs = S.docs
        /\ saver'["autosave"] = saver["autosave"]
    BY <1>1, <1>8 DEF OpenFails, MarkSaved, At, GotoFresh, AfterSave, SaverType
  <2>2. S.pc = "open" => Number("shutdown") \in excused'
    BY <1>8 DEF OpenFails, MarkSaved, At
  <2>3. ASSUME NEW d \in Ids, Current(d)', d \notin excused', ToBeSaved(d) PROVE ToBeSaved(d)'
    <3>1. S.pc = "open" => documents[d] # S.obj
      BY <1>4, <2>2, <2>3 DEF Number
    <3> QED
      BY <1>4, <2>1, <2>3, <3>1 DEF ToBeSaved
  <2> QED
    BY <1>2, <1>3, <2>1, <2>3, ShutdownKeeps DEF Writing
<1> QED
  BY <1>5, <1>6, <1>7, <1>8

\* The sessions that have not been waited for are on the list.
LEMMA StopListed ==
    ASSUME StoreInv, CleanInv, StopInv, all_active_doc_ids
    PROVE  StopInv'
<1>1. /\ "autosave" \in Savers /\ "shutdown" \in Savers /\ saver \in [Savers -> SaverType]
  BY DEF Savers, StoreInv, StoreShape
<1>2. SameDocuments
  BY CleanRound
<1>3. /\ saver["shutdown"].pc = "wait" /\ life = "shutdown"
      /\ saver'["shutdown"].pc = "removing"
      /\ saver'["shutdown"].docs = {d \in Ids : sessions[d] # 0}
      /\ saver'["autosave"] = saver["autosave"]
      /\ UNCHANGED <<life, id, inst, sessions, mutex, owed, excused, stopping, next_doc_id, documents>>
  BY <1>1 DEF all_active_doc_ids, SaverType, docVars, managerVars, historyVars
<1>4. StopShape'
  BY <1>3 DEF StopInv, StopShape
<1>5. Removing /\ Removing'
  BY <1>3 DEF Removing
<1>6. ASSUME NEW d \in Ids, Current(d)', InCharge(d) PROVE InCharge(d)'
  <2>1. 0 \notin Instances
    BY StorageAssumption
  <2> QED
    BY <1>2, <1>3, <1>6, <2>1 DEF SameDocuments, SameDocument, InCharge
<1> QED
  BY <1>2, <1>3, <1>4, <1>5, <1>6, KeptBy

\* All sessions have been waited for: what is in memory is all there is.
LEMMA StopForce ==
    ASSUME StoreInv, CleanInv, StopInv, force_save_all
    PROVE  StopInv'
<1>1. /\ "autosave" \in Savers /\ "shutdown" \in Savers /\ saver \in [Savers -> SaverType]
  BY DEF Savers, StoreInv, StoreShape
<1>2. SameDocuments
  BY CleanRound
<1>3. /\ saver["shutdown"].pc = "removing" /\ saver["shutdown"].docs = {} /\ mutex = <<"free", 0, 0>>
      /\ Alive /\ saver'["shutdown"].pc = "loop" /\ saver'["shutdown"].docs = Loaded
      /\ UNCHANGED <<life, inst, sessions, owed, excused, stopping, next_doc_id, documents>>
  BY <1>1 DEF force_save_all, At, SaverType, Unlocked, docVars, managerVars, historyVars
<1>4. StopShape'
  BY <1>3 DEF StopInv, StopShape, Alive
<1> SUFFICES ASSUME NEW d \in Ids, life \in {"shutdown", "exited"}, Current(d)', d \notin excused
             PROVE  Kept(d)'
  BY <1>3, <1>4 DEF StopInv
<1>5. /\ Current(d) /\ documents[d] \in Loaded /\ documents'[d] = documents[d]
      /\ text'[documents[d]] = text[documents[d]]
  BY <1>2 DEF SameDocuments, SameDocument, Current, Loaded
<1>6. Kept(d) /\ ~ InCharge(d)
  BY <1>3, <1>5 DEF StopInv, InCharge
<1> QED
  BY <1>3, <1>5, <1>6 DEF Kept, Removing, ToBeSaved

\* A step that leaves the threads that save and the files alone.
LEMMA SessionsKeep ==
    ASSUME StopInv, SameDocuments, UNCHANGED <<saver, owed>>, excused \subseteq excused',
           \A s \in Savers : saver[s].pc \in Busy => Number(s)' = Number(s),
           life' \in {"shutdown", "exited"} => life \in {"shutdown", "exited"}, StopShape',
           \A d \in Ids : Current(d)' /\ d \notin excused' /\ InCharge(d) =>
              text[documents[d]] >= owed[d] \/ InCharge(d)'
    PROVE  StopInv'
<1>1. Removing' <=> Removing
  BY DEF Removing
<1>2. \A d \in Ids : Current(d)' => (ToBeSaved(d) => ToBeSaved(d)')
  BY DEF SameDocuments, SameDocument, ToBeSaved
<1>3. \A d \in Ids, s \in Savers : Settled(d) /\ saver'[s].pc \in Writing /\ Number(s)' = d =>
          saver'[s].content >= owed[d]
  BY DEF Settled, Writing, Busy
<1> QED
  BY <1>1, <1>2, <1>3, KeptBy

\* Session i gets the state st and the numbers q and h.
InstBecomes(i, st, q, h) ==
    \E r \in InstType : /\ inst' = [inst EXCEPT ![i] = r]
                        /\ r.obj = inst[i].obj /\ r.state = st /\ r.queue = q /\ r.holding = h

LEMMA InstSteps ==
    ASSUME StopShape, NEW i \in Instances
    PROVE  /\ inst' = [inst EXCEPT ![i].holding = @ + 1] =>
                 InstBecomes(i, inst[i].state, inst[i].queue, inst[i].holding + 1)
           /\ inst[i].holding > 0 /\ inst' = [inst EXCEPT ![i].holding = @ - 1, ![i].queue = @ + 1] =>
                 InstBecomes(i, inst[i].state, inst[i].queue + 1, inst[i].holding - 1)
           /\ inst[i].queue > 0 /\ inst' = [inst EXCEPT ![i].queue = @ - 1] =>
                 InstBecomes(i, inst[i].state, inst[i].queue - 1, inst[i].holding)
           /\ \A st \in SessionStates : inst' = [inst EXCEPT ![i].state = st] =>
                 InstBecomes(i, st, inst[i].queue, inst[i].holding)
<1>1. inst[i] \in InstType /\ inst \in [Instances -> InstType]
  BY DEF StopShape
<1>2. inst[i].queue \in Nat /\ inst[i].holding \in Nat
  BY <1>1 DEF InstType
<1>3. ASSUME inst' = [inst EXCEPT ![i].holding = @ + 1]
      PROVE  InstBecomes(i, inst[i].state, inst[i].queue, inst[i].holding + 1)
  <2>1. PICK h \in Nat : h = inst[i].holding + 1
    BY <1>2
  <2> DEFINE r == [inst[i] EXCEPT !.holding = h]
  <2>2. inst' = [inst EXCEPT ![i] = r]
    BY <1>1, <1>3, <2>1
  <2>3. r \in InstType
    BY <1>1 DEF InstType
  <2>4. r.obj = inst[i].obj /\ r.state = inst[i].state /\ r.queue = inst[i].queue /\ r.holding = h
    BY <1>1 DEF InstType
  <2> QED
    BY <2>1, <2>2, <2>3, <2>4 DEF InstBecomes
<1>4. ASSUME inst[i].holding > 0, inst' = [inst EXCEPT ![i].holding = @ - 1, ![i].queue = @ + 1]
      PROVE  InstBecomes(i, inst[i].state, inst[i].queue + 1, inst[i].holding - 1)
  <2>1. PICK h \in Nat : h = inst[i].holding - 1
    BY <1>2, <1>4
  <2>2. PICK q \in Nat : q = inst[i].queue + 1
    BY <1>2
  <2> DEFINE r == [inst[i] EXCEPT !.holding = h, !.queue = q]
  <2>3. inst' = [inst EXCEPT ![i] = r]
    BY <1>1, <1>4, <2>1, <2>2 DEF InstType
  <2>4. r \in InstType
    BY <1>1 DEF InstType
  <2>5. r.obj = inst[i].obj /\ r.state = inst[i].state /\ r.queue = q /\ r.holding = h
    BY <1>1 DEF InstType
  <2> QED
    BY <2>1, <2>2, <2>3, <2>4, <2>5 DEF InstBecomes
<1>5. ASSUME inst[i].queue > 0, inst' = [inst EXCEPT ![i].queue = @ - 1]
      PROVE  InstBecomes(i, inst[i].state, inst[i].queue - 1, inst[i].holding)
  <2>1. PICK q \in Nat : q = inst[i].queue - 1
    BY <1>2, <1>5
  <2> DEFINE r == [inst[i] EXCEPT !.queue = q]
  <2>2. inst' = [inst EXCEPT ![i] = r]
    BY <1>1, <1>5, <2>1
  <2>3. r \in InstType
    BY <1>1 DEF InstType
  <2>4. r.obj = inst[i].obj /\ r.state = inst[i].state /\ r.queue = q /\ r.holding = inst[i].holding
    BY <1>1 DEF InstType
  <2> QED
    BY <2>1, <2>2, <2>3, <2>4 DEF InstBecomes
<1>6. ASSUME NEW st \in SessionStates, inst' = [inst EXCEPT ![i].state = st]
      PROVE  InstBecomes(i, st, inst[i].queue, inst[i].holding)
  <2> DEFINE r == [inst[i] EXCEPT !.state = st]
  <2>1. inst' = [inst EXCEPT ![i] = r]
    BY <1>1, <1>6
  <2>2. r \in InstType
    BY <1>1, <1>6 DEF InstType
  <2>3. r.obj = inst[i].obj /\ r.state = st /\ r.queue = inst[i].queue /\ r.holding = inst[i].holding
    BY <1>1 DEF InstType
  <2> QED
    BY <2>1, <2>2, <2>3 DEF InstBecomes
<1> QED
  BY <1>3, <1>4, <1>5, <1>6

LEMMA BecomesShape ==
    ASSUME StopShape, NEW i \in Instances, NEW st, NEW q, NEW h, InstBecomes(i, st, q, h)
    PROVE  /\ inst' \in [Instances -> InstType]
           /\ inst'[i].obj = inst[i].obj /\ inst'[i].state = st
           /\ inst'[i].queue = q /\ inst'[i].holding = h
           /\ \A k \in Instances \ {i} : inst'[k] = inst[k]
           /\ \A k \in Instances : inst[k].queue \in Nat /\ inst'[k].obj = inst[k].obj
<1>1. PICK r \in InstType : /\ inst' = [inst EXCEPT ![i] = r]
                            /\ r.obj = inst[i].obj /\ r.state = st /\ r.queue = q /\ r.holding = h
  BY DEF InstBecomes
<1>2. inst \in [Instances -> InstType]
  BY DEF StopShape
<1> QED
  BY <1>1, <1>2 DEF InstType

\* A session that gets operations, and one whose thread ends with an empty queue.
LEMMA SessionChanges ==
    ASSUME StoreInv, StopInv, SameDocuments, NEW i \in Instances, NEW st, NEW q, NEW h,
           InstBecomes(i, st, q, h), q >= inst[i].queue,
           st = inst[i].state \/ (inst[i].state = "stopping" /\ inst[i].queue = 0),
           UNCHANGED <<life, id, text, documents, sessions, mutex, owed, excused, saver, stopping,
                       next_doc_id>>
    PROVE  StopInv'
<1>1. /\ inst' \in [Instances -> InstType]
      /\ inst'[i].obj = inst[i].obj /\ inst'[i].state = st /\ inst'[i].queue = q
      /\ \A k \in Instances \ {i} : inst'[k] = inst[k]
      /\ inst[i].queue \in Nat /\ inst'[i].queue \in Nat
  BY BecomesShape DEF StopInv, InstType
<1>2. StopShape'
  BY <1>1 DEF StopInv, StopShape
<1>3. ASSUME NEW d \in Ids, Current(d)', InCharge(d) PROVE text[documents[d]] >= owed[d] \/ InCharge(d)'
  <2>1. PICK k \in Instances :
           /\ inst[k].obj = documents[d] /\ inst[k].state \in {"running", "stopping"}
           /\ text[documents[d]] + inst[k].queue >= owed[d]
           /\ \/ sessions[d] = k /\ (saver["shutdown"].pc = "wait" \/ d \in saver["shutdown"].docs)
              \/ mutex = <<"remove", d, k>>
    BY <1>3 DEF InCharge
  <2>2. text[documents[d]] \in Int /\ owed[d] \in Int
    BY <1>3 DEF StoreInv, StoreShape, StopInv, StopShape, Current
  <2>3. CASE k # i
    BY <1>1, <2>1, <2>3 DEF InCharge
  <2>4. CASE k = i /\ st = inst[i].state
    <3>1. text[documents[d]] + inst'[k].queue >= owed[d]
      BY <1>1, <2>1, <2>2, <2>4
    <3> QED
      BY <1>1, <2>1, <2>4, <3>1 DEF InCharge
  <2>5. CASE k = i /\ inst[i].queue = 0
    BY <2>1, <2>2, <2>5
  <2> QED
    BY <2>3, <2>4, <2>5
<1> QED
  BY <1>2, <1>3, SessionsKeep DEF Number

LEMMA StopSessions ==
    ASSUME StoreInv, CleanInv, StopInv,
           \/ \E d \in Ids : get_session(d)
           \/ \E i \in Instances : enqueue_operation(i) \/ EndSession(i)
    PROVE  StopInv'
<1>1. SameDocuments
  BY CleanOutside
<1>2. UNCHANGED <<life, id, text, documents, sessions, mutex, owed, excused, saver, stopping, next_doc_id>>
  BY DEF get_session, enqueue_operation, EndSession, docVars, managerVars, historyVars
<1>3. StopShape /\ "ended" \in SessionStates
  BY DEF StopInv, SessionStates
<1>4. \A i \in Instances : inst[i].queue \in Nat
  BY <1>3 DEF StopShape, InstType
<1>5. ASSUME NEW d \in Ids, get_session(d) PROVE StopInv'
  <2>1. PICK i \in Instances : i = sessions[d]
    BY <1>3, <1>5 DEF get_session, StopShape
  <2>2. InstBecomes(i, inst[i].state, inst[i].queue, inst[i].holding + 1)
    BY <1>3, <1>5, <2>1, InstSteps DEF get_session
  <2> QED
    BY <1>1, <1>2, <1>4, <2>2, SessionChanges
<1>6. ASSUME NEW i \in Instances, enqueue_operation(i) PROVE StopInv'
  <2>1. InstBecomes(i, inst[i].state, inst[i].queue + 1, inst[i].holding - 1)
    BY <1>3, <1>6, InstSteps DEF enqueue_operation
  <2> QED
    BY <1>1, <1>2, <1>4, <2>1, SessionChanges
<1>7. ASSUME NEW i \in Instances, EndSession(i) PROVE StopInv'
  <2>1. InstBecomes(i, "ended", inst[i].queue, inst[i].holding)
    BY <1>3, <1>7, InstSteps DEF EndSession
  <2>2. inst[i].state = "stopping" /\ inst[i].queue = 0
    BY <1>7 DEF EndSession
  <2> QED
    BY <1>1, <1>2, <1>4, <2>1, <2>2, SessionChanges
<1> QED
  BY <1>5, <1>6, <1>7

\* Steps that leave the sessions alone, and the end of a critical section.
LEMMA StopQuiet ==
    ASSUME StoreInv, CleanInv, StopInv,
           \/ \E d \in Ids : load_from_disk(d) \/ late_grant(d)
           \/ StopAutosave \/ ExitProcess \/ finish_delete \/ finish_remove \/ UNCHANGED vars
    PROVE  StopInv'
<1>1. SameDocuments
  BY CleanOutside, CleanFinishDelete
<1>2. /\ UNCHANGED <<id, text, documents, next_doc_id, saver, owed, sessions, inst>>
      /\ excused \subseteq excused'
  BY DEF load_from_disk, late_grant, StopAutosave, ExitProcess, finish_delete,
         finish_remove, vars, docVars, managerVars, historyVars
<1>3. CASE finish_delete \/ finish_remove
  <2>1. UNCHANGED <<life, stopping>>
    BY <1>3 DEF finish_delete, finish_remove
  <2>2. StopShape'
    BY <1>2, <2>1 DEF StopInv, StopShape
  <2>3. ASSUME NEW d \in Ids, Current(d)', d \notin excused', InCharge(d) PROVE InCharge(d)'
    <3>1. PICK k \in Instances :
             /\ inst[k].obj = documents[d] /\ inst[k].state \in {"running", "stopping"}
             /\ text[documents[d]] + inst[k].queue >= owed[d]
             /\ \/ sessions[d] = k /\ (saver["shutdown"].pc = "wait" \/ d \in saver["shutdown"].docs)
                \/ mutex = <<"remove", d, k>>
      BY <2>3 DEF InCharge
    <3>2. ASSUME mutex = <<"remove", d, k>> PROVE FALSE
      <4>1. mutex[1] = "remove" /\ mutex[2] = d /\ mutex[3] = k
        BY <3>2
      <4> QED
        BY <1>3, <2>3, <3>1, <4>1 DEF finish_delete, finish_remove
    <3> QED
      BY <1>2, <3>1, <3>2 DEF InCharge
  <2> QED
    BY <1>1, <1>2, <2>1, <2>2, <2>3, SessionsKeep DEF Number
<1>4. CASE ~ (finish_delete \/ finish_remove)
  <2>1. /\ mutex' = mutex
        /\ life' \in {"shutdown", "exited"} => life \in {"shutdown", "exited"}
    BY <1>4 DEF load_from_disk, late_grant, StopAutosave, ExitProcess, vars, managerVars
  <2>2. StopShape'
    BY <1>2, <1>4 DEF StopInv, StopShape, load_from_disk, late_grant, StopAutosave, ExitProcess, vars
  <2>3. \A d \in Ids : InCharge(d) => InCharge(d)'
    BY <1>2, <2>1 DEF InCharge
  <2> QED
    BY <1>1, <1>2, <2>1, <2>2, <2>3, SessionsKeep DEF Number
<1> QED
  BY <1>3, <1>4

\* A session belongs to one document.
LEMMA SessionsApart ==
    ASSUME StoreInv, StopShape, NEW d \in Ids, NEW e \in Ids, sessions[d] # 0, sessions[d] = sessions[e]
    PROVE  d = e
  BY DEF StopShape, StoreInv, Numbers

LEMMA StopGetDocument ==
    ASSUME StoreInv, CleanInv, StopInv, NEW d \in Ids, get_document(d)
    PROVE  StopInv'
<1>1. SameDocuments
  BY CleanGetDocument
<1>2. UNCHANGED <<life, stopping, saver, owed, sessions, inst, mutex, excused>>
  BY DEF get_document, historyVars
<1>3. PICK l \in loading :
         /\ l[1] = d
         /\ IF documents[d] = 0 THEN NewObject(d, l[2]) ELSE UNCHANGED <<docVars, documents>>
         /\ next_doc_id' = IF documents[d] = 0 /\ d >= next_doc_id THEN d + 1 ELSE next_doc_id
  BY DEF get_document
<1>4. /\ StoreShape /\ StopShape /\ ObjectsLeft /\ l[2] \in Int
      /\ next_doc_id' = next_doc_id
  <2>1. StoreShape /\ StopShape /\ ObjectsLeft
    BY DEF StoreInv, StopInv, get_document
  <2>2. l[2] \in Int /\ d < next_doc_id
    BY <1>3 DEF StoreInv, Texts
  <2>3. d \in Nat /\ next_doc_id \in Nat
    BY <2>1, StorageAssumption DEF StoreShape
  <2> QED
    BY <1>3, <2>1, <2>2, <2>3
<1>5. /\ \A e \in Ids : documents[e] # 0 => documents'[e] = documents[e]
      /\ \A o \in Live : id'[o] = id[o]
  <2>1. CASE documents[d] = 0
    <3>1. PICK o \in Objects :
             /\ id[o] = 0 /\ \A p \in Objects \ {o} : id'[p] = id[p]
             /\ \A e \in Ids \ {d} : documents'[e] = documents[e]
      BY <1>3, <1>4, <2>1, NewObjectShape
    <3> QED
      BY <2>1, <3>1 DEF Live
  <2>2. CASE documents[d] # 0
    BY <1>3, <2>2 DEF docVars
  <2> QED
    BY <2>1, <2>2
<1>6. \A s \in Savers : saver[s].pc \in Busy => Number(s)' = Number(s)
  BY <1>2, <1>5, BusyNumber DEF Number
<1>7. StopShape'
  BY <1>2, <1>4, <1>5 DEF StopShape
<1>8. ASSUME NEW e \in Ids, Current(e)', InCharge(e) PROVE InCharge(e)'
  BY <1>1, <1>2, <1>8 DEF InCharge, SameDocuments, SameDocument
<1> QED
  BY <1>1, <1>2, <1>6, <1>7, <1>8, SessionsKeep

LEMMA StopGetSession ==
    ASSUME StoreInv, CleanInv, StopInv, NEW d \in Ids, get_or_create_session(d)
    PROVE  StopInv'
<1>1. SameDocuments
  BY CleanOutside
<1>2. /\ UNCHANGED <<life, id, text, documents, next_doc_id, stopping, saver, owed, mutex, excused>>
      /\ documents[d] # 0 /\ sessions[d] = 0
  BY DEF get_or_create_session, docVars, historyVars
<1>3. StopShape /\ inst \in [Instances -> InstType] /\ sessions \in [Ids -> Instances \cup {0}]
  BY DEF StopInv, StopShape
<1> DEFINE r == [NoSession EXCEPT !.obj = documents[d], !.state = "running"]
<1>4. PICK i \in Instances : /\ inst[i].state = "none" /\ inst' = [inst EXCEPT ![i] = r]
                             /\ sessions' = [sessions EXCEPT ![d] = i]
  BY DEF get_or_create_session
<1>5. r \in InstType /\ r.obj = documents[d] /\ r.state = "running"
  <2>1. documents[d] \in Objects \cup {0}
    BY DEF StoreInv, StoreShape
  <2> QED
    BY <2>1 DEF NoSession, InstType, SessionStates
<1> HIDE DEF r
<1>6. /\ inst' \in [Instances -> InstType] /\ sessions' \in [Ids -> Instances \cup {0}]
      /\ inst'[i] = r /\ \A k \in Instances \ {i} : inst'[k] = inst[k]
      /\ sessions'[d] = i /\ \A e \in Ids \ {d} : sessions'[e] = sessions[e]
  BY <1>3, <1>4, <1>5
<1>7. ASSUME NEW e \in Ids, sessions'[e] # 0
      PROVE  /\ documents'[e] # 0 /\ inst'[sessions'[e]].obj = documents'[e]
             /\ inst'[sessions'[e]].state = "running"
  <2>1. CASE e = d
    BY <1>2, <1>5, <1>6, <2>1
  <2>2. CASE e # d
    <3>1. /\ sessions'[e] = sessions[e] /\ sessions[e] \in Instances
          /\ documents[e] # 0 /\ inst[sessions[e]].obj = documents[e]
          /\ inst[sessions[e]].state = "running"
      BY <1>3, <1>6, <1>7, <2>2 DEF StopShape
    <3>2. sessions[e] # i
      BY <1>4, <3>1
    <3> QED
      BY <1>2, <1>6, <3>1, <3>2
  <2> QED
    BY <2>1, <2>2
<1>8. StopShape'
  BY <1>2, <1>3, <1>6, <1>7 DEF StopShape
<1>9. ASSUME NEW e \in Ids, Current(e)', InCharge(e) PROVE InCharge(e)'
  <2>1. PICK k \in Instances :
           /\ inst[k].obj = documents[e] /\ inst[k].state \in {"running", "stopping"}
           /\ text[documents[e]] + inst[k].queue >= owed[e]
           /\ \/ sessions[e] = k /\ (saver["shutdown"].pc = "wait" \/ e \in saver["shutdown"].docs)
              \/ mutex = <<"remove", e, k>>
    BY <1>9 DEF InCharge
  <2>2. k # i /\ k # 0
    BY <1>4, <2>1, StorageAssumption
  <2>3. inst'[k] = inst[k]
    BY <1>6, <2>2
  <2>4. sessions[e] = k => sessions'[e] = k
    BY <1>2, <1>6, <2>2
  <2> QED
    BY <1>2, <2>1, <2>3, <2>4 DEF InCharge
<1> QED
  BY <1>1, <1>2, <1>8, <1>9, SessionsKeep DEF Number

\* request_stop: the session that leaves the map goes on until its queue is
\* empty; the sessions of the other documents stay.
LEMMA RemovedShape ==
    ASSUME StoreInv, StopShape, NEW d \in Ids, sessions[d] # 0, Removed(d, sessions[d])
    PROVE  /\ inst' \in [Instances -> InstType] /\ sessions' \in [Ids -> Instances \cup {0}]
           /\ sessions[d] \in Instances
           /\ inst'[sessions[d]].state = "stopping"
           /\ inst'[sessions[d]].queue = inst[sessions[d]].queue
           /\ \A k \in Instances : inst'[k].obj = inst[k].obj
           /\ \A k \in Instances \ {sessions[d]} : inst'[k] = inst[k]
           /\ sessions'[d] = 0
           /\ \A e \in Ids \ {d} : sessions'[e] = sessions[e]
           /\ \A e \in Ids : sessions'[e] # 0 =>
                 /\ sessions'[e] \in Instances /\ inst'[sessions'[e]] = inst[sessions[e]]
                 /\ documents[e] # 0 /\ inst[sessions[e]].obj = documents[e]
                 /\ inst[sessions[e]].state = "running"
<1>1. sessions \in [Ids -> Instances \cup {0}]
  BY DEF StopShape
<1>2. PICK i \in Instances : i = sessions[d]
  BY <1>1
<1>3. /\ inst' = [inst EXCEPT ![i].state = "stopping"] /\ sessions' = [sessions EXCEPT ![d] = 0]
      /\ "stopping" \in SessionStates
  BY <1>2 DEF Removed, SessionStates
<1>4. InstBecomes(i, "stopping", inst[i].queue, inst[i].holding)
  BY <1>3, InstSteps
<1>5. /\ inst' \in [Instances -> InstType] /\ inst'[i].state = "stopping"
      /\ inst'[i].queue = inst[i].queue
      /\ \A k \in Instances \ {i} : inst'[k] = inst[k]
      /\ \A k \in Instances : inst'[k].obj = inst[k].obj
  BY <1>4, BecomesShape
<1>6. /\ sessions' \in [Ids -> Instances \cup {0}] /\ sessions'[d] = 0
      /\ \A e \in Ids \ {d} : sessions'[e] = sessions[e]
  BY <1>1, <1>3
<1>7. ASSUME NEW e \in Ids, sessions'[e] # 0
      PROVE  /\ sessions'[e] \in Instances /\ inst'[sessions'[e]] = inst[sessions[e]]
             /\ documents[e] # 0 /\ inst[sessions[e]].obj = documents[e]
             /\ inst[sessions[e]].state = "running"
  <2>1. e # d /\ sessions'[e] = sessions[e] /\ sessions[e] \in Instances
    BY <1>1, <1>6, <1>7
  <2>2. sessions[e] # i
    BY <1>2, <2>1, SessionsApart
  <2> QED
    BY <1>5, <1>7, <2>1, <2>2 DEF StopShape
<1> QED
  BY <1>2, <1>5, <1>6, <1>7

LEMMA StopDelete ==
    ASSUME StoreInv, CleanInv, StopInv, NEW d \in Ids, delete_document(d)
    PROVE  StopInv'
<1>1. SameDocuments
  BY CleanOutside
<1>2. /\ UNCHANGED <<life, id, text, next_doc_id, stopping, saver, owed, excused>>
      /\ documents' = [documents EXCEPT ![d] = 0] /\ mutex = <<"free", 0, 0>>
  BY DEF delete_document, docVars, historyVars, Unlocked
<1>3. StopShape /\ \A e \in Ids \ {d} : documents'[e] = documents[e]
  BY <1>2 DEF StopInv, StoreInv, StoreShape
<1>4. /\ inst' \in [Instances -> InstType] /\ sessions' \in [Ids -> Instances \cup {0}]
      /\ sessions'[d] = 0
      /\ \A e \in Ids \ {d} : sessions'[e] = sessions[e]
      /\ \A e \in Ids : sessions'[e] # 0 =>
            /\ sessions'[e] \in Instances /\ inst'[sessions'[e]] = inst[sessions[e]]
            /\ documents[e] # 0 /\ inst[sessions[e]].obj = documents[e]
            /\ inst[sessions[e]].state = "running"
  <2>1. CASE sessions[d] # 0
    <3>1. Removed(d, sessions[d])
      BY <2>1 DEF delete_document
    <3> QED
      BY <1>3, <2>1, <3>1, RemovedShape
  <2>2. CASE sessions[d] = 0
    BY <1>3, <2>2 DEF delete_document, StopShape
  <2> QED
    BY <2>1, <2>2
<1>5. StopShape'
  BY <1>2, <1>3, <1>4 DEF StopShape
<1>6. ASSUME NEW e \in Ids, Current(e)', InCharge(e) PROVE InCharge(e)'
  <2>1. e # d /\ documents'[e] = documents[e] /\ sessions'[e] = sessions[e]
    <3>1. documents'[e] # 0
      BY <1>6 DEF Current
    <3> QED
      BY <1>2, <1>3, <1>4, <3>1 DEF StoreInv, StoreShape
  <2>2. PICK k \in Instances :
           /\ inst[k].obj = documents[e] /\ inst[k].state \in {"running", "stopping"}
           /\ text[documents[e]] + inst[k].queue >= owed[e]
           /\ sessions[e] = k /\ (saver["shutdown"].pc = "wait" \/ e \in saver["shutdown"].docs)
    BY <1>2, <1>6 DEF InCharge
  <2>3. inst'[k] = inst[k]
    BY <1>4, <2>1, <2>2, StorageAssumption
  <2> QED
    BY <1>2, <2>1, <2>2, <2>3 DEF InCharge
<1> QED
  BY <1>1, <1>2, <1>5, <1>6, SessionsKeep DEF Number

\* A session that is removed is in charge until its thread has ended.
LEMMA StopRemove ==
    ASSUME StoreInv, CleanInv, StopInv, NEW d \in Ids, remove_session(d)
    PROVE  StopInv'
<1>1. SameDocuments
  BY CleanRound
<1>2. /\ UNCHANGED <<life, id, text, documents, next_doc_id, stopping, owed, excused>>
      /\ mutex = <<"free", 0, 0>> /\ Alive
      /\ saver["shutdown"].pc = "removing"
      /\ saver' = [saver EXCEPT !["shutdown"].docs = @ \ {d}]
  BY DEF remove_session, At, docVars, historyVars, Unlocked
<1>3. /\ saver'["shutdown"].pc = "removing" /\ saver'["shutdown"].docs = saver["shutdown"].docs \ {d}
      /\ saver'["autosave"] = saver["autosave"]
  <2>1. saver \in [Savers -> SaverType] /\ "autosave" \in Savers /\ "shutdown" \in Savers
    BY DEF StoreInv, StoreShape, Savers
  <2> QED
    BY <1>2, <2>1 DEF SaverType
<1>4. StopShape /\ life = "shutdown" /\ ~ stopping
  BY <1>2 DEF StopInv, StopShape, Alive
<1>5. Removing /\ Removing'
  BY <1>2, <1>3 DEF Removing
<1>6. CASE sessions[d] # 0
  <2>1. Removed(d, sessions[d]) /\ mutex' = <<"remove", d, sessions[d]>>
    BY <1>6 DEF remove_session
  <2>2. /\ inst' \in [Instances -> InstType] /\ sessions' \in [Ids -> Instances \cup {0}]
        /\ sessions[d] \in Instances
        /\ inst'[sessions[d]].state = "stopping"
        /\ inst'[sessions[d]].queue = inst[sessions[d]].queue
        /\ \A k \in Instances : inst'[k].obj = inst[k].obj
        /\ sessions'[d] = 0
        /\ \A e \in Ids \ {d} : sessions'[e] = sessions[e]
        /\ \A e \in Ids : sessions'[e] # 0 =>
              /\ sessions'[e] \in Instances /\ inst'[sessions'[e]] = inst[sessions[e]]
              /\ documents[e] # 0 /\ inst[sessions[e]].obj = documents[e]
              /\ inst[sessions[e]].state = "running"
    BY <1>4, <1>6, <2>1, RemovedShape
  <2>3. StopShape'
    BY <1>2, <1>3, <1>4, <2>2 DEF StopShape
  <2>4. ASSUME NEW e \in Ids, Current(e)', InCharge(e) PROVE InCharge(e)'
    <3>1. PICK k \in Instances :
             /\ inst[k].obj = documents[e] /\ inst[k].state \in {"running", "stopping"}
             /\ text[documents[e]] + inst[k].queue >= owed[e]
             /\ sessions[e] = k /\ e \in saver["shutdown"].docs
      BY <1>2, <2>4 DEF InCharge
    <3>2. CASE e = d
      BY <1>2, <2>1, <2>2, <3>1, <3>2 DEF InCharge
    <3>3. CASE e # d
      <4>1. /\ sessions'[e] = k /\ inst'[k] = inst[k]
            /\ e \in saver'["shutdown"].docs
        BY <1>3, <2>2, <3>1, <3>3, StorageAssumption
      <4> QED
        BY <1>2, <3>1, <4>1 DEF InCharge
    <3> QED
      BY <3>2, <3>3
  <2> QED
    BY <1>1, <1>2, <1>4, <1>5, <2>3, <2>4, KeptBy
<1>7. CASE sessions[d] = 0
  <2>1. UNCHANGED <<sessions, inst, mutex>>
    BY <1>7 DEF remove_session
  <2>2. StopShape'
    BY <1>2, <1>3, <1>4, <2>1 DEF StopShape
  <2>3. ASSUME NEW e \in Ids, Current(e)', InCharge(e) PROVE InCharge(e)'
    <3>1. PICK k \in Instances :
             /\ inst[k].obj = documents[e] /\ inst[k].state \in {"running", "stopping"}
             /\ text[documents[e]] + inst[k].queue >= owed[e]
             /\ sessions[e] = k /\ e \in saver["shutdown"].docs
      BY <1>2, <2>3 DEF InCharge
    <3>2. e # d
      BY <1>7, <3>1, StorageAssumption
    <3> QED
      BY <1>2, <1>3, <2>1, <3>1, <3>2 DEF InCharge
  <2> QED
    BY <1>1, <1>2, <1>4, <1>5, <2>2, <2>3, KeptBy
<1> QED
  BY <1>6, <1>7

\* An operation moves from the queue to the text.
LEMMA StopCommit ==
    ASSUME StoreInv, StopInv, NEW i \in Instances, CommitOperation(i)
    PROVE  StopInv'
<1>1. /\ UNCHANGED <<life, id, documents, next_doc_id, sessions, mutex, path, data, saver, stopping,
                     overlapped, owed, excused>>
      /\ inst' = [inst EXCEPT ![i].queue = @ - 1] /\ inst[i].queue > 0
      /\ text' = [text EXCEPT ![inst[i].obj] = @ + 1]
  BY DEF CommitOperation, managerVars, fileVars
<1>2. StopShape /\ text \in [Objects -> Int] /\ owed \in [Ids -> Int]
  BY DEF StopInv, StopShape, StoreInv, StoreShape
<1>3. InstBecomes(i, inst[i].state, inst[i].queue - 1, inst[i].holding)
  BY <1>1, <1>2, InstSteps
<1>4. /\ inst' \in [Instances -> InstType]
      /\ inst'[i].obj = inst[i].obj /\ inst'[i].state = inst[i].state
      /\ inst'[i].queue = inst[i].queue - 1
      /\ \A k \in Instances \ {i} : inst'[k] = inst[k]
      /\ \A k \in Instances : inst[k].queue \in Nat
  BY <1>2, <1>3, BecomesShape
<1>5. /\ \A o \in Objects : text[o] \in Int /\ text'[o] \in Int /\ text'[o] >= text[o]
      /\ \A o \in Objects : o = inst[i].obj => text'[o] = text[o] + 1
  BY <1>1, <1>2
<1>6. StopShape'
  BY <1>1, <1>2, <1>4 DEF StopShape
<1> SUFFICES ASSUME NEW d \in Ids, life \in {"shutdown", "exited"}, Current(d)', d \notin excused
             PROVE  Kept(d)'
  BY <1>1, <1>6 DEF StopInv
<1>7. Current(d) /\ Kept(d) /\ documents'[d] = documents[d] /\ documents[d] \in Objects
      /\ owed[d] \in Int /\ owed'[d] = owed[d]
  BY <1>1, <1>2 DEF Current, StopInv, StoreInv, StoreShape
<1>8. text[documents[d]] >= owed[d] => text'[documents'[d]] >= owed'[d]
  BY <1>5, <1>7
<1>9. CASE Removing
  <2>1. CASE text[documents[d]] >= owed[d]
    BY <1>1, <1>8, <1>9, <2>1 DEF Kept, Removing
  <2>2. CASE InCharge(d)
    <3>1. PICK k \in Instances :
             /\ inst[k].obj = documents[d] /\ inst[k].state \in {"running", "stopping"}
             /\ text[documents[d]] + inst[k].queue >= owed[d]
             /\ \/ sessions[d] = k /\ (saver["shutdown"].pc = "wait" \/ d \in saver["shutdown"].docs)
                \/ mutex = <<"remove", d, k>>
      BY <2>2 DEF InCharge
    <3>2. text'[documents[d]] + inst'[k].queue >= owed[d]
      BY <1>4, <1>5, <1>7, <3>1
    <3>3. inst'[k].obj = inst[k].obj /\ inst'[k].state = inst[k].state
      BY <1>4
    <3>4. InCharge(d)'
      BY <1>1, <3>1, <3>2, <3>3 DEF InCharge
    <3> QED
      BY <1>1, <1>9, <3>4 DEF Kept, Removing
  <2> QED
    BY <1>7, <1>9, <2>1, <2>2 DEF Kept
<1>10. CASE ~ Removing
  <2>1. text[documents[d]] >= owed[d] /\ (ToBeSaved(d) \/ Settled(d))
    BY <1>7, <1>10 DEF Kept
  <2>2. (ToBeSaved(d) => ToBeSaved(d)') /\ (Settled(d) => Settled(d)')
    BY <1>1 DEF ToBeSaved, Settled, Number
  <2> QED
    BY <1>1, <1>8, <1>10, <2>1, <2>2 DEF Kept, Removing
<1> QED
  BY <1>9, <1>10

\* A document made after the signal owes nothing.
LEMMA StopCreate ==
    ASSUME StoreInv, StoreInv', CleanInv, StopInv, create_document
    PROVE  StopInv'
<1>1. PICK d \in Ids : d = next_doc_id
  BY DEF create_document
<1>2. /\ UNCHANGED <<life, sessions, mutex, inst, saver, stopping, owed, excused>>
      /\ next_doc_id' = next_doc_id + 1 /\ NewObject(d, 0) /\ ObjectsLeft
      /\ \E n : path' = [path EXCEPT ![d] = n] /\ data' = [data EXCEPT ![n] = 0]
  BY <1>1 DEF create_document
<1>3. PICK o \in Objects :
         /\ id[o] = 0 /\ id'[o] = d /\ text'[o] = 0 /\ documents'[d] = o
         /\ \A p \in Objects \ {o} : id'[p] = id[p]
         /\ \A e \in Ids \ {d} : documents'[e] = documents[e]
  BY <1>2, NewObjectShape DEF StoreInv
<1>4. StopShape /\ owed \in [Ids -> Int] /\ Ids \subseteq Nat
  BY StorageAssumption DEF StopInv, StopShape
<1>5. \A e \in Ids : sessions[e] # 0 => e # d
  BY <1>1, <1>4 DEF StopShape, StoreInv, StoreShape, Numbers
<1>6. StopShape'
  BY <1>1, <1>2, <1>3, <1>4, <1>5 DEF StopShape
<1>7. ASSUME NEW s \in Savers, saver[s].pc \in Busy PROVE Number(s)' = Number(s) /\ Number(s) # d
  <2>1. saver[s].obj \in Objects /\ saver[s].obj # o
    BY <1>3, <1>7, BusyNumber DEF Live
  <2>2. Number(s) < next_doc_id /\ Number(s) \in Nat
    BY <1>4, <1>7, <2>1, BusyNumber DEF StoreInv, Numbers, Number
  <2> QED
    BY <1>1, <1>2, <1>3, <2>1, <2>2 DEF Number
<1> SUFFICES ASSUME NEW e \in Ids, life \in {"shutdown", "exited"}, Current(e)', e \notin excused
             PROVE  Kept(e)'
  BY <1>2, <1>6 DEF StopInv
<1>8. CASE e = d
  <2>1. owed[d] <= 0 /\ owed[d] \in Int
    BY <1>1, <1>4 DEF StopShape
  <2>2. text'[documents'[e]] >= owed'[e]
    BY <1>2, <1>3, <1>8, <2>1
  <2>3. data'[path'[e]] >= owed'[e]
    <3>1. PICK n : path' = [path EXCEPT ![d] = n] /\ data' = [data EXCEPT ![n] = 0]
      BY <1>2
    <3>2. path'[d] = n /\ n \in Inodes
      <4>1. path'[d] = n
        BY <3>1 DEF StoreInv, StoreShape
      <4>2. path'[d] # 0 /\ path'[d] \in Inodes \cup {0}
        BY <1>8, CleanCreate DEF CleanInv, StoreInv, StoreShape
      <4> QED
        BY <4>1, <4>2
    <3> QED
      BY <1>2, <1>8, <2>1, <3>1, <3>2 DEF StoreInv, StoreShape
  <2>4. Settled(e)'
    BY <1>2, <1>7, <1>8, <2>3 DEF Settled, Writing, Busy
  <2> QED
    BY <2>2, <2>4 DEF Kept
<1>9. CASE e # d
  <2>1. /\ Current(e) /\ documents'[e] = documents[e]
        /\ text'[documents[e]] = text[documents[e]]
        /\ path'[e] = path[e] /\ data'[path[e]] = data[path[e]]
    BY <1>1, <1>9, CleanCreate DEF SameDocument
  <2>2. Kept(e)
    BY <2>1 DEF StopInv
  <2>3. /\ InCharge(e) => InCharge(e)'
        /\ ToBeSaved(e) => ToBeSaved(e)'
    BY <1>2, <2>1 DEF InCharge, ToBeSaved
  <2>4. Settled(e) => Settled(e)'
    BY <1>2, <1>7, <2>1 DEF Settled, Writing, Busy
  <2> QED
    BY <1>2, <2>1, <2>2, <2>3, <2>4 DEF Kept, Removing
<1> QED
  BY <1>8, <1>9

\* The signal: what is owed is in the text or in the queue of the session.
LEMMA StopSignal ==
    ASSUME StoreInv, StopInv, Shutdown
    PROVE  StopInv'
<1>1. /\ UNCHANGED <<id, text, documents, next_doc_id, sessions, mutex, inst, saver, stopping,
                     overlapped, excused>>
      /\ life = "running" /\ life' = "shutdown"
      /\ owed' = [d \in Ids |-> IF documents[d] = 0 THEN 0 ELSE text[documents[d]] + Queued(d)]
  BY DEF Shutdown, docVars, managerVars
<1>2. StopShape /\ saver["shutdown"].pc = "wait"
  BY <1>1 DEF StopInv, StopShape
<1>3. ASSUME NEW d \in Ids
      PROVE  /\ owed'[d] \in Int /\ (d < next_doc_id \/ owed'[d] <= 0)
             /\ documents[d] # 0 => text[documents[d]] >= owed'[d] \/ InCharge(d)'
  <2>1. owed'[d] = IF documents[d] = 0 THEN 0 ELSE text[documents[d]] + Queued(d)
    BY <1>1
  <2>2. CASE documents[d] = 0
    BY <2>1, <2>2
  <2>3. CASE documents[d] # 0
    <3>1. d < next_doc_id /\ text[documents[d]] \in Int
      BY <2>3 DEF StoreInv, StoreShape, Numbers
    <3>2. CASE sessions[d] = 0
      BY <2>1, <2>3, <3>1, <3>2 DEF Queued
    <3>3. CASE sessions[d] # 0
      <4>1. PICK k \in Instances : k = sessions[d]
        BY <1>2, <3>3 DEF StopShape
      <4>2. inst[k].obj = documents[d] /\ inst[k].state = "running" /\ inst[k].queue \in Nat
        BY <1>2, <3>3, <4>1 DEF StopShape, InstType
      <4>3. owed'[d] = text[documents[d]] + inst[k].queue
        BY <2>1, <2>3, <3>3, <4>1 DEF Queued
      <4>4. owed'[d] \in Int /\ text[documents[d]] + inst[k].queue >= owed'[d]
        BY <3>1, <4>2, <4>3
      <4>5. InCharge(d)'
        BY <1>1, <1>2, <4>1, <4>2, <4>4 DEF InCharge
      <4> QED
        BY <3>1, <4>4, <4>5
    <3> QED
      BY <3>2, <3>3
  <2> QED
    BY <2>2, <2>3
<1>4. StopShape'
  <2>1. owed' \in [Ids -> Int]
    BY <1>1, <1>3
  <2> QED
    BY <1>1, <1>2, <1>3, <2>1 DEF StopShape
<1> QED
  BY <1>1, <1>2, <1>3, <1>4 DEF StopInv, Kept, Removing, Current

LEMMA StopDies == ASSUME Dies, StoreInv PROVE StopInv'
<1>1. /\ inst' = [i \in Instances |-> NoSession]
      /\ sessions' = [d \in Ids |-> 0] /\ owed' = [d \in Ids |-> 0]
      /\ saver'["shutdown"] = IdleSaver /\ life' = "down" /\ stopping' = FALSE
  BY DEF Dies, Fresh, Savers
<1>2. NoSession \in InstType
  BY DEF NoSession, InstType, SessionStates
<1> QED
  BY <1>1, <1>2 DEF StopInv, StopShape, IdleSaver

LEMMA StopRestart == ASSUME StopInv, Restart PROVE StopInv'
  BY DEF Restart, StopInv, StopShape, managerVars, historyVars

LEMMA StepStop ==
    ASSUME StoreInv, StoreInv', CleanInv, StopInv, [Next]_vars
    PROVE  StopInv'
<1>1. "autosave" \in Savers /\ "shutdown" \in Savers
  BY DEF Savers
<1>2. CASE Autosave
  BY <1>1, <1>2, StopAutosaveRound, StopAutosaveWrites, StopRename DEF Autosave, save_document
<1>3. CASE MainThread
  BY <1>1, <1>3, StopListed, StopRemove, StopForce, StopShutdownSaves, StopRename, StopQuiet
     DEF MainThread, save_document
<1>4. CASE Manager
  BY <1>4, StopCreate, StopQuiet, StopGetDocument, StopDelete, StopGetSession, StopSessions
     DEF Manager
<1>5. CASE Shutdown \/ finish_remove \/ Restart \/ UNCHANGED vars
  BY <1>5, StopSignal, StopQuiet, StopRestart
<1>6. CASE \E i \in Instances : SessionThread(i)
  BY <1>6, StopCommit, StopSessions DEF SessionThread
<1>7. CASE Crash \/ \E s \in Savers : RenameThrows(s)
  BY <1>7, StopDies DEF Crash, RenameThrows
<1> QED
  BY <1>2, <1>3, <1>4, <1>5, <1>6, <1>7 DEF Next

\* When the process has exited after a signal, the file of every document has
\* all that was committed or queued when the signal came, however requests,
\* sessions and the two threads that save were interleaved with the stop:
\* unless the two saved it at once, its file could not be opened, a task of
\* the pool held its session, or it had been deleted and brought back.
THEOREM GracefulStopIsSafe == Spec => []GracefulStopSaves
<1>1. Init => StoreInv /\ CleanInv /\ StopInv
  BY InitStore, InitClean, InitStop
<1>2. StoreInv /\ CleanInv /\ StopInv /\ [Next]_vars => (StoreInv /\ CleanInv /\ StopInv)'
  BY StepStore, StepClean, StepStop
<1>3. StoreInv /\ CleanInv /\ StopInv => GracefulStopSaves
  <2> SUFFICES ASSUME StopInv, life = "exited", NEW d \in Ids, documents[d] # 0, OneObject(d),
                      d \notin overlapped, d \notin excused
               PROVE  OnDisk(d) >= owed[d]
    BY DEF GracefulStopSaves
  <2>1. Current(d)
    BY OneMeansOnly DEF Current
  <2>2. saver["shutdown"].pc = "saved" /\ saver["shutdown"].docs = {}
    BY DEF StopInv, StopShape
  <2>3. Kept(d) /\ ~ Removing /\ ~ ToBeSaved(d)
    BY <2>1, <2>2 DEF StopInv, Removing, ToBeSaved
  <2> QED
    BY <2>3 DEF Kept, Settled, OnDisk
<1> QED
  BY <1>1, <1>2, <1>3, PTL DEF Spec
=============================================================================
