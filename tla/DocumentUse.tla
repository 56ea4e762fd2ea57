----------------------------- MODULE DocumentUse -----------------------------
(***************************************************************************)
(* A Document called by any number of threads in any order: direct calls   *)
(* of apply_with_ot, the incoming queue and its consumer, changes of the   *)
(* history limit and saves.  An operation is made against                  *)
(* any revision the document has had, so a late one meets a long history,  *)
(* a trimmed history, or is refused.                                       *)
(***************************************************************************)
EXTENDS Document

CONSTANTS Insertions,        \* the texts that each user inserts
          MaxRevision,       \* bound on the operations committed
          MaxIncoming        \* bound on the length of incoming

ASSUME DocumentUseAssumption ==
    /\ Insertions \in [Users -> SUBSET Seq(Int)]
    /\ MaxRevision \in Nat
    /\ MaxIncoming \in Nat

\* A history variable: the operation last passed to apply_with_ot, as made.
VARIABLE request

vars == <<docVars, request>>

\* Well-formed operations of user u against revision r.
RequestsAt(u, r) ==
    LET size == Len(versions[r + 1])
    IN  {make_insert(p, t, u, r) : p \in 0 .. size, t \in Insertions[u]}
          \cup {make_delete(q[1], q[2] - q[1], u, r) :
                  q \in {x \in (0 .. size) \X (0 .. size) : x[1] < x[2]}}

Requests == UNION {RequestsAt(u, r) : u \in Users, r \in 0 .. revision}

NoRequest == make_delete(0, 0, 0, 0)

Init == DocInit /\ request = NoRequest

Submit(op) ==
    /\ revision + Len(incoming) < MaxRevision
    /\ submit(op)
    /\ request' = op

Enqueue(op) ==
    /\ revision + Len(incoming) < MaxRevision
    /\ Len(incoming) < MaxIncoming
    /\ enqueue_operation(op)
    /\ UNCHANGED request

ProcessQueue == process_queue /\ request' = Head(incoming)

Housekeeping ==
    /\ \/ mark_saved
       \/ \E limit \in HistoryLimits : set_history_limit(limit)
    /\ UNCHANGED request

Next == \/ \E op \in Requests : Submit(op) \/ Enqueue(op)
        \/ ProcessQueue
        \/ Housekeeping

Spec == Init /\ [][Next]_vars

-----------------------------------------------------------------------------
(* Properties *)

TypeOK ==
    /\ content \in Seq(Int)
    /\ revision \in Nat /\ oldest_revision \in Nat /\ history_limit \in Nat
    /\ history \in Seq(Operation)
    /\ incoming \in Seq(Operation)
    /\ dirty \in BOOLEAN
    /\ versions \in Seq(Seq(Int)) /\ Len(versions) = revision + 1

\* The deque holds exactly the operations of revisions oldest_revision_ to
\* revision_ - 1: the index apply_with_ot computes for an operation it does
\* not refuse is never past the end, so no committed operation is skipped,
\* however often the limit changes and the deque is trimmed.
HistoryWindow ==
    /\ oldest_revision <= revision
    /\ Len(history) = revision - oldest_revision

\* The history explains the text: replaying its operations, in the form they
\* were stored, leads from the text of oldest_revision_ to content_ through
\* every revision between.  Later operations are transformed against exactly
\* what was applied.
HistoryReplays ==
    /\ content = versions[revision + 1]
    /\ \A i \in 1 .. Len(history) :
          apply(versions[oldest_revision + i], history[i])
              = versions[oldest_revision + i + 1]

\* The text a client ends with when it has applied its own operation op first
\* and then every operation committed since, transformed against op.
ClientPath(op) ==
    LET step(st, h) == LET t == transform(st.op, h)
                       IN  [op |-> t[1], text |-> apply(st.text, t[2])]
        start == [op |-> op, text |-> apply(versions[op.revision + 1], op)]
    IN  FoldLeft(step, start, Since(op)).text

\* The author of op has seen every operation of its own that was committed: a
\* client sends one at a time and keeps to this (OneInFlight in CollabEditing).
OneUnacknowledged(op) ==
    \A i \in DOMAIN history :
        history[i].userId = op.userId => oldest_revision + i <= op.revision

\* Whatever revision an accepted operation was made against, the text after
\* apply_with_ot is the text its author computes by transforming everything
\* that the others committed meanwhile against it.  An author with two
\* concurrent insertions is another matter: they do not shift each other
\* (ot.cpp:16-20).
AuthorAgrees ==
    [][revision' # revision /\ OneUnacknowledged(request')
          => content' = ClientPath(request')]_vars
=============================================================================
