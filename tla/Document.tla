------------------------------ MODULE Document ------------------------------
(***************************************************************************)
(* The server's copy of one document: class Document of                    *)
(* core/src/document.cpp, without the set of subscribers, which nothing    *)
(* but the document session touches.  Every method takes content_mutex_ or *)
(* is one atomic store, so each is one action.                             *)
(* incoming is incoming_queue_, whose consumer may be interrupted between  *)
(* two operations.  versions is a history variable, not part of the code:  *)
(* versions[r + 1] is the text the document had at revision r.             *)
(***************************************************************************)
EXTENDS OT, SequencesExt

CONSTANTS Users,              \* user ids
          InitialText,        \* what load_content read from disk
          HistoryLimits       \* values of history_limit_

ASSUME DocumentAssumption ==
    /\ Users \subseteq Nat \ {0}
    /\ InitialText \in Seq(Int)
    /\ HistoryLimits \subseteq Nat /\ HistoryLimits # {}

VARIABLES content, revision, history, history_limit, oldest_revision,
          incoming, dirty, versions

docVars == <<content, revision, history, history_limit, oldest_revision,
             incoming, dirty, versions>>

\* The members that apply_with_ot assigns.
textVars == <<content, revision, history, oldest_revision, dirty, versions>>

\* A document restored from disk: load_content, before any other thread has
\* a pointer to it.
DocInit ==
    /\ content = InitialText
    /\ revision = 0
    /\ history = << >>
    /\ history_limit \in HistoryLimits
    /\ oldest_revision = 0
    /\ incoming = << >>
    /\ dirty = FALSE
    /\ versions = <<InitialText>>

-----------------------------------------------------------------------------
(* Document::apply_with_ot *)

revision_too_old(op) == revision > 0 /\ op.revision < oldest_revision

\* The operations committed since the one op was made against, as far as
\* the deque holds them (the loop skips an index past its end).
Since_bug_first(op) == SubSeq(history, op.revision - oldest_revision + 2,
                              Least(revision - oldest_revision, Len(history)))
Since_bug_last(op) == SubSeq(history, op.revision - oldest_revision + 1,
                             revision - oldest_revision - 1)
Since(op) == SubSeq(history, op.revision - oldest_revision + 1,
                    Least(revision - oldest_revision, Len(history)))

Transformed(op) == FoldLeft(LAMBDA o, h : transform(o, h)[1], op, Since(op))

apply_with_ot(op) ==
    LET committed == Transformed(op)
        dropped == Greatest(0, Len(history) + 1 - history_limit)
    IN  /\ ~ revision_too_old(op)
        /\ content' = apply(content, committed)
        /\ history' = SubSeq(Append(history, committed), dropped + 1, Len(history) + 1)
        /\ oldest_revision' = oldest_revision + dropped
        /\ revision' = revision + 1
        /\ dirty' = TRUE
        /\ versions' = Append(versions, apply(content, committed))

\* What a failed call, {false, "revision_too_old", {}}, leaves behind.
refuse_op(op) == revision_too_old(op) /\ UNCHANGED textVars

-----------------------------------------------------------------------------
(* The other methods *)

\* A call of apply_with_ot from any thread.
submit(op) ==
    /\ apply_with_ot(op) \/ refuse_op(op)
    /\ UNCHANGED <<incoming, history_limit>>

enqueue_operation(op) ==
    /\ incoming' = Append(incoming, op)
    /\ UNCHANGED <<textVars, history_limit>>

\* One turn of the loop of process_queue, which ignores the result.
process_queue ==
    /\ incoming # << >>
    /\ apply_with_ot(Head(incoming)) \/ refuse_op(Head(incoming))
    /\ incoming' = Tail(incoming)
    /\ UNCHANGED <<history_limit>>

set_history_limit_bug_resize(limit) ==
    /\ history_limit' = limit
    /\ history' = SubSeq(history, 1, Least(limit, Len(history)))
    /\ UNCHANGED <<content, revision, oldest_revision, dirty, versions, incoming>>

set_history_limit_bug_newest(limit) ==
    /\ history_limit' = limit
    /\ history' = SubSeq(history, 1, Least(limit, Len(history)))
    /\ oldest_revision' = revision - Len(history')
    /\ UNCHANGED <<content, revision, dirty, versions, incoming>>

set_history_limit_bug_below(limit) ==
    /\ history_limit' = limit
    /\ oldest_revision' = revision - limit
    /\ UNCHANGED <<content, revision, history, dirty, versions, incoming>>

\* The deque is trimmed to a lower limit only by the next apply_with_ot.
set_history_limit(limit) ==
    /\ history_limit' = limit
    /\ UNCHANGED <<textVars, incoming>>

mark_saved ==
    /\ dirty' = FALSE
    /\ UNCHANGED <<content, revision, history, oldest_revision, versions,
                   incoming, history_limit>>
=============================================================================
