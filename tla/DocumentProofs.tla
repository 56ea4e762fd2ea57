--------------------------- MODULE DocumentProofs ---------------------------
(***************************************************************************)
(* HistoryWindow and HistoryReplays of DocumentUse, for every document,    *)
(* every set of users and operations, and every sequence of history        *)
(* limits.  What transform computes plays no role: the argument needs only *)
(* that the operation stored is the operation applied, so history and      *)
(* versions are known as sequences over some set, not over Operation.      *)
(***************************************************************************)
EXTENDS DocumentUse, SequenceFacts, TLAPS

Shape == /\ revision \in Nat /\ oldest_revision \in Nat /\ history_limit \in Nat
         /\ IsSeq(history)
         /\ IsSeq(versions) /\ Len(versions) = revision + 1

IndInv == Shape /\ HistoryWindow /\ HistoryReplays

-----------------------------------------------------------------------------

\* apply_with_ot stores the operation it applied, trims the deque from the
\* front and counts what it trimmed, whatever the limit has been changed to.
LEMMA ApplyWithOtKeepsIndInv ==
    ASSUME NEW op, IndInv, apply_with_ot(op), UNCHANGED history_limit
    PROVE  IndInv'
<1> DEFINE c == Transformed(op)
           d == Greatest(0, Len(history) + 1 - history_limit)
           h == Append(history, c)
           t == apply(content, c)
<1> HIDE DEF c
<1>0. /\ content' = t
      /\ history' = SubSeq(h, d + 1, Len(history) + 1)
      /\ oldest_revision' = oldest_revision + d
      /\ revision' = revision + 1
      /\ versions' = Append(versions, t)
  BY DEF apply_with_ot, c
<1> HIDE DEF t
<1>1. /\ revision \in Nat /\ oldest_revision \in Nat /\ history_limit \in Nat
      /\ IsSeq(history) /\ IsSeq(versions)
      /\ Len(versions) = revision + 1
      /\ oldest_revision <= revision
      /\ Len(history) = revision - oldest_revision
  BY DEF IndInv, Shape, HistoryWindow
<1>2. /\ IsSeq(h) /\ Len(h) = Len(history) + 1
      /\ \A i \in 1 .. Len(history) : h[i] = history[i]
      /\ h[Len(history) + 1] = c
  BY <1>1, AppendShape
<1>3. /\ IsSeq(versions') /\ Len(versions') = revision + 2
      /\ \A i \in 1 .. revision + 1 : versions'[i] = versions[i]
      /\ versions'[revision + 2] = t
  BY <1>0, <1>1, AppendShape
<1>4. d \in Nat /\ d <= Len(h)
  BY <1>1, <1>2 DEF Greatest
<1> HIDE DEF d, h
<1>5. /\ IsSeq(history') /\ Len(history') = Len(h) - d
      /\ \A i \in 1 .. Len(h) - d : history'[i] = h[d + i]
  BY <1>0, <1>2, <1>4, SuffixShape
<1>6. Shape'
  BY <1>0, <1>1, <1>3, <1>4, <1>5 DEF Shape
<1>7. HistoryWindow'
  BY <1>0, <1>1, <1>2, <1>4, <1>5 DEF HistoryWindow
<1>8. HistoryReplays'
  <2>1. content' = versions'[revision' + 1]
    BY <1>0, <1>1, <1>3
  <2>2. ASSUME NEW i \in 1 .. Len(history')
        PROVE  apply(versions'[oldest_revision' + i], history'[i])
                   = versions'[oldest_revision' + i + 1]
    <3> DEFINE k == d + i
    <3>1. /\ k \in 1 .. Len(history) + 1
          /\ history'[i] = h[k]
          /\ oldest_revision' + i = oldest_revision + k
      BY <1>0, <1>1, <1>2, <1>4, <1>5
    <3> HIDE DEF k
    <3>2. CASE k \in 1 .. Len(history)
      <4>1. /\ versions'[oldest_revision + k] = versions[oldest_revision + k]
            /\ versions'[oldest_revision + k + 1] = versions[oldest_revision + k + 1]
        BY <1>1, <1>3, <3>2
      <4>2. apply(versions[oldest_revision + k], history[k]) = versions[oldest_revision + k + 1]
        BY <3>2 DEF IndInv, HistoryReplays
      <4> QED
        BY <1>2, <3>1, <3>2, <4>1, <4>2
    <3>3. CASE k = Len(history) + 1
      <4>1. /\ oldest_revision + k = revision + 1
            /\ history'[i] = c
            /\ oldest_revision' + i = revision + 1
        BY <1>1, <1>2, <3>1, <3>3
      <4>2. versions'[revision + 1] = content
        BY <1>1, <1>3 DEF IndInv, HistoryReplays
      <4>3. versions'[revision + 1 + 1] = t
        BY <1>1, <1>3
      <4> QED
        BY <4>1, <4>2, <4>3 DEF t
    <3> QED
      BY <1>1, <3>1, <3>2, <3>3
  <2> QED
    BY <2>1, <2>2 DEF HistoryReplays
<1> QED
  BY <1>6, <1>7, <1>8 DEF IndInv

\* A call that leaves the members alone, but for the limit, keeps IndInv.
LEMMA OtherCallsKeepIndInv ==
    ASSUME IndInv, UNCHANGED <<content, revision, history, oldest_revision, versions>>,
           history_limit' \in Nat
    PROVE  IndInv'
  BY DEF IndInv, Shape, HistoryWindow, HistoryReplays

LEMMA InitIndInv == Init => IndInv
<1> SUFFICES ASSUME Init PROVE IndInv
  OBVIOUS
<1>1. history = << >> /\ versions = <<InitialText>> /\ revision = 0
        /\ oldest_revision = 0 /\ content = InitialText /\ history_limit \in Nat
  BY DocumentAssumption DEF Init, DocInit
<1>2. IsSeq(history) /\ Len(history) = 0
  BY <1>1 DEF IsSeq
<1>3. versions \in Seq({InitialText}) /\ Len(versions) = 1 /\ versions[1] = InitialText
  BY <1>1
<1>4. Shape
  <2>1. IsSeq(versions)
    BY <1>3 DEF IsSeq
  <2> QED
    BY <1>1, <1>2, <1>3, <2>1 DEF Shape
<1>5. HistoryWindow
  BY <1>1, <1>2 DEF HistoryWindow
<1>6. HistoryReplays
  BY <1>1, <1>2, <1>3 DEF HistoryReplays
<1> QED
  BY <1>4, <1>5, <1>6 DEF IndInv

LEMMA NextIndInv == IndInv /\ [Next]_vars => IndInv'
<1> SUFFICES ASSUME IndInv, [Next]_vars PROVE IndInv'
  OBVIOUS
<1>0. history_limit \in Nat
  BY DEF IndInv, Shape
<1>1. ASSUME NEW op \in Requests, Submit(op) PROVE IndInv'
  <2>1. UNCHANGED history_limit
    BY <1>1 DEF Submit, submit
  <2>2. CASE apply_with_ot(op)
    BY <2>1, <2>2, ApplyWithOtKeepsIndInv
  <2>3. CASE refuse_op(op)
    BY <1>0, <2>1, <2>3, OtherCallsKeepIndInv DEF refuse_op, textVars
  <2> QED
    BY <1>1, <2>2, <2>3 DEF Submit, submit
<1>2. ASSUME NEW op \in Requests, Enqueue(op) PROVE IndInv'
  BY <1>0, <1>2, OtherCallsKeepIndInv DEF Enqueue, enqueue_operation, textVars
<1>3. CASE ProcessQueue
  <2>1. UNCHANGED history_limit
    BY <1>3 DEF ProcessQueue, process_queue
  <2>2. CASE apply_with_ot(Head(incoming))
    BY <2>1, <2>2, ApplyWithOtKeepsIndInv
  <2>3. CASE refuse_op(Head(incoming))
    BY <1>0, <2>1, <2>3, OtherCallsKeepIndInv DEF refuse_op, textVars
  <2> QED
    BY <1>3, <2>2, <2>3 DEF ProcessQueue, process_queue
<1>4. CASE Housekeeping
  <2>1. CASE mark_saved
    BY <1>0, <2>1, OtherCallsKeepIndInv DEF mark_saved
  <2>2. ASSUME NEW limit \in HistoryLimits, set_history_limit(limit) PROVE IndInv'
    BY <2>2, DocumentAssumption, OtherCallsKeepIndInv DEF set_history_limit, textVars
  <2> QED
    BY <1>4, <2>1, <2>2 DEF Housekeeping
<1>5. CASE UNCHANGED vars
  BY <1>0, <1>5, OtherCallsKeepIndInv DEF vars, docVars
<1> QED
  BY <1>1, <1>2, <1>3, <1>4, <1>5 DEF Next

-----------------------------------------------------------------------------

\* The deque and the two revision counters of a document always agree: no
\* index apply_with_ot computes is past the end of history_, whatever limits
\* are set and whichever threads call it.
THEOREM HistoryWindowHolds == Spec => []HistoryWindow
<1>1. IndInv => HistoryWindow
  BY DEF IndInv
<1> QED
  BY InitIndInv, NextIndInv, <1>1, PTL DEF Spec

\* The stored operations, replayed on the text of the oldest revision they
\* reach back to, always give content_.
THEOREM HistoryReplaysHolds == Spec => []HistoryReplays
<1>1. IndInv => HistoryReplays
  BY DEF IndInv
<1> QED
  BY InitIndInv, NextIndInv, <1>1, PTL DEF Spec
=============================================================================
