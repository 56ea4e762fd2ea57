----------------------------- MODULE OTDiamond -----------------------------
(***************************************************************************)
(* Two sites start from one text, each applies an operation of its own and *)
(* then the other's, transformed against its own.  This is the situation   *)
(* of every call of transform in the program: a client's unacknowledged    *)
(* operation against the server's next one.  The tests of                  *)
(* test_ot_convergence.cpp try a dozen pairs; here every pair of           *)
(* operations on every text of Texts is tried.                             *)
(***************************************************************************)
EXTENDS OT, SequencesExt

CONSTANT Texts           \* the texts, initial and inserted

ASSUME TextsAssumption ==
    /\ Texts \subseteq Seq(Int)
    /\ \A s, t \in Texts : Len(s) + Len(t) < HalfWord

VARIABLES base,          \* the common text
          opOf,          \* the operation each site issues
          text,          \* the text of each site
          stage          \* how many operations each site has applied

vars == <<base, opOf, text, stage>>

Sites == {1, 2}
Other(s) == 3 - s

\* What an editor or the server can issue on doc: an insertion anywhere, the
\* removal of a range that exists, possibly empty (what is left of a removal
\* that someone else made first).
OpsOn(doc, u) ==
    {make_insert(p, t, u, 0) : p \in 0 .. Len(doc), t \in Texts}
      \cup {make_delete(q[1], q[2] - q[1], u, 0) :
              q \in {r \in (0 .. Len(doc)) \X (0 .. Len(doc)) : r[1] <= r[2]}}

Init == /\ base \in Texts
        /\ opOf \in {<<a, b>> : a \in OpsOn(base, 1), b \in OpsOn(base, 2)}
        /\ text = <<base, base>>
        /\ stage = <<0, 0>>

ApplyOwn(s) ==
    /\ stage[s] = 0
    /\ text' = [text EXCEPT ![s] = apply(@, opOf[s])]
    /\ stage' = [stage EXCEPT ![s] = 1]
    /\ UNCHANGED <<base, opOf>>

\* Both sites call transform with their own operation first, as the server
\* (document.cpp:20) and the client (ot_controller.cpp:134) do.
ApplyRemote(s) ==
    /\ stage[s] = 1
    /\ stage[Other(s)] > 0
    /\ text' = [text EXCEPT ![s] =
                    apply(@, transform(opOf[s], opOf[Other(s)])[2])]
    /\ stage' = [stage EXCEPT ![s] = 2]
    /\ UNCHANGED <<base, opOf>>

Next == \E s \in Sites : ApplyOwn(s) \/ ApplyRemote(s)

Spec == Init /\ [][Next]_vars

-----------------------------------------------------------------------------
(* Properties *)

TypeOK == /\ base \in Texts
          /\ opOf[1] \in OpsOn(base, 1)
          /\ opOf[2] \in OpsOn(base, 2)
          /\ stage \in [Sites -> 0 .. 2]

\* TP1, the diamond property of transform: whichever of the two operations a
\* site applied first, both sites end with the same text
\* (ConvergenceTest.BothPathsConverge, for every pair).
BothPathsConverge == stage = <<2, 2>> => text[1] = text[2]

\* The reference merge of two concurrent operations: the characters neither
\* erases, in order, with the inserted texts at their gaps, user 1's first;
\* an insertion strictly inside the range the other erases is lost with it.
Erased(op) == IF op.type = "delete"
              THEN op.position + 1 .. op.position + op.length ELSE {}
TextAt(op, other, gap) ==
    IF /\ op.type = "insert" /\ op.position = gap
       /\ ~ {gap, gap + 1} \subseteq Erased(other)
    THEN op.text ELSE << >>
Merged(doc, a, b) ==
    LET piece(gap) ==
            TextAt(a, b, gap) \o TextAt(b, a, gap)
              \o IF gap = Len(doc) \/ gap + 1 \in Erased(a) \cup Erased(b)
                 THEN << >> ELSE <<doc[gap + 1]>>
    IN  FlattenSeq([i \in 1 .. Len(doc) + 1 |-> piece(i - 1)])

\* A site that has applied both operations holds the reference merge: nothing
\* is erased that neither user erased, and nothing is duplicated or misplaced
\* by transform and apply.
MergesIntentions ==
    \A s \in Sites : stage[s] = 2 => text[s] = Merged(base, opOf[1], opOf[2])

\* What op leaves of the text after a cursor at p; what is inserted at the
\* cursor comes before it.
AfterCursor(doc, p) == SubSeq(doc, p + 1, Len(doc))
LeftAfter(doc, op, p) ==
    LET first == Greatest(op.position, p)
        last == Greatest(op.position + op.length, p)
    IN  IF op.type = "delete"
        THEN EraseText(AfterCursor(doc, p), first - p, last - first)
        ELSE IF op.position > p
        THEN InsertText(AfterCursor(doc, p), op.position - p, op.text)
        ELSE AfterCursor(doc, p)

\* EditorWindow has RemoteCursorsModel move every cursor with each remote
\* operation (not with the user's own): a cursor stays between the same characters, also when it was inside an erased range or at
\* an end of it, and never outside the text.
CursorKeepsPlace ==
    \A s \in Sites : stage[s] = 1 =>
        \A p \in 0 .. Len(base) :
            LET q == translate(p, opOf[s])
            IN  /\ q \in 0 .. Len(text[s])
                /\ AfterCursor(text[s], q) = LeftAfter(base, opOf[s], p)
=============================================================================
