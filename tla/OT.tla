--------------------------------- MODULE OT ---------------------------------
(***************************************************************************)
(* Operations on a text and their operational transformation: the pure     *)
(* functions of core/src/operation.cpp and core/src/ot.cpp, which the      *)
(* server (Document) and every client (OTController) both call.            *)
(*                                                                         *)
(* A text is a sequence of characters.  Positions and lengths are unsigned *)
(* machine words; the code uses 32 bits, here a word has WordSize values,  *)
(* so that the wrap-around of a subtraction below zero is kept.  The text  *)
(* a delete removed is recorded by the code only for logging (transform,   *)
(* apply and the wire format all ignore it): it is left empty here.        *)
(***************************************************************************)
EXTENDS Integers, Sequences

CONSTANT HalfWord        \* 2^31 in the code

ASSUME HalfWordAssumption == HalfWord \in Nat \ {0}

WordSize == 2 * HalfWord
Word == 0 .. WordSize - 1

\* The word that holds n, for n a sum or a difference of two words.
Wrap(n) == IF n < 0 THEN n + WordSize
           ELSE IF n >= WordSize THEN n - WordSize
           ELSE n

\* static_cast<int32_t> of a word.
Signed(w) == IF w < HalfWord THEN w ELSE w - WordSize

Least(x, y) == IF x <= y THEN x ELSE y
Greatest(x, y) == IF x >= y THEN x ELSE y

-----------------------------------------------------------------------------
(* core/src/operation.cpp *)

Operation == [type : {"insert", "delete"}, position : Word, text : Seq(Int),
              length : Word, userId : Nat, revision : Nat]

make_insert(pos, text, userId, rev) ==
    [type |-> "insert", position |-> pos, text |-> text,
     length |-> Len(text), userId |-> userId, revision |-> rev]

make_delete(pos, length, userId, rev) ==
    [type |-> "delete", position |-> pos, text |-> << >>,
     length |-> length, userId |-> userId, revision |-> rev]

is_noop(op) == \/ op.type = "insert" /\ op.text = << >>
               \/ op.type = "delete" /\ op.length = 0

-----------------------------------------------------------------------------
(* core/src/ot.cpp: transform(a, b) is <<a', b'>> such that a; b' and      *)
(* b; a' are meant to have the same effect.                                *)
(*                                                                         *)
(* Here and in the other modules a definition X_bug_... is X with a        *)
(* plausible mistake.  No specification uses it: PROJECT.json says which   *)
(* property breaks when it takes the place of X.                           *)

MovedBy_bug_signed(op, n) == [op EXCEPT !.position = @ + n]
MovedBy(op, n) == [op EXCEPT !.position = Wrap(@ + n)]

transform_insert_insert_bug_tie(a, b) ==
    <<IF a.position >= b.position THEN MovedBy(a, b.length) ELSE a,
      IF a.position < b.position THEN MovedBy(b, a.length) ELSE b>>

transform_insert_insert_bug_unordered(a, b) ==
    <<IF a.position > b.position THEN MovedBy(a, b.length) ELSE a,
      IF a.position < b.position THEN MovedBy(b, a.length) ELSE b>>

transform_insert_insert(a, b) ==
    LET aFirst == \/ a.position < b.position
                  \/ a.position = b.position /\ a.userId < b.userId
        bFirst == \/ a.position > b.position
                  \/ a.position = b.position /\ a.userId > b.userId
    IN  <<IF bFirst THEN MovedBy(a, b.length) ELSE a,
          IF aFirst THEN MovedBy(b, a.length) ELSE b>>

transform_insert_delete_bug_edge(ins, del) ==
    IF ins.position < del.position
    THEN <<ins, MovedBy(del, ins.length)>>
    ELSE IF ins.position >= Wrap(del.position + del.length)
    THEN <<MovedBy(ins, -del.length), del>>
    ELSE <<[ins EXCEPT !.position = del.position, !.text = << >>, !.length = 0],
           [del EXCEPT !.length = Wrap(@ + ins.length)]>>

transform_insert_delete(ins, del) ==
    IF ins.position <= del.position
    THEN <<ins, MovedBy(del, ins.length)>>
    ELSE IF ins.position >= Wrap(del.position + del.length)
    THEN <<MovedBy(ins, -del.length), del>>
    ELSE <<[ins EXCEPT !.position = del.position, !.text = << >>, !.length = 0],
           [del EXCEPT !.length = Wrap(@ + ins.length)]>>

\* The code's signed overlap: words on both sides of HalfWord compare as
\* unsigned in Least/Greatest and subtract as signed.
Overlap(a, b) ==
    LET endA == Wrap(a.position + a.length)
        endB == Wrap(b.position + b.length)
    IN  Greatest(0, Signed(Least(endA, endB))
                      - Signed(Greatest(a.position, b.position)))

transform_delete_delete(a, b) ==
    LET overlap == Overlap(a, b)
        shrunk(op) == [op EXCEPT !.position = Least(a.position, b.position),
                                 !.length = Wrap(@ - overlap)]
    IN  IF overlap # 0 THEN <<shrunk(a), shrunk(b)>>
        ELSE <<IF a.position > b.position THEN MovedBy(a, -b.length) ELSE a,
               IF a.position < b.position THEN MovedBy(b, -a.length) ELSE b>>

transform(a, b) ==
    CASE a.type = "insert" /\ b.type = "insert" -> transform_insert_insert(a, b)
      [] a.type = "insert" /\ b.type = "delete" -> transform_insert_delete(a, b)
      [] a.type = "delete" /\ b.type = "insert" ->
            LET t == transform_insert_delete(b, a) IN <<t[2], t[1]>>
      [] a.type = "delete" /\ b.type = "delete" -> transform_delete_delete(a, b)

\* std::string::insert and std::string::erase, for pos <= size and
\* n <= size - pos.
InsertText(doc, pos, text) ==
    [i \in 1 .. Len(doc) + Len(text) |->
        IF i <= pos THEN doc[i]
        ELSE IF i <= pos + Len(text) THEN text[i - pos]
        ELSE doc[i - Len(text)]]

EraseText(doc, pos, n) ==
    [i \in 1 .. Len(doc) - n |-> IF i <= pos THEN doc[i] ELSE doc[i + n]]

apply(doc, op) ==
    LET pos == Least(op.position, Len(doc))
    IN  IF is_noop(op) THEN doc
        ELSE IF op.type = "insert" THEN InsertText(doc, pos, op.text)
        ELSE EraseText(doc, pos, Least(op.length, Len(doc) - pos))

-----------------------------------------------------------------------------
(* client/src/cursor_translator.cpp: where a cursor at my_pos is after op. *)

translate_bug_inside(my_pos, op) ==
    IF is_noop(op) THEN my_pos
    ELSE IF op.type = "insert"
    THEN IF op.position <= my_pos THEN Wrap(my_pos + Len(op.text)) ELSE my_pos
    ELSE IF op.position < my_pos THEN Wrap(my_pos - op.length) ELSE my_pos

translate(my_pos, op) ==
    LET last == Wrap(op.position + op.length)
    IN  IF is_noop(op) THEN my_pos
        ELSE IF op.type = "insert"
        THEN IF op.position <= my_pos THEN Wrap(my_pos + Len(op.text)) ELSE my_pos
        ELSE IF last <= my_pos THEN Wrap(my_pos - op.length)
        ELSE IF op.position >= my_pos THEN my_pos
        ELSE op.position
=============================================================================
