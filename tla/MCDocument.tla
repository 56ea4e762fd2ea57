----------------------------- MODULE MCDocument -----------------------------
(* A document of two distinct characters and two users, whose insertions can *)
(* be told apart and differ in length: the order of ties is visible.         *)
EXTENDS DocumentUse

MCInitialText == <<11, 12>>
MCInsertions == <<{<<1>>}, {<<2, 3>>}>>
=============================================================================
