---------------------------- MODULE MCOTDiamond ----------------------------
(* OTDiamond on every text of at most MaxLength characters.  The characters *)
(* of a text are distinct, so that a lost, duplicated or moved one shows.   *)
EXTENDS OTDiamond

CONSTANT MaxLength

MCTexts == {[i \in 1 .. n |-> i] : n \in 0 .. MaxLength}
=============================================================================
