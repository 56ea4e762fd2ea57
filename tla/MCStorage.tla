----------------------------- MODULE MCStorage -----------------------------
(* One document number, so that a restart uses it again. *)
EXTENDS Storage
=============================================================================
