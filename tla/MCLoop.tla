------------------------------- MODULE MCLoop -------------------------------
(* Small instances of Loop for TLC. *)
EXTENDS Loop
=============================================================================
