----------------------------- MODULE MCItemTrail -----------------------------
(* Small instances of ItemTrail for TLC. *)
EXTENDS ItemTrail, TLC

\* An item some turn is working on.
Started == <<"created", "claimed", "started">>

CloneSymmetry == Permutations(Clones)
=============================================================================
