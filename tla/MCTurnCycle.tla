----------------------------- MODULE MCTurnCycle -----------------------------
(***************************************************************************)
(* Small instances of TurnCycle for TLC.                                   *)
(***************************************************************************)
EXTENDS TurnCycle, TLC

\* Every event of the vocabulary an agent may name, the well-behaved subset,
\* and the one that only ever reports a failure.
AllProposals == Events \ {"done", "created"}
PlainProposals == {"failed", "blocked", "released", "falsified", "note"}
FailingProposals == {"failed"}

WorkerSymmetry == Permutations(Workers)
=============================================================================
