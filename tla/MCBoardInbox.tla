----------------------------- MODULE MCBoardInbox -----------------------------
(* Small instances of BoardInbox for TLC. *)
EXTENDS BoardInbox
=============================================================================
