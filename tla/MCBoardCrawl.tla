---------------------------- MODULE MCBoardCrawl ----------------------------
(* Instances of BoardCrawl for TLC. *)
EXTENDS BoardCrawl, TLC

\* Boards differ only in name: nothing orders them.  For safety runs only.
BoardSymmetry == Permutations(Boards)
=============================================================================
