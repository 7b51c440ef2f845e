--------------------------- MODULE MCContentPool ---------------------------
(* The instance of ContentPool for TLC. *)
EXTENDS ContentPool
=============================================================================
