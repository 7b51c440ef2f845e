--------------------------- MODULE MCCafeContent ---------------------------
(* The instance of CafeContent for TLC. *)
EXTENDS CafeContent
=============================================================================
