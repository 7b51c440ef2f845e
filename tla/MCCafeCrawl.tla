---------------------------- MODULE MCCafeCrawl ----------------------------
(* Instances of CafeCrawl for TLC. *)
EXTENDS CafeCrawl
=============================================================================
