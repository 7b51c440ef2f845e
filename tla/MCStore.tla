------------------------------ MODULE MCStore ------------------------------
EXTENDS Store, TLC
CONSTANTS cafe, town, x, y
MCArchiveDays == (cafe :> 0) @@ (town :> 1)
MCSymmetry    == Permutations(Boards)
=============================================================================
