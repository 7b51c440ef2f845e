------------------------------- MODULE MCApi -------------------------------
(* Instances of Api for TLC. *)
EXTENDS Api, TLC

CONSTANTS r1, r2, r3, r4, A, B, C

Call(a, p) == [from |-> a, path |-> p]

\* Four requests from three addresses that compete for two limiters, in which an
\* address comes back; and any two requests from one address.
CrowdOrPair ==
    {r1 :> Call(A, "unknown") @@ r2 :> Call(B, "unknown")
        @@ r3 :> Call(C, "unknown") @@ r4 :> Call(A, "unknown")} \cup
    {r1 :> Call(A, p) @@ r2 :> Call(A, q)
        @@ r3 :> Call(B, "preflight") @@ r4 :> Call(B, "preflight") :
        p \in Paths, q \in Paths}
=============================================================================
