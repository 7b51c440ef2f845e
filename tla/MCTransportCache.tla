-------------------------- MODULE MCTransportCache --------------------------
(* Instances of TransportCache for TLC. *)
EXTENDS TransportCache, TLC

CONSTANTS Url, BadUrl, Five, Hundred

\* Nothing orders the fetchers: they differ in their options, chosen in Init.
FetcherSymmetry == Permutations(Fetchers)

Plain == [base |-> Default, caching |-> Unset, proxy |-> Unset, size |-> Unset]

\* Every way through setupTransport ...
EveryWay == {
    Plain,                                              \* keeps the default
    [Plain EXCEPT !.caching = "off", !.proxy = Url],    \* is isolated
    [Plain EXCEPT !.base = External],                   \* keeps it
    [Plain EXCEPT !.base = External, !.size = Hundred], \* keeps it: no difference
    [Plain EXCEPT !.base = External, !.size = Five],    \* clones it
    [Plain EXCEPT !.base = External, !.proxy = BadUrl], \* cannot clone it
    [Plain EXCEPT !.base = Foreign],                    \* cannot be configured
    [Plain EXCEPT !.base = Foreign, !.caching = "on"]}  \* stays as it is

\* ... and through the cache: some options with equal keys, a bad proxy.
SharedWays == {
    [Plain EXCEPT !.size = Five],
    [Plain EXCEPT !.proxy = Url], [Plain EXCEPT !.proxy = Url, !.size = Negative],
    [Plain EXCEPT !.proxy = Url, !.size = Five],
    [Plain EXCEPT !.proxy = Empty], [Plain EXCEPT !.proxy = NoProxy],
    [Plain EXCEPT !.proxy = BadUrl]}

ThreeKeys == {[Plain EXCEPT !.size = Five],
              [Plain EXCEPT !.proxy = Url], [Plain EXCEPT !.proxy = NoProxy]}

\* All fetchers compete for the cache, or two of any kinds meet.
CrowdOrPair ==
    [Fetchers -> ThreeKeys] \cup
    {m \in [Fetchers -> EveryWay \cup SharedWays] :
        Cardinality({f \in Fetchers : m[f] = Plain}) >= Cardinality(Fetchers) - 2}
=============================================================================
