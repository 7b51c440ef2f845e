------------------------ MODULE TransportCacheProofs ------------------------
(***************************************************************************)
(* Proofs about TransportCache: for any number of fetchers with any        *)
(* options, any limit of the cache, any Scan and any Refresh.              *)
(***************************************************************************)
EXTENDS TransportCache, FiniteSetTheorems, TLAPS

-----------------------------------------------------------------------------
(* Options and keys.                                                       *)

LEMMA GivenFields ==
    ASSUME NEW o \in Options
    PROVE  /\ Given(o).base = o.base
           /\ Given(o).proxy = o.proxy
           /\ Given(o).size = IF o.size = Unset THEN Unset ELSE Normalize(o.size)
  BY DEF Given, Options

LEMMA OptionsOf ==
    ASSUME opts \in Mixes, NEW f \in Fetchers
    PROVE  opts[f] \in Options /\ K(f) \in Keys
  BY OptionsAssumption DEF K, Keys

\* A value that was normalised stays as it is, and is never unset.
LEMMA Normalized ==
    ASSUME NEW o \in Options, o.size # Unset
    PROVE  /\ Normalize(o.size) \in Sizes
           /\ Normalize(Normalize(o.size)) = Normalize(o.size)
  BY OptionsAssumption DEF Options, Normalize

\* ToCacheKey keeps apart what newTransport tells apart: options that share a
\* transport are options that would have made the same one.
LEMMA KeyDecides ==
    ASSUME NEW a \in Options, NEW b \in Options,
           Shares(a), Shares(b), Key(a) = Key(b)
    PROVE  Build(a.base, a) = Build(b.base, b)
<1>1. \A o \in Options : Shares(o) =>
          /\ BaseSettings(o.base).proxy = Unset
          /\ BaseSettings(o.base).size = DefaultSize
  BY NamesAssumption DEF Shares, BaseSettings
<1>2. ASSUME NEW o \in Options, Shares(o)
      PROVE  /\ Build(o.base, o).size = Key(o).size
             /\ Build(o.base, o).proxy = IF Key(o).proxy = Empty THEN Unset
                                         ELSE Key(o).proxy
  <2>1. Build(o.base, o).size = Key(o).size
    BY <1>1, <1>2, GivenFields, Normalized, OptionsAssumption DEF Build, Key
  <2>2. o.proxy \in {Unset, Empty, NoProxy} \cup Proxies
    BY DEF Options
  <2>3. Build(o.base, o).proxy = IF Key(o).proxy = Empty THEN Unset ELSE Key(o).proxy
    BY <1>1, <1>2, <2>2, GivenFields, OptionsAssumption DEF Build, Key
  <2> QED
    BY <2>1, <2>3
<1>3. Build(a.base, a).size = Build(b.base, b).size
      /\ Build(a.base, a).proxy = Build(b.base, b).proxy
  BY <1>2
<1> QED
  BY <1>3 DEF Build

\* Options that ask for nothing leave the base as it is.
LEMMA NothingAsked ==
    ASSUME NEW o \in Options, o.proxy = Unset,
           o.size = Unset \/ (o.base = External /\ Given(o).size = ExternalSize)
    PROVE  Build(o.base, o) = BaseSettings(o.base)
<1>1. Build(o.base, o).proxy = BaseSettings(o.base).proxy
  BY GivenFields DEF Build
<1>2. CASE o.size = Unset
  BY <1>1, <1>2, GivenFields DEF Build, BaseSettings
<1>3. CASE o.size # Unset /\ o.base = External /\ Given(o).size = ExternalSize
  <2>1. Normalize(Given(o).size) = ExternalSize
    BY <1>3, OptionsAssumption DEF Normalize
  <2>2. Given(o).size # Unset
    BY <1>3, OptionsAssumption
  <2> QED
    BY <1>1, <1>3, <2>1, <2>2, GivenFields DEF Build, BaseSettings
<1> QED
  BY <1>2, <1>3

-----------------------------------------------------------------------------
(* The LRU list.                                                           *)

ListTyped == place \in [Fetchers -> 0..Limit] /\ len \in 0..Limit

ListOK ==
    /\ \A t \in Cached : place[t] <= len
    /\ \A i \in 1..len : \E t \in Cached : place[t] = i
    /\ \A t, u \in Cached : place[t] = place[u] => t = u

MapOK ==
    /\ \A t \in Cached : map[K(t)] = t
    /\ \A k \in Keys : map[k] # NoFetcher => map[k] \in Cached /\ K(map[k]) = k

\* Moving an element to the front keeps the list a list of the same elements.
LEMMA ToFrontKeeps ==
    ASSUME ListTyped, ListOK, NEW t \in Cached, ToFront(t)
    PROVE  ListTyped' /\ ListOK' /\ Cached' = Cached
<1> USE BoundsAssumption
<1>1. t \in Fetchers /\ place[t] \in 1..len /\ len' = len
  BY DEF Cached, ListTyped, ListOK, ToFront
<1>2. \A u \in Fetchers :
          place'[u] = IF u = t THEN 1
                      ELSE IF place[u] \in 1..(place[t] - 1) THEN place[u] + 1
                      ELSE place[u]
  BY DEF ToFront
<1>3. ListTyped'
  BY <1>1 DEF ToFront, ListTyped
<1>4. Cached' = Cached
  BY <1>1, <1>2 DEF Cached, ListTyped
<1>5. \A u \in Cached' : place'[u] <= len'
  BY <1>1, <1>2, <1>4 DEF Cached, ListTyped, ListOK
<1>6. ASSUME NEW i \in 1..len' PROVE \E u \in Cached' : place'[u] = i
  <2>1. CASE i = 1
    BY <1>1, <1>2, <1>4, <2>1
  <2>2. CASE i \in 2..place[t]
    <3>1. PICK u \in Cached : place[u] = i - 1
      BY <1>1, <2>2 DEF ListOK, ListTyped
    <3>2. place'[u] = i
      BY <1>1, <1>2, <2>2, <3>1 DEF Cached, ListTyped
    <3> QED
      BY <1>4, <3>2
  <2>3. CASE i > place[t]
    <3>1. PICK u \in Cached : place[u] = i
      BY <1>1, <1>6 DEF ListOK
    <3>2. place'[u] = i
      BY <1>1, <1>2, <2>3, <3>1 DEF Cached, ListTyped
    <3> QED
      BY <1>4, <3>2
  <2> QED
    BY <1>1, <2>1, <2>2, <2>3 DEF ListTyped
<1>7. \A u, v \in Cached' : place'[u] = place'[v] => u = v
  BY <1>1, <1>2, <1>4 DEF Cached, ListTyped, ListOK
<1> QED
  BY <1>3, <1>4, <1>5, <1>6, <1>7 DEF ListOK

\* A new element in front of a list that is not full.
LEMMA PushKeeps ==
    ASSUME ListTyped, ListOK, NEW f \in Fetchers, place[f] = 0, len < Limit, Push(f)
    PROVE  ListTyped' /\ ListOK' /\ Cached' = Cached \cup {f}
<1> USE BoundsAssumption
<1>1. /\ \A u \in Fetchers :
             place'[u] = IF u = f THEN 1 ELSE IF place[u] = 0 THEN 0 ELSE place[u] + 1
      /\ len' = len + 1
  BY DEF Push
<1>2. ListTyped'
  <2>1. \A u \in Fetchers : place'[u] \in 0..Limit
    BY <1>1 DEF ListTyped, ListOK, Cached
  <2> QED
    BY <1>1, <2>1 DEF Push, ListTyped
<1>3. Cached' = Cached \cup {f}
  BY <1>1 DEF Cached, ListTyped
<1>4. \A u \in Cached' : place'[u] <= len'
  BY <1>1, <1>3 DEF Cached, ListTyped, ListOK
<1>5. ASSUME NEW i \in 1..len' PROVE \E u \in Cached' : place'[u] = i
  <2>1. CASE i = 1
    BY <1>1, <1>3, <2>1
  <2>2. CASE i # 1
    <3>1. PICK u \in Cached : place[u] = i - 1
      BY <1>1, <1>5, <2>2 DEF ListOK, ListTyped
    <3>2. place'[u] = i
      BY <1>1, <2>2, <3>1 DEF Cached, ListTyped
    <3> QED
      BY <1>3, <3>2
  <2> QED
    BY <2>1, <2>2
<1>6. \A u, v \in Cached' : place'[u] = place'[v] => u = v
  BY <1>1, <1>3 DEF Cached, ListTyped, ListOK
<1> QED
  BY <1>2, <1>3, <1>4, <1>5, <1>6 DEF ListOK

\* A new element in front, and w out.
LEMMA ReplaceKeeps ==
    ASSUME ListTyped, ListOK, NEW f \in Fetchers, place[f] = 0,
           NEW w \in Cached, Replace(f, w)
    PROVE  ListTyped' /\ ListOK' /\ Cached' = (Cached \ {w}) \cup {f}
<1> USE BoundsAssumption
<1>1. /\ \A u \in Fetchers :
             place'[u] = IF u = f THEN 1
                         ELSE IF u = w \/ place[u] = 0 THEN 0
                         ELSE IF place[u] > place[w] THEN place[u]
                         ELSE place[u] + 1
      /\ len' = len
  BY DEF Replace, PlacesWith
<1>2. w \in Fetchers /\ place[w] \in 1..len /\ w # f
  BY DEF Cached, ListTyped, ListOK
<1>3. \A u \in Cached : u # w /\ place[u] <= place[w] => place[u] < place[w]
  BY <1>2 DEF Cached, ListTyped, ListOK
<1>4. ListTyped'
  <2>1. \A u \in Fetchers : place'[u] \in 0..Limit
    BY <1>1, <1>2, <1>3 DEF ListTyped, Cached
  <2> QED
    BY <1>1, <2>1 DEF Replace, PlacesWith, ListTyped
<1>5. Cached' = (Cached \ {w}) \cup {f}
  BY <1>1, <1>2 DEF Cached, ListTyped
<1>6. \A u \in Cached' : place'[u] <= len'
  BY <1>1, <1>2, <1>3, <1>5 DEF Cached, ListTyped, ListOK
<1>7. ASSUME NEW i \in 1..len' PROVE \E u \in Cached' : place'[u] = i
  <2>1. CASE i = 1
    BY <1>1, <1>5, <2>1
  <2>2. CASE i \in 2..place[w]
    <3>1. PICK u \in Cached : place[u] = i - 1
      BY <1>1, <1>2, <2>2 DEF ListOK, ListTyped
    <3>2. place'[u] = i /\ u # w
      BY <1>1, <1>2, <2>2, <3>1 DEF Cached, ListTyped
    <3> QED
      BY <1>5, <3>2
  <2>3. CASE i > place[w]
    <3>1. PICK u \in Cached : place[u] = i
      BY <1>1, <1>7 DEF ListOK
    <3>2. place'[u] = i /\ u # w
      BY <1>1, <1>2, <2>3, <3>1 DEF Cached, ListTyped
    <3> QED
      BY <1>5, <3>2
  <2> QED
    BY <1>1, <1>2, <2>1, <2>2, <2>3 DEF ListTyped
<1>8. \A u, v \in Cached' : place'[u] = place'[v] => u = v
  BY <1>1, <1>2, <1>3, <1>5 DEF Cached, ListTyped, ListOK
<1> QED
  BY <1>4, <1>5, <1>6, <1>7, <1>8 DEF ListOK

-----------------------------------------------------------------------------
(* Types and the consistency of the cache.                                 *)

\* What is cached was registered, and nothing else is; what is made is made by
\* who got that far, and only that is ever closed.
MadeInv ==
    /\ \A f \in Fetchers :
          /\ pc[f] \in {"new", "share", "look", "stale", "touch", "make"} => f \notin made
          /\ pc[f] \in {"made", "register"} => f \in made \ swept
          /\ pc[f] \in {"share", "look", "stale", "touch", "make", "made", "register"}
                => Shares(opts[f])
    /\ \A t \in Cached : t \in made /\ Shares(opts[t]) /\ pc[t] \in {"ready", "closed"}
    /\ swept \subseteq made

LEMMA CacheParts == CacheConsistent <=> ListOK /\ MapOK
  BY DEF CacheConsistent, ListOK, MapOK

\* What the map finds for f, if anything, is a cached transport with f's key.
LEMMA Found ==
    ASSUME TypeOK, MapOK, NEW f \in Fetchers, map[K(f)] # NoFetcher
    PROVE  map[K(f)] \in Cached /\ map[K(f)] \in Fetchers /\ K(map[K(f)]) = K(f)
  BY OptionsOf DEF TypeOK, MapOK, Cached

\* The registering fetcher wins: it is pushed, or replaces the victim.
LEMMA WonKeeps ==
    ASSUME TypeOK, CacheConsistent, MadeInv, NEW f \in Fetchers,
           pc[f] = "register", opts' = opts, Won(f)
    PROVE  /\ ListTyped' /\ ListOK' /\ MapOK'
           /\ map' \in [Keys -> Fetchers \cup {NoFetcher}]
           /\ swept' \subseteq swept \cup Cached /\ evicted' \subseteq Fetchers
           /\ Cached' \subseteq Cached \cup {f} /\ swept' \cap Cached' \subseteq swept
           /\ \A t \in swept' \ swept : t \in evicted'
           /\ evicted \subseteq evicted'
           /\ \A t \in Cached : t \in Cached' \/ t \in swept'
           /\ f \in Cached' /\ swept \subseteq swept'
<1>1. /\ ListTyped /\ ListOK /\ MapOK
      /\ map \in [Keys -> Fetchers \cup {NoFetcher}] /\ evicted \subseteq Fetchers
  BY CacheParts DEF TypeOK, ListTyped
<1>2. place[f] = 0
  BY DEF MadeInv, Cached, TypeOK
<1>3. /\ \A t \in Fetchers : K(t) \in Keys
      /\ Cached \subseteq Fetchers /\ f \notin Cached
  BY <1>2, OptionsOf DEF TypeOK, Cached
<1>4. NoFetcher \notin Fetchers
  BY NamesAssumption
<1>5. CASE len >= Limit
  <2>1. PICK w \in Fetchers : Victim(w) /\ Replace(f, w)
    BY <1>5 DEF Won
  <2>2. w \in Cached
    BY <2>1 DEF Victim
  <2>3. ListTyped' /\ ListOK' /\ Cached' = (Cached \ {w}) \cup {f}
    BY <1>1, <1>2, <2>1, <2>2, ReplaceKeeps
  <2>4. /\ map' = [map EXCEPT ![K(w)] = NoFetcher, ![K(f)] = f]
        /\ swept' = swept \cup {w} /\ evicted' = evicted \cup {w}
    BY <2>1 DEF Replace
  <2>5. map[K(f)] = NoFetcher
    BY DEF Won
  <2>6. MapOK'
    <3>1. ASSUME NEW t \in Cached' PROVE map'[K(t)] = t
      BY <1>1, <1>3, <1>4, <2>2, <2>3, <2>4, <2>5, <3>1 DEF MapOK
    <3>2. ASSUME NEW k \in Keys, map'[k] # NoFetcher
          PROVE  map'[k] \in Cached' /\ K(map'[k]) = k
      BY <1>1, <1>3, <1>4, <2>2, <2>3, <2>4, <2>5, <3>2 DEF MapOK
    <3> QED
      BY <3>1, <3>2 DEF MapOK, K
  <2> QED
    BY <1>1, <1>3, <2>2, <2>3, <2>4, <2>6
<1>6. CASE ~(len >= Limit)
  <2>1. Push(f)
    BY <1>6 DEF Won
  <2>2. len < Limit
    BY <1>1, <1>6, BoundsAssumption DEF ListTyped
  <2>3. ListTyped' /\ ListOK' /\ Cached' = Cached \cup {f}
    BY <1>1, <1>2, <2>1, <2>2, PushKeeps
  <2>4. /\ map' = [map EXCEPT ![K(f)] = f]
        /\ swept' = swept /\ evicted' = evicted
    BY <2>1 DEF Push
  <2>5. map[K(f)] = NoFetcher
    BY DEF Won
  <2>6. MapOK'
    <3>1. ASSUME NEW t \in Cached' PROVE map'[K(t)] = t
      BY <1>1, <1>3, <1>4, <2>3, <2>4, <2>5, <3>1 DEF MapOK
    <3>2. ASSUME NEW k \in Keys, map'[k] # NoFetcher
          PROVE  map'[k] \in Cached' /\ K(map'[k]) = k
      BY <1>1, <1>3, <1>4, <2>3, <2>4, <2>5, <3>2 DEF MapOK
    <3> QED
      BY <3>1, <3>2 DEF MapOK, K
  <2> QED
    BY <1>1, <1>3, <2>3, <2>4, <2>6
<1> QED
  BY <1>5, <1>6

LEMMA InitTypes == Init => TypeOK /\ CacheConsistent /\ MadeInv
<1> SUFFICES ASSUME Init PROVE TypeOK /\ CacheConsistent /\ MadeInv
  OBVIOUS
<1>1. \A f \in Fetchers : opts[f].base \in Builtin
  BY OptionsAssumption DEF Init, Options
<1>2. TypeOK
  BY <1>1, BoundsAssumption DEF Init, TypeOK, Disabled
<1>3. Cached = {}
  BY DEF Init, Cached
<1> QED
  BY <1>2, <1>3 DEF Init, CacheConsistent, MadeInv

\* Steps that leave the cache alone leave it consistent.
LEMMA EntriesKept ==
    ASSUME CacheConsistent, UNCHANGED <<opts, map, list>>
    PROVE  CacheConsistent' /\ Cached' = Cached
<1>1. Cached' = Cached
  BY DEF Cached, list
<1> QED
  BY <1>1 DEF CacheConsistent, K, list

\* A hit that moves its entry to the front.
LEMMA MovedKept ==
    ASSUME TypeOK, CacheConsistent, NEW t \in Cached, ToFront(t), UNCHANGED <<opts, map>>
    PROVE  CacheConsistent' /\ Cached' = Cached /\ ListTyped'
<1>1. ListTyped /\ ListOK /\ MapOK
  BY CacheParts DEF TypeOK, ListTyped
<1>2. ListTyped' /\ ListOK' /\ Cached' = Cached
  BY <1>1, ToFrontKeeps
<1>3. MapOK'
  BY <1>1, <1>2 DEF MapOK, K
<1> QED
  BY <1>2, <1>3 DEF CacheConsistent, ListOK, MapOK

LEMMA NextTypes ==
    ASSUME TypeOK, CacheConsistent, MadeInv, NEW f \in Fetchers,
           SetUp(f) \/ RLock(f) \/ LookUp(f) \/ Lock(f) \/ Touch(f) \/ Make(f)
               \/ Register(f) \/ Close(f)
    PROVE  TypeOK' /\ CacheConsistent'
<1> USE DEF TypeOK, Goes
<1>1. CASE SetUp(f)
  <2>1. UNCHANGED <<opts, map, list, hits, lock, swept, evicted>>
    BY <1>1 DEF SetUp, Keep, Reject, Isolate, Clone, Own, KeepExternal, Share, entries, fate
  <2>2. TypeOK'
    <3>1. ASSUME Keep(f) \/ Reject(f) \/ KeepExternal(f) \/ Share(f) PROVE TypeOK'
      BY <2>1, <3>1 DEF Keep, Reject, KeepExternal, Share, fetcherVars, fate, lock, list
    <3>2. ASSUME Own(f) PROVE TypeOK'
      BY <2>1, <3>2 DEF Own, lock, list
    <3> QED
      BY <1>1, <3>1, <3>2 DEF SetUp, Isolate, Clone
  <2> QED
    BY <2>1, <2>2, EntriesKept
<1>2. CASE RLock(f) \/ Lock(f)
  <2>1. UNCHANGED <<opts, map, list, hits, fetcherVars, fate>>
    BY <1>2 DEF RLock, Lock, entries
  <2>2. TypeOK'
    BY <1>2, <2>1 DEF RLock, Lock, fetcherVars, fate, list
  <2> QED
    BY <2>1, <2>2, EntriesKept
<1>3. CASE LookUp(f)
  <2>1. UNCHANGED <<opts, map, list, fate>>
    BY <1>3 DEF LookUp
  <2>2. map[K(f)] # NoFetcher => map[K(f)] \in Fetchers
    BY OptionsOf
  <2>3. hits' \in [Fetchers -> 0..(Refresh - 1)]
    BY <1>3, <2>2, BoundsAssumption DEF LookUp, Count
  <2>4. tr' \in [Fetchers -> Builtin \cup Fetchers] /\ owns' \in [Fetchers -> BOOLEAN]
        /\ isolated' = isolated
    BY <1>3, <2>2 DEF LookUp, Take, fetcherVars
  <2>5. TypeOK'
    BY <1>3, <2>1, <2>3, <2>4 DEF LookUp, RUnlock, fate, list
  <2> QED
    BY <2>1, <2>5, EntriesKept
<1>4. CASE Touch(f)
  <2>1. UNCHANGED <<opts, map, hits, fate, readers>> /\ writer' = NoFetcher
    BY <1>4 DEF Touch, Unlock
  <2>2. tr' \in [Fetchers -> Builtin \cup Fetchers] /\ owns' \in [Fetchers -> BOOLEAN]
        /\ isolated' = isolated
    BY <1>4, OptionsOf DEF Touch, Take, fetcherVars
  <2>3. CacheConsistent' /\ ListTyped'
    <3>1. CASE map[K(f)] = NoFetcher
      BY <1>4, <2>1, <3>1, EntriesKept DEF Touch, ListTyped, list
    <3>2. CASE map[K(f)] # NoFetcher
      BY <1>4, <2>1, <3>2, MovedKept, Found, CacheParts DEF Touch
    <3> QED
      BY <3>1, <3>2
  <2>4. TypeOK'
    BY <1>4, <2>1, <2>2, <2>3 DEF Touch, ListTyped, fate
  <2> QED
    BY <2>3, <2>4
<1>5. CASE Make(f)
  <2>1. UNCHANGED <<opts, map, list, hits, fetcherVars, lock, swept, evicted>>
    BY <1>5 DEF Make, entries
  <2>2. TypeOK'
    BY <1>5, <2>1 DEF Make, fetcherVars, lock, list
  <2> QED
    BY <2>1, <2>2, EntriesKept
<1>6. CASE Register(f)
  <2>1. UNCHANGED <<opts, hits, made, readers>> /\ writer' = NoFetcher
        /\ pc[f] = "register" /\ pc' = [pc EXCEPT ![f] = "ready"]
    BY <1>6 DEF Register, Unlock
  <2>2. CASE Lost(f)
    <3>1. map[K(f)] \in Cached /\ map[K(f)] \in Fetchers
      BY <2>2, Found, CacheParts DEF Lost
    <3>2. CacheConsistent' /\ ListTyped'
      BY <2>1, <2>2, <3>1, MovedKept DEF Lost
    <3>3. TypeOK'
      BY <2>1, <2>2, <3>1, <3>2 DEF Lost, Take, ListTyped
    <3> QED
      BY <3>2, <3>3
  <2>3. CASE Won(f)
    <3>1. /\ ListTyped' /\ ListOK' /\ MapOK'
          /\ map' \in [Keys -> Fetchers \cup {NoFetcher}]
          /\ swept' \subseteq swept \cup Cached /\ evicted' \subseteq Fetchers
      BY <2>1, <2>3, WonKeeps
    <3>2. CacheConsistent'
      BY <3>1 DEF CacheConsistent, ListOK, MapOK
    <3>3. Cached \subseteq Fetchers
      BY DEF Cached
    <3>4. TypeOK'
      BY <2>1, <2>3, <3>1, <3>3 DEF Won, Take, ListTyped
    <3> QED
      BY <3>2, <3>4
  <2> QED
    BY <1>6, <2>2, <2>3 DEF Register
<1>7. CASE Close(f)
  <2>1. UNCHANGED <<opts, map, list, hits, fetcherVars, lock, made, evicted>>
    BY <1>7 DEF Close, entries
  <2>2. TypeOK'
    BY <1>7, <2>1 DEF Close, fetcherVars, lock, list
  <2> QED
    BY <2>1, <2>2, EntriesKept
<1> QED
  BY <1>1, <1>2, <1>3, <1>4, <1>5, <1>6, <1>7

-----------------------------------------------------------------------------
(* Who works with which transport.                                         *)

\* Until a fetcher is set up it has its base.
BaseInv == \A f \in Fetchers : pc[f] \notin {"ready", "closed"} =>
    tr[f] = opts[f].base /\ ~owns[f] /\ isolated[f] = Disabled(opts[f])

\* A fetcher has its base, or a transport of its own that nobody shares, or one
\* that was made for the key of its options and registered.
Owned(f) ==
    tr[f] = f /\ owns[f] /\ isolated[f] /\ f \in made /\ ~Shares(opts[f])

Shared(f) ==
    /\ ~owns[f] /\ Shares(opts[f])
    /\ tr[f] \in made /\ pc[tr[f]] \in {"ready", "closed"}
    /\ Shares(opts[tr[f]]) /\ K(tr[f]) = K(f)

LinkInv == \A f \in Fetchers :
    (tr[f] = opts[f].base /\ ~owns[f]) \/ Owned(f) \/ Shared(f)

LEMMA InitLinks == Init => BaseInv /\ LinkInv
  BY DEF Init, BaseInv, LinkInv

\* The fetcher of a step comes further; no other one moves.
LEMMA OnlyOneMoves ==
    ASSUME TypeOK, NEW f \in Fetchers,
           SetUp(f) \/ RLock(f) \/ LookUp(f) \/ Lock(f) \/ Touch(f) \/ Make(f)
               \/ Register(f) \/ Close(f)
    PROVE  /\ opts' = opts
           /\ \A g \in Fetchers \ {f} :
                 /\ pc'[g] = pc[g] /\ tr'[g] = tr[g]
                 /\ owns'[g] = owns[g] /\ isolated'[g] = isolated[g]
           /\ made' \subseteq made \cup {f} /\ made \subseteq made'
           /\ pc[f] \notin {"closed", "failed"}
           /\ pc[f] = "ready" => pc'[f] = "closed"
<1> USE DEF TypeOK, Goes
<1>1. CASE Keep(f) \/ Reject(f) \/ KeepExternal(f) \/ Share(f)
  BY <1>1 DEF Keep, Reject, KeepExternal, Share, fetcherVars, fate
<1>2. CASE Own(f)
  BY <1>2 DEF Own
<1>3. CASE RLock(f) \/ Lock(f)
  BY <1>3 DEF RLock, Lock, fetcherVars, fate
<1>4. CASE LookUp(f)
  BY <1>4 DEF LookUp, Take, fetcherVars, fate
<1>5. CASE Touch(f)
  BY <1>5 DEF Touch, Take, fetcherVars, fate
<1>6. CASE Make(f)
  BY <1>6 DEF Make, fetcherVars
<1>7. CASE Register(f)
  BY <1>7 DEF Register, Lost, Won, Take
<1>8. CASE Close(f)
  BY <1>8 DEF Close, fetcherVars
<1> QED
  BY <1>1, <1>2, <1>3, <1>4, <1>5, <1>6, <1>7, <1>8 DEF SetUp, Isolate, Clone

LEMMA NextMade ==
    ASSUME TypeOK, CacheConsistent, MadeInv, BaseInv, LinkInv, NEW f \in Fetchers,
           SetUp(f) \/ RLock(f) \/ LookUp(f) \/ Lock(f) \/ Touch(f) \/ Make(f)
               \/ Register(f) \/ Close(f)
    PROVE  MadeInv'
<1>1. Cached \subseteq Fetchers /\ f \in Fetchers /\ Fetchers \cap Builtin = {}
  BY NamesAssumption DEF Cached
<1>2. opts' = opts /\ TypeOK /\ (\A g \in Fetchers \ {f} : pc'[g] = pc[g])
  BY OnlyOneMoves
<1>3. CASE Keep(f) \/ Reject(f) \/ KeepExternal(f) \/ Share(f) \/ RLock(f) \/ Lock(f)
  <2>1. UNCHANGED <<list, fate>>
    BY <1>3 DEF Keep, Reject, KeepExternal, Share, RLock, Lock, entries
  <2>2. Cached' = Cached
    BY <2>1 DEF Cached, list
  <2>3. CASE RLock(f) \/ Lock(f)
    BY <1>1, <1>2, <2>1, <2>2, <2>3 DEF MadeInv, RLock, Lock, Goes, fate, TypeOK
  <2>4. CASE Keep(f) \/ Reject(f) \/ KeepExternal(f) \/ Share(f)
    BY <1>1, <1>2, <2>1, <2>2, <2>4
       DEF MadeInv, Keep, Reject, KeepExternal, Share, Goes, fate, TypeOK
  <2> QED
    BY <1>3, <2>3, <2>4
<1>4. CASE Own(f)
  <2>1. Cached' = Cached
    BY <1>4 DEF Own, Cached, entries, list
  <2> QED
    BY <1>1, <1>2, <1>4, <2>1 DEF MadeInv, Own, Goes, TypeOK
<1>5. CASE LookUp(f)
  <2>1. Cached' = Cached /\ UNCHANGED fate
    BY <1>5 DEF LookUp, Cached, list
  <2> QED
    BY <1>1, <1>2, <1>5, <2>1 DEF MadeInv, LookUp, Goes, TypeOK, fate
<1>6. CASE Touch(f)
  <2>1. Cached' = Cached
    <3>1. CASE map[K(f)] = NoFetcher
      BY <1>6, <3>1 DEF Touch, Cached, list
    <3>2. CASE map[K(f)] # NoFetcher
      BY <1>6, <3>2, MovedKept, Found, CacheParts DEF Touch
    <3> QED
      BY <3>1, <3>2
  <2> QED
    BY <1>1, <1>2, <1>6, <2>1 DEF MadeInv, Touch, Goes, TypeOK, fate
<1>7. CASE Make(f)
  <2>1. Cached' = Cached
    BY <1>7 DEF Make, Cached, entries, list
  <2> QED
    BY <1>1, <1>2, <1>7, <2>1 DEF MadeInv, Make, Goes, TypeOK
<1>8. CASE Register(f)
  <2>1. UNCHANGED made /\ pc[f] = "register" /\ pc'[f] = "ready"
    BY <1>8 DEF Register, Goes, TypeOK
  <2>2. f \in made /\ Shares(opts[f])
    BY <2>1 DEF MadeInv
  <2>3. /\ Cached' \subseteq Cached \cup {f}
        /\ swept' \subseteq swept \cup Cached \cup {f}
    <3>1. CASE Lost(f)
      BY <3>1, <1>8, <2>1, MovedKept, Found, CacheParts DEF Lost, Register
    <3>2. CASE Won(f)
      BY <3>2, <1>2, <2>1, WonKeeps
    <3> QED
      BY <1>8, <3>1, <3>2 DEF Register
  <2>4. \A g \in Fetchers : pc'[g] \in {"made", "register"} => g \notin swept'
    BY <1>1, <1>2, <2>1, <2>3 DEF MadeInv
  <2> QED
    BY <1>1, <1>2, <2>1, <2>2, <2>3, <2>4 DEF MadeInv
<1>9. CASE Close(f)
  <2>1. Cached' = Cached /\ UNCHANGED made /\ pc[f] = "ready" /\ pc'[f] = "closed"
    BY <1>9 DEF Close, Cached, Goes, TypeOK, entries, list
  <2>2. swept' \subseteq swept \cup {f} /\ (f \in swept' => f \in made)
    <3>1. CASE owns[f]
      BY <1>9, <3>1 DEF Close, LinkInv, Owned, Shared, MadeInv
    <3>2. CASE ~owns[f]
      BY <1>9, <3>2 DEF Close, MadeInv
    <3> QED
      BY <3>1, <3>2
  <2> QED
    BY <1>1, <1>2, <2>1, <2>2 DEF MadeInv
<1> QED
  BY <1>3, <1>4, <1>5, <1>6, <1>7, <1>8, <1>9 DEF SetUp, Isolate, Clone

\* What becomes of the transports in a step: what leaves the cache is closed, and
\* so is what its owner closes or the loser of a race made, and nothing else.
LEMMA Fates ==
    ASSUME TypeOK, CacheConsistent, MadeInv, BaseInv, LinkInv, ClosedOnlyIfEvicted,
           NEW f \in Fetchers,
           SetUp(f) \/ RLock(f) \/ LookUp(f) \/ Lock(f) \/ Touch(f) \/ Make(f)
               \/ Register(f) \/ Close(f)
    PROVE  /\ swept \subseteq swept' /\ evicted \subseteq evicted'
           /\ swept' \cap Cached' = {}
           /\ \A t \in Cached : t \in Cached' \cup swept'
           /\ \A t \in swept' \ swept :
                 t \in evicted' \/ (t = f /\ (pc[f] = "register" \/ Owned(f)))
           /\ pc[f] = "register" => f \in Cached' \cup swept'
           /\ pc[f] = "ready" /\ Owned(f) => f \in swept'
<1>1. Cached \subseteq Fetchers /\ Fetchers \cap Builtin = {} /\ swept \cap Cached = {}
  BY NamesAssumption DEF Cached, ClosedOnlyIfEvicted
<1>2. opts' = opts
  BY OnlyOneMoves
<1>3. CASE SetUp(f) \/ RLock(f) \/ LookUp(f) \/ Lock(f) \/ Make(f)
  <2>1. UNCHANGED <<list, swept, evicted>> /\ pc[f] \notin {"ready", "register"}
    <3>1. CASE SetUp(f)
      BY <3>1 DEF SetUp, Keep, Reject, Isolate, Clone, Own, KeepExternal, Share, Goes,
                  entries, fate
    <3>2. CASE RLock(f) \/ LookUp(f) \/ Lock(f) \/ Make(f)
      BY <3>2 DEF RLock, LookUp, Lock, Make, Goes, entries, fate
    <3> QED
      BY <1>3, <3>1, <3>2
  <2> QED
    BY <1>1, <2>1 DEF Cached, list
<1>4. CASE Touch(f)
  <2>1. UNCHANGED fate /\ pc[f] = "touch"
    BY <1>4 DEF Touch, Goes
  <2>2. Cached' = Cached
    <3>1. CASE map[K(f)] = NoFetcher
      BY <1>4, <3>1 DEF Touch, Cached, list
    <3>2. CASE map[K(f)] # NoFetcher
      BY <1>4, <3>2, MovedKept, Found, CacheParts DEF Touch
    <3> QED
      BY <3>1, <3>2
  <2> QED
    BY <1>1, <2>1, <2>2 DEF fate
<1>5. CASE Register(f)
  <2>1. pc[f] = "register"
    BY <1>5 DEF Register, Goes
  <2>2. f \notin swept /\ f \notin Cached
    BY <2>1 DEF MadeInv
  <2>3. CASE Lost(f)
    <3>1. Cached' = Cached /\ swept' = swept \cup {f} /\ evicted' = evicted
      BY <1>5, <2>3, MovedKept, Found, CacheParts DEF Lost, Register
    <3> QED
      BY <1>1, <2>1, <2>2, <3>1
  <2>4. CASE Won(f)
    BY <1>1, <1>2, <2>1, <2>2, <2>4, WonKeeps
  <2> QED
    BY <1>5, <2>3, <2>4 DEF Register
<1>6. CASE Close(f)
  <2>1. Cached' = Cached /\ UNCHANGED evicted /\ pc[f] = "ready"
    BY <1>6 DEF Close, Cached, Goes, entries, list
  <2>2. CASE Owned(f)
    <3>1. swept' = swept \cup {f}
      BY <1>1, <1>6, <2>2 DEF Close, Owned, Builtin
    <3>2. f \notin Cached
      BY <2>2 DEF Owned, MadeInv
    <3> QED
      BY <1>1, <2>1, <2>2, <3>1, <3>2
  <2>3. CASE ~Owned(f)
    <3>1. swept' = swept
      BY <1>6, <2>3 DEF Close, LinkInv, Shared
    <3> QED
      BY <1>1, <2>1, <2>3, <3>1
  <2> QED
    BY <2>2, <2>3
<1> QED
  BY <1>3, <1>4, <1>5, <1>6

\* What a fetcher that goes through the cache is given, it is given from the cache.
TakesCached(f) ==
    /\ pc[f] \in {"look", "touch", "register"} /\ pc'[f] = "ready"
    /\ ~owns'[f]
    /\ tr'[f] \in Cached'
    /\ K(tr'[f]) = K(f)

\* What the fetcher of a step works with afterwards: what it had, a transport of
\* its own, or one from the cache.
LEMMA WhatItTakes ==
    ASSUME TypeOK, CacheConsistent, MadeInv, BaseInv, NEW f \in Fetchers,
           SetUp(f) \/ RLock(f) \/ LookUp(f) \/ Lock(f) \/ Touch(f) \/ Make(f)
               \/ Register(f) \/ Close(f)
    PROVE  \/ /\ tr'[f] = tr[f] /\ owns'[f] = owns[f] /\ isolated'[f] = isolated[f]
              /\ pc'[f] = "ready" => Keep(f) \/ KeepExternal(f)
           \/ Isolate(f) \/ Clone(f)
           \/ TakesCached(f)
<1> USE DEF TypeOK, Goes
<1>1. CASE SetUp(f)
  BY <1>1 DEF SetUp, Keep, Reject, KeepExternal, Share, fetcherVars, BaseInv
<1>2. CASE RLock(f) \/ Lock(f)
  BY <1>2 DEF RLock, Lock, fetcherVars
<1>3. CASE LookUp(f)
  <2>1. Cached' = Cached
    BY <1>3 DEF LookUp, Cached, list
  <2>2. CASE pc'[f] = "ready"
    <3>1. map[K(f)] # NoFetcher /\ Take(f, map[K(f)]) /\ pc[f] = "look"
      BY <1>3, <2>2 DEF LookUp
    <3> QED
      BY <2>1, <2>2, <3>1, Found, CacheParts DEF TakesCached, Take
  <2>3. CASE pc'[f] # "ready"
    BY <1>3, <2>3 DEF LookUp, fetcherVars
  <2> QED
    BY <2>2, <2>3
<1>4. CASE Touch(f)
  <2>1. CASE map[K(f)] = NoFetcher
    BY <1>4, <2>1 DEF Touch, fetcherVars
  <2>2. CASE map[K(f)] # NoFetcher
    <3>1. Take(f, map[K(f)]) /\ pc[f] = "touch" /\ pc'[f] = "ready"
      BY <1>4, <2>2 DEF Touch
    <3>2. Cached' = Cached
      BY <1>4, <2>2, MovedKept, Found, CacheParts DEF Touch
    <3> QED
      BY <2>2, <3>1, <3>2, Found, CacheParts DEF TakesCached, Take
  <2> QED
    BY <2>1, <2>2
<1>5. CASE Make(f)
  BY <1>5 DEF Make, fetcherVars
<1>6. CASE Register(f)
  <2>1. pc[f] = "register" /\ pc'[f] = "ready" /\ opts' = opts
    BY <1>6 DEF Register
  <2>2. CASE Lost(f)
    <3>1. Cached' = Cached
      BY <1>6, <2>2, MovedKept, Found, CacheParts DEF Lost, Register
    <3> QED
      BY <2>1, <2>2, <3>1, Found, CacheParts DEF TakesCached, Lost, Take
  <2>3. CASE Won(f)
    <3>1. f \in Cached'
      BY <2>1, <2>3, WonKeeps
    <3> QED
      BY <2>1, <2>3, <3>1 DEF TakesCached, Won, Take
  <2> QED
    BY <1>6, <2>2, <2>3 DEF Register
<1>7. CASE Close(f)
  BY <1>7 DEF Close, fetcherVars
<1> QED
  BY <1>1, <1>2, <1>3, <1>4, <1>5, <1>6, <1>7

LEMMA NextLinks ==
    ASSUME TypeOK, CacheConsistent, MadeInv, BaseInv, LinkInv, NEW f \in Fetchers,
           SetUp(f) \/ RLock(f) \/ LookUp(f) \/ Lock(f) \/ Touch(f) \/ Make(f)
               \/ Register(f) \/ Close(f)
    PROVE  BaseInv' /\ LinkInv'
<1>1. /\ opts' = opts /\ made \subseteq made'
      /\ \A g \in Fetchers \ {f} : /\ pc'[g] = pc[g] /\ tr'[g] = tr[g]
                                   /\ owns'[g] = owns[g] /\ isolated'[g] = isolated[g]
      /\ pc[f] = "ready" => pc'[f] = "closed"
      /\ pc[f] # "closed"
  BY OnlyOneMoves
<1>2. MadeInv'
  BY NextMade
<1>3. ASSUME Isolate(f) \/ Clone(f)
      PROVE  pc'[f] = "ready" /\ Owned(f)'
  <2>1. ~Shares(opts[f])
    BY <1>3, NamesAssumption DEF Isolate, Clone, Own, Goes, Shares, BaseInv
  <2> QED
    BY <1>1, <1>3, <2>1 DEF Isolate, Clone, Own, Goes, Owned, TypeOK
<1>4. ASSUME TakesCached(f) PROVE pc'[f] = "ready" /\ Shared(f)'
  <2>1. Shares(opts[f])
    BY <1>4 DEF TakesCached, MadeInv
  <2>2. Cached' \subseteq Fetchers
    BY DEF Cached
  <2>3. tr'[f] \in made' /\ Shares(opts[tr'[f]]) /\ pc'[tr'[f]] \in {"ready", "closed"}
    BY <1>1, <1>2, <1>4 DEF TakesCached, MadeInv
  <2> QED
    BY <1>1, <1>4, <2>1, <2>3 DEF TakesCached, Shared, K
<1>5. BaseInv'
  BY <1>1, <1>3, <1>4, WhatItTakes DEF BaseInv
<1>6. ASSUME NEW g \in Fetchers, tr'[g] = tr[g], owns'[g] = owns[g],
             isolated'[g] = isolated[g]
      PROVE  (tr'[g] = opts'[g].base /\ ~owns'[g]) \/ Owned(g)' \/ Shared(g)'
  <2>1. CASE tr[g] = opts[g].base /\ ~owns[g]
    BY <1>1, <1>6, <2>1
  <2>2. CASE Owned(g)
    BY <1>1, <1>6, <2>2 DEF Owned
  <2>3. CASE Shared(g)
    <3>1. tr[g] \in Fetchers
      BY <2>3 DEF Shared, TypeOK
    <3>2. pc'[tr[g]] \in {"ready", "closed"}
      BY <1>1, <2>3, <3>1 DEF Shared
    <3> QED
      BY <1>1, <1>6, <2>3, <3>2 DEF Shared, K
  <2> QED
    BY <2>1, <2>2, <2>3 DEF LinkInv
<1>7. LinkInv'
  BY <1>1, <1>3, <1>4, <1>6, WhatItTakes DEF LinkInv
<1> QED
  BY <1>5, <1>7

LEMMA NextClosed ==
    ASSUME TypeOK, CacheConsistent, MadeInv, BaseInv, LinkInv, ClosedOnlyIfEvicted,
           NEW f \in Fetchers,
           SetUp(f) \/ RLock(f) \/ LookUp(f) \/ Lock(f) \/ Touch(f) \/ Make(f)
               \/ Register(f) \/ Close(f)
    PROVE  ClosedOnlyIfEvicted'
<1>1. MadeInv' /\ TypeOK' /\ LinkInv' /\ BaseInv'
  BY NextMade, NextTypes, NextLinks
<1>2. swept' \cap (Builtin \cup Cached') = {}
  BY <1>1, Fates, NamesAssumption DEF MadeInv, TypeOK
<1>3. ASSUME NEW g \in Fetchers \ {f}, pc'[g] = "ready", tr'[g] \in swept'
      PROVE  tr'[g] \in evicted'
  <2>1. pc[g] = "ready" /\ tr'[g] = tr[g]
    BY <1>3, OnlyOneMoves
  <2>2. CASE tr[g] \in swept
    BY <2>1, <2>2, Fates DEF ClosedOnlyIfEvicted
  <2>3. CASE tr[g] \notin swept
    <3>1. tr[g] # f \/ ~(pc[f] = "register" \/ Owned(f))
      <4>1. tr[g] = f => Shared(g)
        BY NamesAssumption, OptionsOf DEF LinkInv, Owned, TypeOK, Options
      <4> QED
        BY <4>1 DEF Shared, Owned
    <3> QED
      BY <1>3, <2>1, <2>3, <3>1, Fates
  <2> QED
    BY <2>2, <2>3
<1>4. ASSUME pc'[f] = "ready", tr'[f] \in swept' PROVE FALSE
  <2>1. CASE Keep(f) \/ KeepExternal(f)
    <3>1. tr'[f] = opts[f].base
      BY <2>1 DEF Keep, KeepExternal, Goes, BaseInv, fetcherVars
    <3> QED
      BY <1>2, <1>4, <3>1, OptionsOf DEF TypeOK, Options
  <2>2. CASE Isolate(f) \/ Clone(f)
    <3>1. tr'[f] = f /\ swept' = swept /\ pc[f] = "new"
      BY <2>2 DEF Isolate, Clone, Own, Goes, TypeOK
    <3> QED
      BY <1>4, <3>1 DEF MadeInv
  <2>3. CASE TakesCached(f)
    BY <1>2, <1>4, <2>3 DEF TakesCached
  <2> QED
    BY <1>4, <2>1, <2>2, <2>3, WhatItTakes
<1> QED
  BY <1>2, <1>3, <1>4 DEF ClosedOnlyIfEvicted

LEMMA NextNoneForgotten ==
    ASSUME TypeOK, CacheConsistent, MadeInv, BaseInv, LinkInv, ClosedOnlyIfEvicted,
           NoneForgotten, NEW f \in Fetchers,
           SetUp(f) \/ RLock(f) \/ LookUp(f) \/ Lock(f) \/ Touch(f) \/ Make(f)
               \/ Register(f) \/ Close(f)
    PROVE  NoneForgotten'
<1>1. \A g \in Fetchers \ {f} : /\ pc'[g] = pc[g] /\ tr'[g] = tr[g]
                                /\ owns'[g] = owns[g] /\ isolated'[g] = isolated[g]
  BY OnlyOneMoves
<1>2. made' \subseteq made \cup {f} /\ made \subseteq Fetchers
  BY OnlyOneMoves DEF TypeOK
<1>3. ASSUME NEW t \in made' \ {f}
      PROVE  \/ pc'[t] \in {"made", "register"}
             \/ t \in Cached'
             \/ pc'[t] = "ready" /\ owns'[t] /\ isolated'[t] /\ tr'[t] = t
             \/ t \in swept'
  BY <1>1, <1>2, <1>3, Fates DEF NoneForgotten
<1>4. ASSUME f \in made'
      PROVE  \/ pc'[f] \in {"made", "register"}
             \/ f \in Cached'
             \/ pc'[f] = "ready" /\ owns'[f] /\ isolated'[f] /\ tr'[f] = f
             \/ f \in swept'
  <2>1. CASE f \notin made
    <3>1. Own(f) \/ Make(f)
      BY <1>4, <2>1 DEF SetUp, Keep, Reject, Isolate, Clone, KeepExternal, Share, RLock,
         LookUp, Lock, Touch, Register, Close, fate
    <3> QED
      BY <2>1, <1>4, <3>1 DEF Own, Make, Goes, TypeOK
  <2>2. CASE f \in made
    <3>1. CASE pc[f] = "made"
      <4>1. Lock(f)
        BY <3>1 DEF SetUp, Keep, Reject, Isolate, Clone, Own, KeepExternal, Share, RLock,
           LookUp, Touch, Make, Register, Close, Goes
      <4> QED
        BY <3>1, <4>1 DEF Lock, Goes, TypeOK
    <3>2. CASE pc[f] = "ready" /\ owns[f]
      <4>1. Owned(f)
        BY <3>2 DEF LinkInv, Shared
      <4> QED
        BY <3>2, <4>1, Fates
    <3> QED
      BY <2>2, <3>1, <3>2, Fates DEF NoneForgotten
  <2> QED
    BY <2>1, <2>2
<1> QED
  BY <1>3, <1>4 DEF NoneForgotten

LEMMA NextOptions ==
    ASSUME TypeOK, CacheConsistent, MadeInv, BaseInv, LinkInv, OptionsHonoured,
           NEW f \in Fetchers,
           SetUp(f) \/ RLock(f) \/ LookUp(f) \/ Lock(f) \/ Touch(f) \/ Make(f)
               \/ Register(f) \/ Close(f)
    PROVE  OptionsHonoured'
<1> DEFINE Honoured(f0, t) ==
      IF t = Foreign THEN opts[f0].proxy = Unset /\ opts[f0].size = Unset
      ELSE (IF t \in Fetchers THEN Build(opts[t].base, opts[t]) ELSE BaseSettings(t))
               = Build(opts[f0].base, opts[f0])
<1>1. opts' = opts /\ \A g \in Fetchers \ {f} : pc'[g] = pc[g] /\ tr'[g] = tr[g]
  BY OnlyOneMoves
<1>2. ASSUME NEW g \in Fetchers \ {f}, pc'[g] = "ready" PROVE Honoured(g, tr'[g])
  BY <1>1, <1>2 DEF OptionsHonoured, Settings
<1>3. ASSUME pc'[f] = "ready" PROVE Honoured(f, tr'[f])
  <2>1. CASE Keep(f) \/ KeepExternal(f)
    <3>1. tr'[f] = opts[f].base /\ opts[f] \in Options /\ opts[f].base \in Builtin
      BY <2>1, OptionsOf DEF Keep, KeepExternal, Goes, BaseInv, fetcherVars, TypeOK, Options
    <3>2. opts[f].proxy = Unset
          /\ (opts[f].size = Unset
                 \/ (opts[f].base = External /\ Given(opts[f]).size = ExternalSize))
      BY <2>1 DEF Keep, KeepExternal, NeedsCustom, Differs
    <3>3. opts[f].base = Foreign => opts[f].size = Unset
      BY <3>2, NamesAssumption
    <3>4. Build(opts[f].base, opts[f]) = BaseSettings(opts[f].base)
      BY <3>1, <3>2, NothingAsked
    <3> QED
      BY <3>1, <3>2, <3>3, <3>4, NamesAssumption
  <2>2. CASE Isolate(f) \/ Clone(f)
    <3>1. tr'[f] = f
      BY <2>2 DEF Isolate, Clone, Own, TypeOK
    <3> QED
      BY <3>1, NamesAssumption DEF Builtin
  <2>3. CASE TakesCached(f)
    <3>1. MadeInv' /\ TypeOK'
      BY NextMade, NextTypes
    <3>2. tr'[f] \in Fetchers /\ K(tr'[f]) = K(f) /\ Shares(opts[tr'[f]])
      BY <1>1, <2>3, <3>1 DEF TakesCached, MadeInv, Cached
    <3>3. Shares(opts[f])
      BY <2>3 DEF TakesCached, MadeInv
    <3>4. Build(opts[tr'[f]].base, opts[tr'[f]]) = Build(opts[f].base, opts[f])
      BY <3>2, <3>3, KeyDecides, OptionsOf DEF TypeOK, K
    <3> QED
      BY <3>2, <3>4, NamesAssumption DEF Builtin
  <2> QED
    BY <1>3, <2>1, <2>2, <2>3, WhatItTakes
<1> QED
  BY <1>1, <1>2, <1>3 DEF OptionsHonoured, Settings

LEMMA NextLocks ==
    ASSUME TypeOK, LockDiscipline, NEW f \in Fetchers,
           SetUp(f) \/ RLock(f) \/ LookUp(f) \/ Lock(f) \/ Touch(f) \/ Make(f)
               \/ Register(f) \/ Close(f)
    PROVE  LockDiscipline'
<1> USE NamesAssumption DEF LockDiscipline, TypeOK, Goes
<1>1. CASE SetUp(f) \/ Make(f) \/ Close(f)
  <2>1. UNCHANGED <<readers, writer>>
    BY <1>1 DEF SetUp, Keep, Reject, Isolate, Clone, Own, KeepExternal, Share, Make, Close, lock
  <2>2. /\ pc[f] \notin {"look", "touch", "register"}
        /\ pc'[f] \notin {"look", "touch", "register"}
        /\ \A g \in Fetchers \ {f} : pc'[g] = pc[g]
    BY <1>1 DEF SetUp, Keep, Reject, Isolate, Clone, Own, KeepExternal, Share, Make, Close
  <2> QED
    BY <2>1, <2>2
<1>2. CASE RLock(f)
  BY <1>2 DEF RLock
<1>3. CASE LookUp(f)
  BY <1>3 DEF LookUp, RUnlock
<1>4. CASE Lock(f)
  BY <1>4 DEF Lock
<1>5. CASE Touch(f)
  BY <1>5 DEF Touch, Unlock
<1>6. CASE Register(f)
  BY <1>6 DEF Register, Unlock
<1> QED
  BY <1>1, <1>2, <1>3, <1>4, <1>5, <1>6

-----------------------------------------------------------------------------
(* The invariant and the theorems.                                         *)

Inv ==
    /\ TypeOK /\ CacheConsistent /\ LockDiscipline
    /\ MadeInv /\ BaseInv /\ LinkInv
    /\ ClosedOnlyIfEvicted /\ NoneForgotten /\ OptionsHonoured

LEMMA InitInv == Init => Inv
<1> SUFFICES ASSUME Init PROVE Inv
  OBVIOUS
<1>1. LockDiscipline
  BY DEF Init, LockDiscipline
<1>2. ClosedOnlyIfEvicted /\ NoneForgotten /\ OptionsHonoured
  BY DEF Init, ClosedOnlyIfEvicted, NoneForgotten, OptionsHonoured
<1> QED
  BY <1>1, <1>2, InitTypes, InitLinks DEF Inv

LEMMA StutterInv == ASSUME Inv, UNCHANGED vars PROVE Inv'
<1> USE DEF Inv, vars, fetcherVars, lock, entries, list, fate
<1>1. Cached' = Cached
  BY DEF Cached
<1>2. TypeOK' /\ LockDiscipline'
  BY DEF TypeOK, LockDiscipline
<1>3. CacheConsistent' /\ MadeInv'
  BY <1>1 DEF CacheConsistent, MadeInv, K
<1>4. BaseInv' /\ LinkInv'
  BY DEF BaseInv, LinkInv, Owned, Shared, K
<1>5. ClosedOnlyIfEvicted' /\ NoneForgotten'
  BY <1>1 DEF ClosedOnlyIfEvicted, NoneForgotten
<1>6. OptionsHonoured'
  BY DEF OptionsHonoured, Settings
<1> QED
  BY <1>2, <1>3, <1>4, <1>5, <1>6

LEMMA NextInv == Inv /\ [Next]_vars => Inv'
<1> SUFFICES ASSUME Inv, Next PROVE Inv'
  BY StutterInv
<1>1. PICK f \in Fetchers :
          SetUp(f) \/ RLock(f) \/ LookUp(f) \/ Lock(f) \/ Touch(f) \/ Make(f)
              \/ Register(f) \/ Close(f)
  BY DEF Next
<1> QED
  BY <1>1, NextTypes, NextMade, NextLinks, NextClosed, NextNoneForgotten, NextOptions,
     NextLocks DEF Inv

\* Types, the consistency of the cache, and who works with which transport.
THEOREM TransportInvariant == Spec => []Inv
  BY InitInv, NextInv, PTL DEF Spec

\* Neither the map nor the list outgrows Limit, whatever fetchers race to fill them.
THEOREM TransportTypes == Spec => []TypeOK
<1>1. Inv => TypeOK
  BY DEF Inv
<1> QED
  BY <1>1, TransportInvariant, PTL

\* transportCacheMu is never left behind, nor taken twice.
THEOREM LockDisciplineHolds == Spec => []LockDiscipline
<1>1. Inv => LockDiscipline
  BY DEF Inv
<1> QED
  BY <1>1, TransportInvariant, PTL

\* The map and the list never disagree.
THEOREM CacheConsistentHolds == Spec => []CacheConsistent
<1>1. Inv => CacheConsistent
  BY DEF Inv
<1> QED
  BY <1>1, TransportInvariant, PTL

\* Whoever made it, a fetcher's transport has the settings it was asked for.
THEOREM OptionsHonouredHolds == Spec => []OptionsHonoured
<1>1. Inv => OptionsHonoured
  BY DEF Inv
<1> QED
  BY <1>1, TransportInvariant, PTL

\* Only an eviction closes the connections of a transport in use.
THEOREM ClosedOnlyIfEvictedHolds == Spec => []ClosedOnlyIfEvicted
<1>1. Inv => ClosedOnlyIfEvicted
  BY DEF Inv
<1> QED
  BY <1>1, TransportInvariant, PTL

\* No transport is lost with its connections open.
THEOREM NoneForgottenHolds == Spec => []NoneForgotten
<1>1. Inv => NoneForgotten
  BY DEF Inv
<1> QED
  BY <1>1, TransportInvariant, PTL

-----------------------------------------------------------------------------
(* The refinement of BoundedCache.                                         *)

Got(f) ==
    IF ~Shares(opts[f]) THEN Pending
    ELSE IF pc[f] \in {"ready", "closed"} THEN tr[f]
    ELSE IF pc[f] = "failed" THEN NoFetcher ELSE Pending

\* The list is as long as the cache is large.
LEMMA LengthIsSize ==
    ASSUME TypeOK, CacheConsistent
    PROVE  Cardinality(Cached) = len
<1> DEFINE g == [t \in Cached |-> place[t]]
<1>1. IsFiniteSet(Cached)
  BY NamesAssumption, FS_Subset DEF Cached
<1>2. \A t \in Cached : place[t] \in 1..len
  BY BoundsAssumption DEF Cached, CacheConsistent, TypeOK
<1>3. g \in Bijection(Cached, 1..len)
  BY <1>2 DEF CacheConsistent, Bijection, Injection, Surjection, IsInjective
<1>4. Cardinality(1..len) = Cardinality(Cached)
  BY <1>1, <1>3, FS_Bijection DEF ExistsBijection
<1>5. Cardinality(1..len) = len
  BY FS_Interval, BoundsAssumption DEF TypeOK
<1> QED
  BY <1>4, <1>5

\* A step in which no fetcher gets an answer is none for the clients of a cache ...
LEMMA NoAnswer ==
    ASSUME opts' = opts, Cached' = Cached, \A g \in Fetchers : Got(g)' = Got(g)
    PROVE  UNCHANGED Promise!vars
  BY DEF Promise!vars, Got, K

\* ... and one in which f gets v is the answer to f.
LEMMA AnswerOf ==
    ASSUME TypeOK, opts' = opts, NEW f \in Fetchers, NEW v, Got(f) = Pending, Got(f)' = v,
           \A g \in Fetchers \ {f} : Got(g)' = Got(g)
    PROVE  Promise!Answer(f, v)
<1> DEFINE got0 == [g \in Fetchers |-> Got(g)]
           got1 == [g \in Fetchers |-> Got(g)']
<1>1. got1 = [got0 EXCEPT ![f] = v]
  OBVIOUS
<1>2. got0[f] = Pending
  OBVIOUS
<1> QED
  BY <1>1, <1>2 DEF Promise!Answer, Got, K

LEMMA OthersKeep ==
    ASSUME TypeOK, NEW f \in Fetchers,
           SetUp(f) \/ RLock(f) \/ LookUp(f) \/ Lock(f) \/ Touch(f) \/ Make(f)
               \/ Register(f) \/ Close(f)
    PROVE  \A g \in Fetchers \ {f} : Got(g)' = Got(g)
  BY OnlyOneMoves DEF Got

\* A hit, after one look or two, or after losing the race to create.
LEMMA HitIsHit ==
    ASSUME Inv, NEW f \in Fetchers, LookUp(f) \/ Touch(f) \/ Register(f),
           map[K(f)] # NoFetcher, tr'[f] = map[K(f)], pc'[f] = "ready", Cached' = Cached
    PROVE  Promise!Hit(f)
<1>1. TypeOK /\ MadeInv /\ CacheConsistent /\ pc[f] \in {"look", "touch", "register"}
  BY DEF Inv, LookUp, Touch, Register, Goes
<1>2. Shares(opts[f]) /\ opts' = opts
  BY <1>1, OnlyOneMoves DEF MadeInv
<1>3. PICK t \in Fetchers : t = map[K(f)]
  BY <1>1, Found, CacheParts
<1>4. Promise!Answer(f, t)
  <2>1. Got(f) = Pending /\ Got(f)' = t
    BY <1>1, <1>2, <1>3 DEF Got
  <2>2. \A g \in Fetchers \ {f} : Got(g)' = Got(g)
    BY <1>1, OthersKeep
  <2> QED
    BY <1>1, <1>2, <2>1, <2>2, AnswerOf
<1>5. t \in Cached /\ K(t) = K(f)
  BY <1>1, <1>3, Found, CacheParts
<1>6. t \in Promise!Cached(K(f))
  BY <1>5 DEF Promise!Cached
<1>7. [g \in Fetchers |-> K(g)][f] = K(f) /\ [g \in Fetchers |-> Got(g)][f] = Pending
  BY <1>1, <1>2 DEF Got
<1> QED
  BY <1>4, <1>6, <1>7 DEF Promise!Hit, Promise!Answer

\* The winner of the race fills the cache.
LEMMA WonIsAdd ==
    ASSUME Inv, NEW f \in Fetchers, Register(f), Won(f)
    PROVE  Promise!Add(f)
<1>1. TypeOK /\ MadeInv /\ CacheConsistent /\ pc[f] = "register"
  BY DEF Inv, Register, Goes
<1>2. Shares(opts[f]) /\ opts' = opts /\ f \notin Cached
  BY <1>1, OnlyOneMoves DEF MadeInv
<1>3. Got(f) = Pending /\ Got(f)' = f
  BY <1>1, <1>2 DEF Got, Register, Goes, Won, Take, TypeOK
<1>4. Promise!Answer(f, f)
  BY <1>1, <1>2, <1>3, AnswerOf, OthersKeep
<1>5. Promise!Cached(K(f)) = {}
  <2>1. \A v \in Cached : v \in Fetchers /\ K(v) # K(f)
    BY <1>1, NamesAssumption DEF Won, CacheConsistent, Cached
  <2> QED
    BY <2>1 DEF Promise!Cached
<1>6. IF Cardinality(Cached) < Limit
      THEN Cached' = Cached \cup {f}
      ELSE \E w \in Cached : Cached' = (Cached \ {w}) \cup {f}
  <2>1. ListTyped /\ ListOK /\ place[f] = 0 /\ Cardinality(Cached) = len
    BY <1>1, <1>2, CacheParts, LengthIsSize DEF TypeOK, ListTyped, Cached
  <2>2. CASE len >= Limit
    <3>1. PICK w \in Fetchers : Victim(w) /\ Replace(f, w)
      BY <2>2 DEF Won
    <3>2. w \in Cached
      BY <3>1 DEF Victim
    <3> QED
      BY <2>1, <2>2, <3>1, <3>2, ReplaceKeeps, BoundsAssumption DEF ListTyped
  <2>3. CASE ~(len >= Limit)
    BY <2>1, <2>3, PushKeeps, BoundsAssumption DEF ListTyped, Won
  <2> QED
    BY <2>2, <2>3
<1>7. [g \in Fetchers |-> K(g)][f] = K(f)
  OBVIOUS
<1>8. Promise!Cardinality(Cached) = Cardinality(Cached)
  BY DEF Promise!Cardinality, Cardinality
<1> QED
  BY <1>4, <1>5, <1>6, <1>7, <1>8 DEF Promise!Add

LEMMA StepIsPromised ==
    ASSUME Inv, NEW f \in Fetchers,
           SetUp(f) \/ RLock(f) \/ LookUp(f) \/ Lock(f) \/ Touch(f) \/ Make(f)
               \/ Register(f) \/ Close(f)
    PROVE  [Promise!Next]_(Promise!vars)
<1>1. TypeOK /\ MadeInv /\ CacheConsistent /\ BaseInv /\ opts' = opts
      /\ \A g \in Fetchers \ {f} : Got(g)' = Got(g)
  BY OnlyOneMoves, OthersKeep DEF Inv
<1>2. ASSUME Promise!Hit(f) \/ Promise!Add(f) \/ Promise!Fail(f)
      PROVE  [Promise!Next]_(Promise!vars)
  BY <1>2 DEF Promise!Next
<1>3. CASE SetUp(f)
  <2>1. Cached' = Cached
    BY <1>3 DEF SetUp, Keep, Reject, Isolate, Clone, Own, KeepExternal, Share,
                entries, list, Cached
  <2>2. Got(f)' = Got(f)
    <3>1. CASE Share(f)
      BY <1>1, <3>1 DEF Share, Goes, Got, TypeOK
    <3>2. CASE ~Share(f)
      BY <1>1, <1>3, <3>2, NamesAssumption
         DEF SetUp, Keep, Reject, Isolate, Clone, Own, KeepExternal, Shares, Goes, Got, BaseInv
    <3> QED
      BY <3>1, <3>2
  <2> QED
    BY <1>1, <2>1, <2>2, NoAnswer
<1>4. CASE RLock(f) \/ Lock(f)
  <2>1. Cached' = Cached /\ Got(f)' = Got(f)
    BY <1>1, <1>4 DEF RLock, Lock, Goes, entries, list, Cached, fetcherVars, Got, TypeOK
  <2> QED
    BY <1>1, <2>1, NoAnswer
<1>5. CASE LookUp(f)
  <2>1. Cached' = Cached
    BY <1>5 DEF LookUp, list, Cached
  <2>2. CASE pc'[f] = "ready"
    <3>1. map[K(f)] # NoFetcher /\ tr'[f] = map[K(f)]
      BY <1>1, <1>5, <2>2 DEF LookUp, Goes, Take, TypeOK
    <3> QED
      BY <1>2, <1>5, <2>1, <2>2, <3>1, HitIsHit
  <2>3. CASE pc'[f] # "ready"
    <3>1. Got(f)' = Got(f)
      BY <1>1, <1>5, <2>3 DEF LookUp, Goes, Got, TypeOK
    <3> QED
      BY <1>1, <2>1, <3>1, NoAnswer
  <2> QED
    BY <2>2, <2>3
<1>6. CASE Touch(f)
  <2>1. CASE map[K(f)] # NoFetcher
    <3>1. Cached' = Cached /\ tr'[f] = map[K(f)] /\ pc'[f] = "ready"
      BY <1>1, <1>6, <2>1, MovedKept, Found, CacheParts DEF Touch, Goes, Take, TypeOK
    <3> QED
      BY <1>2, <1>6, <2>1, <3>1, HitIsHit
  <2>2. CASE map[K(f)] = NoFetcher
    <3>1. Cached' = Cached /\ Got(f)' = Got(f)
      BY <1>1, <1>6, <2>2 DEF Touch, Goes, list, Cached, Got, TypeOK
    <3> QED
      BY <1>1, <3>1, NoAnswer
  <2> QED
    BY <2>1, <2>2
<1>7. CASE Make(f)
  <2>1. Cached' = Cached /\ pc[f] = "make" /\ Shares(opts[f])
    BY <1>1, <1>7 DEF Make, Goes, entries, list, Cached, MadeInv
  <2>2. CASE pc'[f] = "made"
    <3>1. Got(f)' = Got(f)
      BY <1>1, <2>1, <2>2 DEF Got
    <3> QED
      BY <1>1, <2>1, <3>1, NoAnswer
  <2>3. CASE pc'[f] = "failed"
    <3>1. Got(f) = Pending /\ Got(f)' = NoFetcher
      BY <1>1, <2>1, <2>3 DEF Got
    <3>2. Promise!Answer(f, NoFetcher)
      BY <1>1, <3>1, AnswerOf
    <3> QED
      BY <1>2, <2>1, <3>2 DEF Promise!Fail
  <2> QED
    BY <1>1, <1>7, <2>2, <2>3 DEF Make, Goes, TypeOK
<1>8. CASE Register(f)
  <2>1. CASE Lost(f)
    <3>1. /\ map[K(f)] # NoFetcher /\ Cached' = Cached
          /\ tr'[f] = map[K(f)] /\ pc'[f] = "ready"
      BY <1>1, <1>8, <2>1, MovedKept, Found, CacheParts
         DEF Lost, Register, Goes, Take, TypeOK
    <3> QED
      BY <1>2, <1>8, <3>1, HitIsHit
  <2>2. CASE Won(f)
    BY <1>2, <1>8, <2>2, WonIsAdd
  <2> QED
    BY <1>8, <2>1, <2>2 DEF Register
<1>9. CASE Close(f)
  <2>1. Cached' = Cached /\ Got(f)' = Got(f)
    BY <1>1, <1>9 DEF Close, Goes, entries, list, Cached, fetcherVars, Got, TypeOK
  <2> QED
    BY <1>1, <2>1, NoAnswer
<1> QED
  BY <1>3, <1>4, <1>5, <1>6, <1>7, <1>8, <1>9

\* The cache of transports implements the cache a client may count on: lookups,
\* exchanged locks and double creations amount to one atomic step per fetcher.
THEOREM CacheSpecHolds == Spec => CacheSpec
<1>1. Init => Promise!Init
  <2> SUFFICES ASSUME Init PROVE Promise!Init
    OBVIOUS
  <2>1. \A f \in Fetchers : K(f) \in Keys /\ Got(f) = Pending
    BY OptionsOf DEF Init, Got
  <2>2. Cached = {}
    BY DEF Init, Cached
  <2>3. [f \in Fetchers |-> K(f)] \in [Fetchers -> Keys]
    BY <2>1
  <2>4. [f \in Fetchers |-> Got(f)] = [f \in Fetchers |-> Pending]
    BY <2>1
  <2> QED
    BY <2>2, <2>3, <2>4 DEF Promise!Init, Got
<1>2. Inv /\ [Next]_vars => [Promise!Next]_(Promise!vars)
  <2> SUFFICES ASSUME Inv, [Next]_vars PROVE [Promise!Next]_(Promise!vars)
    OBVIOUS
  <2>1. CASE Next
    BY <2>1, StepIsPromised DEF Next
  <2>2. CASE UNCHANGED vars
    BY <2>2, NoAnswer DEF vars, fetcherVars, entries, list, Cached, Got
  <2> QED
    BY <2>1, <2>2
<1> QED
  BY <1>1, <1>2, TransportInvariant, PTL DEF Spec, CacheSpec, Promise!Spec
=============================================================================
