--------------------------- MODULE TransportCache ---------------------------
(***************************************************************************)
(* How an HTTPFetcher comes by its http.Transport, and what Close does to  *)
(* it.  A fetcher keeps the transport it has (the default one or one from  *)
(* WithTransport), makes one of its own, or shares one through the cache   *)
(* of getSharedTransport: a map and an LRU list under one RWMutex, looked  *)
(* up under the read lock, touched at every Refresh-th hit and filled      *)
(* under the write lock, with the transport made between the two.          *)
(*                                                                         *)
(* A call makes at most one transport, so a transport that was made is     *)
(* named by its maker.  Critical sections that block on nothing are one    *)
(* action, the taking of their lock another one.                           *)
(***************************************************************************)
EXTENDS Integers, FiniteSets

CONSTANTS
    Fetchers,   \* bound: the fetchers that are created
    Mixes,      \* the options they are created with: functions of the fetchers
    Proxies,    \* the proxy URLs among the options ...
    BadProxies, \* ... and those url.Parse rejects
    Sizes,      \* valid values of a pool or timeout option
    Limit,      \* defaultMaxTransportCacheSize
    Scan,       \* list elements looked at for a proxy when one is evicted
    Refresh,    \* hits on an entry until it moves to the front
    Default,    \* defaultTransport
    External,   \* an *http.Transport given by WithTransport
    Foreign,    \* a RoundTripper of another type given by WithTransport
    DefaultSize, ExternalSize,      \* the option's value in these two
    ExternalProxy,                  \* the proxy policy of External
    Unset, Empty, NoProxy, Negative \* nil, "", "DIRECT", any value below zero

NoFetcher == "none"
Pending   == "pending"
Builtin   == {Default, External, Foreign}

\* `caching' is WithDisableTransportCaching where it comes after WithTransport.
Options == [base : Builtin, caching : {Unset, "on", "off"},
            proxy : {Unset, Empty, NoProxy} \cup Proxies,
            size : {Unset, Negative} \cup Sizes]

ASSUME OptionsAssumption ==
    /\ Mixes \subseteq [Fetchers -> Options]
    /\ BadProxies \subseteq Proxies
    /\ DefaultSize \in Sizes /\ ExternalSize \in Sizes
    /\ Unset \notin Sizes /\ Negative \notin Sizes /\ Unset # Negative
    /\ {Unset, Empty, NoProxy} \cap Proxies = {}
    /\ Unset # Empty /\ Unset # NoProxy /\ Empty # NoProxy

ASSUME NamesAssumption ==
    /\ IsFiniteSet(Fetchers)
    /\ {NoFetcher, Pending} \cap Fetchers = {}
    /\ Builtin \cap Fetchers = {}
    /\ Default # External /\ Default # Foreign /\ External # Foreign

ASSUME BoundsAssumption ==
    /\ Limit \in Nat \ {0}
    /\ Scan \in Nat
    /\ Refresh \in Nat \ {0}

-----------------------------------------------------------------------------
(* Options, settings, keys.                                                *)

\* A value below zero becomes the default when the option is applied.
Normalize(v) == IF v = Negative THEN DefaultSize ELSE v

\* The fields of the fetcher after its options ran.
Given(o) == [o EXCEPT !.size = IF @ = Unset THEN Unset ELSE Normalize(@)]

\* WithTransport alone disables the caching.
Disabled(o) == o.caching = "off" \/ (o.caching = Unset /\ o.base # Default)

NeedsCustom(o) == Disabled(o) \/ o.proxy # Unset \/ o.size # Unset

BaseSettings(base) ==
    IF base = External THEN [proxy |-> ExternalProxy, size |-> ExternalSize]
                       ELSE [proxy |-> Unset, size |-> DefaultSize]

\* newTransport: a clone of the base, with what was set on top.
Build(base, o) ==
    [proxy |-> IF Given(o).proxy = Unset THEN BaseSettings(base).proxy
               ELSE IF Given(o).proxy \in {NoProxy, Empty} THEN NoProxy
               ELSE Given(o).proxy,
     size  |-> IF Given(o).size = Unset THEN BaseSettings(base).size
               ELSE Normalize(Given(o).size)]

Unbuildable(o) == o.proxy \in BadProxies

\* Mutant: the option is left out of the key.
KeyOfProxy(o) ==
    [proxy |-> IF o.proxy = Unset THEN Empty
               ELSE IF o.proxy \in {NoProxy, Empty} THEN NoProxy ELSE o.proxy,
     size  |-> DefaultSize]

\* ToCacheKey: unset options count as their defaults.
Key(o) ==
    [proxy |-> IF Given(o).proxy = Unset THEN Empty
               ELSE IF Given(o).proxy \in {NoProxy, Empty} THEN NoProxy
               ELSE Given(o).proxy,
     size  |-> IF Given(o).size = Unset THEN DefaultSize ELSE Given(o).size]

Keys == {Key(o) : o \in Options}

Proxied(o) == Key(o).proxy # Empty

\* shouldCloneTransport.
Differs(o) ==
    \/ o.proxy # Unset
    \/ o.size # Unset /\ Given(o).size # ExternalSize

\* The options of a fetcher that goes through the cache.
Shares(o) == o.base = Default /\ NeedsCustom(o) /\ ~Disabled(o)

-----------------------------------------------------------------------------
VARIABLES
    opts,       \* the options of each fetcher
    pc,         \* where its construction stands
    tr,         \* client.Transport
    owns,       \* ownsTransport
    isolated,   \* disableTransportCaching
    readers,    \* who holds transportCacheMu for reading ...
    writer,     \* ... and for writing
    map,        \* transportCache
    place,      \* place in transportCacheLRU: 1 is the front, 0 is out
    len,        \* transportCacheLRU.Len()
    hits,       \* accessCount of each transport's entry, modulo Refresh
    made,       \* the transports newTransport returned
    swept,      \* the transports CloseIdleConnections was called on ...
    evicted     \* ... and those of them that were evicted

fetcherVars == <<tr, owns, isolated>>
lock        == <<readers, writer>>
list        == <<place, len>>
entries     == <<map, list, hits>>
fate        == <<made, swept, evicted>>
vars        == <<opts, pc, fetcherVars, lock, entries, fate>>

Cached == {t \in Fetchers : place[t] > 0}

K(f) == Key(opts[f])

Init ==
    /\ opts \in Mixes
    /\ pc = [f \in Fetchers |-> "new"]
    /\ tr = [f \in Fetchers |-> opts[f].base]
    /\ owns = [f \in Fetchers |-> FALSE]
    /\ isolated = [f \in Fetchers |-> Disabled(opts[f])]
    /\ readers = {}
    /\ writer = NoFetcher
    /\ map = [k \in Keys |-> NoFetcher]
    /\ place = [f \in Fetchers |-> 0]
    /\ len = 0
    /\ hits = [f \in Fetchers |-> 0]
    /\ made = {}
    /\ swept = {}
    /\ evicted = {}

Goes(f, from, to) == pc[f] = from /\ pc' = [pc EXCEPT ![f] = to]

-----------------------------------------------------------------------------
(* setupTransport.                                                         *)

\* Nothing was asked for: the transport stays, of whatever type it is.
Keep(f) ==
    /\ Goes(f, "new", "ready")
    /\ ~NeedsCustom(opts[f])
    /\ UNCHANGED <<opts, fetcherVars, lock, entries, fate>>

Reject(f) ==
    /\ Goes(f, "new", "failed")
    /\ NeedsCustom(opts[f])
    /\ \/ opts[f].base = Foreign
       \/ Unbuildable(opts[f]) /\ (isolated[f] \/ opts[f].base = External)
    /\ UNCHANGED <<opts, fetcherVars, lock, entries, fate>>

\* A transport made for f alone; it replaces the one f had.
Own(f) ==
    /\ Goes(f, "new", "ready")
    /\ ~Unbuildable(opts[f])
    /\ made' = made \cup {f}
    /\ tr' = [tr EXCEPT ![f] = f]
    /\ owns' = [owns EXCEPT ![f] = TRUE]
    /\ isolated' = [isolated EXCEPT ![f] = TRUE]
    /\ UNCHANGED <<opts, lock, entries, swept, evicted>>

Isolate(f) == opts[f].base = Default /\ isolated[f] /\ Own(f)

Clone(f) ==
    /\ opts[f].base = External
    /\ NeedsCustom(opts[f])
    /\ Differs(opts[f])
    /\ Own(f)

KeepExternal(f) ==
    /\ Goes(f, "new", "ready")
    /\ opts[f].base = External
    /\ NeedsCustom(opts[f])
    /\ ~Differs(opts[f])
    /\ owns' = [owns EXCEPT ![f] = FALSE]
    /\ UNCHANGED <<opts, tr, isolated, lock, entries, fate>>

Share(f) ==
    /\ Goes(f, "new", "share")
    /\ Shares(opts[f])
    /\ UNCHANGED <<opts, fetcherVars, lock, entries, fate>>

SetUp(f) ==
    Keep(f) \/ Reject(f) \/ Isolate(f) \/ Clone(f) \/ KeepExternal(f) \/ Share(f)

-----------------------------------------------------------------------------
(* transportCacheMu.                                                       *)

RLock(f) ==
    /\ Goes(f, "share", "look")
    /\ writer = NoFetcher
    /\ readers' = readers \cup {f}
    /\ UNCHANGED <<opts, fetcherVars, writer, entries, fate>>

RUnlock(f) == readers' = readers \ {f} /\ UNCHANGED writer

Lock(f) ==
    /\ \/ Goes(f, "stale", "touch")
       \/ Goes(f, "made", "register")
    /\ readers = {} /\ writer = NoFetcher
    /\ writer' = f
    /\ UNCHANGED <<opts, fetcherVars, readers, entries, fate>>

Unlock(f) == writer' = NoFetcher /\ UNCHANGED readers

-----------------------------------------------------------------------------
(* getSharedTransport.                                                     *)

\* The cache's transport is f's; the cache keeps it.
Take(f, t) ==
    /\ tr' = [tr EXCEPT ![f] = t]
    /\ owns' = [owns EXCEPT ![f] = FALSE]
    /\ UNCHANGED isolated

\* It is this hit's turn to move the entry, and the entry is not at the front.
Overdue(t) == (hits[t] + 1) % Refresh = 0 /\ place[t] # 1

Count(t) == hits' = [hits EXCEPT ![t] = (@ + 1) % Refresh]

LookUp(f) ==
    LET t == map[K(f)] IN
    /\ \/ /\ t = NoFetcher
          /\ Goes(f, "look", "make")
          /\ UNCHANGED <<fetcherVars, hits>>
       \/ /\ t # NoFetcher /\ ~Overdue(t)
          /\ Goes(f, "look", "ready")
          /\ Count(t)
          /\ Take(f, t)
       \/ /\ t # NoFetcher /\ Overdue(t)
          /\ Goes(f, "look", "stale")
          /\ Count(t)
          /\ UNCHANGED fetcherVars
    /\ RUnlock(f)
    /\ UNCHANGED <<opts, map, list, fate>>

\* MoveToFront.
ToFront(t) ==
    /\ place' = [u \in Fetchers |->
                    IF u = t THEN 1
                    ELSE IF place[u] \in 1..(place[t] - 1) THEN place[u] + 1
                    ELSE place[u]]
    /\ UNCHANGED len

\* Mutant: the path back to the creation leaves the lock behind.
TouchLeavesLock(f) ==
    /\ map[K(f)] = NoFetcher
    /\ Goes(f, "touch", "make")
    /\ UNCHANGED <<opts, fetcherVars, lock, entries, fate>>

\* The locks were exchanged: the entry may be gone, or be another one.
Touch(f) ==
    LET t == map[K(f)] IN
    /\ \/ /\ t # NoFetcher
          /\ Goes(f, "touch", "ready")
          /\ ToFront(t)
          /\ Take(f, t)
       \/ /\ t = NoFetcher
          /\ Goes(f, "touch", "make")
          /\ UNCHANGED <<fetcherVars, list>>
    /\ Unlock(f)
    /\ UNCHANGED <<opts, map, hits, fate>>

\* Without any lock.
Make(f) ==
    /\ \/ Goes(f, "make", "made") /\ ~Unbuildable(opts[f]) /\ made' = made \cup {f}
       \/ Goes(f, "make", "failed") /\ Unbuildable(opts[f]) /\ UNCHANGED made
    /\ UNCHANGED <<opts, fetcherVars, lock, entries, swept, evicted>>

\* Among the Scan last elements the last one with a proxy, else the last one.
Expendable == {t \in Cached : place[t] > len - Scan /\ Proxied(opts[t])}

Victim(w) ==
    /\ w \in Cached
    /\ IF Expendable = {}
       THEN place[w] = len
       ELSE w \in Expendable /\ \A t \in Expendable : place[t] <= place[w]

\* The list without w, and f in front.
PlacesWith(f, w) ==
    [u \in Fetchers |-> IF u = f THEN 1
                        ELSE IF u = w \/ place[u] = 0 THEN 0
                        ELSE IF place[u] > place[w] THEN place[u]
                        ELSE place[u] + 1]

\* Mutant: the victim leaves the list but not the map.
ReplaceInList(f, w) ==
    /\ place' = PlacesWith(f, w)
    /\ map' = [map EXCEPT ![K(f)] = f]
    /\ swept' = swept \cup {w}
    /\ evicted' = evicted \cup {w}
    /\ UNCHANGED len

\* Mutant: the victim's idle connections stay open.
ReplaceUnswept(f, w) ==
    /\ place' = PlacesWith(f, w)
    /\ map' = [map EXCEPT ![K(w)] = NoFetcher, ![K(f)] = f]
    /\ evicted' = evicted \cup {w}
    /\ UNCHANGED <<len, swept>>

\* Evict w and push f.
Replace(f, w) ==
    /\ place' = PlacesWith(f, w)
    /\ map' = [map EXCEPT ![K(w)] = NoFetcher, ![K(f)] = f]
    /\ swept' = swept \cup {w}
    /\ evicted' = evicted \cup {w}
    /\ UNCHANGED len

Push(f) ==
    /\ place' = [u \in Fetchers |->
                    IF u = f THEN 1 ELSE IF place[u] = 0 THEN 0 ELSE place[u] + 1]
    /\ len' = len + 1
    /\ map' = [map EXCEPT ![K(f)] = f]
    /\ UNCHANGED <<swept, evicted>>

\* Mutant: nobody looks whether another fetcher was faster.
RegisterUnchecked(f) ==
    /\ Goes(f, "register", "ready")
    /\ IF len >= Limit THEN \E w \in Fetchers : Victim(w) /\ Replace(f, w) ELSE Push(f)
    /\ Take(f, f)
    /\ Unlock(f)
    /\ UNCHANGED <<opts, hits, made>>

\* Another fetcher was faster: its transport is taken, f's own is given up.
Lost(f) ==
    LET t == map[K(f)] IN
    /\ t # NoFetcher
    /\ swept' = swept \cup {f}
    /\ ToFront(t)
    /\ Take(f, t)
    /\ UNCHANGED <<map, evicted>>

Won(f) ==
    /\ map[K(f)] = NoFetcher
    /\ IF len >= Limit THEN \E w \in Fetchers : Victim(w) /\ Replace(f, w)
                       ELSE Push(f)
    /\ Take(f, f)

Register(f) ==
    /\ Goes(f, "register", "ready")
    /\ Lost(f) \/ Won(f)
    /\ Unlock(f)
    /\ UNCHANGED <<opts, hits, made>>

-----------------------------------------------------------------------------
\* Mutant: whoever disabled the caching closes its transport.
CloseIsolated(f) ==
    /\ Goes(f, "ready", "closed")
    /\ swept' = IF isolated[f] /\ tr[f] \notin {Default, Foreign}
                THEN swept \cup {tr[f]} ELSE swept
    /\ UNCHANGED <<opts, fetcherVars, lock, entries, made, evicted>>

\* HTTPFetcher.Close.  After a failed construction it does nothing.
Close(f) ==
    /\ Goes(f, "ready", "closed")
    /\ swept' = IF tr[f] \notin {Default, Foreign} /\ isolated[f] /\ owns[f]
                THEN swept \cup {tr[f]} ELSE swept
    /\ UNCHANGED <<opts, fetcherVars, lock, entries, made, evicted>>

Next == \E f \in Fetchers :
    \/ SetUp(f)
    \/ RLock(f) \/ LookUp(f) \/ Lock(f) \/ Touch(f) \/ Make(f) \/ Register(f)
    \/ Close(f)

Spec == Init /\ [][Next]_vars

-----------------------------------------------------------------------------
\* Every variable has its type, and neither the map nor the list outgrows Limit.
TypeOK ==
    /\ opts \in Mixes
    /\ pc \in [Fetchers -> {"new", "share", "look", "stale", "touch", "make",
                            "made", "register", "ready", "failed", "closed"}]
    /\ tr \in [Fetchers -> Builtin \cup Fetchers]
    /\ owns \in [Fetchers -> BOOLEAN]
    /\ isolated \in [Fetchers -> BOOLEAN]
    /\ readers \in SUBSET Fetchers
    /\ writer \in Fetchers \cup {NoFetcher}
    /\ map \in [Keys -> Fetchers \cup {NoFetcher}]
    /\ place \in [Fetchers -> 0..Limit]
    /\ len \in 0..Limit
    /\ hits \in [Fetchers -> 0..(Refresh - 1)]
    /\ made \in SUBSET Fetchers
    /\ swept \in SUBSET (Builtin \cup Fetchers)
    /\ evicted \in SUBSET Fetchers

\* transportCacheMu is held by those, and only those, who stand in a critical
\* section, and by nobody together with a writer: no path through
\* getSharedTransport, the exchange of the locks included, leaves it behind or
\* waits for it while holding it.
LockDiscipline ==
    /\ readers = {f \in Fetchers : pc[f] = "look"}
    /\ {f \in Fetchers : pc[f] \in {"touch", "register"}}
           = (IF writer = NoFetcher THEN {} ELSE {writer})
    /\ writer # NoFetcher => readers = {}

\* The map and the list of the cache hold the same transports whatever hits,
\* evictions and double creations came between: the places are those of a list
\* of len elements, and the map finds each of them under the key of its options.
CacheConsistent ==
    /\ \A t \in Cached : place[t] <= len
    /\ \A i \in 1..len : \E t \in Cached : place[t] = i
    /\ \A t, u \in Cached : place[t] = place[u] => t = u
    /\ \A t \in Cached : map[K(t)] = t
    /\ \A k \in Keys : map[k] # NoFetcher => map[k] \in Cached /\ K(map[k]) = k

\* What the transport of fetcher f was built with.
Settings(f) ==
    IF tr[f] \in Fetchers THEN Build(opts[tr[f]].base, opts[tr[f]])
                          ELSE BaseSettings(tr[f])

\* A fetcher that was set up works with exactly the settings its options ask for
\* on top of its base, also when its transport was made for another fetcher with
\* other options and the same key, or was given from outside and kept; a
\* RoundTripper that cannot be configured is used only without such options.
OptionsHonoured == \A f \in Fetchers : pc[f] = "ready" =>
    IF tr[f] = Foreign THEN opts[f].proxy = Unset /\ opts[f].size = Unset
                       ELSE Settings(f) = Build(opts[f].base, opts[f])

\* The connections of a transport somebody works with are closed by its eviction
\* only: never by Close of another fetcher, never by the loser of a race to
\* create it; those of the default and of given transports never are.
ClosedOnlyIfEvicted ==
    /\ swept \cap (Builtin \cup Cached) = {}
    /\ \A f \in Fetchers : pc[f] = "ready" /\ tr[f] \in swept => tr[f] \in evicted

\* No transport that was made is forgotten with its connections open: it is being
\* registered, cached, owned by a fetcher that will close it, or closed.
NoneForgotten == \A t \in made :
    \/ pc[t] \in {"made", "register"}
    \/ t \in Cached
    \/ pc[t] = "ready" /\ owns[t] /\ isolated[t] /\ tr[t] = t
    \/ t \in swept

\* The cache as its clients see it, the fetchers that share among them.
Promise == INSTANCE BoundedCache WITH
    Clients <- Fetchers,
    Limit   <- Limit,
    None    <- Pending,
    Failed  <- NoFetcher,
    key     <- [f \in Fetchers |-> K(f)],
    cache   <- Cached,
    got     <- [f \in Fetchers |->
                   IF ~Shares(opts[f]) THEN Pending
                   ELSE IF pc[f] \in {"ready", "closed"} THEN tr[f]
                   ELSE IF pc[f] = "failed" THEN NoFetcher ELSE Pending]

\* Lookups, exchanged locks and double creations amount to one atomic step per
\* fetcher: the cached transport, or its own with one eviction at the limit.  What
\* getSharedTransport returns is in the cache at that moment ("기존에 조회한
\* Transport(tr)는 이미 닫혔거나 유효하지 않을 수 있으므로 반환하지 않습니다").
CacheSpec == Promise!Spec
=============================================================================
