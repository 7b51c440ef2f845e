----------------------------- MODULE ApiProofs -----------------------------
(***************************************************************************)
(* Proofs about Api: for any number of requests and addresses, any limit   *)
(* of the map of limiters and any size of a bucket.                        *)
(***************************************************************************)
EXTENDS Api, FiniteSetTheorems, TLAPS

-----------------------------------------------------------------------------
(* Counting.                                                               *)

\* A set that falls into classes, one for each element of T and none of them
\* larger than n, has no more than n elements for each element of T.
LEMMA CountByClasses ==
    ASSUME NEW S, NEW T, IsFiniteSet(S), IsFiniteSet(T), NEW n \in Nat,
           NEW f \in [S -> T],
           \A t \in T : Cardinality({s \in S : f[s] = t}) <= n
    PROVE  Cardinality(S) <= Cardinality(T) * n
<1> DEFINE Class(t) == {s \in S : f[s] = t}
<1> DEFINE number == [t \in T |-> CHOOSE g \in [Class(t) -> 1..n] : IsInjective(g)]
<1> DEFINE place == [s \in S |-> <<f[s], number[f[s]][s]>>]
<1>1. ASSUME NEW t \in T
      PROVE  number[t] \in [Class(t) -> 1..n] /\ IsInjective(number[t])
  <2>1. IsFiniteSet(Class(t))
    BY FS_Subset
  <2>2. /\ Cardinality(Class(t)) \in Nat
        /\ ExistsBijection(1..Cardinality(Class(t)), Class(t))
    BY <2>1, FS_CardinalityType
  <2>3. ExistsBijection(Class(t), 1..Cardinality(Class(t)))
    <3> DEFINE c == Cardinality(Class(t))
    <3>1. IsFiniteSet(1..c) /\ Cardinality(1..c) = c
      BY <2>2, FS_Interval
    <3> HIDE DEF Class
    <3> QED
      BY <2>1, <3>1, FS_SameCardinalityBij
  <2>4. PICK g \in Bijection(Class(t), 1..Cardinality(Class(t))) : TRUE
    BY <2>3 DEF ExistsBijection
  <2>5. g \in [Class(t) -> 1..Cardinality(Class(t))] /\ IsInjective(g)
    BY <2>4 DEF Bijection, Injection
  <2>6. Cardinality(Class(t)) <= n
    OBVIOUS
  <2>7. g \in [Class(t) -> 1..n]
    BY <2>2, <2>5, <2>6
  <2>8. number[t] = CHOOSE h \in [Class(t) -> 1..n] : IsInjective(h)
    OBVIOUS
  <2> HIDE DEF number, Class
  <2> QED
    BY <2>5, <2>7, <2>8
<1>2. place \in [S -> T \X (1..n)]
  BY <1>1
<1>3. ASSUME NEW s \in S, NEW u \in S, place[s] = place[u] PROVE s = u
  <2>1. f[s] = f[u] /\ number[f[s]][s] = number[f[s]][u]
    <3> HIDE DEF number
    <3>1. \A x \in S : place[x][1] = f[x] /\ place[x][2] = number[f[x]][x]
      OBVIOUS
    <3> HIDE DEF place
    <3>2. f[s] = f[u] /\ number[f[s]][s] = number[f[u]][u]
      BY <1>3, <3>1
    <3> QED
      BY <3>2
  <2>2. s \in Class(f[s]) /\ u \in Class(f[s]) /\ f[s] \in T
    BY <2>1
  <2> HIDE DEF number, Class
  <2> QED
    BY <1>1, <2>1, <2>2 DEF IsInjective
<1>4. place \in Injection(S, T \X (1..n))
  <2> HIDE DEF place
  <2> QED
    BY <1>2, <1>3 DEF Injection, IsInjective
<1>5. IsFiniteSet(1..n) /\ Cardinality(1..n) = n
  BY FS_Interval
<1>6. /\ IsFiniteSet(T \X (1..n))
      /\ Cardinality(T \X (1..n)) = Cardinality(T) * n
  BY <1>5, FS_Product
<1> QED
  BY <1>4, <1>6, FS_Injection

\* What the factors allow, the larger factors allow too.
LEMMA TimesMonotone ==
    ASSUME NEW k \in Nat, NEW m \in Nat, NEW n \in Nat, k <= m
    PROVE  k * n <= m * n
  OBVIOUS

-----------------------------------------------------------------------------
(* The inductive invariants.                                               *)

\* TypeOK without its two counts.
Types ==
    /\ call \in Calls
    /\ pc \in [Requests -> {"new", "create", "limited", "handle", "build", "send",
                            "error", "done"}]
    /\ limiters \in [Addresses -> Requests \cup {NoLimiter}]
    /\ lim \in [Requests -> Requests \cup {NoLimiter}]
    /\ tokens \in [Requests -> 0..Burst]
    /\ now \in 0..MaxTime
    /\ err \in [Requests -> {"none", "404", "429", "500"}]
    /\ status \in [Requests -> {"none", "200", "204", "404", "429", "500"}]
    /\ notice \in [Requests -> {"none", "sending", "over"}]
    /\ passed \in SUBSET Requests
    /\ evictions \in [Addresses -> Nat]

\* A request holds no limiter before it has looked for one, and the limiter it
\* holds was made for its address; so was the one on the map.
HeldInv ==
    /\ \A r \in Requests : pc[r] \in {"new", "create"} => lim[r] = NoLimiter
    /\ \A r \in Requests : pc[r] = "limited" => lim[r] # NoLimiter
    /\ \A r \in Requests : lim[r] # NoLimiter =>
          lim[lim[r]] = lim[r] /\ Ip(lim[r]) = Ip(r)
    /\ \A a \in Addresses : limiters[a] # NoLimiter =>
          lim[limiters[a]] = limiters[a] /\ Ip(limiters[a]) = a
    /\ \A r \in passed : lim[r] # NoLimiter

\* The limiters ever made for an address.
Made(a) == {l \in Requests : lim[l] = l /\ Ip(l) = a}

\* The map keeps its limit, and every limiter of an address but the one on the
\* map was evicted.
MadeInv ==
    /\ IsFiniteSet(Limited) /\ Cardinality(Limited) <= Limit
    /\ \A a \in Addresses :
          Cardinality(Made(a)) =
              evictions[a] + IF limiters[a] = NoLimiter THEN 0 ELSE 1

\* The requests that took their token from the bucket of l.
Passed(l) == {r \in passed : lim[r] = l}

\* A bucket gives away what it was filled with and what it gained.
BucketInv == \A l \in Requests : Cardinality(Passed(l)) + tokens[l] <= Burst + now

\* Until a handler has written there is no status line, an error on its way up
\* has a code, and no request is done without a status line.
AnswerInv == \A r \in Requests :
    /\ pc[r] \notin {"error", "done"} => status[r] = "none"
    /\ pc[r] = "error" => err[r] # "none"
    /\ pc[r] = "done" => status[r] # "none"

Inv == Types /\ HeldInv /\ MadeInv /\ BucketInv /\ AnswerInv

-----------------------------------------------------------------------------
(* Steps.                                                                  *)

\* The steps that leave the limiters, the buckets and the clock alone.  None of
\* them leads back to the limiter.
Elsewhere ==
    /\ UNCHANGED <<call, limiting, now>>
    /\ \A r \in Requests : pc'[r] \in {"new", "create", "limited"} => pc'[r] = pc[r]

\* The address a request comes from.
LEMMA IpType == ASSUME Types, NEW r \in Requests PROVE Ip(r) \in Addresses
  BY ApiAssumption DEF Types, Ip

\* What follows the limiter, and Refuse, leaves it alone.
LEMMA HandleElsewhere ==
    ASSUME Types, NEW r \in Requests,
           Preflight(r) \/ Refuse(r) \/ Handle(r) \/ ErrorHandler(r) \/ NotifyOver(r)
    PROVE  Elsewhere
<1>1. CASE Preflight(r) \/ ErrorHandler(r)
  BY <1>1 DEF Preflight, ErrorHandler, Goes, Types, Elsewhere
<1>2. CASE NotifyOver(r)
  BY <1>2 DEF NotifyOver, Elsewhere
<1>3. ASSUME NEW from, NEW code, Raise(r, from, code)
      PROVE  Elsewhere
  BY <1>3 DEF Raise, Goes, Types, Elsewhere
<1>4. ASSUME NEW from, NEW to \in {"build", "send"}, Proceed(r, from, to)
      PROVE  Elsewhere
  BY <1>4 DEF Proceed, Goes, Types, Elsewhere
<1>5. CASE Refuse(r)
  BY <1>3, <1>5 DEF Refuse
<1>6. CASE Handle(r)
  <2>1. CASE Send(r)
    BY <2>1 DEF Send, Goes, Types, Elsewhere
  <2>2. CASE Panics(r)
    BY <1>3, <2>2 DEF Panics
  <2>3. CASE Render(r) \/ GetArticles(r) \/ ToRss(r)
    BY <1>4, <2>3 DEF Render, GetArticles, ToRss
  <2>4. CASE RenderFails(r) \/ NotFound(r) \/ QueryCut(r) \/ QueryFails(r) \/ ToRssFails(r)
    BY <1>3, <2>4 DEF RenderFails, NotFound, QueryCut, QueryFails, ToRssFails, NotifyError
  <2> QED
    BY <1>6, <2>1, <2>2, <2>3, <2>4 DEF Handle
<1> QED
  BY <1>1, <1>2, <1>5, <1>6

\* What a step can do to the limiters.
LEMMA StepKinds ==
    ASSUME Types, [Next]_vars
    PROVE  \/ Elsewhere \/ Tick
           \/ \E r \in Requests : LookUp(r) \/ Create(r) \/ Allow(r)
<1>1. CASE UNCHANGED vars
  BY <1>1 DEF vars, Elsewhere
<1>2. CASE Tick
  BY <1>2
<1>3. ASSUME NEW r \in Requests, Serve(r) \/ NotifyOver(r)
      PROVE  Elsewhere \/ LookUp(r) \/ Create(r) \/ Allow(r)
  BY <1>3, HandleElsewhere DEF Serve, Limiter
<1> QED
  BY <1>1, <1>2, <1>3 DEF Next

-----------------------------------------------------------------------------
(* Types.                                                                  *)

LEMMA InitTypes == Init => Types
  BY ApiAssumption DEF Init, Types

LEMMA InsertTypes ==
    ASSUME Types, NEW r \in Requests, Insert(r)
    PROVE  /\ limiters' \in [Addresses -> Requests \cup {NoLimiter}]
           /\ evictions' \in [Addresses -> Nat]
  BY DEF Types, Insert, Limited

\* Types are kept by every step.
LEMMA NextTypes == ASSUME Types, [Next]_vars PROVE Types'
<1>1. CASE UNCHANGED vars
  BY <1>1 DEF vars, limiting, answer, Types
<1>2. CASE Tick
  BY <1>2, ApiAssumption DEF Tick, answer, Types
<1>3. ASSUME NEW r \in Requests, Preflight(r) \/ ErrorHandler(r) \/ NotifyOver(r)
      PROVE  Types'
  BY <1>3 DEF Preflight, ErrorHandler, NotifyOver, Goes, limiting, Types
<1>4. ASSUME NEW r \in Requests, LookUp(r) PROVE Types'
  BY <1>4, IpType DEF LookUp, Goes, answer, Types
<1>5. ASSUME NEW r \in Requests, Create(r) PROVE Types'
  <2>1. CASE limiters[Ip(r)] # NoLimiter
    BY <1>5, <2>1, IpType DEF Create, Goes, answer, Types
  <2>2. CASE limiters[Ip(r)] = NoLimiter
    <3>1. Insert(r)
      BY <1>5, <2>2 DEF Create
    <3>2. /\ limiters' \in [Addresses -> Requests \cup {NoLimiter}]
          /\ evictions' \in [Addresses -> Nat]
      BY <3>1, InsertTypes
    <3>3. /\ lim' = [lim EXCEPT ![r] = r] /\ pc' = [pc EXCEPT ![r] = "limited"]
          /\ tokens' = [tokens EXCEPT ![r] = Burst]
          /\ UNCHANGED <<call, passed, answer, now>>
      BY <1>5, <2>2 DEF Create, Goes
    <3>4. tokens' \in [Requests -> 0..Burst]
      BY <3>3, ApiAssumption DEF Types
    <3> QED
      BY <3>2, <3>3, <3>4 DEF answer, Types
  <2> QED
    BY <2>1, <2>2
<1>6. ASSUME NEW r \in Requests, Allow(r) PROVE Types'
  <2>1. \A l \in Requests : tokens[l] \in 0..Burst /\ (l = lim[r] => tokens[l] > 0)
    BY <1>6 DEF Allow, Types
  <2>2. \A l \in Requests : tokens'[l] = IF l = lim[r] THEN tokens[l] - 1 ELSE tokens[l]
    BY <1>6 DEF Allow, Types
  <2>3. tokens' = [tokens EXCEPT ![lim[r]] = @ - 1] /\ DOMAIN tokens = Requests
    BY <1>6 DEF Allow, Types
  <2>4. \A l \in Requests : tokens'[l] \in 0..Burst
    BY <2>1, <2>2, ApiAssumption
  <2>5. tokens' \in [Requests -> 0..Burst]
    BY <2>3, <2>4
  <2> QED
    BY <1>6, <2>5 DEF Allow, Goes, answer, Types
<1>7. ASSUME NEW r \in Requests, NEW from, NEW code \in {"404", "429", "500"},
             Raise(r, from, code), notice' \in [Requests -> {"none", "sending", "over"}]
      PROVE  Types'
  BY <1>7 DEF Raise, Goes, limiting, Types
<1>8. ASSUME NEW r \in Requests, NEW from, NEW to \in {"build", "send"},
             Proceed(r, from, to)
      PROVE  Types'
  BY <1>8 DEF Proceed, Goes, limiting, answer, Types
<1>9. ASSUME NEW r \in Requests, NEW from \in {"handle", "build"}, NotifyError(r, from)
      PROVE  Types'
  <2>1. notice' \in [Requests -> {"none", "sending", "over"}]
    BY <1>9 DEF NotifyError, Types
  <2> QED
    BY <1>7, <1>9, <2>1 DEF NotifyError
<1>10. notice \in [Requests -> {"none", "sending", "over"}]
  BY DEF Types
<1>11. ASSUME NEW r \in Requests, Refuse(r) PROVE Types'
  BY <1>7, <1>10, <1>11 DEF Refuse
<1>12. ASSUME NEW r \in Requests, Handle(r) PROVE Types'
  <2>1. CASE Send(r)
    BY <2>1 DEF Send, Goes, limiting, Types
  <2>2. CASE Panics(r)
    BY <1>7, <1>10, <2>2 DEF Panics
  <2>3. CASE Render(r) \/ GetArticles(r) \/ ToRss(r)
    BY <1>8, <2>3 DEF Render, GetArticles, ToRss
  <2>4. CASE RenderFails(r) \/ NotFound(r) \/ QueryCut(r)
    BY <1>7, <1>10, <2>4 DEF RenderFails, NotFound, QueryCut
  <2>5. CASE QueryFails(r) \/ ToRssFails(r)
    BY <1>9, <2>5 DEF QueryFails, ToRssFails
  <2> QED
    BY <1>12, <2>1, <2>2, <2>3, <2>4, <2>5 DEF Handle
<1> QED
  BY <1>1, <1>2, <1>3, <1>4, <1>5, <1>6, <1>11, <1>12 DEF Next, Serve, Limiter

-----------------------------------------------------------------------------
(* Who holds which limiter.                                                *)

\* What Insert does to the map: r is the limiter of its address, and at most one
\* other address loses its own.
LEMMA InsertParts ==
    ASSUME Types, NEW r \in Requests, Insert(r)
    PROVE  /\ limiters'[Ip(r)] = r
           /\ \A a \in Addresses \ {Ip(r)} : limiters'[a] \in {limiters[a], NoLimiter}
  BY IpType DEF Types, Insert, Limited

\* A request takes the limiter that is on the map for its address.
LEMMA TakenHeld ==
    ASSUME Types, HeldInv, NEW r \in Requests, lim[r] = NoLimiter, r \notin passed,
           limiters[Ip(r)] # NoLimiter, lim' = [lim EXCEPT ![r] = limiters[Ip(r)]],
           pc' = [pc EXCEPT ![r] = "limited"], UNCHANGED <<call, limiters, passed>>
    PROVE  HeldInv'
<1>1. PICK l \in Requests : l = limiters[Ip(r)]
  BY IpType DEF Types
<1>2. lim[l] = l /\ Ip(l) = Ip(r) /\ l # NoLimiter /\ l # r
  BY <1>1, IpType, ApiAssumption DEF HeldInv
<1>3. \A x \in Requests : lim'[x] = IF x = r THEN l ELSE lim[x]
  BY <1>1 DEF Types
<1>4. \A x \in Requests : Ip(x)' = Ip(x)
  BY DEF Ip
<1>5. \A x \in Requests : lim[x] # NoLimiter => lim[x] \in Requests /\ lim[x] # r
  BY DEF Types, HeldInv
<1>6. \A x \in Requests : lim'[x] # NoLimiter => lim'[lim'[x]] = lim'[x] /\ Ip(lim'[x]) = Ip(x)
  BY <1>2, <1>3, <1>5 DEF HeldInv
<1>7. \A x \in Requests : lim'[x] # NoLimiter => lim'[x] \in Requests
  BY <1>3, <1>5
<1>8. \A a \in Addresses : limiters'[a] # NoLimiter =>
          lim'[limiters'[a]] = limiters'[a] /\ Ip(limiters[a])' = a
  <2> SUFFICES ASSUME NEW a \in Addresses, limiters'[a] # NoLimiter
               PROVE  lim'[limiters'[a]] = limiters'[a] /\ Ip(limiters[a])' = a
    OBVIOUS
  <2>1. limiters[a] \in Requests /\ lim[limiters[a]] = limiters[a] /\ Ip(limiters[a]) = a
    BY DEF Types, HeldInv
  <2>2. limiters'[a] = limiters[a] /\ limiters[a] # r
    BY <2>1, ApiAssumption
  <2>3. Ip(limiters[a])' = a
    BY <2>1, <2>2 DEF Ip
  <2> QED
    BY <1>3, <2>1, <2>2, <2>3
<1>9. \A x \in Requests : pc'[x] = IF x = r THEN "limited" ELSE pc[x]
  BY DEF Types
<1> QED
  BY <1>2, <1>3, <1>4, <1>6, <1>7, <1>8, <1>9 DEF HeldInv, Types

\* HeldInv is kept: a request takes the limiter it finds for its address, or
\* one of its own making that nobody can have held before.
LEMMA NextHeld == ASSUME Types, HeldInv, [Next]_vars PROVE HeldInv'
<1>1. CASE Elsewhere
  BY <1>1 DEF Elsewhere, limiting, HeldInv, Ip, Types
<1>2. CASE Tick
  BY <1>2 DEF Tick, answer, HeldInv, Ip
<1>3. ASSUME NEW r \in Requests, LookUp(r) PROVE HeldInv'
  <2>1. lim[r] = NoLimiter /\ r \notin passed
    BY <1>3 DEF LookUp, Goes, HeldInv
  <2>2. CASE limiters[Ip(r)] # NoLimiter
    BY <1>3, <2>1, <2>2, TakenHeld DEF LookUp, Goes
  <2>3. CASE limiters[Ip(r)] = NoLimiter
    BY <1>3, <2>3 DEF LookUp, Goes, HeldInv, Ip, Types
  <2> QED
    BY <2>2, <2>3
<1>4. ASSUME NEW r \in Requests, Create(r) PROVE HeldInv'
  <2>1. lim[r] = NoLimiter /\ r \notin passed
    BY <1>4 DEF Create, Goes, HeldInv
  <2>2. CASE limiters[Ip(r)] # NoLimiter
    BY <1>4, <2>1, <2>2, TakenHeld DEF Create, Goes
  <2>3. CASE limiters[Ip(r)] = NoLimiter
    <3>1. /\ limiters'[Ip(r)] = r
          /\ \A a \in Addresses \ {Ip(r)} : limiters'[a] \in {limiters[a], NoLimiter}
      BY <1>4, <2>3, InsertParts DEF Create
    <3>2. /\ lim' = [lim EXCEPT ![r] = r] /\ pc' = [pc EXCEPT ![r] = "limited"]
          /\ UNCHANGED <<call, passed>>
      BY <1>4, <2>3 DEF Create, Goes
    <3> QED
      BY <2>1, <3>1, <3>2, IpType, ApiAssumption DEF HeldInv, Ip, Types
  <2> QED
    BY <2>2, <2>3
<1>5. ASSUME NEW r \in Requests, Allow(r) PROVE HeldInv'
  BY <1>5 DEF Allow, Goes, HeldInv, Ip, Types
<1> QED
  BY <1>1, <1>2, <1>3, <1>4, <1>5, StepKinds

-----------------------------------------------------------------------------
(* How many limiters there are.                                            *)

\* A request that takes a limiter of somebody else makes none.
LEMMA TakenMadeElsewhere ==
    ASSUME Types, HeldInv, NEW r \in Requests, NEW l \in Requests, NEW a \in Addresses,
           lim[r] = NoLimiter, lim[l] = l, lim' = [lim EXCEPT ![r] = l], UNCHANGED call
    PROVE  Made(a)' = Made(a)
<1>1. l # r
  BY ApiAssumption
<1> QED
  BY <1>1, ApiAssumption DEF Made, Ip, Types

\* What the creation of a limiter changes: it joins the limiters of its address,
\* and another address leaves the map if that is full.
LEMMA InsertCounts ==
    ASSUME Types, MadeInv, NEW r \in Requests, lim[r] = NoLimiter,
           limiters[Ip(r)] = NoLimiter, Insert(r), lim' = [lim EXCEPT ![r] = r],
           UNCHANGED call
    PROVE  MadeInv'
<1>0. PICK i \in Addresses : i = Ip(r)
  BY IpType
<1>1. i \in Addresses /\ r # NoLimiter /\ r \notin Made(i) /\ i \notin Limited
  BY <1>0, ApiAssumption DEF Made, Limited
<1>2. \A a \in Addresses : IsFiniteSet(Made(a)) /\ Cardinality(Made(a)) \in Nat
  <2> TAKE a \in Addresses
  <2>1. Made(a) \in SUBSET Requests
    BY DEF Made
  <2> QED
    BY <2>1, ApiAssumption, FS_Subset, FS_CardinalityType
<1>3. Made(i)' = Made(i) \cup {r}
  BY <1>0, <1>1 DEF Made, Ip, Types
<1>4. Cardinality(Made(i)') = Cardinality(Made(i)) + 1
  BY <1>1, <1>2, <1>3, FS_AddElement
<1>5. \A a \in Addresses \ {i} : Made(a)' = Made(a)
  BY <1>0, <1>1 DEF Made, Ip, Types
<1>6. IsFiniteSet(Limited) /\ Cardinality(Limited) \in Nat /\ Cardinality(Limited) <= Limit
  BY FS_CardinalityType DEF MadeInv
<1>7. CASE Cardinality(Limited) >= Limit
  <2>1. PICK a \in Limited :
           /\ limiters' = [limiters EXCEPT ![a] = NoLimiter, ![i] = r]
           /\ evictions' = [evictions EXCEPT ![a] = @ + 1]
    BY <1>0, <1>7 DEF Insert
  <2>2. a \in Addresses /\ a # i /\ limiters[a] # NoLimiter
    BY <1>1, <2>1 DEF Limited
  <2>3. \A b \in Addresses :
           /\ limiters'[b] = IF b = i THEN r ELSE IF b = a THEN NoLimiter ELSE limiters[b]
           /\ evictions'[b] = IF b = a THEN evictions[b] + 1 ELSE evictions[b]
    BY <1>1, <2>1, <2>2 DEF Types
  <2>4. Limited' = (Limited \ {a}) \cup {i}
    BY <1>1, <2>2, <2>3 DEF Limited
  <2>5. /\ IsFiniteSet(Limited \ {a})
        /\ Cardinality(Limited \ {a}) = Cardinality(Limited) - 1
    BY <1>6, <2>1, FS_RemoveElement
  <2>6. IsFiniteSet(Limited') /\ Cardinality(Limited') = Cardinality(Limited)
    <3>1. i \notin Limited \ {a}
      BY <1>1
    <3>2. /\ IsFiniteSet((Limited \ {a}) \cup {i})
          /\ Cardinality((Limited \ {a}) \cup {i}) = Cardinality(Limited \ {a}) + 1
      BY <2>5, <3>1, FS_AddElement
    <3> QED
      BY <1>6, <2>4, <2>5, <3>2
  <2>7. \A b \in Addresses :
           Cardinality(Made(b)') = evictions'[b] + IF limiters'[b] = NoLimiter THEN 0 ELSE 1
    <3> TAKE b \in Addresses
    <3>1. /\ Cardinality(Made(b)) = evictions[b] + IF limiters[b] = NoLimiter THEN 0 ELSE 1
          /\ evictions[b] \in Nat
      BY DEF MadeInv, Types
    <3>2. limiters[i] = NoLimiter
      BY <1>0
    <3>3. CASE b = i
      BY <1>1, <1>4, <2>2, <2>3, <3>1, <3>2, <3>3
    <3>4. CASE b # i
      <4>1. Made(b)' = Made(b)
        BY <1>5, <3>4
      <4> QED
        BY <2>2, <2>3, <3>1, <3>4, <4>1
    <3> QED
      BY <3>3, <3>4
  <2> QED
    BY <1>6, <2>6, <2>7 DEF MadeInv
<1>8. CASE ~(Cardinality(Limited) >= Limit)
  <2>1. limiters' = [limiters EXCEPT ![i] = r] /\ evictions' = evictions
    BY <1>0, <1>8 DEF Insert
  <2>2. \A b \in Addresses : limiters'[b] = IF b = i THEN r ELSE limiters[b]
    BY <1>1, <2>1 DEF Types
  <2>3. Limited' = Limited \cup {i}
    BY <1>1, <2>2 DEF Limited
  <2>4. IsFiniteSet(Limited') /\ Cardinality(Limited') = Cardinality(Limited) + 1
    BY <1>1, <1>6, <2>3, FS_AddElement
  <2>5. Cardinality(Limited') <= Limit
    BY <1>6, <1>8, <2>4, ApiAssumption
  <2>6. \A b \in Addresses :
           Cardinality(Made(b)') = evictions'[b] + IF limiters'[b] = NoLimiter THEN 0 ELSE 1
    <3> TAKE b \in Addresses
    <3>1. /\ Cardinality(Made(b)) = evictions[b] + IF limiters[b] = NoLimiter THEN 0 ELSE 1
          /\ evictions[b] \in Nat
      BY DEF MadeInv, Types
    <3>2. limiters[i] = NoLimiter
      BY <1>0
    <3>3. CASE b = i
      BY <1>1, <1>4, <2>1, <2>2, <3>1, <3>2, <3>3
    <3>4. CASE b # i
      <4>1. Made(b)' = Made(b)
        BY <1>5, <3>4
      <4> QED
        BY <2>1, <2>2, <3>1, <3>4, <4>1
    <3> QED
      BY <3>3, <3>4
  <2> QED
    BY <2>4, <2>5, <2>6 DEF MadeInv
<1> QED
  BY <1>7, <1>8

\* MadeInv is kept.
LEMMA NextMade == ASSUME Types, HeldInv, MadeInv, [Next]_vars PROVE MadeInv'
<1>1. ASSUME UNCHANGED <<limiters, evictions>>, \A a \in Addresses : Made(a)' = Made(a)
      PROVE  MadeInv'
  BY <1>1 DEF MadeInv, Limited
<1>2. CASE Elsewhere \/ Tick \/ \E r \in Requests : Allow(r)
  BY <1>1, <1>2 DEF Elsewhere, Tick, Allow, limiting, Made, Ip
<1>3. ASSUME NEW r \in Requests, lim[r] = NoLimiter, limiters[Ip(r)] # NoLimiter,
             lim' = [lim EXCEPT ![r] = limiters[Ip(r)]],
             UNCHANGED <<call, limiters, evictions>>
      PROVE  MadeInv'
  <2>1. limiters[Ip(r)] \in Requests /\ lim[limiters[Ip(r)]] = limiters[Ip(r)]
    BY <1>3, IpType DEF HeldInv, Types
  <2> QED
    BY <1>1, <1>3, <2>1, TakenMadeElsewhere
<1>4. ASSUME NEW r \in Requests, LookUp(r) PROVE MadeInv'
  <2>1. CASE limiters[Ip(r)] # NoLimiter
    BY <1>3, <1>4, <2>1 DEF LookUp, Goes, HeldInv
  <2>2. CASE limiters[Ip(r)] = NoLimiter
    BY <1>1, <1>4, <2>2 DEF LookUp, Made, Ip
  <2> QED
    BY <2>1, <2>2
<1>5. ASSUME NEW r \in Requests, Create(r) PROVE MadeInv'
  <2>1. lim[r] = NoLimiter /\ UNCHANGED call
    BY <1>5 DEF Create, Goes, HeldInv
  <2>2. CASE limiters[Ip(r)] # NoLimiter
    BY <1>3, <1>5, <2>1, <2>2 DEF Create
  <2>3. CASE limiters[Ip(r)] = NoLimiter
    BY <1>5, <2>1, <2>3, InsertCounts DEF Create
  <2> QED
    BY <2>2, <2>3
<1> QED
  BY <1>2, <1>4, <1>5, StepKinds

-----------------------------------------------------------------------------
(* How many requests a limiter lets pass.                                  *)

\* BucketInv is kept: every token that is given away was in the bucket, and a
\* bucket gains one token at most while the clock moves on by one.
LEMMA NextBucket == ASSUME Types, HeldInv, BucketInv, [Next]_vars PROVE BucketInv'
<1>1. \A l \in Requests : IsFiniteSet(Passed(l)) /\ Cardinality(Passed(l)) \in Nat
  <2> TAKE l \in Requests
  <2>1. Passed(l) \in SUBSET Requests
    BY DEF Passed, Types
  <2> QED
    BY <2>1, ApiAssumption, FS_Subset, FS_CardinalityType
<1>2. \A l \in Requests : tokens[l] \in Nat /\ tokens[l] <= Burst
  BY ApiAssumption DEF Types
<1>3. now \in Nat /\ Burst \in Nat
  BY ApiAssumption DEF Types
<1>4. ASSUME \A l \in Requests : Passed(l)' = Passed(l), UNCHANGED <<tokens, now>>
      PROVE  BucketInv'
  BY <1>4 DEF BucketInv
<1>5. CASE Elsewhere
  BY <1>4, <1>5 DEF Elsewhere, limiting, Passed
<1>6. CASE Tick
  <2>1. \A l \in Requests : Passed(l)' = Passed(l)
    BY <1>6 DEF Tick, Passed
  <2>2. now' = now + 1 /\ \A l \in Requests : tokens'[l] \in Nat /\ tokens'[l] <= tokens[l] + 1
    BY <1>2, <1>3, <1>6 DEF Tick
  <2> QED
    BY <1>1, <1>2, <1>3, <2>1, <2>2 DEF BucketInv
<1>7. ASSUME NEW r \in Requests, lim[r] = NoLimiter,
             \E l \in Requests \cup {NoLimiter} : lim' = [lim EXCEPT ![r] = l], passed' = passed
      PROVE  \A l \in Requests : Passed(l)' = Passed(l)
  BY <1>7 DEF Passed, HeldInv, Types
<1>8. ASSUME NEW r \in Requests, LookUp(r) PROVE BucketInv'
  <2>1. lim[r] = NoLimiter /\ UNCHANGED <<tokens, now, passed>>
    BY <1>8 DEF LookUp, Goes, HeldInv
  <2>2. limiters[Ip(r)] \in Requests \cup {NoLimiter}
    BY IpType DEF Types
  <2>3. lim' = [lim EXCEPT ![r] = limiters[Ip(r)]]
    BY <1>8, <2>1 DEF LookUp, Types
  <2> QED
    BY <1>4, <1>7, <2>1, <2>2, <2>3
<1>9. ASSUME NEW r \in Requests, Create(r) PROVE BucketInv'
  <2>1. lim[r] = NoLimiter /\ UNCHANGED <<now, passed>>
    BY <1>9 DEF Create, Goes, HeldInv
  <2>2. CASE limiters[Ip(r)] # NoLimiter
    <3>1. limiters[Ip(r)] \in Requests \cup {NoLimiter}
      BY IpType DEF Types
    <3>2. lim' = [lim EXCEPT ![r] = limiters[Ip(r)]] /\ tokens' = tokens
      BY <1>9, <2>2 DEF Create
    <3> QED
      BY <1>4, <1>7, <2>1, <3>1, <3>2
  <2>3. CASE limiters[Ip(r)] = NoLimiter
    <3>1. lim' = [lim EXCEPT ![r] = r] /\ tokens' = [tokens EXCEPT ![r] = Burst]
      BY <1>9, <2>3 DEF Create
    <3>2. \A l \in Requests : Passed(l)' = Passed(l)
      BY <1>7, <2>1, <3>1
    <3>3. Passed(r) = {}
      BY <2>1, ApiAssumption DEF Passed, HeldInv, Types
    <3>4. Cardinality(Passed(r)) = 0
      BY <3>3, FS_EmptySet
    <3>5. \A l \in Requests : tokens'[l] = IF l = r THEN Burst ELSE tokens[l]
      BY <3>1 DEF Types
    <3> QED
      BY <1>3, <2>1, <3>2, <3>4, <3>5 DEF BucketInv
  <2> QED
    BY <2>2, <2>3
<1>10. ASSUME NEW r \in Requests, Allow(r) PROVE BucketInv'
  <2>1. PICK g \in Requests : g = lim[r]
    BY <1>10 DEF Allow, Goes, HeldInv, Types
  <2>2. /\ tokens[g] > 0 /\ tokens' = [tokens EXCEPT ![g] = @ - 1]
        /\ passed' = passed \cup {r} /\ UNCHANGED <<lim, now>>
    BY <1>10, <2>1 DEF Allow
  <2>3. \A l \in Requests : tokens'[l] = IF l = g THEN tokens[l] - 1 ELSE tokens[l]
    BY <2>2 DEF Types
  <2>4. \A l \in Requests \ {g} : Passed(l)' = Passed(l)
    BY <2>1, <2>2 DEF Passed
  <2>5. Passed(g)' = Passed(g) \cup {r}
    BY <2>1, <2>2 DEF Passed
  <2>6. Cardinality(Passed(g) \cup {r}) \in {Cardinality(Passed(g)), Cardinality(Passed(g)) + 1}
    BY <1>1, FS_AddElement
  <2>7. ASSUME NEW l \in Requests PROVE (Cardinality(Passed(l)) + tokens[l] <= Burst + now)'
    <3>1. CASE l = g
      <4>1. /\ Cardinality(Passed(g)) \in Nat /\ tokens[g] \in Nat
            /\ Cardinality(Passed(g)) + tokens[g] <= Burst + now
        BY <1>1, <1>2 DEF BucketInv
      <4>2. Cardinality(Passed(g)') \in {Cardinality(Passed(g)), Cardinality(Passed(g)) + 1}
        BY <2>5, <2>6
      <4>3. (Cardinality(Passed(g)) + tokens[g] <= Burst + now)'
        BY <1>3, <2>2, <2>3, <4>1, <4>2
      <4> QED
        BY <3>1, <4>3
    <3>2. CASE l # g
      BY <2>2, <2>3, <2>4, <3>2 DEF BucketInv
    <3> QED
      BY <3>1, <3>2
  <2> QED
    BY <2>7 DEF BucketInv
<1> QED
  BY <1>5, <1>6, <1>8, <1>9, <1>10, StepKinds

-----------------------------------------------------------------------------
(* One answer.                                                             *)

\* What a step does to the answers: that of one request may change.
Answers(r) ==
    /\ \A x \in Requests \ {r} : pc'[x] = pc[x] /\ err'[x] = err[x] /\ status'[x] = status[x]
    /\ status[r] # "none" => status'[r] = status[r]
    /\ pc'[r] \notin {"error", "done"} => status'[r] = "none"
    /\ pc'[r] = "error" => err'[r] # "none"
    /\ pc'[r] = "done" => status'[r] # "none"

\* Handlers write a status line where none was written, and the others leave
\* it to ErrorHandler, which finds a code.
LEMMA ServeAnswers ==
    ASSUME Types, AnswerInv, NEW r \in Requests, Serve(r)
    PROVE  Answers(r)
<1>1. CASE Preflight(r) \/ ErrorHandler(r)
  BY <1>1 DEF Preflight, ErrorHandler, Goes, Types, AnswerInv, Answers
<1>2. CASE LookUp(r) \/ Create(r) \/ Allow(r)
  BY <1>2 DEF LookUp, Create, Allow, Goes, answer, Types, AnswerInv, Answers
<1>3. ASSUME NEW from, from \notin {"error", "done"}, NEW code, code # "none",
             Raise(r, from, code)
      PROVE  Answers(r)
  BY <1>3 DEF Raise, Goes, Types, AnswerInv, Answers
<1>4. ASSUME NEW from, from \notin {"error", "done"}, NEW to, to \notin {"error", "done"},
             Proceed(r, from, to)
      PROVE  Answers(r)
  BY <1>4 DEF Proceed, Goes, answer, Types, AnswerInv, Answers
<1>5. CASE Refuse(r)
  BY <1>3, <1>5 DEF Refuse
<1>6. CASE Handle(r)
  <2>1. CASE Send(r)
    BY <2>1 DEF Send, Goes, Types, AnswerInv, Answers
  <2>2. CASE Panics(r)
    BY <1>3, <2>2 DEF Panics
  <2>3. CASE Render(r) \/ GetArticles(r) \/ ToRss(r)
    BY <1>4, <2>3 DEF Render, GetArticles, ToRss
  <2>4. CASE RenderFails(r) \/ NotFound(r) \/ QueryCut(r)
    BY <1>3, <2>4 DEF RenderFails, NotFound, QueryCut
  <2>5. CASE QueryFails(r) \/ ToRssFails(r)
    BY <1>3, <2>5 DEF QueryFails, ToRssFails, NotifyError
  <2> QED
    BY <1>6, <2>1, <2>2, <2>3, <2>4, <2>5 DEF Handle
<1> QED
  BY <1>1, <1>2, <1>5, <1>6 DEF Serve, Limiter

\* AnswerInv is kept.
LEMMA NextAnswer == ASSUME Types, AnswerInv, [Next]_vars PROVE AnswerInv'
<1>1. CASE UNCHANGED <<pc, err, status>>
  BY <1>1 DEF AnswerInv
<1>2. ASSUME NEW r \in Requests, Answers(r) PROVE AnswerInv'
  BY <1>2 DEF Answers, AnswerInv
<1> QED
  BY <1>1, <1>2, ServeAnswers DEF Next, Tick, NotifyOver, answer, vars

-----------------------------------------------------------------------------
(* The theorems.                                                           *)

\* The invariants hold before the first request.
LEMMA InitInv == Init => Inv
<1> SUFFICES ASSUME Init PROVE Inv
  OBVIOUS
<1>1. Types
  BY InitTypes
<1>2. HeldInv
  BY DEF Init, HeldInv
<1>3. Limited = {} /\ \A a \in Addresses : Made(a) = {}
  BY ApiAssumption DEF Init, Limited, Made
<1>4. MadeInv
  <2>1. IsFiniteSet(Limited) /\ Cardinality(Limited) = 0 /\ Limit \in Nat
    BY <1>3, FS_EmptySet, ApiAssumption
  <2>2. ASSUME NEW a \in Addresses
        PROVE  Cardinality(Made(a)) = 0 /\ evictions[a] = 0 /\ limiters[a] = NoLimiter
    BY <1>3, FS_EmptySet DEF Init
  <2> QED
    BY <2>1, <2>2 DEF MadeInv
<1>5. \A l \in Requests : Passed(l) = {}
  BY DEF Init, Passed
<1>6. BucketInv
  <2>1. ASSUME NEW l \in Requests
        PROVE  Cardinality(Passed(l)) = 0 /\ tokens[l] = Burst /\ now = 0
    BY <1>5, FS_EmptySet DEF Init
  <2> QED
    BY <2>1, ApiAssumption DEF BucketInv
<1>7. AnswerInv
  BY DEF Init, AnswerInv
<1> QED
  BY <1>1, <1>2, <1>4, <1>6, <1>7 DEF Inv

\* All invariants hold in every state.
THEOREM ApiInvariant == Spec => []Inv
<1>1. Inv /\ [Next]_vars => Inv'
  BY NextTypes, NextHeld, NextMade, NextBucket, NextAnswer DEF Inv
<1> QED
  BY <1>1, InitInv, PTL DEF Spec

\* An address loses a limiter at most once for each that was made for it.
LEMMA EvictionsCounted ==
    ASSUME Inv, NEW a \in Addresses
    PROVE  /\ IsFiniteSet(Made(a)) /\ Cardinality(Made(a)) \in Nat
           /\ Cardinality(Made(a)) <= Cardinality(Requests)
           /\ evictions[a] \in Nat
           /\ evictions[a] <= Cardinality(Made(a))
           /\ Cardinality(Made(a)) <= 1 + evictions[a]
<1>1. Made(a) \in SUBSET Requests
  BY DEF Made
<1>2. /\ IsFiniteSet(Made(a)) /\ Cardinality(Made(a)) \in Nat
      /\ Cardinality(Made(a)) <= Cardinality(Requests)
  BY <1>1, ApiAssumption, FS_Subset, FS_CardinalityType
<1>3. evictions[a] \in Nat
  BY DEF Inv, Types
<1>4. Cardinality(Made(a)) = evictions[a] + IF limiters[a] = NoLimiter THEN 0 ELSE 1
  BY DEF Inv, MadeInv
<1> QED
  BY <1>2, <1>3, <1>4

\* The variables have their types, and the map of limiters never outgrows its
\* limit, however many requests race to fill it.
THEOREM TypeOKHolds == Spec => []TypeOK
<1>1. Inv => TypeOK
  <2> SUFFICES ASSUME Inv PROVE TypeOK
    OBVIOUS
  <2>1. Cardinality(Requests) \in Nat
    BY ApiAssumption, FS_CardinalityType
  <2>2. \A a \in Addresses : evictions[a] \in 0..Cardinality(Requests)
    BY <2>1, EvictionsCounted
  <2>3. evictions \in [Addresses -> 0..Cardinality(Requests)]
    BY <2>2 DEF Inv, Types
  <2> QED
    BY <2>3 DEF Inv, Types, MadeInv, TypeOK
<1> QED
  BY <1>1, ApiInvariant, PTL

\* No address gets more requests through than its bucket and the time allow for
\* each limiter it was given.
THEOREM RateBoundHolds == Spec => []RateBound
<1>1. Inv => RateBound
  <2> SUFFICES ASSUME Inv, NEW a \in Addresses
               PROVE  Cardinality({r \in passed : Ip(r) = a})
                          <= (1 + evictions[a]) * (Burst + now)
    BY DEF RateBound
  <2> DEFINE S == {r \in passed : Ip(r) = a}
  <2> DEFINE f == [r \in S |-> lim[r]]
  <2>1. IsFiniteSet(S) /\ Cardinality(S) \in Nat
    <3>1. S \in SUBSET Requests
      BY DEF Inv, Types
    <3> QED
      BY <3>1, ApiAssumption, FS_Subset, FS_CardinalityType
  <2>2. f \in [S -> Made(a)]
    <3>1. \A r \in S : lim[r] \in Requests /\ lim[lim[r]] = lim[r] /\ Ip(lim[r]) = a
      BY DEF Inv, Types, HeldInv
    <3> QED
      BY <3>1 DEF Made
  <2>3. Burst + now \in Nat
    BY ApiAssumption DEF Inv, Types
  <2>4. ASSUME NEW l \in Made(a)
        PROVE  Cardinality({r \in S : f[r] = l}) <= Burst + now
    <3>1. l \in Requests /\ Passed(l) \in SUBSET Requests
      BY DEF Made, Passed, Inv, Types
    <3>2. IsFiniteSet(Passed(l)) /\ Cardinality(Passed(l)) \in Nat
      BY <3>1, ApiAssumption, FS_Subset, FS_CardinalityType
    <3>3. {r \in S : f[r] = l} \in SUBSET Passed(l)
      BY DEF Passed
    <3>4. /\ IsFiniteSet({r \in S : f[r] = l})
          /\ Cardinality({r \in S : f[r] = l}) <= Cardinality(Passed(l))
      BY <3>2, <3>3, FS_Subset
    <3>5. Cardinality({r \in S : f[r] = l}) \in Nat
      BY <3>4, FS_CardinalityType
    <3>6. Cardinality(Passed(l)) + tokens[l] <= Burst + now /\ tokens[l] \in Nat
      BY <3>1, ApiAssumption DEF Inv, BucketInv, Types
    <3> HIDE DEF f, S
    <3> QED
      BY <2>3, <3>2, <3>4, <3>5, <3>6
  <2>5. IsFiniteSet(Made(a)) /\ Cardinality(Made(a)) \in Nat
        /\ Cardinality(Made(a)) <= 1 + evictions[a] /\ evictions[a] \in Nat
    BY EvictionsCounted
  <2> HIDE DEF f, S
  <2>6. Cardinality(S) <= Cardinality(Made(a)) * (Burst + now)
    BY <2>1, <2>2, <2>3, <2>4, <2>5, CountByClasses
  <2>7. Cardinality(Made(a)) * (Burst + now) <= (1 + evictions[a]) * (Burst + now)
    BY <2>3, <2>5, TimesMonotone
  <2>8. /\ Cardinality(Made(a)) * (Burst + now) \in Nat
        /\ (1 + evictions[a]) * (Burst + now) \in Nat
    BY <2>3, <2>5
  <2>9. Cardinality(S) <= (1 + evictions[a]) * (Burst + now)
    BY <2>1, <2>6, <2>7, <2>8
  <2> QED
    BY <2>9 DEF S
<1> QED
  BY <1>1, ApiInvariant, PTL

\* Every client gets exactly one status line, whatever fails after it was sent.
THEOREM OneResponseHolds == Spec => OneResponse
<1>1. Inv /\ [Next]_vars =>
          [\A r \in Requests :
              /\ status[r] # "none" => status'[r] = status[r]
              /\ pc'[r] = "done" => status'[r] # "none"]_vars
  <2> SUFFICES ASSUME Inv, Next
               PROVE  \A r \in Requests :
                         /\ status[r] # "none" => status'[r] = status[r]
                         /\ pc'[r] = "done" => status'[r] # "none"
    BY DEF vars
  <2>1. CASE UNCHANGED <<pc, status>>
    BY <2>1 DEF Inv, AnswerInv
  <2>2. ASSUME NEW r \in Requests, Serve(r)
        PROVE  \A x \in Requests :
                  /\ status[x] # "none" => status'[x] = status[x]
                  /\ pc'[x] = "done" => status'[x] # "none"
    BY <2>2, ServeAnswers DEF Answers, Inv, AnswerInv
  <2> QED
    BY <2>1, <2>2 DEF Next, Tick, NotifyOver, answer
<1> QED
  BY <1>1, ApiInvariant, PTL DEF Spec, OneResponse

-----------------------------------------------------------------------------
(* The limiters implement BoundedCache.                                    *)

\* The limiters on the map.
OnMap == {limiters[a] : a \in Limited}

\* A limiter is on the map for one address, the one it was made for.
LEMMA OnMapOnce ==
    ASSUME Types, HeldInv, MadeInv
    PROVE  /\ \A a \in Limited : limiters[a] \in Requests /\ Ip(limiters[a]) = a
           /\ Promise!Cardinality(OnMap) = Cardinality(Limited)
<1>1. \A a \in Limited : limiters[a] \in Requests /\ Ip(limiters[a]) = a
  BY DEF Limited, Types, HeldInv
<1> DEFINE m == [a \in Limited |-> limiters[a]]
<1>2. m \in Bijection(Limited, OnMap)
  BY <1>1 DEF OnMap, Bijection, Injection, IsInjective, Surjection
<1>3. Cardinality(OnMap) = Cardinality(Limited)
  BY <1>2, FS_Bijection DEF ExistsBijection, MadeInv
<1>4. Promise!Cardinality(OnMap) = Cardinality(OnMap)
  BY DEF Promise!Cardinality, Cardinality
<1> QED
  BY <1>1, <1>3, <1>4

\* What is cached for the address of r.
LEMMA CachedForIp ==
    ASSUME Types, HeldInv, NEW r \in Requests
    PROVE  Promise!Cached(Ip(r)) =
              IF limiters[Ip(r)] = NoLimiter THEN {} ELSE {limiters[Ip(r)]}
<1>1. \A a \in Limited : a \in Addresses /\ limiters[a] \in Requests /\ Ip(limiters[a]) = a
  BY DEF Limited, Types, HeldInv
<1>2. Promise!Cached(Ip(r)) = {limiters[a] : a \in {b \in Limited : b = Ip(r)}}
  BY <1>1 DEF Promise!Cached
<1> QED
  BY <1>2, IpType DEF Limited

\* A limiter that is found on the map is a Hit.
LEMMA FoundIsHit ==
    ASSUME Types, HeldInv, NEW r \in Requests, lim[r] = NoLimiter,
           limiters[Ip(r)] # NoLimiter, lim' = [lim EXCEPT ![r] = limiters[Ip(r)]],
           UNCHANGED <<call, limiters>>
    PROVE  Promise!Hit(r)
<1>1. limiters[Ip(r)] \in Promise!Cached(Ip(r))
  BY CachedForIp
<1>2. [x \in Requests |-> Ip(x)][r] = Ip(r)
  OBVIOUS
<1>3. Promise!Answer(r, limiters[Ip(r)])
  BY DEF Promise!Answer, Ip
<1> QED
  BY <1>1, <1>2, <1>3 DEF Promise!Hit, Limited

\* A limiter that is made is an Add, and the address that leaves the map at the
\* limit is the value that leaves the cache.
LEMMA MadeIsAdd ==
    ASSUME Types, HeldInv, MadeInv, NEW r \in Requests, lim[r] = NoLimiter,
           limiters[Ip(r)] = NoLimiter, Insert(r), lim' = [lim EXCEPT ![r] = r],
           UNCHANGED call
    PROVE  Promise!Add(r)
<1>0. PICK i \in Addresses : i = Ip(r)
  BY IpType
<1>1. Promise!Answer(r, r)
  BY DEF Promise!Answer, Ip
<1>2. Promise!Cached([x \in Requests |-> Ip(x)][r]) = {}
  BY CachedForIp
<1>3. \A a \in Limited : limiters[a] \in Requests /\ Ip(limiters[a]) = a
  BY OnMapOnce
<1>4. Promise!Cardinality(OnMap) = Cardinality(Limited)
  BY OnMapOnce
<1>5. i \notin Limited /\ r # NoLimiter
  BY <1>0, ApiAssumption DEF Limited
<1>6. Cardinality(Limited) \in Nat /\ Limit \in Nat
  BY ApiAssumption, FS_CardinalityType DEF MadeInv
<1>7. CASE Cardinality(Limited) >= Limit
  <2>1. PICK a \in Limited : limiters' = [limiters EXCEPT ![a] = NoLimiter, ![i] = r]
    BY <1>0, <1>7 DEF Insert
  <2>2. a \in Addresses /\ a # i
    BY <1>5, <2>1 DEF Limited
  <2>3. \A b \in Addresses :
           limiters'[b] = IF b = i THEN r ELSE IF b = a THEN NoLimiter ELSE limiters[b]
    BY <2>1, <2>2 DEF Types
  <2>4. Limited' = (Limited \ {a}) \cup {i}
    BY <1>5, <2>2, <2>3 DEF Limited
  <2>5. \A b \in Limited \ {a} : b \in Addresses /\ b # i /\ limiters[b] # limiters[a]
    BY <1>3, <1>5, <2>1 DEF Limited
  <2>6. OnMap' = {limiters'[b] : b \in Limited'}
    BY DEF OnMap
  <2>7. {limiters'[b] : b \in Limited'} = (OnMap \ {limiters[a]}) \cup {r}
    BY <2>2, <2>3, <2>4, <2>5 DEF OnMap
  <2>8. OnMap' = (OnMap \ {limiters[a]}) \cup {r} /\ limiters[a] \in OnMap
    BY <2>1, <2>6, <2>7 DEF OnMap
  <2>9. ~(Promise!Cardinality(OnMap) < Limit)
    BY <1>4, <1>6, <1>7
  <2> QED
    BY <1>1, <1>2, <2>8, <2>9 DEF Promise!Add, OnMap
<1>8. CASE ~(Cardinality(Limited) >= Limit)
  <2>1. \A b \in Addresses : limiters'[b] = IF b = i THEN r ELSE limiters[b]
    BY <1>0, <1>8 DEF Insert, Types
  <2>2. Limited' = Limited \cup {i}
    BY <1>5, <2>1 DEF Limited
  <2>3. {limiters'[b] : b \in Limited'} = OnMap \cup {r}
    BY <1>5, <2>1, <2>2 DEF OnMap, Limited
  <2>4. OnMap' = OnMap \cup {r}
    BY <2>3 DEF OnMap
  <2>5. Promise!Cardinality(OnMap) < Limit
    BY <1>4, <1>6, <1>8
  <2> QED
    BY <1>1, <1>2, <2>4, <2>5 DEF Promise!Add, OnMap
<1> QED
  BY <1>7, <1>8

\* The look-up under the read lock and the creation under the write lock amount
\* to one atomic step for every request, for any number of them.
THEOREM LimiterImplementsCache == Spec => LimiterSpec
<1>1. Init => Promise!Init
  <2> SUFFICES ASSUME Init PROVE Promise!Init
    OBVIOUS
  <2>1. Types
    BY InitTypes
  <2>2. [r \in Requests |-> Ip(r)] \in [Requests -> Addresses]
    BY <2>1, IpType
  <2>3. Limited = {} /\ lim = [r \in Requests |-> NoLimiter]
    BY DEF Init, Limited
  <2> QED
    BY <2>2, <2>3 DEF Promise!Init
<1>2. Inv /\ [Next]_vars => [Promise!Next]_(Promise!vars)
  <2> SUFFICES ASSUME Inv, [Next]_vars PROVE [Promise!Next]_(Promise!vars)
    OBVIOUS
  <2> USE DEF Inv
  <2>1. CASE UNCHANGED <<call, limiters, lim>>
    BY <2>1 DEF Promise!vars, Ip, Limited
  <2>2. ASSUME NEW r \in Requests, LookUp(r) PROVE [Promise!Next]_(Promise!vars)
    <3>1. CASE limiters[Ip(r)] # NoLimiter
      <4>1. Promise!Hit(r)
        BY <2>2, <3>1, FoundIsHit DEF LookUp, Goes, HeldInv
      <4> QED
        BY <4>1 DEF Promise!Next
    <3>2. CASE limiters[Ip(r)] = NoLimiter
      BY <2>1, <2>2, <3>2 DEF LookUp
    <3> QED
      BY <3>1, <3>2
  <2>3. ASSUME NEW r \in Requests, Create(r) PROVE [Promise!Next]_(Promise!vars)
    <3>1. lim[r] = NoLimiter
      BY <2>3 DEF Create, Goes, HeldInv
    <3>2. CASE limiters[Ip(r)] # NoLimiter
      <4>1. Promise!Hit(r)
        BY <2>3, <3>1, <3>2, FoundIsHit DEF Create
      <4> QED
        BY <4>1 DEF Promise!Next
    <3>3. CASE limiters[Ip(r)] = NoLimiter
      <4>1. Promise!Add(r)
        BY <2>3, <3>1, <3>3, MadeIsAdd DEF Create
      <4> QED
        BY <4>1 DEF Promise!Next
    <3> QED
      BY <3>2, <3>3
  <2>4. CASE Elsewhere \/ Tick \/ \E r \in Requests : Allow(r)
    BY <2>1, <2>4 DEF Elsewhere, Tick, Allow, limiting
  <2> QED
    BY <2>2, <2>3, <2>4, StepKinds
<1> QED
  BY <1>1, <1>2, ApiInvariant, PTL DEF Spec, LimiterSpec, Promise!Spec
=============================================================================
