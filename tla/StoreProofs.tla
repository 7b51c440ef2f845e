----------------------------- MODULE StoreProofs -----------------------------
(***************************************************************************)
(* Proofs about Store for every set of providers and boards, every         *)
(* retention and every value of the bounds.                                *)
(***************************************************************************)
EXTENDS Store, TLAPS

-----------------------------------------------------------------------------
(* The inductive invariant.                                                *)

\* Articles are numbered in the order of their days, and none is of a day to come.
Ordered ==
    \A i \in 1..posted :
        /\ createdOn[i] <= now
        /\ \A j \in 1..posted : i <= j => createdOn[i] <= createdOn[j]

\* Nothing is known of an article that was not published.
Known ==
    /\ stored \subseteq 1..posted
    /\ \A k \in Keys : cursor[k] <= posted
    /\ \A p \in Providers :
          /\ batch[p] \subseteq 1..posted
          /\ \A m \in moves[p] : m[2] <= posted

\* Cycles run only in a process that is up, and write only rows that have the
\* rows they belong to.
CycleInv ==
    \A p \in Providers :
        /\ pc # "up" => at[p] = "idle"
        /\ at[p] = "idle" => batch[p] = {} /\ moves[p] = {}
        /\ at[p] = "cursors" => batch[p] = {}
        /\ \A i \in batch[p] : home[i] \in boards
        /\ \A m \in moves[p] :
              m[1][1] \in providers /\ (m[1][2] = WholeSite \/ m[1] \in boards)

\* After SyncProviders the database lists what the configuration lists.
Mirror ==
    pc \in {"purge", "up"} => providers = confProviders /\ boards = confBoards

\* An article due to its board that shares the cursor with an article j and is
\* not newer than j.
Under(i, j) == i <= j /\ KeyOf(home[i]) = KeyOf(home[j]) /\ Due(i)

\* Below a stored article of the same cursor nothing is missing.
StoredCovers ==
    \A i, j \in 1..posted : (j \in stored /\ Under(i, j)) => i \in stored \cup excused

\* The same of an article a cycle is about to store ...
BatchCovers ==
    \A p \in Providers : \A i, j \in 1..posted :
        (j \in batch[p] /\ Under(i, j)) => i \in stored \cup excused \cup batch[p]

\* ... and of a cursor it is about to write.
MovesCover ==
    \A p \in Providers : \A m \in moves[p] : \A i \in 1..posted :
        (i <= m[2] /\ KeyOf(home[i]) = m[1] /\ Due(i))
            => i \in stored \cup excused \cup batch[p]

Cover == NothingLost /\ StoredCovers /\ BatchCovers /\ MovesCover

\* What is left of a provider that was purged was in its retention.
PurgeInv ==
    /\ startedOn <= now
    /\ (pc = "purge" /\ ~purgeFailed) =>
          \A i \in stored : home[i][1] \in toPurge \/ ~Expired(i, startedOn)

Base == TypeOK /\ Ordered /\ Known /\ Mirror /\ CycleInv /\ NoOrphans

IInv == Base /\ Cover /\ PurgeInv

-----------------------------------------------------------------------------
(* Types.                                                                  *)

LEMMA KeyOfType ==
    ASSUME NEW c \in Places
    PROVE  /\ KeyOf(c) \in Keys
           /\ KeyOf(c)[1] = c[1]
           /\ c[1] \in OneCursor => KeyOf(c) = <<c[1], WholeSite>>
           /\ c[1] \notin OneCursor => KeyOf(c) = c
  BY DEF KeyOf, Keys, Places

\* Two boards share a cursor only if they are of one provider, and not unless
\* it has one cursor for all.
LEMMA SharedKey ==
    ASSUME NEW c \in Places, NEW d \in Places, KeyOf(c) = KeyOf(d)
    PROVE  c[1] = d[1] /\ (c[1] \notin OneCursor => c = d)
  <1>1. c[1] = d[1]
    BY KeyOfType
  <1> QED
    BY <1>1, KeyOfType

LEMMA IdleType ==
    /\ [p \in Providers |-> "idle"] \in [Providers -> {"idle", "save", "cursors"}]
    /\ [p \in Providers |-> {}] \in [Providers -> SUBSET Ids]
    /\ [p \in Providers |-> {}] \in [Providers -> SUBSET (Keys \X Ids)]
    /\ {} \subseteq {} \X Boards
    /\ 1 \in Times
  BY BoundsAssumption DEF Times

LEMMA InitType == Init => TypeOK
  <1> SUFFICES ASSUME Init PROVE TypeOK
    OBVIOUS
  <1>1. [i \in Ids |-> 1] \in [Ids -> Times] /\ [k \in Keys |-> 0] \in [Keys -> 0..MaxId]
    BY IdleType, BoundsAssumption
  <1>2. /\ createdOn \in [Ids -> Times]
        /\ cursor \in [Keys -> 0..MaxId]
        /\ at \in [Providers -> {"idle", "save", "cursors"}]
        /\ batch \in [Providers -> SUBSET Ids]
        /\ moves \in [Providers -> SUBSET (Keys \X Ids)]
    BY <1>1, IdleType DEF Init
  <1>3. now \in Times /\ startedOn \in Times /\ posted \in 0..MaxId /\ starts \in 0..MaxStarts
    BY IdleType, BoundsAssumption DEF Init
  <1>4. confProviders \subseteq Providers /\ confBoards \subseteq confProviders \X Boards
    BY DEF Init
  <1> QED
    BY <1>2, <1>3, <1>4 DEF Init, TypeOK

LEMMA GoDownType ==
    ASSUME TypeOK, GoDown, UNCHANGED <<sites, db, starts, since, excused>>
    PROVE  TypeOK'
  BY IdleType DEF TypeOK, GoDown, ForgetCycles, sites, db

LEMMA TypeStep ==
    ASSUME TypeOK, [Next]_vars
    PROVE  TypeOK'
  <1> USE BoundsAssumption DEF TypeOK, sites, conf, db, cycles, purging, started
  <1>1. CASE Publish
    <2>1. posted' \in 0..MaxId /\ createdOn' \in [Ids -> Times]
      BY <1>1 DEF Publish, Ids
    <2> QED
      BY <1>1, <2>1 DEF Publish
  <1>2. CASE NextDay
    BY <1>2 DEF NextDay, Times
  <1>3. CASE Start
    BY <1>3 DEF Start
  <1>4. CASE SyncProviders
    <2>1. cursor' \in [Keys -> 0..MaxId]
      BY <1>4 DEF SyncProviders
    <2>2. confBoards \subseteq Places
      BY DEF Places
    <2>3. since' \in [Places -> 0..MaxId] /\ excused' \subseteq excused
      BY <1>4 DEF SyncProviders
    <2>4. stored' \subseteq stored
      BY <1>4 DEF SyncProviders, KeptArticles
    <2> QED
      BY <1>4, <2>1, <2>2, <2>3, <2>4 DEF SyncProviders
  <1>5. CASE SyncFails
    BY <1>5, GoDownType DEF SyncFails
  <1>6. CASE Serve
    <2>1. CASE purgeFailed
      BY <1>6, <2>1, GoDownType DEF Serve
    <2>2. CASE ~purgeFailed
      BY <1>6, <2>2, IdleType DEF Serve
    <2> QED
      BY <2>1, <2>2
  <1>7. CASE Stop
    BY <1>7, GoDownType DEF Stop
  <1>8. ASSUME NEW p \in Providers, DeleteOldArticles(p)
        PROVE  TypeOK'
    BY <1>8 DEF DeleteOldArticles, Purged
  <1>9. ASSUME NEW p \in Providers, DeleteFails(p)
        PROVE  TypeOK'
    BY <1>9 DEF DeleteFails
  <1>10. ASSUME NEW p \in Providers, Crawl(p)
         PROVE  TypeOK'
    <2>1. PICK K \in SUBSET KeysOf(p) :
             /\ batch' = [batch EXCEPT ![p] =
                    {i \in UNION {New(k) : k \in K} : home[i] \in confBoards}]
             /\ moves' = [moves EXCEPT ![p] =
                    {m \in K \X Ids : IsMaxOf(m[2], New(m[1]))}]
      BY <1>10 DEF Crawl
    <2>2. K \subseteq Keys
      BY DEF KeysOf, Keys
    <2>3. UNION {New(k) : k \in K} \subseteq Ids
      BY DEF New, Ids
    <2>4. batch' \in [Providers -> SUBSET Ids]
      BY <2>1, <2>3
    <2>5. {m \in K \X Ids : IsMaxOf(m[2], New(m[1]))} \in SUBSET (Keys \X Ids)
      BY <2>2
    <2>6. moves' \in [Providers -> SUBSET (Keys \X Ids)]
      BY <2>1, <2>5
    <2> QED
      BY <1>10, <2>4, <2>6 DEF Crawl
  <1>11. ASSUME NEW p \in Providers, Save(p)
         PROVE  TypeOK'
    BY <1>11 DEF Save
  <1>12. ASSUME NEW p \in Providers, SaveFails(p)
         PROVE  TypeOK'
    BY <1>12 DEF SaveFails, EndCycle
  <1>13. ASSUME NEW p \in Providers, NEW m \in Keys \X Ids, UpdateCursor(p, m)
         PROVE  TypeOK'
    <2>1. m[1] \in Keys /\ m[2] \in 0..MaxId
      BY DEF Ids
    <2>2. cursor' \in [Keys -> 0..MaxId]
      BY <1>13, <2>1 DEF UpdateCursor
    <2> QED
      BY <1>13, <2>2 DEF UpdateCursor
  <1>14. CASE UNCHANGED vars
    BY <1>14 DEF vars
  <1> QED
    BY <1>1, <1>2, <1>3, <1>4, <1>5, <1>6, <1>7, <1>8, <1>9, <1>10, <1>11,
       <1>12, <1>13, <1>14 DEF Next

-----------------------------------------------------------------------------
(* Order, rows and cycles.                                                 *)

LEMMA InitBase == Init => Base
  <1> SUFFICES ASSUME Init PROVE Base
    OBVIOUS
  <1>1. Ordered /\ Known
    BY DEF Init, Ordered, Known
  <1>2. Mirror /\ CycleInv /\ NoOrphans
    BY DEF Init, Mirror, CycleInv, NoOrphans
  <1> QED
    BY <1>1, <1>2, InitType DEF Base

LEMMA OrderedStep ==
    ASSUME TypeOK, Ordered, [Next]_vars
    PROVE  Ordered'
  <1> USE DEF TypeOK
  <1>1. CASE Publish
    <2>1. createdOn' = [createdOn EXCEPT ![posted + 1] = now] /\ posted' = posted + 1 /\ now' = now
      BY <1>1 DEF Publish
    <2>2. posted \in Nat /\ posted + 1 \in Ids /\ now \in Int
      BY <1>1, BoundsAssumption DEF Publish, Ids, Times
    <2>3. createdOn'[posted + 1] = now
      BY <2>1, <2>2
    <2>4. \A i \in 1..posted : createdOn'[i] = createdOn[i] /\ createdOn'[i] <= now
      BY <2>1, <2>2, BoundsAssumption DEF Ordered, Ids
    <2>5. \A i \in 1..posted + 1 : i = posted + 1 \/ i \in 1..posted
      BY <2>2
    <2> QED
      BY <2>1, <2>2, <2>3, <2>4, <2>5 DEF Ordered
  <1>2. CASE NextDay
    <2>1. now' = now + 1 /\ posted' = posted /\ createdOn' = createdOn
      BY <1>2 DEF NextDay
    <2>2. \A i \in 1..posted : createdOn[i] \in Int
      BY BoundsAssumption DEF Ids, Times
    <2> QED
      BY <2>1, <2>2 DEF Ordered, Times
  <1>3. ASSUME UNCHANGED sites
        PROVE  Ordered'
    BY <1>3 DEF Ordered, sites
  <1> QED
    BY <1>1, <1>2, <1>3 DEF Next, vars, Start, SyncProviders, SyncFails, Serve, Stop,
       DeleteOldArticles, DeleteFails, Crawl, Save, SaveFails, UpdateCursor

LEMMA KnownStep ==
    ASSUME TypeOK, Known, [Next]_vars
    PROVE  Known'
  <1> USE DEF TypeOK, Known, sites, conf, db, cycles, purging, started
  <1>1. CASE Publish
    <2>1. posted' = posted + 1 /\ UNCHANGED <<db, cycles>> /\ posted \in Nat
      BY <1>1, BoundsAssumption DEF Publish
    <2>2. \A k \in Keys : cursor[k] \in Int
      OBVIOUS
    <2>3. \A p \in Providers : \A m \in moves[p] : m[2] \in Int
      BY DEF Ids
    <2>4. 1..posted \subseteq 1..posted'
      BY <2>1
    <2>5. stored' \subseteq 1..posted' /\ \A p \in Providers : batch'[p] \subseteq 1..posted'
      BY <2>1, <2>4
    <2>6. \A k \in Keys : cursor'[k] <= posted'
      BY <2>1, <2>2
    <2>7. \A p \in Providers : \A m \in moves'[p] : m[2] <= posted'
      BY <2>1, <2>3
    <2> QED
      BY <2>5, <2>6, <2>7
  <1>2. CASE NextDay
    BY <1>2 DEF NextDay
  <1>3. CASE Start
    BY <1>3 DEF Start
  <1>4. CASE SyncProviders
    <2>1. \A k \in Keys : cursor'[k] \in {0, cursor[k]}
      BY <1>4 DEF SyncProviders
    <2>2. \A k \in Keys : cursor'[k] <= posted
      BY <2>1
    <2>3. stored' \subseteq stored /\ UNCHANGED <<sites, cycles>>
      BY <1>4 DEF SyncProviders, KeptArticles
    <2> QED
      BY <2>2, <2>3
  <1>5. ASSUME GoDown, UNCHANGED <<sites, db>>
        PROVE  Known'
    BY <1>5 DEF GoDown, ForgetCycles
  <1>6. CASE SyncFails \/ Stop
    BY <1>5, <1>6 DEF SyncFails, Stop
  <1>7. CASE Serve
    BY <1>5, <1>7 DEF Serve
  <1>8. ASSUME NEW p \in Providers, DeleteOldArticles(p)
        PROVE  Known'
    BY <1>8 DEF DeleteOldArticles, Purged
  <1>9. ASSUME NEW p \in Providers, DeleteFails(p)
        PROVE  Known'
    BY <1>9 DEF DeleteFails
  <1>10. ASSUME NEW p \in Providers, Crawl(p)
         PROVE  Known'
    <2>1. PICK K \in SUBSET KeysOf(p) :
             /\ batch' = [batch EXCEPT ![p] =
                    {i \in UNION {New(k) : k \in K} : home[i] \in confBoards}]
             /\ moves' = [moves EXCEPT ![p] =
                    {m \in K \X Ids : IsMaxOf(m[2], New(m[1]))}]
      BY <1>10 DEF Crawl
    <2>2. UNCHANGED <<sites, db>>
      BY <1>10 DEF Crawl
    <2>3. \A k \in K : New(k) \subseteq 1..posted
      BY DEF New
    <2>4. \A q \in Providers : batch'[q] \subseteq 1..posted
      BY <2>1, <2>3
    <2>5. ASSUME NEW q \in Providers, NEW m \in moves'[q]
          PROVE  m[2] <= posted
      <3>1. CASE q # p
        BY <2>1, <2>5, <3>1
      <3>2. CASE q = p
        <4>1. m \in K \X Ids /\ m[2] \in New(m[1]) /\ m[1] \in K
          BY <2>1, <2>5, <3>2 DEF IsMaxOf
        <4> QED
          BY <4>1, <2>3, BoundsAssumption
      <3> QED
        BY <3>1, <3>2
    <2> QED
      BY <2>2, <2>4, <2>5
  <1>11. ASSUME NEW p \in Providers, Save(p)
         PROVE  Known'
    BY <1>11 DEF Save
  <1>12. ASSUME NEW p \in Providers, SaveFails(p)
         PROVE  Known'
    BY <1>12 DEF SaveFails, EndCycle
  <1>13. ASSUME NEW p \in Providers, NEW m \in Keys \X Ids, UpdateCursor(p, m)
         PROVE  Known'
    BY <1>13 DEF UpdateCursor
  <1>14. CASE UNCHANGED vars
    BY <1>14 DEF vars
  <1> QED
    BY <1>1, <1>2, <1>3, <1>4, <1>6, <1>7, <1>8, <1>9, <1>10, <1>11, <1>12,
       <1>13, <1>14 DEF Next

LEMMA MirrorStep ==
    ASSUME Mirror, [Next]_vars
    PROVE  Mirror'
  <1> USE DEF Mirror, vars, conf, db
  <1>1. CASE Publish \/ NextDay \/ Start \/ SyncProviders
    BY <1>1 DEF Publish, NextDay, Start, SyncProviders
  <1>2. CASE SyncFails \/ Serve \/ Stop
    BY <1>2 DEF SyncFails, Serve, Stop, GoDown
  <1>3. ASSUME NEW p \in Providers,
               \/ DeleteOldArticles(p) \/ DeleteFails(p)
               \/ Crawl(p) \/ Save(p) \/ SaveFails(p)
               \/ \E m \in Keys \X Ids : UpdateCursor(p, m)
        PROVE  Mirror'
    BY <1>3 DEF DeleteOldArticles, DeleteFails, Crawl, Save, SaveFails, UpdateCursor
  <1> QED
    BY <1>1, <1>2, <1>3 DEF Next

LEMMA CycleStep ==
    ASSUME TypeOK, Mirror, CycleInv, [Next]_vars
    PROVE  CycleInv'
  <1> USE DEF TypeOK, CycleInv, sites, conf, db, cycles, purging, started
  <1>1. CASE Publish
    BY <1>1 DEF Publish
  <1>2. CASE NextDay
    BY <1>2 DEF NextDay
  <1>3. CASE Start
    BY <1>3 DEF Start
  <1>4. CASE SyncProviders
    <2>1. \A p \in Providers : at'[p] = "idle" /\ batch'[p] = {} /\ moves'[p] = {}
      BY <1>4 DEF SyncProviders
    <2> QED
      BY <2>1
  <1>5. ASSUME GoDown PROVE CycleInv'
    <2>1. \A p \in Providers : at'[p] = "idle" /\ batch'[p] = {} /\ moves'[p] = {}
      BY <1>5 DEF GoDown, ForgetCycles
    <2> QED
      BY <2>1
  <1>6. CASE SyncFails \/ Stop
    BY <1>5, <1>6 DEF SyncFails, Stop
  <1>7. CASE Serve
    BY <1>5, <1>7 DEF Serve
  <1>8. ASSUME NEW p \in Providers, DeleteOldArticles(p) \/ DeleteFails(p)
        PROVE  CycleInv'
    BY <1>8 DEF DeleteOldArticles, DeleteFails
  <1>9. ASSUME NEW p \in Providers, Crawl(p)
        PROVE  CycleInv'
    <2>1. PICK K \in SUBSET KeysOf(p) :
             /\ batch' = [batch EXCEPT ![p] =
                    {i \in UNION {New(k) : k \in K} : home[i] \in confBoards}]
             /\ moves' = [moves EXCEPT ![p] =
                    {m \in K \X Ids : IsMaxOf(m[2], New(m[1]))}]
      BY <1>9 DEF Crawl
    <2>2. /\ UNCHANGED <<sites, db, pc>>
          /\ pc = "up"
          /\ at' = [at EXCEPT ![p] = "save"]
          /\ p \in providers
          /\ boards = confBoards
      BY <1>9 DEF Crawl, Mirror
    <2>3. \A i \in batch'[p] : home[i] \in boards
      BY <2>1, <2>2
    <2>4. ASSUME NEW m \in moves'[p]
          PROVE  m[1][1] \in providers /\ (m[1][2] = WholeSite \/ m[1] \in boards)
      <3>1. m[1] \in KeysOf(p)
        BY <2>1
      <3> QED
        BY <3>1, <2>2 DEF KeysOf
    <2>5. \A q \in Providers : q # p =>
             at'[q] = at[q] /\ batch'[q] = batch[q] /\ moves'[q] = moves[q]
      BY <2>1, <2>2
    <2>6. at'[p] = "save"
      BY <2>2
    <2> QED
      BY <2>2, <2>3, <2>4, <2>5, <2>6
  <1>10. ASSUME NEW p \in Providers, Save(p)
         PROVE  CycleInv'
    BY <1>10 DEF Save
  <1>11. ASSUME NEW p \in Providers, SaveFails(p)
         PROVE  CycleInv'
    BY <1>11 DEF SaveFails, EndCycle
  <1>12. ASSUME NEW p \in Providers, NEW m \in Keys \X Ids, UpdateCursor(p, m)
         PROVE  CycleInv'
    BY <1>12 DEF UpdateCursor
  <1>13. CASE UNCHANGED vars
    BY <1>13 DEF vars
  <1> QED
    BY <1>1, <1>2, <1>3, <1>4, <1>6, <1>7, <1>8, <1>9, <1>10, <1>11, <1>12,
       <1>13 DEF Next

LEMMA NoOrphansStep ==
    ASSUME TypeOK, CycleInv, NoOrphans, [Next]_vars
    PROVE  NoOrphans'
  <1> USE DEF TypeOK, NoOrphans, sites, conf, db, cycles, purging, started
  <1>1. ASSUME UNCHANGED <<home, db>>
        PROVE  NoOrphans'
    BY <1>1
  <1>2. CASE SyncProviders
    <2>1. \A c \in boards' : c[1] \in providers'
      BY <1>2 DEF SyncProviders
    <2>2. \A i \in stored' : home'[i] \in boards'
      BY <1>2 DEF SyncProviders, KeptArticles
    <2>3. \A k \in Keys : cursor'[k] > 0 => k \in KeptKeys
      BY <1>2 DEF SyncProviders
    <2> QED
      BY <1>2, <2>1, <2>2, <2>3 DEF SyncProviders, KeptKeys
  <1>3. ASSUME NEW p \in Providers, DeleteOldArticles(p)
        PROVE  NoOrphans'
    BY <1>3 DEF DeleteOldArticles, Purged
  <1>4. ASSUME NEW p \in Providers, Save(p)
        PROVE  NoOrphans'
    BY <1>4 DEF Save, CycleInv
  <1>5. ASSUME NEW p \in Providers, SaveFails(p)
        PROVE  NoOrphans'
    BY <1>5 DEF SaveFails, CycleInv
  <1>6. ASSUME NEW p \in Providers, NEW m \in Keys \X Ids, UpdateCursor(p, m)
        PROVE  NoOrphans'
    <2>1. \A k \in Keys : cursor'[k] = cursor[k] \/ k = m[1]
      BY <1>6 DEF UpdateCursor
    <2>2. m[1][1] \in providers /\ (m[1][2] = WholeSite \/ m[1] \in boards)
      BY <1>6 DEF UpdateCursor, CycleInv
    <2> QED
      BY <1>6, <2>1, <2>2 DEF UpdateCursor
  <1> QED
    BY <1>1, <1>2, <1>3, <1>4, <1>5, <1>6 DEF Next, vars, Publish, NextDay, Start,
       SyncFails, Serve, Stop, DeleteFails, Crawl

LEMMA BaseStep ==
    ASSUME Base, [Next]_vars
    PROVE  Base'
  BY TypeStep, OrderedStep, KnownStep, MirrorStep, CycleStep, NoOrphansStep
     DEF Base

-----------------------------------------------------------------------------
(* Nothing is lost.                                                        *)

\* Below an article that a walk comes past, and of the same cursor, everything
\* is stored or excused, or the walk comes past it too.
LEMMA NewCovers ==
    ASSUME Base, NothingLost, StoredCovers,
           NEW k \in Keys, NEW j \in New(k), NEW i \in 1..posted,
           i <= j, KeyOf(home[i]) = k, Due(i)
    PROVE  i \in stored \cup excused \cup New(k)
  <1> USE DEF Base, TypeOK
  <1>1. CASE i <= cursor[k]
    BY <1>1 DEF NothingLost
  <1>2. CASE \E j0 \in stored : KeyOf(home[j0]) = k /\ ~(createdOn[j0] <= createdOn[i])
    <2>1. PICK j0 \in stored : KeyOf(home[j0]) = k /\ ~(createdOn[j0] <= createdOn[i])
      BY <1>2
    <2>2. j0 \in 1..posted
      BY DEF Known
    <2>3. ~(j0 <= i)
      BY <2>1, <2>2 DEF Ordered
    <2>4. i <= j0
      BY <2>2, <2>3, BoundsAssumption
    <2> QED
      BY <2>1, <2>2, <2>4 DEF StoredCovers, Under
  <1>3. CASE /\ ~(i <= cursor[k])
             /\ \A j0 \in stored : KeyOf(home[j0]) = k => createdOn[j0] <= createdOn[i]
    <2>1. i > cursor[k]
      BY <1>3
    <2> QED
      BY <1>3, <2>1 DEF New
  <1> QED
    BY <1>1, <1>2, <1>3

\* A step that keeps what was published and what is covered, and only shrinks
\* the work of the cycles, keeps Cover.
LEMMA CoverFrame ==
    ASSUME Base, Cover,
           posted' = posted, home' = home, since' = since, boards' = boards,
           cursor' = cursor,
           stored' \subseteq stored,
           stored \cup excused \subseteq stored' \cup excused',
           \A p \in Providers :
               \/ batch'[p] = batch[p] /\ moves'[p] = moves[p]
               \/ batch'[p] = {} /\ moves'[p] = {}
    PROVE  Cover'
  <1>2. NothingLost'
    BY DEF Cover, NothingLost, KeyOf, Due
  <1>3. StoredCovers'
    BY DEF Cover, StoredCovers, Under, KeyOf, Due
  <1>4. BatchCovers'
    <2> SUFFICES ASSUME NEW p \in Providers, NEW i \in 1..posted, NEW j \in 1..posted,
                        j \in batch'[p], Under(i, j)'
                 PROVE  i \in stored' \cup excused' \cup batch'[p]
      BY DEF BatchCovers
    <2>1. batch'[p] = batch[p]
      OBVIOUS
    <2>2. Under(i, j)
      BY DEF Under, KeyOf, Due
    <2> QED
      BY <2>1, <2>2 DEF Cover, BatchCovers
  <1>5. MovesCover'
    <2> SUFFICES ASSUME NEW p \in Providers, NEW m \in moves'[p], NEW i \in 1..posted,
                        i <= m[2], KeyOf(home[i]) = m[1], Due(i)
                 PROVE  i \in stored' \cup excused' \cup batch'[p]
      BY DEF MovesCover, KeyOf, Due
    <2>1. batch'[p] = batch[p] /\ moves'[p] = moves[p]
      OBVIOUS
    <2> QED
      BY <2>1 DEF Cover, MovesCover
  <1> QED
    BY <1>2, <1>3, <1>4, <1>5 DEF Cover

LEMMA CoverPublish ==
    ASSUME Base, Cover, Publish
    PROVE  Cover'
  <1>1. /\ posted' = posted + 1 /\ posted \in Nat
        /\ UNCHANGED <<home, since, boards, cursor, stored, excused, batch, moves>>
    BY BoundsAssumption DEF Publish, db, cycles, Base, TypeOK
  <1>2. posted + 1 \in Ids
    BY BoundsAssumption DEF Publish, Ids, Base, TypeOK
  <1>3. \A i \in 1..posted' : i \in 1..posted \/ i = posted + 1
    BY <1>1
  <1>4. cursor[KeyOf(home[posted + 1])] \in Int /\ cursor[KeyOf(home[posted + 1])] <= posted
    BY <1>2, KeyOfType DEF Base, TypeOK, Known
  <1>5. NothingLost'
    BY <1>1, <1>3, <1>4 DEF Cover, NothingLost, KeyOf, Due
  <1>6. \A j \in stored : j <= posted
    BY <1>1 DEF Base, Known
  <1>7. \A p \in Providers : \A j \in batch[p] : j <= posted
    BY <1>1 DEF Base, Known
  <1>8. \A p \in Providers : \A m \in moves[p] : m[2] <= posted /\ m[2] \in Int
    BY DEF Base, TypeOK, Known, Ids
  <1>9. StoredCovers'
    BY <1>1, <1>3, <1>6 DEF Cover, StoredCovers, Under, KeyOf, Due
  <1>10. BatchCovers'
    BY <1>1, <1>3, <1>7 DEF Cover, BatchCovers, Under, KeyOf, Due
  <1>11. MovesCover'
    BY <1>1, <1>3, <1>8 DEF Cover, MovesCover, KeyOf, Due
  <1> QED
    BY <1>5, <1>9, <1>10, <1>11 DEF Cover

\* A board that is covered after SyncProviders was covered before, or it had
\* neither a cursor row nor an article.
LEMMA CoverSync ==
    ASSUME Base, Cover, CycleInv', SyncProviders
    PROVE  Cover'
  <1> USE DEF Base, TypeOK
  <1>1. /\ posted' = posted /\ home' = home /\ pc = "sync"
        /\ boards' = confBoards /\ providers' = confProviders
        /\ stored' = KeptArticles
        /\ UNCHANGED cycles
    BY DEF SyncProviders, sites
  <1>2. \A p \in Providers : batch'[p] = {} /\ moves'[p] = {}
    BY <1>1 DEF CycleInv, cycles
  <1>3. \A i \in 1..posted : home[i] \in Places /\ KeyOf(home[i]) \in Keys
    BY KeyOfType, BoundsAssumption DEF Ids
  <1>4. \A k \in Keys : cursor[k] \in 0..MaxId /\ cursor'[k] \in {0, cursor[k]}
    BY DEF SyncProviders
  <1>5. ASSUME NEW i \in 1..posted, Due(i)', ~Due(i)
        PROVE  /\ ~(i <= cursor'[KeyOf(home[i])])
               /\ \A j \in stored' : KeyOf(home[j]) = KeyOf(home[i]) => ~(i <= j)
    <2> DEFINE c == home[i]
    <2>1. /\ c \in Places
          /\ KeyOf(c) \in Keys
          /\ KeyOf(c)[1] = c[1]
          /\ c[1] \in OneCursor => KeyOf(c) = <<c[1], WholeSite>>
          /\ c[1] \notin OneCursor => KeyOf(c) = c
      BY <1>3, KeyOfType
    <2>2. /\ c \in confBoards /\ i > since'[c]
          /\ since'[c] \in 0..MaxId /\ Joined(c, since'[c])
      BY <1>1, <1>5, <2>1 DEF Due, SyncProviders
    <2>3. c \notin boards
      BY <1>5, <2>2 DEF Due, Joined
    <2>4. \A j \in stored : home[j] \in Places /\ home[j] \in boards /\ home[j][1] \in providers
      BY DEF NoOrphans
    <2>5. stored' \subseteq stored /\ stored \subseteq Ids
      BY <1>1 DEF KeptArticles
    <2>6. CASE c[1] \in OneCursor \cap providers
      <3>1. IsMaxOf(since'[c], Reached(c[1]))
        BY <2>2, <2>3, <2>6 DEF Joined
      <3>2. cursor[KeyOf(c)] <= since'[c]
        BY <2>1, <2>6, <3>1 DEF IsMaxOf, Reached
      <3>3. ASSUME NEW j \in stored', KeyOf(home[j]) = KeyOf(c) PROVE j <= since'[c]
        <4>1. j \in KeptArticles /\ home[j][1] = c[1]
          BY <1>1, <2>1, <2>4, <2>5, <3>3, SharedKey
        <4> QED
          BY <3>1, <4>1 DEF IsMaxOf, Reached
      <3>4. \A n \in 0..MaxId : n <= since'[c] => ~(i <= n)
        BY <2>2
      <3>5. cursor'[KeyOf(c)] \in 0..MaxId /\ cursor'[KeyOf(c)] <= since'[c]
        <4>1. cursor'[KeyOf(c)] = 0 \/ cursor'[KeyOf(c)] = cursor[KeyOf(c)]
          BY <1>4, <2>1
        <4> QED
          BY <1>4, <2>1, <2>2, <3>2, <4>1, BoundsAssumption
      <3>6. \A j \in stored' : j \in 0..MaxId
        BY <2>5 DEF Ids
      <3> QED
        BY <3>3, <3>4, <3>5, <3>6
    <2>7. CASE c[1] \notin OneCursor \cap providers
      <3>1. ~(cursor[KeyOf(c)] > 0)
        BY <2>1, <2>3, <2>7, NamesAssumption DEF NoOrphans, Places
      <3>2. cursor'[KeyOf(c)] = 0
        BY <1>4, <2>1, <3>1
      <3>3. \A j \in stored : KeyOf(home[j]) # KeyOf(c)
        BY <2>1, <2>3, <2>4, <2>7, SharedKey
      <3> QED
        BY <2>5, <3>2, <3>3
    <2> QED
      BY <2>6, <2>7
  <1>7. ASSUME NEW i \in 1..posted, Due(i)', Due(i), i \in stored \cup excused
        PROVE  i \in stored' \cup excused'
    <2>1. home[i] \in confBoards \cap boards
      BY <1>1, <1>7 DEF Due
    <2> QED
      BY <1>7, <2>1, <1>1 DEF SyncProviders, KeptArticles
  <1>8. NothingLost'
    <2> SUFFICES ASSUME NEW i \in 1..posted, Due(i)', i <= cursor'[KeyOf(home[i])]
                 PROVE  i \in stored' \cup excused'
      BY <1>1 DEF NothingLost, KeyOf, Due
    <2>1. cursor[KeyOf(home[i])] \in 0..MaxId /\ cursor'[KeyOf(home[i])] \in {0, cursor[KeyOf(home[i])]}
      BY <1>3, <1>4
    <2>2. i <= cursor[KeyOf(home[i])]
      BY <2>1
    <2>3. Due(i)
      BY <1>5
    <2> QED
      BY <1>7, <2>2, <2>3 DEF Cover, NothingLost
  <1>9. StoredCovers'
    <2> SUFFICES ASSUME NEW i \in 1..posted, NEW j \in 1..posted, j \in stored',
                        i <= j, KeyOf(home[i]) = KeyOf(home[j]), Due(i)'
                 PROVE  i \in stored' \cup excused'
      BY <1>1 DEF StoredCovers, Under, KeyOf, Due
    <2>1. j \in stored
      BY <1>1 DEF KeptArticles
    <2>2. Due(i)
      BY <1>5
    <2> QED
      BY <1>7, <2>1, <2>2 DEF Cover, StoredCovers, Under
  <1>10. BatchCovers'
    BY <1>2 DEF BatchCovers
  <1>11. MovesCover'
    BY <1>2 DEF MovesCover
  <1> QED
    BY <1>8, <1>9, <1>10, <1>11 DEF Cover

LEMMA CoverCrawl ==
    ASSUME Base, Cover, NEW p \in Providers, Crawl(p)
    PROVE  Cover'
  <1> USE DEF Base, TypeOK
  <1>1. PICK K \in SUBSET KeysOf(p) :
           /\ batch' = [batch EXCEPT ![p] =
                  {i \in UNION {New(k) : k \in K} : home[i] \in confBoards}]
           /\ moves' = [moves EXCEPT ![p] =
                  {m \in K \X Ids : IsMaxOf(m[2], New(m[1]))}]
    BY DEF Crawl
  <1>2. /\ UNCHANGED <<posted, home, createdOn, since, boards, stored, cursor, excused>>
        /\ boards = confBoards
    BY DEF Crawl, sites, db, Mirror
  <1>3. K \subseteq Keys
    BY DEF KeysOf, Keys, Places
  <1>4. NothingLost' /\ StoredCovers'
    BY <1>2 DEF Cover, NothingLost, StoredCovers, Under, KeyOf, Due
  <1>5. \A q \in Providers : q # p => batch'[q] = batch[q] /\ moves'[q] = moves[q]
    BY <1>1
  <1>6. \A k \in K : \A i \in New(k) : Due(i) => i \in batch'[p]
    BY <1>1, <1>2 DEF Due
  <1>7. BatchCovers'
    <2> SUFFICES ASSUME NEW q \in Providers, NEW i \in 1..posted, NEW j \in 1..posted,
                        j \in batch'[q], Under(i, j)
                 PROVE  i \in stored \cup excused \cup batch'[q]
      BY <1>2 DEF BatchCovers, Under, KeyOf, Due
    <2>1. CASE q # p
      BY <1>5, <2>1 DEF Cover, BatchCovers
    <2>2. CASE q = p
      <3>1. PICK k \in K : j \in New(k)
        BY <1>1, <2>2
      <3>2. KeyOf(home[i]) = k /\ i <= j /\ Due(i)
        BY <3>1 DEF New, Under
      <3>3. i \in stored \cup excused \cup New(k)
        BY <1>3, <3>1, <3>2, NewCovers DEF Cover
      <3> QED
        BY <1>6, <2>2, <3>2, <3>3
    <2> QED
      BY <2>1, <2>2
  <1>8. MovesCover'
    <2> SUFFICES ASSUME NEW q \in Providers, NEW m \in moves'[q], NEW i \in 1..posted,
                        i <= m[2], KeyOf(home[i]) = m[1], Due(i)
                 PROVE  i \in stored \cup excused \cup batch'[q]
      BY <1>2 DEF MovesCover, KeyOf, Due
    <2>1. CASE q # p
      BY <1>5, <2>1 DEF Cover, MovesCover
    <2>2. CASE q = p
      <3>1. m[1] \in K /\ m[2] \in New(m[1])
        BY <1>1, <2>2 DEF IsMaxOf
      <3>2. i \in stored \cup excused \cup New(m[1])
        BY <1>3, <3>1, NewCovers DEF Cover
      <3> QED
        BY <1>6, <2>2, <3>1, <3>2
    <2> QED
      BY <2>1, <2>2
  <1> QED
    BY <1>4, <1>7, <1>8 DEF Cover

\* SaveArticles: the batch moves into what is stored, or excused.
LEMMA CoverSave ==
    ASSUME Base, Cover, NEW p \in Providers,
           Save(p) \/ SaveFails(p)
    PROVE  Cover'
  <1> USE DEF Base, TypeOK
  <1>1. UNCHANGED <<posted, home, since, boards, cursor>>
    BY DEF Save, SaveFails, sites
  <1>2. /\ stored \subseteq stored' /\ excused \subseteq excused'
        /\ stored' \subseteq stored \cup batch[p]
        /\ \/ batch[p] \subseteq stored' \cup excused'
           \/ stored' = stored /\ excused' = excused /\ moves'[p] = {}
    BY DEF Save, SaveFails, EndCycle
  <1>3. /\ batch'[p] = {}
        /\ moves'[p] \subseteq moves[p]
        /\ \A q \in Providers : q # p => batch'[q] = batch[q] /\ moves'[q] = moves[q]
    BY DEF Save, SaveFails, EndCycle
  <1>4. NothingLost'
    BY <1>1, <1>2 DEF Cover, NothingLost, KeyOf, Due
  <1>5. StoredCovers'
    <2> SUFFICES ASSUME NEW i \in 1..posted, NEW j \in 1..posted, j \in stored', Under(i, j)
                 PROVE  i \in stored' \cup excused'
      BY <1>1 DEF StoredCovers, Under, KeyOf, Due
    <2>1. CASE j \in stored
      BY <1>2, <2>1 DEF Cover, StoredCovers
    <2>2. CASE j \notin stored
      <3>1. j \in batch[p]
        BY <1>2, <2>2
      <3>2. i \in stored \cup excused \cup batch[p]
        BY <3>1 DEF Cover, BatchCovers
      <3> QED
        BY <1>2, <2>2, <3>2
    <2> QED
      BY <2>1, <2>2
  <1>6. BatchCovers'
    <2> SUFFICES ASSUME NEW q \in Providers, NEW i \in 1..posted, NEW j \in 1..posted,
                        j \in batch'[q], Under(i, j)
                 PROVE  i \in stored' \cup excused' \cup batch'[q]
      BY <1>1 DEF BatchCovers, Under, KeyOf, Due
    <2>1. q # p /\ batch'[q] = batch[q]
      BY <1>3
    <2> QED
      BY <1>2, <2>1 DEF Cover, BatchCovers
  <1>7. MovesCover'
    <2> SUFFICES ASSUME NEW q \in Providers, NEW m \in moves'[q], NEW i \in 1..posted,
                        i <= m[2], KeyOf(home[i]) = m[1], Due(i)
                 PROVE  i \in stored' \cup excused' \cup batch'[q]
      BY <1>1 DEF MovesCover, KeyOf, Due
    <2>1. m \in moves[q]
      BY <1>3
    <2>2. i \in stored \cup excused \cup batch[q]
      BY <2>1 DEF Cover, MovesCover
    <2> QED
      BY <1>2, <1>3, <2>2
  <1> QED
    BY <1>4, <1>5, <1>6, <1>7 DEF Cover

LEMMA CoverUpdate ==
    ASSUME Base, Cover, NEW p \in Providers, NEW w \in Keys \X Ids, UpdateCursor(p, w)
    PROVE  Cover'
  <1> USE DEF Base, TypeOK
  <1>1. UNCHANGED <<posted, home, since, boards, stored, excused, batch>>
    BY DEF UpdateCursor, sites
  <1>2. \A q \in Providers : moves'[q] \subseteq moves[q]
    BY DEF UpdateCursor
  <1>3. batch[p] = {} /\ w \in moves[p]
    BY DEF UpdateCursor, CycleInv
  <1>4. \A k \in Keys : cursor'[k] = cursor[k] \/ (k = w[1] /\ cursor'[k] = w[2])
    BY DEF UpdateCursor
  <1>5. NothingLost'
    <2> SUFFICES ASSUME NEW i \in 1..posted, Due(i),
                        i <= cursor'[KeyOf(home[i])]
                 PROVE  i \in stored \cup excused
      BY <1>1 DEF NothingLost, KeyOf, Due
    <2>1. home[i] \in Places /\ KeyOf(home[i]) \in Keys
      BY KeyOfType, BoundsAssumption DEF Ids
    <2>2. CASE cursor'[KeyOf(home[i])] = cursor[KeyOf(home[i])]
      BY <2>2 DEF Cover, NothingLost
    <2>3. CASE KeyOf(home[i]) = w[1] /\ cursor'[KeyOf(home[i])] = w[2]
      BY <1>3, <2>3 DEF Cover, MovesCover
    <2> QED
      BY <1>4, <2>1, <2>2, <2>3
  <1>6. StoredCovers' /\ BatchCovers'
    BY <1>1 DEF Cover, StoredCovers, BatchCovers, Under, KeyOf, Due
  <1>7. MovesCover'
    BY <1>1, <1>2 DEF Cover, MovesCover, KeyOf, Due
  <1> QED
    BY <1>5, <1>6, <1>7 DEF Cover

LEMMA CoverStep ==
    ASSUME Base, Cover, [Next]_vars
    PROVE  Cover'
  <1> USE DEF sites, conf, db, cycles, purging, started
  <1>1. CASE Publish
    BY <1>1, CoverPublish
  <1>2. CASE NextDay
    BY <1>2, CoverFrame DEF NextDay
  <1>3. CASE Start
    BY <1>3, CoverFrame DEF Start
  <1>4. CASE SyncProviders
    <2>1. CycleInv'
      BY CycleStep DEF Base
    <2> QED
      BY <1>4, <2>1, CoverSync
  <1>5. ASSUME GoDown, UNCHANGED <<sites, db, since, excused>>
        PROVE  Cover'
    <2>1. \A p \in Providers : batch'[p] = {} /\ moves'[p] = {}
      BY <1>5 DEF GoDown, ForgetCycles
    <2> QED
      BY <1>5, <2>1, CoverFrame
  <1>6. CASE SyncFails \/ Stop
    BY <1>5, <1>6 DEF SyncFails, Stop
  <1>7. CASE Serve
    BY <1>5, <1>7, CoverFrame DEF Serve
  <1>8. ASSUME NEW p \in Providers, DeleteOldArticles(p)
        PROVE  Cover'
    <2>1. stored' \subseteq stored /\ stored \cup excused \subseteq stored' \cup excused'
      BY <1>8 DEF DeleteOldArticles
    <2> QED
      BY <1>8, <2>1, CoverFrame DEF DeleteOldArticles
  <1>9. ASSUME NEW p \in Providers, DeleteFails(p)
        PROVE  Cover'
    BY <1>9, CoverFrame DEF DeleteFails
  <1>10. ASSUME NEW p \in Providers, Crawl(p) \/ Save(p) \/ SaveFails(p)
         PROVE  Cover'
    BY <1>10, CoverCrawl, CoverSave
  <1>11. ASSUME NEW p \in Providers, NEW m \in Keys \X Ids, UpdateCursor(p, m)
         PROVE  Cover'
    BY <1>11, CoverUpdate
  <1>12. CASE UNCHANGED vars
    BY <1>12, CoverFrame DEF vars
  <1> QED
    BY <1>1, <1>2, <1>3, <1>4, <1>6, <1>7, <1>8, <1>9, <1>10, <1>11, <1>12 DEF Next

-----------------------------------------------------------------------------
(* Retention.                                                              *)

\* What is in its retention at one time was so at every time before.
LEMMA ExpiredLater ==
    ASSUME TypeOK, NEW i \in Ids, NEW s \in Times, NEW t \in Times, s <= t,
           Expired(i, s)
    PROVE  Expired(i, t)
  <1>1. ArchiveDays[home[i][1]] \in Nat /\ createdOn[i] \in Int
    BY BoundsAssumption DEF TypeOK, Places, Times
  <1> QED
    BY <1>1 DEF Expired, Times

LEMMA PurgeStep ==
    ASSUME Base, PurgeInv, [Next]_vars
    PROVE  PurgeInv'
  <1> USE DEF Base, TypeOK, sites, conf, db, cycles, purging, started
  <1>1. CASE Publish
    <2>1. \A i \in stored : createdOn'[i] = createdOn[i]
      BY <1>1, BoundsAssumption DEF Publish, Known, Ids
    <2> QED
      BY <1>1, <2>1 DEF Publish, PurgeInv, Expired
  <1>2. CASE NextDay
    BY <1>2 DEF NextDay, PurgeInv, Expired, Times
  <1>3. CASE Start
    BY <1>3 DEF Start, PurgeInv, Times
  <1>4. CASE SyncProviders
    <2>1. \A i \in stored' : home[i] \in confBoards /\ home[i][1] \in confProviders
      BY <1>4 DEF SyncProviders, KeptArticles
    <2> QED
      BY <1>4, <2>1 DEF SyncProviders, PurgeInv
  <1>5. ASSUME GoDown, UNCHANGED now
        PROVE  PurgeInv'
    BY <1>5 DEF GoDown, PurgeInv, Times
  <1>6. CASE SyncFails \/ Stop
    BY <1>5, <1>6 DEF SyncFails, Stop
  <1>7. CASE Serve
    <2>1. CASE purgeFailed
      BY <1>5, <1>7, <2>1 DEF Serve
    <2>2. CASE ~purgeFailed
      BY <1>7, <2>2 DEF Serve, PurgeInv, Times
    <2> QED
      BY <2>1, <2>2
  <1>8. ASSUME NEW p \in Providers, DeleteOldArticles(p)
        PROVE  PurgeInv'
    <2>1. UNCHANGED <<now, startedOn, home, createdOn, pc, purgeFailed>>
      BY <1>8 DEF DeleteOldArticles
    <2>2. ASSUME pc = "purge", ~purgeFailed, NEW i \in stored'
          PROVE  home[i][1] \in toPurge' \/ ~Expired(i, startedOn)
      <3>1. i \in stored /\ ~(home[i][1] = p /\ Expired(i, now))
        BY <1>8, <2>2 DEF DeleteOldArticles, Purged
      <3>2. CASE home[i][1] = p
        BY <3>1, <3>2, ExpiredLater DEF PurgeInv
      <3>3. CASE home[i][1] # p
        BY <1>8, <2>2, <3>1, <3>3 DEF DeleteOldArticles, PurgeInv
      <3> QED
        BY <3>2, <3>3
    <2> QED
      BY <2>1, <2>2 DEF PurgeInv, Expired
  <1>9. ASSUME NEW p \in Providers, DeleteFails(p)
        PROVE  PurgeInv'
    BY <1>9 DEF DeleteFails, PurgeInv
  <1>10. ASSUME NEW p \in Providers, Crawl(p)
         PROVE  PurgeInv'
    BY <1>10 DEF Crawl, PurgeInv
  <1>11. ASSUME NEW p \in Providers,
                \/ Save(p) \/ SaveFails(p)
                \/ \E m \in Keys \X Ids : UpdateCursor(p, m)
         PROVE  PurgeInv'
    <2>1. UNCHANGED <<now, startedOn, pc>> /\ pc = "up"
      BY <1>11 DEF Save, SaveFails, UpdateCursor, CycleInv
    <2> QED
      BY <2>1 DEF PurgeInv
  <1>12. CASE UNCHANGED vars
    BY <1>12 DEF vars, PurgeInv, Expired
  <1> QED
    BY <1>1, <1>2, <1>3, <1>4, <1>6, <1>7, <1>8, <1>9, <1>10, <1>11, <1>12 DEF Next

-----------------------------------------------------------------------------
(* The theorems.                                                           *)

LEMMA Inductive == Spec => []IInv
  <1>1. Init => IInv
    <2> SUFFICES ASSUME Init PROVE IInv
      OBVIOUS
    <2>1. Base
      BY InitBase
    <2>2. Cover
      BY DEF Init, Cover, NothingLost, StoredCovers, BatchCovers, MovesCover
    <2>3. PurgeInv
      BY DEF Init, PurgeInv
    <2> QED
      BY <2>1, <2>2, <2>3 DEF IInv
  <1>2. IInv /\ [Next]_vars => IInv'
    BY BaseStep, CoverStep, PurgeStep DEF IInv
  <1> QED
    BY <1>1, <1>2, PTL DEF Spec

\* Types, no orphaned row, and no article lost below a cursor, whatever the
\* configurations of the starts and wherever the process fails or dies.
THEOREM StoreInvariant == Spec => [](TypeOK /\ NoOrphans /\ NothingLost)
  <1>1. IInv => TypeOK /\ NoOrphans /\ NothingLost
    BY DEF IInv, Base, Cover
  <1> QED
    BY Inductive, <1>1, PTL

\* The tables, the configuration, the cursors and the cycles under way have their
\* types however often the process is started and stopped.
THEOREM StoreTypes == Spec => []TypeOK
  BY StoreInvariant, PTL

\* Whatever configuration a start loads, no board or article is left without the
\* row it refers to.
THEOREM NoOrphansHolds == Spec => []NoOrphans
  BY StoreInvariant, PTL

\* Articles leave the database only past their retention or with their board.
THEOREM OnlyStaleIsDeletedHolds == Spec => OnlyStaleIsDeleted
  <1> DEFINE Stale ==
        \A i \in stored \ stored' : Expired(i, now) \/ home[i] \notin confBoards
  <1>1. [Next]_vars => [Stale]_vars
    <2> SUFFICES ASSUME Next PROVE Stale
      OBVIOUS
    <2>1. CASE UNCHANGED stored
      BY <2>1
    <2>2. CASE SyncProviders
      BY <2>2 DEF SyncProviders, KeptArticles
    <2>3. ASSUME NEW p \in Providers,
                 DeleteOldArticles(p) \/ Save(p) \/ SaveFails(p)
          PROVE  Stale
      BY <2>3 DEF DeleteOldArticles, Purged, Save, SaveFails
    <2> QED
      BY <2>1, <2>2, <2>3 DEF Next, Publish, NextDay, Start, SyncFails, Serve, Stop,
         DeleteFails, Crawl, UpdateCursor, db
  <1> QED
    BY <1>1, PTL DEF Spec, OnlyStaleIsDeleted

\* The services never start on articles that were expired at the start.
THEOREM ServesPurgedHolds == Spec => ServesPurged
  <1> DEFINE Clean ==
        (pc = "purge" /\ pc' = "up") => \A i \in stored : ~Expired(i, startedOn)
  <1>1. IInv /\ [Next]_vars => [Clean]_vars
    <2> SUFFICES ASSUME IInv, Next, pc = "purge", pc' = "up"
                 PROVE  \A i \in stored : ~Expired(i, startedOn)
      OBVIOUS
    <2>1. Serve
      BY DEF Next, Publish, NextDay, Start, SyncProviders, SyncFails, Stop, GoDown,
         DeleteOldArticles, DeleteFails, Crawl, Save, SaveFails, UpdateCursor
    <2>2. toPurge = {} /\ ~purgeFailed
      BY <2>1 DEF Serve, GoDown
    <2> QED
      BY <2>2 DEF IInv, PurgeInv
  <1> QED
    BY Inductive, <1>1, PTL DEF Spec, ServesPurged

-----------------------------------------------------------------------------
(* The refinement of CursorFeed.                                           *)

\* A cycle has one new cursor for a row at most, of its own provider and above
\* the one it read.
MovesAhead ==
    \A p \in Providers : \A m \in moves[p] :
        /\ m[1][1] = p
        /\ m[2] > cursor[m[1]]
        /\ \A n \in moves[p] : n[1] = m[1] => n = m

LEMMA MovesAheadStep ==
    ASSUME Base, MovesAhead, [Next]_vars
    PROVE  MovesAhead'
  <1> USE DEF Base, TypeOK, sites, conf, db, cycles, purging, started
  <1>1. ASSUME UNCHANGED cursor,
               \A p \in Providers : moves'[p] = moves[p] \/ moves'[p] = {}
        PROVE  MovesAhead'
    BY <1>1 DEF MovesAhead
  <1>2. CASE UNCHANGED vars \/ Publish \/ NextDay \/ Start
    BY <1>1, <1>2 DEF vars, Publish, NextDay, Start
  <1>3. CASE SyncFails \/ Serve \/ Stop
    BY <1>1, <1>3 DEF SyncFails, Serve, Stop, GoDown, ForgetCycles
  <1>4. CASE SyncProviders
    BY <1>4 DEF SyncProviders, CycleInv, MovesAhead
  <1>5. ASSUME NEW p \in Providers,
               DeleteOldArticles(p) \/ DeleteFails(p) \/ Save(p) \/ SaveFails(p)
        PROVE  MovesAhead'
    BY <1>1, <1>5 DEF DeleteOldArticles, DeleteFails, Save, SaveFails, EndCycle
  <1>6. ASSUME NEW p \in Providers, Crawl(p)
        PROVE  MovesAhead'
    <2>1. PICK K \in SUBSET KeysOf(p) :
              moves' = [moves EXCEPT ![p] = {m \in K \X Ids : IsMaxOf(m[2], New(m[1]))}]
      BY <1>6 DEF Crawl
    <2>2. ASSUME NEW m \in moves'[p]
          PROVE  /\ m[1][1] = p /\ m[2] > cursor[m[1]]
                 /\ \A n \in moves'[p] : n[1] = m[1] => n = m
      <3>1. m \in K \X Ids /\ IsMaxOf(m[2], New(m[1]))
        BY <2>1, <2>2
      <3>2. m[1] \in KeysOf(p) /\ m[2] \in New(m[1])
        BY <2>1, <3>1 DEF IsMaxOf
      <3>3. m[1][1] = p /\ m[2] > cursor[m[1]]
        BY <3>2 DEF KeysOf, New
      <3>4. ASSUME NEW n \in moves'[p], n[1] = m[1]
            PROVE  n = m
        <4>1. n \in K \X Ids /\ IsMaxOf(n[2], New(m[1]))
          BY <2>1, <3>4
        <4>2. n[2] <= m[2] /\ m[2] <= n[2] /\ n[2] \in Int /\ m[2] \in Int
          BY <3>1, <4>1 DEF IsMaxOf, Ids
        <4> QED
          BY <3>1, <3>4, <4>1, <4>2
      <3> QED
        BY <3>3, <3>4
    <2>3. cursor' = cursor /\ \A q \in Providers : q # p => moves'[q] = moves[q]
      BY <1>6, <2>1 DEF Crawl
    <2> QED
      BY <2>2, <2>3 DEF MovesAhead
  <1>7. ASSUME NEW p \in Providers, NEW w \in Keys \X Ids, UpdateCursor(p, w)
        PROVE  MovesAhead'
    <2>1. /\ w \in moves[p] /\ w[1] \in Keys
          /\ cursor' = [cursor EXCEPT ![w[1]] = w[2]] \/ cursor' = cursor
          /\ moves' = [moves EXCEPT ![p] = @ \ {w}]
      BY <1>7 DEF UpdateCursor
    <2>2. ASSUME NEW q \in Providers, NEW m \in moves'[q]
          PROVE  m \in moves[q] /\ cursor'[m[1]] = cursor[m[1]]
      <3>1. m \in moves[q] /\ m[1] \in Keys /\ (q = p => m # w)
        BY <2>1, <2>2
      <3>2. m[1] # w[1]
        BY <2>1, <3>1 DEF MovesAhead
      <3> QED
        BY <2>1, <3>1, <3>2
    <2> QED
      BY <2>2 DEF MovesAhead
  <1> QED
    BY <1>2, <1>3, <1>4, <1>5, <1>6, <1>7 DEF Next

LEMMA SettledType ==
    ASSUME TypeOK'
    PROVE  Settled' \in [Keys -> SUBSET Ids]
  BY BoundsAssumption DEF TypeOK, Settled, Ids

\* What covers an article on its board goes on doing so.
LEMMA SettleStep ==
    ASSUME Base, Base', UNCHANGED <<home, boards, since, cursor>>,
           posted <= posted', stored \cup excused \subseteq stored' \cup excused'
    PROVE  Feed!Settle
  <1>1. Settled' \in [Keys -> SUBSET Ids]
    BY SettledType DEF Base
  <1>2. ASSUME NEW k \in Keys, NEW i \in Settled[k]
        PROVE  i \in Settled'[k]
    <2>1. posted \in Nat /\ posted' \in Nat
      BY BoundsAssumption DEF Base, TypeOK
    <2>2. i \in 1..posted' /\ i \in 1..posted
      BY <1>2, <2>1 DEF Settled
    <2>3. (KeyOf(home'[i]) = k /\ i > since'[home'[i]] /\ home'[i] \in boards')
              => i \in stored' \cup excused'
      BY <1>2, <2>2 DEF Settled, Due
    <2> QED
      BY <2>2, <2>3 DEF Settled, KeyOf, Due
  <1> QED
    BY <1>1, <1>2 DEF Feed!Settle

LEMMA AdvanceStep ==
    ASSUME IInv, MovesAhead, NEW p \in Providers, NEW w \in Keys \X Ids,
           UpdateCursor(p, w), cursor' # cursor
    PROVE  Feed!Advance(w[1])
  <1> USE DEF IInv, Base, TypeOK
  <1>1. /\ w \in moves[p] /\ w[1] \in Keys /\ w[2] \in Ids
        /\ cursor' = [cursor EXCEPT ![w[1]] = w[2]]
    BY DEF UpdateCursor
  <1>2. w[2] > cursor[w[1]]
    BY <1>1 DEF MovesAhead
  <1>3. Settled' = Settled
    BY DEF UpdateCursor, sites, Settled, KeyOf, Due
  <1>4. 1..w[2] \subseteq Settled[w[1]]
    <2>1. SUFFICES ASSUME NEW i \in 1..w[2]
                   PROVE  i \in Settled[w[1]]
      OBVIOUS
    <2>2. i \in 1..posted
      <3>1. w[2] <= posted /\ posted \in Int /\ w[2] \in Int
        BY <1>1, BoundsAssumption DEF Known, Ids
      <3> QED
        BY <3>1
    <2>3. batch[p] = {}
      BY DEF UpdateCursor, CycleInv
    <2>4. (KeyOf(home[i]) = w[1] /\ Due(i)) => i \in stored \cup excused
      BY <1>1, <2>2, <2>3 DEF Cover, MovesCover, Ids
    <2> QED
      BY <1>1, <2>2, <2>4 DEF Settled
  <1> QED
    BY <1>1, <1>2, <1>3, <1>4 DEF Feed!Advance

\* Whatever a board that joins is asked for lies above its cursor.
LEMMA ReconfigureStep ==
    ASSUME IInv, IInv', SyncProviders
    PROVE  Feed!Reconfigure
  <1>1. Settled' \in [Keys -> SUBSET Ids]
    BY SettledType DEF IInv, Base
  <1>2. cursor' \in [Keys -> Ids \cup {0}]
    BY BoundsAssumption DEF IInv, Base, TypeOK, Ids
  <1>3. ASSUME NEW k \in Keys PROVE cursor'[k] \in {0, cursor[k]}
    BY DEF SyncProviders
  <1>4. ASSUME NEW k \in Keys, NEW i \in 1..cursor'[k] PROVE i \in Settled'[k]
    <2>1. cursor'[k] <= posted' /\ posted' \in Nat /\ cursor'[k] \in Nat
      BY BoundsAssumption DEF IInv, Base, TypeOK, Known
    <2>2. i \in 1..posted' /\ i <= cursor'[k]
      BY <1>4, <2>1
    <2>3. (KeyOf(home[i]) = k /\ Due(i))' => i \in stored' \cup excused'
      BY <2>2 DEF IInv, Cover, NothingLost
    <2> QED
      BY <2>2, <2>3 DEF Settled
  <1> QED
    BY <1>1, <1>2, <1>3, <1>4 DEF Feed!Reconfigure

\* The tables implement CursorFeed with the rows of the cursors as its feeds, over
\* any number of starts with any configurations, wherever the process fails or dies.
THEOREM StoreImplementsFeed == Spec => FeedSpec
  <1>1. Init => MovesAhead
    BY DEF Init, MovesAhead
  <1>2. IInv /\ MovesAhead /\ [Next]_vars => MovesAhead'
    BY MovesAheadStep DEF IInv
  <1>3. Init => Feed!Init
    <2> SUFFICES ASSUME Init PROVE Feed!Init
      OBVIOUS
    <2>1. Settled = [k \in Keys |-> {}]
      BY DEF Init, Settled
    <2> QED
      BY <2>1 DEF Init, Feed!Init
  <1>4. IInv /\ IInv' /\ MovesAhead /\ [Next]_vars
            => [Feed!Next \/ (pc = "sync" /\ Feed!Reconfigure)]_(Feed!vars)
    <2> SUFFICES ASSUME IInv, IInv', MovesAhead, [Next]_vars
                 PROVE  Feed!Next \/ (pc = "sync" /\ Feed!Reconfigure)
      OBVIOUS
    <2> USE DEF sites, conf, db, cycles, purging, started
    <2>1. CASE SyncProviders
      BY <2>1, ReconfigureStep DEF SyncProviders
    <2>2. ASSUME NEW p \in Providers, NEW w \in Keys \X Ids, UpdateCursor(p, w)
          PROVE  Feed!Next
      <3>1. CASE cursor' = cursor
        <4>1. posted' = posted /\ posted \in Int /\ UNCHANGED <<home, boards, since, stored, excused>>
          BY <2>2 DEF UpdateCursor, IInv, Base, TypeOK
        <4> QED
          BY <3>1, <4>1, SettleStep DEF IInv, Feed!Next
      <3>2. CASE cursor' # cursor
        BY <2>2, <3>2, AdvanceStep DEF Feed!Next
      <3> QED
        BY <3>1, <3>2
    <2>3. CASE \/ UNCHANGED vars
               \/ Publish \/ NextDay \/ Start \/ SyncFails \/ Serve \/ Stop
               \/ \E p \in Providers :
                     \/ DeleteOldArticles(p) \/ DeleteFails(p)
                     \/ Crawl(p) \/ Save(p) \/ SaveFails(p)
      <3>1. posted \in Int /\ posted' \in {posted, posted + 1}
            /\ UNCHANGED <<home, boards, since, cursor>>
        BY <2>3 DEF vars, Publish, NextDay, Start, SyncFails, Serve, Stop, DeleteOldArticles,
           DeleteFails, Crawl, Save, SaveFails, IInv, Base, TypeOK
      <3>2. stored \cup excused \subseteq stored' \cup excused'
        BY <2>3 DEF vars, Publish, NextDay, Start, SyncFails, Serve, Stop, DeleteOldArticles,
           DeleteFails, Crawl, Save, SaveFails
      <3>3. Feed!Settle
        BY <3>1, <3>2, SettleStep DEF IInv
      <3> QED
        BY <3>3 DEF Feed!Next
    <2> QED
      BY <2>1, <2>2, <2>3 DEF Next
  <1> QED
    BY <1>1, <1>2, <1>3, <1>4, Inductive, PTL DEF Spec, FeedSpec
=============================================================================
