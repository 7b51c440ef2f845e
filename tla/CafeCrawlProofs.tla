-------------------------- MODULE CafeCrawlProofs --------------------------
(***************************************************************************)
(* Proofs about CafeCrawl: for any number of articles, any length of a     *)
(* day, any delay, page size and page limit.                               *)
(***************************************************************************)
EXTENDS CafeCrawl, WellFoundedInduction, TLAPS

-----------------------------------------------------------------------------
(* Days and times of day.                                                  *)

LEMMA Division ==
    ASSUME NEW t \in Nat, NEW d \in Nat \ {0}
    PROVE  /\ t \div d \in Nat
           /\ t % d = t - d * (t \div d)
           /\ t % d \in 0..(d - 1)
<1>1. t % d = t - d * (t \div d)
  OBVIOUS
<1>2. t \div d \in Nat
  OBVIOUS
<1>3. t % d \in 0..(d - 1)
  OBVIOUS
<1> QED
  BY <1>1, <1>2, <1>3

LEMMA Quotient ==
    ASSUME NEW t \in Nat, NEW d \in Nat \ {0}, NEW q \in Int,
           d * q <= t, t < d * q + d
    PROVE  t \div d = q
  OBVIOUS

\* The day of a tick begins at its midnight and is DayLength ticks long.
LEMMA DayFacts ==
    ASSUME NEW t \in Nat
    PROVE  /\ Day(t) \in Nat \ {0}
           /\ t % DayLength \in 0..(DayLength - 1)
           /\ Midnight(t) \in Nat /\ Midnight(t) <= t /\ t < Midnight(t) + DayLength
           /\ Midnight(t) = DayLength * (Day(t) - 1)
           /\ Day(Midnight(t)) = Day(t)
           /\ Midnight(t) % DayLength = 0
           /\ Midnight(t) = 0 \/ Midnight(t) >= DayLength
<1> USE ClockAssumption
<1>1. /\ t \div DayLength \in Nat
      /\ t % DayLength = t - DayLength * (t \div DayLength)
      /\ t % DayLength \in 0..(DayLength - 1)
  BY Division
<1>2. PICK q \in Nat : q = t \div DayLength
  BY <1>1
<1>3. Midnight(t) = DayLength * q /\ Day(t) = q + 1
  BY <1>1, <1>2 DEF Midnight, Day
<1>4. DayLength * q \in Nat
  OBVIOUS
<1>5. (DayLength * q) \div DayLength = q
  BY <1>4, Quotient
<1>6. (DayLength * q) % DayLength = 0
  BY <1>4, <1>5, Division
<1>7. DayLength * q = 0 \/ DayLength * q >= DayLength
  OBVIOUS
<1>8. Midnight(t) <= t /\ t < Midnight(t) + DayLength
  BY <1>1 DEF Midnight
<1> QED
  BY <1>1, <1>3, <1>4, <1>5, <1>6, <1>7, <1>8 DEF Day

LEMMA DayOrder ==
    ASSUME NEW s \in Nat, NEW t \in Nat, s <= t
    PROVE  Day(s) <= Day(t)
  BY ClockAssumption DEF Day

\* Two ticks of one day are told apart by their time of day.
LEMMA SameDay ==
    ASSUME NEW s \in Nat, NEW t \in Nat, Day(s) = Day(t)
    PROVE  Midnight(s) = Midnight(t) /\ Midnight(t) + (s % DayLength) = s
<1>1. Midnight(s) = Midnight(t)
  BY DayFacts
<1>2. Midnight(s) + (s % DayLength) = s
  BY DayFacts, ClockAssumption DEF Midnight
<1> QED
  BY <1>1, <1>2

-----------------------------------------------------------------------------
(* Pages.                                                                  *)

\* Page p of a list of n articles begins below the first p - 1 pages.
LEMMA RowsOf ==
    ASSUME NEW p \in Nat \ {0}, NEW n \in Nat, NEW i \in 1..n
    PROVE  i \in Rows(p, n) <=> /\ n - PageSize * p < i
                                /\ i <= n - PageSize * (p - 1)
<1> USE BoundsAssumption
<1>1. PICK x \in Nat : x = n - i
  OBVIOUS
<1>2. PICK q \in Nat : q = x \div PageSize
  BY Division
<1>3. PageSize * q <= x /\ x < PageSize * q + PageSize
  BY <1>2, Division
<1>4. PageSize * p = PageSize * (p - 1) + PageSize
  OBVIOUS
<1>5. q = p - 1 <=> PageSize * (p - 1) <= x /\ x < PageSize * (p - 1) + PageSize
  BY <1>2, <1>3, Quotient
<1>6. PageSize * (p - 1) \in Int /\ PageSize * p \in Int
  OBVIOUS
<1> QED
  BY <1>1, <1>2, <1>4, <1>5, <1>6 DEF Rows

\* A page without a row lies beyond the end of the list.
LEMMA NoRows ==
    ASSUME NEW p \in Nat \ {0}, NEW n \in Nat, Rows(p, n) = {}
    PROVE  n - PageSize * (p - 1) <= 0
<1> USE BoundsAssumption
<1>1. PICK k \in Nat : k = PageSize * (p - 1)
  OBVIOUS
<1>2. PageSize * p = k + PageSize
  BY <1>1
<1>3. SUFFICES ASSUME n - k > 0 PROVE FALSE
  BY <1>1
<1>4. PICK i \in 1..n : i = n - k
  BY <1>3
<1>5. n - PageSize * p < i /\ i <= n - PageSize * (p - 1)
  BY <1>1, <1>2, <1>4
<1>6. i \in Rows(p, n)
  BY <1>5, RowsOf
<1> QED
  BY <1>6

LEMMA RowsInList ==
    ASSUME NEW p, NEW n
    PROVE  Rows(p, n) \subseteq 1..n
  BY DEF Rows

-----------------------------------------------------------------------------
(* The copy of an article that is written last.                            *)

LEMMA SmallestBy ==
    ASSUME NEW R, IsWellFoundedOn(R, Nat),
           \A y \in Nat : \A x \in Nat : y < x => <<y, x>> \in R,
           NEW T, T \subseteq Nat, T # {}
    PROVE  \E x \in T : \A y \in T : x <= y
<1>1. PICK x \in T : \A y \in T : ~(<<y, x>> \in R)
  BY ONLY IsWellFoundedOn(R, Nat), T \subseteq Nat, T # {}, WFMin, Zenon
<1>2. ASSUME NEW y \in T PROVE x <= y
  <2>1. x \in Nat /\ y \in Nat /\ ~(y < x)
    BY <1>1
  <2> QED
    BY <2>1
<1> QED
  BY <1>2

LEMMA Smallest ==
    ASSUME NEW T, T \subseteq Nat, T # {}
    PROVE  \E x \in T : \A y \in T : x <= y
<1>1. IsWellFoundedOn(OpToRel(<, Nat), Nat)
  BY NatLessThanWellFounded
<1>2. \A y \in Nat : \A x \in Nat : y < x => <<y, x>> \in OpToRel(<, Nat)
  BY DEF OpToRel
<1>3. \E R : /\ IsWellFoundedOn(R, Nat)
             /\ \A y \in Nat : \A x \in Nat : y < x => <<y, x>> \in R
  BY <1>1, <1>2, Zenon
<1> QED
  BY <1>3, SmallestBy, Zenon

\* Among the copies of an article one comes from the lowest page number.
LEMMA LastCopy ==
    ASSUME NEW saved, saved \subseteq Entry, NEW i, \E e \in saved : e.id = i
    PROVE  \E e \in saved : e.id = i /\ \A f \in saved : f.id = i => e.page <= f.page
<1> DEFINE T == {e.page : e \in {f \in saved : f.id = i}}
<1>1. T \subseteq Nat /\ T # {}
  BY BoundsAssumption DEF Entry
<1>2. PICK x \in T : \A y \in T : x <= y
  BY <1>1, Smallest
<1> QED
  BY <1>2

\* The stored day of every saved article is the day of one of its copies.
LEMMA Saved ==
    ASSUME TypeOK, NEW saved, saved \subseteq batch, Upsert(saved), NEW i \in Ids
    PROVE  IF \E e \in saved : e.id = i
           THEN \E e \in saved : e.id = i /\ dated'[i] = Day(e.at)
           ELSE dated'[i] = dated[i]
<1>1. saved \subseteq Entry
  BY DEF TypeOK
<1>2. CASE \E e \in saved : e.id = i
  <2> DEFINE P(e) == e.id = i /\ \A f \in saved : f.id = i => e.page <= f.page
             c == CHOOSE e \in saved : P(e)
  <2>1. \E e \in saved : P(e)
    BY <1>1, <1>2, LastCopy
  <2>2. c \in saved /\ P(c)
    BY <2>1
  <2>3. dated'[i] = Day(c.at)
    BY <1>2 DEF Upsert
  <2> QED
    BY <1>2, <2>2, <2>3
<1>3. CASE ~\E e \in saved : e.id = i
  BY <1>3 DEF Upsert
<1> QED
  BY <1>2, <1>3

-----------------------------------------------------------------------------
(* Types.                                                                  *)

\* Articles are posted one after the other, and served after they were posted.
Times ==
    /\ \A i \in Ids : i <= posted => postedAt[i] <= clock
    /\ \A i, j \in Ids : i < j /\ j <= posted => postedAt[i] <= postedAt[j]
    /\ pc = "rows" => \A i \in Ids : i <= shown => postedAt[i] <= servedAt

LEMMA LastTimeIsNat == LastTime \in Nat /\ MaxTime <= LastTime
BY ClockAssumption DEF LastTime

LEMMA NowIsTime ==
    ASSUME TypeOK
    PROVE  /\ Now \in Nat /\ Now <= LastTime /\ Now = clock - Skew
           /\ clock \in Nat /\ clock <= MaxTime /\ clock >= DayLength
  BY ClockAssumption DEF TypeOK, Now, Ticks, LastTime

\* Whatever the clocks show, a row is dated between the start and now.
LEMMA ParseRange ==
    ASSUME TypeOK, Times, pc = "rows", NEW i \in Ids, i <= shown
    PROVE  ParseCreatedAt(i) \in 0..LastTime
<1> USE ClockAssumption
<1>1. PICK at \in Nat : at = postedAt[i] /\ at >= DayLength /\ at <= MaxTime
  BY DEF TypeOK, Ticks
<1>2. at <= clock
  BY <1>1 DEF Times, TypeOK
<1>3. CASE ~ShowsTime(i)
  <2>1. Midnight(at) \in Nat /\ Midnight(at) <= at
    BY DayFacts
  <2>2. ParseCreatedAt(i) = Midnight(at)
    BY <1>1, <1>3 DEF ParseCreatedAt
  <2> QED
    BY <1>1, <2>1, <2>2, LastTimeIsNat
<1>4. CASE ShowsTime(i)
  <2> DEFINE today == Midnight(Now) + (at % DayLength)
  <2>1. /\ Midnight(Now) \in Nat /\ Midnight(Now) <= Now
        /\ Now < Midnight(Now) + DayLength
        /\ Midnight(Now) = 0 \/ Midnight(Now) >= DayLength
        /\ at % DayLength \in 0..(DayLength - 1)
        /\ Now \in Nat /\ Now <= LastTime /\ LastTime \in Nat
    <3>1. Now \in Nat /\ Now <= LastTime /\ LastTime \in Nat
      BY NowIsTime, LastTimeIsNat
    <3>2. at % DayLength \in 0..(DayLength - 1)
      BY DayFacts
    <3> QED
      BY <3>1, <3>2, DayFacts
  <2>2. ParseCreatedAt(i) = IF today > Now THEN today - DayLength ELSE today
    BY <1>1, <1>4 DEF ParseCreatedAt
  <2>3. CASE today <= Now
    BY <2>1, <2>2, <2>3
  <2>4. CASE today > Now
    <3>1. Midnight(Now) >= DayLength
      <4>1. SUFFICES ASSUME Midnight(Now) = 0 PROVE FALSE
        BY <2>1
      <4>2. /\ Midnight(at) \in Nat /\ at < Midnight(at) + DayLength
            /\ Midnight(at) = 0 \/ Midnight(at) >= DayLength
            /\ at % DayLength = at - Midnight(at)
        <5>1. at % DayLength \in 0..(DayLength - 1)
          BY DayFacts
        <5>2. at % DayLength = at - Midnight(at)
          BY <5>1 DEF Midnight
        <5> QED
          BY <5>2, DayFacts
      <4>3. Midnight(at) >= DayLength
        BY <1>1, <4>2
      <4>4. Now = clock - Skew /\ clock \in Nat
        BY NowIsTime
      <4> QED
        BY <1>2, <2>1, <2>4, <4>1, <4>2, <4>3, <4>4
    <3>2. today - DayLength \in 0..LastTime
      BY <2>1, <2>4, <3>1
    <3> QED
      BY <2>2, <2>4, <3>2
  <2> QED
    BY <2>1, <2>3, <2>4
<1> QED
  BY <1>3, <1>4

LEMMA InitTypes == Init => TypeOK /\ Times
<1> SUFFICES ASSUME Init PROVE TypeOK /\ Times
  OBVIOUS
<1> USE ClockAssumption, BoundsAssumption
<1>1. DayLength \in Ticks
  BY DEF Ticks
<1>2. 1 \in Days
  <2>1. Day(LastTime) \in Nat \ {0}
    BY DayFacts, LastTimeIsNat
  <2> QED
    BY <2>1 DEF Days
<1>3. TypeOK
  <2>1. /\ clock \in Ticks /\ posted \in 0..MaxId /\ postedAt \in [Ids -> Ticks]
        /\ stored \in SUBSET Ids /\ dated \in [Ids -> Days] /\ cursor \in 0..MaxId
    BY <1>1, <1>2 DEF Init
  <2>2. /\ cutoff \in (-Delay)..LastTime /\ servedAt \in 0..clock /\ shown \in 0..posted
        /\ page \in 0..MaxPageCount /\ lastDate \in {0} \cup Days
    BY LastTimeIsNat DEF Init
  <2>3. /\ pc \in {"idle", "request", "rows", "contents", "save", "cursor"}
        /\ lastCursor \in 0..MaxId /\ newCursor \in 0..MaxId
        /\ batch \in SUBSET Entry /\ passed \in SUBSET Ids /\ excused \in SUBSET Ids
        /\ missed \in SUBSET Ids
        /\ faults \in 0..MaxFaults
    BY DEF Init
  <2>4. /\ pc \in {"request", "rows"} <=> page # 0
        /\ pc = "rows" <=> servedAt # 0
        /\ pc # "idle" => lastCursor = cursor
        /\ lastCursor <= newCursor
        /\ \A e \in batch : lastCursor < e.id /\ e.id <= newCursor
    BY DEF Init
  <2> QED
    BY <2>1, <2>2, <2>3, <2>4 DEF TypeOK
<1>4. Times
  BY DEF Init, Times, Ids
<1> QED
  BY <1>3, <1>4

\* The rows a walk gets to are above everything that stops it.
LEMMA VisitedAreNew ==
    ASSUME TypeOK, NEW S, S \subseteq Ids, NEW i \in Visited(S)
    PROVE  i \in S /\ i \in Ids /\ i > lastCursor /\ i \notin Skipped
<1>1. i \in S /\ i \notin Skipped /\ i \notin Stops(S)
  BY DEF Visited, Ids
<1>2. ~(i <= lastCursor)
  BY <1>1 DEF Stops
<1> QED
  BY <1>1, <1>2 DEF TypeOK, Ids

LEMMA UpsertTypes ==
    ASSUME TypeOK, NEW saved, saved \subseteq batch, Upsert(saved)
    PROVE  /\ stored' \in SUBSET Ids /\ dated' \in [Ids -> Days]
           /\ excused' \in SUBSET Ids
           /\ stored \subseteq stored' /\ excused' = excused \cup passed
           /\ stored' = stored \cup {e.id : e \in saved}
<1>1. \A e \in saved : e.id \in Ids /\ e.at \in Nat /\ e.at <= LastTime
  BY ClockAssumption DEF TypeOK, Entry
<1>2. ASSUME NEW e \in saved PROVE Day(e.at) \in Days
  <2>1. PICK t \in Nat : t = e.at /\ t <= LastTime
    BY <1>1
  <2>2. Day(t) \in Nat \ {0} /\ Day(LastTime) \in Nat \ {0} /\ Day(t) <= Day(LastTime)
    BY <2>1, DayFacts, DayOrder, LastTimeIsNat
  <2> QED
    BY <2>1, <2>2 DEF Days
<1>3. \A i \in Ids : dated'[i] \in Days
  BY <1>2, Saved DEF TypeOK
<1>4. dated' \in [Ids -> Days]
  BY <1>3 DEF Upsert
<1> QED
  BY <1>1, <1>4 DEF Upsert, TypeOK

\* The state of a cycle that is over.
LEMMA EndRunTypes ==
    ASSUME TypeOK, Times, EndRun, UNCHANGED site,
           stored' \in SUBSET Ids, dated' \in [Ids -> Days], cursor' \in 0..MaxId,
           excused' \in SUBSET Ids, missed' \in SUBSET Ids, faults' \in 0..MaxFaults
    PROVE  TypeOK' /\ Times'
  BY ClockAssumption, BoundsAssumption, LastTimeIsNat
     DEF TypeOK, Times, EndRun, ForgetCycle, ForgetPage, site, Ticks

LEMMA ReadRowsTypes ==
    ASSUME TypeOK, Times, ReadRows
    PROVE  TypeOK' /\ Times'
<1> USE ClockAssumption, BoundsAssumption
<1> DEFINE S == Rows(page, shown)
<1>1. /\ pc = "rows" /\ page # 0 /\ shown \in 0..posted
      /\ S \subseteq 1..shown /\ S \subseteq Ids
  <2>1. pc = "rows" /\ page # 0 /\ shown \in 0..posted
    BY DEF ReadRows, TypeOK
  <2> QED
    BY <2>1, RowsInList DEF TypeOK, Ids
<1>2. \A i \in S : ParseCreatedAt(i) \in 0..LastTime
  BY <1>1, ParseRange
<1>3. /\ Visited(S) \subseteq S /\ Moving(S) \subseteq Visited(S)
      /\ Taken(S) \subseteq Moving(S)
      /\ \A i \in Visited(S) : i > lastCursor
  BY <1>1, VisitedAreNew DEF Visited, Moving, Taken
<1>4. batch' = batch \cup {[id |-> i, page |-> page, at |-> ParseCreatedAt(i)] : i \in Taken(S)}
  BY DEF ReadRows
<1>5. page \in 1..MaxPageCount
  BY <1>1 DEF TypeOK
<1>6. batch' \in SUBSET Entry
  <2>1. \A i \in Taken(S) :
            [id |-> i, page |-> page, at |-> ParseCreatedAt(i)] \in Entry
    BY <1>1, <1>2, <1>3, <1>5 DEF Entry
  <2> QED
    BY <1>4, <2>1 DEF TypeOK
<1>7. /\ newCursor' \in 0..MaxId
      /\ newCursor' \in Moving(S) \cup {newCursor}
      /\ \A k \in Moving(S) \cup {newCursor} : k <= newCursor'
  BY DEF ReadRows, IsMaxOf
<1>8. newCursor <= newCursor' /\ lastCursor <= newCursor'
  BY <1>7 DEF TypeOK
<1>9. ASSUME NEW e \in batch' PROVE lastCursor < e.id /\ e.id <= newCursor'
  <2>1. CASE e \in batch
    BY <1>7, <1>8, <2>1 DEF TypeOK, Entry, Ids
  <2>2. CASE e \notin batch
    <3>1. PICK i \in Taken(S) : e = [id |-> i, page |-> page, at |-> ParseCreatedAt(i)]
      BY <1>4, <2>2
    <3>2. e.id = i
      BY <3>1
    <3> QED
      BY <1>1, <1>3, <1>7, <3>2 DEF Ids, TypeOK
  <2> QED
    BY <2>1, <2>2
<1>10. passed' \in SUBSET Ids
  BY <1>1 DEF ReadRows, TypeOK, Ids
<1>11. UNCHANGED <<site, db, base, notes>>
  BY DEF ReadRows
<1>12. /\ clock' \in Ticks /\ posted' \in 0..MaxId /\ postedAt' \in [Ids -> Ticks]
       /\ stored' \in SUBSET Ids /\ dated' \in [Ids -> Days] /\ cursor' \in 0..MaxId
       /\ lastCursor' \in 0..MaxId /\ lastDate' \in {0} \cup Days
       /\ excused' \in SUBSET Ids /\ missed' \in SUBSET Ids /\ faults' \in 0..MaxFaults
       /\ lastCursor' = cursor' /\ lastCursor' = lastCursor
  BY <1>1, <1>11 DEF TypeOK, site, db, base, notes
<1>14. CASE pc' = "contents"
  <2>1. page' = 0 /\ cutoff' = 0 /\ shown' = 0 /\ servedAt' = 0
    BY <1>14 DEF ReadRows, EndWalk, RequestPage, ForgetPage
  <2>2. TypeOK'
    BY <1>6, <1>7, <1>8, <1>9, <1>10, <1>12, <1>14, <2>1, LastTimeIsNat DEF TypeOK, Ticks
  <2> QED
    BY <1>11, <1>14, <2>2 DEF Times, site
<1>15. CASE pc' # "contents"
  <2>1. /\ page' = page + 1 /\ cutoff' = Now - Delay /\ shown' = 0 /\ servedAt' = 0
        /\ pc' = "request" /\ page # MaxPageCount
    BY <1>15 DEF ReadRows, EndWalk, RequestPage, ForgetPage, AtLastPage
  <2>2. cutoff' \in (-Delay)..LastTime
    BY <2>1, NowIsTime, LastTimeIsNat
  <2>3. page' \in 1..MaxPageCount
    BY <1>5, <2>1
  <2>4. TypeOK'
    BY <1>6, <1>7, <1>8, <1>9, <1>10, <1>12, <2>1, <2>2, <2>3 DEF TypeOK, Ticks
  <2> QED
    BY <1>11, <2>1, <2>4 DEF Times, site
<1> QED
  BY <1>14, <1>15

\* Between two cycles nothing is left of the last one.
Idle == pc = "idle" => batch = {} /\ passed = {}

LEMMA NextIdle ==
    ASSUME Idle, [Next]_vars
    PROVE  Idle'
<1>1. CASE UNCHANGED vars
  BY <1>1 DEF vars, cycle, Idle
<1>2. CASE Publish \/ Tick
  BY <1>2 DEF Publish, Tick, cycle, Idle
<1>3. CASE Progress
  BY <1>3 DEF Progress, StartRun, RequestPage, ServePage, ReadRows, EndOfList, EndWalk,
       FetchContents, SaveArticles, NothingToSave, UpdateCursor, EndRun, ForgetCycle, Idle
<1>4. CASE Failure
  BY <1>4 DEF Failure, ListFails, SaveFails, SavePartially, CursorWriteFails, CycleLost,
       EndRun, ForgetCycle, Idle
<1> QED
  BY <1>1, <1>2, <1>3, <1>4 DEF Next

LEMMA FetchContentsTypes ==
    ASSUME TypeOK, Times, FetchContents
    PROVE  TypeOK' /\ Times'
<1>1. PICK corrected \in SUBSET {e \in batch : e.at % DayLength = 0} :
          batch' = (batch \ corrected)
             \cup {[e EXCEPT !.at = postedAt[e.id]] : e \in corrected}
  BY DEF FetchContents
<1>2. /\ pc = "contents" /\ pc' = "save"
      /\ UNCHANGED <<site, db, base, page, cutoff, served, newCursor, passed, notes>>
  BY DEF FetchContents
<1>3. ASSUME NEW e \in batch' PROVE e \in Entry /\ lastCursor < e.id /\ e.id <= newCursor
  <2>1. CASE e \in batch
    BY <2>1 DEF TypeOK
  <2>2. CASE e \notin batch
    <3>1. PICK f \in corrected : e = [f EXCEPT !.at = postedAt[f.id]]
      BY <1>1, <2>2
    <3>2. /\ f \in Entry /\ f \in batch
          /\ e.id = f.id /\ e.page = f.page /\ e.at = postedAt[f.id]
      BY <3>1 DEF TypeOK, Entry
    <3>3. postedAt[f.id] \in 0..LastTime
      BY <3>2, ClockAssumption, LastTimeIsNat DEF TypeOK, Entry, Ticks
    <3>4. e \in Entry
      BY <3>1, <3>2, <3>3 DEF Entry
    <3> QED
      BY <3>2, <3>4 DEF TypeOK
  <2> QED
    BY <2>1, <2>2
<1>4. TypeOK'
  BY <1>2, <1>3 DEF TypeOK, site, db, base, served, notes
<1>5. Times'
  BY <1>2 DEF Times, site
<1> QED
  BY <1>4, <1>5

\* The two steps from the save to the cursor.
LEMMA ToCursorTypes ==
    ASSUME TypeOK, Times, pc = "save", pc' = "cursor",
           UNCHANGED <<site, cursor, base, page, cutoff, served, batch, newCursor>>,
           UNCHANGED <<passed, missed, faults>>,
           stored' \in SUBSET Ids, dated' \in [Ids -> Days], excused' \in SUBSET Ids
    PROVE  TypeOK' /\ Times'
BY DEF TypeOK, Times, site, base, served

LEMMA NextTypes ==
    ASSUME TypeOK, Times, Idle, [Next]_vars
    PROVE  TypeOK' /\ Times'
<1> USE ClockAssumption, BoundsAssumption
<1>1. CASE UNCHANGED vars
  BY <1>1 DEF vars, site, db, cycle, base, served, notes, TypeOK, Times, Entry
<1>2. CASE Publish
  <2>1. posted + 1 \in Ids /\ posted' = posted + 1
        /\ postedAt' = [postedAt EXCEPT ![posted + 1] = clock]
        /\ UNCHANGED <<clock, db, cycle, notes>>
    BY <1>2 DEF Publish, TypeOK, Ids
  <2>2. postedAt' \in [Ids -> Ticks] /\ posted' \in 0..MaxId /\ shown' \in 0..posted'
    BY <2>1 DEF TypeOK, Ids, cycle, served
  <2>3. TypeOK'
    BY <2>1, <2>2 DEF TypeOK, db, cycle, base, served, notes
  <2>4. \A i \in Ids : i <= posted => postedAt'[i] = postedAt[i]
    BY <2>1 DEF TypeOK, Ids
  <2>5. postedAt'[posted + 1] = clock
    BY <2>1 DEF TypeOK
  <2>6. \A i \in Ids : i <= posted' => postedAt'[i] <= clock'
    BY <2>1, <2>4, <2>5, NowIsTime DEF Times, TypeOK, Ids
  <2>7. \A i, j \in Ids : i < j /\ j <= posted' => postedAt'[i] <= postedAt'[j]
    <3>1. SUFFICES ASSUME NEW i \in Ids, NEW j \in Ids, i < j, j <= posted + 1
                   PROVE  postedAt'[i] <= postedAt'[j]
      BY <2>1
    <3>2. i <= posted /\ (j <= posted \/ j = posted + 1)
      BY <3>1 DEF TypeOK, Ids
    <3> QED
      BY <2>4, <2>5, <3>1, <3>2 DEF Times
  <2>8. pc' = "rows" => \A i \in Ids : i <= shown' => postedAt'[i] <= servedAt'
    <3>1. pc' = pc /\ shown' = shown /\ servedAt' = servedAt /\ shown <= posted
      BY <2>1 DEF TypeOK, cycle, served
    <3> QED
      BY <2>4, <3>1 DEF Times, TypeOK, Ids
  <2> QED
    BY <2>3, <2>6, <2>7, <2>8 DEF Times
<1>3. CASE Tick
  <2>1. clock' = clock + 1 /\ clock < MaxTime
        /\ UNCHANGED <<posted, postedAt, db, cycle, notes>>
    BY <1>3 DEF Tick
  <2>2. clock' \in Ticks /\ servedAt' \in 0..clock'
    BY <2>1 DEF TypeOK, Ticks, cycle, served
  <2>3. TypeOK'
    BY <2>1, <2>2 DEF TypeOK, db, cycle, base, served, notes
  <2>4. \A i \in Ids : postedAt[i] \in Nat
    BY DEF TypeOK, Ticks
  <2>5. Times'
    BY <2>1, <2>4, NowIsTime DEF Times, cycle, served
  <2> QED
    BY <2>3, <2>5
<1>4. CASE StartRun
  <2>1. /\ pc' = "request" /\ page' = 1 /\ cutoff' = Now - Delay /\ shown' = 0
        /\ servedAt' = 0 /\ lastCursor' = cursor /\ newCursor' = cursor
        /\ lastDate' \in {0} \cup Days
        /\ UNCHANGED <<site, db, batch, passed, notes>>
    BY <1>4 DEF StartRun, RequestPage, ForgetPage
  <2>2. cutoff' \in (-Delay)..LastTime
    BY <2>1, NowIsTime, LastTimeIsNat
  <2>3. batch = {}
    BY <1>4 DEF StartRun, Idle
  <2>4. TypeOK'
    BY <2>1, <2>2, <2>3 DEF TypeOK, site, db, notes, Ticks
  <2> QED
    BY <2>1, <2>4 DEF Times, site
<1>5. CASE ServePage
  <2>1. /\ pc = "request" /\ pc' = "rows" /\ shown' = posted /\ servedAt' = clock
        /\ UNCHANGED <<site, db, base, page, cutoff, batch, newCursor, passed, notes>>
    BY <1>5 DEF ServePage
  <2>2. servedAt' \in 0..clock' /\ servedAt' # 0 /\ shown' \in 0..posted'
    BY <2>1, NowIsTime DEF site, TypeOK
  <2>3. TypeOK'
    BY <2>1, <2>2 DEF TypeOK, site, db, base, notes
  <2> QED
    BY <2>1, <2>3 DEF Times, site
<1>6. CASE ReadRows
  BY <1>6, ReadRowsTypes
<1>7. CASE EndOfList
  <2>1. /\ pc = "rows" /\ pc' = "contents" /\ page' = 0 /\ cutoff' = 0 /\ shown' = 0
        /\ servedAt' = 0
        /\ UNCHANGED <<site, db, base, batch, newCursor, passed, notes>>
    BY <1>7 DEF EndOfList, EndWalk, ForgetPage
  <2>2. TypeOK'
    BY <2>1, LastTimeIsNat DEF TypeOK, site, db, base, notes, Ticks
  <2> QED
    BY <2>1, <2>2 DEF Times, site
<1>8. CASE FetchContents
  BY <1>8, FetchContentsTypes
<1>9. CASE SaveArticles
  <2>1. stored' \in SUBSET Ids /\ dated' \in [Ids -> Days] /\ excused' \in SUBSET Ids
    BY <1>9, UpsertTypes DEF SaveArticles
  <2> QED
    BY <1>9, <2>1, ToCursorTypes DEF SaveArticles
<1>10. CASE NothingToSave
  <2>1. stored' \in SUBSET Ids /\ dated' \in [Ids -> Days] /\ excused' \in SUBSET Ids
    BY <1>10 DEF NothingToSave, TypeOK, db
  <2> QED
    BY <1>10, <2>1, ToCursorTypes DEF NothingToSave, db
<1>11. CASE UpdateCursor
  <2>1. /\ cursor' \in 0..MaxId /\ EndRun /\ UNCHANGED <<site, stored, dated, notes>>
    BY <1>11 DEF UpdateCursor, TypeOK
  <2> QED
    BY <2>1, EndRunTypes DEF TypeOK, notes
<1>12. CASE ListFails \/ SaveFails \/ CursorWriteFails \/ CycleLost
  <2>1. Fault /\ EndRun /\ UNCHANGED <<site, db, excused, missed>>
    BY <1>12 DEF ListFails, SaveFails, CursorWriteFails, CycleLost
  <2>2. faults' \in 0..MaxFaults
    BY <2>1 DEF Fault, TypeOK
  <2> QED
    BY <2>1, <2>2, EndRunTypes DEF TypeOK, db
<1>13. CASE SavePartially
  <2>1. PICK saved \in SUBSET batch : Upsert(saved)
    BY <1>13 DEF SavePartially
  <2>2. stored' \in SUBSET Ids /\ dated' \in [Ids -> Days] /\ excused' \in SUBSET Ids
    BY <2>1, UpsertTypes
  <2>3. faults' \in 0..MaxFaults
    BY <1>13 DEF SavePartially, Fault, TypeOK
  <2>4. missed' \in SUBSET Ids
    BY <1>13 DEF SavePartially, Misses, TypeOK
  <2>5. EndRun /\ UNCHANGED <<site, cursor>>
    BY <1>13 DEF SavePartially
  <2> QED
    BY <2>2, <2>3, <2>4, <2>5, EndRunTypes DEF TypeOK
<1> QED
  BY <1>1, <1>2, <1>3, <1>4, <1>5, <1>6, <1>7, <1>8, <1>9, <1>10, <1>11, <1>12, <1>13
     DEF Next, Progress, Failure

\* Every variable keeps its type, and the phases of a cycle agree with what is
\* set in them, whatever the clocks and the failures are.
THEOREM CafeTypes == Spec => []TypeOK
<1>1. Init => TypeOK /\ Times /\ Idle
  BY InitTypes DEF Init, Idle
<1>2. TypeOK /\ Times /\ Idle /\ [Next]_vars => TypeOK' /\ Times' /\ Idle'
  BY NextTypes, NextIdle
<1> QED
  BY <1>1, <1>2, PTL DEF Spec

-----------------------------------------------------------------------------
(* The cursor and the articles.                                            *)

\* When the cursor is written everything the cycle collected is stored.
AllSaved == pc = "cursor" => \A e \in batch : e.id \in stored

LEMMA NextAllSaved ==
    ASSUME TypeOK, AllSaved, [Next]_vars
    PROVE  AllSaved'
<1>1. CASE UNCHANGED vars
  BY <1>1 DEF vars, cycle, db, AllSaved
<1>2. CASE Publish \/ Tick
  BY <1>2 DEF Publish, Tick, cycle, db, AllSaved
<1>3. CASE SaveArticles
  <2>1. batch' = batch /\ stored' = stored \cup {e.id : e \in batch}
    BY <1>3 DEF SaveArticles, Upsert
  <2> QED
    BY <2>1 DEF AllSaved
<1>4. CASE NothingToSave
  BY <1>4 DEF NothingToSave, AllSaved
<1>5. CASE StartRun \/ ServePage \/ ReadRows \/ EndOfList \/ FetchContents \/ UpdateCursor
  BY <1>5 DEF StartRun, RequestPage, ServePage, ReadRows, EndOfList, EndWalk,
       FetchContents, UpdateCursor, EndRun, AllSaved
<1>6. CASE Failure
  BY <1>6 DEF Failure, ListFails, SaveFails, SavePartially, CursorWriteFails, CycleLost,
       EndRun, AllSaved
<1> QED
  BY <1>1, <1>2, <1>3, <1>4, <1>5, <1>6 DEF Next, Progress

\* The cursor moves over an article only when everything the cycle collected is
\* in the database: for every clock, delay and failure.
THEOREM CursorFollowsFullSaveHolds == Spec => CursorFollowsFullSave
<1>1. Init => TypeOK /\ Times /\ Idle /\ AllSaved
  BY InitTypes DEF Init, Idle, AllSaved
<1>2. TypeOK /\ Times /\ Idle /\ AllSaved /\ [Next]_vars
          => TypeOK' /\ Times' /\ Idle' /\ AllSaved'
  BY NextTypes, NextIdle, NextAllSaved
<1>3. ASSUME TypeOK, AllSaved, Next, cursor' # cursor
      PROVE  cursor' > cursor /\ \A e \in batch : e.id \in stored /\ e.id <= cursor'
  <2>1. UpdateCursor
    BY <1>3 DEF Next, Progress, Failure, Publish, Tick, StartRun, ServePage, ReadRows,
         EndOfList, FetchContents, SaveArticles, NothingToSave, ListFails, SaveFails,
         SavePartially, CursorWriteFails, CycleLost, db
  <2>2. pc = "cursor" /\ newCursor > lastCursor /\ cursor' = newCursor
        /\ lastCursor = cursor
    BY <1>3, <2>1 DEF UpdateCursor, TypeOK
  <2> QED
    BY <1>3, <2>2 DEF AllSaved, TypeOK
<1>4. TypeOK /\ AllSaved /\ [Next]_vars
          => [cursor' # cursor =>
                 /\ cursor' > cursor
                 /\ \A e \in batch : e.id \in stored /\ e.id <= cursor']_vars
  BY <1>3 DEF vars, db
<1> QED
  BY <1>1, <1>2, <1>4, PTL DEF Spec, CursorFollowsFullSave

-----------------------------------------------------------------------------
(* Nothing is left behind, if the clock of the machine is not behind that  *)
(* of the cafe (cafe_skew shows what happens if it is) and nothing is      *)
(* posted so shortly after midnight that it could be read on the next day. *)

\* How far the machine's clock may be beyond the time a page was served at when
\* it reads the rows: to the program a clock that is ahead is a longer lag.
Lead == MaxLag - Skew

\* A page that is served before midnight and read when the machine's clock is
\* past it shows HH:MM that is taken for a time of the new day if it is not still
\* to come; so no article may be posted in the first Lead ticks of a day.
QuietMidnights == \A i \in Ids : i <= posted => postedAt[i] % DayLength >= Lead

\* The newest article of the list the next rows are numbered by ...
Top == IF pc = "rows" THEN shown ELSE posted

\* ... and the day of that list, whose articles show HH:MM.
ListDay == IF pc = "rows" THEN Day(servedAt) ELSE Day(clock)

\* The delay does not hold back an article of this age any more.
Ripe(i) ==
    \/ postedAt[i] % DayLength = 0
    \/ Day(postedAt[i]) < ListDay
    \/ postedAt[i] <= cutoff

\* What the walk moves the cursor over.
Window(i) == lastCursor < i /\ i <= newCursor

Collected(i) == \E e \in batch : e.id = i

\* All the dates in hand are right, and nothing is known that is not posted.
Known ==
    /\ \A j \in stored : j <= posted /\ dated[j] = Day(postedAt[j])
    /\ \A e \in batch : Day(e.at) = Day(postedAt[e.id])
    /\ cursor <= posted /\ newCursor <= posted

\* What the decisions of the walk rest on.
Walking ==
    pc \in {"request", "rows"} =>
        /\ lastDate = 0 \/ \E j \in stored : dated[j] = lastDate
        /\ cutoff <= Now - Delay
        /\ newCursor > lastCursor => Ripe(newCursor)
        /\ pc = "rows" => clock - servedAt <= MaxLag /\ newCursor <= shown

\* How far the walk has come: what lies above the page it works on is collected.
Walked ==
    pc \in {"request", "rows"} =>
        \A i \in Readable :
            Window(i) /\ i > Top - PageSize * (page - 1) => Collected(i)

\* What the rest of the cycle relies on.
Done ==
    \A i \in Readable : Window(i) =>
        /\ pc \in {"contents", "save"} => Collected(i) \/ i \in passed \/ Covered(i)
        /\ pc = "cursor" => Covered(i)

Safe == Known /\ Walking /\ Walked /\ Done /\ NoLoss /\ OlderDaysAreCollected

LEMMA LeadIsNat ==
    ASSUME Skew <= 0
    PROVE  Lead \in Nat /\ MaxLag <= Lead
  BY ClockAssumption DEF Lead

LEMMA ReadableIds == Readable \subseteq Ids /\ \A i \in Readable : i \in Nat \ {0}
BY ArticlesAssumption DEF Readable, Ids

LEMMA PostedTime ==
    ASSUME TypeOK, Times, NEW i \in Ids, i <= posted
    PROVE  postedAt[i] \in Nat /\ postedAt[i] <= clock /\ clock \in Nat
BY ClockAssumption DEF TypeOK, Times, Ticks

LEMMA PostedOrder ==
    ASSUME TypeOK, Times, NEW i \in Ids, NEW j \in Ids, i <= j, j <= posted
    PROVE  /\ postedAt[i] \in Nat /\ postedAt[j] \in Nat
           /\ postedAt[i] <= postedAt[j]
           /\ Day(postedAt[i]) <= Day(postedAt[j])
<1>1. postedAt[i] \in Nat /\ postedAt[j] \in Nat
  BY ClockAssumption DEF TypeOK, Ticks
<1>2. postedAt[i] <= postedAt[j]
  BY <1>1 DEF Times, Ids
<1>3. Day(postedAt[i]) <= Day(postedAt[j])
  <2>1. PICK s \in Nat, t \in Nat : s = postedAt[i] /\ t = postedAt[j]
    BY <1>1
  <2> QED
    BY <1>2, <2>1, DayOrder
<1> QED
  BY <1>1, <1>2, <1>3

\* Older articles are ripe before the newer ones.
LEMMA RipeDown ==
    ASSUME TypeOK, Times, NEW i \in Ids, NEW m \in Ids, i <= m, m <= Top, Ripe(m)
    PROVE  Ripe(i)
<1> USE ClockAssumption
<1>1. m <= posted /\ i <= posted
  BY DEF Top, TypeOK, Ids
<1>2. PICK s \in Nat, t \in Nat : s = postedAt[i] /\ t = postedAt[m] /\ s <= t
  BY <1>1, PostedOrder
<1>3. Day(s) <= Day(t) /\ Day(s) \in Nat /\ Day(t) \in Nat
  BY <1>2, DayOrder, DayFacts
<1>4. PICK now \in Nat : now = (IF pc = "rows" THEN servedAt ELSE clock) /\ t <= now
  <2>1. pc = "rows" => t <= servedAt
    BY <1>2 DEF Times, Top
  <2>2. t <= clock /\ clock \in Nat /\ servedAt \in Nat
    BY <1>1, <1>2, PostedTime DEF TypeOK
  <2> QED
    BY <2>1, <2>2
<1>5. ListDay = Day(now) /\ Day(t) <= Day(now) /\ Day(now) \in Nat
  BY <1>2, <1>4, DayOrder, DayFacts DEF ListDay
<1>6. CASE t % DayLength = 0
  <2>1. CASE Day(s) = Day(t)
    <3>1. Midnight(s) = Midnight(t) /\ Midnight(t) + (s % DayLength) = s
      BY <2>1, SameDay
    <3>2. Midnight(t) = t
      BY <1>6 DEF Midnight
    <3>3. s % DayLength \in 0..(DayLength - 1)
      BY DayFacts
    <3> QED
      BY <1>2, <3>1, <3>2, <3>3 DEF Ripe
  <2>2. CASE Day(s) # Day(t)
    BY <1>2, <1>3, <1>5, <2>2 DEF Ripe
  <2> QED
    BY <2>1, <2>2
<1>7. CASE Day(t) < ListDay
  BY <1>2, <1>3, <1>5, <1>7 DEF Ripe
<1>8. CASE t <= cutoff
  BY <1>2, <1>8 DEF Ripe, TypeOK
<1> QED
  BY <1>2, <1>6, <1>7, <1>8 DEF Ripe

\* Of two ticks less than a day apart, but on different days, the later one
\* follows its midnight more closely than the other.
LEMMA NextDayBegins ==
    ASSUME NEW s \in Nat, NEW n \in Nat, NEW lag \in Nat,
           Day(s) < Day(n), n - s <= lag, lag < DayLength
    PROVE  /\ Midnight(n) = Midnight(s) + DayLength
           /\ n - Midnight(n) < lag
<1> USE ClockAssumption
<1>1. PICK p \in Nat, q \in Nat : p = Day(s) - 1 /\ q = Day(n) - 1 /\ p < q
  <2>1. Day(s) \in Nat \ {0} /\ Day(n) \in Nat \ {0}
    BY DayFacts
  <2>2. Day(s) - 1 \in Nat /\ Day(n) - 1 \in Nat /\ Day(s) - 1 < Day(n) - 1
    BY <2>1
  <2> QED
    BY <2>2
<1>2. /\ Midnight(s) = DayLength * p /\ Midnight(n) = DayLength * q
      /\ s < DayLength * p + DayLength
      /\ DayLength * q <= n
  BY <1>1, DayFacts
<1>3. DayLength * (p + 1) = DayLength * p + DayLength
  OBVIOUS
<1>4. q > p + 1 => DayLength * q >= DayLength * (p + 2)
  OBVIOUS
<1>5. DayLength * (p + 2) = DayLength * p + DayLength + DayLength
  OBVIOUS
<1>6. PICK k \in Nat : k = DayLength * p
  OBVIOUS
<1>7. q = p + 1
  <2>1. SUFFICES ASSUME q > p + 1 PROVE FALSE
    BY <1>1
  <2> QED
    BY <1>2, <1>4, <1>5, <1>6, <2>1
<1> QED
  BY <1>2, <1>3, <1>6, <1>7

\* Unless the clock is behind, a row is dated as well as its cell allows, so that its day is
\* right and it is held back exactly as long as it is not ripe.
LEMMA ParseExact ==
    ASSUME Skew <= 0, Lead < DayLength, TypeOK, Times, QuietMidnights,
           pc = "rows", clock - servedAt <= MaxLag,
           NEW i \in Ids, i <= shown
    PROVE  /\ Day(ParseCreatedAt(i)) = Day(postedAt[i])
           /\ Held(i) <=> ~Ripe(i)
<1> USE ClockAssumption
<1>1. PICK t \in Nat, s \in Nat : t = postedAt[i] /\ s = servedAt /\ t <= s
  <2>1. i <= posted
    BY DEF TypeOK, Ids
  <2> QED
    BY <2>1, PostedTime DEF Times, TypeOK
<1>2. PICK now \in Nat : Now = now /\ s <= now /\ now - s <= Lead
  BY <1>1, NowIsTime DEF TypeOK, Lead
<1>3. /\ Day(t) <= Day(s) /\ Day(s) <= Day(now)
      /\ Day(t) \in Nat /\ Day(s) \in Nat /\ Day(now) \in Nat
  BY <1>1, <1>2, DayOrder, DayFacts
<1>4. Midnight(t) % DayLength = 0 /\ Day(Midnight(t)) = Day(t)
  BY DayFacts
<1>5. t % DayLength >= Lead /\ t % DayLength \in Nat
  <2>1. i <= posted
    BY DEF TypeOK, Ids
  <2>2. t % DayLength \in 0..(DayLength - 1)
    BY DayFacts
  <2> QED
    BY <1>1, <2>1, <2>2 DEF QuietMidnights
<1>6. CASE ShowsTime(i)
  <2>1. Day(t) = Day(s)
    BY <1>1, <1>6 DEF ShowsTime
  <2>2. Midnight(s) + (t % DayLength) = t
    BY <2>1, SameDay
  <2>3. ParseCreatedAt(i) = t
    <3>1. CASE Day(s) = Day(now)
      <4>1. Midnight(now) = Midnight(s)
        BY <3>1, SameDay
      <4> QED
        BY <1>1, <1>2, <1>6, <2>2, <4>1 DEF ParseCreatedAt
    <3>2. CASE Day(s) # Day(now)
      <4>1. Midnight(now) = Midnight(s) + DayLength /\ now - Midnight(now) < Lead
        BY <1>1, <1>2, <1>3, <3>2, LeadIsNat, NextDayBegins
      <4>2. Midnight(s) \in Nat
        BY DayFacts
      <4>3. PICK today \in Nat : today = Midnight(now) + (t % DayLength)
        BY <1>5, <4>1, <4>2
      <4>4. today > now /\ today - DayLength = t
        BY <1>2, <1>5, <2>2, <4>1, <4>2, <4>3, LeadIsNat
      <4>5. ParseCreatedAt(i) = IF today > now THEN today - DayLength ELSE today
        BY <1>1, <1>2, <1>6, <4>3 DEF ParseCreatedAt
      <4> QED
        BY <4>4, <4>5
    <3> QED
      BY <3>1, <3>2
  <2> QED
    BY <1>1, <1>3, <2>1, <2>3 DEF Held, Ripe, ListDay, TypeOK
<1>7. CASE ~ShowsTime(i)
  <2>1. ParseCreatedAt(i) = Midnight(t)
    BY <1>1, <1>7 DEF ParseCreatedAt
  <2>2. Day(t) < Day(s)
    BY <1>1, <1>3, <1>7 DEF ShowsTime
  <2> QED
    BY <1>1, <1>4, <2>1, <2>2 DEF Held, Ripe, ListDay
<1> QED
  BY <1>6, <1>7

\* What is older by date than the base of the walk is accounted for.
LEMMA OlderThanBase ==
    ASSUME TypeOK, Times, Walking, OlderDaysAreCollected,
           pc \in {"request", "rows"},
           NEW i \in Readable, i <= posted, Day(postedAt[i]) < lastDate
    PROVE  Covered(i)
<1>1. Day(postedAt[i]) \in Nat \ {0}
  <2>1. PICK t \in Nat : t = postedAt[i]
    BY PostedTime, ReadableIds
  <2> QED
    BY <2>1, DayFacts
<1>2. PICK j \in stored : dated[j] = lastDate
  BY <1>1 DEF Walking
<1> QED
  BY <1>2, ReadableIds DEF OlderDaysAreCollected, TypeOK

\* The newest row that moves the cursor is ripe, and so is all that is older.
LEMMA Moved ==
    ASSUME Skew <= 0, Lead < DayLength, QuietMidnights, TypeOK, Times, Known, Walking,
           ReadRows
    PROVE  /\ newCursor' <= posted
           /\ newCursor' = newCursor \/ newCursor' \in Rows(page, shown)
           /\ \A i \in Ids : lastCursor < i /\ i <= newCursor' => Ripe(i)
<1> DEFINE S == Rows(page, shown)
<1>1. pc = "rows" /\ clock - servedAt <= MaxLag /\ newCursor <= shown
      /\ Top = shown /\ shown \in 0..posted /\ S \subseteq 1..shown
      /\ \A k \in S : k \in Ids /\ k <= shown /\ k <= posted
  <2>1. pc = "rows" /\ clock - servedAt <= MaxLag /\ newCursor <= shown
        /\ Top = shown /\ shown \in 0..posted /\ posted \in 0..MaxId
    BY DEF ReadRows, Walking, TypeOK, Top
  <2>2. S \subseteq 1..shown
    BY RowsInList
  <2> QED
    BY <2>1, <2>2, BoundsAssumption DEF Ids
<1>2. newCursor' \in Moving(S) \cup {newCursor}
  BY DEF ReadRows, IsMaxOf
<1>3. Moving(S) \subseteq S /\ \A m \in Moving(S) : ~Held(m)
  BY DEF Moving, Visited
<1>4. CASE newCursor' \in Moving(S)
  <2>1. PICK m \in S : m = newCursor' /\ ~Held(m)
    BY <1>3, <1>4
  <2>2. m \in Ids /\ m <= shown /\ m <= posted
    BY <1>1, <2>1
  <2>3. Ripe(m)
    BY <1>1, <2>1, <2>2, ParseExact
  <2>4. \A i \in Ids : i <= m => Ripe(i)
    BY <1>1, <2>2, <2>3, RipeDown
  <2> QED
    BY <2>1, <2>2, <2>4
<1>5. CASE newCursor' = newCursor
  <2>1. newCursor <= posted
    BY DEF Known
  <2>2. ASSUME NEW i \in Ids, lastCursor < i, i <= newCursor PROVE Ripe(i)
    <3>1. newCursor \in Ids /\ newCursor > lastCursor
      BY <2>2 DEF TypeOK, Ids
    <3>2. Ripe(newCursor)
      BY <1>1, <3>1 DEF Walking
    <3> QED
      BY <1>1, <2>2, <3>1, <3>2, RipeDown
  <2> QED
    BY <1>5, <2>1, <2>2
<1> QED
  BY <1>2, <1>4, <1>5

\* The heart of the argument.  When the rows of a page have been read, a readable
\* article the cursor is to pass is collected or lies below the page; and if the
\* walk stops here, one that is not collected is older than its base.
LEMMA PageRead ==
    ASSUME Skew <= 0, Lead < DayLength, QuietMidnights, TypeOK, Times, Known, Walking,
           Walked, ReadRows, NEW i \in Readable, lastCursor < i, i <= newCursor'
    PROVE  /\ Stops(Rows(page, shown)) = {} =>
                  Collected(i)' \/ i <= shown - PageSize * page
           /\ Stops(Rows(page, shown)) # {} =>
                  Collected(i)' \/ Day(postedAt[i]) < lastDate
<1> DEFINE S == Rows(page, shown)
<1> USE BoundsAssumption
<1>1. /\ pc = "rows" /\ clock - servedAt <= MaxLag /\ shown \in 0..posted
      /\ page \in Nat \ {0} /\ i \in Ids /\ lastCursor \in Nat /\ newCursor \in Nat
      /\ i \notin Skipped /\ i \in Monitored /\ i \in Nat /\ newCursor' \in Nat
  <2>1. newCursor' \in Nat
    BY DEF ReadRows
  <2> QED
    BY <2>1, ReadableIds DEF ReadRows, Walking, TypeOK, Readable
<1>2. batch' = batch \cup {[id |-> k, page |-> page, at |-> ParseCreatedAt(k)] : k \in Taken(S)}
  BY DEF ReadRows
<1>3. \A k \in Taken(S) : Collected(k)'
  <2>1. SUFFICES ASSUME NEW k \in Taken(S) PROVE \E e \in batch' : e.id = k
    BY DEF Collected
  <2> DEFINE e == [id |-> k, page |-> page, at |-> ParseCreatedAt(k)]
  <2>2. e \in batch' /\ e.id = k
    BY <1>2
  <2> QED
    BY <2>2
<1>4. Collected(i) => Collected(i)'
  BY <1>2 DEF Collected
<1>5. \A k \in S : k \in Ids /\ k <= posted /\ k <= shown
  BY <1>1, RowsInList DEF TypeOK, Ids
<1>6. ASSUME NEW s \in Stops(S), i <= s PROVE Day(postedAt[i]) < lastDate
  <2>1. s \in S /\ ~(s <= lastCursor)
    BY <1>1, <1>5, <1>6 DEF Stops, Ids
  <2>2. Day(ParseCreatedAt(s)) < lastDate
    BY <1>6, <2>1 DEF Stops
  <2>3. Day(postedAt[s]) < lastDate
    BY <1>1, <1>5, <2>1, <2>2, ParseExact
  <2>4. Day(postedAt[i]) <= Day(postedAt[s])
    BY <1>1, <1>5, <1>6, <2>1, PostedOrder
  <2>5. Day(postedAt[s]) \in Nat /\ Day(postedAt[i]) \in Nat
    <3>1. PICK t \in Nat, u \in Nat : t = postedAt[s] /\ u = postedAt[i]
      BY <1>1, <1>5, <1>6, <2>1, PostedOrder
    <3> QED
      BY <3>1, DayFacts
  <2> QED
    BY <2>3, <2>4, <2>5 DEF TypeOK, Days
<1>7. CASE i \in S
  <2>1. CASE \E s \in Stops(S) : i <= s
    BY <1>6, <1>7, <2>1 DEF Stops
  <2>2. CASE ~\E s \in Stops(S) : i <= s
    <3>1. i \in Visited(S)
      BY <1>1, <1>5, <1>7, <2>2 DEF Visited, Stops, Ids
    <3>2. Ripe(i)
      BY <1>1, Moved
    <3>3. ~Held(i)
      BY <1>1, <1>5, <1>7, <3>2, ParseExact
    <3>4. i \in Taken(S)
      BY <1>1, <3>1, <3>3 DEF Taken
    <3> QED
      BY <1>3, <3>4
  <2> QED
    BY <2>1, <2>2
<1>8. CASE i \notin S
  <2>1. PICK k \in Nat : k = PageSize * (page - 1)
    BY <1>1
  <2>2. PageSize * page = k + PageSize
    BY <1>1, <2>1
  <2>3. i <= posted
    <3>1. newCursor' <= posted
      BY Moved
    <3> QED
      BY <1>1, <3>1 DEF TypeOK
  <2>4. CASE i > shown - k
    <3>1. \A s \in S : s < i
      <4>1. SUFFICES ASSUME NEW s \in S PROVE s < i
        OBVIOUS
      <4>2. s \in 1..shown
        BY RowsInList
      <4>3. s <= shown - PageSize * (page - 1)
        BY <1>1, <4>2, RowsOf
      <4> QED
        BY <1>1, <2>1, <2>4, <4>2, <4>3
    <3>2. newCursor' = newCursor
      <4>1. SUFFICES ASSUME newCursor' \in S PROVE FALSE
        BY Moved
      <4>2. newCursor' < i
        BY <3>1, <4>1
      <4> QED
        BY <1>1, <4>2
    <3>3. Collected(i)
      BY <1>1, <2>1, <2>4, <3>2 DEF Walked, Window, Top
    <3> QED
      BY <1>4, <3>3
  <2>5. CASE i <= shown - k
    <3>1. i \in 1..shown
      BY <1>1, <2>1, <2>5
    <3>2. i <= shown - PageSize * page
      <4>1. ~(shown - PageSize * page < i)
        BY <1>1, <1>8, <2>1, <2>5, <3>1, RowsOf
      <4> QED
        BY <1>1, <2>1, <2>2, <4>1
    <3>3. ASSUME NEW s \in Stops(S) PROVE i <= s
      <4>1. s \in S /\ s \in 1..shown
        BY RowsInList DEF Stops
      <4>2. shown - PageSize * page < s
        BY <1>1, <4>1, RowsOf
      <4> QED
        BY <1>1, <2>1, <2>2, <3>2, <4>1, <4>2
    <3> QED
      BY <1>6, <3>2, <3>3
  <2> QED
    BY <1>1, <2>1, <2>4, <2>5
<1> QED
  BY <1>7, <1>8

LEMMA ReadRowsSafe ==
    ASSUME Skew <= 0, Lead < DayLength, QuietMidnights, TypeOK, Times, Safe, ReadRows
    PROVE  Safe'
<1> DEFINE S == Rows(page, shown)
<1> USE ClockAssumption, BoundsAssumption
<1>1. /\ pc = "rows" /\ clock - servedAt <= MaxLag /\ shown \in 0..posted /\ posted \in Nat
      /\ page \in Nat \ {0} /\ clock \in Nat /\ servedAt \in 0..clock
      /\ \A k \in S : k \in Ids /\ k <= shown
  <2>1. /\ pc = "rows" /\ clock - servedAt <= MaxLag /\ shown \in 0..posted
        /\ posted \in 0..MaxId /\ page \in Nat \ {0} /\ clock \in Nat /\ servedAt \in 0..clock
    BY DEF ReadRows, Safe, Walking, TypeOK, Ticks
  <2>2. S \subseteq 1..shown
    BY RowsInList
  <2> QED
    BY <2>1, <2>2 DEF Ids
<1>2. /\ UNCHANGED <<clock, posted, postedAt, stored, dated, cursor, lastCursor, lastDate>>
      /\ excused' = excused /\ missed' = missed
      /\ batch' = batch \cup {[id |-> k, page |-> page, at |-> ParseCreatedAt(k)] : k \in Taken(S)}
  BY DEF ReadRows, site, db, base, notes
<1>4. newCursor' <= posted /\ \A i \in Ids : lastCursor < i /\ i <= newCursor' => Ripe(i)
  BY Moved DEF Safe
<1>5. Known'
  <2>1. ASSUME NEW e \in batch' PROVE Day(e.at) = Day(postedAt[e.id])
    <3>1. CASE e \in batch
      BY <3>1 DEF Safe, Known
    <3>2. CASE e \notin batch
      <4>1. PICK k \in Taken(S) : e = [id |-> k, page |-> page, at |-> ParseCreatedAt(k)]
        BY <1>2, <3>2
      <4>2. k \in S
        BY DEF Taken, Visited
      <4>3. Day(ParseCreatedAt(k)) = Day(postedAt[k])
        BY <1>1, <4>2, ParseExact
      <4> QED
        BY <4>1, <4>3
    <3> QED
      BY <3>1, <3>2
  <2> QED
    BY <1>2, <1>4, <2>1 DEF Safe, Known
<1>6. NoLoss' /\ OlderDaysAreCollected'
  BY <1>2 DEF Safe, NoLoss, OlderDaysAreCollected, Covered
<1>7. CASE Stops(S) = {} /\ ~AtLastPage
  <2>1. pc' = "request" /\ page' = page + 1 /\ cutoff' = Now - Delay
    BY <1>7 DEF ReadRows, RequestPage
  <2>2. Now' = Now /\ cutoff' = Now' - Delay /\ cutoff <= cutoff'
        /\ cutoff \in Int /\ cutoff' \in Int
    BY <1>1, <1>2, <2>1 DEF Now, Safe, Walking, TypeOK
  <2>3. newCursor' > lastCursor' => Ripe(newCursor)'
    <3>1. SUFFICES ASSUME newCursor' > lastCursor PROVE Ripe(newCursor)'
      BY <1>2
    <3>2. newCursor' \in Ids
      BY <3>1 DEF ReadRows, Ids, TypeOK
    <3>3. PICK m \in Ids : m = newCursor' /\ m > lastCursor /\ m <= posted
      BY <1>4, <3>1, <3>2
    <3>4. Ripe(m)
      BY <1>4, <3>3 DEF Ids
    <3>5. PICK t \in Nat : t = postedAt[m]
      BY <3>3, PostedTime
    <3>6. Day(t) < Day(servedAt) => Day(t) < Day(clock)
      <4>1. PICK s \in Nat, now \in Nat : s = servedAt /\ now = clock /\ s <= now
        BY <1>1
      <4>2. Day(s) <= Day(now) /\ Day(s) \in Nat /\ Day(now) \in Nat /\ Day(t) \in Nat
        BY <4>1, DayOrder, DayFacts
      <4> QED
        BY <4>1, <4>2
    <3>7. \/ postedAt'[m] % DayLength = 0
          \/ Day(postedAt'[m]) < Day(clock')
          \/ postedAt'[m] <= cutoff'
      BY <1>1, <1>2, <2>2, <3>4, <3>5, <3>6 DEF Ripe, ListDay
    <3> QED
      BY <2>1, <3>3, <3>7 DEF Ripe, ListDay
  <2>4. Walking'
    BY <1>1, <1>2, <2>1, <2>2, <2>3 DEF Safe, Walking
  <2>5. ASSUME NEW i \in Readable, Window(i)', i > Top' - PageSize * (page' - 1)
        PROVE  Collected(i)'
    <3>1. PICK k \in Nat : k = PageSize * page
      BY <1>1
    <3>2. Top' - PageSize * (page' - 1) = posted - k
      BY <1>1, <1>2, <2>1, <3>1 DEF Top
    <3>3. i \in Nat /\ lastCursor < i /\ i <= newCursor'
      BY <1>2, <2>5, ReadableIds DEF Window
    <3>4. ~(i <= shown - PageSize * page)
      BY <1>1, <2>5, <3>1, <3>2, <3>3
    <3> QED
      BY <1>7, <3>3, <3>4, PageRead DEF Safe
  <2>6. Walked'
    BY <2>5 DEF Walked
  <2>7. Done'
    BY <2>1 DEF Done
  <2> QED
    BY <1>5, <1>6, <2>4, <2>6, <2>7 DEF Safe
<1>8. CASE ~(Stops(S) = {} /\ ~AtLastPage)
  <2>1. pc' = "contents"
    BY <1>8 DEF ReadRows, EndWalk
  <2>2. ASSUME NEW i \in Readable, Window(i)'
        PROVE  Collected(i)' \/ i \in passed' \/ Covered(i)
    <3>1. i \in Ids /\ i \in Nat \ {0} /\ lastCursor < i /\ i <= newCursor' /\ i <= posted
      BY <1>1, <1>2, <1>4, <2>2, ReadableIds DEF Window, ReadRows, TypeOK
    <3>2. CASE Stops(S) # {}
      <4>1. Collected(i)' \/ Day(postedAt[i]) < lastDate
        BY <3>1, <3>2, PageRead DEF Safe
      <4>2. Day(postedAt[i]) < lastDate => Covered(i)
        BY <1>1, <3>1, OlderThanBase DEF Safe
      <4> QED
        BY <4>1, <4>2
    <3>3. CASE Stops(S) = {}
      <4>1. passed' = {x \in 1..shown : x > lastCursor /\ \A k \in S : x < k}
        BY <1>8, <3>3 DEF ReadRows
      <4>2. SUFFICES ASSUME i <= shown - PageSize * page PROVE i \in passed'
        BY <3>1, <3>3, PageRead DEF Safe
      <4>3. PICK c \in Nat : c = PageSize * page
        BY <1>1
      <4>4. ASSUME NEW k \in S PROVE i < k
        <5>1. k \in 1..shown
          BY RowsInList
        <5>2. shown - PageSize * page < k
          BY <1>1, <5>1, RowsOf
        <5> QED
          BY <1>1, <3>1, <4>2, <4>3, <5>1, <5>2
      <4>5. i \in 1..shown
        BY <1>1, <3>1, <4>2, <4>3
      <4> QED
        BY <3>1, <4>1, <4>4, <4>5
    <3> QED
      BY <3>2, <3>3
  <2>3. Done'
    BY <1>2, <2>1, <2>2 DEF Done, Covered
  <2> QED
    BY <1>5, <1>6, <2>1, <2>3 DEF Safe, Walking, Walked
<1> QED
  BY <1>7, <1>8

LEMMA PublishSafe ==
    ASSUME TypeOK, Times, Safe, Publish
    PROVE  Safe'
<1>1. /\ posted' = posted + 1 /\ posted \in Nat /\ posted + 1 \in Ids
      /\ UNCHANGED <<clock, db, cycle, notes>>
      /\ postedAt' = [postedAt EXCEPT ![posted + 1] = clock]
  BY BoundsAssumption DEF Publish, TypeOK, Ids
<1>2. /\ \A i \in Ids : i <= posted => postedAt'[i] = postedAt[i]
      /\ postedAt'[posted + 1] = clock
  BY <1>1 DEF TypeOK, Ids
<1>3. /\ UNCHANGED <<stored, dated, cursor, pc, lastCursor, lastDate, page, cutoff, shown,
                     servedAt, batch, newCursor, passed, excused>>
      /\ missed' = missed
  BY <1>1 DEF db, cycle, base, served, notes
<1>4. \A e \in batch : e.id \in Ids /\ e.id <= posted
  BY <1>1 DEF TypeOK, Safe, Known, Entry, Ids
<1>5. \A j \in stored : j \in Ids /\ j <= posted /\ dated[j] = Day(postedAt[j])
  BY DEF TypeOK, Safe, Known
<1>6. Known'
  <2>1. \A j \in stored : j <= posted' /\ dated[j] = Day(postedAt'[j])
    BY <1>1, <1>2, <1>5 DEF Ids
  <2>2. \A e \in batch : Day(e.at) = Day(postedAt'[e.id])
    BY <1>2, <1>4 DEF Safe, Known
  <2>3. cursor <= posted' /\ newCursor <= posted'
    BY <1>1 DEF Safe, Known, TypeOK
  <2> QED
    BY <1>3, <2>1, <2>2, <2>3 DEF Known
<1>7. Walking'
  <2>1. SUFFICES ASSUME pc \in {"request", "rows"}, newCursor > lastCursor
                 PROVE  Ripe(newCursor)'
    BY <1>1, <1>3 DEF Safe, Walking, Now
  <2>2. Ripe(newCursor) /\ newCursor \in Ids /\ newCursor <= posted
    BY <2>1 DEF Safe, Walking, Known, TypeOK, Ids
  <2> QED
    BY <1>1, <1>2, <1>3, <2>2 DEF Ripe, ListDay
<1>8. Walked'
  <2>1. SUFFICES ASSUME pc \in {"request", "rows"}, NEW i \in Readable, Window(i),
                        i > Top' - PageSize * (page - 1)
                 PROVE  Collected(i)
    BY <1>3 DEF Walked, Window, Collected
  <2>2. PICK k \in Int : k = PageSize * (page - 1)
    BY BoundsAssumption DEF TypeOK
  <2>3. i > Top - k
    <3>1. Top' = Top \/ Top' = Top + 1
      BY <1>1, <1>3 DEF Top
    <3>2. Top \in Nat /\ i \in Nat
      BY <1>1, ReadableIds DEF Top, TypeOK
    <3> QED
      BY <2>1, <2>2, <3>1, <3>2
  <2> QED
    BY <2>1, <2>2, <2>3 DEF Safe, Walked
<1>9. Done' /\ NoLoss'
  BY <1>3 DEF Safe, Done, NoLoss, Window, Collected, Covered
<1>10. OlderDaysAreCollected'
  <2>1. SUFFICES ASSUME NEW i \in Readable, i <= posted + 1, NEW j \in stored,
                        Day(postedAt'[i]) < dated[j]
                 PROVE  Covered(i)
    BY <1>1, <1>3 DEF OlderDaysAreCollected, Covered
  <2>2. i \in Ids /\ i \in Nat \ {0}
    BY ReadableIds
  <2>3. CASE i <= posted
    BY <1>1, <1>2, <2>1, <2>2, <2>3 DEF Safe, OlderDaysAreCollected
  <2>4. CASE i = posted + 1
    <3>1. postedAt[j] \in Nat /\ postedAt[j] <= clock /\ clock \in Nat
      BY <1>5, PostedTime
    <3>2. Day(clock) < Day(postedAt[j])
      BY <1>2, <1>5, <2>1, <2>4
    <3>3. PICK t \in Nat, u \in Nat : t = postedAt[j] /\ u = clock /\ t <= u
      BY <3>1
    <3>4. Day(t) <= Day(u) /\ Day(t) \in Nat /\ Day(u) \in Nat
      BY <3>3, DayOrder, DayFacts
    <3> QED
      BY <3>2, <3>3, <3>4
  <2> QED
    BY <1>1, <2>1, <2>2, <2>3, <2>4
<1> QED
  BY <1>6, <1>7, <1>8, <1>9, <1>10 DEF Safe

LEMMA TickSafe ==
    ASSUME TypeOK, Times, Safe, Tick
    PROVE  Safe'
<1>1. /\ clock' = clock + 1 /\ clock \in Nat
      /\ pc = "rows" => clock' - servedAt <= MaxLag
      /\ UNCHANGED <<posted, postedAt, db, cycle, notes>>
  BY ClockAssumption DEF Tick, TypeOK, Ticks
<1>2. /\ UNCHANGED <<posted, postedAt, stored, dated, cursor, pc, lastCursor, lastDate, page,
                     cutoff, shown, servedAt, batch, newCursor, passed, excused>>
      /\ missed' = missed
  BY <1>1 DEF db, cycle, base, served, notes
<1>3. Known' /\ Walked' /\ Done' /\ NoLoss' /\ OlderDaysAreCollected'
  BY <1>2 DEF Safe, Known, Walked, Done, NoLoss, OlderDaysAreCollected, Window, Collected,
              Covered, Top
<1>4. Day(clock) <= Day(clock') /\ Day(clock) \in Nat /\ Day(clock') \in Nat
  <2>1. PICK t \in Nat, u \in Nat : t = clock /\ u = clock' /\ t <= u
    BY <1>1
  <2> QED
    BY <2>1, DayOrder, DayFacts
<1>5. Walking'
  <2>1. SUFFICES ASSUME pc \in {"request", "rows"}
                 PROVE  /\ cutoff' <= Now' - Delay
                        /\ (newCursor > lastCursor => Ripe(newCursor))'
    BY <1>1, <1>2 DEF Safe, Walking
  <2>2. cutoff' <= Now' - Delay
    BY <1>1, <1>2, <2>1, ClockAssumption DEF Safe, Walking, TypeOK, Now
  <2>3. ASSUME newCursor > lastCursor PROVE Ripe(newCursor)'
    <3>1. Ripe(newCursor) /\ newCursor \in Ids /\ newCursor <= posted
      BY <2>1, <2>3 DEF Safe, Walking, Known, TypeOK, Ids
    <3>2. PICK t \in Nat : t = postedAt[newCursor]
      BY <3>1, PostedTime
    <3>3. Day(t) \in Nat
      BY DayFacts
    <3> QED
      BY <1>2, <1>4, <3>1, <3>2, <3>3 DEF Ripe, ListDay
  <2> QED
    BY <1>2, <2>2, <2>3
<1> QED
  BY <1>3, <1>5 DEF Safe

LEMMA StartRunSafe ==
    ASSUME TypeOK, Times, Idle, Safe, StartRun
    PROVE  Safe'
<1>1. /\ pc' = "request" /\ page' = 1 /\ cutoff' = Now - Delay
      /\ lastCursor' = cursor /\ newCursor' = cursor
      /\ UNCHANGED <<clock, posted, postedAt, stored, dated, cursor, batch, passed, excused>>
      /\ missed' = missed
  BY DEF StartRun, RequestPage, site, db, notes
<1>2. lastDate' = 0 \/ \E j \in stored : dated[j] = lastDate'
  BY DEF StartRun, IsMaxOf
<1>3. Known'
  BY <1>1 DEF Safe, Known
<1>4. Walking'
  BY <1>1, <1>2, ClockAssumption DEF Walking, Now, TypeOK, Ticks
<1>5. Walked' /\ Done'
  BY <1>1, ReadableIds DEF Walked, Done, Window, TypeOK
<1>6. NoLoss' /\ OlderDaysAreCollected'
  BY <1>1 DEF Safe, NoLoss, OlderDaysAreCollected, Covered
<1> QED
  BY <1>3, <1>4, <1>5, <1>6 DEF Safe

LEMMA ServePageSafe ==
    ASSUME TypeOK, Times, Safe, ServePage
    PROVE  Safe'
<1>1. /\ pc = "request" /\ pc' = "rows" /\ shown' = posted /\ servedAt' = clock
      /\ UNCHANGED <<clock, posted, postedAt, stored, dated, cursor, lastCursor, lastDate,
                     page, cutoff, batch, newCursor, passed, excused>>
      /\ missed' = missed
  BY DEF ServePage, site, db, base, notes
<1>2. Known' /\ NoLoss' /\ OlderDaysAreCollected'
  BY <1>1 DEF Safe, Known, NoLoss, OlderDaysAreCollected, Covered
<1>3. Walking'
  BY <1>1, ClockAssumption DEF Safe, Known, Walking, Ripe, ListDay, Now, TypeOK, Ticks
<1>4. Walked' /\ Done'
  BY <1>1 DEF Safe, Walked, Done, Window, Collected, Covered, Top
<1> QED
  BY <1>2, <1>3, <1>4 DEF Safe

LEMMA EndOfListSafe ==
    ASSUME TypeOK, Times, Safe, EndOfList
    PROVE  Safe'
<1>1. /\ pc = "rows" /\ pc' = "contents" /\ Rows(page, shown) = {}
      /\ UNCHANGED <<clock, posted, postedAt, stored, dated, cursor, lastCursor, lastDate,
                     batch, newCursor, passed, excused>>
      /\ missed' = missed
  BY DEF EndOfList, EndWalk, site, db, base, notes
<1>2. Known' /\ NoLoss' /\ OlderDaysAreCollected' /\ Walking' /\ Walked'
  BY <1>1 DEF Safe, Known, NoLoss, OlderDaysAreCollected, Covered, Walking, Walked
<1>3. page \in Nat \ {0} /\ shown \in Nat
  BY <1>1, BoundsAssumption DEF TypeOK
<1>4. shown - PageSize * (page - 1) <= 0
  BY <1>1, <1>3, NoRows
<1>5. \A i \in Readable : i > shown - PageSize * (page - 1)
  <2>1. PICK k \in Nat : k = PageSize * (page - 1)
    BY <1>3, BoundsAssumption
  <2> QED
    BY <1>3, <1>4, <2>1, ReadableIds
<1>6. Done'
  BY <1>1, <1>5 DEF Safe, Walked, Done, Window, Collected, Covered, Top
<1> QED
  BY <1>2, <1>6 DEF Safe

LEMMA FetchContentsSafe ==
    ASSUME TypeOK, Times, Safe, FetchContents
    PROVE  Safe'
<1>1. PICK corrected \in SUBSET {e \in batch : e.at % DayLength = 0} :
          batch' = (batch \ corrected)
             \cup {[e EXCEPT !.at = postedAt[e.id]] : e \in corrected}
  BY DEF FetchContents
<1>2. /\ pc = "contents" /\ pc' = "save"
      /\ UNCHANGED <<clock, posted, postedAt, stored, dated, cursor, lastCursor, lastDate,
                     newCursor, passed, excused>>
      /\ missed' = missed
  BY DEF FetchContents, site, db, base, notes
<1>3. ASSUME NEW e \in batch' PROVE Day(e.at) = Day(postedAt[e.id])
  <2>1. CASE e \in batch
    BY <2>1 DEF Safe, Known
  <2>2. CASE e \notin batch
    <3>1. PICK f \in corrected : e = [f EXCEPT !.at = postedAt[f.id]]
      BY <1>1, <2>2
    <3>2. f \in Entry
      BY DEF TypeOK
    <3>3. e.id = f.id /\ e.at = postedAt[f.id]
      BY <3>1, <3>2 DEF Entry
    <3> QED
      BY <3>3
  <2> QED
    BY <2>1, <2>2
<1>4. ASSUME NEW i, Collected(i) PROVE Collected(i)'
  <2>1. PICK e \in batch : e.id = i
    BY <1>4 DEF Collected
  <2>2. CASE e \notin corrected
    BY <1>1, <2>1, <2>2 DEF Collected
  <2>3. CASE e \in corrected
    <3> DEFINE f == [e EXCEPT !.at = postedAt[e.id]]
    <3>1. f \in batch'
      BY <1>1, <2>3
    <3>2. f.id = i
      BY <2>1 DEF TypeOK, Entry
    <3> QED
      BY <3>1, <3>2 DEF Collected
  <2> QED
    BY <2>2, <2>3
<1>5. Known' /\ NoLoss' /\ OlderDaysAreCollected' /\ Walking' /\ Walked'
  BY <1>2, <1>3 DEF Safe, Known, NoLoss, OlderDaysAreCollected, Covered, Walking, Walked
<1>6. Done'
  BY <1>2, <1>4 DEF Safe, Done, Window, Covered
<1> QED
  BY <1>5, <1>6 DEF Safe

\* Of a saved batch every article gets the day it was posted on.
LEMMA UpsertKnown ==
    ASSUME TypeOK, Known, NEW saved, saved \subseteq batch, Upsert(saved)
    PROVE  \A j \in stored' : j <= posted /\ dated'[j] = Day(postedAt[j])
<1>1. stored' = stored \cup {e.id : e \in saved} /\ stored' \subseteq Ids
  BY UpsertTypes
<1>2. SUFFICES ASSUME NEW j \in stored'
               PROVE  j <= posted /\ dated'[j] = Day(postedAt[j])
  OBVIOUS
<1>3. j \in Ids
  BY <1>1
<1>4. CASE \E e \in saved : e.id = j
  <2>1. PICK e \in saved : e.id = j /\ dated'[j] = Day(e.at)
    BY <1>3, <1>4, Saved
  <2>2. e \in batch /\ e.id <= newCursor /\ newCursor <= posted
    BY DEF TypeOK, Known
  <2> QED
    BY <1>3, <2>1, <2>2 DEF Known, TypeOK, Ids
<1>5. CASE ~\E e \in saved : e.id = j
  <2>1. dated'[j] = dated[j]
    BY <1>3, <1>5, Saved
  <2> QED
    BY <1>1, <1>5, <2>1 DEF Known
<1> QED
  BY <1>4, <1>5

\* Storing rows of the batch leaves no older day incomplete, but for what is
\* recorded: what is older than a new article lies below it, so the walk has come
\* past it.
LEMMA UpsertOlder ==
    ASSUME TypeOK, Times, Safe, pc = "save", NEW saved, saved \subseteq batch, Upsert(saved),
           UNCHANGED <<posted, postedAt>>, missed \subseteq missed',
           \A i \in Ids \ stored' : \A j \in stored' :
               Collected(i) /\ Day(postedAt[i]) < dated'[j] => i \in missed'
    PROVE  OlderDaysAreCollected'
<1>1. /\ stored' = stored \cup {e.id : e \in saved} /\ excused' = excused \cup passed
      /\ stored' \subseteq Ids
  BY UpsertTypes
<1>2. \A j \in stored' : j <= posted /\ dated'[j] = Day(postedAt[j])
  BY UpsertKnown DEF Safe
<1>3. \A i : i \in passed \/ Covered(i) => Covered(i)'
  BY <1>1 DEF Covered
<1>4. SUFFICES ASSUME NEW i \in Readable, i <= posted, NEW j \in stored',
                      Day(postedAt[i]) < dated'[j]
               PROVE  Covered(i)'
  BY DEF OlderDaysAreCollected
<1>5. i \in Ids /\ i \in Nat \ {0} /\ j \in Ids /\ j <= posted
  BY <1>1, <1>2, ReadableIds
<1>6. Day(postedAt[i]) < Day(postedAt[j])
  BY <1>2, <1>4
<1>7. CASE j \in stored
  <2>1. Day(postedAt[i]) < dated[j]
    BY <1>6, <1>7 DEF Safe, Known
  <2>2. i \in Readable \cap 1..posted
    BY <1>4, <1>5 DEF TypeOK
  <2>3. Covered(i)
    BY <1>7, <2>1, <2>2 DEF Safe, OlderDaysAreCollected
  <2> QED
    BY <1>3, <2>3
<1>8. CASE j \notin stored
  <2>1. PICK e \in batch : e.id = j
    BY <1>1, <1>8
  <2>2. j <= newCursor
    BY <2>1 DEF TypeOK
  <2>3. i < j
    <3>1. SUFFICES ASSUME j <= i PROVE FALSE
      BY <1>5 DEF Ids
    <3>2. PICK t \in Nat, u \in Nat : t = postedAt[j] /\ u = postedAt[i] /\ Day(t) <= Day(u)
      BY <1>4, <1>5, <3>1, PostedOrder
    <3>3. Day(t) \in Nat /\ Day(u) \in Nat
      BY DayFacts
    <3> QED
      BY <1>6, <3>2, <3>3
  <2>4. CASE i <= lastCursor
    <3>1. lastCursor = cursor
      BY DEF TypeOK
    <3> QED
      BY <1>3, <2>4, <3>1 DEF Safe, NoLoss
  <2>5. CASE lastCursor < i
    <3>1. Window(i)
      BY <1>5, <2>2, <2>3, <2>5 DEF Window, Ids, TypeOK
    <3>2. Collected(i) \/ i \in passed \/ Covered(i)
      BY <3>1 DEF Safe, Done
    <3>3. Collected(i) => Covered(i)'
      BY <1>4, <1>5 DEF Covered
    <3> QED
      BY <1>3, <3>2, <3>3
  <2> QED
    BY <1>5, <2>4, <2>5 DEF TypeOK
<1> QED
  BY <1>7, <1>8

LEMMA SaveArticlesSafe ==
    ASSUME TypeOK, Times, Safe, SaveArticles
    PROVE  Safe'
<1>1. /\ pc = "save" /\ pc' = "cursor" /\ Upsert(batch)
      /\ UNCHANGED <<clock, posted, postedAt, cursor, lastCursor, lastDate, batch, newCursor,
                     passed>>
      /\ missed' = missed
  BY DEF SaveArticles, site, base
<1>2. /\ stored' = stored \cup {e.id : e \in batch} /\ excused' = excused \cup passed
      /\ stored' \subseteq Ids
  BY <1>1, UpsertTypes
<1>3. \A j \in stored' : j <= posted /\ dated'[j] = Day(postedAt[j])
  BY <1>1, UpsertKnown DEF Safe
<1>4. Known' /\ Walking' /\ Walked'
  BY <1>1, <1>3 DEF Safe, Known, Walking, Walked
<1>5. \A i : Collected(i) => i \in stored'
  BY <1>2 DEF Collected
<1>6. Done'
  BY <1>1, <1>2, <1>5 DEF Safe, Done, Window, Covered
<1>7. NoLoss'
  BY <1>1, <1>2 DEF Safe, NoLoss, Covered
<1>8. OlderDaysAreCollected'
  BY <1>1, <1>5, UpsertOlder
<1> QED
  BY <1>4, <1>6, <1>7, <1>8 DEF Safe

LEMMA NothingToSaveSafe ==
    ASSUME TypeOK, Times, Safe, NothingToSave
    PROVE  Safe'
<1>1. /\ pc = "save" /\ pc' = "cursor" /\ batch = {}
      /\ UNCHANGED <<clock, posted, postedAt, stored, dated, cursor, lastCursor, lastDate,
                     batch, newCursor, passed>>
      /\ missed' = missed /\ excused \subseteq excused'
      /\ newCursor > lastCursor => excused' = excused \cup passed
  BY DEF NothingToSave, site, db, base
<1>2. Known' /\ Walking' /\ Walked' /\ NoLoss' /\ OlderDaysAreCollected'
  BY <1>1 DEF Safe, Known, Walking, Walked, NoLoss, OlderDaysAreCollected, Covered
<1>3. ASSUME NEW i \in Readable, Window(i)
      PROVE  Covered(i)'
  <2>1. newCursor > lastCursor
    BY <1>3, ReadableIds DEF Window, TypeOK
  <2> QED
    BY <1>1, <1>3, <2>1 DEF Safe, Done, Collected, Covered
<1>4. Done'
  BY <1>1, <1>3 DEF Done, Window
<1> QED
  BY <1>2, <1>4 DEF Safe

\* A cycle that ends leaves only the database behind.
LEMMA EndRunSafe ==
    ASSUME TypeOK, Safe, EndRun, UNCHANGED site, cursor' \in 0..posted,
           \A j \in stored' : j <= posted /\ dated'[j] = Day(postedAt[j]),
           NoLoss', OlderDaysAreCollected'
    PROVE  Safe'
<1>1. /\ pc' = "idle" /\ batch' = {} /\ newCursor' = 0
      /\ UNCHANGED <<clock, posted, postedAt>> /\ posted \in Nat
  BY BoundsAssumption DEF EndRun, ForgetCycle, site, TypeOK
<1>2. Known'
  BY <1>1 DEF Known
<1>3. Walking' /\ Walked' /\ Done'
  BY <1>1 DEF Walking, Walked, Done
<1> QED
  BY <1>2, <1>3 DEF Safe

LEMMA NextSafe ==
    ASSUME Skew <= 0, Lead < DayLength, QuietMidnights, TypeOK, Times, Idle, Safe, [Next]_vars
    PROVE  Safe'
<1>1. CASE UNCHANGED vars
  <2>1. /\ UNCHANGED <<clock, posted, postedAt, stored, dated, cursor, pc, lastCursor, lastDate,
                       page, cutoff, shown, servedAt, batch, newCursor, passed, excused>>
        /\ missed' = missed
    BY <1>1 DEF vars, site, db, cycle, base, served, notes
  <2>2. Known' /\ Walked' /\ Done' /\ NoLoss' /\ OlderDaysAreCollected'
    BY <2>1 DEF Safe, Known, Walked, Done, NoLoss, OlderDaysAreCollected, Window, Collected,
                Covered, Top
  <2>3. Walking'
    BY <2>1 DEF Safe, Walking, Ripe, ListDay, Now
  <2> QED
    BY <2>2, <2>3 DEF Safe
<1>2. CASE UpdateCursor
  <2>1. /\ EndRun /\ pc = "cursor"
        /\ cursor' = IF newCursor > lastCursor THEN newCursor ELSE cursor
        /\ UNCHANGED <<clock, posted, postedAt, stored, dated, excused>> /\ missed' = missed
    BY <1>2 DEF UpdateCursor, site, notes
  <2>2. cursor' \in 0..posted
    BY <2>1 DEF Safe, Known, TypeOK
  <2>3. OlderDaysAreCollected'
    BY <2>1 DEF Safe, OlderDaysAreCollected, Covered
  <2>4. NoLoss'
    <3>1. SUFFICES ASSUME NEW i \in Readable, i <= cursor'
                   PROVE  Covered(i)
      BY <2>1 DEF NoLoss, Covered
    <3>2. CASE i <= cursor
      BY <3>1, <3>2 DEF Safe, NoLoss
    <3>3. CASE ~(i <= cursor)
      <4>1. Window(i)
        BY <2>1, <3>1, <3>3, ReadableIds DEF Window, TypeOK
      <4> QED
        BY <2>1, <3>1, <4>1 DEF Safe, Done
    <3> QED
      BY <3>2, <3>3
  <2> QED
    BY <2>1, <2>2, <2>3, <2>4, EndRunSafe DEF Safe, Known, site
<1>3. CASE ListFails \/ SaveFails \/ CursorWriteFails \/ CycleLost
  <2>1. /\ EndRun /\ UNCHANGED site /\ UNCHANGED <<posted, postedAt, stored, dated, cursor, excused>>
        /\ missed' = missed
    BY <1>3 DEF ListFails, SaveFails, CursorWriteFails, CycleLost, site, db
  <2>2. cursor' \in 0..posted
    BY <2>1 DEF Safe, Known, TypeOK
  <2>3. NoLoss' /\ OlderDaysAreCollected'
    BY <2>1 DEF Safe, NoLoss, OlderDaysAreCollected, Covered
  <2> QED
    BY <2>1, <2>2, <2>3, EndRunSafe DEF Safe, Known
<1>4. CASE SavePartially
  <2>1. PICK saved \in SUBSET batch : Upsert(saved)
    BY <1>4 DEF SavePartially
  <2>2. pc = "save" /\ EndRun /\ UNCHANGED site /\ cursor' = cursor /\ Misses
    BY <1>4 DEF SavePartially
  <2>3. stored \subseteq stored' /\ excused \subseteq excused' /\ missed \subseteq missed'
    BY <2>1, <2>2, UpsertTypes DEF Misses
  <2>4. NoLoss'
    BY <2>2, <2>3 DEF Safe, NoLoss, Covered
  <2>5. OlderDaysAreCollected'
    <3>1. \A i \in Ids \ stored' : \A j \in stored' :
              Collected(i) /\ Day(postedAt[i]) < dated'[j] => i \in missed'
      BY <2>2 DEF Misses, Collected
    <3> QED
      BY <2>1, <2>2, <2>3, <3>1, UpsertOlder DEF site
  <2>6. \A j \in stored' : j <= posted /\ dated'[j] = Day(postedAt[j])
    BY <2>1, UpsertKnown DEF Safe
  <2>7. cursor' \in 0..posted
    BY <2>2 DEF Safe, Known, TypeOK
  <2> QED
    BY <2>2, <2>4, <2>5, <2>6, <2>7, EndRunSafe
<1> QED
  BY <1>1, <1>2, <1>3, <1>4, PublishSafe, TickSafe, StartRunSafe, ServePageSafe, ReadRowsSafe,
     EndOfListSafe, FetchContentsSafe, SaveArticlesSafe, NothingToSaveSafe
     DEF Next, Progress, Failure

LEMMA InitSafe == Init => Safe
<1>1. SUFFICES ASSUME Init PROVE Safe
  OBVIOUS
<1>2. Known /\ Walking /\ Walked /\ Done
  BY <1>1 DEF Init, Known, Walking, Walked, Done
<1>3. NoLoss
  BY <1>1, ReadableIds DEF Init, NoLoss
<1>4. OlderDaysAreCollected
  BY <1>1 DEF Init, OlderDaysAreCollected
<1> QED
  BY <1>2, <1>3, <1>4 DEF Safe

\* With a clock that is not behind and quiet midnights: the articles of the list are collected or
\* left beyond the last page, the dates are right, and the walk never stops or
\* moves its cursor too early.
THEOREM CafeInvariant ==
    ASSUME Skew <= 0, Lead < DayLength
    PROVE  Spec /\ []QuietMidnights => [](TypeOK /\ Safe)
<1>1. Init => TypeOK /\ Times /\ Idle /\ Safe
  BY InitTypes, InitSafe DEF Init, Idle
<1>2. TypeOK /\ Times /\ Idle /\ Safe /\ QuietMidnights /\ [Next]_vars
          => TypeOK' /\ Times' /\ Idle' /\ Safe'
  BY NextTypes, NextIdle, NextSafe
<1> QED
  BY <1>1, <1>2, PTL DEF Spec

\* A page may be read, or the machine's clock may be, in the next day: if nothing
\* was posted in the first ticks of a day, a monitored article is never left behind
\* by the cursor of the cafe, and the date check of the walk skips nothing, for any
\* lag and any lead of the clock that make less than a day together.
THEOREM LagIsHarmless ==
    ASSUME Skew <= 0, Lead < DayLength
    PROVE  Spec /\ []QuietMidnights => [](NoLoss /\ OlderDaysAreCollected)
<1>1. TypeOK /\ Safe => NoLoss /\ OlderDaysAreCollected
  BY DEF Safe
<1> QED
  BY <1>1, CafeInvariant, PTL

\* Without a lag every midnight is quiet.
LEMMA QuietWithoutLag ==
    ASSUME Skew = 0, MaxLag = 0, TypeOK
    PROVE  QuietMidnights
<1> SUFFICES ASSUME NEW i \in Ids PROVE postedAt[i] % DayLength >= 0
  BY DEF QuietMidnights, Lead
<1>1. PICK t \in Nat : t = postedAt[i]
  BY ClockAssumption DEF TypeOK, Ticks
<1> QED
  BY <1>1, DayFacts

\* With one clock and pages read as they are served, a monitored article is never
\* left behind by the cursor of the cafe, however the delay, the pages, the
\* failures and the publications fall together.
THEOREM NoLossHolds ==
    ASSUME Skew = 0, MaxLag = 0
    PROVE  Spec => []NoLoss
<1>1. Skew <= 0 /\ Lead < DayLength
  BY ClockAssumption DEF Lead
<1>2. Spec => []QuietMidnights
  BY QuietWithoutLag, CafeTypes, PTL
<1> QED
  BY <1>1, <1>2, LagIsHarmless, PTL

\* Under the same conditions a row older by date than the newest stored article
\* belongs to a day that is collected completely, but for rows whose save failed.
THEOREM OlderDaysAreCollectedHolds ==
    ASSUME Skew = 0, MaxLag = 0
    PROVE  Spec => []OlderDaysAreCollected
<1>1. Skew <= 0 /\ Lead < DayLength
  BY ClockAssumption DEF Lead
<1>2. Spec => []QuietMidnights
  BY QuietWithoutLag, CafeTypes, PTL
<1> QED
  BY <1>1, <1>2, LagIsHarmless, PTL

-----------------------------------------------------------------------------
(* The refinement of CursorFeed.                                           *)

\* Nothing that is settled is unsettled again ...
LEMMA SettledStays ==
    ASSUME TypeOK, [Next]_vars
    PROVE  Settled \subseteq Settled'
<1>1. posted \in Nat /\ posted' \in {posted, posted + 1}
      /\ stored \subseteq stored' /\ excused \subseteq excused' /\ missed \subseteq missed'
  <2>1. CASE UNCHANGED vars
    BY <2>1 DEF vars, site, db, notes, TypeOK
  <2>2. CASE Publish \/ Tick
    BY <2>2 DEF Publish, Tick, db, notes, TypeOK
  <2>3. CASE Progress
    BY <2>3 DEF Progress, StartRun, ServePage, ReadRows, EndOfList, FetchContents,
         SaveArticles, NothingToSave, UpdateCursor, Upsert, site, db, notes, TypeOK
  <2>4. CASE Failure
    BY <2>4 DEF Failure, ListFails, SaveFails, SavePartially, CursorWriteFails, CycleLost,
         Upsert, Misses, site, db, TypeOK
  <2> QED
    BY <2>1, <2>2, <2>3, <2>4 DEF Next
<1> QED
  BY <1>1 DEF Settled, Covered

\* ... and the step that moves the cursor settles nothing.
LEMMA CursorStep ==
    ASSUME TypeOK, [Next]_vars, cursor' # cursor
    PROVE  Settled' = Settled /\ cursor' > cursor /\ cursor' \in 1..MaxId
<1>1. UpdateCursor
  BY DEF Next, Progress, Failure, Publish, Tick, StartRun, ServePage, ReadRows, EndOfList,
     FetchContents, SaveArticles, NothingToSave, ListFails, SaveFails, SavePartially,
     CursorWriteFails, CycleLost, db, vars
<1>2. cursor' = newCursor /\ newCursor > lastCursor /\ lastCursor = cursor
  BY <1>1 DEF UpdateCursor, TypeOK
<1>3. Settled' = Settled
  BY <1>1 DEF UpdateCursor, Settled, Covered, site, notes
<1> QED
  BY <1>2, <1>3, BoundsAssumption DEF TypeOK

LEMMA FeedStep ==
    ASSUME TypeOK, Safe, TypeOK', Safe', [Next]_vars
    PROVE  Feed!Next
<1> DEFINE C == "cafe"
<1>1. Settled' \subseteq Ids
  <2>1. posted' \in 0..MaxId
    BY DEF TypeOK
  <2> QED
    BY <2>1, ArticlesAssumption, BoundsAssumption DEF Settled, Ids
<1>2. CASE cursor' = cursor
  <2>1. [f \in {C} |-> Settled'] \in [{C} -> SUBSET Ids]
    BY <1>1
  <2>2. \A f \in {C} : [g \in {C} |-> Settled][f] \subseteq [g \in {C} |-> Settled'][f]
    BY SettledStays
  <2>3. Feed!Settle
    BY <1>2, <2>1, <2>2 DEF Feed!Settle
  <2> QED
    BY <2>3 DEF Feed!Next
<1>3. CASE cursor' # cursor
  <2>1. Settled' = Settled /\ cursor' > cursor /\ cursor' \in Ids
    BY <1>3, CursorStep DEF Ids
  <2>2. 1..cursor' \subseteq Settled'
    <3>1. cursor' \in Nat /\ posted' \in Nat /\ cursor' <= posted'
      BY DEF Safe, Known, TypeOK
    <3> QED
      BY <3>1 DEF Settled, Safe, NoLoss
  <2>3. [f \in {C} |-> cursor'] = [[f \in {C} |-> cursor] EXCEPT ![C] = cursor']
    OBVIOUS
  <2>4. Feed!Advance(C)
    BY <2>1, <2>2, <2>3 DEF Feed!Advance
  <2> QED
    BY <2>4 DEF Feed!Next
<1> QED
  BY <1>2, <1>3

\* The crawl of the cafe implements CursorFeed, under the conditions of
\* LagIsHarmless ...
THEOREM CafeImplementsFeed ==
    ASSUME Skew <= 0, Lead < DayLength
    PROVE  Spec /\ []QuietMidnights => FeedSpec
<1>1. Init => Feed!Init
  <2> SUFFICES ASSUME Init PROVE Feed!Init
    OBVIOUS
  <2>1. Settled = {} /\ cursor = 0
    BY DEF Init, Settled
  <2> QED
    BY <2>1 DEF Feed!Init
<1>2. TypeOK /\ Safe /\ TypeOK' /\ Safe' /\ [Next]_vars => [Feed!Next]_(Feed!vars)
  BY FeedStep
<1> QED
  BY <1>1, <1>2, CafeInvariant, PTL DEF Spec, FeedSpec, Feed!Spec

\* ... and so without a further one if pages are read as they are served.
THEOREM CafeImplementsFeedWithoutLag ==
    ASSUME Skew = 0, MaxLag = 0
    PROVE  Spec => FeedSpec
<1>1. Skew <= 0 /\ Lead < DayLength
  BY ClockAssumption DEF Lead
<1>2. Spec => []QuietMidnights
  BY QuietWithoutLag, CafeTypes, PTL
<1> QED
  BY <1>1, <1>2, CafeImplementsFeed, PTL
=============================================================================
