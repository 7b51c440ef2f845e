----------------------------- MODULE CafeCrawl -----------------------------
(***************************************************************************)
(* The crawl cycle of a Naver cafe: one walk over the list of all boards,  *)
(* one cursor for the whole cafe, and a delay that keeps back articles the *)
(* search index does not know yet.                                         *)
(*                                                                         *)
(* What BoardCrawl leaves out is the subject here: the creation time of a  *)
(* row.  The list shows HH:MM for an article of today and the date for an  *)
(* older one; ParseCreatedAt turns both into a time with the clock of the  *)
(* machine, at the moment it reads the row, and that time decides which    *)
(* rows are held back, which end the walk, and which date is stored.       *)
(*                                                                         *)
(* Time is counted in ticks of one minute, the resolution of a row; a day  *)
(* has DayLength of them and the clock of the site starts on its second    *)
(* day, so that yesterday has a number.  Articles are numbered as they are *)
(* published.  Deletions and the retention are left to BoardCrawl.         *)
(***************************************************************************)
EXTENDS Integers, FiniteSets

CONSTANTS
    MaxId,          \* bound: articles the cafe ever publishes
    MaxTime,        \* bound: the last tick of the behaviour
    DayLength,      \* ticks of a day
    PageSize,       \* rows on a list page
    MaxPageCount,   \* list pages a walk visits at most
    Delay,          \* crawling_delay_minutes
    Skew,           \* ticks the machine's clock is behind the site's, or ahead if < 0
    MaxLag,         \* bound: ticks between serving a page and reading its rows
    Monitored,      \* the IDs posted to a board of the configuration
    Skipped,        \* the IDs whose row cannot be read
    RowFailures,    \* may one row of SaveArticles fail while others are stored?
    MaxFaults       \* bound: failures, panics and crashes of a behaviour

ASSUME ClockAssumption ==
    /\ DayLength \in Nat \ {0}
    /\ MaxTime \in Nat /\ MaxTime >= DayLength
    /\ Delay \in Nat
    /\ Skew \in (-DayLength)..DayLength
    /\ MaxLag \in Nat

ASSUME BoundsAssumption ==
    /\ MaxId \in Nat \ {0}
    /\ PageSize \in Nat \ {0}
    /\ MaxPageCount \in Nat \ {0}
    /\ MaxFaults \in Nat

ASSUME ArticlesAssumption ==
    /\ Monitored \subseteq 1..MaxId
    /\ Skipped \subseteq 1..MaxId
    /\ RowFailures \in BOOLEAN

Ids      == 1..MaxId
Ticks    == DayLength..MaxTime
Readable == Monitored \ Skipped

\* The day a tick falls on, and the first tick of that day.
Day(t)      == t \div DayLength + 1
Midnight(t) == t - (t % DayLength)

\* What a clock that is ahead may show at the end.
LastTime == MaxTime + DayLength

\* Day 1 is the day before the first: what a row of that day may be taken for.
Days  == 1..Day(LastTime)
Entry == [id : Ids, page : 1..MaxPageCount, at : 0..LastTime]

-----------------------------------------------------------------------------
VARIABLES
    (* the cafe *)
    clock,      \* the site's clock
    posted,     \* how many articles it has published
    postedAt,   \* when each of them was
    (* the database *)
    stored,     \* the articles of the cafe in rss_provider_article
    dated,      \* the day of their created_date
    cursor,     \* latest_crawled_article_id of the cafe, 0 for no row
    (* the crawl cycle, lost when the process stops *)
    pc,         \* where the cycle stands
    lastCursor, \* what GetCrawlingCursor returned: the ID ...
    lastDate,   \* ... and the day of the newest stored article, 0 for none
    page,       \* the page it is working on
    cutoff,     \* delayCutoffTime of that page
    shown,      \* the newest article when the site served the page ...
    servedAt,   \* ... and the time it did
    batch,      \* the articles collected, with their CreatedAt
    newCursor,  \* the newest article the walk did not hold back
    (* bookkeeping of the specification *)
    passed,     \* articles this cycle left beyond its last page
    excused,    \* the same of all cycles that stored or moved something
    missed,     \* articles a save left out though it stored some of a later day
    faults      \* failures, panics and crashes so far

site  == <<clock, posted, postedAt>>
db    == <<stored, dated, cursor>>
base  == <<lastCursor, lastDate>>
served == <<shown, servedAt>>
cycle == <<pc, base, page, cutoff, served, batch, newCursor, passed>>
notes == <<excused, missed, faults>>
vars  == <<site, db, cycle, notes>>

IsMaxOf(m, S) == m \in S /\ \A k \in S : k <= m

\* time.Now() of the crawler's machine.
Now == clock - Skew

-----------------------------------------------------------------------------
(* A list page and what the crawler reads out of it.                       *)

\* The rows of page p of a list whose newest article is n.
Rows(p, n) == {i \in 1..n : (n - i) \div PageSize = p - 1}

\* The cell td_date of a row holds HH:MM if the article is of the day the
\* page was served, otherwise only the date.
ShowsTime(i) == Day(postedAt[i]) = Day(servedAt)

\* HH:MM is taken as a time of the day it is read, of the day before if that
\* is still to come; a date becomes 00:00:00 of that date.
ParseCreatedAt(i) ==
    LET today == Midnight(Now) + (postedAt[i] % DayLength)
    IN  IF ~ShowsTime(i) THEN Midnight(postedAt[i])
        ELSE IF today > Now THEN today - DayLength
        ELSE today

\* The delay filter; 00:00:00 is taken for a row that shows no time.
Held(i) ==
    /\ ParseCreatedAt(i) % DayLength # 0
    /\ ParseCreatedAt(i) > cutoff

\* Mutant: an article of the newest stored day ends the walk too.
StopsOnSameDay(S) ==
    {i \in S \ Skipped :
        \/ i <= lastCursor
        \/ ~Held(i) /\ Day(ParseCreatedAt(i)) <= lastDate}

\* Mutant: a row that is held back ends the walk.
StopsOnHeld(S) ==
    {i \in S \ Skipped :
        i <= lastCursor \/ Held(i) \/ Day(ParseCreatedAt(i)) < lastDate}

\* The first readable row that is not newer than the cursor ends the walk,
\* and the first that is not held back and older by date than the newest
\* stored article.
Stops(S) ==
    {i \in S \ Skipped :
        \/ i <= lastCursor
        \/ ~Held(i) /\ Day(ParseCreatedAt(i)) < lastDate}

\* The rows of a page the walk gets to and can read.
Visited(S) == {i \in S \ Skipped : \A s \in Stops(S) : i > s}

\* Mutant: what is held back moves the cursor all the same.
MovingWithHeld(S) == Visited(S)

\* The rows that move newCursor, of whatever board ...
Moving(S) == {i \in Visited(S) : ~Held(i)}

\* ... and those that are collected.
Taken(S) == {i \in Visited(S) \cap Monitored : ~Held(i)}

-----------------------------------------------------------------------------
Init ==
    /\ clock = DayLength
    /\ posted = 0
    /\ postedAt = [i \in Ids |-> DayLength]
    /\ stored = {}
    /\ dated = [i \in Ids |-> 1]
    /\ cursor = 0
    /\ pc = "idle"
    /\ lastCursor = 0
    /\ lastDate = 0
    /\ page = 0
    /\ cutoff = 0
    /\ shown = 0
    /\ servedAt = 0
    /\ batch = {}
    /\ newCursor = 0
    /\ passed = {}
    /\ excused = {}
    /\ missed = {}
    /\ faults = 0

-----------------------------------------------------------------------------
(* The cafe and the passing of time.                                       *)

Publish ==
    /\ posted < MaxId
    /\ posted' = posted + 1
    /\ postedAt' = [postedAt EXCEPT ![posted + 1] = clock]
    /\ UNCHANGED <<clock, db, cycle, notes>>

\* A page that was served is read within MaxLag ticks.
Tick ==
    /\ clock < MaxTime
    /\ pc = "rows" => clock - servedAt < MaxLag
    /\ clock' = clock + 1
    /\ UNCHANGED <<posted, postedAt, db, cycle, notes>>

-----------------------------------------------------------------------------
(* crawlArticles: the walk over the list.                                  *)

ForgetPage == shown' = 0 /\ servedAt' = 0

ForgetCycle ==
    /\ lastCursor' = 0
    /\ lastDate' = 0
    /\ page' = 0
    /\ cutoff' = 0
    /\ ForgetPage
    /\ batch' = {}
    /\ newCursor' = 0
    /\ passed' = {}

EndRun == pc' = "idle" /\ ForgetCycle

\* Every page has a cutoff of its own, computed before it is requested.
RequestPage(p) ==
    /\ pc' = "request"
    /\ page' = p
    /\ cutoff' = Now - Delay
    /\ ForgetPage

StartRun ==
    /\ pc = "idle"
    /\ lastCursor' = cursor
    /\ newCursor' = cursor
    /\ \/ stored = {} /\ lastDate' = 0
       \/ \E d \in Days : /\ IsMaxOf(d, {dated[i] : i \in stored})
                          /\ lastDate' = d
    /\ RequestPage(1)
    /\ UNCHANGED <<site, db, batch, passed, notes>>

\* The site serves the page from its list at that moment.
ServePage ==
    /\ pc = "request"
    /\ pc' = "rows"
    /\ shown' = posted
    /\ servedAt' = clock
    /\ UNCHANGED <<site, db, base, page, cutoff, batch, newCursor, passed, notes>>

EndWalk ==
    /\ pc' = "contents"
    /\ page' = 0
    /\ cutoff' = 0
    /\ ForgetPage

\* The loop runs while page <= MaxPageCount.
AtLastPage == page = MaxPageCount

ReadRows ==
    /\ pc = "rows"
    /\ LET S    == Rows(page, shown)
           stop == Stops(S) # {}
       IN  /\ S # {}
           /\ batch' = batch \cup
                  {[id |-> i, page |-> page, at |-> ParseCreatedAt(i)] :
                      i \in Taken(S)}
           /\ \E m \in 0..MaxId :
                  /\ IsMaxOf(m, Moving(S) \cup {newCursor})
                  /\ newCursor' = m
           /\ passed' = IF AtLastPage /\ ~stop
                        THEN {i \in 1..shown : i > lastCursor /\ \A k \in S : i < k}
                        ELSE passed
           /\ IF stop \/ AtLastPage THEN EndWalk ELSE RequestPage(page + 1)
    /\ UNCHANGED <<site, db, base, notes>>

\* No row: the end of the list, or on page 1 a cafe that only has notices.
EndOfList ==
    /\ pc = "rows"
    /\ Rows(page, shown) = {}
    /\ EndWalk
    /\ UNCHANGED <<site, db, base, batch, newCursor, passed, notes>>

\* Contents and their failures are the subject of CafeContent.  Of a row that
\* carries 00:00:00 the content API corrects the creation time, if it answers.
FetchContents ==
    /\ pc = "contents"
    /\ \E corrected \in SUBSET {e \in batch : e.at % DayLength = 0} :
          batch' = (batch \ corrected)
             \cup {[e EXCEPT !.at = postedAt[e.id]] : e \in corrected}
    /\ pc' = "save"
    /\ UNCHANGED <<site, db, base, page, cutoff, served, newCursor, passed, notes>>

-----------------------------------------------------------------------------
(* finalizeExecution.                                                      *)

\* The list is saved backwards, so of an article that was collected from two
\* pages the copy from the lower page is written last and stays.
Upsert(saved) ==
    /\ stored' = stored \cup {e.id : e \in saved}
    /\ dated' = [i \in Ids |->
          IF \E e \in saved : e.id = i
          THEN Day((CHOOSE e \in saved :
                       /\ e.id = i
                       /\ \A f \in saved : f.id = i => e.page <= f.page).at)
          ELSE dated[i]]
    /\ excused' = excused \cup passed

\* The rows of the batch that were not stored, of days older than one that was:
\* what the date check of the next walk takes for stored.
Misses ==
    missed' = missed \cup
        {i \in Ids \ stored' : /\ \E e \in batch : e.id = i
                              /\ \E j \in stored' : Day(postedAt[i]) < dated'[j]}

SaveArticles ==
    /\ pc = "save"
    /\ batch # {}
    /\ Upsert(batch)
    /\ pc' = "cursor"
    /\ UNCHANGED <<site, cursor, base, page, cutoff, served, batch, newCursor>>
    /\ UNCHANGED <<passed, missed, faults>>

\* Without an article to save the cursor still moves over the others.
NothingToSave ==
    /\ pc = "save"
    /\ batch = {}
    /\ pc' = "cursor"
    /\ excused' = IF newCursor > lastCursor THEN excused \cup passed ELSE excused
    /\ UNCHANGED <<site, db, base, page, cutoff, served, batch, newCursor>>
    /\ UNCHANGED <<passed, missed, faults>>

\* The cursor map has an entry only if newCursor is beyond the old cursor.
UpdateCursor ==
    /\ pc = "cursor"
    /\ cursor' = IF newCursor > lastCursor THEN newCursor ELSE cursor
    /\ EndRun
    /\ UNCHANGED <<site, stored, dated, notes>>

-----------------------------------------------------------------------------
(* Failures.                                                               *)

Fault == faults < MaxFaults /\ faults' = faults + 1

\* A page cannot be fetched or shows no article where there must be some: the
\* articles of the pages before it are thrown away too.
ListFails ==
    /\ pc \in {"request", "rows"}
    /\ Fault
    /\ EndRun
    /\ UNCHANGED <<site, db, excused, missed>>

SaveFails ==
    /\ pc = "save"
    /\ batch # {}
    /\ Fault
    /\ EndRun
    /\ UNCHANGED <<site, db, excused, missed>>

\* Mutant: the error of a partial save does not cancel the cursor.
SavePartiallyAndGoOn ==
    /\ RowFailures
    /\ pc = "save"
    /\ Fault
    /\ \E saved \in (SUBSET batch) \ {batch, {}} : Upsert(saved)
    /\ Misses
    /\ pc' = "cursor"
    /\ UNCHANGED <<site, cursor, base, page, cutoff, served, batch, newCursor, passed>>

\* Some rows are committed, the error keeps the cursor where it is.
SavePartially ==
    /\ RowFailures
    /\ pc = "save"
    /\ Fault
    /\ \E saved \in (SUBSET batch) \ {batch, {}} : Upsert(saved)
    /\ Misses
    /\ EndRun
    /\ UNCHANGED <<site, cursor>>

CursorWriteFails ==
    /\ pc = "cursor"
    /\ Fault
    /\ EndRun
    /\ UNCHANGED <<site, db, excused, missed>>

\* The process dies, or the crawl function panics and Run recovers: in both
\* cases the next cycle starts from the database.
CycleLost ==
    /\ pc # "idle"
    /\ Fault
    /\ EndRun
    /\ UNCHANGED <<site, db, excused, missed>>

-----------------------------------------------------------------------------
Progress ==
    \/ StartRun \/ ServePage \/ ReadRows \/ EndOfList \/ FetchContents
    \/ SaveArticles \/ NothingToSave \/ UpdateCursor

Failure ==
    ListFails \/ SaveFails \/ SavePartially \/ CursorWriteFails \/ CycleLost

Next == Publish \/ Tick \/ Progress \/ Failure

Spec == Init /\ [][Next]_vars

\* The scheduler fires again and again and every request has a deadline; time
\* passes whatever the program does.
FairSpec == Spec /\ WF_vars(Progress) /\ SF_vars(Tick)
-----------------------------------------------------------------------------
(* Properties.                                                             *)

\* Every variable has its type, and the state of the cycle agrees with its
\* phase: rows are read from a page that was served in the past, and what was
\* collected lies between the old cursor and the new one.
TypeOK ==
    /\ clock \in Ticks
    /\ posted \in 0..MaxId
    /\ postedAt \in [Ids -> Ticks]
    /\ stored \in SUBSET Ids
    /\ dated \in [Ids -> Days]
    /\ cursor \in 0..MaxId
    /\ pc \in {"idle", "request", "rows", "contents", "save", "cursor"}
    /\ lastCursor \in 0..MaxId
    /\ lastDate \in {0} \cup Days
    /\ page \in 0..MaxPageCount
    /\ cutoff \in (-Delay)..LastTime
    /\ shown \in 0..posted
    /\ servedAt \in 0..clock
    /\ batch \in SUBSET Entry
    /\ newCursor \in 0..MaxId
    /\ passed \in SUBSET Ids
    /\ excused \in SUBSET Ids
    /\ missed \in SUBSET Ids
    /\ faults \in 0..MaxFaults
    (* what is set in which phase *)
    /\ pc \in {"request", "rows"} <=> page # 0
    /\ pc = "rows" <=> servedAt # 0
    /\ pc # "idle" => lastCursor = cursor
    /\ lastCursor <= newCursor
    /\ \A e \in batch : lastCursor < e.id /\ e.id <= newCursor

\* What a walk may go past.
Covered(i) == i \in stored \cup excused \cup missed

\* A monitored article is never left behind by the cursor of the cafe: once
\* the cursor has reached it, it is stored, or a cycle that went past it left
\* it beyond the last page it may visit, or a save that failed for its row
\* stored one of a later day.  Articles that wait for the search index are the
\* hard case: the cursor must stay below every one of them.
NoLoss == \A i \in Readable : i <= cursor => Covered(i)

\* What the second safety net of the walk relies on: a row older by date than
\* the newest stored article belongs to a day that is collected completely,
\* but for rows whose save failed.
OlderDaysAreCollected ==
    \A i \in Readable \cap 1..posted : \A j \in stored :
        Day(postedAt[i]) < dated[j] => Covered(i)

\* What no walk needs to find any more.
Settled == {i \in 1..posted : i \in Readable => Covered(i)}

Feed == INSTANCE CursorFeed WITH Feeds <- {"cafe"},
            settled <- [f \in {"cafe"} |-> Settled], cursor <- [f \in {"cafe"} |-> cursor]

\* The cycles implement a feed with one cursor: it moves forward only, in a step
\* that settles nothing, to where everything is settled already.
FeedSpec == Feed!Spec

\* The cursor moves over an article only when everything the cycle collected
\* is in the database, and then to the newest article it did not hold back.
CursorFollowsFullSave ==
    [][cursor' # cursor =>
          /\ cursor' > cursor
          /\ \A e \in batch : e.id \in stored /\ e.id <= cursor']_vars

\* An article that is old enough for the delay before the behaviour ends is
\* stored at last, whatever failed in between, unless it is excused or lies
\* beyond the last page: neither the delay nor the date check of the walk makes
\* an article wait forever.
EventuallyCollected ==
    \A i \in Readable :
        (i <= posted /\ postedAt[i] + Delay + Skew <= MaxTime)
            ~> \/ Covered(i)
               \/ posted - i >= PageSize * MaxPageCount
=============================================================================
