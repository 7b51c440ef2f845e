----------------------------- MODULE BoardCrawl -----------------------------
(***************************************************************************)
(* The crawl cycle of one provider that keeps a cursor per board (Yeosu    *)
(* city hall and Ssangbong elementary school): the site that is crawled,   *)
(* the walk over the list pages of every board, the content phase, the     *)
(* SaveArticles transaction and the cursor writes that follow it.          *)
(*                                                                         *)
(* Articles of a board are numbered in the order the site publishes them,  *)
(* so an article is its ID; the page lists show the newest ID first.  The  *)
(* creation time is kept as a day, which is all the crawlers compare.      *)
(* The site is outside the program: it publishes and deletes at any time,  *)
(* also between two page requests of one walk.                             *)
(***************************************************************************)
EXTENDS Integers, FiniteSets

CONSTANTS
    Boards,         \* the boards of the provider's configuration
    NoBoard,        \* "no board is being walked"
    MaxId,          \* bound: articles a board ever publishes
    MaxDay,         \* bound: the last day of the behaviour
    PageSize,       \* rows on a list page
    MaxPageCount,   \* list pages a walk visits at most
    ArchiveDays,    \* retention of the provider, 0 keeps everything
    Unreadable,     \* the IDs whose row extractArticle rejects
    RowFailures,    \* may one row of SaveArticles fail while others are stored?
    MaxFaults       \* bound: failures, panics and crashes of a behaviour

ASSUME BoardsAssumption ==
    /\ Boards # {}
    /\ NoBoard \notin Boards

ASSUME BoundsAssumption ==
    /\ MaxId \in Nat \ {0}
    /\ MaxDay \in Nat \ {0}
    /\ PageSize \in Nat \ {0}
    /\ MaxPageCount \in Nat \ {0}
    /\ ArchiveDays \in Nat
    /\ MaxFaults \in Nat

ASSUME OptionsAssumption ==
    /\ Unreadable \subseteq 1..MaxId
    /\ RowFailures \in BOOLEAN

Ids   == 1..MaxId
Days  == 1..MaxDay
Entry == [board : Boards, id : Ids, page : 1..MaxPageCount]

-----------------------------------------------------------------------------
VARIABLES
    (* the web site *)
    today,      \* the current day
    posted,     \* how many articles each board has published
    listed,     \* the published articles that were not deleted since
    createdOn,  \* the day each article was published
    (* the database *)
    stored,     \* the articles of each board in rss_provider_article
    filled,     \* those of them whose content column is not empty
    cursor,     \* latest_crawled_article_id of each board, 0 for no row
    (* the crawl cycle, lost when the process stops *)
    pc,         \* where Base.Run stands
    todo,       \* the boards crawlArticles has still to visit
    board,      \* the board crawlSingleBoard is walking
    lastCursor, \* what GetCrawlingCursor returned for it: the ID ...
    lastDate,   \* ... and the newest stored creation day, 0 if there is none
    page,       \* the page it fetches next
    batch,      \* the articles collected, one entry for every row taken
    text,       \* the entries whose content was fetched
    newCursor,  \* the cursor map, 0 for a board without an entry
    (* bookkeeping of the specification *)
    passed,     \* articles this cycle knowingly goes past without taking them
    excused,    \* the same of all cycles that stored something
    missed,     \* articles a save left out though it stored some of a later day
    faults      \* failures, panics and crashes so far

site    == <<today, posted, listed, createdOn>>
db      == <<stored, filled, cursor>>
walk    == <<board, lastCursor, lastDate, page>>
cycle   == <<pc, todo, walk, batch, text, newCursor, passed>>
record  == <<excused, missed>>
vars    == <<site, db, cycle, record, faults>>

IsMaxOf(m, S) == m \in S /\ \A k \in S : k <= m

-----------------------------------------------------------------------------
(* The list pages the site serves.                                         *)

\* Position of article i in the list of board b; the newest one has rank 1.
Rank(b, i) == Cardinality({k \in listed[b] : k >= i})

\* What is listed after the first n rows.
Beyond(b, n) == {i \in listed[b] : Rank(b, i) > n}

\* The rows of page p.
Rows(b, p) == Beyond(b, (p - 1) * PageSize) \ Beyond(b, p * PageSize)

Expired(b, i) == ArchiveDays > 0 /\ createdOn[b][i] + ArchiveDays <= today

-----------------------------------------------------------------------------
Init ==
    /\ today = 1
    /\ posted = [b \in Boards |-> 0]
    /\ listed = [b \in Boards |-> {}]
    /\ createdOn = [b \in Boards |-> [i \in Ids |-> 1]]
    /\ stored = [b \in Boards |-> {}]
    /\ filled = [b \in Boards |-> {}]
    /\ cursor = [b \in Boards |-> 0]
    /\ pc = "idle"
    /\ todo = {}
    /\ board = NoBoard
    /\ lastCursor = 0
    /\ lastDate = 0
    /\ page = 0
    /\ batch = {}
    /\ text = {}
    /\ newCursor = [b \in Boards |-> 0]
    /\ passed = [b \in Boards |-> {}]
    /\ excused = [b \in Boards |-> {}]
    /\ missed = [b \in Boards |-> {}]
    /\ faults = 0

-----------------------------------------------------------------------------
(* The site.                                                               *)

Publish(b) ==
    /\ posted[b] < MaxId
    /\ LET i == posted[b] + 1
       IN  /\ posted' = [posted EXCEPT ![b] = i]
           /\ listed' = [listed EXCEPT ![b] = @ \cup {i}]
           /\ createdOn' = [createdOn EXCEPT ![b][i] = today]
    /\ UNCHANGED <<today, db, cycle, record, faults>>

\* A deletion above the page a walk fetches next pulls the first row of that
\* page up to a page the walk has already left.
PulledUp(b, i) ==
    {k \in listed[b] : /\ board = b
                       /\ i > k
                       /\ Rank(b, k) = (page - 1) * PageSize + 1}

Delete(b, i) ==
    /\ i \in listed[b]
    /\ listed' = [listed EXCEPT ![b] = @ \ {i}]
    /\ passed' = [passed EXCEPT ![b] = @ \cup PulledUp(b, i)]
    /\ UNCHANGED <<today, posted, createdOn, db, record, faults>>
    /\ UNCHANGED <<pc, todo, walk, batch, text, newCursor>>

NextDay ==
    /\ today < MaxDay
    /\ today' = today + 1
    /\ UNCHANGED <<posted, listed, createdOn, db, cycle, record, faults>>

Site ==
    \/ NextDay
    \/ \E b \in Boards : Publish(b) \/ \E i \in Ids : Delete(b, i)

-----------------------------------------------------------------------------
(* Leaving and entering the cycle.                                         *)

ForgetWalk ==
    /\ board' = NoBoard
    /\ lastCursor' = 0
    /\ lastDate' = 0
    /\ page' = 0

ForgetCycle ==
    /\ todo' = {}
    /\ ForgetWalk
    /\ batch' = {}
    /\ text' = {}
    /\ newCursor' = [b \in Boards |-> 0]
    /\ passed' = [b \in Boards |-> {}]

EndRun == pc' = "idle" /\ ForgetCycle

Fault == faults < MaxFaults /\ faults' = faults + 1

\* The scheduler calls Base.Run; cron never runs a job twice at a time.
StartRun ==
    /\ pc = "idle"
    /\ pc' = "boards"
    /\ todo' = Boards
    /\ UNCHANGED <<site, db, walk, batch, text, newCursor, passed, record, faults>>

-----------------------------------------------------------------------------
(* crawlArticles and crawlSingleBoard: the list phase.                     *)

BeginBoard(b) ==
    /\ pc = "boards"
    /\ b \in todo
    /\ pc' = "walk"
    /\ todo' = todo \ {b}
    /\ board' = b
    /\ lastCursor' = cursor[b]
    /\ \/ stored[b] = {} /\ lastDate' = 0
       \/ \E d \in Days : /\ IsMaxOf(d, {createdOn[b][i] : i \in stored[b]})
                          /\ lastDate' = d
    /\ page' = 1
    /\ UNCHANGED <<site, db, batch, text, newCursor, passed, record, faults>>

\* GetCrawlingCursor fails: the board is reported and left out of the cycle.
CursorReadFails(b) ==
    /\ pc = "boards"
    /\ b \in todo
    /\ Fault
    /\ todo' = todo \ {b}
    /\ UNCHANGED <<site, db, pc, walk, batch, text, newCursor, passed, record>>

EndWalk == pc' = "boards" /\ ForgetWalk

\* Mutant: the comparison with the cursor is gone.
StopsByDateOnly(b, S) == {i \in S \ Unreadable : createdOn[b][i] < lastDate}

\* Mutant: an article of the newest stored day ends the walk too.
StopsOnSameDay(b, S) ==
    {i \in S \ Unreadable : i <= lastCursor \/ createdOn[b][i] <= lastDate}

\* The first readable row that is not newer than the cursor, or older by date
\* than the newest stored article, ends the walk.
Stops(b, S) ==
    {i \in S \ Unreadable : i <= lastCursor \/ createdOn[b][i] < lastDate}

\* The loop runs while page <= MaxPageCount.
AtLastPage == page = MaxPageCount

AboveStops(b, S) == {i \in S : \A s \in Stops(b, S) : i > s}

FetchPage ==
    /\ pc = "walk"
    /\ LET S     == Rows(board, page)
           taken == AboveStops(board, S) \ Unreadable
           last  == Stops(board, S) # {} \/ AtLastPage
       IN  /\ S # {}
           /\ batch' = batch \cup
                  {[board |-> board, id |-> i, page |-> page] : i \in taken}
           /\ \E m \in 0..MaxId :
                  /\ IsMaxOf(m, taken \cup {newCursor[board]})
                  /\ newCursor' = [newCursor EXCEPT ![board] = m]
           /\ passed' = [passed EXCEPT ![board] = @
                  \cup (AboveStops(board, S) \cap Unreadable)
                  \cup {i \in Beyond(board, page * PageSize) :
                            Stops(board, S) = {} /\ AtLastPage}]
           /\ IF last THEN EndWalk
                      ELSE page' = page + 1 /\ UNCHANGED <<pc, board, lastCursor, lastDate>>
    /\ UNCHANGED <<site, db, todo, text, record, faults>>

\* The page shows no row: the board is empty (page 1) or exhausted.
EndOfData ==
    /\ pc = "walk"
    /\ Beyond(board, (page - 1) * PageSize) = {}
    /\ EndWalk
    /\ UNCHANGED <<site, db, todo, batch, text, newCursor, passed, record, faults>>

\* Mutant: the rows of the pages before the failing one are kept.
BoardFailsKeepingRows ==
    /\ pc = "walk"
    /\ Fault
    /\ EndWalk
    /\ UNCHANGED <<site, db, todo, batch, text, newCursor, passed, record>>

\* A page cannot be fetched or does not have the expected structure: all that
\* was collected of this board is thrown away, the other boards go on.
BoardFails ==
    /\ pc = "walk"
    /\ Fault
    /\ batch' = {e \in batch : e.board # board}
    /\ newCursor' = [newCursor EXCEPT ![board] = 0]
    /\ passed' = [passed EXCEPT ![board] = {}]
    /\ EndWalk
    /\ UNCHANGED <<site, db, todo, text, record>>

EndBoards ==
    /\ pc = "boards"
    /\ todo = {}
    /\ pc' = "contents"
    /\ UNCHANGED <<site, db, todo, walk, batch, text, newCursor, passed, record, faults>>

\* CrawlArticleContentsConcurrently: an entry whose content could not be had,
\* or was not reached before the context ended, stays empty; no error of this
\* phase keeps the articles or the cursors back.
FetchContents ==
    /\ pc = "contents"
    /\ text' \in SUBSET batch
    /\ pc' = "save"
    /\ UNCHANGED <<site, db, todo, walk, batch, newCursor, passed, record, faults>>

-----------------------------------------------------------------------------
(* finalizeExecution: SaveArticles, then the cursors.                      *)

Collected(b) == {e.id : e \in {f \in batch : f.board = b}}

\* The rows are upserted from the oldest page to the newest, so of an article
\* that was collected twice the copy from the lower page stays.
LastCopies(saved) ==
    {e \in saved : \A f \in saved :
        (f.board = e.board /\ f.id = e.id) => e.page <= f.page}

\* What the upserts of the rows in saved leave behind.
Upsert(saved) ==
    LET last == LastCopies(saved)
    IN  /\ stored' = [b \in Boards |->
              stored[b] \cup {e.id : e \in {f \in saved : f.board = b}}]
        /\ filled' = [b \in Boards |->
              (filled[b] \ {e.id : e \in {f \in last : f.board = b}})
                 \cup {e.id : e \in {f \in last \cap text : f.board = b}}]
        /\ excused' = [b \in Boards |-> excused[b] \cup passed[b]]

\* The rows of the batch that were not stored, of days older than one that was:
\* what the date check of the next walk takes for stored.
Misses ==
    missed' = [b \in Boards |-> missed[b] \cup
        {i \in Collected(b) \ stored'[b] :
            \E j \in stored'[b] : createdOn[b][i] < createdOn[b][j]}]

SaveArticles ==
    /\ pc = "save"
    /\ batch # {}
    /\ Upsert(batch)
    /\ pc' = "cursors"
    /\ UNCHANGED <<site, cursor, todo, walk, batch, text, newCursor, passed>>
    /\ UNCHANGED <<missed, faults>>

\* Mutant: the error of a partial save does not cancel the cursors.
SavePartiallyAndGoOn ==
    /\ RowFailures
    /\ pc = "save"
    /\ Fault
    /\ \E saved \in (SUBSET batch) \ {batch, {}} : Upsert(saved)
    /\ Misses
    /\ pc' = "cursors"
    /\ UNCHANGED <<site, cursor, todo, walk, batch, text, newCursor, passed>>

\* Some rows fail, the others are committed all the same; the error keeps the
\* cursors where they are.
SavePartially ==
    /\ RowFailures
    /\ pc = "save"
    /\ Fault
    /\ \E saved \in (SUBSET batch) \ {batch, {}} : Upsert(saved)
    /\ Misses
    /\ EndRun
    /\ UNCHANGED <<site, cursor>>

\* Begin, every row, or Commit fails: nothing is stored.
SaveFails ==
    /\ pc = "save"
    /\ batch # {}
    /\ Fault
    /\ EndRun
    /\ UNCHANGED <<site, db, record>>

\* Without an article there is no cursor in the map either.
NothingToSave ==
    /\ pc = "save"
    /\ batch = {}
    /\ pc' = "cursors"
    /\ UNCHANGED <<site, db, todo, walk, batch, text, newCursor, passed, record, faults>>

\* updateCursors goes through a Go map: the order of the boards is arbitrary.
UpsertCursor(b) ==
    /\ pc = "cursors"
    /\ newCursor[b] # 0
    /\ cursor' = [cursor EXCEPT ![b] = newCursor[b]]
    /\ newCursor' = [newCursor EXCEPT ![b] = 0]
    /\ UNCHANGED <<site, stored, filled, pc, todo, walk, batch, text, passed, record, faults>>

\* The error is reported, the other boards go on.
CursorWriteFails(b) ==
    /\ pc = "cursors"
    /\ newCursor[b] # 0
    /\ Fault
    /\ newCursor' = [newCursor EXCEPT ![b] = 0]
    /\ UNCHANGED <<site, db, pc, todo, walk, batch, text, passed, record>>

FinishRun ==
    /\ pc = "cursors"
    /\ \A b \in Boards : newCursor[b] = 0
    /\ EndRun
    /\ UNCHANGED <<site, db, record, faults>>

-----------------------------------------------------------------------------
(* Panics, crashes and restarts.                                           *)

\* A panic of the crawl function is recovered by Run; nothing was persisted.
Panic ==
    /\ pc \in {"boards", "walk"}
    /\ Fault
    /\ EndRun
    /\ UNCHANGED <<site, db, record>>

Crash ==
    /\ pc # "down"
    /\ Fault
    /\ pc' = "down"
    /\ ForgetCycle
    /\ UNCHANGED <<site, db, record>>

\* main purges before it starts the services.  The cutoff is a time of day:
\* of the articles that turn ArchiveDays old today some may stay.
Restart ==
    /\ pc = "down"
    /\ \E old \in [Boards -> SUBSET Ids] :
          /\ \A b \in Boards :
                /\ old[b] \subseteq {i \in stored[b] : Expired(b, i)}
                /\ \A i \in stored[b] \ old[b] :
                      Expired(b, i) => createdOn[b][i] + ArchiveDays = today
          /\ stored' = [b \in Boards |-> stored[b] \ old[b]]
          /\ filled' = [b \in Boards |-> filled[b] \ old[b]]
    /\ pc' = "idle"
    /\ UNCHANGED <<site, cursor, todo, walk, batch, text, newCursor, passed, record, faults>>

-----------------------------------------------------------------------------
\* The steps the program takes when nothing goes wrong.
Progress ==
    \/ StartRun \/ FetchPage \/ EndOfData \/ EndBoards \/ FetchContents
    \/ SaveArticles \/ NothingToSave \/ FinishRun \/ Restart
    \/ \E b \in Boards : BeginBoard(b) \/ UpsertCursor(b)

Failure ==
    \/ BoardFails \/ SavePartially \/ SaveFails \/ Panic \/ Crash
    \/ \E b \in Boards : CursorReadFails(b) \/ CursorWriteFails(b)

Next == Site \/ Progress \/ Failure

Spec == Init /\ [][Next]_vars

\* The scheduler fires again and again and every request, content retry and
\* transaction has a deadline, so the program's own steps do not stop.
FairSpec == Spec /\ WF_vars(Progress)
-----------------------------------------------------------------------------
(* Properties.                                                             *)

\* Every variable has its type, and the state of the cycle agrees with its
\* phase: a walk has a board and a page, what was collected is gone when the
\* cycle ends, a board still to be visited has no new cursor.
TypeOK ==
    /\ today \in Days
    /\ posted \in [Boards -> 0..MaxId]
    /\ listed \in [Boards -> SUBSET Ids]
    /\ createdOn \in [Boards -> [Ids -> Days]]
    /\ stored \in [Boards -> SUBSET Ids]
    /\ filled \in [Boards -> SUBSET Ids]
    /\ cursor \in [Boards -> 0..MaxId]
    /\ pc \in {"down", "idle", "boards", "walk", "contents", "save", "cursors"}
    /\ todo \in SUBSET Boards
    /\ board \in Boards \cup {NoBoard}
    /\ lastCursor \in 0..MaxId
    /\ lastDate \in 0..MaxDay
    /\ page \in 0..MaxPageCount
    /\ batch \in SUBSET Entry
    /\ text \in SUBSET batch
    /\ newCursor \in [Boards -> 0..MaxId]
    /\ passed \in [Boards -> SUBSET Ids]
    /\ excused \in [Boards -> SUBSET Ids]
    /\ missed \in [Boards -> SUBSET Ids]
    /\ faults \in 0..MaxFaults
    (* what is set in which phase *)
    /\ pc = "walk" <=> board # NoBoard
    /\ pc = "walk" <=> page # 0
    /\ pc \notin {"save", "cursors"} => text = {}
    /\ pc \notin {"boards", "walk"} => todo = {}
    /\ pc \in {"idle", "down"} => batch = {} /\ \A b \in Boards : newCursor[b] = 0
    /\ board \notin todo
    /\ \A b \in todo : newCursor[b] = 0

\* What a walk may go past.
Covered(b, i) == i \in stored[b] \cup excused[b] \cup missed[b] \/ Expired(b, i)

\* An article the site still lists is never left behind by the cursor: once
\* the cursor of its board has reached it, it is stored, has outlived the
\* retention, or a cycle went past it for a reason the crawler accepts (its row
\* cannot be read, it lay beyond the last page of the walk, or a deletion
\* pulled it out of the walk's sight).  base.go promises this where it cancels
\* the cursor after a failed save.
NoLoss ==
    \A b \in Boards : \A i \in listed[b] :
        i <= cursor[b] => \/ i \in stored[b]
                          \/ i \in excused[b]
                          \/ Expired(b, i)

\* What the cursor has reached is covered: stored, outlived, gone past by a cycle,
\* or left out by a save that stored an article of a later day.
LossesCovered ==
    \A b \in Boards : \A i \in listed[b] : i <= cursor[b] => Covered(b, i)

\* The articles a cycle went past although their row can be read and, then as
\* now, fewer than a whole walk's rows are newer.
Hidden(b) ==
    {i \in (excused[b] \cup passed[b]) \ Unreadable :
        posted[b] - i < PageSize * MaxPageCount}

Deleted(b) == (1..posted[b]) \ listed[b]

\* Each deletion hides one article at most.
DeletionsHideOne ==
    \A b \in Boards : Cardinality(Hidden(b)) <= Cardinality(Deleted(b))

\* What the code keeps of that promise: of the articles a walk can see, the only
\* ones lost are those a save failed for while it stored one of a later day.
\* Rows that move to the next page, panics, crashes, failed requests, failed
\* transactions and failed cursor writes never lose one, nor does a failed row
\* among rows of its own day.  And what a walk cannot see is no more than the
\* rows that cannot be read, those with a whole walk's rows of newer ones before
\* them (MaxPageCount pages), and one for each deletion, which may pull it up
\* to a page already fetched.
OnlyPartialSavesLose == LossesCovered /\ DeletionsHideOne

\* What no walk needs to find any more.
Settled ==
    [b \in Boards |-> {i \in 1..posted[b] : i \notin listed[b] \/ Covered(b, i)}]

Feed == INSTANCE CursorFeed WITH Feeds <- Boards, settled <- Settled

\* The cycles implement a feed with a cursor per board: one board at a time moves
\* its cursor, forward, in a step that settles nothing, to where everything is
\* settled already.
FeedSpec == Feed!Spec

\* A cursor only moves after the whole batch of the cycle, of every board, is
\* in the database, and it moves to an article of that batch: never after a
\* failed or partial SaveArticles, never to an article that was rolled back, and
\* never back to an older one, which would collect everything behind it again.
CursorFollowsFullSave ==
    [][\A b \in Boards : cursor'[b] # cursor[b] =>
          /\ cursor'[b] > cursor[b]
          /\ \A e \in batch : e.id \in stored[e.board]
          /\ \E e \in batch : e.board = b /\ e.id = cursor'[b]]_vars

\* The content of an article is final once the cursor of its board has passed
\* it.  An article is collected again after a crash or a failed write, and its
\* upsert overwrites what was stored, with nothing if the content could not be
\* had this time; but only while the cursor lies below it.
ContentSettled ==
    [][\A b \in Boards : \A i \in filled[b] \ filled'[b] :
          i \notin stored'[b] \/ i > cursor[b]]_vars

\* Until the cursors move, every article of the batch lies above its board's.
BatchIsNew == pc # "cursors" => \A e \in batch : e.id > cursor[e.board]

\* The argument for LossesCovered, as an inductive invariant.  The site
\* publishes in order; whatever is of a day before that of a stored article is
\* covered (so a row older by date than the newest stored article may end a
\* walk); and what the walks of this cycle have gone past is collected, passed or
\* covered, below newCursor.
Published ==
    \A b \in Boards :
        /\ listed[b] \cup stored[b] \cup Collected(b) \subseteq 1..posted[b]
        /\ cursor[b] <= posted[b] /\ newCursor[b] <= posted[b]
        /\ \A i, j \in 1..posted[b] :
              i <= j => createdOn[b][i] <= createdOn[b][j]
        /\ \A i \in 1..posted[b] : createdOn[b][i] <= today

CursorInv ==
    /\ pc = "walk" => lastCursor = cursor[board]
    /\ \A b \in Boards : newCursor[b] # 0 =>
          newCursor[b] > cursor[b] /\ newCursor[b] \in Collected(b)
    /\ pc = "cursors" => \A b \in Boards : Collected(b) \subseteq stored[b]

\* Nothing the site lists is of a day before a stored article's and not covered.
StoredCovers ==
    \A b \in Boards : \A j \in stored[b] : \A i \in listed[b] :
        createdOn[b][i] < createdOn[b][j] => Covered(b, i)

\* The date that may end the walk is the date of a stored article.
WalkBaseline ==
    pc = "walk" =>
        \/ lastDate = 0
        \/ \E j \in stored[board] : createdOn[board][j] = lastDate

BatchBelowCursor ==
    pc # "cursors" =>
        \A b \in Boards : \A i \in Collected(b) : i <= newCursor[b]

PassedIsExcused ==
    pc = "cursors" =>
        \A b \in Boards : newCursor[b] # 0 => passed[b] \subseteq excused[b]

\* Of a board whose walk is over everything up to the new cursor is accounted
\* for; of the board being walked, everything on the pages already fetched.
WalkedIsAccounted ==
    \A b \in Boards : \A i \in listed[b] :
        /\ i <= newCursor[b]
        /\ b = board => i \notin Beyond(b, (page - 1) * PageSize)
        => i \in Collected(b) \/ i \in passed[b] \/ Covered(b, i)

CoverInv ==
    /\ StoredCovers
    /\ WalkBaseline
    /\ BatchBelowCursor
    /\ PassedIsExcused
    /\ WalkedIsAccounted

IInv ==
    TypeOK /\ Published /\ CursorInv /\ LossesCovered /\ CoverInv /\ DeletionsHideOne

\* Failed cycles are made up for: when failures stop, every readable article
\* is stored, deleted by the site, too old to keep, or passed over by a cycle
\* that stored newer ones.
EventuallyHandled ==
    \A b \in Boards : \A i \in Ids \ Unreadable :
        i \in listed[b] ~> Covered(b, i) \/ i \notin listed[b]
=============================================================================
