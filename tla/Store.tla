------------------------------- MODULE Store -------------------------------
(***************************************************************************)
(* What survives a restart: the four tables of store.go, the start-up that *)
(* brings them in line with the configuration file (SyncProviders) and     *)
(* drops what is past its retention (PurgeOldArticles), and the crawl      *)
(* cycles that write articles and cursors while the process is up.         *)
(*                                                                         *)
(* The configuration may be edited whenever the process is down, so boards *)
(* and providers leave and come back.  The process may die at any step.    *)
(* A walk over a site is one step here, without limits on its pages: its   *)
(* own hazards are the subject of BoardCrawl and CafeCrawl.  Articles are  *)
(* numbered over all sites in the order of their publication.              *)
(***************************************************************************)
EXTENDS Integers, FiniteSets

CONSTANTS
    Providers,      \* the provider IDs that may be configured
    Boards,         \* the board IDs a provider may have
    WholeSite,      \* the board ID '' of a cursor for all boards of a provider
    OneCursor,      \* the providers with such a cursor (Naver Cafe)
    ArchiveDays,    \* retention of each provider, 0 keeps everything
    MaxId,          \* bound: articles ever published
    MaxTime,        \* bound: the last day of the behaviour
    MaxStarts       \* bound: starts of the process

ASSUME NamesAssumption ==
    /\ OneCursor \subseteq Providers
    /\ WholeSite \notin Boards

ASSUME BoundsAssumption ==
    /\ ArchiveDays \in [Providers -> Nat]
    /\ MaxId \in Nat \ {0}
    /\ MaxTime \in Nat \ {0}
    /\ MaxStarts \in Nat

Ids     == 1..MaxId
Times   == 1..MaxTime
Places  == Providers \X Boards
Keys    == Providers \X (Boards \cup {WholeSite})

-----------------------------------------------------------------------------
VARIABLES
    (* the sites *)
    now,            \* the time, in days
    posted,         \* how many articles were published
    home,           \* the provider and board of each of them
    createdOn,      \* the day of each of them
    (* the database *)
    providers,      \* rss_provider
    boards,         \* rss_provider_board
    stored,         \* rss_provider_article
    cursor,         \* rss_provider_site_crawled_data, 0 for no row
    (* the process *)
    pc,             \* where run() stands
    confProviders,  \* the providers of the configuration it has loaded ...
    confBoards,     \* ... and their boards
    toPurge,        \* the providers PurgeOldArticles has still to visit
    purgeFailed,    \* has one of them failed?
    at,             \* where the cycle of each provider stands
    batch,          \* the articles it collected
    moves,          \* the cursors it has still to write
    (* bookkeeping of the specification *)
    startedOn,      \* the day the process started, until its services do
    starts,         \* starts so far
    since,          \* how far its cursor was when each board joined it
    excused         \* articles that were purged, or whose row failed

sites    == <<now, posted, home, createdOn>>
conf     == <<confProviders, confBoards>>
db       == <<providers, boards, stored, cursor>>
cycles   == <<at, batch, moves>>
purging  == <<toPurge, purgeFailed>>
started  == <<startedOn, starts>>
vars     == <<sites, conf, db, pc, purging, cycles, started, since, excused>>

IsMaxOf(m, S) == m \in S /\ \A k \in S : k <= m

\* The row of rss_provider_site_crawled_data that governs a board.
KeyOf(place) ==
    IF place[1] \in OneCursor THEN <<place[1], WholeSite>> ELSE place

\* created_date < now - archiveDays; 0 keeps everything.
Expired(i, time) ==
    LET days == ArchiveDays[home[i][1]]
    IN  days > 0 /\ createdOn[i] < time - days

-----------------------------------------------------------------------------
Init ==
    /\ now = 1
    /\ posted = 0
    /\ home \in [Ids -> Places]
    /\ createdOn = [i \in Ids |-> 1]
    /\ confProviders = {}
    /\ confBoards = {}
    /\ providers = {}
    /\ boards = {}
    /\ stored = {}
    /\ cursor = [k \in Keys |-> 0]
    /\ pc = "down"
    /\ toPurge = {}
    /\ purgeFailed = FALSE
    /\ at = [p \in Providers |-> "idle"]
    /\ batch = [p \in Providers |-> {}]
    /\ moves = [p \in Providers |-> {}]
    /\ startedOn = 1
    /\ starts = 0
    /\ since = [c \in Places |-> 0]
    /\ excused = {}

-----------------------------------------------------------------------------
(* The sites.                                                              *)

Publish ==
    /\ posted < MaxId
    /\ posted' = posted + 1
    /\ createdOn' = [createdOn EXCEPT ![posted + 1] = now]
    /\ UNCHANGED <<now, home, conf, db, pc, purging, cycles, started, since>>
    /\ UNCHANGED excused

NextDay ==
    /\ now < MaxTime
    /\ now' = now + 1
    /\ UNCHANGED <<posted, home, createdOn, conf, db, pc, purging, cycles>>
    /\ UNCHANGED <<started, since, excused>>

-----------------------------------------------------------------------------
(* The start of the process.                                               *)

ForgetCycles ==
    /\ at' = [p \in Providers |-> "idle"]
    /\ batch' = [p \in Providers |-> {}]
    /\ moves' = [p \in Providers |-> {}]

GoDown ==
    /\ pc' = "down"
    /\ confProviders' = {}
    /\ confBoards' = {}
    /\ toPurge' = {}
    /\ purgeFailed' = FALSE
    /\ startedOn' = 1
    /\ ForgetCycles

\* The file that is loaded may differ in any way from the one before.
Start ==
    /\ pc = "down"
    /\ starts < MaxStarts
    /\ starts' = starts + 1
    /\ startedOn' = now
    /\ confProviders' \in SUBSET Providers
    /\ confBoards' \in SUBSET (confProviders' \X Boards)
    /\ pc' = "sync"
    /\ UNCHANGED <<sites, db, purging, cycles, since, excused>>

\* Mutant: the cursors of removed boards stay.
KeptKeysWithRemoved == {k \in Keys : k[1] \in confProviders}

\* The cursor rows that survive pruneStaleData and the cascade from
\* rss_provider: those of configured boards, and '' of configured providers.
KeptKeys ==
    {k \in Keys : k[1] \in confProviders /\ (k[2] = WholeSite \/ k \in confBoards)}

\* Mutant: foreign keys are off, nothing cascades to the articles.
KeptArticlesWithoutCascade == stored

\* The articles the cascade from rss_provider_board leaves.
KeptArticles == {i \in stored : home[i] \in confBoards}

\* What the walks of provider p look at no more: nothing up to its cursor, and
\* nothing older than its newest stored article.
Reached(p) == {cursor[<<p, WholeSite>>]} \cup {i \in KeptArticles : home[i][1] = p}

\* A board that joins a known provider with one cursor finds it at m; any other
\* one starts from nothing.
Joined(c, m) ==
    IF c \in confBoards \cap boards THEN m = since[c]
    ELSE IF c \in confBoards /\ c[1] \in OneCursor \cap providers
         THEN IsMaxOf(m, Reached(c[1]))
         ELSE m = 0

\* One transaction: upserts, deletion of what is not configured any more.
SyncProviders ==
    /\ pc = "sync"
    /\ providers' = confProviders
    /\ boards' = confBoards
    /\ stored' = KeptArticles
    /\ cursor' = [k \in Keys |-> IF k \in KeptKeys THEN cursor[k] ELSE 0]
    /\ since' \in {s \in [Places -> 0..MaxId] : \A c \in Places : Joined(c, s[c])}
    /\ excused' = {i \in excused : home[i] \in confBoards \cap boards}
    /\ pc' = "purge"
    /\ toPurge' = confProviders
    /\ UNCHANGED <<sites, conf, purgeFailed, cycles, started>>

\* It fails before the commit took effect: rolled back, run() gives up.
SyncFails ==
    /\ pc = "sync"
    /\ GoDown
    /\ UNCHANGED <<sites, db, starts, since, excused>>

\* Mutant: the WHERE clause has no p_id.
PurgedAnyProvider(p) ==
    {i \in stored : ArchiveDays[p] > 0 /\ createdOn[i] < now - ArchiveDays[p]}

Purged(p) == {i \in stored : home[i][1] = p /\ Expired(i, now)}

\* A transaction for each provider.
DeleteOldArticles(p) ==
    /\ pc = "purge"
    /\ p \in toPurge
    /\ toPurge' = toPurge \ {p}
    /\ stored' = stored \ Purged(p)
    /\ excused' = excused \cup Purged(p)
    /\ UNCHANGED <<sites, conf, providers, boards, cursor, pc, purgeFailed>>
    /\ UNCHANGED <<cycles, started, since>>

\* Mutant: the errors of the providers are not joined.
DeleteFailsUnnoticed(p) ==
    /\ pc = "purge"
    /\ p \in toPurge
    /\ toPurge' = toPurge \ {p}
    /\ UNCHANGED <<sites, conf, db, pc, purgeFailed, cycles, started, since, excused>>

\* One provider fails, the others are purged all the same.
DeleteFails(p) ==
    /\ pc = "purge"
    /\ p \in toPurge
    /\ toPurge' = toPurge \ {p}
    /\ purgeFailed' = TRUE
    /\ UNCHANGED <<sites, conf, db, pc, cycles, started, since, excused>>

\* run() starts the services, or gives up on the joined error.
Serve ==
    /\ pc = "purge"
    /\ toPurge = {}
    /\ IF purgeFailed THEN GoDown
                      ELSE /\ pc' = "up"
                           /\ startedOn' = 1
                           /\ UNCHANGED <<conf, purging, cycles>>
    /\ UNCHANGED <<sites, db, starts, since, excused>>

-----------------------------------------------------------------------------
(* The crawl cycles.                                                       *)

\* The cursors a cycle of p reads: one for the site, or one per board.
KeysOf(p) ==
    IF p \in OneCursor THEN {<<p, WholeSite>>} ELSE {c \in confBoards : c[1] = p}

\* What a walk from the cursor k comes past: newer than its article and not
\* older by date than the newest one stored (GetCrawlingCursor).
New(k) ==
    {i \in 1..posted :
        /\ KeyOf(home[i]) = k
        /\ i > cursor[k]
        /\ \A j \in stored : KeyOf(home[j]) = k => createdOn[j] <= createdOn[i]}

\* Walks may fail, so only some of the cursors may be served.  Articles of
\* boards that are not configured move the cursor of the site all the same.
Crawl(p) ==
    /\ pc = "up"
    /\ p \in confProviders
    /\ at[p] = "idle"
    /\ \E K \in SUBSET KeysOf(p) :
          LET new == UNION {New(k) : k \in K}
          IN  /\ new # {}
              /\ batch' = [batch EXCEPT ![p] = {i \in new : home[i] \in confBoards}]
              /\ moves' = [moves EXCEPT ![p] =
                     {m \in K \X Ids : IsMaxOf(m[2], New(m[1]))}]
    /\ at' = [at EXCEPT ![p] = "save"]
    /\ UNCHANGED <<sites, conf, db, pc, purging, started, since, excused>>

EndCycle(p) ==
    /\ at' = [at EXCEPT ![p] = "idle"]
    /\ batch' = [batch EXCEPT ![p] = {}]
    /\ moves' = [moves EXCEPT ![p] = {}]

\* SaveArticles stores every row, or has none to store.
Save(p) ==
    /\ at[p] = "save"
    /\ stored' = stored \cup batch[p]
    /\ at' = [at EXCEPT ![p] = "cursors"]
    /\ batch' = [batch EXCEPT ![p] = {}]
    /\ UNCHANGED <<sites, conf, providers, boards, cursor, pc, purging, moves>>
    /\ UNCHANGED <<started, since, excused>>

\* Some rows, or the whole transaction, fail: no cursor moves.  The date check
\* of the next cycle may pass a row that failed, so these are excused.
SaveFails(p) ==
    /\ at[p] = "save"
    /\ \E saved \in (SUBSET batch[p]) \ {batch[p]} :
          /\ stored' = stored \cup saved
          /\ excused' = IF saved = {} THEN excused ELSE excused \cup (batch[p] \ saved)
    /\ EndCycle(p)
    /\ UNCHANGED <<sites, conf, providers, boards, cursor, pc, purging>>
    /\ UNCHANGED <<started, since>>

\* updateCursors: one statement per entry, in any order.
UpdateCursor(p, m) ==
    /\ at[p] = "cursors"
    /\ m \in moves[p]
    /\ \/ cursor' = [cursor EXCEPT ![m[1]] = m[2]]
       \/ UNCHANGED cursor
    /\ moves' = [moves EXCEPT ![p] = @ \ {m}]
    /\ at' = [at EXCEPT ![p] = IF moves[p] = {m} THEN "idle" ELSE @]
    /\ UNCHANGED <<sites, conf, providers, boards, stored, pc, purging, batch>>
    /\ UNCHANGED <<started, since, excused>>

\* The process ends, in order or not, wherever it stands.
Stop ==
    /\ pc # "down"
    /\ GoDown
    /\ UNCHANGED <<sites, db, starts, since, excused>>

-----------------------------------------------------------------------------
Next ==
    \/ Publish \/ NextDay
    \/ Start \/ SyncProviders \/ SyncFails \/ Serve \/ Stop
    \/ \E p \in Providers :
          \/ DeleteOldArticles(p) \/ DeleteFails(p)
          \/ Crawl(p) \/ Save(p) \/ SaveFails(p)
          \/ \E m \in Keys \X Ids : UpdateCursor(p, m)

Spec == Init /\ [][Next]_vars

-----------------------------------------------------------------------------
(* Properties.                                                             *)

\* Every variable has its type.
TypeOK ==
    /\ now \in Times
    /\ posted \in 0..MaxId
    /\ home \in [Ids -> Places]
    /\ createdOn \in [Ids -> Times]
    /\ confProviders \subseteq Providers
    /\ confBoards \subseteq confProviders \X Boards
    /\ providers \subseteq Providers
    /\ boards \subseteq Places
    /\ stored \subseteq Ids
    /\ cursor \in [Keys -> 0..MaxId]
    /\ pc \in {"down", "sync", "purge", "up"}
    /\ toPurge \subseteq Providers
    /\ purgeFailed \in BOOLEAN
    /\ at \in [Providers -> {"idle", "save", "cursors"}]
    /\ batch \in [Providers -> SUBSET Ids]
    /\ moves \in [Providers -> SUBSET (Keys \X Ids)]
    /\ startedOn \in Times
    /\ starts \in 0..MaxStarts
    /\ since \in [Places -> 0..MaxId]
    /\ excused \subseteq Ids

\* No row is left without the row it belongs to, the cursor of a board not
\* either, which no foreign key ties to its board: a board that is taken out
\* of the configuration and put back later starts from nothing.
NoOrphans ==
    /\ \A c \in boards : c[1] \in providers
    /\ \A i \in stored : home[i] \in boards
    /\ \A k \in Keys : cursor[k] > 0 =>
          k[1] \in providers /\ (k[2] = WholeSite \/ k \in boards)

\* Whatever was edited, failed or crashed: an article at or below the cursor
\* of its board is stored, unless it was purged or its row failed in a save
\* that stored others.  Of a board that joins a provider with one cursor for
\* all boards this holds from the article on that the walks had reached then.
Due(i) == home[i] \in boards /\ i > since[home[i]]

NothingLost ==
    \A i \in 1..posted :
        (Due(i) /\ i <= cursor[KeyOf(home[i])]) => i \in stored \cup excused

\* What the walks from the cursor k need not find any more.
Settled ==
    [k \in Keys |-> {i \in 1..posted :
        (KeyOf(home[i]) = k /\ Due(i)) => i \in stored \cup excused}]

Feed == INSTANCE CursorFeed WITH Feeds <- Keys, settled <- Settled

\* The rows of the cursors implement as many feeds, but while SyncProviders
\* brings the tables in line with another configuration; and that leaves no cursor
\* above anything it has not settled.
FeedSpec ==
    /\ Feed!Init
    /\ [][Feed!Next \/ (pc = "sync" /\ Feed!Reconfigure)]_(Feed!vars)

\* An article leaves the database only when it is past the retention of its
\* own provider, or its board is not configured any more.
OnlyStaleIsDeleted ==
    [][\A i \in stored \ stored' : Expired(i, now) \/ home[i] \notin confBoards]_vars

\* The services start on a database without an article that was past its
\* retention when the process started, also after one provider's purge failed.
ServesPurged ==
    [][(pc = "purge" /\ pc' = "up") => \A i \in stored : ~Expired(i, startedOn)]_vars

=============================================================================
