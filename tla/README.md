# rss-feed-server in TLA+

This directory holds a TLA+ model of rss-feed-server: modules that follow its Go
code, TLC configurations that check them on small instances, and proofs, checked
by TLAPS, of what matters most. The program crawls web boards (Naver Cafe, Yeosu
city hall, Ssangbong elementary school), keeps the articles in SQLite and serves
them as RSS. Paths below are relative to `src/internal/` unless they start with
`cmd/`.

## The system

| Part | Code | State | Operations | Correct when |
|---|---|---|---|---|
| Process | `cmd/rss-feed-server/main.go` | services' context, WaitGroup, database handle | initialise, start services, wait for a signal, stop within 30 s | it ends once it was cancelled, and closes the database last |
| API service | `service/api/service.go` | running flag, HTTP goroutine, request goroutines | start, shut down within 5 s, survive a server that fails | it gives back its count once, and leaves no handler behind but those it gave up |
| Crawl service | `service/crawl/service.go` | cron scheduler, shared fetcher | register and start jobs, stop: wait for jobs, close the fetcher | no job runs over a closed fetcher |
| Crawl cycle | `service/crawl/provider/base.go` | none between runs | `Run`: prepare, execute, finalise (save, then move cursors) | cursors follow a full save |
| Board crawlers | `provider/yeosucityhall`, `provider/ssangbonges` | none | walk the list pages of each board from its cursor | no article is left behind the cursor |
| Naver Cafe crawler | `provider/navercafe` | none | walk one list for all boards, delay filter, three content sources | neither are the articles that wait for the index |
| Content pool | `Base.CrawlArticleContentsConcurrently` | the articles of the cycle | fetch contents in parallel, retry, stop with the context | one article cannot hurt another; nothing runs on after it returned |
| Store | `store/sqlite/store.go` | providers, boards, articles, cursors | synchronise, purge, save, read articles and cursors | no orphaned rows, only stale articles are deleted |
| Fetcher chain | `service/crawl/fetcher` | none between calls | retry, check status and type, bound the body | bodies are closed, unsafe requests are sent once, retries are paced |
| Transport cache | `service/crawl/fetcher/http_transport.go` | a map, an LRU list, their lock; who owns a transport | keep, clone, isolate or share a transport, evict one, close a fetcher | options are honoured whoever made the transport, and nobody closes another one's connections |
| Scraper | `service/crawl/scraper` | none | send, read and decode within bounds | only whole documents are parsed |
| RSS handler, middleware | `service/api/handler`, `service/api/middleware`, `service/api/http_server.go` | per-IP limiters | limit the rate, serve the summary or a feed, turn errors and panics into responses | one response for every request, and no more requests than the buckets allow |
| Configuration, errors, version | `config`, `errors`, `version` | none | load once | |

`run()` opens the store, synchronises it with the configuration and purges it,
then starts the API service and the crawl service. The cron goroutines of the
crawl service call `Base.Run` of each provider, never twice at a time for one
provider; `Run` calls the crawler, which asks the scraper and through it the
fetcher chain, hands the articles to the content pool, and leaves saving and the
cursors to `finalizeExecution`. The API service reads the store and shares nothing
else with the crawlers.

What is hard here: the site changes while it is walked page by page; a save may
store some rows and not others; a crash may come between the save and each cursor
write; cursors and an additional date check decide what is never looked at again;
clocks and midnight enter that check; the configuration changes between starts
while its rows remain; parallel fetches share one context; timeouts race with late
answers; two caches are looked at under one lock and filled under another. `PROJECT.json` lists these hazards at their lines with the properties
that would catch each of them going wrong.

## Modules

Every component has a module that states it, an `MC` module with the sets and
symmetries TLC needs, and a `Proofs` module. `CafeContent` extends `ContentPool`
and implements it (`ContentProofs` is about both), and the two caches on demand, of
`TransportCache` and of `Api`, implement one abstract module, `BoundedCache`; so do
`BoardCrawl`, `CafeCrawl` and `Store` another one, `CursorFeed`. The others meet at
the interface the code gives them and are checked apart. Operators named in a comment
`Mutant: ...` are the mistakes that `PROJECT.json` puts in place of the code's own
definitions to see that the properties notice; `Next` does not use them.

### CursorFeed: what crawling with a cursor promises

An article is `settled` in one step (`Settle`: stored, given up for a reason the
code accepts, or gone from the site) and stays so; a cursor moves in a later step
(`Advance`), one at a time, forward, to where everything is settled. So a process
that dies between the two does work twice and loses nothing, and a walk may stop at
the cursor (`NothingBehind`). `Reconfigure` is the exception: when the configuration
changes a feed keeps its cursor or starts from nothing, and what it is asked for
anew lies above. `Settled` in `BoardCrawl`, `CafeCrawl` and `Store` says what counts
as settled there: the cursors of the first are those of the boards, the second has
one, and the feeds of the third are the rows of rss_provider_site_crawled_data. In
`Store` only the steps of SyncProviders may be a `Reconfigure`.

### BoardCrawl: the cycle of a provider with a cursor per board

*State.* The site (`posted`, `listed`, `createdOn`, `today`), the database
(`stored`, `filled`, `cursor`), and the cycle of `Base.Run` with the variables of
`crawlArticles` and `crawlSingleBoard` (`board`, `lastCursor`, `lastDate`, `page`,
`batch`, `newCursor`), which a crash or a panic erases.
*Actions.* `BeginBoard` is GetCrawlingCursor; `FetchPage` takes a whole page, with
the early exit on the cursor or on the date (`Stops`), the rows that do not parse
(`Unreadable`) and the page limit; `BoardFails` throws away what a board gave so
far; `FetchContents` is the content phase; `SaveArticles`, `SavePartially`,
`SaveFails` and `UpdateCursor`/`CursorWriteFails` are `finalizeExecution`, one
action per transaction or statement, because the process may die between them.
The site publishes and deletes between any two steps.
*Abstractions.* An article is its number; its creation time is a day, which is what
the crawlers compare. `passed` and `excused` are bookkeeping: the articles a walk
knowingly leaves (unreadable rows, what lies beyond the page limit, a row that a
deletion above pulled up to a page already left). `missed` is what a save that
stored some rows and not others left out of the days before its newest one
(`Misses`). A board's own `NoLoss` is the claim of the code's comments and excuses
no save; `OnlyPartialSavesLose` says that among the articles a walk can see `missed`
is the only exception to it (`LossesCovered`), and bounds what a walk cannot see
(`DeletionsHideOne`): apart from unreadable rows and rows beyond the page limit,
each deletion on the site hides one article at most.

### CafeCrawl: the cycle of Naver Cafe

One list and one cursor for all boards, a clock in ticks (`DayLength` to a day),
`Skew` by which the machine's clock is behind the cafe's (ahead, if negative), and
`MaxLag` between the moment a page is served and the moment it is read.
`ParseCreatedAt` is the conversion of `date_parser.go` for the two forms the list
shows: HH:MM for articles of the day the page was served, a date otherwise; `Held`
is the delay filter, whose rows must not move the cursor. Two steps, `ServePage` and `ReadRows`, stand for a page,
since the time may change between them. `passed`, `excused` and `missed` are
bookkeeping as in `BoardCrawl`; here `NoLoss` excuses `missed`, since its subject
is what the clocks and the delay filter do.

### ContentPool and CafeContent: the contents of a cycle's articles

`ContentPool` is `CrawlArticleContentsConcurrently`: an errgroup with a limit, one
goroutine per article with up to three attempts and a backoff that races with the
context, panics that are recovered, and `Wait`. `CafeContent` opens every attempt
of every goroutine into the sources of Naver Cafe, API, page and search, and how
the error of one overwrites that of another. It extends the pool's variables, so
all goroutines run side by side and one of them may be told in the middle of its
attempt that the context has ended. Its `PoolSpec` is the pool's own specification:
the steps inside an attempt stutter, its verdict is the pool's step.

### Services: run() and the two services

The main goroutine, the API event loop, the goroutine that serves HTTP, the
request handlers, the crawl service's goroutine, the cron scheduler and the jobs
of the providers, over one context, one WaitGroup and one database. A start may
fail, the server may die at any moment, a signal may come at any moment, the
30 s timer and the 5 s timer may fire at any moment after they are armed.
`abandoned` is bookkeeping: the requests the API service left running, because
Shutdown gave up on them or because the server had failed.

### Fetch: one call through scraper and fetcher chain

One request with the retries of `RetryFetcher`, the layers `MimeType`,
`StatusCode` and `MaxBytes` (the first two may be absent; a limit of `Limits` that
no body exceeds stands for no `MaxBytes`), `HTTPFetcher.Do`, and the scraper's
validation, bounded read and decoding. Nondeterministic: the method, whether the
body can be rebuilt, every answer with its status, type, Retry-After, size and
length header, every network error, and the moment the context ends. Time is what
the retries wait; jitter is any value in its range. A Duration has `2 * HalfWord` values, so that the seconds
of a Retry-After header wrap around in the model as they do in the code.

### Store: what survives a restart

*State.* The four tables (`providers`, `boards`, `stored`, `cursor`), the
configuration the process loaded, where `run()` stands, and a cycle per provider.
*Actions.* `Start` loads any configuration; `SyncProviders` is one transaction
(upserts, then `pruneStaleData` with the cascades of the foreign keys);
`DeleteOldArticles` and `DeleteFails` are the transactions of `PurgeOldArticles`,
one per provider, and `Serve` starts the services or gives up on the joined
error; `Crawl`, `Save`, `SaveFails` and `UpdateCursor` are a cycle; `Stop` is any
end of the process, at any point. Failures are unlimited.
*Abstractions.* A walk is one step and has no page limit: `BoardCrawl` and
`CafeCrawl` look inside. Its result follows the cursor and the date of
GetCrawlingCursor, with '' for a provider that keeps one cursor for its whole site.
`excused` holds the purged articles and the rows that failed in a save that stored
others (see the first finding); `since` how far the provider had come when a board
joined it: its cursor, or an article stored above it, which the date check compares
with. What is `Due` on a board is what lies above that.

### BoundedCache, TransportCache and Api: caches on demand and their clients

`BoundedCache` is the promise: each client asks once and gets, in one step, the
value cached for its key, or its own, which is then cached, another one leaving at
the limit.

*TransportCache* follows one `HTTPFetcher` from its options to `Close`. `Mixes`
are the options of the fetchers of a run; `Given`, `Normalize` and `Disabled`
say what the options make of the fetcher's fields, `Key` is `ToCacheKey`, `Build`
is `newTransport`. `SetUp` is `setupTransport` with its six outcomes. The steps of
`getSharedTransport` are those between which it lets go of the lock: `RLock`,
`LookUp` (a hit, a miss, or a hit whose turn it is to move the entry, which
exchanges the locks), `Lock`, `Touch`, `Make` without a lock, `Register` with the
second look and the eviction. `swept` are the transports whose idle connections
were closed. One option (`size`) stands for the eight pool and timeout options,
which are treated alike but for their names.

*Api* follows a request through the middleware chain. `LookUp` and `Create` are
`getLimiter` under its read and write lock, `Allow` and `Refuse` the bucket,
`Insert` the eviction of a random address at the limit of the map. `Handle` is
`ViewSummary` and `GetFeed` with every way out of them, among them the
notification that runs on in a goroutine of its own, a query cut by a client that
left, and a panic; `ErrorHandler` is called where an error surfaces, and does
nothing once a status was sent. The text of a feed is not modelled.

## What the runs show

| Run | Bounds | Shows |
|---|---|---|
| `board_cursor` | 2 boards, 2 articles, 2 pages, row failures, 2 faults | cursors move only after a full save, forward to an article of it; content below a cursor is final |
| `board_handled` | 1 board, 3 articles, 3 days, a retention of 2, pages of one row, page limit 2, an unreadable row, row failures, 2 faults | `OnlyPartialSavesLose`: only partial saves lose what a walk can see, and a deletion hides one article at most; the refinement `FeedSpec` of `CursorFeed`; once failures stop, every readable article is handled but those |
| `pool` | 3 articles, 2 slots, 3 attempts | isolation of goroutines, nil means none was cut short, quiet after `Wait`, the call returns |
| `cafe_content` | 2 articles, 2 slots, 3 attempts | give-up only after all three sources; the refinement `PoolSpec` |
| `services` | 2 providers, 2 requests | counter, closing order with no handler left but the abandoned ones, `CancelledEnds` |
| `cafe_handled` | 4 articles, one of another board, 3 pages, 8 ticks over two midnights, a fault, row failures | nothing held back is passed or cut off, and it is collected at last |
| `fetch` | 2 retries, bodies of 1 to 3 bytes, a transport limit of 1 or 3 bytes, a scraper limit of 2 | bodies, repeated sends, pacing, the end of the context, early give-up; each limit rejects what is longer and nothing that just reaches it; the call returns |
| `store` | 2 providers (one with one cursor for all), 2 boards each, 2 articles, 3 days, 3 starts | `NoOrphans`, `NothingLost`, `OnlyStaleIsDeleted`, `ServesPurged` |
| `transport` | 5 fetchers, a cache of 2, a proxy looked for in the last place only, a move at every second hit | `LockDiscipline`, `CacheConsistent`, `OptionsHonoured`, `ClosedOnlyIfEvicted`, `NoneForgotten`; the refinement `CacheSpec` |
| `api` | 4 requests of 3 addresses, 2 limiters, buckets of 1, a tick | `RateBound`, `OneResponse`, every request is answered; the refinement `LimiterSpec` |
| `board_partial`, `cafe_skew` | 2 articles; 3 articles, a clock one tick slow | the findings, below |

Type invariants are proved; only the run in which the type says more than a set
(the count of the WaitGroup in `services`) repeats it.

The bounds are the smallest at which the hazards occur. A page of one row lets a
list of three articles shift over two pages, exceed the page limit and lose a row
to a deletion. Two boards are needed to see one cursor written and not the other;
three starts to take a board out and put it back; three days for an article to
pass a retention of one day; three articles over two slots to see a slot given
back; two retries to tell the first, a middle and the last attempt apart. Three
keys over two places force an eviction, and five fetchers let two of them race to
create the transport of one key while the others evict it and ask for it again; the
options of the run are those in which all compete for the cache, and every pair of
kinds (`CrowdOrPair` in `MCTransportCache`). The same holds for the addresses and
paths of `api`. `Delay`
of two ticks in a day of three puts the delay across midnight. The counters that
bound behaviours (`MaxFaults`, `MaxStarts`, `MaxDay`, `MaxTime`, `MaxId`) occur
only in guards of the environment or of failures, never in a step of the code.

Deadlock is checked in the runs of `BoardCrawl` and `CafeCrawl`, whose system
never stops. The others do: a call or a shutdown ends, and `Store` stops when the
starts are used up.

Symmetry is used for boards and fetchers where nothing orders them, in safety runs
only.

### Fairness

- `BoardCrawl`, `CafeCrawl`: weak fairness of `Progress`, the disjunction of the
  program's own steps. Cron fires on, a cycle has ten minutes and each of its
  requests a timeout, and the save has a minute. Failures are not fair.
  `CafeCrawl` adds strong fairness of `Tick`: the delay passes.
- `ContentPool`: every goroutine and `Wait`. The context need not end.
- `Services`: the main goroutine, the two service loops and a Serve whose listener
  was closed. Handlers and jobs may hang for ever: the timers are there for that.
- `Api`: every request's own steps. A query waits five seconds for a lock of
  SQLite at most and a write 65 seconds for its client. A notification need not
  end: `EventuallyAnswered` shows that no answer waits for it.
- `Fetch`: every step but `ContextEnds`; the client has a timeout of 30 s for
  headers and body, so the far side cannot hold a call.

### Findings

Each is a run that must violate its property.

- `board_partial`: rows of a save that fail one by one are lost for good. The
  cursor stays, as `base.go` says, but the date check of the next walk
  (`yeosucityhall/crawler.go:512`) compares with the newest *stored* article.
- `cafe_skew`: a clock a minute slow dates the newest row to yesterday, and the
  cursor passes articles that wait for the index.

Seen while modelling, without a run of their own:

- `cafe_handled` with `MaxLag = 1` violates `NoLoss` and `OlderDaysAreCollected`: an
  article posted at 00:00, on a page served before the next midnight and read after
  it, is dated a day late. A clock that is a minute ahead does the same without a
  lag. `LagIsHarmless` says that nothing else about a lag or a fast clock can hurt.
- An article posted at 00:00 is collected before its delay, since 00:00:00 marks
  a row without a time (`navercafe/settings.go:21`). The cursor is not hurt.
- `Shutdown` gives up after five seconds while `Serve` returns at once, so the API
  service reports that everything is cleaned up (`service/api/service.go:293`)
  with a handler still running, and `run()` may close the database under it.
  `OrderlyClose` says that no other handler can be left.
- `SaveArticles` upserts, so an article that is collected again with its content
  missing empties the stored content, where `base.go:346` has the insertion
  ignored. `ContentSettled` bounds this: only above the cursor.
- `crawlArticleContent` overwrites the error of one source with that of the next,
  also a passing error with a denial (`navercafe/parser.go:333`), where the comment
  at line 286 promises a retry.
- A Retry-After above about 9.2e9 seconds wraps to a negative Duration
  (`fetcher/retry.go:652`), passes the comparison with the maximum and retries at
  once. `PacesRetries` speaks only of headers that fit a Duration, so this hazard has
  no property.
- `PurgeOldArticles` calls itself periodic; it runs once, before the services
  start. What expires later, or is collected when expired already, is served until
  the next start: `ServesPurged` speaks of the start only.
- A board that joins a Naver Cafe provider starts at the site's cursor: its older
  articles are never read. If a partial save left a newer article above the cursor,
  the date check passes by those above the cursor, too: `Reached` in `Store`.
- A RoundTripper of another type given by `WithTransport` disables the caching, so
  that `setupTransport` answers ErrUnsupportedTransport even with no other option,
  where `fetcher/http_options.go:224` has it accepted: `Reject`.
- The eviction takes a key "DIRECT" for that of a proxy
  (`fetcher/http_transport.go:480`). A transport that was evicted while a fetcher
  uses it opens connections again, which nobody closes: `NoneForgotten` counts it
  as closed from its eviction on.
- `GetFeed` lower-cases the id, while the configuration compares ids as they are:
  one of two ids that differ in case only is out of reach.
- A query cut by its client ends in the error handler as a 500, logged as an error,
  though `handler/rss/handler.go:180` means it to be a warning: `QueryCut`.
- An evicted address starts with a full bucket: the factor of `RateBound`.

## What is proved

All proofs hold for every value of the constants that the named assumptions allow.
These only type the constants and require the sets and bounds to be non-empty
where the code needs it.

**BoardCrawlProofs.** `SpecTypeOK`, `CursorFollowsFullSaveHolds`,
`ContentSettledHolds`, `OnlyPartialSavesLoseHolds`, with any failures, and from it
`NoLossHolds` under `~RowFailures` (with row failures TLC refutes `NoLoss`: the
first finding). What a cursor has passed says nothing of a cycle under way, so
`OnlyPartialSavesLose` is not inductive. `BoardInvariant` adds
that what is known was published (`Published`), where cursors may stand
(`CursorInv`), and `CoverInv`: of the days before a stored article nothing is
missing that was neither excused nor missed by a save (`StoredCovers`), the walk's
baseline is the database's (`WalkBaseline`), everything between the cursor and what
the walk collected is collected or passed (`WalkedIsAccounted`, `PassedIsExcused`),
and the new cursor is in the batch (`BatchBelowCursor`). `DeletionsHideOne` is
inductive by counting: the page limit leaves behind only what has a whole walk's
rows above it (`PageHidesNone`, `RankCounts`), and a deletion pulls up one row at
most (`DeleteHidesOne`, `RankInjective`). From the invariant follows the
refinement, `BoardImplementsFeed`: `CoveredStays` makes every other step a `Settle`,
and `OnlyPartialSavesLose` after a cursor was written says that the step was an
`Advance`. `FeedLeavesNothingBehind` is the promise of `CursorFeed` itself.

**CafeCrawlProofs.** `CafeTypes` and `CursorFollowsFullSaveHolds` for any clocks.
`LagIsHarmless` has a clock that is not behind (`Skew <= 0`) and proves `NoLoss`
and `OlderDaysAreCollected` of the behaviours in which nothing is posted in the
first `Lead` ticks of a day (`QuietMidnights`), where `Lead`, the lag plus what the
clock is ahead, is less than a day. With one clock and without a lag the condition
says nothing (`QuietWithoutLag`), which gives `NoLossHolds` and
`OlderDaysAreCollectedHolds` under `Skew = 0` and `MaxLag = 0`. The run `cafe_skew`
and the note on `MaxLag` below it show that both hypotheses are needed. The
arithmetic is that of days (`DayFacts`, `SameDay`, `NextDayBegins`) and of pages
(`RowsOf`); `ParseExact` says that a row is dated on its day, though it may be read
on the next, and held back exactly while it is not `Ripe`, and `RipeDown` that older
articles are ripe before newer ones. The
invariant `Safe` adds to the two properties what the walk rests on: its baseline is
a stored date and its new cursor ripe (`Walking`), what lies above the page is
collected (`Walked`), and what the walk leaves uncollected it passed or had before
(`Done`). `PageRead` is the step that counts: a page leaves nothing behind but what
is below it, or older than the base of a walk that stops there. `UpsertOlder` is
the same for a save that stores some rows only. `CafeImplementsFeed` is the
refinement of `CursorFeed` under the same hypotheses.

**ContentProofs.** For any number of articles, slots and attempts: of the pool
`PoolInvariant`, `OnlyTheContextCutsHolds`, `NilMeansNoneCutShortHolds` and
`StillAfterReturnHolds`; of the chain of sources `CafeTypeOKHolds` and
`GivesUpAfterAllSourcesHolds`, from `ChainInvariant` (`AskedInv`: the sources are
asked in their order, and an error that ends an article is that of a goroutine
which asked them all). `CafeImplementsPool`: the initial states are the pool's and
every step is a step of the pool or a stutter, with all goroutines under way. It
carries the pool's promises over (`CafeKeepsThePoolsPromises`).

**ServicesProofs.** `ServicesInvariant` (types, and the WaitGroup counts the
services that are not over: `Counted`), `FetcherOpenHolds`, `OrderlyCloseHolds`.
The invariant says for each place of the main goroutine what the loops may still
be doing (`CrawlInv`, `ApiInv`, `ExitInv`).

**FetchProofs.** `FetchInvariant`, `BodiesClosedHolds`, `UnsafeSentOnceHolds`,
`PacesRetriesHolds`, `StopsAfterEndHolds`, `OnlyWholeIsParsedHolds`,
`NotGivenUpEarlyHolds`, for every number of retries, delay, limit and size. The invariant
adds that one body at most is open and where (`OneBody`), that a retry is left
whenever the code waits for one (`RetryLeft`), when an attempt may start after the
context ended (`LateAttempt`), and what the buffer holds (`WholeInBuffer`).

**StoreProofs.** `StoreTypes`, `NoOrphansHolds`, `StoreInvariant` (with
`NothingLost`), `OnlyStaleIsDeletedHolds`, `ServesPurgedHolds`. To `NothingLost` the invariant adds
the same statement below every stored article (`StoredCovers`), below every
article a cycle is about to save (`BatchCovers`) and below every cursor it is about
to write (`MovesCover`). The heart is `NewCovers`: what a walk does not come past
is below its cursor, or below a stored article by date, and then below it by
number, because days and numbers agree (`Ordered`). `PurgeInv` says which
providers are clean while the purge is under way. `StoreImplementsFeed` is the
refinement of `CursorFeed`; it needs that a cycle writes a row at most once, of its
own provider and forward (`MovesAhead`), and that a board which joins is due above
its cursor only (`CoverSync`).

**TransportCacheProofs.** Every property of the run `transport`, for any fetchers,
options, limit and scan: `TransportTypes`, `LockDisciplineHolds`,
`CacheConsistentHolds`, `OptionsHonouredHolds`, `ClosedOnlyIfEvictedHolds`,
`NoneForgottenHolds`, and the refinement `CacheSpecHolds`.
`ToFrontKeeps`, `PushKeeps` and `ReplaceKeeps` treat the list; `KeyDecides`, that
equal keys build equal transports, carries the options. The invariant adds which
transports were made and by whom (`MadeInv`), that a fetcher has its base until it
is ready (`BaseInv`), and how the transport of a ready fetcher is linked to it
(`LinkInv`: its own, or one of its key that was cached). For the refinement,
`StepIsPromised` maps hits and lost races to `Hit`, won races to `Add`, and all
else to a stutter.

**ApiProofs.** Every safety property of the run `api`, for any requests, addresses,
paths, bucket size and limit of the map: `TypeOKHolds`, `RateBoundHolds`,
`OneResponseHolds`, and the refinement `LimiterImplementsCache`. `RateBound` counts
the requests of an address that passed, and no single state variable does. The
invariant (`ApiInvariant`) says that a request holds a limiter made for its own
address (`HeldInv`), that the limiters ever made for an address are its evictions,
and one more while it is on the map (`MadeInv`), and that what passed a bucket and
what is left in it is at most what it was filled with and gained (`BucketInv`).
`CountByClasses`, that a set which falls into k classes of at most m elements has
k * m at most, brings them together. `AnswerInv` says who has written a status
line where. For the refinement, `FoundIsHit` and `MadeIsAdd` are the two steps that
count.

**Only model-checked.** Liveness (`EventuallyHandled`, `EventuallyCollected`,
`EventuallyReturns` of `ContentPool` and of `Fetch`, `CancelledEnds`,
`EventuallyAnswered`), which is out of the provers' reach. Every safety property and
every refinement of a run is proved; the refinements of `CursorFeed` by `CafeCrawl`
and `Store` are proved and hold on the instances of `cafe_handled` and `store`,
without being listed with them.

## Plan

Every safety property and every refinement of the runs is proved. What is left is
to prove measures that bound how often a call or a walk can go on (the attempts of
`ContentPool` and `Fetch`, the pages of a walk), which is the part of the liveness
properties that the prover can reach, and to take more of the parsers into
`BoardCrawl` and `CafeCrawl` where a property tells their outcomes apart.

## Not modelled

- The text of a feed, GetArticles' rows, VACUUM: they read or render and change no
  state. That a query fails, is cut short or panics is in `Api`.
- Redirects (inside `http.Client`), user agents, logging, redaction, CORS, the body
  limit and security headers: no state that a property here speaks of.
- Configuration, validation, versions, errors and views: pure functions, run once
  at the start or for text; the models take validated values.
- `prepareBody` and the charset detection of `ParseHTML`: conversions of data that
  no property tells apart.
- Notification delivery (the client of notify-server) beyond the goroutine a handler starts.
