------------------------------ MODULE Services ------------------------------
(***************************************************************************)
(* The life of the process: run() in main.go starts the API service and    *)
(* the crawl service, waits for a signal, cancels the services' context    *)
(* and waits, for 30 seconds at most, until their WaitGroup is at zero;    *)
(* the deferred calls close the database however run() returns.  The API   *)
(* service has an event loop, the goroutine that serves HTTP and one       *)
(* goroutine per request; the crawl service has a goroutine that watches   *)
(* the context, the cron scheduler and one goroutine per running job.      *)
(***************************************************************************)
EXTENDS Integers

CONSTANTS
    Providers,  \* the providers of the configuration, one cron entry each
    Requests,   \* bound: HTTP requests that can be in progress at a time
    ServerFails \* may the HTTP server end by itself (port taken, accept fails)?

ASSUME ServerAssumption == ServerFails \in BOOLEAN

VARIABLES
    main,       \* where run() stands
    exit,       \* what it returns: "ok", "forced" (30 seconds), "failed" (a start)
    ctx,        \* serviceStopCtx
    wg,         \* the counter of serviceStopWG
    db,         \* "open" or "closed"
    api,        \* where the API service's event loop stands
    server,     \* startHTTPServer's goroutine; "done" has closed httpServerDone
    serving,    \* the requests whose handlers run ...
    abandoned,  \* ... and those the event loop left running
    crawl,      \* where the crawl service's goroutine stands
    cron,       \* is the scheduler running?
    jobs,       \* Base.Run of each provider
    fetcher     \* the connection pool the crawlers share

process  == <<main, exit, ctx, db>>
apiVars  == <<api, server, serving, abandoned>>
cronVars == <<crawl, cron, fetcher>>
vars     == <<process, wg, apiVars, cronVars, jobs>>

\* When run() has returned, the goroutines still running end with the process.
Alive == main # "exited"

\* Echo's Shutdown has been called: its listener is closed for good.
ShuttingDown == api \in {"shutdown", "draining", "over"}

AllIdle == \A p \in Providers : jobs[p] = "idle"

-----------------------------------------------------------------------------
Init ==
    /\ main = "start_api"
    /\ exit = "none"
    /\ ctx = "live"
    /\ wg = 0
    /\ db = "open"
    /\ api = "off"
    /\ server = "off"
    /\ serving = {}
    /\ abandoned = {}
    /\ crawl = "off"
    /\ cron = "off"
    /\ jobs = [p \in Providers |-> "idle"]
    /\ fetcher = "open"

-----------------------------------------------------------------------------
(* run()                                                                   *)

\* The API service's Start cannot fail: its repository is never nil.
StartApi ==
    /\ main = "start_api"
    /\ main' = "start_crawl"
    /\ wg' = wg + 1
    /\ api' = "waiting"
    /\ server' = "starting"
    /\ UNCHANGED <<exit, ctx, db, serving, abandoned, cronVars, jobs>>

StartCrawl ==
    /\ main = "start_crawl"
    /\ main' = "ready"
    /\ wg' = wg + 1
    /\ crawl' = "watching"
    /\ cron' = "on"
    /\ UNCHANGED <<exit, ctx, db, apiVars, fetcher, jobs>>

\* Mutant: main takes back the wg.Add that Start has already taken back.
CrawlStartFailsTwice ==
    /\ main = "start_crawl"
    /\ main' = "rollback"
    /\ ctx' = "ended"
    /\ wg' = wg - 1
    /\ UNCHANGED <<exit, db, apiVars, cronVars, jobs>>

\* wg.Add by main, registerJobs fails, wg.Done by Start; then main cancels.
CrawlStartFails ==
    /\ main = "start_crawl"
    /\ main' = "rollback"
    /\ ctx' = "ended"
    /\ UNCHANGED <<exit, wg, db, apiVars, cronVars, jobs>>

\* signal.Notify comes after the services: a signal before it kills the process.
KilledEarly ==
    /\ main \in {"start_api", "start_crawl"}
    /\ main' = "exited"
    /\ exit' = "killed"
    /\ UNCHANGED <<ctx, wg, db, apiVars, cronVars, jobs>>

Signal ==
    /\ main = "ready"
    /\ main' = "stopping"
    /\ ctx' = "ended"
    /\ UNCHANGED <<exit, wg, db, apiVars, cronVars, jobs>>

Returns(how) ==
    /\ main' = "returning"
    /\ exit' = how
    /\ UNCHANGED <<ctx, wg, db, apiVars, cronVars, jobs>>

AllStopped == main = "stopping" /\ wg = 0 /\ Returns("ok")

\* The select may take the timer although the WaitGroup is at zero.
StopTimesOut == main = "stopping" /\ Returns("forced")

\* The first error of a Start: Wait has no timeout here.
RolledBack == main = "rollback" /\ wg = 0 /\ Returns("failed")

CloseDB ==
    /\ main = "returning"
    /\ db' = "closed"
    /\ main' = "closed"
    /\ UNCHANGED <<exit, ctx, wg, apiVars, cronVars, jobs>>

Exit ==
    /\ main = "closed"
    /\ main' = "exited"
    /\ UNCHANGED <<exit, ctx, wg, db, apiVars, cronVars, jobs>>

Main ==
    \/ StartApi \/ StartCrawl \/ CrawlStartFails \/ AllStopped \/ StopTimesOut
    \/ RolledBack \/ CloseDB \/ Exit

-----------------------------------------------------------------------------
(* The API service.                                                        *)

Listens ==
    /\ Alive
    /\ server = "starting"
    /\ ~ShuttingDown
    /\ server' = "listening"
    /\ UNCHANGED <<process, wg, api, serving, abandoned, cronVars, jobs>>

\* Serve returns at once when Shutdown is called, or because it fails.
\* handleServerError comes before httpServerDone is closed.
ServeReturns ==
    /\ Alive
    /\ server \in {"starting", "listening"}
    /\ ShuttingDown \/ ServerFails
    /\ server' = "done"
    /\ UNCHANGED <<process, wg, api, serving, abandoned, cronVars, jobs>>

Request(r) ==
    /\ Alive
    /\ server = "listening"
    /\ ~ShuttingDown
    /\ serving' = serving \cup {r}
    /\ UNCHANGED <<process, wg, api, server, abandoned, cronVars, jobs>>

Answered(r) ==
    /\ Alive
    /\ r \in serving
    /\ serving' = serving \ {r}
    /\ UNCHANGED <<process, wg, api, server, abandoned, cronVars, jobs>>

ApiStopsOn(condition, from, to) ==
    /\ Alive
    /\ api = from
    /\ condition
    /\ api' = to
    /\ UNCHANGED <<process, server, serving, cronVars, jobs>>

\* waitForShutdown: the context is done, Shutdown is called.
ApiSeesStop ==
    ApiStopsOn(ctx = "ended", "waiting", "shutdown") /\ UNCHANGED <<wg, abandoned>>

ShutdownComplete ==
    ApiStopsOn(serving = {}, "shutdown", "draining") /\ UNCHANGED <<wg, abandoned>>

\* Mutant: Shutdown without a deadline waits for the last handler.
ShutdownPatient ==
    ApiStopsOn(serving = {}, "shutdown", "draining") /\ UNCHANGED <<wg, abandoned>>

\* Five seconds are over; the error is only reported, the handlers go on.
ShutdownTimesOut ==
    /\ ApiStopsOn(serving # {}, "shutdown", "draining")
    /\ abandoned' = serving
    /\ UNCHANGED wg

\* Mutant: the loop ends without waiting for the HTTP goroutine.
ApiOverAtOnce ==
    ApiStopsOn(TRUE, "draining", "over") /\ wg' = wg - 1 /\ UNCHANGED abandoned

\* httpServerDone was waited for: cleanup, and the deferred wg.Done.
ApiOver ==
    /\ ApiStopsOn(server = "done", "draining", "over")
    /\ wg' = wg - 1
    /\ UNCHANGED abandoned

\* The HTTP goroutine ended first: cleanup without Shutdown, so that nobody waits
\* for the handlers; main goes on.
ApiLost ==
    /\ ApiStopsOn(server = "done", "waiting", "over")
    /\ wg' = wg - 1
    /\ abandoned' = serving

Api ==
    \/ ApiSeesStop \/ ShutdownComplete \/ ShutdownTimesOut \/ ApiOver \/ ApiLost

-----------------------------------------------------------------------------
(* The crawl service.                                                      *)

Step(p, from, to) ==
    /\ Alive
    /\ jobs[p] = from
    /\ jobs' = [jobs EXCEPT ![p] = to]
    /\ UNCHANGED <<process, wg, apiVars, cronVars>>

\* The entry of p is due.  SkipIfStillRunning: not while its last run goes on.
Fire(p) == cron = "on" /\ Step(p, "idle", "crawling")

\* execute comes back with articles; finalizeExecution has a context of its own,
\* one minute that neither the signal nor the timer in main cuts short.
Collects(p) == Step(p, "crawling", "saving")

\* An error, the end of the context, or a panic.
Fails(p) == Step(p, "crawling", "idle")

Saves(p) == Step(p, "saving", "idle")

\* stop(): cron fires no more.
CrawlSeesStop ==
    /\ Alive
    /\ crawl = "watching"
    /\ ctx = "ended"
    /\ crawl' = "stopping"
    /\ cron' = "off"
    /\ UNCHANGED <<process, wg, apiVars, fetcher, jobs>>

\* Mutant: stop() does not wait for cron's context.
CrawlOverAtOnce ==
    /\ Alive
    /\ crawl = "stopping"
    /\ crawl' = "over"
    /\ fetcher' = "closed"
    /\ wg' = wg - 1
    /\ UNCHANGED <<process, apiVars, cron, jobs>>

\* The jobs that were running are over: the fetcher is closed, then wg.Done.
CrawlOver ==
    /\ Alive
    /\ crawl = "stopping"
    /\ AllIdle
    /\ crawl' = "over"
    /\ fetcher' = "closed"
    /\ wg' = wg - 1
    /\ UNCHANGED <<process, apiVars, cron, jobs>>

Crawl == CrawlSeesStop \/ CrawlOver

-----------------------------------------------------------------------------
Next ==
    \/ Main \/ KilledEarly \/ Signal
    \/ Listens \/ ServeReturns \/ Api
    \/ Crawl
    \/ \E r \in Requests : Request(r) \/ Answered(r)
    \/ \E p \in Providers : Fire(p) \/ Collects(p) \/ Fails(p) \/ Saves(p)

Spec == Init /\ [][Next]_vars

\* The goroutines of the services and run() are scheduled, timers fire, and a
\* Serve whose listener is closed returns.  Handlers and jobs may hang, no
\* signal need come, and no request.
FairSpec ==
    /\ Spec
    /\ WF_vars(Main)
    /\ WF_vars(Api)
    /\ WF_vars(ShuttingDown /\ ServeReturns)
    /\ WF_vars(Crawl)

-----------------------------------------------------------------------------
\* Every variable has its type; the WaitGroup's counter never drops below zero.
TypeOK ==
    /\ main \in {"start_api", "start_crawl", "ready", "stopping", "rollback",
                 "returning", "closed", "exited"}
    /\ exit \in {"none", "ok", "forced", "failed", "killed"}
    /\ ctx \in {"live", "ended"}
    /\ wg \in 0..2
    /\ db \in {"open", "closed"}
    /\ api \in {"off", "waiting", "shutdown", "draining", "over"}
    /\ server \in {"off", "starting", "listening", "done"}
    /\ serving \in SUBSET Requests
    /\ abandoned \in SUBSET Requests
    /\ crawl \in {"off", "watching", "stopping", "over"}
    /\ cron \in {"off", "on"}
    /\ jobs \in [Providers -> {"idle", "crawling", "saving"}]
    /\ fetcher \in {"open", "closed"}

\* No crawler asks the web with the shared fetcher once it is closed: stop()
\* closes it after the last job, and no job starts after.
FetcherOpenWhileCrawling ==
    fetcher = "closed" => \A p \in Providers : jobs[p] # "crawling"

\* "모든 서비스가 리소스를 정리하고 정상적으로 종료되었습니다": unless run() was
\* forced by its timer, the database is closed with no crawl job under way, no
\* scheduler to start one, and no HTTP server listening.  The requests still
\* being answered then are those Shutdown gave up after five seconds, or that were
\* being answered when the server ended by itself.
OrderlyClose ==
    db = "closed" /\ exit # "forced" =>
        /\ AllIdle
        /\ cron = "off"
        /\ server = "done"
        /\ crawl = "off" \/ fetcher = "closed"
        /\ serving \subseteq abandoned

\* Once run() cancels the context it returns, whether a start failed (and there
\* is no timer) or a signal came, and although jobs and handlers may hang.
CancelledEnds == ctx = "ended" ~> main = "exited"
=============================================================================
