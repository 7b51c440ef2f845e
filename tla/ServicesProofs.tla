--------------------------- MODULE ServicesProofs ---------------------------
(* What the shutdown protocol guarantees for any set of providers and       *)
(* requests, checked by TLAPS.                                              *)
EXTENDS Services, TLAPS

One(b) == IF b THEN 1 ELSE 0

\* The WaitGroup counts the event loop of the API service and the goroutine of
\* the crawl service, from their Start to their end.
Counted ==
    wg = One(api \in {"waiting", "shutdown", "draining"}) + One(crawl \in {"watching", "stopping"})

\* The scheduler runs as long as the context is watched; no job is under way
\* before the service was started and after stop() has returned.
CrawlInv ==
    /\ cron = "on" <=> crawl = "watching"
    /\ crawl \in {"off", "over"} => AllIdle
    /\ fetcher = "closed" <=> crawl = "over"

\* The event loop is over only after the HTTP goroutine, and starts before
\* run() goes on; once it waits no longer, it has left the handlers that run.
ApiInv ==
    /\ api = "over" => server = "done"
    /\ main \notin {"start_api", "exited"} => api # "off"
    /\ main = "start_api" => api = "off"
    /\ main \in {"start_api", "start_crawl", "rollback"} => crawl = "off"
    /\ api \in {"draining", "over"} => serving \subseteq abandoned

\* Unless it was forced or killed, run() returns when both services are over.
ExitInv ==
    /\ main \in {"start_api", "start_crawl", "ready", "stopping", "rollback"} => exit = "none"
    /\ exit \in {"ok", "failed"} => api = "over" /\ crawl \in {"off", "over"}
    /\ main \in {"returning", "closed"} => exit \in {"ok", "forced", "failed"}
    /\ db = "closed" => main \in {"closed", "exited"} /\ exit \in {"ok", "forced", "failed"}

Inv == Counted /\ CrawlInv /\ ApiInv /\ ExitInv

-----------------------------------------------------------------------------
\* The invariant holds at the start.
LEMMA ServicesInit == Init => Inv /\ TypeOK
  BY DEF Init, Inv, Counted, One, CrawlInv, ApiInv, ExitInv, AllIdle, TypeOK

\* Types are kept; the range of the counter comes from Counted.
LEMMA ServicesType == TypeOK /\ Counted' /\ [Next]_vars => TypeOK'
<1> SUFFICES ASSUME TypeOK, Counted', [Next]_vars PROVE TypeOK'
  OBVIOUS
<1>0. wg' \in 0..2
  BY DEF Counted, One
<1> USE <1>0 DEF TypeOK, process, apiVars, cronVars
<1>1. CASE UNCHANGED vars
  BY <1>1 DEF vars
<1>2. CASE StartApi
  BY <1>2 DEF StartApi
<1>3. CASE StartCrawl
  BY <1>3 DEF StartCrawl
<1>4. CASE CrawlStartFails
  BY <1>4 DEF CrawlStartFails
<1>5. CASE AllStopped
  BY <1>5 DEF AllStopped, Returns
<1>6. CASE StopTimesOut
  BY <1>6 DEF StopTimesOut, Returns
<1>7. CASE RolledBack
  BY <1>7 DEF RolledBack, Returns
<1>8. CASE CloseDB
  BY <1>8 DEF CloseDB
<1>9. CASE Exit
  BY <1>9 DEF Exit
<1>10. CASE KilledEarly
  BY <1>10 DEF KilledEarly
<1>11. CASE Signal
  BY <1>11 DEF Signal
<1>12. CASE Listens
  BY <1>12 DEF Listens
<1>13. CASE ServeReturns
  BY <1>13 DEF ServeReturns
<1>14. CASE ApiSeesStop
  BY <1>14 DEF ApiSeesStop, ApiStopsOn
<1>15. CASE ShutdownComplete
  BY <1>15 DEF ShutdownComplete, ApiStopsOn
<1>16. CASE ShutdownTimesOut
  BY <1>16 DEF ShutdownTimesOut, ApiStopsOn
<1>17. CASE ApiOver
  BY <1>17 DEF ApiOver, ApiStopsOn
<1>18. CASE ApiLost
  BY <1>18 DEF ApiLost, ApiStopsOn
<1>19. CASE CrawlSeesStop
  BY <1>19 DEF CrawlSeesStop
<1>20. CASE CrawlOver
  BY <1>20 DEF CrawlOver
<1>21. ASSUME NEW r \in Requests, Request(r) PROVE TypeOK'
  BY <1>21 DEF Request
<1>22. ASSUME NEW r \in Requests, Answered(r) PROVE TypeOK'
  BY <1>22 DEF Answered
<1>23. ASSUME NEW p \in Providers, Fire(p) PROVE TypeOK'
  BY <1>23 DEF Fire, Step
<1>24. ASSUME NEW p \in Providers, Collects(p) PROVE TypeOK'
  BY <1>24 DEF Collects, Step
<1>25. ASSUME NEW p \in Providers, Fails(p) PROVE TypeOK'
  BY <1>25 DEF Fails, Step
<1>26. ASSUME NEW p \in Providers, Saves(p) PROVE TypeOK'
  BY <1>26 DEF Saves, Step
<1>27. QED
  BY <1>1, <1>2, <1>3, <1>4, <1>5, <1>6, <1>7, <1>8, <1>9, <1>10, <1>11,
     <1>12, <1>13, <1>14, <1>15, <1>16, <1>17, <1>18, <1>19, <1>20, <1>21,
     <1>22, <1>23, <1>24, <1>25, <1>26
     DEF Next, Main, Api, Crawl

\* Every Start and every end of a loop is counted once.
LEMMA ServicesCounted == TypeOK /\ Inv /\ [Next]_vars => Counted'
<1> SUFFICES ASSUME TypeOK, Inv, [Next]_vars PROVE Counted'
  OBVIOUS
<1> USE DEF TypeOK, Inv, Counted, One, CrawlInv, ApiInv, ExitInv, process, apiVars, cronVars
<1>1. CASE UNCHANGED vars
  BY <1>1 DEF vars
<1>2. CASE StartApi
  BY <1>2 DEF StartApi
<1>3. CASE StartCrawl
  BY <1>3 DEF StartCrawl
<1>4. CASE CrawlStartFails
  BY <1>4 DEF CrawlStartFails
<1>5. CASE AllStopped
  BY <1>5 DEF AllStopped, Returns
<1>6. CASE StopTimesOut
  BY <1>6 DEF StopTimesOut, Returns
<1>7. CASE RolledBack
  BY <1>7 DEF RolledBack, Returns
<1>8. CASE CloseDB
  BY <1>8 DEF CloseDB
<1>9. CASE Exit
  BY <1>9 DEF Exit
<1>10. CASE KilledEarly
  BY <1>10 DEF KilledEarly
<1>11. CASE Signal
  BY <1>11 DEF Signal
<1>12. CASE Listens
  BY <1>12 DEF Listens
<1>13. CASE ServeReturns
  BY <1>13 DEF ServeReturns
<1>14. CASE ApiSeesStop
  BY <1>14 DEF ApiSeesStop, ApiStopsOn
<1>15. CASE ShutdownComplete
  BY <1>15 DEF ShutdownComplete, ApiStopsOn
<1>16. CASE ShutdownTimesOut
  BY <1>16 DEF ShutdownTimesOut, ApiStopsOn
<1>17. CASE ApiOver
  BY <1>17 DEF ApiOver, ApiStopsOn
<1>18. CASE ApiLost
  BY <1>18 DEF ApiLost, ApiStopsOn
<1>19. CASE CrawlSeesStop
  BY <1>19 DEF CrawlSeesStop
<1>20. CASE CrawlOver
  BY <1>20 DEF CrawlOver
<1>21. ASSUME NEW r \in Requests, Request(r) PROVE Counted'
  BY <1>21 DEF Request
<1>22. ASSUME NEW r \in Requests, Answered(r) PROVE Counted'
  BY <1>22 DEF Answered
<1>23. ASSUME NEW p \in Providers, Fire(p) PROVE Counted'
  BY <1>23 DEF Fire, Step
<1>24. ASSUME NEW p \in Providers, Collects(p) PROVE Counted'
  BY <1>24 DEF Collects, Step
<1>25. ASSUME NEW p \in Providers, Fails(p) PROVE Counted'
  BY <1>25 DEF Fails, Step
<1>26. ASSUME NEW p \in Providers, Saves(p) PROVE Counted'
  BY <1>26 DEF Saves, Step
<1>27. QED
  BY <1>1, <1>2, <1>3, <1>4, <1>5, <1>6, <1>7, <1>8, <1>9, <1>10, <1>11,
     <1>12, <1>13, <1>14, <1>15, <1>16, <1>17, <1>18, <1>19, <1>20, <1>21,
     <1>22, <1>23, <1>24, <1>25, <1>26
     DEF Next, Main, Api, Crawl

\* stop() waits for the jobs and closes the fetcher after them.
LEMMA ServicesCrawl == TypeOK /\ Inv /\ [Next]_vars => CrawlInv'
<1> SUFFICES ASSUME TypeOK, Inv, [Next]_vars PROVE CrawlInv'
  OBVIOUS
<1> USE DEF TypeOK, Inv, CrawlInv, ApiInv, AllIdle, process, apiVars, cronVars
<1>1. CASE UNCHANGED vars
  BY <1>1 DEF vars
<1>2. CASE StartApi
  BY <1>2 DEF StartApi
<1>3. CASE StartCrawl
  BY <1>3 DEF StartCrawl
<1>4. CASE CrawlStartFails
  BY <1>4 DEF CrawlStartFails
<1>5. CASE AllStopped
  BY <1>5 DEF AllStopped, Returns
<1>6. CASE StopTimesOut
  BY <1>6 DEF StopTimesOut, Returns
<1>7. CASE RolledBack
  BY <1>7 DEF RolledBack, Returns
<1>8. CASE CloseDB
  BY <1>8 DEF CloseDB
<1>9. CASE Exit
  BY <1>9 DEF Exit
<1>10. CASE KilledEarly
  BY <1>10 DEF KilledEarly
<1>11. CASE Signal
  BY <1>11 DEF Signal
<1>12. CASE Listens
  BY <1>12 DEF Listens
<1>13. CASE ServeReturns
  BY <1>13 DEF ServeReturns
<1>14. CASE ApiSeesStop
  BY <1>14 DEF ApiSeesStop, ApiStopsOn
<1>15. CASE ShutdownComplete
  BY <1>15 DEF ShutdownComplete, ApiStopsOn
<1>16. CASE ShutdownTimesOut
  BY <1>16 DEF ShutdownTimesOut, ApiStopsOn
<1>17. CASE ApiOver
  BY <1>17 DEF ApiOver, ApiStopsOn
<1>18. CASE ApiLost
  BY <1>18 DEF ApiLost, ApiStopsOn
<1>19. CASE CrawlSeesStop
  BY <1>19 DEF CrawlSeesStop
<1>20. CASE CrawlOver
  BY <1>20 DEF CrawlOver
<1>21. ASSUME NEW r \in Requests, Request(r) PROVE CrawlInv'
  BY <1>21 DEF Request
<1>22. ASSUME NEW r \in Requests, Answered(r) PROVE CrawlInv'
  BY <1>22 DEF Answered
<1>23. ASSUME NEW p \in Providers, Fire(p) PROVE CrawlInv'
  BY <1>23 DEF Fire, Step
<1>24. ASSUME NEW p \in Providers, Collects(p) PROVE CrawlInv'
  BY <1>24 DEF Collects, Step
<1>25. ASSUME NEW p \in Providers, Fails(p) PROVE CrawlInv'
  BY <1>25 DEF Fails, Step
<1>26. ASSUME NEW p \in Providers, Saves(p) PROVE CrawlInv'
  BY <1>26 DEF Saves, Step
<1>27. QED
  BY <1>1, <1>2, <1>3, <1>4, <1>5, <1>6, <1>7, <1>8, <1>9, <1>10, <1>11,
     <1>12, <1>13, <1>14, <1>15, <1>16, <1>17, <1>18, <1>19, <1>20, <1>21,
     <1>22, <1>23, <1>24, <1>25, <1>26
     DEF Next, Main, Api, Crawl

\* The event loop outlives the HTTP goroutine.
LEMMA ServicesApi == TypeOK /\ Inv /\ [Next]_vars => ApiInv'
<1> SUFFICES ASSUME TypeOK, Inv, [Next]_vars PROVE ApiInv'
  OBVIOUS
<1> USE DEF TypeOK, Inv, ApiInv, process, apiVars, cronVars
<1>1. CASE UNCHANGED vars
  BY <1>1 DEF vars
<1>2. CASE StartApi
  BY <1>2 DEF StartApi
<1>3. CASE StartCrawl
  BY <1>3 DEF StartCrawl
<1>4. CASE CrawlStartFails
  BY <1>4 DEF CrawlStartFails
<1>5. CASE AllStopped
  BY <1>5 DEF AllStopped, Returns
<1>6. CASE StopTimesOut
  BY <1>6 DEF StopTimesOut, Returns
<1>7. CASE RolledBack
  BY <1>7 DEF RolledBack, Returns
<1>8. CASE CloseDB
  BY <1>8 DEF CloseDB
<1>9. CASE Exit
  BY <1>9 DEF Exit
<1>10. CASE KilledEarly
  BY <1>10 DEF KilledEarly
<1>11. CASE Signal
  BY <1>11 DEF Signal
<1>12. CASE Listens
  BY <1>12 DEF Listens
<1>13. CASE ServeReturns
  BY <1>13 DEF ServeReturns
<1>14. CASE ApiSeesStop
  BY <1>14 DEF ApiSeesStop, ApiStopsOn
<1>15. CASE ShutdownComplete
  BY <1>15 DEF ShutdownComplete, ApiStopsOn
<1>16. CASE ShutdownTimesOut
  BY <1>16 DEF ShutdownTimesOut, ApiStopsOn
<1>17. CASE ApiOver
  BY <1>17 DEF ApiOver, ApiStopsOn
<1>18. CASE ApiLost
  BY <1>18 DEF ApiLost, ApiStopsOn
<1>19. CASE CrawlSeesStop
  BY <1>19 DEF CrawlSeesStop
<1>20. CASE CrawlOver
  BY <1>20 DEF CrawlOver
<1>21. ASSUME NEW r \in Requests, Request(r) PROVE ApiInv'
  BY <1>21 DEF Request, ShuttingDown
<1>22. ASSUME NEW r \in Requests, Answered(r) PROVE ApiInv'
  BY <1>22 DEF Answered
<1>23. ASSUME NEW p \in Providers, Fire(p) PROVE ApiInv'
  BY <1>23 DEF Fire, Step
<1>24. ASSUME NEW p \in Providers, Collects(p) PROVE ApiInv'
  BY <1>24 DEF Collects, Step
<1>25. ASSUME NEW p \in Providers, Fails(p) PROVE ApiInv'
  BY <1>25 DEF Fails, Step
<1>26. ASSUME NEW p \in Providers, Saves(p) PROVE ApiInv'
  BY <1>26 DEF Saves, Step
<1>27. QED
  BY <1>1, <1>2, <1>3, <1>4, <1>5, <1>6, <1>7, <1>8, <1>9, <1>10, <1>11,
     <1>12, <1>13, <1>14, <1>15, <1>16, <1>17, <1>18, <1>19, <1>20, <1>21,
     <1>22, <1>23, <1>24, <1>25, <1>26
     DEF Next, Main, Api, Crawl

\* When the counter is at zero no service is running.
LEMMA ServicesExit == TypeOK /\ Inv /\ [Next]_vars => ExitInv'
<1> SUFFICES ASSUME TypeOK, Inv, [Next]_vars PROVE ExitInv'
  OBVIOUS
<1> USE DEF TypeOK, Inv, Counted, One, ApiInv, ExitInv, process, apiVars, cronVars
<1>1. CASE UNCHANGED vars
  BY <1>1 DEF vars
<1>2. CASE StartApi
  BY <1>2 DEF StartApi
<1>3. CASE StartCrawl
  BY <1>3 DEF StartCrawl
<1>4. CASE CrawlStartFails
  BY <1>4 DEF CrawlStartFails
<1>5. CASE AllStopped
  BY <1>5 DEF AllStopped, Returns
<1>6. CASE StopTimesOut
  BY <1>6 DEF StopTimesOut, Returns
<1>7. CASE RolledBack
  BY <1>7 DEF RolledBack, Returns
<1>8. CASE CloseDB
  BY <1>8 DEF CloseDB
<1>9. CASE Exit
  BY <1>9 DEF Exit
<1>10. CASE KilledEarly
  BY <1>10 DEF KilledEarly
<1>11. CASE Signal
  BY <1>11 DEF Signal
<1>12. CASE Listens
  BY <1>12 DEF Listens
<1>13. CASE ServeReturns
  BY <1>13 DEF ServeReturns
<1>14. CASE ApiSeesStop
  BY <1>14 DEF ApiSeesStop, ApiStopsOn
<1>15. CASE ShutdownComplete
  BY <1>15 DEF ShutdownComplete, ApiStopsOn
<1>16. CASE ShutdownTimesOut
  BY <1>16 DEF ShutdownTimesOut, ApiStopsOn
<1>17. CASE ApiOver
  BY <1>17 DEF ApiOver, ApiStopsOn
<1>18. CASE ApiLost
  BY <1>18 DEF ApiLost, ApiStopsOn
<1>19. CASE CrawlSeesStop
  BY <1>19 DEF CrawlSeesStop
<1>20. CASE CrawlOver
  BY <1>20 DEF CrawlOver
<1>21. ASSUME NEW r \in Requests, Request(r) PROVE ExitInv'
  BY <1>21 DEF Request
<1>22. ASSUME NEW r \in Requests, Answered(r) PROVE ExitInv'
  BY <1>22 DEF Answered
<1>23. ASSUME NEW p \in Providers, Fire(p) PROVE ExitInv'
  BY <1>23 DEF Fire, Step
<1>24. ASSUME NEW p \in Providers, Collects(p) PROVE ExitInv'
  BY <1>24 DEF Collects, Step
<1>25. ASSUME NEW p \in Providers, Fails(p) PROVE ExitInv'
  BY <1>25 DEF Fails, Step
<1>26. ASSUME NEW p \in Providers, Saves(p) PROVE ExitInv'
  BY <1>26 DEF Saves, Step
<1>27. QED
  BY <1>1, <1>2, <1>3, <1>4, <1>5, <1>6, <1>7, <1>8, <1>9, <1>10, <1>11,
     <1>12, <1>13, <1>14, <1>15, <1>16, <1>17, <1>18, <1>19, <1>20, <1>21,
     <1>22, <1>23, <1>24, <1>25, <1>26
     DEF Next, Main, Api, Crawl

\* The types and the invariant hold in every state.
THEOREM ServicesInvariant == Spec => [](TypeOK /\ Inv)
<1>1. Init => TypeOK /\ Inv
  BY ServicesInit
<1>2. TypeOK /\ Inv /\ [Next]_vars => (TypeOK /\ Inv)'
  BY ServicesType, ServicesCounted, ServicesCrawl, ServicesApi, ServicesExit DEF Inv
<1>3. QED
  BY <1>1, <1>2, PTL DEF Spec

\* The shared fetcher is never closed under a running crawl.
THEOREM FetcherOpenHolds == Spec => []FetcherOpenWhileCrawling
<1>1. Inv => FetcherOpenWhileCrawling
  BY DEF Inv, CrawlInv, AllIdle, FetcherOpenWhileCrawling
<1>2. QED
  BY <1>1, ServicesInvariant, PTL

\* Unless the 30 seconds ran out, the database is closed after the services
\* have ended, their jobs included, and the requests still being answered are
\* those the API service knowingly left running.
THEOREM OrderlyCloseHolds == Spec => []OrderlyClose
<1>1. TypeOK /\ Inv => OrderlyClose
  BY DEF Inv, CrawlInv, ApiInv, ExitInv, TypeOK, OrderlyClose
<1>2. QED
  BY <1>1, ServicesInvariant, PTL

=============================================================================
