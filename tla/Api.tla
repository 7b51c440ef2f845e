-------------------------------- MODULE Api --------------------------------
(***************************************************************************)
(* HTTP requests on their way through the server of NewEchoServer: the     *)
(* middleware chain with its limiter of requests per address, the handlers *)
(* of the feed summary and of a feed, and the one place where errors       *)
(* become responses.  Every request is a goroutine; what they share is the *)
(* map of limiters, filled under a lock that is looked past first.         *)
(*                                                                         *)
(* A request makes at most one limiter, so a limiter is named by its       *)
(* maker.  The unit of time is that in which a bucket gains one token.     *)
(***************************************************************************)
EXTENDS Integers, FiniteSets

CONSTANTS
    Requests,   \* bound: the requests that come in
    Addresses,  \* what RealIP returns
    Calls,      \* who asks for what: functions of the requests
    Limit,      \* maxIPRateLimiters
    Burst,      \* the size of a bucket
    MaxTime,    \* bound of the clock
    NoLimiter, Pending

\* An OPTIONS request, "/", the feed of a provider with boards or without, and
\* an id that no provider has.
Paths == {"preflight", "summary", "feed", "empty", "unknown"}

ASSUME ApiAssumption ==
    /\ IsFiniteSet(Requests)
    /\ Calls \subseteq [Requests -> [from : Addresses, path : Paths]]
    /\ NoLimiter \notin Requests /\ Pending \notin Requests
    /\ Limit \in Nat \ {0} /\ Burst \in Nat \ {0} /\ MaxTime \in Nat

VARIABLES
    call,       \* the address and the path of each request
    pc,         \* where it is
    limiters,   \* ipRateLimiter.limiters
    lim,        \* ipLimiter of each request
    tokens,     \* the tokens in the bucket of each limiter
    now,
    err,        \* the code of the error on its way up, or "none"
    status,     \* the status line that was sent, or "none"
    notice,     \* the goroutine of notifyError: "none", "sending", "over"
    passed,     \* the requests that got a token ...
    evictions   \* ... and how often the limiter of each address was evicted

limiting == <<limiters, lim, tokens, evictions, passed>>
answer   == <<err, status, notice>>
vars     == <<call, pc, limiting, answer, now>>

Init ==
    /\ call \in Calls
    /\ pc = [r \in Requests |-> "new"]
    /\ limiters = [a \in Addresses |-> NoLimiter]
    /\ lim = [r \in Requests |-> NoLimiter]
    /\ tokens = [r \in Requests |-> Burst]
    /\ now = 0
    /\ err = [r \in Requests |-> "none"]
    /\ status = [r \in Requests |-> "none"]
    /\ notice = [r \in Requests |-> "none"]
    /\ passed = {}
    /\ evictions = [a \in Addresses |-> 0]

Ip(r) == call[r].from

Goes(r, from, to) == pc[r] = from /\ pc' = [pc EXCEPT ![r] = to]

-----------------------------------------------------------------------------
(* RateLimit.                                                              *)

\* CORS, which stands before the limiter, answers a preflight itself.
Preflight(r) ==
    /\ call[r].path = "preflight"
    /\ Goes(r, "new", "done")
    /\ status' = [status EXCEPT ![r] = "204"]
    /\ UNCHANGED <<call, limiting, err, notice, now>>

\* getLimiter under the read lock.
LookUp(r) ==
    /\ call[r].path # "preflight"
    /\ \/ /\ limiters[Ip(r)] # NoLimiter
          /\ Goes(r, "new", "limited")
          /\ lim' = [lim EXCEPT ![r] = limiters[Ip(r)]]
       \/ /\ limiters[Ip(r)] = NoLimiter
          /\ Goes(r, "new", "create")
          /\ UNCHANGED lim
    /\ UNCHANGED <<call, limiters, tokens, evictions, passed, answer, now>>

Limited == {a \in Addresses : limiters[a] # NoLimiter}

\* Mutant: the loop over the map has no break.
InsertAlone(r) ==
    IF Cardinality(Limited) >= Limit
    THEN /\ limiters' = [a \in Addresses |-> IF a = Ip(r) THEN r ELSE NoLimiter]
         /\ evictions' = [a \in Addresses |->
                             evictions[a] + IF a \in Limited THEN 1 ELSE 0]
    ELSE /\ limiters' = [limiters EXCEPT ![Ip(r)] = r]
         /\ UNCHANGED evictions

\* At the limit the first address of the map's random order leaves.
Insert(r) ==
    IF Cardinality(Limited) >= Limit
    THEN \E a \in Limited :
            /\ limiters' = [limiters EXCEPT ![a] = NoLimiter, ![Ip(r)] = r]
            /\ evictions' = [evictions EXCEPT ![a] = @ + 1]
    ELSE /\ limiters' = [limiters EXCEPT ![Ip(r)] = r]
         /\ UNCHANGED evictions

\* Mutant: nobody looks whether another request was faster.
CreateUnchecked(r) ==
    /\ Goes(r, "create", "limited")
    /\ Insert(r)
    /\ lim' = [lim EXCEPT ![r] = r]
    /\ tokens' = [tokens EXCEPT ![r] = Burst]
    /\ UNCHANGED <<call, passed, answer, now>>

\* getLimiter under the write lock.
Create(r) ==
    /\ Goes(r, "create", "limited")
    /\ \/ /\ limiters[Ip(r)] # NoLimiter
          /\ lim' = [lim EXCEPT ![r] = limiters[Ip(r)]]
          /\ UNCHANGED <<limiters, tokens, evictions>>
       \/ /\ limiters[Ip(r)] = NoLimiter
          /\ Insert(r)
          /\ lim' = [lim EXCEPT ![r] = r]
          /\ tokens' = [tokens EXCEPT ![r] = Burst]
    /\ UNCHANGED <<call, passed, answer, now>>

Allow(r) ==
    /\ Goes(r, "limited", "handle")
    /\ tokens[lim[r]] > 0
    /\ tokens' = [tokens EXCEPT ![lim[r]] = @ - 1]
    /\ passed' = passed \cup {r}
    /\ UNCHANGED <<call, limiters, lim, evictions, answer, now>>

\* A handler returns an error: what follows it is skipped.
Raise(r, from, code) ==
    /\ Goes(r, from, "error")
    /\ err' = [err EXCEPT ![r] = code]
    /\ UNCHANGED <<call, limiting, status, now>>

Refuse(r) == Raise(r, "limited", "429") /\ tokens[lim[r]] = 0 /\ UNCHANGED notice

Limiter(r) == Preflight(r) \/ LookUp(r) \/ Create(r) \/ Allow(r) \/ Refuse(r)

-----------------------------------------------------------------------------
(* ViewSummary and GetFeed.                                                *)

Proceed(r, from, to) ==
    /\ Goes(r, from, to)
    /\ UNCHANGED <<call, limiting, answer, now>>

Render(r) == call[r].path = "summary" /\ Proceed(r, "handle", "send")

RenderFails(r) ==
    call[r].path = "summary" /\ Raise(r, "handle", "500") /\ UNCHANGED notice

NotFound(r) ==
    call[r].path = "unknown" /\ Raise(r, "handle", "404") /\ UNCHANGED notice

\* Without boards the store is not asked.
GetArticles(r) == call[r].path \in {"feed", "empty"} /\ Proceed(r, "handle", "build")

\* The client went away: no HTTPError, so ErrorHandler makes it a 500.
QueryCut(r) ==
    call[r].path = "feed" /\ Raise(r, "handle", "500") /\ UNCHANGED notice

\* The notification has its own goroutine, which may take its five seconds.
NotifyError(r, from) ==
    /\ Raise(r, from, "500")
    /\ notice' = [notice EXCEPT ![r] = "sending"]

QueryFails(r) == call[r].path = "feed" /\ NotifyError(r, "handle")

ToRss(r) == Proceed(r, "build", "send")

ToRssFails(r) == NotifyError(r, "build")

\* A query or a rendering panics: PanicRecovery hands that to ErrorHandler and
\* returns nil.
Panics(r) ==
    /\ call[r].path # "unknown"
    /\ \E from \in {"handle", "build"} : Raise(r, from, "500")
    /\ UNCHANGED notice

\* The status line is sent first; the body may not reach the client.
Send(r) ==
    /\ status' = [status EXCEPT ![r] = "200"]
    /\ \/ Goes(r, "send", "done") /\ UNCHANGED err
       \/ Goes(r, "send", "error") /\ err' = [err EXCEPT ![r] = "500"]
    /\ UNCHANGED <<call, limiting, notice, now>>

Handle(r) ==
    \/ Render(r) \/ RenderFails(r)
    \/ NotFound(r) \/ GetArticles(r) \/ QueryCut(r) \/ QueryFails(r)
    \/ ToRss(r) \/ ToRssFails(r)
    \/ Panics(r) \/ Send(r)

\* Mutant: the error is sent whatever was sent before.
ErrorHandlerAnyway(r) ==
    /\ Goes(r, "error", "done")
    /\ status' = [status EXCEPT ![r] = err[r]]
    /\ UNCHANGED <<call, limiting, err, notice, now>>

\* Mutant: notifyError sends in line, and its error goes up only after that.
ErrorHandlerAfterNotice(r) ==
    /\ notice[r] # "sending"
    /\ Goes(r, "error", "done")
    /\ status' = [status EXCEPT ![r] = IF @ = "none" THEN err[r] ELSE @]
    /\ UNCHANGED <<call, limiting, err, notice, now>>

\* HTTPLogger or PanicRecovery calls it, and the error ends there.
ErrorHandler(r) ==
    /\ Goes(r, "error", "done")
    /\ status' = [status EXCEPT ![r] = IF @ = "none" THEN err[r] ELSE @]
    /\ UNCHANGED <<call, limiting, err, notice, now>>

Serve(r) == Limiter(r) \/ Handle(r) \/ ErrorHandler(r)

NotifyOver(r) ==
    /\ notice[r] = "sending"
    /\ notice' = [notice EXCEPT ![r] = "over"]
    /\ UNCHANGED <<call, pc, limiting, err, status, now>>

Tick ==
    /\ now < MaxTime
    /\ now' = now + 1
    /\ tokens' = [l \in Requests |-> IF tokens[l] < Burst THEN tokens[l] + 1 ELSE Burst]
    /\ UNCHANGED <<call, pc, limiters, lim, evictions, passed, answer>>

Next == (\E r \in Requests : Serve(r) \/ NotifyOver(r)) \/ Tick

Spec == Init /\ [][Next]_vars

\* A request's goroutine is scheduled; a query ends (SQLite waits five seconds for
\* a lock at most), and so does a write (65 seconds).  A notification need not.
FairSpec == Spec /\ \A r \in Requests : WF_vars(Serve(r))

-----------------------------------------------------------------------------
\* Every variable has its type, and the map of limiters does not outgrow Limit.
TypeOK ==
    /\ call \in Calls
    /\ pc \in [Requests -> {"new", "create", "limited", "handle", "build", "send",
                            "error", "done"}]
    /\ limiters \in [Addresses -> Requests \cup {NoLimiter}]
    /\ Cardinality(Limited) <= Limit
    /\ lim \in [Requests -> Requests \cup {NoLimiter}]
    /\ tokens \in [Requests -> 0..Burst]
    /\ now \in 0..MaxTime
    /\ err \in [Requests -> {"none", "404", "429", "500"}]
    /\ status \in [Requests -> {"none", "200", "204", "404", "429", "500"}]
    /\ notice \in [Requests -> {"none", "sending", "over"}]
    /\ passed \in SUBSET Requests
    /\ evictions \in [Addresses -> 0..Cardinality(Requests)]

\* However requests of one address race to create its limiter, no more of them
\* reach a handler than one bucket and the time since the start allow, once for
\* the first limiter and once for each time the address was evicted.
RateBound == \A a \in Addresses :
    Cardinality({r \in passed : Ip(r) = a}) <= (1 + evictions[a]) * (Burst + now)

\* The limiters as their clients see them: LookUp and Create amount to one atomic
\* step per request, and an address loses its limiter at the limit only.
Promise == INSTANCE BoundedCache WITH
    Clients <- Requests,
    Keys    <- Addresses,
    None    <- NoLimiter,
    Failed  <- Pending,
    key     <- [r \in Requests |-> Ip(r)],
    cache   <- {limiters[a] : a \in Limited},
    got     <- lim

LimiterSpec == Promise!Spec

\* A client gets one status line, also when the handler fails after it wrote its
\* own, and a request never ends without one.
OneResponse ==
    [][\A r \in Requests :
          /\ status[r] # "none" => status'[r] = status[r]
          /\ pc'[r] = "done" => status'[r] # "none"]_vars

\* Every request is answered, even if the notification of its error hangs.
EventuallyAnswered == \A r \in Requests : <>(pc[r] = "done")
=============================================================================
