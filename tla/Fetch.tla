------------------------------- MODULE Fetch -------------------------------
(***************************************************************************)
(* One call of the scraper (FetchHTML or FetchJSON) through the chain of   *)
(* fetchers: RetryFetcher asks the layers below it, MimeType, StatusCode,  *)
(* MaxBytes and HTTP, which hand a response upwards or close its body and  *)
(* return an error; executeRequest validates and reads what comes back.    *)
(*                                                                         *)
(* A response body that is not closed keeps its connection, a request sent *)
(* twice may act twice, and a document that was cut off must not be taken  *)
(* for a whole one: who closes, who repeats and who counts is the subject. *)
(* Delays are counted in milliseconds of the model, sizes in its bytes.    *)
(***************************************************************************)
EXTENDS Integers, FiniteSets

CONSTANTS
    MaxRetries,     \* retries after the first attempt, normalised to 0..10
    MinDelay,       \* minRetryDelay and ...
    MaxDelay,       \* ... maxRetryDelay, normalised
    PerSecond,      \* time.Second
    HalfWord,       \* a Duration lies in -HalfWord..HalfWord-1
    Headers,        \* the seconds a Retry-After header may ask for
    Sizes,          \* the sizes a body may have
    Limits,         \* the limits MaxBytesFetcher may have; one that no size
                    \* reaches is NoLimit
    MaxBodySize     \* maxResponseBodySize of the scraper

ASSUME RetryAssumption ==
    /\ MaxRetries \in Nat
    /\ MinDelay \in Nat \ {0}
    /\ MaxDelay \in Nat /\ MinDelay <= MaxDelay
    /\ PerSecond \in Nat \ {0}
    /\ HalfWord \in Nat \ {0} /\ MaxDelay < HalfWord
    /\ Headers \subseteq Nat

ASSUME SizeAssumption ==
    /\ Sizes \subseteq Nat
    /\ Limits \subseteq Nat
    /\ MaxBodySize \in Nat

NoHeader == -1

\* "ok" is 200, "created" 201 and 202, "empty" 204; "passing" is 408, 429 and
\* the 5xx that may go away, "permanent" 501, 505 and 511, "other" the rest.
Statuses == {"ok", "created", "empty", "passing", "permanent", "other"}

Answer == [status : Statuses, after : Headers \cup {NoHeader},
           size : Sizes, declared : BOOLEAN, typed : BOOLEAN]

NoAnswer == [status |-> "none", after |-> NoHeader,
             size |-> 0, declared |-> FALSE, typed |-> FALSE]

VARIABLES
    config,     \* the optional layers the chain has, and its byte limit
    request,    \* what RetryFetcher and the scraper want to know of the request
    ctx,        \* its context: "live", "canceled" or "expired"
    pc,         \* the layer that has the call
    tries,      \* calls of the delegate so far: i + 1 of the retry loop
    answer,     \* the response of the last of them
    err,        \* the error of the last of them
    delay,      \* what the timer of the backoff is set to
    open,       \* the attempts whose response body is open
    got,        \* bytes of the body in the scraper's buffer
    callsAfterEnd, \* calls of the delegate begun after the context had ended
    outcome     \* what the call returned

setup == <<config, request>>
loop  == <<tries, answer, err, delay>>
vars  == <<setup, ctx, pc, loop, open, got, callsAfterEnd, outcome>>

-----------------------------------------------------------------------------
\* "stream" is a body without GetBody: it can be read once.
Init ==
    /\ config \in [status : BOOLEAN, mime : BOOLEAN, maxBytes : Limits]
    /\ request \in [idempotent : BOOLEAN, json : BOOLEAN,
                    body : {"none", "replayable", "stream"}]
    /\ ctx = "live"
    /\ pc = "attempt"
    /\ tries = 0
    /\ answer = NoAnswer
    /\ err = "none"
    /\ delay = 0
    /\ open = {}
    /\ got = 0
    /\ callsAfterEnd = 0
    /\ outcome = "none"

ContextEnds ==
    /\ ctx = "live"
    /\ pc # "done"
    /\ ctx' \in {"canceled", "expired"}
    /\ UNCHANGED <<setup, pc, loop, open, got, callsAfterEnd, outcome>>

End(how) == pc' = "done" /\ outcome' = how

\* drainAndCloseBody, or Close where the answer should not be waited for.
CloseBody == open' = open \ {tries}

-----------------------------------------------------------------------------
(* HTTPFetcher: http.Client sends nothing once the context has ended.       *)

Send ==
    /\ pc = "attempt"
    /\ tries' = tries + 1
    /\ answer' = NoAnswer
    /\ IF ctx = "live"
       THEN pc' = "sent" /\ err' = "none" /\ UNCHANGED callsAfterEnd
       ELSE pc' = "decide" /\ err' = ctx /\ callsAfterEnd' = callsAfterEnd + 1
    /\ UNCHANGED <<setup, ctx, delay, open, got, outcome>>

Answered ==
    /\ pc = "sent"
    /\ answer' \in Answer
    /\ open' = open \cup {tries}
    /\ pc' = "limit"
    /\ UNCHANGED <<setup, ctx, tries, err, delay, got, callsAfterEnd, outcome>>

\* "network" is what may pass: a name not found, a connection refused or reset;
\* "timeout" the client's own; "fatal" a certificate, a scheme or a URL that
\* will not get better.
Unanswered ==
    /\ pc = "sent"
    /\ err' \in {"network", "timeout", "fatal"} \cup ({ctx} \ {"live"})
    /\ pc' = "decide"
    /\ UNCHANGED <<setup, ctx, tries, answer, delay, open, got, callsAfterEnd, outcome>>

-----------------------------------------------------------------------------
(* The layers a response passes on its way up.                              *)

Pass(to) == pc' = to /\ UNCHANGED <<err, open>>

Reject(e) == pc' = "decide" /\ err' = e /\ CloseBody

\* MaxBytesFetcher: a declared length is checked before the body is read.
LimitBytes ==
    /\ pc = "limit"
    /\ IF answer.declared /\ answer.size > config.maxBytes
       THEN Reject("too_large")
       ELSE Pass("status")
    /\ UNCHANGED <<setup, ctx, tries, answer, delay, got, callsAfterEnd, outcome>>

\* Mutant: an unexpected status is reported without closing the body.
CheckStatusLeaky ==
    /\ pc = "status"
    /\ IF config.status /\ answer.status # "ok"
       THEN pc' = "decide" /\ err' = answer.status /\ UNCHANGED open
       ELSE Pass("mime")
    /\ UNCHANGED <<setup, ctx, tries, answer, delay, got, callsAfterEnd, outcome>>

\* StatusCodeFetcher, which allows 200 only; its error is an HTTPStatusError.
CheckStatus ==
    /\ pc = "status"
    /\ IF config.status /\ answer.status # "ok"
       THEN Reject(answer.status)
       ELSE Pass("mime")
    /\ UNCHANGED <<setup, ctx, tries, answer, delay, got, callsAfterEnd, outcome>>

CheckMime ==
    /\ pc = "mime"
    /\ IF config.mime /\ ~answer.typed
       THEN Reject("media_type")
       ELSE Pass("decide")
    /\ UNCHANGED <<setup, ctx, tries, answer, delay, got, callsAfterEnd, outcome>>

-----------------------------------------------------------------------------
(* RetryFetcher.                                                            *)

\* Mutant: a method that is not idempotent is repeated too.
RetriesOfAnyMethod == IF request.body # "stream" THEN MaxRetries ELSE 0

\* Only what can be repeated without harm, and read again, is.
EffectiveRetries ==
    IF request.idempotent /\ request.body # "stream" THEN MaxRetries ELSE 0

\* Mutant: an expired deadline is a timeout like any other.
RetriableWhenExpired(e) == e \in {"network", "passing", "timeout", "expired"}

\* The client's timeout looks like a deadline: the context tells which it was.
Retriable(e) == e \in {"network", "passing"} \/ (e = "timeout" /\ ctx = "live")

\* The layers below return a response or an error, never both.
Again == IF err = "none" THEN answer.status = "passing" ELSE Retriable(err)

\* Mutants: off by one, the last retry is not made, or one more is.
AtLastTryTooEarly == tries >= EffectiveRetries
AtLastTryTooLate  == tries > EffectiveRetries + 1

AtLastTry == tries > EffectiveRetries

\* The response is the caller's now, whatever its status.
ReturnAnswer ==
    /\ pc = "decide"
    /\ err = "none"
    /\ ~Again
    /\ pc' = "validate"
    /\ UNCHANGED <<setup, ctx, loop, open, got, callsAfterEnd, outcome>>

ReturnError ==
    /\ pc = "decide"
    /\ err # "none"
    /\ ~Again
    /\ End("error")
    /\ UNCHANGED <<setup, ctx, loop, open, got, callsAfterEnd>>

GiveUp ==
    /\ pc = "decide"
    /\ Again
    /\ AtLastTry
    /\ err' = IF err = "none" THEN "passing" ELSE err
    /\ CloseBody
    /\ End("error")
    /\ UNCHANGED <<setup, ctx, tries, answer, delay, got, callsAfterEnd>>

TryAgain ==
    /\ pc = "decide"
    /\ Again
    /\ ~AtLastTry
    /\ CloseBody
    /\ pc' = "pause"
    /\ UNCHANGED <<setup, ctx, loop, got, callsAfterEnd, outcome>>

\* time.Duration(seconds) * time.Second wraps around.
Wait(seconds) == ((seconds * PerSecond + HalfWord) % (2 * HalfWord)) - HalfWord

Asked == answer.after # NoHeader

RefuseToWait ==
    /\ pc = "pause"
    /\ Asked
    /\ Wait(answer.after) > MaxDelay
    /\ err' = "retry_after"
    /\ End("error")
    /\ UNCHANGED <<setup, ctx, tries, answer, delay, open, got, callsAfterEnd>>

\* Exponential backoff with full jitter; what is under a millisecond is MinDelay.
Jitter == {d \in 0..MaxDelay : d <= MinDelay * 2^(tries - 1)}

\* Mutant: the jitter replaces what the server asked for.
PauseWithJitter ==
    /\ pc = "pause"
    /\ Asked => Wait(answer.after) <= MaxDelay
    /\ \E d \in Jitter : delay' = IF d = 0 THEN MinDelay ELSE d
    /\ pc' = "backoff"
    /\ UNCHANGED <<setup, ctx, tries, answer, err, open, got, callsAfterEnd, outcome>>

\* What the server asked for replaces the backoff, zero included.
Pause ==
    /\ pc = "pause"
    /\ Asked => Wait(answer.after) <= MaxDelay
    /\ \E d \in Jitter :
          delay' = IF Asked THEN Wait(answer.after)
                   ELSE IF d = 0 THEN MinDelay ELSE d
    /\ pc' = "backoff"
    /\ UNCHANGED <<setup, ctx, tries, answer, err, open, got, callsAfterEnd, outcome>>

\* The select: a timer that fires may win over a context that has ended.
BackoffCut ==
    /\ pc = "backoff"
    /\ ctx # "live"
    /\ err' = ctx
    /\ End("error")
    /\ UNCHANGED <<setup, ctx, tries, answer, delay, open, got, callsAfterEnd>>

\* Mutant: a timer set to nothing never fires.
BackoffOverIfPositive ==
    /\ pc = "backoff"
    /\ delay > 0
    /\ pc' = IF request.body = "replayable" THEN "rebuild" ELSE "attempt"
    /\ UNCHANGED <<setup, ctx, loop, open, got, callsAfterEnd, outcome>>

BackoffOver ==
    /\ pc = "backoff"
    /\ pc' = IF request.body = "replayable" THEN "rebuild" ELSE "attempt"
    /\ UNCHANGED <<setup, ctx, loop, open, got, callsAfterEnd, outcome>>

\* GetBody gives a fresh copy of the request's body ...
Rebuild ==
    /\ pc = "rebuild"
    /\ pc' = "attempt"
    /\ UNCHANGED <<setup, ctx, loop, open, got, callsAfterEnd, outcome>>

\* ... or fails.
RebuildFails ==
    /\ pc = "rebuild"
    /\ err' = "get_body"
    /\ End("error")
    /\ UNCHANGED <<setup, ctx, tries, answer, delay, open, got, callsAfterEnd>>

-----------------------------------------------------------------------------
(* executeRequest of the scraper, which closes the body however it ends.    *)

\* A 204 is accepted as it is; an API must not answer with an HTML page.
Acceptable ==
    \/ answer.status = "empty"
    \/ answer.status \in {"ok", "created"} /\ (request.json => answer.typed)

ScrapeFails(e) ==
    /\ err' = e
    /\ CloseBody
    /\ End("error")
    /\ UNCHANGED <<setup, ctx, tries, answer, delay, got, callsAfterEnd>>

Validate ==
    /\ pc = "validate"
    /\ Acceptable
    /\ pc' = "read"
    /\ UNCHANGED <<setup, ctx, loop, open, got, callsAfterEnd, outcome>>

ValidateFails == pc = "validate" /\ ~Acceptable /\ ScrapeFails("invalid")

\* Mutant: the LimitReader lets MaxBodySize bytes through, not one more.
BytesReadUpToLimit ==
    IF answer.status = "empty" THEN 0
    ELSE IF answer.size > MaxBodySize THEN MaxBodySize ELSE answer.size

\* The LimitReader lets one byte more through than it should take.
BytesRead ==
    IF answer.status = "empty" THEN 0
    ELSE IF answer.size > MaxBodySize THEN MaxBodySize + 1 ELSE answer.size

\* The connection fails or the context ends before the last byte is read; the
\* error is wrapped, and no fetcher sees it.
ReadFails ==
    /\ pc = "read"
    /\ answer.status # "empty"
    /\ \E e \in {"network"} \cup ({ctx} \ {"live"}) : ScrapeFails(e)

\* MaxBytesReader fails beyond its limit; a truncated document is refused.
ReadTooMuch ==
    /\ pc = "read"
    /\ BytesRead > config.maxBytes \/ BytesRead > MaxBodySize
    /\ ScrapeFails("too_large")

Read ==
    /\ pc = "read"
    /\ BytesRead <= config.maxBytes
    /\ BytesRead <= MaxBodySize
    /\ got' = BytesRead
    /\ CloseBody
    /\ pc' = "parse"
    /\ UNCHANGED <<setup, ctx, loop, callsAfterEnd, outcome>>

\* A 204 leaves the JSON decoder nothing to read.
NothingToParse == request.json /\ answer.status = "empty"

\* The parser reads the buffer through a reader that looks at the context.
Parse ==
    /\ pc = "parse"
    /\ ctx = "live" \/ NothingToParse
    /\ End("ok")
    /\ UNCHANGED <<setup, ctx, loop, open, got, callsAfterEnd>>

ParseFails ==
    /\ pc = "parse"
    /\ ~NothingToParse
    /\ err' \in {"malformed"} \cup ({ctx} \ {"live"})
    /\ End("error")
    /\ UNCHANGED <<setup, ctx, tries, answer, delay, open, got, callsAfterEnd>>

-----------------------------------------------------------------------------
Chain == Send \/ Answered \/ Unanswered \/ LimitBytes \/ CheckStatus \/ CheckMime

Retry ==
    \/ ReturnAnswer \/ ReturnError \/ GiveUp \/ TryAgain
    \/ RefuseToWait \/ Pause \/ BackoffCut \/ BackoffOver
    \/ Rebuild \/ RebuildFails

Scrape ==
    \/ Validate \/ ValidateFails \/ ReadFails \/ ReadTooMuch \/ Read
    \/ Parse \/ ParseFails

Next == ContextEnds \/ Chain \/ Retry \/ Scrape

Spec == Init /\ [][Next]_vars

\* The client's timeout ends every request and every read of a body, a timer
\* of the backoff fires; the context need not end.
FairSpec == Spec /\ WF_vars(Chain \/ Retry \/ Scrape)

-----------------------------------------------------------------------------
\* Every variable has its type; a call that is over says how, and the loop
\* makes at most one attempt more than it may repeat.
TypeOK ==
    /\ config \in [status : BOOLEAN, mime : BOOLEAN, maxBytes : Limits]
    /\ request \in [idempotent : BOOLEAN, json : BOOLEAN,
                    body : {"none", "replayable", "stream"}]
    /\ ctx \in {"live", "canceled", "expired"}
    /\ pc \in {"attempt", "sent", "limit", "status", "mime", "decide", "pause",
               "backoff", "rebuild", "validate", "read", "parse", "done"}
    /\ tries \in 0..(EffectiveRetries + 1)
    /\ answer \in Answer \cup {NoAnswer}
    /\ err \in {"none", "network", "timeout", "fatal", "canceled", "expired", "too_large",
                "media_type", "retry_after", "get_body", "invalid", "malformed"}
               \cup Statuses
    /\ delay \in Int
    /\ open \subseteq 1..tries
    /\ got \in Nat
    /\ callsAfterEnd \in Nat
    /\ outcome \in {"none", "ok", "error"}
    /\ pc = "done" <=> outcome # "none"

\* No response body outlives its attempt: it is closed before the next request
\* is sent, and when the call is over, whichever layer or deadline ended it.
BodiesClosed ==
    pc \in {"attempt", "sent", "pause", "backoff", "rebuild", "parse", "done"}
        => open = {}

\* A request that may act twice, or whose body can be read only once, is never
\* given to the site a second time, whatever the first attempt came to.
UnsafeSentOnce ==
    ~request.idempotent \/ request.body = "stream" => tries <= 1

\* No retry comes sooner than the server asked for, nor at once without being
\* asked, nor later than maxRetryDelay.  (A header of more seconds than a
\* Duration holds wraps around to any delay and is left out.)
PacesRetries ==
    pc = "backoff" =>
        /\ delay <= MaxDelay
        /\ answer.after = NoHeader => delay > 0
        /\ (Asked /\ answer.after * PerSecond < HalfWord)
              => delay >= answer.after * PerSecond

\* After the context has ended the retry loop starts at most one more attempt,
\* the one whose timer won the select, and the client sends nothing of it.
StopsAfterEnd == callsAfterEnd <= 1

\* A document is parsed only if it is an answer the scraper accepts and every
\* byte of it was read within both limits, so one that was cut off never is;
\* and a body is refused as too large only if it is: one of exactly a limit is
\* not, whether MaxBytesFetcher, its reader or the scraper counts.
OnlyWholeIsParsed ==
    /\ outcome = "ok" =>
          /\ Acceptable
          /\ answer.status # "empty" => got = answer.size
          /\ got <= config.maxBytes /\ got <= MaxBodySize
    /\ err = "too_large" =>
          answer.size > config.maxBytes \/ answer.size > MaxBodySize

\* A failure that may pass ends the call only after all attempts, unless the
\* context ended, or once the answer was in the scraper's hands.  A server that
\* asks for a longer wait than maxRetryDelay (RefuseToWait) and a GetBody that
\* fails (RebuildFails) end it early with errors of their own: they tell that
\* nothing more will be tried, and are not meant here.
NotGivenUpEarly ==
    (outcome = "error" /\ Retriable(err) /\ ctx = "live")
        => tries > EffectiveRetries \/ Acceptable

\* The argument for these invariants.  What a layer hands upwards is the body of
\* the current attempt and no error, or an error and no body ...
OneBody ==
    /\ open \subseteq {tries}
    /\ pc \notin {"limit", "status", "mime", "decide", "validate", "read"} => open = {}
    /\ pc = "decide" /\ err # "none" => open = {}
    /\ pc \in {"sent", "limit", "status", "mime", "validate", "read", "parse"}
          => err = "none"

\* ... the loop comes round again only with a retry left ...
RetryLeft ==
    /\ pc \in {"attempt", "pause", "backoff", "rebuild"} => tries <= EffectiveRetries
    /\ pc # "attempt" => tries > 0

\* ... an attempt after the end brings the context's own error, which ends it ...
LateAttempt ==
    callsAfterEnd # 0 =>
        /\ callsAfterEnd = 1
        /\ ctx # "live"
        /\ pc \in {"decide", "done"}
        /\ pc = "decide" => err = ctx

\* ... and the parser is given what was validated and read to its end.
WholeInBuffer ==
    /\ pc \in {"read", "parse"} => Acceptable
    /\ pc = "parse" => got = BytesRead /\ got <= config.maxBytes /\ got <= MaxBodySize

IInv ==
    /\ TypeOK /\ OneBody /\ RetryLeft /\ LateAttempt /\ WholeInBuffer
    /\ PacesRetries /\ OnlyWholeIsParsed /\ NotGivenUpEarly

\* Every call returns although its context may never end.
EventuallyReturns == <>(pc = "done")
=============================================================================
