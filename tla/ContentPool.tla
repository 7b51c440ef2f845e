---------------------------- MODULE ContentPool ----------------------------
(***************************************************************************)
(* Base.CrawlArticleContentsConcurrently: the contents of the articles of  *)
(* a cycle are fetched by an errgroup of at most Limit goroutines, one for *)
(* every article, each of which tries up to MaxRetries times.  gCtx, the   *)
(* context the goroutines see, ends with the caller's context or with the  *)
(* first goroutine that returns an error.                                  *)
(***************************************************************************)
EXTENDS Integers, FiniteSets

CONSTANTS
    Articles,   \* the entries of the slice, one goroutine each
    Limit,      \* SetLimit, 0 for no limit
    MaxRetries  \* attempts of one goroutine

ASSUME PoolAssumption ==
    /\ IsFiniteSet(Articles)
    /\ Limit \in Nat
    /\ MaxRetries \in Nat \ {0}

VARIABLES
    ctx,        \* the caller's context: "live", or "ended" by timeout or shutdown
    failed,     \* did a goroutine return an error?  (the errgroup cancels gCtx)
    state,      \* of each goroutine
    attempt,    \* its attempt, 0 before it starts
    last,       \* how its last attempt ended
    filled,     \* the articles whose Content is not empty
    result      \* what Wait returned: "none" until it does, "nil" or "error"

vars == <<ctx, failed, state, attempt, last, filled, result>>

Outcomes == {"none", "ok", "unavailable", "error", "panic", "cut"}

Ended == ctx = "ended" \/ failed

\* Mutant: a goroutine that is done keeps its slot.
RunningOrDone == {a \in Articles : state[a] # "waiting"}

Running == {a \in Articles : state[a] \in {"fetching", "backoff"}}

\* The goroutine is in fetchContent, which it calls only for an empty content.
Fetching(a) == state[a] = "fetching" /\ a \notin filled

-----------------------------------------------------------------------------
\* The list page may have filled a content already (the album of Ssangbong).
Init ==
    /\ ctx = "live"
    /\ failed = FALSE
    /\ state = [a \in Articles |-> "waiting"]
    /\ attempt = [a \in Articles |-> 0]
    /\ last = [a \in Articles |-> "none"]
    /\ filled \in SUBSET Articles
    /\ result = "none"

\* The run's ten minutes are over or the services are being stopped.
ContextEnds ==
    /\ ctx = "live"
    /\ ctx' = "ended"
    /\ UNCHANGED <<failed, state, attempt, last, filled, result>>

\* The loop blocks in g.Go while Limit goroutines run.
Go(a) ==
    /\ state[a] = "waiting"
    /\ Limit = 0 \/ Cardinality(Running) < Limit
    /\ state' = [state EXCEPT ![a] = "fetching"]
    /\ attempt' = [attempt EXCEPT ![a] = 1]
    /\ UNCHANGED <<ctx, failed, last, filled, result>>

Finish(a, how) ==
    /\ state' = [state EXCEPT ![a] = "done"]
    /\ last' = [last EXCEPT ![a] = how]

\* There is nothing to fetch: nil, even if gCtx has ended.
AlreadyFilled(a) ==
    /\ state[a] = "fetching"
    /\ a \in filled
    /\ Finish(a, "ok")
    /\ UNCHANGED <<ctx, failed, attempt, filled, result>>

\* fetchContent comes back but gCtx has ended: its error is returned, whatever
\* fetchContent says; the content it may have filled stays.
AttemptCut(a) ==
    /\ Fetching(a)
    /\ Ended
    /\ filled' \in {filled, filled \cup {a}}
    /\ failed' = TRUE
    /\ Finish(a, "cut")
    /\ UNCHANGED <<ctx, attempt, result>>

\* No error: even an empty content counts as collected.
Collected(a) ==
    /\ Fetching(a)
    /\ ~Ended
    /\ filled' \in {filled, filled \cup {a}}
    /\ Finish(a, "ok")
    /\ UNCHANGED <<ctx, failed, attempt, result>>

\* ErrContentUnavailable: trying again could not help.
Unavailable(a) ==
    /\ Fetching(a)
    /\ ~Ended
    /\ Finish(a, "unavailable")
    /\ UNCHANGED <<ctx, failed, attempt, filled, result>>

Retry(a) ==
    /\ Fetching(a)
    /\ ~Ended
    /\ attempt[a] < MaxRetries
    /\ state' = [state EXCEPT ![a] = "backoff"]
    /\ last' = [last EXCEPT ![a] = "error"]
    /\ UNCHANGED <<ctx, failed, attempt, filled, result>>

\* Mutant: the error of the last attempt is returned to the errgroup.
GiveUpWithError(a) ==
    /\ Fetching(a)
    /\ ~Ended
    /\ attempt[a] = MaxRetries
    /\ failed' = TRUE
    /\ Finish(a, "error")
    /\ UNCHANGED <<ctx, attempt, filled, result>>

\* The article stays empty; the others are not disturbed.
GiveUp(a) ==
    /\ Fetching(a)
    /\ ~Ended
    /\ attempt[a] = MaxRetries
    /\ Finish(a, "error")
    /\ UNCHANGED <<ctx, failed, attempt, filled, result>>

\* Recovered in the goroutine, which returns nil; a parser that appends to
\* Content piece by piece may have filled a part of it.
Panic(a) ==
    /\ Fetching(a)
    /\ filled' \in {filled, filled \cup {a}}
    /\ Finish(a, "panic")
    /\ UNCHANGED <<ctx, failed, attempt, result>>

\* The select takes any ready case: the timer may win over an ended gCtx.
BackoffOver(a) ==
    /\ state[a] = "backoff"
    /\ state' = [state EXCEPT ![a] = "fetching"]
    /\ attempt' = [attempt EXCEPT ![a] = @ + 1]
    /\ UNCHANGED <<ctx, failed, last, filled, result>>

\* Mutant: the goroutine leaves the backoff without gCtx's error.
BackoffDropped(a) ==
    /\ state[a] = "backoff"
    /\ Ended
    /\ Finish(a, "cut")
    /\ UNCHANGED <<ctx, failed, attempt, filled, result>>

BackoffCut(a) ==
    /\ state[a] = "backoff"
    /\ Ended
    /\ failed' = TRUE
    /\ Finish(a, "cut")
    /\ UNCHANGED <<ctx, attempt, filled, result>>

\* Mutant: the call returns when the last goroutine was started.
WaitForStart ==
    /\ result = "none"
    /\ \A a \in Articles : state[a] # "waiting"
    /\ result' = IF failed THEN "error" ELSE "nil"
    /\ UNCHANGED <<ctx, failed, state, attempt, last, filled>>

Wait ==
    /\ result = "none"
    /\ \A a \in Articles : state[a] = "done"
    /\ result' = IF failed THEN "error" ELSE "nil"
    /\ UNCHANGED <<ctx, failed, state, attempt, last, filled>>

\* The steps of the goroutine of article a.
Attempt(a) ==
    \/ AlreadyFilled(a) \/ AttemptCut(a) \/ Collected(a) \/ Unavailable(a)
    \/ Retry(a) \/ GiveUp(a) \/ Panic(a) \/ BackoffOver(a) \/ BackoffCut(a)

Next == ContextEnds \/ Wait \/ \E a \in Articles : Go(a) \/ Attempt(a)

Spec == Init /\ [][Next]_vars

\* Every request of fetchContent has a timeout, and so does every backoff.  The
\* context need not end.
FairSpec ==
    /\ Spec
    /\ WF_vars(Wait)
    /\ \A a \in Articles : WF_vars(Go(a)) /\ WF_vars(Attempt(a))

-----------------------------------------------------------------------------
\* The variables have their types; an attempt is counted when it is made, and
\* nothing is known of how a goroutine ended before it has run.
TypeOK ==
    /\ ctx \in {"live", "ended"}
    /\ failed \in BOOLEAN
    /\ state \in [Articles -> {"waiting", "fetching", "backoff", "done"}]
    /\ attempt \in [Articles -> 0..MaxRetries]
    /\ last \in [Articles -> Outcomes]
    /\ filled \in SUBSET Articles
    /\ result \in {"none", "nil", "error"}
    /\ \A a \in Articles : state[a] = "waiting" <=> attempt[a] = 0
    /\ \A a \in Articles : state[a] = "backoff" => attempt[a] < MaxRetries

\* The errors, panics and give-ups of one article never cut another one short:
\* nothing but the end of the caller's context does, and only then does the call
\* return an error ("the only errors of g.Wait are those of the context").
OnlyTheContextCuts ==
    /\ failed => ctx = "ended"
    /\ \A a \in Articles : last[a] = "cut" => ctx = "ended"
    /\ result = "error" => ctx = "ended"

\* When the call returns nil no article was cut short: each one was collected,
\* is unavailable for good, panicked, or failed in all its attempts.
NilMeansNoneCutShort ==
    result = "nil" =>
        \A a \in Articles :
            \/ last[a] \in {"ok", "unavailable", "panic"}
            \/ last[a] = "error" /\ attempt[a] = MaxRetries

\* After the call has returned no goroutine writes to an article: finalize
\* saves what it reads.
StillAfterReturn == [][result # "none" => filled' = filled]_vars

\* The call returns, though its context may never end: a slot is given back
\* however its goroutine ends, panic included.
EventuallyReturns == <>(result # "none")
=============================================================================
