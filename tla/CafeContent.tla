---------------------------- MODULE CafeContent ----------------------------
(***************************************************************************)
(* ContentPool with the fetchContent of the Naver Cafe crawler opened up:  *)
(* crawlArticleContent asks the article API, then the article page, then   *)
(* the search page, and may find the context ended by another goroutine in *)
(* the middle of that.  The goroutines and the errgroup are the pool's;    *)
(* what a call of crawlArticleContent knows is added to its variables.     *)
(***************************************************************************)
EXTENDS ContentPool

VARIABLES
    asking,     \* the parser whose answer a call waits for, "verdict" when it
                \* is about to return, "none" where there is no call
    content,    \* the articles whose Content a call has filled
    lastErr,    \* the lastErr of the last call of each goroutine
    asked       \* the parsers called in it

chain    == <<asking, content, lastErr, asked>>
cafeVars == <<vars, chain>>

ParserSet == {"api", "page", "search"}

\* Where a call stands once parser p is through and left Content empty.
After(p) == CASE p = "api" -> "page" [] p = "page" -> "search" [] p = "search" -> "verdict"

-----------------------------------------------------------------------------
\* The list of the cafe comes without contents.
CafeInit ==
    /\ Init
    /\ filled = {}
    /\ asking = [a \in Articles |-> "none"]
    /\ content = {}
    /\ lastErr = [a \in Articles |-> "none"]
    /\ asked = [a \in Articles |-> {}]

\* The goroutine calls fetchContent, for the first time or again; lastErr is a
\* local variable of the call.
Call(a) ==
    /\ Go(a) \/ BackoffOver(a)
    /\ asking' = [asking EXCEPT ![a] = "api"]
    /\ lastErr' = [lastErr EXCEPT ![a] = "none"]
    /\ asked' = [asked EXCEPT ![a] = {}]
    /\ UNCHANGED content

Asked(a, p) == asking[a] = p /\ asked' = [asked EXCEPT ![a] = @ \cup {p}]

\* The parser fills Content: no further parser is asked.
Fills(a, p) ==
    /\ Asked(a, p)
    /\ content' = content \cup {a}
    /\ lastErr' = [lastErr EXCEPT ![a] = "none"]
    /\ asking' = [asking EXCEPT ![a] = "verdict"]
    /\ UNCHANGED vars

\* No error, no content: the article has none here, or is not in the result.
FindsNothing(a, p) ==
    /\ Asked(a, p)
    /\ asking' = [asking EXCEPT ![a] = After(p)]
    /\ UNCHANGED <<vars, content, lastErr>>

\* Mutant: an article that may not be read is not looked for any further.
DeniedForGood(a, p) ==
    /\ Asked(a, p)
    /\ ~Ended
    /\ lastErr' = [lastErr EXCEPT ![a] = "unavailable"]
    /\ asking' = [asking EXCEPT ![a] = "verdict"]
    /\ UNCHANGED <<vars, content>>

\* 401, 403, or (page) no #tbody: the parser returns ErrContentUnavailable.
Denied(a, p) ==
    /\ Asked(a, p)
    /\ ~Ended
    /\ lastErr' = [lastErr EXCEPT ![a] = "unavailable"]
    /\ asking' = [asking EXCEPT ![a] = After(p)]
    /\ UNCHANGED <<vars, content>>

\* The network, the server or the decoding of the answer fails.
Hiccup(a, p) ==
    /\ Asked(a, p)
    /\ ~Ended
    /\ lastErr' = [lastErr EXCEPT ![a] = "passing"]
    /\ asking' = [asking EXCEPT ![a] = After(p)]
    /\ UNCHANGED <<vars, content>>

\* The goroutine ends, and leaves what its call has filled.
Return(a, how) ==
    /\ Finish(a, how)
    /\ asking' = [asking EXCEPT ![a] = "none"]
    /\ filled' = filled \cup (content' \cap {a})

\* A parser's error after the context ended: ctx.Err() at once.  The goroutine
\* finds gCtx ended and returns its error.
Interrupted(a, p) ==
    /\ Asked(a, p)
    /\ Ended
    /\ failed' = TRUE
    /\ UNCHANGED <<ctx, attempt, result, content, lastErr>>
    /\ Return(a, "cut")

\* A parser panics, perhaps with a part of the content in place.
Breaks(a, p) ==
    /\ Asked(a, p)
    /\ content' \in {content, content \cup {a}}
    /\ UNCHANGED <<ctx, failed, attempt, result, lastErr>>
    /\ Return(a, "panic")

\* What crawlArticleContent returns.
Returned(a) ==
    IF a \in content THEN "ok"
    ELSE IF lastErr[a] = "passing" THEN "error" ELSE "unavailable"

\* The goroutine looks at gCtx before it looks at what was returned.
VerdictCut(a) ==
    /\ asking[a] = "verdict"
    /\ Ended
    /\ failed' = TRUE
    /\ UNCHANGED <<ctx, attempt, result, content, lastErr, asked>>
    /\ Return(a, "cut")

\* Mutant: one attempt too many.
TryOnceMore(a) ==
    /\ asking[a] = "verdict"
    /\ ~Ended
    /\ Returned(a) = "error"
    /\ attempt[a] <= MaxRetries
    /\ state' = [state EXCEPT ![a] = "backoff"]
    /\ last' = [last EXCEPT ![a] = "error"]
    /\ asking' = [asking EXCEPT ![a] = "none"]
    /\ UNCHANGED <<ctx, failed, attempt, filled, result, content, lastErr, asked>>

TryAgain(a) ==
    /\ asking[a] = "verdict"
    /\ ~Ended
    /\ Returned(a) = "error"
    /\ attempt[a] < MaxRetries
    /\ state' = [state EXCEPT ![a] = "backoff"]
    /\ last' = [last EXCEPT ![a] = "error"]
    /\ asking' = [asking EXCEPT ![a] = "none"]
    /\ UNCHANGED <<ctx, failed, attempt, filled, result, content, lastErr, asked>>

Settle(a) ==
    /\ asking[a] = "verdict"
    /\ ~Ended
    /\ Returned(a) = "error" => attempt[a] = MaxRetries
    /\ UNCHANGED <<ctx, failed, attempt, result, content, lastErr, asked>>
    /\ Return(a, Returned(a))

Answers(a, p) ==
    \/ Fills(a, p) \/ FindsNothing(a, p) \/ Denied(a, p) \/ Hiccup(a, p)
    \/ Interrupted(a, p) \/ Breaks(a, p)

\* A goroutine outside its calls, the caller's context and Wait.
Outside ==
    /\ ContextEnds \/ Wait \/ \E a \in Articles : BackoffCut(a)
    /\ UNCHANGED chain

CafeNext ==
    \/ Outside
    \/ \E a \in Articles :
          \/ Call(a) \/ VerdictCut(a) \/ TryAgain(a) \/ Settle(a)
          \/ \E p \in ParserSet : Answers(a, p)

CafeSpec == CafeInit /\ [][CafeNext]_cafeVars

-----------------------------------------------------------------------------
\* What a call knows has its type, and there is a call where the pool has one.
CafeTypeOK ==
    /\ TypeOK
    /\ asking \in [Articles -> {"none", "verdict"} \cup ParserSet]
    /\ content \in SUBSET Articles
    /\ lastErr \in [Articles -> {"none", "unavailable", "passing"}]
    /\ asked \in [Articles -> SUBSET ParserSet]
    /\ \A a \in Articles : asking[a] = "none" <=> state[a] # "fetching"

\* An article is given up without content, for good or after the last attempt,
\* only when all three sources were asked in that attempt.
GivesUpAfterAllSources == \A a \in Articles :
    state[a] = "done" /\ last[a] \in {"unavailable", "error"} => asked[a] = ParserSet

\* What goes on inside crawlArticleContent is a behaviour of ContentPool: every
\* answer of a source is a step of its goroutine or no step at all, whatever the
\* other goroutines do meanwhile.
PoolSpec == Spec
=============================================================================
