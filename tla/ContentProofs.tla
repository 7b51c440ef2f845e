--------------------------- MODULE ContentProofs ---------------------------
(***************************************************************************)
(* Proofs about ContentPool and CafeContent: for any number of articles,   *)
(* goroutines at a time and attempts.                                      *)
(***************************************************************************)
EXTENDS CafeContent, TLAPS

-----------------------------------------------------------------------------
(* The pool.                                                               *)

\* The invariant behind the properties.  The errgroup is cancelled only by
\* goroutines that saw the context end; a goroutine that was cut short left the
\* error behind; what a done goroutine ended with is final; Wait returned what
\* the goroutines, all done, had left.
PoolInv ==
    /\ failed => ctx = "ended"
    /\ \A a \in Articles : last[a] = "cut" => failed
    /\ \A a \in Articles : state[a] = "done" =>
          \/ last[a] \in {"ok", "unavailable", "panic", "cut"}
          \/ last[a] = "error" /\ attempt[a] = MaxRetries
    /\ result # "none" => \A a \in Articles : state[a] = "done"
    /\ result = "nil" => ~failed
    /\ result = "error" => failed

\* Types hold when the call begins.
LEMMA PoolInitType == Init => TypeOK
<1> SUFFICES ASSUME Init PROVE TypeOK
  OBVIOUS
<1>1. failed \in BOOLEAN
  BY DEF Init
<1>2. QED
  BY <1>1, PoolAssumption DEF Init, TypeOK, Outcomes

\* Types are kept by every step.
LEMMA PoolNextType == TypeOK /\ [Next]_vars => TypeOK'
<1> SUFFICES ASSUME TypeOK, [Next]_vars PROVE TypeOK'
  OBVIOUS
<1> USE PoolAssumption DEF TypeOK, Outcomes
<1>1. CASE UNCHANGED vars
  BY <1>1 DEF vars
<1>2. CASE ContextEnds
  BY <1>2 DEF ContextEnds
<1>3. CASE Wait
  BY <1>3 DEF Wait
<1>4. ASSUME NEW a \in Articles, Go(a) PROVE TypeOK'
  BY <1>4 DEF Go
<1>5. ASSUME NEW a \in Articles, AttemptCut(a) PROVE TypeOK'
  BY <1>5 DEF AttemptCut, Fetching, Finish
<1>6. ASSUME NEW a \in Articles, Collected(a) PROVE TypeOK'
  BY <1>6 DEF Collected, Fetching, Finish
<1>7. ASSUME NEW a \in Articles, Unavailable(a) PROVE TypeOK'
  BY <1>7 DEF Unavailable, Fetching, Finish
<1>8. ASSUME NEW a \in Articles, Retry(a) PROVE TypeOK'
  BY <1>8 DEF Retry, Fetching
<1>9. ASSUME NEW a \in Articles, GiveUp(a) PROVE TypeOK'
  BY <1>9 DEF GiveUp, Fetching, Finish
<1>10. ASSUME NEW a \in Articles, Panic(a) PROVE TypeOK'
  BY <1>10 DEF Panic, Fetching, Finish
<1>11. ASSUME NEW a \in Articles, BackoffOver(a) PROVE TypeOK'
  BY <1>11 DEF BackoffOver
<1>12. ASSUME NEW a \in Articles, BackoffCut(a) PROVE TypeOK'
  BY <1>12 DEF BackoffCut, Finish
<1>13. ASSUME NEW a \in Articles, AlreadyFilled(a) PROVE TypeOK'
  BY <1>13 DEF AlreadyFilled, Finish
<1>14. QED
  BY <1>1, <1>2, <1>3, <1>4, <1>5, <1>6, <1>7, <1>8, <1>9, <1>10, <1>11, <1>12, <1>13
     DEF Next, Attempt

\* PoolInv is kept by every step: a goroutine returns an error only where it
\* has seen gCtx ended, and once all are done none moves again.
LEMMA PoolNextInv == TypeOK /\ PoolInv /\ [Next]_vars => PoolInv'
<1> SUFFICES ASSUME TypeOK, PoolInv, [Next]_vars PROVE PoolInv'
  OBVIOUS
<1> USE PoolAssumption DEF TypeOK, PoolInv, Ended
<1>1. CASE UNCHANGED vars
  BY <1>1 DEF vars
<1>2. CASE ContextEnds
  BY <1>2 DEF ContextEnds
<1>3. CASE Wait
  BY <1>3 DEF Wait
<1>4. ASSUME NEW a \in Articles, Go(a) PROVE PoolInv'
  BY <1>4 DEF Go
<1>5. ASSUME NEW a \in Articles, AttemptCut(a) PROVE PoolInv'
  BY <1>5 DEF AttemptCut, Fetching, Finish
<1>6. ASSUME NEW a \in Articles, Collected(a) PROVE PoolInv'
  BY <1>6 DEF Collected, Fetching, Finish
<1>7. ASSUME NEW a \in Articles, Unavailable(a) PROVE PoolInv'
  BY <1>7 DEF Unavailable, Fetching, Finish
<1>8. ASSUME NEW a \in Articles, Retry(a) PROVE PoolInv'
  BY <1>8 DEF Retry, Fetching
<1>9. ASSUME NEW a \in Articles, GiveUp(a) PROVE PoolInv'
  BY <1>9 DEF GiveUp, Fetching, Finish
<1>10. ASSUME NEW a \in Articles, Panic(a) PROVE PoolInv'
  BY <1>10 DEF Panic, Fetching, Finish
<1>11. ASSUME NEW a \in Articles, BackoffOver(a) PROVE PoolInv'
  BY <1>11 DEF BackoffOver
<1>12. ASSUME NEW a \in Articles, BackoffCut(a) PROVE PoolInv'
  BY <1>12 DEF BackoffCut, Finish
<1>13. ASSUME NEW a \in Articles, AlreadyFilled(a) PROVE PoolInv'
  BY <1>13 DEF AlreadyFilled, Finish
<1>14. QED
  BY <1>1, <1>2, <1>3, <1>4, <1>5, <1>6, <1>7, <1>8, <1>9, <1>10, <1>11, <1>12, <1>13
     DEF Next, Attempt

\* The types and the invariant hold in every state.
THEOREM PoolInvariant == Spec => [](TypeOK /\ PoolInv)
<1>1. Init => TypeOK /\ PoolInv
  BY PoolInitType, PoolAssumption DEF Init, PoolInv
<1>2. TypeOK /\ PoolInv /\ [Next]_vars => (TypeOK /\ PoolInv)'
  BY PoolNextType, PoolNextInv
<1>3. QED
  BY <1>1, <1>2, PTL DEF Spec

\* Only the end of the caller's context cuts an article short or makes the
\* call return an error.
THEOREM OnlyTheContextCutsHolds == Spec => []OnlyTheContextCuts
<1>1. PoolInv => OnlyTheContextCuts
  BY DEF PoolInv, OnlyTheContextCuts
<1>2. QED
  BY <1>1, PoolInvariant, PTL

\* If the call returns nil, no article was cut short.
THEOREM NilMeansNoneCutShortHolds == Spec => []NilMeansNoneCutShort
<1>1. TypeOK /\ PoolInv => NilMeansNoneCutShort
  BY DEF TypeOK, PoolInv, NilMeansNoneCutShort
<1>2. QED
  BY <1>1, PoolInvariant, PTL

\* Once the call has returned, no content changes.
THEOREM StillAfterReturnHolds == Spec => StillAfterReturn
<1>1. TypeOK /\ PoolInv /\ [Next]_vars => [result # "none" => filled' = filled]_vars
  <2> SUFFICES ASSUME TypeOK, PoolInv, [Next]_vars, result # "none" PROVE filled' = filled
    OBVIOUS
  <2>1. \A a \in Articles : state[a] = "done"
    BY DEF PoolInv
  <2>2. \A a \in Articles : ~Go(a) /\ ~Attempt(a)
    BY <2>1 DEF Go, Attempt, AlreadyFilled, AttemptCut, Collected, Unavailable, Retry,
                GiveUp, Panic, BackoffOver, BackoffCut, Fetching
  <2>3. QED
    BY <2>2 DEF Next, ContextEnds, Wait, vars
<1>2. QED
  BY <1>1, PoolInvariant, PTL DEF Spec, StillAfterReturn

-----------------------------------------------------------------------------
(* The three sources of a Naver Cafe article.                              *)

\* What a call of crawlArticleContent knows.
ChainTypes ==
    /\ asking \in [Articles -> {"none", "verdict"} \cup ParserSet]
    /\ content \in SUBSET Articles
    /\ lastErr \in [Articles -> {"none", "unavailable", "passing"}]
    /\ asked \in [Articles -> SUBSET ParserSet]
    /\ \A a \in Articles : asking[a] = "none" <=> state[a] # "fetching"

\* The sources asked so far are those before the one being asked, a call without
\* content that comes to its end has asked them all, and nothing is filled
\* before the end of the call that fills it.
AskedInv == \A a \in Articles :
    /\ asking[a] = "page" => "api" \in asked[a]
    /\ asking[a] = "search" => {"api", "page"} \subseteq asked[a]
    /\ asking[a] = "verdict" /\ a \notin content => asked[a] = ParserSet
    /\ asking[a] # "none" => a \notin filled
    /\ asking[a] \in ParserSet \/ state[a] \in {"waiting", "backoff"} =>
          a \notin content /\ a \notin filled
    /\ state[a] = "done" /\ last[a] \in {"unavailable", "error"} => asked[a] = ParserSet

ChainInv == TypeOK /\ ChainTypes /\ AskedInv

\* Before the first call nothing was asked.
LEMMA ChainInit == CafeInit => ChainInv
<1> SUFFICES ASSUME CafeInit PROVE ChainInv
  OBVIOUS
<1>1. TypeOK
  BY PoolInitType DEF CafeInit
<1>2. ChainTypes
  BY DEF CafeInit, Init, ChainTypes
<1>3. AskedInv
  BY DEF CafeInit, Init, AskedInv, ParserSet
<1> QED
  BY <1>1, <1>2, <1>3 DEF ChainInv

\* The step of a parser of a leads to the next one.
LEMMA ParserMoves ==
    ASSUME ChainTypes, NEW a \in Articles, NEW p \in ParserSet, Asked(a, p)
    PROVE  /\ state[a] = "fetching"
           /\ After(p) \in {"page", "search", "verdict"}
           /\ asked' \in [Articles -> SUBSET ParserSet]
           /\ asked'[a] = asked[a] \cup {p}
           /\ \A b \in Articles \ {a} : asked'[b] = asked[b]
  BY DEF ChainTypes, Asked, After, ParserSet

\* Every step of the chain is a step of the pool's goroutine, or none.
LEMMA CafeStepIsPoolStep == ChainInv /\ [CafeNext]_cafeVars => [Next]_vars
<1> SUFFICES ASSUME ChainInv, [CafeNext]_cafeVars PROVE [Next]_vars
  OBVIOUS
<1> USE DEF ChainInv
<1>1. CASE UNCHANGED cafeVars
  BY <1>1 DEF cafeVars
<1>2. CASE Outside
  BY <1>2 DEF Outside, Next, Attempt
<1>3. ASSUME NEW a \in Articles, Call(a) PROVE Next
  BY <1>3 DEF Call, Next, Attempt
<1>4. ASSUME NEW a \in Articles, asking[a] # "none" PROVE Fetching(a)
  BY <1>4 DEF ChainTypes, AskedInv, Fetching
<1>5. ASSUME NEW a \in Articles, VerdictCut(a) PROVE Next
  <2>1. filled' \in {filled, filled \cup {a}}
    BY <1>5 DEF VerdictCut, Return
  <2>2. AttemptCut(a)
    BY <1>4, <1>5, <2>1 DEF VerdictCut, Return, AttemptCut
  <2> QED
    BY <2>2 DEF Next, Attempt
<1>6. ASSUME NEW a \in Articles, TryAgain(a) PROVE Next
  <2>1. Retry(a)
    BY <1>4, <1>6 DEF TryAgain, Retry
  <2> QED
    BY <2>1 DEF Next, Attempt
<1>7. ASSUME NEW a \in Articles, Settle(a) PROVE Next
  <2>1. Fetching(a) /\ ~Ended
    BY <1>4, <1>7 DEF Settle
  <2>2. CASE a \in content
    <3>1. Returned(a) = "ok"
      BY <2>2 DEF Returned
    <3>2. Collected(a)
      BY <1>7, <2>1, <2>2, <3>1 DEF Settle, Return, Collected
    <3> QED
      BY <3>2 DEF Next, Attempt
  <2>3. CASE a \notin content
    <3>1. filled' = filled
      BY <1>7, <2>3 DEF Settle, Return
    <3>2. CASE lastErr[a] = "passing"
      <4>1. Returned(a) = "error"
        BY <2>3, <3>2 DEF Returned
      <4>2. GiveUp(a)
        BY <1>7, <2>1, <3>1, <4>1 DEF Settle, Return, GiveUp
      <4> QED
        BY <4>2 DEF Next, Attempt
    <3>3. CASE lastErr[a] # "passing"
      <4>1. Returned(a) = "unavailable"
        BY <2>3, <3>3 DEF Returned
      <4>2. Unavailable(a)
        BY <1>7, <2>1, <3>1, <4>1 DEF Settle, Return, Unavailable
      <4> QED
        BY <4>2 DEF Next, Attempt
    <3> QED
      BY <3>2, <3>3
  <2> QED
    BY <2>2, <2>3
<1>8. ASSUME NEW a \in Articles, NEW p \in ParserSet, Answers(a, p) PROVE [Next]_vars
  <2>1. CASE Fills(a, p) \/ FindsNothing(a, p) \/ Denied(a, p) \/ Hiccup(a, p)
    BY <2>1 DEF Fills, FindsNothing, Denied, Hiccup
  <2>2. asking[a] # "none"
    BY <1>8 DEF Answers, Fills, FindsNothing, Denied, Hiccup, Interrupted, Breaks, Asked,
                ParserSet
  <2>3. CASE Interrupted(a, p)
    <3>1. filled' \in {filled, filled \cup {a}}
      BY <2>3 DEF Interrupted, Return
    <3>2. AttemptCut(a)
      BY <1>4, <2>2, <2>3, <3>1 DEF Interrupted, Return, AttemptCut
    <3> QED
      BY <3>2 DEF Next, Attempt
  <2>4. CASE Breaks(a, p)
    <3>1. filled' \in {filled, filled \cup {a}}
      BY <2>4 DEF Breaks, Return
    <3>2. Panic(a)
      BY <1>4, <2>2, <2>4, <3>1 DEF Breaks, Return, Panic
    <3> QED
      BY <3>2 DEF Next, Attempt
  <2> QED
    BY <1>8, <2>1, <2>3, <2>4 DEF Answers
<1> QED
  BY <1>1, <1>2, <1>3, <1>5, <1>6, <1>7, <1>8 DEF CafeNext

\* Call, Outside and the end of a call agree on which goroutines are in one.
LEMMA NextChainTypes == ASSUME ChainInv, [CafeNext]_cafeVars PROVE ChainTypes'
<1> USE DEF ChainInv, TypeOK
<1>1. CASE UNCHANGED cafeVars
  BY <1>1 DEF cafeVars, vars, chain, ChainTypes
<1>2. CASE Outside
  BY <1>2 DEF Outside, ContextEnds, Wait, BackoffCut, Finish, chain, ChainTypes
<1>3. ASSUME NEW a \in Articles, Call(a) PROVE ChainTypes'
  <2>1. state' = [state EXCEPT ![a] = "fetching"]
    BY <1>3 DEF Call, Go, BackoffOver
  <2> QED
    BY <1>3, <2>1 DEF Call, ChainTypes, ParserSet
<1>4. ASSUME NEW a \in Articles, VerdictCut(a) \/ Settle(a) PROVE ChainTypes'
  BY <1>4 DEF VerdictCut, Settle, Return, Finish, ChainTypes
<1>5. ASSUME NEW a \in Articles, TryAgain(a) PROVE ChainTypes'
  BY <1>5 DEF TryAgain, ChainTypes
<1>6. ASSUME NEW a \in Articles, NEW p \in ParserSet, Answers(a, p) PROVE ChainTypes'
  <2>1. Asked(a, p)
    BY <1>6 DEF Answers, Fills, FindsNothing, Denied, Hiccup, Interrupted, Breaks
  <2>2. /\ state[a] = "fetching" /\ asking[a] = p
        /\ After(p) \in {"page", "search", "verdict"}
        /\ asked' \in [Articles -> SUBSET ParserSet]
    BY <2>1, ParserMoves DEF Asked
  <2>3. CASE Fills(a, p) \/ FindsNothing(a, p) \/ Denied(a, p) \/ Hiccup(a, p)
    BY <2>2, <2>3 DEF Fills, FindsNothing, Denied, Hiccup, vars, ChainTypes, ParserSet
  <2>4. CASE Interrupted(a, p) \/ Breaks(a, p)
    BY <2>2, <2>4 DEF Interrupted, Breaks, Return, Finish, ChainTypes, ParserSet
  <2> QED
    BY <1>6, <2>3, <2>4 DEF Answers
<1> QED
  BY <1>1, <1>2, <1>3, <1>4, <1>5, <1>6 DEF CafeNext

\* AskedInv is kept: the parsers are asked in order, only content ends the round
\* early, and no other goroutine touches it.
LEMMA NextAsked == ASSUME ChainInv, [CafeNext]_cafeVars PROVE AskedInv'
<1> USE DEF ChainInv, TypeOK, ChainTypes, AskedInv
<1>1. CASE UNCHANGED cafeVars
  BY <1>1 DEF cafeVars, vars, chain
<1>2. CASE Outside
  BY <1>2 DEF Outside, ContextEnds, Wait, BackoffCut, Finish, chain, ParserSet
<1>3. ASSUME NEW a \in Articles, Call(a) PROVE AskedInv'
  <2>1. /\ state[a] \in {"waiting", "backoff"} /\ state' = [state EXCEPT ![a] = "fetching"]
        /\ UNCHANGED <<last, filled>>
    BY <1>3 DEF Call, Go, BackoffOver
  <2> QED
    BY <1>3, <2>1 DEF Call, ParserSet
<1>4. ASSUME NEW a \in Articles, VerdictCut(a) \/ Settle(a) PROVE AskedInv'
  BY <1>4 DEF VerdictCut, Settle, Return, Returned, Finish, ParserSet
<1>5. ASSUME NEW a \in Articles, TryAgain(a) PROVE AskedInv'
  BY <1>5 DEF TryAgain, Returned, ParserSet
<1>6. ASSUME NEW a \in Articles, NEW p \in ParserSet, Answers(a, p) PROVE AskedInv'
  <2>1. Asked(a, p)
    BY <1>6 DEF Answers, Fills, FindsNothing, Denied, Hiccup, Interrupted, Breaks
  <2>2. /\ state[a] = "fetching" /\ asking[a] = p
        /\ asked'[a] = asked[a] \cup {p}
        /\ \A b \in Articles \ {a} : asked'[b] = asked[b]
    BY <2>1, ParserMoves DEF Asked
  <2>3. CASE Fills(a, p)
    BY <2>2, <2>3 DEF Fills, vars, ParserSet
  <2>4. CASE FindsNothing(a, p) \/ Denied(a, p) \/ Hiccup(a, p)
    <3>1. asking' = [asking EXCEPT ![a] = After(p)] /\ UNCHANGED <<vars, content>>
      BY <2>4 DEF FindsNothing, Denied, Hiccup
    <3> QED
      BY <2>2, <3>1 DEF vars, After, ParserSet
  <2>5. CASE Interrupted(a, p) \/ Breaks(a, p)
    BY <2>2, <2>5 DEF Interrupted, Breaks, Return, Finish, ParserSet
  <2> QED
    BY <1>6, <2>3, <2>4, <2>5 DEF Answers
<1> QED
  BY <1>1, <1>2, <1>3, <1>4, <1>5, <1>6 DEF CafeNext

\* Types and the order of the sources, in every state.
THEOREM ChainInvariant == CafeSpec => []ChainInv
<1>1. ChainInv /\ [CafeNext]_cafeVars => ChainInv'
  <2> SUFFICES ASSUME ChainInv, [CafeNext]_cafeVars PROVE ChainInv'
    OBVIOUS
  <2>1. TypeOK'
    BY CafeStepIsPoolStep, PoolNextType DEF ChainInv
  <2> QED
    BY <2>1, NextChainTypes, NextAsked DEF ChainInv
<1> QED
  BY <1>1, ChainInit, PTL DEF CafeSpec

\* Every call stands where its answers put it and belongs to a goroutine of the
\* pool that is fetching, whatever sources fail.
THEOREM CafeTypeOKHolds == CafeSpec => []CafeTypeOK
<1>1. ChainInv => CafeTypeOK
  BY DEF ChainInv, ChainTypes, CafeTypeOK
<1> QED
  BY <1>1, ChainInvariant, PTL

\* No article is given up before the API, the page and the search were asked.
THEOREM GivesUpAfterAllSourcesHolds == CafeSpec => []GivesUpAfterAllSources
<1>1. ChainInv => GivesUpAfterAllSources
  BY DEF ChainInv, AskedInv, GivesUpAfterAllSources
<1> QED
  BY <1>1, ChainInvariant, PTL

\* The goroutines with the Naver Cafe fallback chain inside implement the pool,
\* for any number of articles, goroutines at a time and attempts.
THEOREM CafeImplementsPool == CafeSpec => PoolSpec
<1>1. CafeInit => Init
  BY DEF CafeInit
<1>2. ChainInv /\ [CafeNext]_cafeVars => [Next]_vars
  BY CafeStepIsPoolStep
<1> QED
  BY <1>1, <1>2, ChainInvariant, PTL DEF CafeSpec, PoolSpec, Spec

\* So what the pool promises its callers, crawlArticleContent cannot break: an
\* answer of a source that fails, is denied or panics cuts no other article short,
\* and no content changes after the call has returned.
THEOREM CafeKeepsThePoolsPromises ==
    CafeSpec => [](OnlyTheContextCuts /\ NilMeansNoneCutShort) /\ StillAfterReturn
<1>1. CafeSpec => Spec
  BY CafeImplementsPool DEF PoolSpec
<1> QED
  BY <1>1, OnlyTheContextCutsHolds, NilMeansNoneCutShortHolds, StillAfterReturnHolds, PTL
=============================================================================
