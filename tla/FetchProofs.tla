---------------------------- MODULE FetchProofs ----------------------------
(* What one call of the scraper guarantees for any number of retries, any   *)
(* delays and any limits, checked by TLAPS.                                 *)
EXTENDS Fetch, TLAPS

-----------------------------------------------------------------------------
\* What the server asks for is a number, and below the width of a Duration it
\* is the number of seconds it wrote.
LEMMA WaitIsInt == \A s \in Nat : Wait(s) \in Int
  BY RetryAssumption DEF Wait

LEMMA WaitIsAsked ==
    \A s \in Nat : s * PerSecond < HalfWord => Wait(s) = s * PerSecond
  BY RetryAssumption DEF Wait

LEMMA FetchInit == Init => IInv
  BY RetryAssumption, SizeAssumption
     DEF Init, IInv, TypeOK, OneBody, RetryLeft, LateAttempt, WholeInBuffer,
         PacesRetries, OnlyWholeIsParsed, NotGivenUpEarly, EffectiveRetries,
         NoAnswer, Retriable

\* The types are kept: an attempt is made only if the loop has one left.
LEMMA FetchType == TypeOK /\ RetryLeft /\ [Next]_vars => TypeOK'
<1> SUFFICES ASSUME TypeOK, RetryLeft, [Next]_vars PROVE TypeOK'
  OBVIOUS
<1> USE RetryAssumption, SizeAssumption DEF TypeOK, RetryLeft, EffectiveRetries,
        setup, loop, Answer, NoAnswer, Statuses, NoHeader
<1>1. CASE UNCHANGED vars
  BY <1>1 DEF vars
<1>2. CASE Send
  BY <1>2 DEF Send
<1>3. CASE Answered
  BY <1>3 DEF Answered
<1>4. CASE Unanswered
  BY <1>4 DEF Unanswered
<1>5. CASE LimitBytes
  <2>1. CASE Pass("status")
    BY <1>5, <2>1 DEF LimitBytes, Pass
  <2>2. CASE Reject("too_large")
    BY <1>5, <2>2 DEF LimitBytes, Reject, CloseBody
  <2>3. QED
    BY <1>5, <2>1, <2>2, Zenon DEF LimitBytes
<1>6. CASE CheckStatus
  <2>1. CASE Pass("mime")
    BY <1>6, <2>1 DEF CheckStatus, Pass
  <2>2. CASE Reject(answer.status)
    BY <1>6, <2>2 DEF CheckStatus, Reject, CloseBody
  <2>3. QED
    BY <1>6, <2>1, <2>2, Zenon DEF CheckStatus
<1>7. CASE CheckMime
  <2>1. CASE Pass("decide")
    BY <1>7, <2>1 DEF CheckMime, Pass
  <2>2. CASE Reject("media_type")
    BY <1>7, <2>2 DEF CheckMime, Reject, CloseBody
  <2>3. QED
    BY <1>7, <2>1, <2>2, Zenon DEF CheckMime
<1>8. CASE ReturnAnswer
  BY <1>8 DEF ReturnAnswer
<1>9. CASE ReturnError
  BY <1>9 DEF ReturnError, End
<1>10. CASE GiveUp
  BY <1>10 DEF GiveUp, End, CloseBody
<1>11. CASE TryAgain
  BY <1>11 DEF TryAgain, CloseBody
<1>12. CASE RefuseToWait
  BY <1>12 DEF RefuseToWait, End
<1>13. CASE Pause
  <2>1. PICK d \in Jitter : delay' = IF Asked THEN Wait(answer.after)
                                   ELSE IF d = 0 THEN MinDelay ELSE d
    BY <1>13 DEF Pause
  <2>2. answer.after \in Headers \cup {-1}
    OBVIOUS
  <2>3. Asked => Wait(answer.after) \in Int
    BY <2>2, WaitIsInt DEF Asked
  <2>4. delay' \in Int
    BY <2>1, <2>3 DEF Jitter
  <2>5. QED
    BY <1>13, <2>4 DEF Pause
<1>14. CASE BackoffCut
  BY <1>14 DEF BackoffCut, End
<1>15. CASE BackoffOver
  BY <1>15 DEF BackoffOver
<1>16. CASE Rebuild
  BY <1>16 DEF Rebuild
<1>17. CASE RebuildFails
  BY <1>17 DEF RebuildFails, End
<1>18. CASE Validate
  BY <1>18 DEF Validate
<1>19. CASE ValidateFails
  BY <1>19 DEF ValidateFails, ScrapeFails, CloseBody, End
<1>20. CASE ReadFails
  BY <1>20 DEF ReadFails, ScrapeFails, CloseBody, End
<1>21. CASE ReadTooMuch
  BY <1>21 DEF ReadTooMuch, ScrapeFails, CloseBody, End
<1>22. CASE Read
  BY <1>22 DEF Read, CloseBody, BytesRead
<1>23. CASE Parse
  BY <1>23 DEF Parse, End
<1>24. CASE ParseFails
  BY <1>24 DEF ParseFails, End
<1>25. CASE ContextEnds
  BY <1>25 DEF ContextEnds
<1>26. QED
  BY <1>1, <1>2, <1>3, <1>4, <1>5, <1>6, <1>7, <1>8, <1>9, <1>10,
     <1>11, <1>12, <1>13, <1>14, <1>15, <1>16, <1>17, <1>18, <1>19,
     <1>20, <1>21, <1>22, <1>23, <1>24, <1>25
     DEF Next, Chain, Retry, Scrape

\* The body is closed by whoever does not hand it on.
LEMMA FetchOneBody == TypeOK /\ OneBody /\ [Next]_vars => OneBody'
<1> SUFFICES ASSUME TypeOK, OneBody, [Next]_vars PROVE OneBody'
  OBVIOUS
<1> USE DEF TypeOK, OneBody, setup, loop
<1>1. CASE UNCHANGED vars
  BY <1>1 DEF vars
<1>2. CASE Send
  BY <1>2 DEF Send
<1>3. CASE Answered
  BY <1>3 DEF Answered
<1>4. CASE Unanswered
  BY <1>4 DEF Unanswered
<1>5. CASE LimitBytes
  <2>1. CASE Pass("status")
    BY <1>5, <2>1 DEF LimitBytes, Pass
  <2>2. CASE Reject("too_large")
    BY <1>5, <2>2 DEF LimitBytes, Reject, CloseBody
  <2>3. QED
    BY <1>5, <2>1, <2>2, Zenon DEF LimitBytes
<1>6. CASE CheckStatus
  <2>1. CASE Pass("mime")
    BY <1>6, <2>1 DEF CheckStatus, Pass
  <2>2. CASE Reject(answer.status)
    BY <1>6, <2>2 DEF CheckStatus, Reject, CloseBody
  <2>3. QED
    BY <1>6, <2>1, <2>2, Zenon DEF CheckStatus
<1>7. CASE CheckMime
  <2>1. CASE Pass("decide")
    BY <1>7, <2>1 DEF CheckMime, Pass
  <2>2. CASE Reject("media_type")
    BY <1>7, <2>2 DEF CheckMime, Reject, CloseBody
  <2>3. QED
    BY <1>7, <2>1, <2>2, Zenon DEF CheckMime
<1>8. CASE ReturnAnswer
  BY <1>8 DEF ReturnAnswer
<1>9. CASE ReturnError
  BY <1>9 DEF ReturnError, End
<1>10. CASE GiveUp
  BY <1>10 DEF GiveUp, End, CloseBody
<1>11. CASE TryAgain
  BY <1>11 DEF TryAgain, CloseBody
<1>12. CASE RefuseToWait
  BY <1>12 DEF RefuseToWait, End
<1>13. CASE Pause
  BY <1>13 DEF Pause
<1>14. CASE BackoffCut
  BY <1>14 DEF BackoffCut, End
<1>15. CASE BackoffOver
  BY <1>15 DEF BackoffOver
<1>16. CASE Rebuild
  BY <1>16 DEF Rebuild
<1>17. CASE RebuildFails
  BY <1>17 DEF RebuildFails, End
<1>18. CASE Validate
  BY <1>18 DEF Validate
<1>19. CASE ValidateFails
  BY <1>19 DEF ValidateFails, ScrapeFails, CloseBody, End
<1>20. CASE ReadFails
  BY <1>20 DEF ReadFails, ScrapeFails, CloseBody, End
<1>21. CASE ReadTooMuch
  BY <1>21 DEF ReadTooMuch, ScrapeFails, CloseBody, End
<1>22. CASE Read
  BY <1>22 DEF Read, CloseBody
<1>23. CASE Parse
  BY <1>23 DEF Parse, End
<1>24. CASE ParseFails
  BY <1>24 DEF ParseFails, End
<1>25. CASE ContextEnds
  BY <1>25 DEF ContextEnds
<1>26. QED
  BY <1>1, <1>2, <1>3, <1>4, <1>5, <1>6, <1>7, <1>8, <1>9, <1>10,
     <1>11, <1>12, <1>13, <1>14, <1>15, <1>16, <1>17, <1>18, <1>19,
     <1>20, <1>21, <1>22, <1>23, <1>24, <1>25
     DEF Next, Chain, Retry, Scrape

\* AtLastTry stops the loop before its last attempt is spent.
LEMMA FetchRetryLeft == TypeOK /\ RetryLeft /\ [Next]_vars => RetryLeft'
<1> SUFFICES ASSUME TypeOK, RetryLeft, [Next]_vars PROVE RetryLeft'
  OBVIOUS
<1> USE RetryAssumption DEF TypeOK, RetryLeft, EffectiveRetries, setup, loop
<1>1. CASE UNCHANGED vars
  BY <1>1 DEF vars
<1>2. CASE Send
  BY <1>2 DEF Send
<1>3. CASE Answered
  BY <1>3 DEF Answered
<1>4. CASE Unanswered
  BY <1>4 DEF Unanswered
<1>5. CASE LimitBytes
  <2>1. CASE Pass("status")
    BY <1>5, <2>1 DEF LimitBytes, Pass
  <2>2. CASE Reject("too_large")
    BY <1>5, <2>2 DEF LimitBytes, Reject, CloseBody
  <2>3. QED
    BY <1>5, <2>1, <2>2, Zenon DEF LimitBytes
<1>6. CASE CheckStatus
  <2>1. CASE Pass("mime")
    BY <1>6, <2>1 DEF CheckStatus, Pass
  <2>2. CASE Reject(answer.status)
    BY <1>6, <2>2 DEF CheckStatus, Reject, CloseBody
  <2>3. QED
    BY <1>6, <2>1, <2>2, Zenon DEF CheckStatus
<1>7. CASE CheckMime
  <2>1. CASE Pass("decide")
    BY <1>7, <2>1 DEF CheckMime, Pass
  <2>2. CASE Reject("media_type")
    BY <1>7, <2>2 DEF CheckMime, Reject, CloseBody
  <2>3. QED
    BY <1>7, <2>1, <2>2, Zenon DEF CheckMime
<1>8. CASE ReturnAnswer
  BY <1>8 DEF ReturnAnswer, Again
<1>9. CASE ReturnError
  BY <1>9 DEF ReturnError, End, Again
<1>10. CASE GiveUp
  BY <1>10 DEF GiveUp, End, CloseBody, Again, AtLastTry
<1>11. CASE TryAgain
  BY <1>11 DEF TryAgain, CloseBody, Again, AtLastTry
<1>12. CASE RefuseToWait
  BY <1>12 DEF RefuseToWait, End
<1>13. CASE Pause
  BY <1>13 DEF Pause
<1>14. CASE BackoffCut
  BY <1>14 DEF BackoffCut, End
<1>15. CASE BackoffOver
  BY <1>15 DEF BackoffOver
<1>16. CASE Rebuild
  BY <1>16 DEF Rebuild
<1>17. CASE RebuildFails
  BY <1>17 DEF RebuildFails, End
<1>18. CASE Validate
  BY <1>18 DEF Validate
<1>19. CASE ValidateFails
  BY <1>19 DEF ValidateFails, ScrapeFails, CloseBody, End
<1>20. CASE ReadFails
  BY <1>20 DEF ReadFails, ScrapeFails, CloseBody, End
<1>21. CASE ReadTooMuch
  BY <1>21 DEF ReadTooMuch, ScrapeFails, CloseBody, End
<1>22. CASE Read
  BY <1>22 DEF Read, CloseBody
<1>23. CASE Parse
  BY <1>23 DEF Parse, End
<1>24. CASE ParseFails
  BY <1>24 DEF ParseFails, End
<1>25. CASE ContextEnds
  BY <1>25 DEF ContextEnds
<1>26. QED
  BY <1>1, <1>2, <1>3, <1>4, <1>5, <1>6, <1>7, <1>8, <1>9, <1>10,
     <1>11, <1>12, <1>13, <1>14, <1>15, <1>16, <1>17, <1>18, <1>19,
     <1>20, <1>21, <1>22, <1>23, <1>24, <1>25
     DEF Next, Chain, Retry, Scrape

\* The context's own error is not retriable, so a late attempt is the last.
LEMMA FetchLateAttempt == TypeOK /\ LateAttempt /\ [Next]_vars => LateAttempt'
<1> SUFFICES ASSUME TypeOK, LateAttempt, [Next]_vars PROVE LateAttempt'
  OBVIOUS
<1> USE DEF TypeOK, LateAttempt, setup, loop
<1>1. CASE UNCHANGED vars
  BY <1>1 DEF vars
<1>2. CASE Send
  BY <1>2 DEF Send
<1>3. CASE Answered
  BY <1>3 DEF Answered
<1>4. CASE Unanswered
  BY <1>4 DEF Unanswered
<1>5. CASE LimitBytes
  <2>1. CASE Pass("status")
    BY <1>5, <2>1 DEF LimitBytes, Pass
  <2>2. CASE Reject("too_large")
    BY <1>5, <2>2 DEF LimitBytes, Reject, CloseBody
  <2>3. QED
    BY <1>5, <2>1, <2>2, Zenon DEF LimitBytes
<1>6. CASE CheckStatus
  <2>1. CASE Pass("mime")
    BY <1>6, <2>1 DEF CheckStatus, Pass
  <2>2. CASE Reject(answer.status)
    BY <1>6, <2>2 DEF CheckStatus, Reject, CloseBody
  <2>3. QED
    BY <1>6, <2>1, <2>2, Zenon DEF CheckStatus
<1>7. CASE CheckMime
  <2>1. CASE Pass("decide")
    BY <1>7, <2>1 DEF CheckMime, Pass
  <2>2. CASE Reject("media_type")
    BY <1>7, <2>2 DEF CheckMime, Reject, CloseBody
  <2>3. QED
    BY <1>7, <2>1, <2>2, Zenon DEF CheckMime
<1>8. CASE ReturnAnswer
  BY <1>8 DEF ReturnAnswer, Again, Retriable
<1>9. CASE ReturnError
  BY <1>9 DEF ReturnError, End, Again, Retriable
<1>10. CASE GiveUp
  BY <1>10 DEF GiveUp, End, CloseBody, Again, AtLastTry, Retriable
<1>11. CASE TryAgain
  BY <1>11 DEF TryAgain, CloseBody, Again, AtLastTry, Retriable
<1>12. CASE RefuseToWait
  BY <1>12 DEF RefuseToWait, End
<1>13. CASE Pause
  BY <1>13 DEF Pause
<1>14. CASE BackoffCut
  BY <1>14 DEF BackoffCut, End
<1>15. CASE BackoffOver
  BY <1>15 DEF BackoffOver
<1>16. CASE Rebuild
  BY <1>16 DEF Rebuild
<1>17. CASE RebuildFails
  BY <1>17 DEF RebuildFails, End
<1>18. CASE Validate
  BY <1>18 DEF Validate
<1>19. CASE ValidateFails
  BY <1>19 DEF ValidateFails, ScrapeFails, CloseBody, End
<1>20. CASE ReadFails
  BY <1>20 DEF ReadFails, ScrapeFails, CloseBody, End
<1>21. CASE ReadTooMuch
  BY <1>21 DEF ReadTooMuch, ScrapeFails, CloseBody, End
<1>22. CASE Read
  BY <1>22 DEF Read, CloseBody
<1>23. CASE Parse
  BY <1>23 DEF Parse, End
<1>24. CASE ParseFails
  BY <1>24 DEF ParseFails, End
<1>25. CASE ContextEnds
  BY <1>25 DEF ContextEnds
<1>26. QED
  BY <1>1, <1>2, <1>3, <1>4, <1>5, <1>6, <1>7, <1>8, <1>9, <1>10,
     <1>11, <1>12, <1>13, <1>14, <1>15, <1>16, <1>17, <1>18, <1>19,
     <1>20, <1>21, <1>22, <1>23, <1>24, <1>25
     DEF Next, Chain, Retry, Scrape

\* What is read was validated, what is parsed was read to its end, and what is
\* refused for its size is too large.
LEMMA FetchWhole ==
    TypeOK /\ OneBody /\ WholeInBuffer /\ OnlyWholeIsParsed /\ [Next]_vars
        => (WholeInBuffer /\ OnlyWholeIsParsed)'
<1> SUFFICES ASSUME TypeOK, OneBody, WholeInBuffer, OnlyWholeIsParsed, [Next]_vars
             PROVE  (WholeInBuffer /\ OnlyWholeIsParsed)'
  OBVIOUS
<1> USE SizeAssumption DEF TypeOK, WholeInBuffer, OnlyWholeIsParsed, Acceptable,
        BytesRead, setup, loop
<1>0. /\ answer.size \in Nat
      /\ config.maxBytes \in Nat
      /\ answer.status # "too_large"
  <2>1. CASE answer \in Answer
    BY <2>1 DEF Answer, Statuses
  <2>2. CASE answer = NoAnswer
    BY <2>2 DEF NoAnswer
  <2>3. QED
    BY <2>1, <2>2
<1>1. CASE UNCHANGED vars
  BY <1>1 DEF vars
<1>2. CASE Send
  BY <1>2 DEF Send
<1>3. CASE Answered
  <2>1. answer' \in Answer /\ pc = "sent" /\ pc' = "limit" /\ err = "none"
    BY <1>3 DEF Answered, OneBody
  <2>2. UNCHANGED <<config, request, err, got, outcome>>
    BY <1>3 DEF Answered
  <2>3. QED
    BY <2>1, <2>2
<1>4. CASE Unanswered
  BY <1>4 DEF Unanswered
<1>5. CASE LimitBytes
  <2>1. CASE Pass("status")
    BY <1>5, <2>1 DEF LimitBytes, Pass
  <2>2. CASE Reject("too_large")
    BY <1>0, <1>5, <2>2 DEF LimitBytes, Reject, Pass, CloseBody
  <2>3. QED
    BY <1>5, <2>1, <2>2, Zenon DEF LimitBytes
<1>6. CASE CheckStatus
  <2>1. CASE Pass("mime")
    BY <1>6, <2>1 DEF CheckStatus, Pass
  <2>2. CASE Reject(answer.status)
    BY <1>0, <1>6, <2>2 DEF CheckStatus, Reject, CloseBody
  <2>3. QED
    BY <1>6, <2>1, <2>2, Zenon DEF CheckStatus
<1>7. CASE CheckMime
  <2>1. CASE Pass("decide")
    BY <1>7, <2>1 DEF CheckMime, Pass
  <2>2. CASE Reject("media_type")
    BY <1>7, <2>2 DEF CheckMime, Reject, CloseBody
  <2>3. QED
    BY <1>7, <2>1, <2>2, Zenon DEF CheckMime
<1>8. CASE ReturnAnswer
  BY <1>8 DEF ReturnAnswer
<1>9. CASE ReturnError
  BY <1>9 DEF ReturnError, End
<1>10. CASE GiveUp
  BY <1>10 DEF GiveUp, End, CloseBody
<1>11. CASE TryAgain
  BY <1>11 DEF TryAgain, CloseBody
<1>12. CASE RefuseToWait
  BY <1>12 DEF RefuseToWait, End
<1>13. CASE Pause
  BY <1>13 DEF Pause
<1>14. CASE BackoffCut
  BY <1>14 DEF BackoffCut, End
<1>15. CASE BackoffOver
  BY <1>15 DEF BackoffOver
<1>16. CASE Rebuild
  BY <1>16 DEF Rebuild
<1>17. CASE RebuildFails
  BY <1>17 DEF RebuildFails, End
<1>18. CASE Validate
  BY <1>18 DEF Validate
<1>19. CASE ValidateFails
  BY <1>19 DEF ValidateFails, ScrapeFails, CloseBody, End
<1>20. CASE ReadFails
  BY <1>20 DEF ReadFails, ScrapeFails, CloseBody, End
<1>21. CASE ReadTooMuch
  BY <1>0, <1>21 DEF ReadTooMuch, ScrapeFails, CloseBody, End
<1>22. CASE Read
  BY <1>22 DEF Read, CloseBody
<1>23. CASE Parse
  BY <1>23 DEF Parse, End
<1>24. CASE ParseFails
  BY <1>24 DEF ParseFails, End
<1>25. CASE ContextEnds
  BY <1>25 DEF ContextEnds
<1>26. QED
  BY <1>1, <1>2, <1>3, <1>4, <1>5, <1>6, <1>7, <1>8, <1>9, <1>10,
     <1>11, <1>12, <1>13, <1>14, <1>15, <1>16, <1>17, <1>18, <1>19,
     <1>20, <1>21, <1>22, <1>23, <1>24, <1>25
     DEF Next, Chain, Retry, Scrape

\* Only Pause sets the timer, to the server's delay or a positive one.
LEMMA FetchPaces == TypeOK /\ PacesRetries /\ [Next]_vars => PacesRetries'
<1> SUFFICES ASSUME TypeOK, PacesRetries, [Next]_vars PROVE PacesRetries'
  OBVIOUS
<1> USE DEF TypeOK, PacesRetries, Asked, setup, loop
<1>1. CASE UNCHANGED vars
  BY <1>1 DEF vars
<1>2. CASE Send
  BY <1>2 DEF Send
<1>3. CASE Answered
  BY <1>3 DEF Answered
<1>4. CASE Unanswered
  BY <1>4 DEF Unanswered
<1>5. CASE LimitBytes
  <2>1. CASE Pass("status")
    BY <1>5, <2>1 DEF LimitBytes, Pass
  <2>2. CASE Reject("too_large")
    BY <1>5, <2>2 DEF LimitBytes, Reject, CloseBody
  <2>3. QED
    BY <1>5, <2>1, <2>2, Zenon DEF LimitBytes
<1>6. CASE CheckStatus
  <2>1. CASE Pass("mime")
    BY <1>6, <2>1 DEF CheckStatus, Pass
  <2>2. CASE Reject(answer.status)
    BY <1>6, <2>2 DEF CheckStatus, Reject, CloseBody
  <2>3. QED
    BY <1>6, <2>1, <2>2, Zenon DEF CheckStatus
<1>7. CASE CheckMime
  <2>1. CASE Pass("decide")
    BY <1>7, <2>1 DEF CheckMime, Pass
  <2>2. CASE Reject("media_type")
    BY <1>7, <2>2 DEF CheckMime, Reject, CloseBody
  <2>3. QED
    BY <1>7, <2>1, <2>2, Zenon DEF CheckMime
<1>8. CASE ReturnAnswer
  BY <1>8 DEF ReturnAnswer
<1>9. CASE ReturnError
  BY <1>9 DEF ReturnError, End
<1>10. CASE GiveUp
  BY <1>10 DEF GiveUp, End, CloseBody
<1>11. CASE TryAgain
  BY <1>11 DEF TryAgain, CloseBody
<1>12. CASE RefuseToWait
  BY <1>12 DEF RefuseToWait, End
<1>13. CASE Pause
  <2>1. PICK d \in Jitter : delay' = IF Asked THEN Wait(answer.after)
                                   ELSE IF d = 0 THEN MinDelay ELSE d
    BY <1>13 DEF Pause
  <2>2. answer.after \in Headers \cup {-1} /\ d \in 0..MaxDelay
    BY DEF Jitter, Answer, NoAnswer, NoHeader
  <2>3. CASE Asked
    <3>1. answer.after \in Nat /\ answer.after # NoHeader
      BY <2>2, <2>3, RetryAssumption DEF NoHeader
    <3>2. answer' = answer /\ delay' = Wait(answer.after) /\ delay' <= MaxDelay
      BY <1>13, <2>1, <2>3 DEF Pause
    <3>3. answer.after * PerSecond < HalfWord => delay' >= answer.after * PerSecond
      <4>1. answer.after * PerSecond \in Int
        BY <3>1, RetryAssumption
      <4>2. QED
        BY <3>1, <3>2, <4>1, WaitIsAsked
    <3>4. QED
      BY <3>1, <3>2, <3>3
  <2>4. CASE ~Asked
    BY <1>13, <2>1, <2>2, <2>4, RetryAssumption DEF Pause, NoHeader
  <2>5. QED
    BY <2>3, <2>4
<1>14. CASE BackoffCut
  BY <1>14 DEF BackoffCut, End
<1>15. CASE BackoffOver
  BY <1>15 DEF BackoffOver
<1>16. CASE Rebuild
  BY <1>16 DEF Rebuild
<1>17. CASE RebuildFails
  BY <1>17 DEF RebuildFails, End
<1>18. CASE Validate
  BY <1>18 DEF Validate
<1>19. CASE ValidateFails
  BY <1>19 DEF ValidateFails, ScrapeFails, CloseBody, End
<1>20. CASE ReadFails
  BY <1>20 DEF ReadFails, ScrapeFails, CloseBody, End
<1>21. CASE ReadTooMuch
  BY <1>21 DEF ReadTooMuch, ScrapeFails, CloseBody, End
<1>22. CASE Read
  BY <1>22 DEF Read, CloseBody
<1>23. CASE Parse
  BY <1>23 DEF Parse, End
<1>24. CASE ParseFails
  BY <1>24 DEF ParseFails, End
<1>25. CASE ContextEnds
  BY <1>25 DEF ContextEnds
<1>26. QED
  BY <1>1, <1>2, <1>3, <1>4, <1>5, <1>6, <1>7, <1>8, <1>9, <1>10,
     <1>11, <1>12, <1>13, <1>14, <1>15, <1>16, <1>17, <1>18, <1>19,
     <1>20, <1>21, <1>22, <1>23, <1>24, <1>25
     DEF Next, Chain, Retry, Scrape

\* A failure that may pass ends the call at the last try, or after validation.
LEMMA FetchNotEarly ==
    TypeOK /\ WholeInBuffer /\ NotGivenUpEarly /\ [Next]_vars => NotGivenUpEarly'
<1> SUFFICES ASSUME TypeOK, WholeInBuffer, NotGivenUpEarly, [Next]_vars
             PROVE  NotGivenUpEarly'
  OBVIOUS
<1> USE DEF TypeOK, WholeInBuffer, NotGivenUpEarly, Retriable, Acceptable,
        EffectiveRetries, setup, loop
<1>1. CASE UNCHANGED vars
  BY <1>1 DEF vars
<1>2. CASE Send
  BY <1>2 DEF Send
<1>3. CASE Answered
  BY <1>3 DEF Answered
<1>4. CASE Unanswered
  BY <1>4 DEF Unanswered
<1>5. CASE LimitBytes
  <2>1. CASE Pass("status")
    BY <1>5, <2>1 DEF LimitBytes, Pass
  <2>2. CASE Reject("too_large")
    BY <1>5, <2>2 DEF LimitBytes, Reject, CloseBody
  <2>3. QED
    BY <1>5, <2>1, <2>2, Zenon DEF LimitBytes
<1>6. CASE CheckStatus
  <2>1. CASE Pass("mime")
    BY <1>6, <2>1 DEF CheckStatus, Pass
  <2>2. CASE Reject(answer.status)
    BY <1>6, <2>2 DEF CheckStatus, Reject, CloseBody
  <2>3. QED
    BY <1>6, <2>1, <2>2, Zenon DEF CheckStatus
<1>7. CASE CheckMime
  <2>1. CASE Pass("decide")
    BY <1>7, <2>1 DEF CheckMime, Pass
  <2>2. CASE Reject("media_type")
    BY <1>7, <2>2 DEF CheckMime, Reject, CloseBody
  <2>3. QED
    BY <1>7, <2>1, <2>2, Zenon DEF CheckMime
<1>8. CASE ReturnAnswer
  BY <1>8 DEF ReturnAnswer, Again
<1>9. CASE ReturnError
  BY <1>9 DEF ReturnError, End, Again
<1>10. CASE GiveUp
  BY <1>10 DEF GiveUp, End, CloseBody, Again, AtLastTry
<1>11. CASE TryAgain
  BY <1>11 DEF TryAgain, CloseBody, Again, AtLastTry
<1>12. CASE RefuseToWait
  BY <1>12 DEF RefuseToWait, End
<1>13. CASE Pause
  BY <1>13 DEF Pause
<1>14. CASE BackoffCut
  BY <1>14 DEF BackoffCut, End
<1>15. CASE BackoffOver
  BY <1>15 DEF BackoffOver
<1>16. CASE Rebuild
  BY <1>16 DEF Rebuild
<1>17. CASE RebuildFails
  BY <1>17 DEF RebuildFails, End
<1>18. CASE Validate
  BY <1>18 DEF Validate
<1>19. CASE ValidateFails
  BY <1>19 DEF ValidateFails, ScrapeFails, CloseBody, End
<1>20. CASE ReadFails
  BY <1>20 DEF ReadFails, ScrapeFails, CloseBody, End
<1>21. CASE ReadTooMuch
  BY <1>21 DEF ReadTooMuch, ScrapeFails, CloseBody, End
<1>22. CASE Read
  BY <1>22 DEF Read, CloseBody
<1>23. CASE Parse
  BY <1>23 DEF Parse, End
<1>24. CASE ParseFails
  BY <1>24 DEF ParseFails, End
<1>25. CASE ContextEnds
  BY <1>25 DEF ContextEnds
<1>26. QED
  BY <1>1, <1>2, <1>3, <1>4, <1>5, <1>6, <1>7, <1>8, <1>9, <1>10,
     <1>11, <1>12, <1>13, <1>14, <1>15, <1>16, <1>17, <1>18, <1>19,
     <1>20, <1>21, <1>22, <1>23, <1>24, <1>25
     DEF Next, Chain, Retry, Scrape

\* The invariant is inductive.
LEMMA FetchStep == IInv /\ [Next]_vars => IInv'
  BY FetchType, FetchOneBody, FetchRetryLeft, FetchLateAttempt, FetchWhole,
     FetchPaces, FetchNotEarly DEF IInv

LEMMA FetchInductive == Spec => []IInv
  BY FetchInit, FetchStep, PTL DEF Spec

-----------------------------------------------------------------------------
\* The types, and the number of attempts: RetryFetcher.Do calls its delegate at
\* most once more than the request may be repeated.
THEOREM FetchInvariant == Spec => []TypeOK
<1>1. IInv => TypeOK
  BY DEF IInv
<1>2. QED
  BY <1>1, FetchInductive, PTL

\* No layer of the chain and no end of the context leaves a response body open.
THEOREM BodiesClosedHolds == Spec => []BodiesClosed
<1>1. IInv => BodiesClosed
  BY DEF IInv, OneBody, BodiesClosed
<1>2. QED
  BY <1>1, FetchInductive, PTL

\* What may act twice, or can be read only once, is sent at most once.
THEOREM UnsafeSentOnceHolds == Spec => []UnsafeSentOnce
<1>1. IInv => UnsafeSentOnce
  BY DEF IInv, TypeOK, UnsafeSentOnce, EffectiveRetries
<1>2. QED
  BY <1>1, FetchInductive, PTL

\* The backoff honours the server's delay, the minimum and the maximum, for all
\* settings of the delays.
THEOREM PacesRetriesHolds == Spec => []PacesRetries
<1>1. IInv => PacesRetries
  BY DEF IInv
<1>2. QED
  BY <1>1, FetchInductive, PTL

\* At most one attempt is begun after the context has ended.
THEOREM StopsAfterEndHolds == Spec => []StopsAfterEnd
<1>1. IInv => StopsAfterEnd
  BY DEF IInv, TypeOK, LateAttempt, StopsAfterEnd
<1>2. QED
  BY <1>1, FetchInductive, PTL

\* A truncated, oversized or rejected answer is never parsed, and none is refused
\* as too large within both limits, whatever they are and whichever is smaller.
THEOREM OnlyWholeIsParsedHolds == Spec => []OnlyWholeIsParsed
<1>1. IInv => OnlyWholeIsParsed
  BY DEF IInv
<1>2. QED
  BY <1>1, FetchInductive, PTL

\* All attempts are used for a failure that may pass.
THEOREM NotGivenUpEarlyHolds == Spec => []NotGivenUpEarly
<1>1. IInv => NotGivenUpEarly
  BY DEF IInv
<1>2. QED
  BY <1>1, FetchInductive, PTL
=============================================================================
