-------------------------- MODULE StoreCall_proofs --------------------------
(***************************************************************************)
(* The call of module Transport stays within its budget and is decided by   *)
(* its last attempt, for every timeout, number of retries, delay bound,     *)
(* redirect policy, and set of bodies and headers.  A store call is such a  *)
(* call, so it stays within its budget too, and what it returns as data was *)
(* proved by its last answer, for every set of bodies that Sony may send.   *)
(***************************************************************************)
EXTENDS StoreCall, TLAPS

-----------------------------------------------------------------------------
(* The call of module Transport *)


\* What the loop has spent: `attempt` attempts and the delays before them.
Spent(attempts) == attempts * Timeout + attempts * RetryAfterMax

BudgetInv ==
    /\ at # "done" => elapsed + wait <= Spent(attempt)
    /\ at = "done" => elapsed <= LongestCall

\* While the call runs, every attempt so far was one to repeat.
RepeatInv ==
    /\ at # "done" =>
          /\ Len(seen) = attempt
          /\ \A i \in 1..Len(seen) : Repeatable(seen[i])
          /\ result = NoResult
    /\ LastAttemptDecides

CallInv == CallTypeOK /\ BudgetInv /\ RepeatInv

-----------------------------------------------------------------------------

\* One more attempt costs at most its deadline and one delay.
LEMMA SpentGrows ==
    ASSUME NEW a \in Nat
    PROVE  /\ Spent(a + 1) = Spent(a) + Timeout + RetryAfterMax
           /\ Spent(a) \in Nat
PROOF BY TransportAssumption, SMT DEF Spent

\* The last attempt ends within the budget of the whole call.
LEMMA LastAttemptFits ==
    ASSUME NEW a \in 0..Retries
    PROVE  Spent(a) + Timeout <= LongestCall
PROOF
<1> DEFINE k == Retries - a
<1>1. k \in Nat /\ Retries = a + k
  BY TransportAssumption
<1>2. k * Timeout \in Nat /\ k * RetryAfterMax \in Nat
  BY <1>1, TransportAssumption
<1>3. LongestCall = Spent(a) + Timeout + k * Timeout + k * RetryAfterMax
  BY <1>1, TransportAssumption DEF LongestCall, Spent
<1>4. Spent(a) \in Nat
  BY SpentGrows
<1> QED BY <1>2, <1>3, <1>4, TransportAssumption

\* A parsed header is no delay or one within its clamp.
LEMMA ParsedDelay ==
    ASSUME NEW header \in RetryAfters
    PROVE  ParseRetryAfter(header) \in {NoDelay} \cup 0..RetryAfterMax
PROOF
<1>1. header \in Int
  BY TransportAssumption
<1>2. CASE header < 0
  BY <1>2 DEF ParseRetryAfter
<1>3. CASE header >= 0
  <2>1. header * Second \in Nat
    BY <1>1, <1>3, TransportAssumption
  <2> QED BY <2>1, <1>1, <1>3, TransportAssumption DEF ParseRetryAfter, Shorter
<1> QED BY <1>1, <1>2, <1>3

-----------------------------------------------------------------------------

\* What the result of a call says of its last answer.
Decides(value, last) ==
    /\ value.kind = "answer" => value.answer = last
    /\ value.kind = "answer" <=> \/ last.status = "2xx"
                                 \/ last.status = "3xx" /\ ManualRedirects
    /\ value.kind = "rate limited" <=> last.status = "429"
    /\ value.kind = "status" => value.status = last.status
    /\ value.kind = "failed" <=> last.status = "failed"

\* What the two lemmas above say of the current attempt.
LEMMA CurrentAttempt ==
    ASSUME CallTypeOK
    PROVE  /\ Spent(attempt) \in Nat
           /\ Spent(attempt + 1) = Spent(attempt) + Timeout + RetryAfterMax
           /\ Spent(attempt) + Timeout <= LongestCall
PROOF
<1>1. attempt \in 0..Retries /\ attempt \in Nat
  BY TransportAssumption DEF CallTypeOK
<1>2. Spent(attempt) + Timeout <= LongestCall
  BY <1>1, LastAttemptFits
<1>3. Spent(attempt) \in Nat /\ Spent(attempt + 1) = Spent(attempt) + Timeout + RetryAfterMax
  BY <1>1, SpentGrows
<1> QED BY <1>2, <1>3

\* The attempts before this one stay in the history.
LEMMA SeenGrows ==
    ASSUME CallTypeOK, NEW ticks \in 0..Timeout, NEW answer \in Answers, AttemptEnds(ticks, answer)
    PROVE  /\ seen' \in Seq(Answers)
           /\ Len(seen') = Len(seen) + 1
           /\ seen'[Len(seen')] = answer
           /\ \A i \in 1..Len(seen) : seen'[i] = seen[i]
           /\ elapsed' = elapsed + ticks /\ elapsed' \in Nat
           /\ isFailure' = isFailure
           /\ at = "sending"
PROOF BY DEF CallTypeOK, AttemptEnds

\* An attempt that is repeated, at once or after a delay.
LEMMA RepeatedStep ==
    ASSUME CallInv, NEW ticks \in 0..Timeout, NEW answer \in Answers, AttemptEnds(ticks, answer),
           NEW delay \in 0..RetryAfterMax, RetryAfter(delay),
           attempt < Retries, Repeatable(answer)
    PROVE  CallInv'
PROOF
<1> USE DEF CallInv
<1>1. CallTypeOK'
  BY SeenGrows, TransportAssumption DEF CallTypeOK, RetryAfter
<1>2. at' # "done" /\ attempt' = attempt + 1 /\ wait' = delay /\ result' = result
  BY DEF RetryAfter
<1>3. BudgetInv'
  <2>1. elapsed + wait <= Spent(attempt)
    BY SeenGrows DEF BudgetInv
  <2>2. Spent(attempt + 1) = Spent(attempt) + Timeout + RetryAfterMax /\ Spent(attempt) \in Nat
    BY CurrentAttempt
  <2>3. Spent(attempt)' = Spent(attempt + 1)
    BY <1>2 DEF Spent
  <2>4. elapsed' + wait' <= Spent(attempt + 1)
    <3>1. elapsed' = elapsed + ticks /\ wait' = delay /\ elapsed \in Nat /\ wait \in Nat
      BY <1>2, SeenGrows, TransportAssumption DEF CallTypeOK
    <3>2. ticks \in Nat /\ ticks <= Timeout /\ delay \in Nat /\ delay <= RetryAfterMax
      BY TransportAssumption
    <3> HIDE DEF CallInv
    <3> QED BY <2>1, <2>2, <3>1, <3>2, TransportAssumption
  <2> QED BY <2>3, <2>4, <1>2 DEF BudgetInv
<1>4. RepeatInv'
  <2>1. /\ Len(seen) = attempt /\ result = NoResult
        /\ \A i \in 1..Len(seen) : Repeatable(seen[i])
    BY SeenGrows DEF RepeatInv
  <2>2. ASSUME NEW i \in 1..Len(seen') PROVE Repeatable(seen[i])'
    <3>1. CASE i \in 1..Len(seen)
      BY <3>1, <2>1, SeenGrows DEF Repeatable
    <3>2. CASE i = Len(seen')
      BY <3>2, SeenGrows DEF Repeatable
    <3>3. i \in 1..Len(seen) \/ i = Len(seen')
      BY <2>2, SeenGrows DEF CallTypeOK
    <3> QED BY <3>1, <3>2, <3>3
  <2>3. LastAttemptDecides'
    BY <1>2 DEF LastAttemptDecides
  <2> QED BY <2>1, <2>2, <2>3, <1>2, SeenGrows DEF RepeatInv
<1> QED BY <1>1, <1>3, <1>4

\* An attempt that is the last one.
LEMMA LastStep ==
    ASSUME CallInv, NEW ticks \in 0..Timeout, NEW answer \in Answers, AttemptEnds(ticks, answer),
           NEW value \in Results, Return(value),
           Repeatable(answer) => attempt = Retries, Decides(value, answer)
    PROVE  CallInv'
PROOF
<1> USE DEF CallInv
<1>1. CallTypeOK'
  BY SeenGrows DEF CallTypeOK, Return
<1>2. at' = "done" /\ attempt' = attempt /\ wait' = wait /\ result' = value
  BY DEF Return
<1>3. BudgetInv'
  <2>1. elapsed + wait <= Spent(attempt)
    BY SeenGrows DEF BudgetInv
  <2>2. Spent(attempt) + Timeout <= LongestCall /\ Spent(attempt) \in Nat
    BY CurrentAttempt
  <2>3. LongestCall \in Nat
    BY TransportAssumption DEF LongestCall
  <2>4. elapsed' <= LongestCall
    BY <2>1, <2>2, <2>3, SeenGrows, TransportAssumption DEF CallTypeOK
  <2> QED BY <2>4, <1>2 DEF BudgetInv, LongestCall
<1>4. RepeatInv'
  <2>1. /\ Len(seen) = attempt
        /\ \A i \in 1..Len(seen) : Repeatable(seen[i])
    BY SeenGrows DEF RepeatInv
  <2>2. \A i \in 1..Len(seen') - 1 : Repeatable(seen[i])'
    BY <2>1, SeenGrows DEF Repeatable, CallTypeOK
  <2>3. Repeatable(answer)' <=> Repeatable(answer)
    BY SeenGrows DEF Repeatable
  <2>4. Repeatable(answer)' => Len(seen') = Retries + 1
    BY <2>1, <2>3, SeenGrows
  <2>5. LastAttemptDecides'
    <3>1. seen'[Len(seen')] = answer
      BY SeenGrows
    <3> QED BY <3>1, <2>2, <2>4, <1>2 DEF LastAttemptDecides, Decides
  <2> QED BY <2>5, <1>2 DEF RepeatInv
<1> QED BY <1>1, <1>3, <1>4

-----------------------------------------------------------------------------

LEMMA InitHolds == InitCall => CallInv
PROOF
<1> SUFFICES ASSUME InitCall PROVE CallInv
  OBVIOUS
<1>1. CallTypeOK
  BY TransportAssumption DEF InitCall, CallTypeOK, Results
<1>2. BudgetInv
  BY SpentGrows, TransportAssumption DEF InitCall, BudgetInv
<1>3. RepeatInv
  BY DEF InitCall, RepeatInv, LastAttemptDecides
<1> QED BY <1>1, <1>2, <1>3 DEF CallInv

\* RetryOrReturn of an answer that may be repeated.
LEMMA RetryOrReturnStep ==
    ASSUME CallInv, NEW ticks \in 0..Timeout, NEW answer \in Answers, AttemptEnds(ticks, answer),
           NEW value \in Results, RetryOrReturn(value),
           Repeatable(answer), Decides(value, answer)
    PROVE  CallInv'
PROOF
<1>1. CASE attempt < Retries
  <2>1. RetryAfter(0) /\ 0 \in 0..RetryAfterMax
    BY <1>1, TransportAssumption DEF RetryOrReturn
  <2> QED BY <2>1, <1>1, RepeatedStep
<1>2. CASE ~(attempt < Retries)
  <2>1. Return(value)
    BY <1>2 DEF RetryOrReturn
  <2>2. attempt = Retries
    BY <1>2, TransportAssumption DEF CallInv, CallTypeOK
  <2> QED BY <2>1, <2>2, LastStep
<1> QED BY <1>1, <1>2

LEMMA StepHolds == CallInv /\ [NextCall]_callVars => CallInv'
PROOF
<1> SUFFICES ASSUME CallInv, [NextCall]_callVars PROVE CallInv'
  OBVIOUS
<1>1. ASSUME NEW ticks \in 0..Timeout, AttemptFails(ticks) PROVE CallInv'
  <2>1. Failed \in Answers /\ TransportFailed \in Results
    BY DEF Answers, Results
  <2>2. Repeatable(Failed) /\ Decides(TransportFailed, Failed)
    BY DEF Failed, TransportFailed, Repeatable, Decides
  <2> QED BY <1>1, <2>1, <2>2, RetryOrReturnStep DEF AttemptFails
<1>2. ASSUME NEW ticks \in 0..Timeout, NEW header \in RetryAfters, Limited(ticks, header)
      PROVE  CallInv'
  <2> DEFINE answer == [status |-> "429", retryAfter |-> header]
             delay == ParseRetryAfter(header)
  <2>1. answer \in Answers /\ RateLimited(delay) \in Results
    <3>1. delay \in Int
      BY ParsedDelay, TransportAssumption DEF NoDelay
    <3>2. answer \in Answers
      BY DEF Answers
    <3> HIDE DEF delay
    <3>3. RateLimited(delay) \in Results
      BY <3>1 DEF Results, RateLimited
    <3> QED BY <3>2, <3>3
  <2>2. Repeatable(answer) /\ Decides(RateLimited(delay), answer)
    BY DEF RateLimited, Repeatable, Decides
  <2>3. AttemptEnds(ticks, answer)
    BY <1>2 DEF Limited
  <2>4. CASE attempt < Retries
    <3> DEFINE pause == IF delay = NoDelay THEN 0 ELSE delay
    <3>1. RetryAfter(pause)
      BY <1>2, <2>4 DEF Limited
    <3>2. pause \in 0..RetryAfterMax
      BY ParsedDelay, TransportAssumption DEF NoDelay
    <3> QED BY <3>1, <3>2, <2>1, <2>2, <2>3, <2>4, RepeatedStep
  <2>5. CASE ~(attempt < Retries)
    <3>1. Return(RateLimited(delay))
      BY <1>2, <2>5 DEF Limited
    <3>2. attempt = Retries
      BY <2>5, TransportAssumption DEF CallInv, CallTypeOK
    <3> QED BY <3>1, <3>2, <2>1, <2>2, <2>3, LastStep
  <2> QED BY <2>4, <2>5
<1>3. ASSUME NEW ticks \in 0..Timeout, NEW body \in Bodies, Succeeds(ticks, body) PROVE CallInv'
  <2> DEFINE answer == [status |-> "2xx", body |-> body]
  <2>1. answer \in Answers /\ Returned(answer) \in Results
    BY DEF Answers, Results, Returned
  <2>2. Decides(Returned(answer), answer)
    BY DEF Returned, Decides
  <2>3. AttemptEnds(ticks, answer)
    BY <1>3 DEF Succeeds
  <2>4. Repeatable(answer) <=> body \in isFailure
    BY DEF Repeatable
  <2>5. CASE body \in isFailure
    BY <1>3, <2>1, <2>2, <2>3, <2>4, <2>5, RetryOrReturnStep DEF Succeeds
  <2>6. CASE body \notin isFailure
    BY <1>3, <2>1, <2>2, <2>3, <2>4, <2>6, LastStep DEF Succeeds
  <2> QED BY <2>5, <2>6
<1>4. ASSUME NEW ticks \in 0..Timeout, Redirected(ticks) PROVE CallInv'
  <2> DEFINE answer == [status |-> "3xx"]
  <2>1. /\ answer \in Answers
        /\ Returned(answer) \in Results /\ StatusError("3xx") \in Results
    BY DEF Answers, Results, Returned, StatusError
  <2>2. AttemptEnds(ticks, answer)
    BY <1>4 DEF Redirected
  <2>3. CASE ManualRedirects
    <3>1. ~Repeatable(answer) /\ Decides(Returned(answer), answer)
      BY <2>3 DEF Repeatable, Returned, Decides
    <3> QED BY <1>4, <2>1, <2>2, <2>3, <3>1, LastStep DEF Redirected
  <2>4. CASE ~ManualRedirects
    <3>1. Repeatable(answer) /\ Decides(StatusError("3xx"), answer)
      BY <2>4 DEF Repeatable, StatusError, Decides
    <3> QED BY <1>4, <2>1, <2>2, <2>4, <3>1, RetryOrReturnStep DEF Redirected
  <2> QED BY <2>3, <2>4
<1>5. ASSUME NEW ticks \in 0..Timeout, Refused(ticks) PROVE CallInv'
  <2> DEFINE answer == [status |-> "4xx"]
  <2>1. answer \in Answers /\ StatusError("4xx") \in Results
    BY DEF Answers, Results, StatusError
  <2>2. ~Repeatable(answer) /\ Decides(StatusError("4xx"), answer)
    BY DEF Repeatable, StatusError, Decides
  <2> QED BY <1>5, <2>1, <2>2, LastStep DEF Refused
<1>6. ASSUME NEW ticks \in 0..Timeout, ServerFails(ticks) PROVE CallInv'
  <2> DEFINE answer == [status |-> "5xx"]
  <2>1. answer \in Answers /\ StatusError("5xx") \in Results
    BY DEF Answers, Results, StatusError
  <2>2. Repeatable(answer) /\ Decides(StatusError("5xx"), answer)
    BY DEF Repeatable, StatusError, Decides
  <2> QED BY <1>6, <2>1, <2>2, RetryOrReturnStep DEF ServerFails
<1>7. CASE Wakes
  <2>1. CallTypeOK'
    BY <1>7, TransportAssumption DEF CallInv, CallTypeOK, Wakes
  <2>2. BudgetInv'
    BY <1>7, TransportAssumption DEF CallInv, CallTypeOK, BudgetInv, Wakes, Spent
  <2>3. RepeatInv'
    BY <1>7 DEF CallInv, RepeatInv, LastAttemptDecides, Repeatable, Wakes
  <2> QED BY <2>1, <2>2, <2>3 DEF CallInv
<1>8. CASE UNCHANGED callVars
  BY <1>8 DEF callVars, CallInv, CallTypeOK, BudgetInv, RepeatInv, LastAttemptDecides, Repeatable,
              Spent, LongestCall
<1> QED BY <1>1, <1>2, <1>3, <1>4, <1>5, <1>6, <1>7, <1>8 DEF NextCall

LEMMA Invariant == CallSpec => []CallInv
PROOF BY InitHolds, StepHolds, PTL DEF CallSpec

\* Every variable of a call keeps its type.
THEOREM CallTypeCorrect == CallSpec => []CallTypeOK
PROOF BY Invariant, PTL DEF CallInv

\* A call with its retries and its delays stays within its budget: the deadline
\* of every attempt and the clamp of every delay add up to LongestCall.
THEOREM BudgetCorrect == CallSpec => []WithinBudget
PROOF
<1>1. CallInv => WithinBudget
  <2> SUFFICES ASSUME CallInv PROVE WithinBudget
    OBVIOUS
  <2>1. CASE at = "done"
    BY <2>1 DEF CallInv, BudgetInv, WithinBudget
  <2>2. CASE at # "done"
    <3>1. elapsed + wait <= Spent(attempt)
      BY <2>2 DEF CallInv, BudgetInv
    <3>2. Spent(attempt) + Timeout <= LongestCall /\ Spent(attempt) \in Nat
      BY CurrentAttempt DEF CallInv
    <3>3. LongestCall \in Nat
      BY TransportAssumption DEF LongestCall
    <3> QED BY <3>1, <3>2, <3>3, TransportAssumption DEF CallInv, CallTypeOK, WithinBudget
  <2> QED BY <2>1, <2>2
<1> QED BY <1>1, Invariant, PTL

\* The last attempt, and nothing before it, decides the result, and the request
\* is repeated exactly while an answer may still change.
THEOREM LastAttemptCorrect == CallSpec => []LastAttemptDecides
PROOF BY Invariant, PTL DEF CallInv, RepeatInv

-----------------------------------------------------------------------------
(* The store call *)


\* What a store call has returned is what it makes of the transport's result.
OutcomeInv ==
    /\ operation \in Operations
    /\ outcome # NoResult => at = "done" /\ outcome = Classify(operation, result)

StoreInv == CallInv /\ OutcomeInv

LEMMA StoreInit == Init => InitCall /\ OutcomeInv
PROOF BY DEF Init, OutcomeInv

\* A step of the call is a step of Transport, the answer a stuttering step.
LEMMA StoreStep == [Next]_storeVars => [NextCall]_callVars
PROOF BY DEF Next, Attempt, Answer, storeVars, callVars

\* Nothing changes a call that has returned.
LEMMA ReturnedStays ==
    ASSUME at = "done", [NextCall]_callVars
    PROVE  UNCHANGED <<at, result>>
PROOF
<1>1. ASSUME NextCall PROVE FALSE
  BY <1>1 DEF NextCall, AttemptFails, Limited, Succeeds, Redirected, Refused, ServerFails,
              AttemptEnds, Wakes
<1> QED BY <1>1 DEF callVars

LEMMA OutcomeStep == OutcomeInv /\ [Next]_storeVars => OutcomeInv'
PROOF
<1> SUFFICES ASSUME OutcomeInv, [Next]_storeVars PROVE OutcomeInv'
  OBVIOUS
<1>1. CASE Attempt
  <2>1. operation' = operation /\ outcome' = outcome
    BY <1>1 DEF Attempt
  <2>2. outcome # NoResult => UNCHANGED <<at, result>>
    BY StoreStep, ReturnedStays DEF OutcomeInv
  <2> QED BY <2>1, <2>2 DEF OutcomeInv
<1>2. CASE Answer
  BY <1>2 DEF Answer, OutcomeInv, callVars
<1>3. CASE UNCHANGED storeVars
  BY <1>3 DEF storeVars, OutcomeInv
<1> QED BY <1>1, <1>2, <1>3 DEF Next

LEMMA StoreInvariant == Spec => []StoreInv
PROOF
<1>1. Init => StoreInv
  BY StoreInit, InitHolds DEF StoreInv
<1>2. StoreInv /\ [Next]_storeVars => StoreInv'
  BY StoreStep, StepHolds, OutcomeStep DEF StoreInv
<1> QED BY <1>1, <1>2, PTL DEF Spec

\* The store call implements the call of module Transport.
THEOREM StoreRefinement == Spec => CallSpec
PROOF
<1>1. Init => InitCall
  BY StoreInit
<1> QED BY <1>1, StoreStep, PTL DEF Spec, CallSpec

\* A store call takes no longer than the budget of its attempts and delays.
THEOREM StoreBudget == Spec => []WithinBudget
PROOF BY StoreRefinement, BudgetCorrect, PTL

\* Only a successful answer is decoded: every other result is an error.
LEMMA DataIsRead ==
    ASSUME NEW op, NEW value, Classify(op, value).kind = "data"
    PROVE  /\ value.kind = "answer" /\ value.answer.status = "2xx"
           /\ Classify(op, value) = Read(op, value.answer.body)
PROOF BY DEF Classify, Limit, Unavailable

\* The decoders answer with data only for a readable body without a rotation
\* and without a server error, and degrade only a missing product node.
LEMMA ReadIsProven ==
    ASSUME NEW op \in Operations, NEW body, Read(op, body).kind = "data"
    PROVE  /\ body.json
           /\ op # "monthly" => ~ReportsRotation(body) /\ ~ReportsServerError(body)
           /\ op \notin Products => body.node = "ok"
PROOF
<1>1. /\ body.json
      /\ op # "monthly" => ~ReportsRotation(body) /\ ~ReportsServerError(body)
      /\ Decode(op, body).kind = "data"
  BY DEF Read, Unavailable, Rotated
<1>2. op \notin Products => body.node = "ok"
  BY <1>1 DEF Operations, Grids, Products, Decode, CategoryGrid, BrowsePage, SearchPage, GenreFacet,
              Monthly, Unavailable
<1> QED BY <1>1, <1>2

\* An outage, a rotation, a rate limit or drift never reads as data.
THEOREM OutageCorrect == Spec => []OutageIsNotData
PROOF
<1>1. StoreInv => OutageIsNotData
  <2> SUFFICES ASSUME StoreInv, outcome.kind = "data" PROVE OutageIsNotData
    BY DEF OutageIsNotData
  <2>1. outcome # NoResult
    BY DEF NoResult
  <2>2. at = "done" /\ outcome = Classify(operation, result)
    BY <2>1 DEF StoreInv, OutcomeInv
  <2>3. result.kind = "answer" /\ result.answer.status = "2xx"
        /\ outcome = Read(operation, result.answer.body)
    BY <2>2, DataIsRead
  <2>4. result.answer = seen[Len(seen)]
    BY <2>2, <2>3 DEF StoreInv, CallInv, RepeatInv, LastAttemptDecides
  <2>5. result.answer.body = LastBody
    BY <2>4 DEF LastBody
  <2>6. /\ LastBody.json
        /\ operation # "monthly" => ~ReportsRotation(LastBody) /\ ~ReportsServerError(LastBody)
        /\ operation \notin Products => LastBody.node = "ok"
    BY <2>3, <2>5, ReadIsProven DEF StoreInv, OutcomeInv
  <2>7. Proven
    BY <2>3, <2>4, <2>6 DEF Proven, ReportsServerError
  <2>8. HttpStatus(outcome) = 200
    BY DEF HttpStatus
  <2> QED BY <2>6, <2>7, <2>8 DEF OutageIsNotData
<1> QED BY <1>1, StoreInvariant, PTL

-----------------------------------------------------------------------------
(* Partial answers *)

\* The predicate that an operation hands to the transport.
PredicateInv ==
    isFailure = IF operation = "monthly" THEN {} ELSE {b \in Bodies : ReportsServerError(b)}

LEMMA PredicateInvariant == Spec => []PredicateInv
PROOF
<1>1. Init => PredicateInv
  BY DEF Init, PredicateInv
<1>2. [Next]_storeVars => UNCHANGED <<isFailure, operation>>
  BY DEF Next, Attempt, Answer, NextCall, AttemptFails, Limited, Succeeds, Redirected, Refused,
         ServerFails, AttemptEnds, Wakes, storeVars, callVars
<1>3. PredicateInv /\ [Next]_storeVars => PredicateInv'
  BY <1>2 DEF PredicateInv
<1> QED BY <1>1, <1>3, PTL DEF Spec

\* An answer whose node has data next to whatever errors.
Partial(answer) ==
    /\ answer.status = "2xx" /\ answer.body.json
    /\ answer.body.node = "ok" /\ answer.body.kept > 0
    /\ ~ReportsRotation(answer.body)

\* A partial answer is not one to repeat.
LEMMA PartialIsFinal ==
    ASSUME PredicateInv, NEW answer, Partial(answer)
    PROVE  ~Repeatable(answer)
PROOF BY DEF PredicateInv, Partial, Repeatable, ReportsServerError

\* Every decoder keeps the elements of a partial answer.
LEMMA PartialIsRead ==
    ASSUME NEW op \in Grids \cup Products, NEW answer, Partial(answer)
    PROVE  Read(op, answer.body) = Data(answer.body.kept)
PROOF
<1>1. Read(op, answer.body) = Decode(op, answer.body)
  BY DEF Partial, Read, ReportsServerError
<1>2. Decode(op, answer.body) = Data(answer.body.kept)
  BY DEF Partial, Grids, Products, Decode, CategoryGrid, BrowsePage, SearchPage, GenreFacet,
         ProductDetail, ProductPrice
<1> QED BY <1>1, <1>2

\* A partial answer ends its call and is what the call returns.
THEOREM PartialCorrect == Spec => []PartialAnswerIsKept
PROOF
<1>1. StoreInv /\ PredicateInv => PartialAnswerIsKept
  <2> SUFFICES ASSUME StoreInv, PredicateInv, NEW i \in 1..Len(seen), Partial(seen[i]),
                      operation \in Grids \cup Products
               PROVE  /\ i = Len(seen)
                      /\ outcome # NoResult => outcome = Data(seen[i].body.kept)
    BY DEF PartialAnswerIsKept, Partial
  <2>1. ~Repeatable(seen[i])
    BY PartialIsFinal
  <2>2. at = "done"
    BY <2>1 DEF StoreInv, CallInv, RepeatInv
  <2>3. Len(seen) \in Nat
    BY DEF StoreInv, CallInv, CallTypeOK
  <2>4. i = Len(seen)
    <3>1. \A j \in 1..Len(seen) - 1 : Repeatable(seen[j])
      BY <2>2 DEF StoreInv, CallInv, RepeatInv, LastAttemptDecides
    <3>2. i \notin 1..Len(seen) - 1
      BY <2>1, <3>1
    <3> QED BY <2>3, <3>2
  <2>5. result.kind = "answer" /\ result.answer = seen[i]
    BY <2>2, <2>4 DEF StoreInv, CallInv, RepeatInv, LastAttemptDecides, Partial
  <2>6. Classify(operation, result) = Data(seen[i].body.kept)
    BY <2>5, PartialIsRead DEF Classify, Partial
  <2> QED BY <2>4, <2>6 DEF StoreInv, OutcomeInv
<1> QED BY <1>1, StoreInvariant, PredicateInvariant, PTL

=============================================================================
