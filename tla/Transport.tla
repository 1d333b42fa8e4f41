------------------------------ MODULE Transport ------------------------------
(***************************************************************************)
(* One outbound call with a deadline per attempt and a bounded retry:       *)
(* sources/transport.rs.  The service at the other end is the environment:  *)
(* it answers every attempt as it likes, slowly or not at all.              *)
(*                                                                          *)
(* Time is counted in ticks from the start of the call.  It covers the      *)
(* attempts and the delays between them; the time the program itself takes  *)
(* between two awaits is not counted.                                       *)
(***************************************************************************)
EXTENDS Integers, Sequences

CONSTANTS
    Timeout,         \* Attempts.timeout, the deadline of one attempt
    Retries,         \* Attempts.retries, the attempts after the first one
    RetryAfterMax,   \* Attempts.retry_after_max
    Second,          \* ticks of one second, the unit of a Retry-After header
    ManualRedirects, \* redirects = Redirects::Manual
    Bodies,          \* the bodies of a successful answer
    RetryAfters      \* delta-seconds of Retry-After headers; negative: absent or unusable

ASSUME TransportAssumption ==
    /\ Timeout \in Nat \ {0} /\ Retries \in Nat /\ RetryAfterMax \in Nat /\ Second \in Nat \ {0}
    /\ ManualRedirects \in BOOLEAN
    /\ RetryAfters \subseteq Int

VARIABLES
    isFailure,  \* the bodies for which the caller's is_failure is true
    attempt,    \* attempts that have ended and were not the last one
    at,         \* "sending", "sleeping" or "done"
    wait,       \* the delay before the next attempt
    elapsed,    \* ticks since the call began
    seen,       \* history: the end of every attempt, in order
    result      \* what send_retrying returned

callVars == <<isFailure, attempt, at, wait, elapsed, seen, result>>

\* How one attempt can end: without an answer, or with one of a status class.
Failed == [status |-> "failed"]
Answers ==
    {Failed}
        \cup [status : {"2xx"}, body : Bodies]
        \cup [status : {"429"}, retryAfter : RetryAfters]
        \cup [status : {"3xx", "4xx", "5xx"}]

\* Options and durations: NoDelay is `None`.
NoDelay == -1
Shorter(a, b) == IF a < b THEN a ELSE b

\* parse_retry_after: only whole, non-negative seconds count, clamped.
ParseRetryAfterUnclamped(header) == IF header < 0 THEN NoDelay ELSE header * Second
ParseRetryAfter(header) == IF header < 0 THEN NoDelay ELSE Shorter(header * Second, RetryAfterMax)

NoResult == [kind |-> "none"]
Returned(answer) == [kind |-> "answer", answer |-> answer]
RateLimited(delay) == [kind |-> "rate limited", retryAfter |-> delay]
StatusError(status) == [kind |-> "status", status |-> status]
TransportFailed == [kind |-> "failed"]

Results ==
    {NoResult, TransportFailed}
        \cup [kind : {"answer"}, answer : Answers]
        \cup [kind : {"rate limited"}, retryAfter : Int]
        \cup [kind : {"status"}, status : {"3xx", "4xx", "5xx"}]

-----------------------------------------------------------------------------

InitCall ==
    /\ isFailure \in SUBSET Bodies
    /\ attempt = 0 /\ wait = 0 /\ elapsed = 0
    /\ at = "sending"
    /\ seen = <<>>
    /\ result = NoResult

\* The attempt ends after `ticks` with `answer`.
AttemptEnds(ticks, answer) ==
    /\ at = "sending"
    /\ elapsed' = elapsed + ticks
    /\ seen' = Append(seen, answer)
    /\ UNCHANGED isFailure

Return(value) ==
    /\ at' = "done"
    /\ result' = value
    /\ UNCHANGED <<attempt, wait>>

\* Another attempt, after `delay`.
RetryAfter(delay) ==
    /\ attempt' = attempt + 1
    /\ wait' = delay
    /\ at' = IF delay > 0 THEN "sleeping" ELSE "sending"
    /\ UNCHANGED result

\* The retries that the loop guard bounds: its end returns `last`.
RetryOrReturn(last) == IF attempt < Retries THEN RetryAfter(0) ELSE Return(last)

\* A timeout, a connection failure, or a body that is unreadable or too large.
AttemptFails(ticks) == AttemptEnds(ticks, Failed) /\ RetryOrReturn(TransportFailed)

Limited(ticks, header) ==
    /\ AttemptEnds(ticks, [status |-> "429", retryAfter |-> header])
    /\ LET delay == ParseRetryAfter(header) IN
       IF attempt < Retries THEN RetryAfter(IF delay = NoDelay THEN 0 ELSE delay) ELSE Return(RateLimited(delay))

\* A 2xx answer is returned, unless it reports a failure and a retry is left.
Succeeds(ticks, body) ==
    LET answer == [status |-> "2xx", body |-> body] IN
    /\ AttemptEnds(ticks, answer)
    /\ IF body \in isFailure THEN RetryOrReturn(Returned(answer)) ELSE Return(Returned(answer))

\* A 3xx answer is the caller's when redirects are manual: the one adapter with
\* manual redirects passes no is_failure.
Redirected(ticks) ==
    LET answer == [status |-> "3xx"] IN
    /\ AttemptEnds(ticks, answer)
    /\ IF ManualRedirects THEN Return(Returned(answer)) ELSE RetryOrReturn(StatusError("3xx"))

RefusedRetried(ticks) ==
    AttemptEnds(ticks, [status |-> "4xx"]) /\ RetryOrReturn(StatusError("4xx"))
Refused(ticks) == AttemptEnds(ticks, [status |-> "4xx"]) /\ Return(StatusError("4xx"))

ServerFails(ticks) == AttemptEnds(ticks, [status |-> "5xx"]) /\ RetryOrReturn(StatusError("5xx"))

Wakes ==
    /\ at = "sleeping"
    /\ at' = "sending"
    /\ elapsed' = elapsed + wait
    /\ wait' = 0
    /\ UNCHANGED <<isFailure, attempt, seen, result>>

NextCall ==
    \/ \E ticks \in 0..Timeout :
          \/ AttemptFails(ticks)
          \/ \E header \in RetryAfters : Limited(ticks, header)
          \/ \E body \in Bodies : Succeeds(ticks, body)
          \/ Redirected(ticks)
          \/ Refused(ticks)
          \/ ServerFails(ticks)
    \/ Wakes

CallSpec == InitCall /\ [][NextCall]_callVars

-----------------------------------------------------------------------------
(* Properties *)

\* The type invariant of one call.
CallTypeOK ==
    /\ isFailure \in SUBSET Bodies
    /\ attempt \in 0..Retries
    /\ at \in {"sending", "sleeping", "done"}
    /\ wait \in 0..RetryAfterMax
    /\ elapsed \in Nat
    /\ seen \in Seq(Answers)
    /\ result \in Results

\* The longest that a call can take.
LongestCall == (Retries + 1) * Timeout + Retries * RetryAfterMax

\* Whatever the service answers and however slowly, a call with its retries
\* and its Retry-After delays never takes longer than its budget: no header
\* can stall an interactive request.
WithinBudget == elapsed <= LongestCall

\* What a repetition of the request may change.
Repeatable(answer) ==
    \/ answer.status \in {"failed", "429", "5xx"}
    \/ answer.status = "3xx" /\ ~ManualRedirects
    \/ answer.status = "2xx" /\ answer.body \in isFailure

\* send returns the answer or the error of its last attempt, never an earlier
\* one.  It repeats the request exactly while an answer may still change and
\* the budget allows, so a definitive answer is never overwritten and a
\* transient failure is never final while a retry is left.
LastAttemptDecides ==
    at = "done" =>
        LET last == seen[Len(seen)] IN
        /\ \A i \in 1..Len(seen) - 1 : Repeatable(seen[i])
        /\ Repeatable(last) => Len(seen) = Retries + 1
        /\ result.kind = "answer" => result.answer = last
        /\ result.kind = "answer" <=> \/ last.status = "2xx"
                                      \/ last.status = "3xx" /\ ManualRedirects
        /\ result.kind = "rate limited" <=> last.status = "429"
        /\ result.kind = "status" => result.status = last.status
        /\ result.kind = "failed" <=> last.status = "failed"
=============================================================================
