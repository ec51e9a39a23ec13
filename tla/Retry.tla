--------------------------------- MODULE Retry ---------------------------------
(***************************************************************************)
(* internal/retry under the loop of Runner.Run: when a failed attempt is   *)
(* tried again, how long the process waits first, and what Retry-After     *)
(* headers do to the wait.  Durations are integers of a fixed width, as   *)
(* time.Duration is; the doubling loop of Delay is taken step by step.     *)
(***************************************************************************)
EXTENDS Integers

CONSTANTS
  PolicyAttempts, PolicyInitial, PolicyMax,     \* the fields of Policy, as given
  DefaultAttempts, DefaultInitial, DefaultMax,  \* the defaults of the package
  Second,     \* time.Second
  Half,       \* durations are -Half .. Half - 1 (2^63 in the code)
  Headers,    \* Retry-After values, in seconds, that servers send; 0 for none
  Millis      \* Retry-After-Ms values, as durations; NoMillis for none

\* Retry-After-Ms is absent, not a number or not positive.
NoMillis == -1

ASSUME RetryAssumption ==
  /\ PolicyAttempts \in Int /\ PolicyInitial \in Int /\ PolicyMax \in Int
  /\ DefaultAttempts \in Nat \ {0}
  /\ DefaultInitial \in Nat \ {0}
  /\ DefaultMax \in Nat \ {0}
  /\ Second \in Nat \ {0}
  /\ Half \in Nat \ {0}
  /\ PolicyInitial < Half /\ PolicyMax < Half /\ DefaultInitial < Half /\ DefaultMax < Half
  /\ Headers \subseteq Int /\ 0 \in Headers
  /\ Millis \subseteq NoMillis .. Half - 1 /\ NoMillis \in Millis

\* normalized(): the policy in force.
MaxAttempts == IF PolicyAttempts <= 0 THEN DefaultAttempts ELSE PolicyAttempts
InitialDelay == IF PolicyInitial <= 0 THEN DefaultInitial ELSE PolicyInitial
MaxDelay ==
  LET max == IF PolicyMax <= 0 THEN DefaultMax ELSE PolicyMax
  IN IF max < InitialDelay THEN InitialDelay ELSE max

Larger(x, y)  == IF x > y THEN x ELSE y
Smaller(x, y) == IF x < y THEN x ELSE y

\* int64 arithmetic: a result outside the range comes back from the other end.
Wrap(x) == IF x \in -Half .. Half - 1 THEN x ELSE ((x + Half) % (2 * Half)) - Half

\* ParseRetryAfter for a number of seconds; 0 stands for no header.
ParseRetryAfter(seconds) == IF seconds < 0 THEN 0 ELSE Wrap(seconds * Second)

\* The Cloudflare client asks Retry-After-Ms first; a positive number prevails
\* over Retry-After, even one so small that nothing of it is left.
retryAfterFromResponse(ms, seconds) ==
  IF ms = NoMillis THEN ParseRetryAfter(seconds) ELSE ms

\* What these headers ask for, in unbounded arithmetic.
AskedFor(ms, seconds) == IF ms = NoMillis THEN Larger(seconds, 0) * Second ELSE ms

\* Mark: a negative delay counts as none.
Mark(retryAfter) == Larger(retryAfter, 0)

VARIABLES
  attempt,   \* the attempt counter of Run
  phase,     \* "attempt", "doubling", "sleep" or "done"
  step,      \* currentAttempt of the loop in Delay
  delay,     \* delay of Delay: the backoff without jitter
  after,     \* the retryAfter that the error carries
  wait,      \* what Delay returned last
  ctx,       \* the run's context: "live" or "done"
  asked,     \* the delay that the server really asked for (history)
  total      \* all waits of the run so far (history)

vars == <<attempt, phase, step, delay, after, wait, ctx, asked, total>>

TypeOK ==
  /\ attempt \in 1..MaxAttempts
  /\ phase \in {"attempt", "doubling", "sleep", "done"}
  /\ step \in 1..MaxAttempts
  /\ delay \in 0..MaxDelay
  /\ after \in 0 .. Half - 1
  /\ wait \in 0..MaxDelay
  /\ ctx \in {"live", "done"}
  /\ asked \in Nat
  /\ total \in Nat

Init ==
  /\ attempt = 1
  /\ phase = "attempt"
  /\ step = 1
  /\ delay = 0
  /\ after = 0
  /\ wait = 0
  /\ ctx = "live"
  /\ asked = 0
  /\ total = 0

\* The attempt succeeds, or fails with an error that nobody marked retryable.
Ends ==
  /\ phase = "attempt"
  /\ phase' = "done"
  /\ UNCHANGED <<attempt, step, delay, after, wait, ctx, asked, total>>

\* A slip: the last attempt is retried as well.
CanRetryOnceMore(n) == n <= MaxAttempts

CanRetry(n) == n < MaxAttempts

\* The attempt fails with a retryable error: CanRetry, then the head of Delay.
Fails(ms, seconds) ==
  /\ phase = "attempt"
  /\ IF CanRetry(attempt)
     THEN /\ phase' = "doubling"
          /\ step' = 1
          /\ delay' = InitialDelay
          /\ after' = Mark(retryAfterFromResponse(ms, seconds))
          /\ asked' = AskedFor(ms, seconds)
          /\ UNCHANGED <<attempt, wait, ctx, total>>
     ELSE /\ phase' = "done"
          /\ UNCHANGED <<attempt, step, delay, after, wait, ctx, asked, total>>

\* Slips: the loop is not left at MaxDelay; it stops one doubling early.
DoublesForever ==
  /\ phase = "doubling"
  /\ step < attempt
  /\ IF delay >= MaxDelay \div 2
     THEN delay' = MaxDelay /\ UNCHANGED step
     ELSE delay' = Wrap(delay * 2) /\ step' = step + 1
  /\ UNCHANGED <<attempt, phase, after, wait, ctx, asked, total>>

DoublesBriefly ==
  /\ phase = "doubling"
  /\ step < attempt
  /\ IF delay >= MaxDelay \div 4
     THEN delay' = MaxDelay /\ step' = attempt
     ELSE delay' = Wrap(delay * 2) /\ step' = step + 1
  /\ UNCHANGED <<attempt, phase, after, wait, ctx, asked, total>>

\* One iteration of the loop in Delay.
Doubles ==
  /\ phase = "doubling"
  /\ step < attempt
  /\ IF delay >= MaxDelay \div 2
     THEN delay' = MaxDelay /\ step' = attempt
     ELSE delay' = Wrap(delay * 2) /\ step' = step + 1
  /\ UNCHANGED <<attempt, phase, after, wait, ctx, asked, total>>

\* Slips: MaxDelay does not bound Retry-After; Retry-After is not looked at.
BoundedUncapped(jittered) == Larger(Smaller(jittered, MaxDelay), after)
BoundedOfJitter(jittered) == Smaller(jittered, MaxDelay)

\* The tail of Delay: Retry-After prevails over a shorter wait, MaxDelay over both.
Bounded(jittered) == Smaller(Larger(jittered, after), MaxDelay)

\* A slip: full jitter, which may leave nothing of the delay.
JittersFully ==
  /\ phase = "doubling"
  /\ step = attempt
  /\ \E jittered \in 0 .. delay :
       /\ wait' = Bounded(jittered)
       /\ total' = total + Bounded(jittered)
  /\ phase' = "sleep"
  /\ UNCHANGED <<attempt, step, delay, after, ctx, asked>>

\* The jitter multiplies by 0.5 .. 1 and truncates.
Jitters ==
  /\ phase = "doubling"
  /\ step = attempt
  /\ \E jittered \in (delay \div 2) .. delay :
       /\ wait' = Bounded(jittered)
       /\ total' = total + Bounded(jittered)
  /\ phase' = "sleep"
  /\ UNCHANGED <<attempt, step, delay, after, ctx, asked>>

\* The timer fires.  sleep returns at once when there is nothing to wait for,
\* and select may prefer the timer even if the context is done.
Wakes ==
  /\ phase = "sleep"
  /\ attempt' = attempt + 1
  /\ phase' = "attempt"
  /\ UNCHANGED <<step, delay, after, wait, ctx, asked, total>>

\* The context ends the wait, and the run.
WaitAborted ==
  /\ phase = "sleep"
  /\ wait > 0
  /\ ctx = "done"
  /\ phase' = "done"
  /\ UNCHANGED <<attempt, step, delay, after, wait, ctx, asked, total>>

Cancel ==
  /\ phase # "done"
  /\ ctx = "live"
  /\ ctx' = "done"
  /\ UNCHANGED <<attempt, phase, step, delay, after, wait, asked, total>>

Next ==
  \/ Ends
  \/ \E ms \in Millis, seconds \in Headers : Fails(ms, seconds)
  \/ Doubles
  \/ Jitters
  \/ Wakes
  \/ WaitAborted
  \/ Cancel

Spec == Init /\ [][Next]_vars

FairSpec == Spec /\ WF_vars(Ends \/ Doubles \/ Jitters \/ Wakes)

-----------------------------------------------------------------------------
\* The whole run waits a bounded time, however many servers ask for however
\* much: MaxDelay for each retry, and no retry after MaxAttempts.
TotalBounded ==
  /\ wait <= MaxDelay
  /\ total <= (MaxAttempts - 1) * MaxDelay

\* The first delay doubled n times, in unbounded arithmetic.
Doubled[n \in Nat] == IF n = 0 THEN InitialDelay ELSE 2 * Doubled[n - 1]

\* The backoff doubles until it reaches MaxDelay, and neither overflows nor
\* goes past it.  (From an odd MaxDelay it may arrive one unit early.)
BackoffDoubles ==
  phase = "doubling" =>
    IF delay < MaxDelay
    THEN delay = Doubled[step - 1]
    ELSE delay = MaxDelay /\ MaxDelay <= Doubled[attempt - 1] + 1

\* README, Retry-After is honored: a wait is not shorter than what the server
\* asked for, unless MaxDelay cuts it.
RetryAfterHonored == phase = "sleep" => wait >= Smaller(asked, MaxDelay)

\* The process never retries without a pause, so a done context can stop it
\* (sleep looks at the context only when there is something to wait for).
NeverHot == phase = "sleep" => wait > 0

\* Every run ends.
RunEnds == <>(phase = "done")
=============================================================================
