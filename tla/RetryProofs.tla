------------------------------ MODULE RetryProofs ------------------------------
(***************************************************************************)
(* Retry for every policy, every clock unit and every set of Retry-After   *)
(* headers.  The induction needs more than the properties say: between     *)
(* CanRetry and the next attempt the attempt counter is below MaxAttempts, *)
(* and the waits so far are paid for by the retries so far.                *)
(***************************************************************************)
EXTENDS Retry, WellFoundedInduction, TLAPS

\* normalized() returns a usable policy whatever it is given.
LEMMA NormalizedPolicy ==
  /\ MaxAttempts \in Nat \ {0}
  /\ InitialDelay \in Nat \ {0}
  /\ MaxDelay \in Nat \ {0}
  /\ InitialDelay <= MaxDelay /\ MaxDelay < Half
BY RetryAssumption DEF MaxAttempts, InitialDelay, MaxDelay

LEMMA WrapRange ==
  ASSUME NEW x \in Int
  PROVE  Wrap(x) \in -Half .. Half - 1
<1>1. Half \in Nat \ {0}
  BY RetryAssumption
<1>2. CASE x \in -Half .. Half - 1
  BY <1>2 DEF Wrap
<1>3. CASE x \notin -Half .. Half - 1
  <2>1. (x + Half) % (2 * Half) \in 0 .. 2 * Half - 1
    BY <1>1
  <2>2. Wrap(x) = ((x + Half) % (2 * Half)) - Half
    BY <1>3 DEF Wrap
  <2> QED BY <1>1, <2>1, <2>2
<1> QED BY <1>2, <1>3

\* What Retry-After leaves in an error is never negative and always fits.
LEMMA MarkRange ==
  ASSUME NEW ms \in Millis, NEW seconds \in Int
  PROVE  Mark(retryAfterFromResponse(ms, seconds)) \in 0 .. Half - 1
<1>1. Half \in Nat \ {0} /\ Second \in Nat
  BY RetryAssumption
<1>2. ParseRetryAfter(seconds) \in -Half .. Half - 1
  <2>1. seconds * Second \in Int
    BY <1>1
  <2>2. Wrap(seconds * Second) \in -Half .. Half - 1
    BY <2>1, WrapRange
  <2> QED BY <1>1, <2>2 DEF ParseRetryAfter
<1>3. ms \in NoMillis .. Half - 1
  BY RetryAssumption
<1>4. retryAfterFromResponse(ms, seconds) \in -Half .. Half - 1
  BY <1>1, <1>2, <1>3 DEF retryAfterFromResponse, NoMillis
<1> QED BY <1>1, <1>4 DEF Mark, Larger

\* A wait is a number between nothing and MaxDelay, not below the header
\* unless MaxDelay is.
LEMMA BoundedRange ==
  ASSUME NEW jittered \in Nat, after \in Nat
  PROVE  /\ Bounded(jittered) \in 0..MaxDelay
         /\ Bounded(jittered) >= Smaller(after, MaxDelay)
BY NormalizedPolicy DEF Bounded, Larger, Smaller

\* How many waits the run has had at most.
Paid ==
  CASE phase = "sleep" -> attempt
    [] phase = "done"  -> MaxAttempts - 1
    [] OTHER           -> attempt - 1

IInv ==
  /\ TypeOK
  /\ phase = "doubling" => step <= attempt /\ attempt < MaxAttempts
  /\ phase = "sleep" => attempt < MaxAttempts
  /\ total <= Paid * MaxDelay

LEMMA InitIInv == Init => IInv
BY NormalizedPolicy, RetryAssumption DEF Init, IInv, TypeOK, Paid

\* One more attempt, one more MaxDelay; fewer attempts, less waiting.
LEMMA OneMoreWait ==
  ASSUME NEW n \in Nat, NEW m \in Nat
  PROVE  (n - 1) * m + m = n * m
OBVIOUS

LEMMA FewerWaits ==
  ASSUME NEW n \in Nat, NEW k \in Nat, NEW m \in Nat, n <= k
  PROVE  n * m <= k * m
<1>1. PICK j \in Nat : k = n + j
  <2>1. k - n \in Nat /\ k = n + (k - n)
    OBVIOUS
  <2> QED BY <2>1
<1>2. k * m = n * m + j * m
  BY <1>1
<1>3. n * m \in Nat /\ j * m \in Nat
  OBVIOUS
<1> QED BY <1>2, <1>3

LEMMA NextIInv == IInv /\ [Next]_vars => IInv'
<1> SUFFICES ASSUME IInv, [Next]_vars PROVE IInv'
  OBVIOUS
<1> USE NormalizedPolicy
<1>0. TypeOK /\ total <= Paid * MaxDelay
  BY DEF IInv
<1>1. CASE Ends
  <2>1. (attempt - 1) * MaxDelay <= (MaxAttempts - 1) * MaxDelay
    BY <1>0, FewerWaits DEF TypeOK
  <2>2. total <= (attempt - 1) * MaxDelay
    BY <1>0, <1>1 DEF Ends, Paid
  <2>3. TypeOK'
    BY <1>0, <1>1 DEF Ends, TypeOK
  <2>4. Paid' = MaxAttempts - 1 /\ total' = total /\ phase' = "done"
    BY <1>1 DEF Ends, Paid
  <2>5. total \in Nat /\ (attempt - 1) * MaxDelay \in Int /\ (MaxAttempts - 1) * MaxDelay \in Int
    BY <1>0 DEF TypeOK
  <2>6. total' <= (Paid * MaxDelay)'
    BY <2>1, <2>2, <2>4, <2>5 DEF MaxDelay, InitialDelay
  <2> QED BY <2>3, <2>4, <2>6 DEF IInv
<1>2. ASSUME NEW ms \in Millis, NEW seconds \in Headers, Fails(ms, seconds) PROVE IInv'
  <2>1. CASE CanRetry(attempt)
    <3>1. Mark(retryAfterFromResponse(ms, seconds)) \in 0 .. Half - 1
      BY MarkRange, RetryAssumption
    <3>2. AskedFor(ms, seconds) \in Nat
      <4>1. Larger(seconds, 0) * Second \in Nat
        BY RetryAssumption DEF Larger
      <4>2. ms \in NoMillis .. Half - 1 /\ Half \in Nat
        BY RetryAssumption
      <4> QED BY <4>1, <4>2 DEF AskedFor, NoMillis
    <3>3. TypeOK'
      BY <1>0, <1>2, <2>1, <3>1, <3>2 DEF Fails, TypeOK
    <3>4. step' <= attempt' /\ attempt' < MaxAttempts /\ phase' = "doubling"
      BY <1>0, <1>2, <2>1 DEF Fails, TypeOK, CanRetry
    <3>5. Paid' = Paid /\ total' = total
      BY <1>2, <2>1 DEF Fails, Paid
    <3> QED BY <1>0, <3>3, <3>4, <3>5 DEF IInv
  <2>2. CASE ~ CanRetry(attempt)
    <3>1. attempt = MaxAttempts
      BY <1>0, <2>2 DEF CanRetry, TypeOK
    <3>2. TypeOK'
      BY <1>0, <1>2, <2>2 DEF Fails, TypeOK
    <3>3. Paid' = Paid /\ total' = total /\ phase' = "done"
      BY <1>2, <2>2, <3>1 DEF Fails, Paid
    <3> QED BY <1>0, <3>2, <3>3 DEF IInv
  <2> QED BY <2>1, <2>2
<1>3. CASE Doubles
  <2>1. delay' \in 0..MaxDelay /\ step' \in 1..attempt
    <3>1. CASE delay >= MaxDelay \div 2
      BY <1>0, <1>3, <3>1 DEF Doubles, TypeOK
    <3>2. CASE ~ (delay >= MaxDelay \div 2)
      <4>1. delay * 2 \in 0..MaxDelay
        BY <1>0, <3>2 DEF TypeOK
      <4>2. Wrap(delay * 2) = delay * 2
        BY <4>1, RetryAssumption DEF Wrap
      <4> QED BY <1>0, <1>3, <3>2, <4>1, <4>2 DEF Doubles, TypeOK
    <3> QED BY <3>1, <3>2
  <2>2. TypeOK'
    BY <1>0, <1>3, <2>1 DEF Doubles, TypeOK
  <2>3. Paid' = Paid /\ total' = total /\ attempt' = attempt /\ phase' = phase /\ phase = "doubling"
    BY <1>3 DEF Doubles, Paid
  <2> QED BY <1>0, <2>1, <2>2, <2>3 DEF IInv, TypeOK
<1>4. CASE Jitters
  <2>1. PICK jittered \in (delay \div 2) .. delay :
          wait' = Bounded(jittered) /\ total' = total + Bounded(jittered)
    BY <1>4 DEF Jitters
  <2>2. Bounded(jittered) \in 0..MaxDelay
    BY <1>0, BoundedRange DEF TypeOK
  <2>3. TypeOK'
    BY <1>0, <1>4, <2>1, <2>2 DEF Jitters, TypeOK
  <2>4. Paid = attempt - 1 /\ Paid' = attempt
    BY <1>4 DEF Jitters, Paid
  <2>5. (attempt - 1) * MaxDelay + MaxDelay = attempt * MaxDelay
    BY <1>0, OneMoreWait DEF TypeOK
  <2>6. total' <= Paid' * MaxDelay
    BY <1>0, <2>1, <2>2, <2>4, <2>5 DEF TypeOK
  <2>7. attempt' < MaxAttempts /\ phase' = "sleep"
    BY <1>4 DEF Jitters, IInv
  <2> QED BY <2>3, <2>6, <2>7 DEF IInv
<1>5. CASE Wakes
  <2>1. attempt < MaxAttempts /\ phase' = "attempt" /\ attempt' = attempt + 1
    BY <1>5 DEF Wakes, IInv
  <2>2. TypeOK'
    BY <1>0, <1>5, <2>1 DEF Wakes, TypeOK
  <2>3. Paid' = Paid /\ total' = total
    BY <1>0, <1>5 DEF Wakes, Paid, TypeOK
  <2> QED BY <1>0, <2>1, <2>2, <2>3 DEF IInv
<1>6. CASE WaitAborted
  <2>1. attempt <= MaxAttempts - 1 /\ phase' = "done"
    BY <1>0, <1>6 DEF WaitAborted, IInv, TypeOK
  <2>2. attempt * MaxDelay <= (MaxAttempts - 1) * MaxDelay
    BY <1>0, <2>1, FewerWaits DEF TypeOK
  <2>3. total <= attempt * MaxDelay
    BY <1>0, <1>6 DEF WaitAborted, Paid
  <2>4. TypeOK'
    BY <1>0, <1>6 DEF WaitAborted, TypeOK
  <2>5. Paid' = MaxAttempts - 1 /\ total' = total
    BY <1>6 DEF WaitAborted, Paid
  <2>6. total' <= Paid' * MaxDelay
    BY <1>0, <2>2, <2>3, <2>5 DEF TypeOK
  <2> QED BY <2>1, <2>4, <2>6 DEF IInv
<1>7. CASE Cancel
  <2>1. TypeOK'
    BY <1>0, <1>7 DEF Cancel, TypeOK
  <2> QED BY <1>7, <2>1 DEF Cancel, IInv, Paid
<1>8. CASE UNCHANGED vars
  BY <1>8 DEF vars, IInv, TypeOK, Paid
<1> QED BY <1>1, <1>2, <1>3, <1>4, <1>5, <1>6, <1>7, <1>8 DEF Next

LEMMA IInvTotalBounded == IInv => TotalBounded
<1> SUFFICES ASSUME IInv PROVE TotalBounded
  OBVIOUS
<1>1. TypeOK /\ total <= Paid * MaxDelay
  BY DEF IInv
<1>2. Paid \in Nat /\ Paid <= MaxAttempts - 1
  BY <1>1, NormalizedPolicy DEF IInv, TypeOK, Paid
<1>3. Paid * MaxDelay <= (MaxAttempts - 1) * MaxDelay
  BY <1>2, NormalizedPolicy, FewerWaits
<1> QED BY <1>1, <1>2, <1>3, NormalizedPolicy DEF TotalBounded, TypeOK

\* Whatever the policy and whatever the servers ask for, every variable of the
\* retry loop keeps its type: in particular no delay leaves 0..MaxDelay, and
\* the doubling does not overflow.
THEOREM TypeCorrect == Spec => []TypeOK
<1>1. IInv => TypeOK
  BY DEF IInv
<1> QED BY InitIInv, NextIInv, <1>1, PTL DEF Spec

\* A run waits at most MaxDelay for each of at most MaxAttempts - 1 retries.
THEOREM WaitsAreBounded == Spec => []TotalBounded
BY InitIInv, NextIInv, IInvTotalBounded, PTL DEF Spec

-----------------------------------------------------------------------------
(* Retry-After is honored exactly where the multiplication in              *)
(* ParseRetryAfter does not overflow.                                      *)

HeadersFit == \A seconds \in Headers : seconds * Second < Half

HonorInv ==
  /\ TypeOK
  /\ phase \in {"doubling", "sleep"} => after = asked
  /\ phase = "sleep" => wait >= Smaller(after, MaxDelay)

LEMMA HeaderKept ==
  ASSUME HeadersFit, NEW ms \in Millis, NEW seconds \in Headers
  PROVE  Mark(retryAfterFromResponse(ms, seconds)) = AskedFor(ms, seconds)
<1>1. seconds \in Int /\ Second \in Nat \ {0} /\ Half \in Nat
  BY RetryAssumption
<1>2. CASE ms # NoMillis
  <2>1. ms \in 0 .. Half - 1
    BY <1>1, <1>2, RetryAssumption DEF NoMillis
  <2> QED BY <1>2, <2>1 DEF Mark, retryAfterFromResponse, AskedFor, Larger
<1>3. CASE ms = NoMillis /\ seconds < 0
  BY <1>1, <1>3 DEF Mark, retryAfterFromResponse, AskedFor, ParseRetryAfter, Larger
<1>4. CASE ms = NoMillis /\ ~ (seconds < 0)
  <2>1. seconds * Second \in 0 .. Half - 1
    BY <1>1, <1>4 DEF HeadersFit
  <2>2. Wrap(seconds * Second) = seconds * Second
    BY <1>1, <2>1 DEF Wrap
  <2>3. retryAfterFromResponse(ms, seconds) = seconds * Second
    BY <1>4, <2>2 DEF retryAfterFromResponse, ParseRetryAfter
  <2>4. AskedFor(ms, seconds) = seconds * Second
    BY <1>1, <1>4 DEF AskedFor, Larger
  <2> QED BY <1>1, <2>1, <2>3, <2>4 DEF Mark, Larger
<1> QED BY <1>2, <1>3, <1>4

LEMMA NextHonorInv ==
  ASSUME HeadersFit
  PROVE  HonorInv /\ IInv /\ IInv' /\ [Next]_vars => HonorInv'
<1> SUFFICES ASSUME HonorInv, IInv, IInv', [Next]_vars PROVE HonorInv'
  OBVIOUS
<1>0. TypeOK /\ TypeOK'
  BY DEF IInv
<1>1. ASSUME NEW ms \in Millis, NEW seconds \in Headers, Fails(ms, seconds) PROVE HonorInv'
  <2>1. CASE CanRetry(attempt)
    BY <1>0, <1>1, <2>1, HeaderKept DEF Fails, HonorInv
  <2>2. CASE ~ CanRetry(attempt)
    BY <1>0, <1>1, <2>2 DEF Fails, HonorInv
  <2> QED BY <2>1, <2>2
<1>2. CASE Jitters
  <2>1. PICK jittered \in (delay \div 2) .. delay : wait' = Bounded(jittered)
    BY <1>2 DEF Jitters
  <2>2. jittered \in Nat /\ after \in Nat
    BY <1>0, NormalizedPolicy, RetryAssumption DEF TypeOK
  <2>3. wait' >= Smaller(after, MaxDelay)
    BY <2>1, <2>2, BoundedRange
  <2>4. phase = "doubling" /\ after' = after /\ asked' = asked
    BY <1>2 DEF Jitters
  <2> QED BY <1>0, <2>3, <2>4 DEF HonorInv, Smaller
<1>3. CASE Ends \/ Wakes \/ WaitAborted
  BY <1>0, <1>3 DEF Ends, Wakes, WaitAborted, HonorInv
<1>4. CASE Doubles
  BY <1>0, <1>4 DEF Doubles, HonorInv
<1>5. CASE Cancel \/ UNCHANGED vars
  BY <1>0, <1>5 DEF Cancel, vars, HonorInv, Smaller
<1> QED BY <1>1, <1>2, <1>3, <1>4, <1>5 DEF Next

\* If no Retry-After overflows time.Duration, no wait is shorter than what the
\* server asked for, unless MaxDelay cuts it.  (With a header that does
\* overflow TLC finds the opposite.)
THEOREM RetryAfterIsHonored == HeadersFit /\ Spec => []RetryAfterHonored
<1> SUFFICES ASSUME HeadersFit PROVE Spec => []RetryAfterHonored
  OBVIOUS
<1>1. Init => HonorInv
  BY InitIInv DEF Init, HonorInv, IInv
<1>2. HonorInv /\ IInv /\ IInv' /\ [Next]_vars => HonorInv'
  BY NextHonorInv
<1>3. HonorInv => RetryAfterHonored
  BY DEF HonorInv, RetryAfterHonored
<1> QED BY <1>1, <1>2, <1>3, InitIInv, NextIInv, PTL DEF Spec

-----------------------------------------------------------------------------
(* The jitter leaves at least half of the delay, and half of one           *)
(* nanosecond is nothing: a policy whose first delay is a single unit of   *)
(* the clock may retry at once.                                            *)

PolicyPauses == InitialDelay >= 2

PauseInv ==
  /\ phase = "doubling" => delay >= InitialDelay
  /\ NeverHot

\* The loop of Delay never goes below the delay that it starts from.
LEMMA DoublesUp ==
  ASSUME TypeOK, Doubles, delay >= InitialDelay
  PROVE  delay' >= InitialDelay
<1>1. CASE delay >= MaxDelay \div 2
  BY <1>1, NormalizedPolicy DEF Doubles, TypeOK
<1>2. CASE ~ (delay >= MaxDelay \div 2)
  <2>1. delay * 2 \in 0 .. MaxDelay
    BY <1>2, NormalizedPolicy DEF TypeOK
  <2>2. Wrap(delay * 2) = delay * 2
    BY <2>1, NormalizedPolicy, RetryAssumption DEF Wrap
  <2> QED BY <1>2, <2>2, NormalizedPolicy DEF Doubles, TypeOK
<1> QED BY <1>1, <1>2

LEMMA BoundedPauses ==
  ASSUME NEW jittered \in Nat, jittered > 0, after \in Nat
  PROVE  Bounded(jittered) > 0
BY NormalizedPolicy DEF Bounded, Larger, Smaller

LEMMA HalfOfTwo ==
  \A d, j \in Int : d >= 2 /\ j >= d \div 2 => j > 0
OBVIOUS

LEMMA NextPauseInv ==
  ASSUME PolicyPauses
  PROVE  PauseInv /\ IInv /\ [Next]_vars => PauseInv'
<1> SUFFICES ASSUME PauseInv, IInv, [Next]_vars PROVE PauseInv'
  OBVIOUS
<1>0. TypeOK
  BY DEF IInv
<1>1. ASSUME NEW ms \in Millis, NEW seconds \in Headers, Fails(ms, seconds) PROVE PauseInv'
  BY <1>1, NormalizedPolicy DEF Fails, PauseInv, NeverHot, InitialDelay
<1>2. CASE Doubles
  <2>1. phase = "doubling" /\ phase' = "doubling" /\ delay' >= InitialDelay
    BY <1>0, <1>2, DoublesUp DEF Doubles, PauseInv
  <2> QED BY <2>1 DEF PauseInv, NeverHot, InitialDelay
<1>3. CASE Jitters
  <2>1. PICK jittered \in (delay \div 2) .. delay : wait' = Bounded(jittered)
    BY <1>3 DEF Jitters
  <2>2. phase = "doubling" /\ phase' = "sleep" /\ delay >= 2
    BY <1>0, <1>3, NormalizedPolicy DEF Jitters, PauseInv, PolicyPauses, TypeOK
  <2>3. delay \in Int /\ delay \div 2 \in Int
    BY <1>0, NormalizedPolicy DEF TypeOK
  <2>4. jittered \in Int /\ jittered >= delay \div 2
    BY <2>1, <2>3
  <2>5. jittered > 0
    BY <2>2, <2>3, <2>4, HalfOfTwo
  <2>6. after \in Nat
    BY <1>0, RetryAssumption DEF TypeOK
  <2>7. wait' > 0
    BY <2>1, <2>4, <2>5, <2>6, BoundedPauses
  <2> QED BY <2>2, <2>7 DEF PauseInv, NeverHot
<1>4. CASE Ends \/ Wakes \/ WaitAborted
  BY <1>4 DEF Ends, Wakes, WaitAborted, PauseInv, NeverHot
<1>5. CASE Cancel \/ UNCHANGED vars
  BY <1>5 DEF Cancel, vars, PauseInv, NeverHot, InitialDelay
<1> QED BY <1>1, <1>2, <1>3, <1>4, <1>5 DEF Next

\* With a first delay of two nanoseconds or more, which every default has, the
\* process sleeps before each retry, so a done context can end the run there.
THEOREM RetriesPause == PolicyPauses /\ Spec => []NeverHot
<1> SUFFICES ASSUME PolicyPauses PROVE Spec => []NeverHot
  OBVIOUS
<1>1. Init => PauseInv
  BY DEF Init, PauseInv, NeverHot
<1>2. PauseInv /\ IInv /\ [Next]_vars => PauseInv'
  BY NextPauseInv
<1>3. PauseInv => NeverHot
  BY DEF PauseInv
<1> QED BY <1>1, <1>2, <1>3, InitIInv, NextIInv, PTL DEF Spec

-----------------------------------------------------------------------------
(* The doubling.  Doubled is defined by recursion, so that it has a value  *)
(* at all takes an induction over sets of numbers: there is a function of  *)
(* the first n values, any two agree, and Doubled is made of their last    *)
(* values.                                                                 *)

Less == {p \in Nat \X Nat : p[1] < p[2]}

LEMMA NatMin ==
  ASSUME NEW S \in SUBSET Nat, S # {}
  PROVE  \E n \in S : \A k \in S : n <= k
<1>1. IsWellFoundedOn(Less, Nat)
  BY NatLessThanWellFounded, Zenon DEF OpToRel, Less
<1>2. PICK n \in S : \A k \in S : ~ (<<k, n>> \in Less)
  BY <1>1, WFMin
<1>3. ASSUME NEW k \in S PROVE n <= k
  <2>1. k \in Nat /\ n \in Nat
    OBVIOUS
  <2>2. k < n => <<k, n>> \in Less
    BY <2>1 DEF Less
  <2> QED BY <1>2, <2>1, <2>2
<1> QED BY <1>3

LEMMA Induction ==
  ASSUME NEW S \in SUBSET Nat, 0 \in S, \A n \in S : n + 1 \in S
  PROVE  \A n \in Nat : n \in S
<1> SUFFICES ASSUME Nat \ S # {}
             PROVE  FALSE
  OBVIOUS
<1>1. PICK n \in Nat \ S : \A k \in Nat \ S : n <= k
  BY NatMin
<1>2. n # 0 /\ n \in Nat
  OBVIOUS
<1>3. n - 1 \in Nat /\ ~ (n <= n - 1) /\ (n - 1) + 1 = n
  BY <1>2
<1>4. n - 1 \in S
  BY <1>1, <1>3
<1> QED BY <1>3, <1>4

Doubling(f, n) == f = [k \in 0 .. n |-> IF k = 0 THEN InitialDelay ELSE 2 * f[k - 1]]

LEMMA DoublingAt ==
  ASSUME NEW n \in Nat, NEW f, Doubling(f, n), NEW k \in 0 .. n
  PROVE  f[k] = IF k = 0 THEN InitialDelay ELSE 2 * f[k - 1]
BY DEF Doubling

LEMMA DoublingExists ==
  \A n \in Nat : \E f : Doubling(f, n)
<1> DEFINE S == {n \in Nat : \E f : Doubling(f, n)}
<1>1. 0 \in S
  <2> DEFINE f == [k \in 0 .. 0 |-> InitialDelay]
  <2>1. \A k \in 0 .. 0 : k = 0
    OBVIOUS
  <2>2. f = [k \in 0 .. 0 |-> IF k = 0 THEN InitialDelay ELSE 2 * f[k - 1]]
    BY <2>1
  <2>3. Doubling(f, 0)
    BY <2>2 DEF Doubling
  <2> QED BY <2>3
<1>2. ASSUME NEW n \in S
      PROVE  n + 1 \in S
  <2>1. PICK f : Doubling(f, n)
    OBVIOUS
  <2> DEFINE g == [k \in 0 .. n + 1 |-> IF k = 0 THEN InitialDelay ELSE 2 * f[k - 1]]
  <2>2. n \in Nat
    OBVIOUS
  <2>3. ASSUME NEW k \in 0 .. n + 1, k # 0
        PROVE  g[k - 1] = f[k - 1]
    <3>1. k - 1 \in 0 .. n /\ k - 1 \in 0 .. n + 1
      BY <2>2, <2>3
    <3>2. f[k - 1] = IF k - 1 = 0 THEN InitialDelay ELSE 2 * f[(k - 1) - 1]
      BY <2>1, <2>2, <3>1, DoublingAt
    <3> QED BY <3>1, <3>2
  <2>4. g = [k \in 0 .. n + 1 |-> IF k = 0 THEN InitialDelay ELSE 2 * g[k - 1]]
    BY <2>3
  <2> HIDE DEF g
  <2>5. Doubling(g, n + 1)
    BY <2>4 DEF Doubling
  <2> QED BY <2>2, <2>5
<1> HIDE DEF S
<1>3. S \in SUBSET Nat
  BY DEF S
<1>4. \A n \in Nat : n \in S
  BY <1>1, <1>2, <1>3, Induction
<1> QED BY <1>4 DEF S

LEMMA DoublingsAgree ==
  ASSUME NEW n \in Nat, NEW m \in Nat, NEW f, NEW g, Doubling(f, n), Doubling(g, m)
  PROVE  \A k \in Nat : k <= n /\ k <= m => f[k] = g[k]
<1> DEFINE S == {k \in Nat : k <= n /\ k <= m => f[k] = g[k]}
<1>1. 0 \in S
  <2>1. f[0] = InitialDelay /\ g[0] = InitialDelay
    BY DoublingAt
  <2> QED BY <2>1
<1>2. ASSUME NEW k \in S
      PROVE  k + 1 \in S
  <2>1. k \in Nat /\ k + 1 \in Nat
    OBVIOUS
  <2>2. ASSUME k + 1 <= n, k + 1 <= m
        PROVE  f[k + 1] = g[k + 1]
    <3>1. k + 1 \in 0 .. n /\ k + 1 \in 0 .. m /\ k + 1 # 0 /\ (k + 1) - 1 = k /\ k <= n /\ k <= m
      BY <2>1, <2>2
    <3>2. f[k + 1] = 2 * f[(k + 1) - 1] /\ g[k + 1] = 2 * g[(k + 1) - 1]
      BY <3>1, DoublingAt
    <3>3. f[k] = g[k]
      BY <3>1
    <3> QED BY <3>1, <3>2, <3>3
  <2> QED BY <2>1, <2>2
<1> HIDE DEF S
<1>3. S \in SUBSET Nat
  BY DEF S
<1>4. \A k \in Nat : k \in S
  BY <1>1, <1>2, <1>3, Induction
<1> QED BY <1>4 DEF S

LEMMA DoubledIs ==
  /\ Doubled[0] = InitialDelay
  /\ \A n \in Nat : Doubled[n + 1] = 2 * Doubled[n]
<1> DEFINE F(n) == CHOOSE f : Doubling(f, n)
           D    == [n \in Nat |-> F(n)[n]]
<1>1. \A n \in Nat : Doubling(F(n), n)
  BY DoublingExists
<1>2. ASSUME NEW n \in Nat
      PROVE  F(n)[n] = IF n = 0 THEN InitialDelay ELSE 2 * D[n - 1]
  <2>1. n \in 0 .. n
    OBVIOUS
  <2>2. F(n)[n] = IF n = 0 THEN InitialDelay ELSE 2 * F(n)[n - 1]
    BY <1>1, <2>1, DoublingAt
  <2>3. CASE n # 0
    <3>1. n - 1 \in Nat /\ n - 1 <= n /\ n - 1 <= n - 1
      BY <2>3
    <3>2. Doubling(F(n), n) /\ Doubling(F(n - 1), n - 1)
      BY <1>1, <3>1
    <3> HIDE DEF F
    <3>3. F(n)[n - 1] = F(n - 1)[n - 1]
      BY <3>1, <3>2, DoublingsAgree
    <3>4. D[n - 1] = F(n - 1)[n - 1]
      BY <3>1
    <3> QED BY <2>2, <2>3, <3>3, <3>4
  <2> QED BY <2>2, <2>3
<1> HIDE DEF F
<1>3. D = [n \in Nat |-> IF n = 0 THEN InitialDelay ELSE 2 * D[n - 1]]
  BY <1>2
<1> HIDE DEF D
<1>4. Doubled = [n \in Nat |-> IF n = 0 THEN InitialDelay ELSE 2 * Doubled[n - 1]]
  BY <1>3 DEF Doubled
<1>5. \A n \in Nat : Doubled[n] = IF n = 0 THEN InitialDelay ELSE 2 * Doubled[n - 1]
  BY <1>4
<1>6. ASSUME NEW n \in Nat
      PROVE  Doubled[n + 1] = 2 * Doubled[n]
  <2>1. n + 1 \in Nat /\ n + 1 # 0 /\ (n + 1) - 1 = n
    OBVIOUS
  <2> QED BY <1>5, <2>1
<1> QED BY <1>5, <1>6

LEMMA DoubledGrows ==
  /\ \A n \in Nat : Doubled[n] \in Nat
  /\ \A n, k \in Nat : Doubled[n] <= Doubled[n + k]
<1>1. \A n \in Nat : Doubled[n] \in Nat
  <2> DEFINE S == {n \in Nat : Doubled[n] \in Nat}
  <2>1. 0 \in S
    BY DoubledIs, NormalizedPolicy
  <2>2. \A n \in S : n + 1 \in S
    BY DoubledIs
  <2>3. S \in SUBSET Nat
    OBVIOUS
  <2> HIDE DEF S
  <2>4. \A n \in Nat : n \in S
    BY <2>1, <2>2, <2>3, Induction
  <2> QED BY <2>4 DEF S
<1>2. ASSUME NEW n \in Nat
      PROVE  \A k \in Nat : Doubled[n] <= Doubled[n + k]
  <2> DEFINE S == {k \in Nat : Doubled[n] <= Doubled[n + k]}
  <2>1. 0 \in S
    BY <1>1
  <2>2. ASSUME NEW k \in S PROVE k + 1 \in S
    <3>1. n + k \in Nat /\ n + (k + 1) = (n + k) + 1
      OBVIOUS
    <3>2. Doubled[n + (k + 1)] = 2 * Doubled[n + k]
      BY <3>1, DoubledIs
    <3>3. Doubled[n] \in Nat /\ Doubled[n + k] \in Nat /\ Doubled[n] <= Doubled[n + k]
      BY <1>1, <3>1
    <3> QED BY <3>2, <3>3
  <2>3. S \in SUBSET Nat
    OBVIOUS
  <2> HIDE DEF S
  <2>4. \A k \in Nat : k \in S
    BY <2>1, <2>2, <2>3, Induction
  <2> QED BY <2>4 DEF S
<1> QED BY <1>1, <1>2

LEMMA DoubledLater ==
  ASSUME NEW n \in Nat, NEW m \in Nat, n <= m
  PROVE  Doubled[n] <= Doubled[m]
<1>1. m - n \in Nat /\ n + (m - n) = m
  OBVIOUS
<1>2. Doubled[n] <= Doubled[n + (m - n)]
  BY <1>1, DoubledGrows
<1> QED BY <1>1, <1>2

LEMMA NextBackoff ==
  BackoffDoubles /\ IInv /\ [Next]_vars => BackoffDoubles'
<1> SUFFICES ASSUME BackoffDoubles, IInv, [Next]_vars PROVE BackoffDoubles'
  OBVIOUS
<1>0. TypeOK
  BY DEF IInv
<1>1. ASSUME NEW ms \in Millis, NEW seconds \in Headers, Fails(ms, seconds) PROVE BackoffDoubles'
  <2>1. CASE CanRetry(attempt)
    <3>1. phase' = "doubling" /\ step' = 1 /\ delay' = InitialDelay /\ attempt' = attempt
      BY <1>1, <2>1 DEF Fails
    <3>2. attempt \in Nat /\ attempt - 1 \in Nat
      BY <1>0, NormalizedPolicy DEF TypeOK
    <3>3. Doubled[0] = InitialDelay /\ Doubled[0] <= Doubled[attempt - 1] /\ Doubled[attempt - 1] \in Nat
      BY <3>2, DoubledIs, DoubledLater, DoubledGrows
    <3>4. delay' = Doubled[step' - 1]
      BY <3>1, <3>3
    <3>5. delay' <= MaxDelay /\ delay' \in Nat /\ MaxDelay \in Nat
      BY <3>1, NormalizedPolicy
    <3>6. delay' <= Doubled[attempt - 1] + 1
      BY <3>1, <3>3, <3>5
    <3>7. MaxDelay' = MaxDelay
      BY DEF MaxDelay, InitialDelay
    <3> QED BY <3>1, <3>4, <3>5, <3>6, <3>7 DEF BackoffDoubles
  <2>2. CASE ~ CanRetry(attempt)
    BY <1>1, <2>2 DEF Fails, BackoffDoubles
  <2> QED BY <2>1, <2>2
<1>2. CASE Doubles
  <2>0. MaxDelay' = MaxDelay /\ phase = "doubling" /\ attempt' = attempt /\ step < attempt
    BY <1>2 DEF Doubles, MaxDelay, InitialDelay
  <2>1. /\ delay \in Nat /\ delay <= MaxDelay /\ MaxDelay \in Nat /\ MaxDelay < Half /\ Half \in Nat
        /\ step \in Nat \ {0} /\ attempt \in Nat \ {0}
    BY <1>0, NormalizedPolicy, RetryAssumption DEF TypeOK
  <2>2. /\ step - 1 \in Nat /\ (step - 1) + 1 = step /\ attempt - 1 \in Nat /\ step <= attempt - 1
        /\ (step + 1) - 1 = step /\ step \in Nat
    BY <2>0, <2>1
  <2>3. Doubled[step] = 2 * Doubled[step - 1]
    BY <2>2, DoubledIs
  <2>4. Doubled[step] <= Doubled[attempt - 1] /\ Doubled[step] \in Nat /\ Doubled[attempt - 1] \in Nat
    BY <2>2, DoubledLater, DoubledGrows
  <2>5. CASE delay >= MaxDelay \div 2
    <3>1. delay' = MaxDelay
      BY <1>2, <2>5 DEF Doubles
    <3>2. MaxDelay <= Doubled[attempt - 1] + 1
      <4>1. CASE delay < MaxDelay
        <5>1. 2 * delay = Doubled[step]
          BY <2>0, <2>3, <4>1 DEF BackoffDoubles
        <5>2. MaxDelay <= 2 * delay + 1
          BY <2>1, <2>5
        <5> QED BY <2>1, <2>4, <5>1, <5>2
      <4>2. CASE ~ (delay < MaxDelay)
        BY <2>0, <4>2 DEF BackoffDoubles
      <4> QED BY <4>1, <4>2
    <3>3. ~ (delay' < MaxDelay)
      BY <2>1, <3>1
    <3> QED BY <2>0, <3>1, <3>2, <3>3 DEF BackoffDoubles
  <2>6. CASE ~ (delay >= MaxDelay \div 2)
    <3>1. delay < MaxDelay /\ 2 * delay < MaxDelay /\ delay * 2 = 2 * delay /\ delay * 2 \in -Half .. Half - 1
      BY <2>1, <2>6
    <3>2. delay' = 2 * delay /\ step' = step + 1
      BY <1>2, <2>6, <3>1 DEF Doubles, Wrap
    <3>3. 2 * delay = Doubled[step]
      BY <2>0, <2>3, <3>1 DEF BackoffDoubles
    <3>4. delay' = Doubled[step' - 1] /\ delay' < MaxDelay
      BY <2>2, <3>1, <3>2, <3>3
    <3> QED BY <2>0, <3>4 DEF BackoffDoubles
  <2> QED BY <2>5, <2>6
<1>3. CASE Ends \/ Jitters \/ Wakes \/ WaitAborted
  BY <1>3 DEF Ends, Jitters, Wakes, WaitAborted, BackoffDoubles
<1>4. CASE Cancel \/ UNCHANGED vars
  <2>1. MaxDelay' = MaxDelay /\ UNCHANGED <<phase, delay, step, attempt>>
    BY <1>4 DEF Cancel, vars, MaxDelay, InitialDelay
  <2> QED BY <2>1 DEF BackoffDoubles
<1> QED BY <1>1, <1>2, <1>3, <1>4 DEF Next

\* Before the jitter, the n-th retry waits the first delay doubled n - 1 times,
\* or MaxDelay if that is less, exactly or, for an odd MaxDelay, one unit early.
THEOREM TheBackoffDoubles == Spec => []BackoffDoubles
<1>1. Init => BackoffDoubles
  BY DEF Init, BackoffDoubles
<1> QED BY <1>1, NextBackoff, InitIInv, NextIInv, PTL DEF Spec
=============================================================================
