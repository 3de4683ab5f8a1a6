-------------------------- MODULE ReconnectPolicy --------------------------
(***************************************************************************)
(* ReconnectPolicy: whether, and after how long, a dropped client is       *)
(* reconnected.  The policy holds one counter, the attempts since the      *)
(* client was last up; these are the pure parts of `next`.                 *)
(***************************************************************************)
EXTENDS Integers, ConnectionUpdates

CONSTANTS
  MaxAttempts,   \* give up after this many consecutive attempts, or Unlimited
  AttemptCap     \* the counter saturates here; see Count

\* The default, Number.POSITIVE_INFINITY.
Unlimited == -1

ASSUME MaxAttemptsAssumption == MaxAttempts \in Nat \cup {Unlimited}
ASSUME AttemptCapAssumption  == AttemptCap \in Nat /\ AttemptCap > MaxAttempts

\* attempts++.  The counter only decides by "> MaxAttempts", so it may stop at
\* any value past that bound.
Count(n) == IF n < AttemptCap THEN n + 1 ELSE n

\* Mutant of GaveUp: one attempt too many.
GaveUpLate(n) == MaxAttempts # Unlimited /\ n > MaxAttempts + 1

\* this.attempts > this.options.maxAttempts
GaveUp(n) == MaxAttempts # Unlimited /\ n > MaxAttempts

\* Mutant of AttemptsAfter: a terminal reason gives an attempt back.
AttemptsGivenBack(kind, n) == IF kind \in Terminal THEN n - 1 ELSE Count(n)

\* The counter after next(reason): a terminal reason does not consume an attempt.
AttemptsAfter(kind, n) == IF kind \in Terminal THEN n ELSE Count(n)

\* decision.retry of next(reason), the counter being at n before the call.
Retries(kind, n) == kind \notin Terminal /\ ~GaveUp(Count(n))
=============================================================================
