-------------------------- MODULE ReconnectDelays --------------------------
(***************************************************************************)
(* The policy as an object of its own: calls of next(reason) and reset(),  *)
(* and the delays a client sees between its attempts.                      *)
(***************************************************************************)
EXTENDS ReconnectPolicy

CONSTANTS
  BaseDelay, MaxDelay, ForbiddenCooldown,  \* milliseconds
  JitterShares,                            \* the shares Math.random() * jitter may
                                           \* take, in hundredths
  Kinds                                    \* the reasons drops come with

VARIABLES
  attempts,   \* private attempts
  decision,   \* what the last next() answered
  last        \* the drop it answered, and the attempts before it

vars == <<attempts, decision, last>>

\* Mutant of Backoff: no ceiling.
BackoffUncapped(n) == BaseDelay * 2^(n - 1)

\* baseDelayMs * 2 ** (attempts - 1), up to maxDelayMs.
Backoff(n) ==
  LET grown == BaseDelay * 2^(n - 1)
  IN  IF grown < MaxDelay THEN grown ELSE MaxDelay

\* The delay of a decision to retry, the counter being at n after the call.
PlainDelay(kind, n) ==
  CASE kind = "forbidden"        -> ForbiddenCooldown
    [] kind = "restart_required" -> BaseDelay
    [] OTHER                     -> Backoff(n)

\* Math.round(delay * (1 + Math.random() * jitter))
WithJitter(delay, share) == (delay * (100 + share) + 50) \div 100

NoDecision == [retry |-> FALSE, delay |-> 0]
NoDrop     == [kind |-> NoReason, before |-> 0]

Init == attempts = 0 /\ decision = NoDecision /\ last = NoDrop

NextDecision(kind, share) ==
  /\ attempts' = AttemptsAfter(kind, attempts)
  /\ decision' = IF Retries(kind, attempts)
                 THEN [retry |-> TRUE,
                       delay |-> WithJitter(PlainDelay(kind, attempts'), share)]
                 ELSE NoDecision
  /\ last' = [kind |-> kind, before |-> attempts]

Reset ==
  /\ attempts' = 0
  /\ decision' = NoDecision
  /\ last' = NoDrop

Next == Reset \/ \E kind \in Kinds, share \in JitterShares : NextDecision(kind, share)

Spec == Init /\ [][Next]_vars
-----------------------------------------------------------------------------
TypeOK ==
  /\ attempts \in 0..AttemptCap
  /\ decision \in [retry : BOOLEAN, delay : Nat]
  /\ last \in [kind : Kinds \cup {NoReason}, before : 0..AttemptCap]

Transient(kind) == kind \notin Terminal \cup {"forbidden", "restart_required"}

\* Two drops in a row with a transient reason: the second waits at least as long
\* as the first but for the jitter, and never past maxDelayMs plus its jitter.
\* "Doubles from the base delay" must not turn round once the ceiling, the
\* rounding or the saturated counter is reached.
BackoffNeverShrinks ==
  [][ (/\ decision.retry /\ decision'.retry
       /\ Transient(last.kind) /\ Transient(last'.kind))
      => \E share \in JitterShares :
           /\ WithJitter(decision'.delay, share) >= decision.delay
           /\ decision'.delay <= WithJitter(MaxDelay, share) ]_vars
=============================================================================
