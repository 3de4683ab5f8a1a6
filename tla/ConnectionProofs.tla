-------------------------- MODULE ConnectionProofs ---------------------------
(***************************************************************************)
(* Proofs about ClientConnection, for every value of its constants: any    *)
(* adapter protocol, any set of reasons, any limit of attempts, debounced  *)
(* or not, reconnecting or not.  Then of a Baileys client: it implements   *)
(* the core's model of a client, so what is proved of that model holds     *)
(* with this adapter; and while no two calls overlap, its adapter listens  *)
(* to one socket at most, reports in the order the core's model is checked *)
(* with, and ready is of an open socket: for any number of sockets, calls  *)
(* and retries and any options.                                            *)
(***************************************************************************)
EXTENDS BaileysClient, FiniteSetTheorems, TLAPS

\* What the policy computes stays in its range, and one attempt more is counted
\* unless the counter is saturated, which is past the limit.
LEMMA PolicyRange ==
  ASSUME NEW kind \in DisconnectKind \cup {NoReason}, NEW n \in 0..AttemptCap
  PROVE  /\ Count(n) \in 0..AttemptCap
         /\ AttemptsAfter(kind, n) \in 0..AttemptCap
         /\ Retries(kind, n) \in BOOLEAN
         /\ AttemptsAfter(kind, n) >= n
  BY MaxAttemptsAssumption, AttemptCapAssumption
     DEF Count, AttemptsAfter, Retries, GaveUp, Unlimited

\* A decision to retry is one more attempt than before, within the limit.
LEMMA RetryIsCounted ==
  ASSUME NEW kind \in DisconnectKind \cup {NoReason}, NEW n \in 0..AttemptCap,
         MaxAttempts # Unlimited, Retries(kind, n)
  PROVE  /\ AttemptsAfter(kind, n) = n + 1
         /\ AttemptsAfter(kind, n) <= MaxAttempts
  BY MaxAttemptsAssumption, AttemptCapAssumption
     DEF Count, AttemptsAfter, Retries, GaveUp, Unlimited

\* The events derived from an update are well formed and about its own status.
LEMMA DerivedEventsType ==
  ASSUME NEW update \in Update, NEW previous \in Status \cup {NoStatus}
  PROVE  DerivedEvents(update, previous) \subseteq Event
  BY DEF DerivedEvents, Event, Update, Status, StatusEvents, NoReason

\* Emitting a set of events keeps the two output variables in their types.
LEMMA EmitType ==
  ASSUME NEW events \in SUBSET Event, Emit(events),
         heard \in {"nothing", "ready", "disconnected"}
  PROVE  out' \subseteq Event /\ heard' \in {"nothing", "ready", "disconnected"}
  BY DEF Emit

\* Every step keeps every variable in its type.
LEMMA TypeStep == TypeOK /\ [Next]_vars => TypeOK'
<1> SUFFICES ASSUME TypeOK, [Next]_vars PROVE TypeOK'
  OBVIOUS
<1> USE DEF TypeOK
<1>z. 0 \in 0..AttemptCap
  BY AttemptCapAssumption
<1>e. {} \in SUBSET Event
  OBVIOUS
<1>1. CASE Bootstrap
  BY <1>1, <1>e, EmitType DEF Bootstrap, sourceVars, runnerVars, Phase
<1>2. ASSUME NEW update \in Reports, Report(update) PROVE TypeOK'
  <2>1. update \in Update /\ update.status \in Status
        /\ update.kind \in DisconnectKind \cup {NoReason}
    BY DEF Reports, Update
  <2>2. retryTimer' \in BOOLEAN /\ attempts' \in 0..AttemptCap
    <3>1. Supervise(update)
      BY <1>2 DEF Report
    <3>2. CASE UNCHANGED runnerVars
      BY <3>2 DEF runnerVars
    <3>3. CASE Succeeded
      BY <3>3, <1>z DEF Succeeded
    <3>4. CASE Schedule(update.kind)
      BY <3>4, <2>1, PolicyRange DEF Schedule, runnerVars
    <3>5. QED
      BY <3>1, <3>2, <3>3, <3>4 DEF Supervise
  <2>3. /\ lastStatus' \in Status \cup {NoStatus}
        /\ pending' \in DisconnectKind \cup {NoReason}
        /\ announceTimer' \in BOOLEAN
    BY <1>2, <2>1
       DEF Report, Apply, AnnounceDisconnect, ClearPendingDisconnect
  <2>4. out' \subseteq Event /\ heard' \in {"nothing", "ready", "disconnected"}
    <3>1. DerivedEvents(update, lastStatus) \in SUBSET Event
      BY <2>1, DerivedEventsType
    <3>2. Emit({}) \/ Emit(DerivedEvents(update, lastStatus))
      BY <1>2 DEF Report, Apply, AnnounceDisconnect
    <3>3. QED
      BY <3>1, <3>2, <1>e, EmitType
  <2>5. session' \in Phase /\ entry' \in Status /\ retries' \in 0..AttemptCap
        /\ reason' \in DisconnectKind \cup {NoReason} /\ restart' \in BOOLEAN
        /\ disposed' \in BOOLEAN
    BY <1>2, <2>1, <1>z DEF Report, Phase
  <2>6. QED
    BY <2>2, <2>3, <2>4, <2>5
<1>3. CASE InitializeRejects
  BY <1>3, <1>e, EmitType DEF InitializeRejects, sourceVars, runnerVars, Phase
<1>4. CASE AnnounceTimerFires
  <2>1. {[name |-> "disconnected", kind |-> pending]} \in SUBSET Event
    BY DEF Event
  <2>2. out' \subseteq Event /\ heard' \in {"nothing", "ready", "disconnected"}
    BY <1>4, <1>e, <2>1, EmitType DEF AnnounceTimerFires
  <2>3. QED
    BY <1>4, <2>2 DEF AnnounceTimerFires, ClearPendingDisconnect, runnerVars
<1>5. CASE RetryTimerFires
  <2>1. Count(retries) \in 0..AttemptCap
    BY PolicyRange DEF NoReason
  <2>2. QED
    BY <1>5, <2>1, <1>e, EmitType DEF RetryTimerFires, sourceVars, Phase
<1>6. CASE RestartPressed
  BY <1>6, <1>e, EmitType DEF RestartPressed, sourceVars, runnerVars
<1>7. CASE RestartResumes
  BY <1>7, <1>e, EmitType DEF RestartResumes, sourceVars, runnerVars, Phase, Status
<1>8. CASE RestartFails
  BY <1>8, <1>e, EmitType DEF RestartFails, sourceVars, runnerVars
<1>9. CASE Shutdown
  BY <1>9, <1>e, EmitType DEF Shutdown, ClearPendingDisconnect
<1>10. CASE Destroyed
  BY <1>10, <1>e, EmitType DEF Destroyed, sourceVars, runnerVars, Phase
<1>11. CASE UNCHANGED vars
  BY <1>11 DEF vars, sourceVars, runnerVars, outVars
<1>12. QED
  BY <1>1, <1>2, <1>3, <1>4, <1>5, <1>6, <1>7, <1>8, <1>9, <1>10, <1>11 DEF Next

\* Type correctness: whatever the adapter reports and whoever restarts or shuts
\* the client down, every variable keeps its type.
THEOREM TypeCorrect == Spec => []TypeOK
<1>z. 0 \in 0..AttemptCap
  BY AttemptCapAssumption
<1>1. Init => TypeOK
  BY <1>z DEF Init, TypeOK, Phase, Status, NoStatus, NoReason
<1>2. QED
  BY <1>1, TypeStep, PTL DEF Spec
-----------------------------------------------------------------------------
(***************************************************************************)
(* The inductive invariant.                                                *)
(***************************************************************************)

\* The reports that say the client is down, or up, as the runner sees them.
LEMMA RunnerStep ==
  ASSUME IInv, NEW update \in Reports, Report(update)
  PROVE  /\ UpIsClean'
         /\ RetriesAreCounted'
<1>1. /\ update.status \in Status /\ update.kind \in DisconnectKind \cup {NoReason}
      /\ attempts \in 0..AttemptCap /\ retries \in 0..AttemptCap
      /\ retryTimer \in BOOLEAN
  BY DEF Reports, Update, IInv, TypeOK
<1>2. /\ entry' = update.status
      /\ retries' = IF update.status = "ready" THEN 0 ELSE retries
      /\ Supervise(update)
  BY DEF Report
<1>3. UpIsClean /\ RetriesAreCounted
  BY DEF IInv
<1>4. CASE ~Reconnects
  <2>1. UNCHANGED runnerVars
    BY <1>2, <1>4 DEF Supervise
  <2>2. QED
    BY <1>2, <1>3, <1>4, <2>1, MaxAttemptsAssumption
       DEF UpIsClean, RetriesAreCounted, runnerVars, Unlimited
<1>5. CASE Reconnects /\ update.status = "ready"
  <2>1. Succeeded
    BY <1>2, <1>5 DEF Supervise
  <2>2. QED
    BY <1>2, <1>5, <2>1, MaxAttemptsAssumption
       DEF Succeeded, UpIsClean, RetriesAreCounted, Unlimited
<1>6. CASE Reconnects /\ update.status = "disconnected"
  <2>1. Schedule(update.kind)
    BY <1>2, <1>6 DEF Supervise
  <2>2. entry' # "ready" /\ retries' = retries
    BY <1>2, <1>6
  <2>3. CASE retryTimer /\ UNCHANGED runnerVars
    BY <1>3, <1>6, <2>2, <2>3 DEF UpIsClean, RetriesAreCounted, runnerVars
  <2>4. CASE /\ ~retryTimer
             /\ attempts' = AttemptsAfter(update.kind, attempts)
             /\ retryTimer' = Retries(update.kind, attempts)
    <3>1. attempts' >= attempts /\ attempts' \in 0..AttemptCap
      BY <1>1, <2>4, PolicyRange
    <3>2. CASE MaxAttempts # Unlimited
      <4>1. Retries(update.kind, attempts) =>
              attempts' = attempts + 1 /\ attempts' <= MaxAttempts
        BY <1>1, <2>4, <3>2, RetryIsCounted
      <4>2. retries <= attempts /\ retries <= MaxAttempts
        BY <1>3, <3>2 DEF RetriesAreCounted
      <4>3. retryTimer' => retries' < attempts' /\ attempts' <= MaxAttempts
        BY <1>1, <2>2, <2>4, <4>1, <4>2
      <4>4. retries' <= attempts' /\ retries' <= MaxAttempts
        BY <1>1, <2>2, <3>1, <4>2, MaxAttemptsAssumption, <3>2
      <4>5. QED
        BY <1>6, <2>2, <4>3, <4>4 DEF UpIsClean, RetriesAreCounted
    <3>3. CASE MaxAttempts = Unlimited
      BY <1>6, <2>2, <3>3 DEF UpIsClean, RetriesAreCounted
    <3>4. QED
      BY <3>2, <3>3
  <2>5. QED
    BY <2>1, <2>3, <2>4 DEF Schedule
<1>7. CASE Reconnects /\ update.status \notin {"ready", "disconnected"}
  <2>1. UNCHANGED runnerVars
    BY <1>2, <1>7 DEF Supervise
  <2>2. QED
    BY <1>2, <1>3, <1>7, <2>1 DEF UpIsClean, RetriesAreCounted, runnerVars
<1>8. QED
  BY <1>4, <1>5, <1>6, <1>7

\* What a report leaves of the event source: a drop is announced or pending, and
\* any other status leaves nothing pending.
LEMMA SourceStep ==
  ASSUME IInv, NEW update \in Reports, Report(update)
  PROVE  /\ OutageToldOrPending'
         /\ PendingIsCurrent'
<1>1. /\ lastStatus' = update.status /\ disposed' = disposed
      /\ Apply(update)
  BY DEF Report, Apply
<1>2. OutageToldOrPending /\ PendingIsCurrent
  BY DEF IInv
<1>3. CASE update.status # "disconnected"
  BY <1>1, <1>3 DEF Apply, ClearPendingDisconnect, OutageToldOrPending, PendingIsCurrent
<1>4. CASE update.status = "disconnected" /\ DerivedEvents(update, lastStatus) = {}
  <2>1. lastStatus = "disconnected"
    <3>1. SUFFICES ASSUME lastStatus # "disconnected" PROVE FALSE
      OBVIOUS
    <3>2. "disconnected" \in ({update.status} \cap StatusEvents) \ {lastStatus}
      BY <1>4, <3>1 DEF StatusEvents
    <3>3. [name |-> "disconnected",
           kind |-> IF "disconnected" = "disconnected" THEN update.kind ELSE NoReason]
            \in DerivedEvents(update, lastStatus)
      BY <3>2 DEF DerivedEvents
    <3>4. QED
      BY <1>4, <3>3
  <2>2. UNCHANGED <<pending, announceTimer>> /\ Emit({})
    BY <1>1, <1>4 DEF Apply
  <2>3. heard' = heard
    BY <2>2 DEF Emit, Names
  <2>4. QED
    BY <1>1, <1>2, <1>4, <2>1, <2>2, <2>3 DEF OutageToldOrPending, PendingIsCurrent
<1>5. CASE update.status = "disconnected" /\ DerivedEvents(update, lastStatus) # {}
  <2>1. AnnounceDisconnect(update.kind, DerivedEvents(update, lastStatus))
    BY <1>1, <1>5 DEF Apply
  <2>2. CASE /\ Debounced /\ update.kind \notin Terminal
             /\ pending' = update.kind /\ announceTimer' = TRUE
    BY <1>1, <1>5, <2>2 DEF OutageToldOrPending, PendingIsCurrent
  <2>3. CASE /\ Emit(DerivedEvents(update, lastStatus))
             /\ UNCHANGED <<pending, announceTimer>>
    <3>1. DerivedEvents(update, lastStatus)
            = {[name |-> "disconnected", kind |-> update.kind]}
      BY <1>5 DEF DerivedEvents, StatusEvents
    <3>2. Names(DerivedEvents(update, lastStatus)) = {"disconnected"}
      BY <3>1 DEF Names
    <3>3. heard' = "disconnected"
      BY <2>3, <3>2 DEF Emit
    <3>4. QED
      BY <1>1, <1>2, <1>5, <2>3, <3>3 DEF OutageToldOrPending, PendingIsCurrent
  <2>4. QED
    BY <2>1, <2>2, <2>3 DEF AnnounceDisconnect
<1>6. QED
  BY <1>3, <1>4, <1>5

\* A step that emits nothing and leaves the event source and the runner alone
\* leaves the invariant alone, unless it makes the client ready.
LEMMA QuietStep ==
  ASSUME IInv, Emit({}), UNCHANGED <<sourceVars, runnerVars, disposed, retries>>,
         entry' = entry \/ entry' = "initializing"
  PROVE  /\ OutageToldOrPending' /\ PendingIsCurrent' /\ UpIsClean' /\ RetriesAreCounted'
<1>1. heard' = heard
  BY DEF Emit, Names
<1>2. QED
  BY <1>1 DEF IInv, sourceVars, runnerVars, OutageToldOrPending, PendingIsCurrent,
              UpIsClean, RetriesAreCounted

\* The inductive step.
LEMMA IInvStep == IInv /\ [Next]_vars => IInv'
<1> SUFFICES ASSUME IInv, [Next]_vars PROVE IInv'
  OBVIOUS
<1>t. TypeOK /\ TypeOK'
  BY TypeStep DEF IInv
<1> DEFINE Rest == OutageToldOrPending /\ PendingIsCurrent /\ UpIsClean
                     /\ RetriesAreCounted
<1>r. Rest
  BY DEF IInv
<1>s. SUFFICES Rest'
  BY <1>t DEF IInv
<1>1. CASE Bootstrap
  BY <1>1, QuietStep DEF Bootstrap
<1>2. ASSUME NEW update \in Reports, Report(update) PROVE Rest'
  BY <1>2, RunnerStep, SourceStep
<1>3. CASE InitializeRejects
  BY <1>3, QuietStep DEF InitializeRejects
<1>4. CASE AnnounceTimerFires
  <2>1. lastStatus = "disconnected"
    BY <1>4, <1>r DEF AnnounceTimerFires, PendingIsCurrent
  <2>2. Emit({[name |-> "disconnected", kind |-> pending]})
    BY <1>4, <2>1 DEF AnnounceTimerFires
  <2>3. Names({[name |-> "disconnected", kind |-> pending]}) = {"disconnected"}
    BY DEF Names
  <2>4. heard' = "disconnected"
    BY <2>2, <2>3 DEF Emit
  <2>5. QED
    BY <1>4, <1>r, <2>4
       DEF AnnounceTimerFires, ClearPendingDisconnect, runnerVars,
           OutageToldOrPending, PendingIsCurrent, UpIsClean, RetriesAreCounted
<1>5. CASE RetryTimerFires
  <2>1. heard' = heard
    BY <1>5 DEF RetryTimerFires, Emit, Names
  <2>2. OutageToldOrPending' /\ PendingIsCurrent'
    BY <1>5, <1>r, <2>1
       DEF RetryTimerFires, sourceVars, OutageToldOrPending, PendingIsCurrent
  <2>3. CASE entry = "disconnected"
    <3>1. UpIsClean'
      BY <1>5, <2>3 DEF RetryTimerFires, UpIsClean
    <3>2. retryTimer /\ retryTimer' = FALSE /\ attempts' = attempts
          /\ retries' = Count(retries)
      BY <1>5, <2>3 DEF RetryTimerFires
    <3>3. Reconnects
      BY <1>r, <3>2 DEF RetriesAreCounted
    <3>4. ASSUME MaxAttempts # Unlimited
          PROVE  retries' <= attempts' /\ retries' <= MaxAttempts
      BY <1>t, <1>r, <3>2, <3>4, MaxAttemptsAssumption, AttemptCapAssumption
         DEF RetriesAreCounted, Count, TypeOK, Unlimited
    <3>5. QED
      BY <2>2, <3>1, <3>2, <3>3, <3>4 DEF RetriesAreCounted
  <2>4. CASE entry # "disconnected"
    BY <1>5, <1>r, <2>2, <2>4 DEF RetryTimerFires, UpIsClean, RetriesAreCounted
  <2>5. QED
    BY <2>3, <2>4
<1>6. CASE RestartPressed
  BY <1>6, QuietStep DEF RestartPressed
<1>7. CASE RestartResumes
  <2>1. heard' = heard
    BY <1>7 DEF RestartResumes, Emit, Names
  <2>2. QED
    BY <1>7, <1>r, <2>1
       DEF RestartResumes, sourceVars, runnerVars, OutageToldOrPending,
           PendingIsCurrent, UpIsClean, RetriesAreCounted
<1>8. CASE RestartFails
  BY <1>8, QuietStep DEF RestartFails
<1>9. CASE Shutdown
  BY <1>9, <1>r DEF Shutdown, ClearPendingDisconnect, OutageToldOrPending,
                    PendingIsCurrent, UpIsClean, RetriesAreCounted
<1>10. CASE Destroyed
  BY <1>10, QuietStep DEF Destroyed
<1>11. CASE UNCHANGED vars
  BY <1>11, <1>r DEF vars, sourceVars, runnerVars, outVars, OutageToldOrPending,
                     PendingIsCurrent, UpIsClean, RetriesAreCounted
<1>12. QED
  BY <1>1, <1>2, <1>3, <1>4, <1>5, <1>6, <1>7, <1>8, <1>9, <1>10, <1>11 DEF Next

THEOREM Invariance == Spec => []IInv
<1>z. 0 \in 0..AttemptCap
  BY AttemptCapAssumption
<1>1. Init => IInv
  <2>1. Init => TypeOK
    BY <1>z DEF Init, TypeOK, Phase, Status, NoStatus, NoReason
  <2>2. QED
    BY <2>1, MaxAttemptsAssumption
       DEF Init, IInv, OutageToldOrPending, PendingIsCurrent, UpIsClean,
           RetriesAreCounted, NoStatus, Unlimited
<1>2. QED
  BY <1>1, IInvStep, PTL DEF Spec

\* A drop is never lost: handlers of a disconnected client have been told, or an
\* announcement of this very outage is pending.
THEOREM DropsAreAnnounced == Spec => [](OutageToldOrPending /\ PendingIsCurrent)
<1>1. IInv => OutageToldOrPending /\ PendingIsCurrent
  BY DEF IInv
<1>2. QED
  BY <1>1, Invariance, PTL

\* Whatever sequence of drops, restarts and rejected attempts: between two times
\* the client is up, the runner initializes it at most MaxAttempts times.
THEOREM AttemptsAreBounded == Spec => []RetriesBounded
<1>1. IInv => RetriesBounded
  BY DEF IInv, RetriesAreCounted, RetriesBounded
<1>2. QED
  BY <1>1, Invariance, PTL

\* A client that is up has no attempt scheduled and a full budget for its next drop.
THEOREM UpLeavesNothing == Spec => []UpIsClean
<1>1. IInv => UpIsClean
  BY DEF IInv
<1>2. QED
  BY <1>1, Invariance, PTL

\* No status is announced that the client is not in: a drop that was held back is
\* announced only if the client is still down when its timer fires.
THEOREM AnnouncementsAreTrue == Spec => AnnouncesWhatIsSo
<1>1. ASSUME IInv, [Next]_vars, UNCHANGED vars \/ out' = {}
      PROVE  [\A e \in out' : e.name \in StatusEvents => lastStatus' = e.name]_vars
  BY <1>1
<1>2. ASSUME IInv, NEW update \in Reports, Report(update)
      PROVE  \A e \in out' : e.name \in StatusEvents => lastStatus' = e.name
  <2>1. lastStatus' = update.status
    BY <1>2 DEF Report, Apply
  <2>2. out' = {} \/ out' = DerivedEvents(update, lastStatus)
    BY <1>2 DEF Report, Apply, AnnounceDisconnect, Emit
  <2>3. \A e \in DerivedEvents(update, lastStatus) :
           e.name \in StatusEvents => e.name = update.status
    BY DEF DerivedEvents, StatusEvents
  <2>4. QED
    BY <2>1, <2>2, <2>3
<1>3. ASSUME IInv, AnnounceTimerFires
      PROVE  \A e \in out' : e.name \in StatusEvents => lastStatus' = e.name
  BY <1>3 DEF AnnounceTimerFires, Emit
<1>4. IInv /\ [Next]_vars
        => [\A e \in out' : e.name \in StatusEvents => lastStatus' = e.name]_vars
  <2> SUFFICES ASSUME IInv, [Next]_vars
               PROVE  [\A e \in out' : e.name \in StatusEvents => lastStatus' = e.name]_vars
    OBVIOUS
  <2>1. \/ UNCHANGED vars \/ out' = {}
        \/ AnnounceTimerFires
        \/ \E update \in Reports : Report(update)
    BY DEF Next, Bootstrap, InitializeRejects, RetryTimerFires, RestartPressed,
           RestartResumes, RestartFails, Shutdown, Destroyed, Emit
  <2>2. QED
    BY <2>1, <1>1, <1>2, <1>3
<1>5. QED
  BY <1>4, Invariance, PTL DEF Spec, AnnouncesWhatIsSo

\* The runner never initializes over a session that is up, coming up, or being
\* started by a dashboard restart or by an earlier attempt.
THEOREM RetriesAreSafe == Spec => RetryOnlyOverDeadSession
<1>1. Init => DeadWhileScheduled
  BY DEF Init, DeadWhileScheduled
<1>2. TypeOK /\ DeadWhileScheduled /\ [Next]_vars => DeadWhileScheduled'
  <2> SUFFICES ASSUME TypeOK, DeadWhileScheduled, [Next]_vars PROVE DeadWhileScheduled'
    OBVIOUS
  <2>1. ASSUME NEW update \in Reports, Report(update) PROVE DeadWhileScheduled'
    BY <2>1 DEF Report, DeadWhileScheduled
  <2>2. CASE AnnounceTimerFires
    BY <2>2 DEF AnnounceTimerFires, runnerVars, DeadWhileScheduled
  <2>3. CASE RetryTimerFires \/ Shutdown
    BY <2>3 DEF RetryTimerFires, Shutdown, DeadWhileScheduled
  <2>4. CASE RestartResumes
    BY <2>4 DEF RestartResumes, DeadWhileScheduled
  <2>5. CASE Bootstrap \/ InitializeRejects \/ RestartPressed \/ RestartFails \/ Destroyed
    BY <2>5 DEF Bootstrap, InitializeRejects, RestartPressed, RestartFails, Destroyed,
                runnerVars, DeadWhileScheduled
  <2>6. CASE UNCHANGED vars
    BY <2>6 DEF vars, runnerVars, DeadWhileScheduled
  <2>7. QED
    BY <2>1, <2>2, <2>3, <2>4, <2>5, <2>6 DEF Next
<1>3. DeadWhileScheduled
        => [RetryTimerFires /\ retries' # retries => session \in {"idle", "disconnected"}]_vars
  BY DEF DeadWhileScheduled, RetryTimerFires
<1>4. QED
  BY <1>1, <1>2, <1>3, TypeCorrect, PTL DEF Spec, RetryOnlyOverDeadSession
-----------------------------------------------------------------------------
(***************************************************************************)
(* Adapters that never recover without reporting the attempt first.        *)
(***************************************************************************)
UpInv == IInv /\ PendingMeansDown /\ UpIsTold

\* A client that comes up while no announcement is pending is announced, unless its
\* handlers know already.
LEMMA ReadyIsAnnounced ==
  ASSUME UpIsTold, NEW update \in Reports, Report(update),
         update.status = "ready", announceTimer = FALSE
  PROVE  heard' = "ready"
<1>1. Apply(update) /\ update.kind = NoReason
  BY DEF Report, Reports
<1>2. Emit(DerivedEvents(update, lastStatus))
  BY <1>1 DEF Apply
<1>3. CASE lastStatus = "ready"
  <2>1. DerivedEvents(update, lastStatus) = {}
    BY <1>3 DEF DerivedEvents, StatusEvents
  <2>2. heard' = heard
    BY <1>2, <2>1 DEF Emit, Names
  <2>3. QED
    BY <1>3, <2>2 DEF UpIsTold
<1>4. CASE lastStatus # "ready"
  <2>1. DerivedEvents(update, lastStatus) = {[name |-> "ready", kind |-> NoReason]}
    BY <1>1, <1>4 DEF DerivedEvents, StatusEvents
  <2>2. Names(DerivedEvents(update, lastStatus)) = {"ready"}
    BY <2>1 DEF Names
  <2>3. QED
    BY <1>2, <2>2 DEF Emit
<1>5. QED
  BY <1>3, <1>4

LEMMA ReadyReport ==
  ASSUME UpInv, NoDirectRecovery, NEW update \in Reports, Report(update),
         update.status = "ready"
  PROVE  heard' = "ready"
<1>1. announceTimer = FALSE
  BY DEF Report, UpInv, IInv, TypeOK, PendingMeansDown, NoDirectRecovery
<1>2. QED
  BY <1>1, ReadyIsAnnounced DEF UpInv

\* Under every other action the last status stays, and handlers who were told
\* ready keep knowing it: the only other announcement is of a client that is down.
LEMMA UpInvStep == NoDirectRecovery /\ UpInv /\ [Next]_vars => UpInv'
<1> SUFFICES ASSUME NoDirectRecovery, UpInv, [Next]_vars
             PROVE  PendingMeansDown' /\ UpIsTold'
  BY IInvStep DEF UpInv
<1>u. PendingMeansDown /\ UpIsTold /\ PendingIsCurrent
  BY DEF UpInv, IInv
<1>1. ASSUME NEW update \in Reports, Report(update)
      PROVE  PendingMeansDown' /\ UpIsTold'
  <2>1. session' = update.status /\ lastStatus' = update.status /\ Apply(update)
    BY <1>1 DEF Report, Apply
  <2>2. UpIsTold'
    BY <1>1, <2>1, ReadyReport DEF UpIsTold
  <2>3. PendingMeansDown'
    BY <2>1 DEF Apply, ClearPendingDisconnect, PendingMeansDown
  <2>4. QED
    BY <2>2, <2>3
<1>2. CASE AnnounceTimerFires
  <2>1. lastStatus' = "disconnected" /\ announceTimer' = FALSE
    BY <1>2, <1>u DEF AnnounceTimerFires, ClearPendingDisconnect, PendingIsCurrent
  <2>2. QED
    BY <2>1 DEF PendingMeansDown, UpIsTold
<1>3. ASSUME heard' = heard, lastStatus' = lastStatus,
             announceTimer' = announceTimer \/ announceTimer' = FALSE,
             session' = session \/ session' \in {"disconnected", "idle", "starting"}
      PROVE  PendingMeansDown' /\ UpIsTold'
  BY <1>3, <1>u DEF PendingMeansDown, UpIsTold
<1>4. CASE \/ Bootstrap \/ InitializeRejects \/ RetryTimerFires \/ RestartPressed
           \/ RestartResumes \/ RestartFails \/ Shutdown \/ Destroyed
  <2>1. heard' = heard
    BY <1>4 DEF Bootstrap, InitializeRejects, RetryTimerFires, RestartPressed,
                RestartResumes, RestartFails, Shutdown, Destroyed, Emit, Names
  <2>2. /\ lastStatus' = lastStatus
        /\ announceTimer' = announceTimer \/ announceTimer' = FALSE
        /\ session' = session \/ session' \in {"disconnected", "idle", "starting"}
    BY <1>4 DEF Bootstrap, InitializeRejects, RetryTimerFires, RestartPressed,
                RestartResumes, RestartFails, Shutdown, Destroyed, sourceVars,
                ClearPendingDisconnect
  <2>3. QED
    BY <1>3, <2>1, <2>2
<1>5. CASE UNCHANGED vars
  BY <1>5, <1>3 DEF vars, sourceVars, outVars
<1>6. QED
  BY <1>1, <1>2, <1>4, <1>5 DEF Next

LEMMA UpInvInit == Init => UpInv
<1>z. 0 \in 0..AttemptCap
  BY AttemptCapAssumption
<1>1. Init => TypeOK
  BY <1>z DEF Init, TypeOK, Phase, Status, NoStatus, NoReason
<1>2. QED
  BY <1>1, MaxAttemptsAssumption
     DEF Init, UpInv, IInv, OutageToldOrPending, PendingIsCurrent, UpIsClean,
         RetriesAreCounted, PendingMeansDown, UpIsTold, NoStatus, Unlimited

\* Handlers of a client that is up have been told so after the last time they were
\* told it was down, if its adapter never recovers without a report in between.
THEOREM UpIsAlwaysTold == ASSUME NoDirectRecovery PROVE Spec => []UpIsTold
<1>1. UpInv /\ [Next]_vars => UpInv'
  BY UpInvStep, NoDirectRecovery
<1>2. UpInv => UpIsTold
  BY DEF UpInv
<1>3. QED
  BY <1>1, <1>2, UpInvInit, PTL DEF Spec

\* The client implements the safety of Announcements, step for step.
THEOREM ImplementsPromise == ASSUME NoDirectRecovery PROVE Spec => Promise!Spec
<1>1. Init => Promise!Init
  BY DEF Init, Promise!Init, NoStatus, Promise!NoStatus
<1>2. UpInv /\ [Next]_vars => UpInv'
  BY UpInvStep, NoDirectRecovery
<1>3. UpInv /\ [Next]_vars => [Promise!Next]_(Promise!vars)
  <2> SUFFICES ASSUME UpInv, [Next]_vars PROVE [Promise!Next]_(Promise!vars)
    OBVIOUS
  <2> USE DEF Promise!Next, Promise!vars
  <2>1. ASSUME NEW update \in Reports, Report(update) PROVE Promise!Next
    <3>1. /\ update.status \in Status /\ lastStatus' = update.status
          /\ disposed' = disposed /\ Apply(update)
      BY <2>1 DEF Report, Apply, Reports, Update
    <3>2. update.status = "ready" => heard' = "ready"
      BY <2>1, NoDirectRecovery, ReadyReport
    <3>3. Emit({}) \/ Emit(DerivedEvents(update, lastStatus))
      BY <3>1 DEF Apply, AnnounceDisconnect
    <3>4. update.status = "disconnected" => heard' \in {heard, "disconnected"}
      <4>1. update.status = "disconnected"
              => "ready" \notin Names(DerivedEvents(update, lastStatus))
        BY DEF DerivedEvents, Names
      <4>2. QED
        BY <3>3, <4>1 DEF Emit, Names
    <3>5. update.status \notin {"ready", "disconnected"} => heard' = heard
      <4>1. update.status \notin {"ready", "disconnected"}
              => /\ "ready" \notin Names(DerivedEvents(update, lastStatus))
                 /\ "disconnected" \notin Names(DerivedEvents(update, lastStatus))
        BY DEF DerivedEvents, Names
      <4>2. QED
        BY <3>3, <4>1 DEF Emit, Names
    <3>6. Promise!Become(update.status)
      BY <3>1, <3>2, <3>4, <3>5 DEF Promise!Become
    <3>7. QED
      BY <3>1, <3>6 DEF Status, Promise!Status
  <2>2. CASE AnnounceTimerFires
    <3>1. lastStatus = "disconnected"
      BY <2>2 DEF AnnounceTimerFires, UpInv, IInv, PendingIsCurrent
    <3>2. Names({[name |-> "disconnected", kind |-> pending]}) = {"disconnected"}
      BY DEF Names
    <3>3. heard' = "disconnected"
      BY <2>2, <3>1, <3>2 DEF AnnounceTimerFires, Emit
    <3>4. QED
      BY <2>2, <3>1, <3>3 DEF AnnounceTimerFires, Promise!TellDown
  <2>3. CASE Shutdown
    BY <2>3 DEF Shutdown, Emit, Names, Promise!Close
  <2>4. CASE \/ Bootstrap \/ InitializeRejects \/ RetryTimerFires \/ RestartPressed
             \/ RestartResumes \/ RestartFails \/ Destroyed
    <3>1. heard' = heard
      BY <2>4 DEF Bootstrap, InitializeRejects, RetryTimerFires, RestartPressed,
                  RestartResumes, RestartFails, Destroyed, Emit, Names
    <3>2. lastStatus' = lastStatus /\ disposed' = disposed
      BY <2>4 DEF Bootstrap, InitializeRejects, RetryTimerFires, RestartPressed,
                  RestartResumes, RestartFails, Destroyed, sourceVars
    <3>3. QED
      BY <3>1, <3>2
  <2>5. CASE UNCHANGED vars
    BY <2>5 DEF vars, sourceVars, outVars
  <2>6. QED
    BY <2>1, <2>2, <2>3, <2>4, <2>5 DEF Next
<1>4. QED
  BY <1>1, <1>2, <1>3, UpInvInit, PTL DEF Spec, Promise!Spec
-----------------------------------------------------------------------------
\* teardown() detaches the adapter from whatever it listens to.
LEMMA TeardownDetaches ==
  ASSUME unbind = listening, Teardown
  PROVE  unbind' = {} /\ listening' = {}
BY DEF Teardown

\* initialize() and every other teardown keep the invariant, because a second call
\* in flight is noted.
LEMMA CallStep ==
  ASSUME SocketInv, Notes(Disturbs), InitializeCalled
  PROVE  SocketInv'
<1>1. unbind' = {} /\ listening' = {}
  BY TeardownDetaches DEF SocketInv, InitializeCalled
<1>2. calls' = calls + 1 /\ calls \in Nat
  BY DEF SocketInv, InitializeCalled
<1>3. ~disturbed' => ~disturbed /\ ~Disturbs
  BY Zenon DEF Notes
<1>4. ~Disturbs => calls = 0
  BY <1>2 DEF Disturbs
<1> QED BY <1>1, <1>2, <1>3, <1>4 DEF SocketInv

LEMMA TeardownStep ==
  ASSUME SocketInv, disturbed => disturbed', Teardown, UNCHANGED calls
  PROVE  SocketInv'
<1>1. unbind' = {} /\ listening' = {}
  BY TeardownDetaches DEF SocketInv
<1> QED BY <1>1 DEF SocketInv

\* The end of an initialize() call binds the listeners to the socket it made.
LEMMA InitializeEndsStep ==
  ASSUME NEW s, NEW update, SocketInv, InitializeEnds(s, update), UNCHANGED disturbed
  PROVE  SocketInv'
<1>1. calls \in Nat /\ calls > 0 /\ calls' = calls - 1 /\ sock' = s
      /\ listening' = listening \cup {s} /\ unbind' = unbind \cup {s}
  BY DEF SocketInv, InitializeEnds
<1>2. ~disturbed => calls = 1 /\ listening = {}
  BY <1>1 DEF SocketInv
<1> QED BY <1>1, <1>2 DEF SocketInv

LEMMA InitializeFailsStep ==
  ASSUME SocketInv, InitializeFails, UNCHANGED disturbed
  PROVE  SocketInv'
BY DEF SocketInv, InitializeFails

\* Nothing else touches the listeners.
LEMMA BindingQuiet ==
  ASSUME SocketInv, UNCHANGED bindingVars, disturbed => disturbed'
  PROVE  SocketInv'
BY DEF SocketInv, bindingVars

LEMMA ReportStep ==
  ASSUME NEW s, NEW update, SocketInv, AdapterReports(s, update)
  PROVE  SocketInv'
<1>1. UNCHANGED disturbed
  BY DEF AdapterReports
<1>2. CASE InitializeEnds(s, update)
  BY <1>1, <1>2, InitializeEndsStep
<1>3. CASE ~InitializeEnds(s, update)
  <2>1. UNCHANGED bindingVars
    BY <1>3 DEF AdapterReports, Reported, Connecting, ShowsQr, CodeArrives, NewLogin,
                Opens, Closes, Cleared
  <2> QED BY <1>1, <2>1, BindingQuiet
<1> QED BY <1>2, <1>3

LEMMA MoveStep ==
  ASSUME NEW s, SocketInv, SocketMoves(s)
  PROVE  SocketInv'
<1>1. UNCHANGED bindingVars /\ UNCHANGED disturbed
  BY DEF SocketMoves, Unreported, AsksForCode, CodeFails, ClosesLoggedOut
<1> QED BY <1>1, BindingQuiet

\* Every step of the client keeps the invariant.
LEMMA SocketInvStep ==
  ASSUME SocketInv, [ClientNext]_clientVars
  PROVE  SocketInv'
<1>1. CASE Starts
  BY <1>1, CallStep DEF Starts
<1>2. CASE RunnerRetries
  <2>1. CASE entry = "disconnected"
    BY <1>2, <2>1, CallStep DEF RunnerRetries
  <2>2. CASE entry # "disconnected"
    <3>1. UNCHANGED bindingVars /\ UNCHANGED disturbed
      BY <1>2, <2>2 DEF RunnerRetries, socketVars, bindingVars
    <3> QED BY <3>1, BindingQuiet
  <2> QED BY <2>1, <2>2
<1>3. CASE AdapterRejects
  BY <1>3, InitializeFailsStep DEF AdapterRejects
<1>4. CASE Announces
  BY <1>4, BindingQuiet DEF Announces, socketVars, bindingVars
<1>5. ASSUME NEW s \in Sockets, SocketMoves(s) PROVE SocketInv'
  BY <1>5, MoveStep
<1>6. ASSUME NEW s \in Sockets, NEW u \in Reports, AdapterReports(s, u) PROVE SocketInv'
  BY <1>6, ReportStep
<1>17. ASSUME NEW s \in Sockets, SessionStays(s) PROVE SocketInv'
  BY <1>17 DEF SessionStays, ClearFails, Notes, SocketInv, bindingVars
<1>7. CASE PressRestart
  BY <1>7, TeardownStep DEF PressRestart, Destroy, Notes
<1>8. CASE PressForceQr
  BY <1>8, BindingQuiet DEF PressForceQr, LogoutCalled
<1>9. CASE PressLogout
  BY <1>9, BindingQuiet DEF PressLogout, LogoutCalled
<1>10. CASE LogoutGoesOn
  BY <1>10, TeardownStep DEF LogoutGoesOn, LogoutTearsDown, Notes
<1>11. CASE LogoutReturns
  BY <1>11, BindingQuiet DEF LogoutReturns, LogoutEnds
<1>12. CASE RestartGoesOn
  BY <1>12, CallStep DEF RestartGoesOn
<1>13. CASE RestartGivesUp
  BY <1>13, BindingQuiet DEF RestartGivesUp, LogoutEnds
<1>14. CASE ShutsDown
  BY <1>14, TeardownStep DEF ShutsDown, Destroy, Notes
<1>15. CASE DestroyReturns
  BY <1>15, BindingQuiet DEF DestroyReturns, socketVars, bindingVars
<1>16. CASE UNCHANGED clientVars
  BY <1>16, BindingQuiet DEF clientVars, socketVars, bindingVars
<1> QED
  BY <1>1, <1>2, <1>3, <1>4, <1>5, <1>6, <1>7, <1>8, <1>9, <1>10, <1>11, <1>12, <1>13,
     <1>14, <1>15, <1>16, <1>17 DEF ClientNext

\* The invariant of the adapter's listeners: BaileysAdapter.initialize, teardown
\* and bind, under every order of calls the core and the dashboard can make.
THEOREM SocketInvariance == ClientSpec => []SocketInv
<1>1. ClientInit => SocketInv
  BY DEF ClientInit, SocketInit, SocketInv
<1>2. SocketInv /\ [ClientNext]_clientVars => SocketInv'
  BY SocketInvStep
<1> QED BY <1>1, <1>2, PTL DEF ClientSpec

\* The adapter never listens to two sockets unless calls overlapped: no event of
\* a socket arrives twice, and no dead socket is heard.
THEOREM OneSocket == ClientSpec => []OneSocketUnlessDisturbed
<1>1. SocketInv => OneSocketUnlessDisturbed
  <2> SUFFICES ASSUME SocketInv, ~disturbed PROVE Cardinality(listening) <= 1
    BY DEF OneSocketUnlessDisturbed
  <2>1. listening = {} \/ listening = {sock}
    BY DEF SocketInv
  <2>2. Cardinality({}) = 0 /\ Cardinality({sock}) = 1
    BY FS_EmptySet, FS_Singleton
  <2> QED BY <2>1, <2>2
<1> QED BY <1>1, SocketInvariance, PTL
-----------------------------------------------------------------------------
(***************************************************************************)
(* The adapter under the core implements the core's model of a client.     *)
(***************************************************************************)

\* What the core sees of a client's step is a step of its own model, or nothing.
LEMMA ClientStepRefines == [ClientNext]_clientVars => [Next]_vars
<1> SUFFICES ASSUME [ClientNext]_clientVars PROVE [Next]_vars
  OBVIOUS
<1>1. CASE Starts \/ RunnerRetries \/ Announces
  BY <1>1 DEF Starts, RunnerRetries, Announces, Next
<1>2. CASE AdapterRejects
  BY <1>2 DEF AdapterRejects, coreVars, Next
<1>3. ASSUME NEW s \in Sockets, SocketMoves(s) PROVE [Next]_vars
  BY <1>3 DEF SocketMoves, coreVars
<1>4. ASSUME NEW s \in Sockets, NEW u \in Reports, AdapterReports(s, u) PROVE [Next]_vars
  BY <1>4 DEF AdapterReports, Next
<1>9. ASSUME NEW s \in Sockets, SessionStays(s) PROVE [Next]_vars
  BY <1>9 DEF SessionStays, coreVars
<1>5. CASE PressRestart \/ PressForceQr \/ RestartGoesOn \/ RestartGivesUp
  BY <1>5 DEF PressRestart, PressForceQr, RestartGoesOn, RestartGivesUp, Next
<1>6. CASE PressLogout \/ LogoutGoesOn \/ LogoutReturns
  BY <1>6 DEF PressLogout, LogoutGoesOn, LogoutReturns, coreVars
<1>7. CASE ShutsDown \/ DestroyReturns
  BY <1>7 DEF ShutsDown, DestroyReturns, Next
<1>8. CASE UNCHANGED clientVars
  BY <1>8 DEF clientVars, vars
<1> QED
  BY <1>1, <1>2, <1>3, <1>4, <1>5, <1>6, <1>7, <1>8, <1>9 DEF ClientNext

\* The composition of BaileysAdapter and the core's wiring behaves as the core's
\* model says a client does: all that is proved of Spec holds of it.
THEOREM ImplementsConnection == ClientSpec => Spec
<1>1. ClientInit => Init
  BY DEF ClientInit
<1> QED BY <1>1, ClientStepRefines, PTL DEF ClientSpec, Spec

\* So the core's inductive invariant is one of the composition.
LEMMA CoreInvariance == ClientSpec => []IInv
BY ImplementsConnection, Invariance, PTL
-----------------------------------------------------------------------------
(***************************************************************************)
(* The types of the adapter's state.                                       *)
(***************************************************************************)

LEMMA TeardownTypes ==
  ASSUME SocketTypeOK, Teardown
  PROVE  /\ sock' \in Sockets \cup {NoSocket} /\ link' \in [Sockets -> Link]
         /\ listening' \subseteq Sockets /\ unbind' \subseteq Sockets
BY DEF SocketTypeOK, Teardown, Link

LEMMA CallTypes ==
  ASSUME SocketTypeOK, InitializeCalled
  PROVE  SocketTypeOK'
<1>1. calls' \in 0..MaxCalls
  BY SocketAssumption DEF SocketTypeOK, InitializeCalled
<1> QED BY <1>1, TeardownTypes DEF SocketTypeOK, InitializeCalled

LEMMA DestroyTypes ==
  ASSUME SocketTypeOK, Destroy
  PROVE  SocketTypeOK'
BY TeardownTypes DEF SocketTypeOK, Destroy

LEMMA LogoutTypes ==
  ASSUME SocketTypeOK, LogoutCalled \/ LogoutTearsDown \/ LogoutEnds
  PROVE  SocketTypeOK'
<1>1. CASE LogoutCalled
  BY <1>1 DEF SocketTypeOK, LogoutCalled, bindingVars
<1>2. CASE LogoutTearsDown
  BY <1>2, TeardownTypes DEF SocketTypeOK, LogoutTearsDown
<1>3. CASE LogoutEnds
  BY <1>3 DEF SocketTypeOK, LogoutEnds, bindingVars
<1> QED BY <1>1, <1>2, <1>3

LEMMA FewerCalls ==
  ASSUME SocketTypeOK, calls > 0, calls' = calls - 1
  PROVE  calls' \in 0..MaxCalls
BY SocketAssumption DEF SocketTypeOK

LEMMA ReportTypes ==
  ASSUME SocketTypeOK, NEW s \in Sockets, NEW u, Reported(s, u)
  PROVE  SocketTypeOK'
<1>1. CASE InitializeEnds(s, u)
  <2>1. calls' \in 0..MaxCalls
    BY <1>1, FewerCalls DEF InitializeEnds
  <2> QED BY <1>1, <2>1 DEF SocketTypeOK, InitializeEnds, Link
<1>2. CASE Connecting(s, u) \/ ShowsQr(s, u) \/ NewLogin(s, u) \/ Opens(s, u) \/ Closes(s, u)
  BY <1>2 DEF SocketTypeOK, Connecting, ShowsQr, NewLogin, Opens, Closes, Reaches,
              bindingVars, Link
<1>3. CASE CodeArrives(s, u) \/ Cleared(s, u)
  BY <1>3 DEF SocketTypeOK, CodeArrives, Cleared, bindingVars, Link
<1> QED BY <1>1, <1>2, <1>3 DEF Reported

LEMMA MoveTypes ==
  ASSUME SocketTypeOK, NEW s \in Sockets, Unreported(s)
  PROVE  SocketTypeOK'
BY DEF SocketTypeOK, Unreported, AsksForCode, CodeFails, ClosesLoggedOut, Reaches,
       bindingVars, Link

LEMMA SocketTypeStep ==
  ASSUME SocketTypeOK, [ClientNext]_clientVars
  PROVE  SocketTypeOK'
<1>1. ASSUME UNCHANGED socketVars PROVE SocketTypeOK'
  BY <1>1 DEF SocketTypeOK, socketVars, bindingVars
<1>2. CASE Starts \/ RunnerRetries \/ RestartGoesOn
  BY <1>1, <1>2, CallTypes DEF Starts, RunnerRetries, RestartGoesOn
<1>3. CASE AdapterRejects
  <2>1. calls' \in 0..MaxCalls
    BY <1>3, FewerCalls DEF AdapterRejects, InitializeFails
  <2> QED BY <1>3, <2>1 DEF AdapterRejects, InitializeFails, SocketTypeOK
<1>4. ASSUME NEW s \in Sockets, SocketMoves(s) PROVE SocketTypeOK'
  BY <1>4, MoveTypes DEF SocketMoves
<1>5. ASSUME NEW s \in Sockets, NEW u \in Reports, AdapterReports(s, u) PROVE SocketTypeOK'
  BY <1>5, ReportTypes DEF AdapterReports
<1>10. ASSUME NEW s \in Sockets, SessionStays(s) PROVE SocketTypeOK'
  BY <1>10 DEF SessionStays, ClearFails, SocketTypeOK, bindingVars
<1>6. CASE PressRestart \/ ShutsDown
  BY <1>6, DestroyTypes DEF PressRestart, ShutsDown
<1>7. CASE PressForceQr \/ PressLogout \/ LogoutGoesOn \/ LogoutReturns \/ RestartGivesUp
  BY <1>7, LogoutTypes DEF PressForceQr, PressLogout, LogoutGoesOn, LogoutReturns,
                           RestartGivesUp
<1>8. CASE Announces \/ DestroyReturns
  BY <1>1, <1>8 DEF Announces, DestroyReturns
<1>9. CASE UNCHANGED clientVars
  BY <1>1, <1>9 DEF clientVars
<1> QED
  BY <1>2, <1>3, <1>4, <1>5, <1>6, <1>7, <1>8, <1>9, <1>10 DEF ClientNext

\* Every variable of the client, the core's and the adapter's, keeps its type.
THEOREM ClientTypeCorrect == ClientSpec => []ClientTypeOK
<1>1. ASSUME ClientInit PROVE SocketTypeOK
  <2>1. SocketInit
    BY <1>1 DEF ClientInit
  <2>2. link \in [Sockets -> Link]
    BY <2>1 DEF SocketInit, Link
  <2>3. calls \in 0..MaxCalls
    BY <2>1, SocketAssumption DEF SocketInit
  <2> QED BY <2>1, <2>2, <2>3 DEF SocketInit, SocketTypeOK
<1>2. SocketTypeOK /\ [ClientNext]_clientVars => SocketTypeOK'
  BY SocketTypeStep
<1>3. IInv /\ SocketTypeOK => ClientTypeOK
  BY DEF IInv, ClientTypeOK
<1> QED BY <1>1, <1>2, <1>3, CoreInvariance, PTL DEF ClientSpec
-----------------------------------------------------------------------------
(***************************************************************************)
(* The order of reports.  What the adapter has reported goes with how far  *)
(* its current socket got, as long as nothing is left of an earlier one.   *)
(***************************************************************************)

\* A socket that Baileys has not closed yet.
Live == Link \ {"unmade", "closed"}

\* A pairing code is awaited from a socket that asked for one.
CodesAreAsked == \A s \in asking : link[s] \in {"asked", "closed"}

\* While no two calls overlap, nothing is left of a socket that is not the current
\* one, none is current while initialize() is in flight, and while one is live no
\* drop is waiting to be announced.
OneAtATime ==
  /\ calls > 0 => sock = NoSocket /\ clearing = {}
  /\ \A s \in Sockets : link[s] \in Live => s = sock /\ announceTimer = FALSE
  /\ \A s \in clearing : s = sock /\ link[s] = "closed"

\* The status last reported, for each point a live socket can be at.
Said(at) == CASE at \in {"made", "connecting", "asked"} -> {"initializing"}
              [] at = "pairing" -> {"qr_received", "pairing_code_received"}
              [] at = "paired"  -> {"authenticated"}
              [] at = "open"    -> {"ready"}

Reporting ==
  /\ calls > 0 => session = "starting"
  /\ \A s \in Sockets : link[s] \in Live => session \in Said(link[s])
  /\ clearing # {} => session \in Status \ {"disconnected"}

\* A client that is said to be ready and is not open is about to say otherwise, or
\* is being restarted; once a logout has torn the socket down it is not ready.
ReadyIsOpen ==
  entry = "ready" =>
    \/ sock # NoSocket /\ link[sock] = "open"
    \/ clearing # {}
    \/ restart /\ leaving = "no"

\* No client is up before it was started.
FreshIsDown == session = "unstarted" => entry = "initializing"

\* The inductive invariant.
ProtocolInv ==
  /\ CodesAreAsked /\ FreshIsDown
  /\ ~disturbed => OneAtATime
  /\ ~disturbed /\ ~disposed => Reporting /\ ReadyIsOpen

\* A calm step: it overlaps with nothing, or it is noted.
Calm == ~disturbed' => ~disturbed /\ calls = 0 /\ clearing = {}

LEMMA NotedIsCalm ==
  ASSUME SocketTypeOK, Notes(Disturbs)
  PROVE  Calm
<1>1. calls \in Nat
  BY SocketAssumption DEF SocketTypeOK
<1>2. ~disturbed' => ~disturbed /\ ~Disturbs
  BY Zenon DEF Notes
<1> QED BY <1>1, <1>2 DEF Calm, Disturbs

\* teardown() leaves no live socket, if the current one was the only one.
LEMMA TeardownCloses ==
  ASSUME SocketTypeOK, Teardown
  PROVE  /\ sock' = NoSocket
         /\ CodesAreAsked /\ UNCHANGED asking => CodesAreAsked'
         /\ OneAtATime => \A s \in Sockets : link'[s] \notin Live
BY DEF SocketTypeOK, Teardown, CodesAreAsked, OneAtATime, Live, Link

\* initialize() up to its first await, called by the bootstrap, the runner or a
\* restart.
LEMMA CallProtocol ==
  ASSUME SocketTypeOK, ProtocolInv, InitializeCalled, Calm,
         session' = "starting", entry' # "ready", UNCHANGED disposed
  PROVE  ProtocolInv'
<1>1. Teardown /\ calls' = calls + 1 /\ UNCHANGED <<asking, clearing>>
  BY DEF InitializeCalled
<1>2. CodesAreAsked' /\ FreshIsDown'
  BY <1>1, TeardownCloses DEF ProtocolInv, FreshIsDown
<1>3. ASSUME ~disturbed' PROVE OneAtATime' /\ Reporting' /\ ReadyIsOpen'
  <2>1. OneAtATime /\ clearing' = {}
    BY <1>1, <1>3 DEF Calm, ProtocolInv
  <2>2. sock' = NoSocket /\ \A s \in Sockets : link'[s] \notin Live
    BY <1>1, <2>1, TeardownCloses
  <2> QED BY <2>1, <2>2 DEF OneAtATime, Reporting, ReadyIsOpen
<1> QED BY <1>2, <1>3 DEF ProtocolInv

\* destroy(), and the teardown of logout().
LEMMA TeardownProtocol ==
  ASSUME SocketTypeOK, ProtocolInv, Teardown, Calm, UNCHANGED <<calls, asking, clearing>>,
         UNCHANGED <<session, entry>>, disposed => disposed',
         ~disturbed' /\ ~disposed' /\ entry = "ready" => restart' /\ leaving' = "no"
  PROVE  ProtocolInv'
<1>1. CodesAreAsked' /\ FreshIsDown'
  BY TeardownCloses DEF ProtocolInv, FreshIsDown
<1>2. ASSUME ~disturbed' PROVE OneAtATime'
  <2>1. OneAtATime /\ clearing' = {} /\ calls' = 0
    BY <1>2 DEF Calm, ProtocolInv
  <2>2. \A s \in Sockets : link'[s] \notin Live
    BY <2>1, TeardownCloses
  <2> QED BY <2>1, <2>2 DEF OneAtATime
<1>3. ASSUME ~disturbed', ~disposed' PROVE Reporting' /\ ReadyIsOpen'
  <2>1. OneAtATime /\ clearing' = {} /\ calls' = 0
    BY <1>3 DEF Calm, ProtocolInv
  <2>2. \A s \in Sockets : link'[s] \notin Live
    BY <2>1, TeardownCloses
  <2> QED BY <1>3, <2>1, <2>2 DEF Reporting, ReadyIsOpen
<1> QED BY <1>1, <1>2, <1>3 DEF ProtocolInv

\* A step that leaves the sockets alone.
LEMMA QuietProtocol ==
  ASSUME ProtocolInv, UNCHANGED <<sock, link, calls, asking, clearing>>,
         disturbed => disturbed', disposed => disposed',
         announceTimer' = announceTimer \/ announceTimer' = FALSE,
         ~disposed' => session' = session, FreshIsDown',
         ~disturbed' /\ ~disposed' /\ ReadyIsOpen => ReadyIsOpen'
  PROVE  ProtocolInv'
<1>1. CodesAreAsked'
  BY DEF ProtocolInv, CodesAreAsked
<1>2. ~disturbed' => OneAtATime'
  BY DEF ProtocolInv, OneAtATime
<1>3. ~disturbed' /\ ~disposed' => Reporting' /\ ReadyIsOpen'
  BY DEF ProtocolInv, Reporting
<1> QED BY <1>1, <1>2, <1>3 DEF ProtocolInv

\* initialize() rejects: no socket was made.
LEMMA RejectProtocol ==
  ASSUME SocketTypeOK, SocketInv, ProtocolInv, AdapterRejects
  PROVE  ProtocolInv'
<1>1. /\ calls > 0 /\ calls' = calls - 1 /\ calls \in Nat
      /\ UNCHANGED <<sock, link, asking, clearing, leaving, disturbed>>
  BY DEF AdapterRejects, InitializeFails, SocketInv
<1>2. /\ UNCHANGED <<entry, announceTimer, disposed, restart>>
      /\ session' = session \/ (session = "starting" /\ session' = "idle")
  BY DEF AdapterRejects, InitializeRejects, coreVars, vars, sourceVars
<1>3. CodesAreAsked' /\ FreshIsDown'
  BY <1>1, <1>2 DEF ProtocolInv, CodesAreAsked, FreshIsDown
<1>4. ASSUME ~disturbed' PROVE OneAtATime'
  BY <1>1, <1>2, <1>4 DEF ProtocolInv, OneAtATime
<1>5. ASSUME ~disturbed', ~disposed' PROVE Reporting' /\ ReadyIsOpen'
  <2>1. OneAtATime /\ Reporting /\ ReadyIsOpen /\ calls = 1
    BY <1>1, <1>2, <1>5 DEF ProtocolInv, SocketInv
  <2>2. \A s \in Sockets : link'[s] \notin Live
    BY <1>1, <2>1, SocketAssumption DEF OneAtATime
  <2> QED BY <1>1, <1>2, <2>1, <2>2 DEF OneAtATime, Reporting, ReadyIsOpen
<1> QED BY <1>3, <1>4, <1>5 DEF ProtocolInv

\* What the listener of connectionUpdate leaves, as far as the protocol goes.
LEMMA ReportEffects ==
  ASSUME NEW u \in Reports, Report(u)
  PROVE  /\ u.status \in Status /\ session' = u.status /\ entry' = u.status
         /\ UNCHANGED <<restart, disposed>> /\ FreshIsDown'
         /\ u.status # "disconnected" => announceTimer' = FALSE
<1>1. u.status \in Status
  BY DEF Reports, Update
<1>2. session' = u.status /\ entry' = u.status /\ UNCHANGED <<restart, disposed>>
  BY DEF Report
<1>3. u.status # "disconnected" => announceTimer' = FALSE
  BY DEF Report, Apply, ClearPendingDisconnect
<1>4. u.status # "unstarted"
  BY <1>1 DEF Status
<1> QED BY <1>1, <1>2, <1>3, <1>4 DEF FreshIsDown

\* A live socket gets further and the adapter says so.
LEMMA ProgressProtocol ==
  ASSUME SocketTypeOK, ProtocolInv, NEW s \in Sockets, NEW u \in Reports, Report(u),
         UNCHANGED <<sock, calls, clearing, disturbed>>, CodesAreAsked',
         NEW at \in Live, link[s] \in Live, link' = [link EXCEPT ![s] = at],
         u.status \in Said(at), u.status # "disconnected", u.status = "ready" => at = "open"
  PROVE  ProtocolInv'
<1>1. /\ session' = u.status /\ entry' = u.status /\ UNCHANGED <<restart, disposed>>
      /\ FreshIsDown' /\ announceTimer' = FALSE
  BY ReportEffects
<1>2. link'[s] = at /\ \A t \in Sockets \ {s} : link'[t] = link[t]
  BY DEF SocketTypeOK
<1>3. ASSUME ~disturbed
      PROVE  /\ s = sock /\ ~(calls' > 0)
             /\ clearing' = {} /\ \A t \in Sockets : link'[t] \in Live => t = s
  <2>1. OneAtATime
    BY <1>3 DEF ProtocolInv
  <2>2. s = sock /\ sock # NoSocket
    BY <2>1, SocketAssumption DEF OneAtATime
  <2>3. clearing = {}
    BY <2>1, <2>2 DEF OneAtATime, Live
  <2> QED BY <1>2, <2>1, <2>2, <2>3 DEF OneAtATime
<1>4. ~disturbed => OneAtATime'
  BY <1>1, <1>3 DEF OneAtATime, ProtocolInv
<1>5. ~disturbed => Reporting'
  BY <1>1, <1>2, <1>3 DEF Reporting
<1>6. ASSUME ~disturbed, entry' = "ready" PROVE sock' # NoSocket /\ link'[sock'] = "open"
  <2>1. sock' = s /\ s # NoSocket
    BY <1>3, <1>6, SocketAssumption
  <2>2. link'[s] = "open"
    BY <1>1, <1>2, <1>6
  <2> QED BY <2>1, <2>2
<1> QED BY <1>1, <1>4, <1>5, <1>6 DEF ProtocolInv, ReadyIsOpen

\* initialize() ends by reporting its new socket, the only live one.
LEMMA EndsProtocol ==
  ASSUME SocketTypeOK, SocketInv, ProtocolInv, NEW s \in Sockets, NEW u \in Reports,
         Report(u), InitializeEnds(s, u), UNCHANGED disturbed
  PROVE  ProtocolInv'
<1>1. /\ calls > 0 /\ calls' = calls - 1 /\ calls \in Nat
      /\ sock' = s /\ link' = [link EXCEPT ![s] = "made"]
      /\ UNCHANGED <<asking, clearing>> /\ u.status = "initializing" /\ s \notin asking
  BY DEF InitializeEnds, SocketInv, Forgotten, Says
<1>2. /\ session' = "initializing" /\ entry' = "initializing" /\ disposed' = disposed
      /\ announceTimer' = FALSE
  BY <1>1, ReportEffects
<1>3. link'[s] = "made" /\ \A t \in Sockets \ {s} : link'[t] = link[t]
  BY <1>1 DEF SocketTypeOK
<1>4. CodesAreAsked'
  BY <1>1, <1>3 DEF ProtocolInv, CodesAreAsked, SocketTypeOK
<1>5. ASSUME ~disturbed
      PROVE  calls' = 0 /\ clearing' = {} /\ \A t \in Sockets : link'[t] \in Live => t = s
  <2>1. OneAtATime /\ calls = 1
    BY <1>1, <1>5 DEF ProtocolInv, SocketInv
  <2>2. \A t \in Sockets : link[t] \notin Live
    BY <2>1, SocketAssumption DEF OneAtATime
  <2> QED BY <1>1, <1>3, <2>1, <2>2 DEF OneAtATime
<1>6. ~disturbed => OneAtATime'
  BY <1>1, <1>2, <1>5 DEF OneAtATime
<1>7. ~disturbed => Reporting'
  BY <1>2, <1>3, <1>5 DEF Reporting, Said
<1> QED BY <1>2, <1>4, <1>6, <1>7 DEF ProtocolInv, FreshIsDown, ReadyIsOpen

\* The socket closes, and that is reported at once ...
LEMMA ClosesProtocol ==
  ASSUME SocketTypeOK, ProtocolInv, NEW s \in Sockets, NEW u \in Reports,
         Report(u), Closes(s, u), UNCHANGED disturbed
  PROVE  ProtocolInv'
<1>1. /\ link[s] \in Live /\ link' = [link EXCEPT ![s] = "closed"]
      /\ UNCHANGED <<sock, calls, asking, clearing>> /\ u.status = "disconnected"
  BY DEF Closes, Reaches, Live, bindingVars, SaysClosed
<1>2. /\ session' = "disconnected" /\ entry' = "disconnected" /\ disposed' = disposed
      /\ FreshIsDown'
  BY <1>1, ReportEffects
<1>3. link'[s] = "closed" /\ \A t \in Sockets \ {s} : link'[t] = link[t]
  BY <1>1 DEF SocketTypeOK
<1>4. CodesAreAsked'
  BY <1>1, <1>3 DEF ProtocolInv, CodesAreAsked, SocketTypeOK
<1>5. ASSUME ~disturbed
      PROVE  ~(calls' > 0) /\ clearing' = {} /\ \A t \in Sockets : link'[t] \notin Live
  <2>1. OneAtATime
    BY <1>5 DEF ProtocolInv
  <2>2. s = sock /\ sock # NoSocket
    BY <1>1, <2>1, SocketAssumption DEF OneAtATime
  <2>3. clearing = {}
    BY <1>1, <2>1, <2>2 DEF OneAtATime, Live
  <2>4. \A t \in Sockets : link'[t] \in Live => t = s
    BY <1>3, <2>1, <2>2 DEF OneAtATime
  <2>5. link'[s] \notin Live
    BY <1>3 DEF Live
  <2> QED BY <1>1, <2>1, <2>2, <2>3, <2>4, <2>5 DEF OneAtATime
<1>6. ~disturbed => OneAtATime' /\ Reporting'
  BY <1>5 DEF OneAtATime, Reporting
<1> QED BY <1>2, <1>4, <1>6 DEF ProtocolInv, ReadyIsOpen

\* ... or, if WhatsApp logged the device out, once the session is cleared.
LEMMA ClearedProtocol ==
  ASSUME SocketTypeOK, ProtocolInv, NEW s \in Sockets, NEW u \in Reports,
         Report(u), Cleared(s, u), UNCHANGED disturbed
  PROVE  ProtocolInv'
<1>1. /\ s \in clearing /\ clearing' = clearing \ {s}
      /\ UNCHANGED <<sock, link, calls, asking>> /\ u.status = "disconnected"
  BY DEF Cleared, bindingVars, SaysClosed
<1>2. /\ session' = "disconnected" /\ entry' = "disconnected" /\ disposed' = disposed
      /\ FreshIsDown'
  BY <1>1, ReportEffects
<1>3. CodesAreAsked'
  BY <1>1 DEF ProtocolInv, CodesAreAsked
<1>4. ASSUME ~disturbed
      PROVE  ~(calls' > 0) /\ clearing' = {} /\ \A t \in Sockets : link'[t] \notin Live
  <2>1. OneAtATime
    BY <1>4 DEF ProtocolInv
  <2>2. s = sock /\ link[s] = "closed" /\ clearing = {s}
    BY <1>1, <2>1 DEF OneAtATime
  <2>3. ~(calls > 0)
    BY <2>1, <2>2 DEF OneAtATime
  <2>4. \A t \in Sockets : link[t] \notin Live
    BY <2>1, <2>2 DEF OneAtATime, Live
  <2> QED BY <1>1, <2>2, <2>3, <2>4
<1>5. ~disturbed => OneAtATime' /\ Reporting'
  BY <1>4 DEF OneAtATime, Reporting
<1> QED BY <1>2, <1>3, <1>5 DEF ProtocolInv, ReadyIsOpen

\* Every report of the adapter keeps the invariant.
LEMMA ReportProtocol ==
  ASSUME SocketTypeOK, SocketInv, ProtocolInv, NEW s \in Sockets, NEW u \in Reports,
         AdapterReports(s, u)
  PROVE  ProtocolInv'
<1>1. Report(u) /\ Reported(s, u) /\ UNCHANGED disturbed
  BY DEF AdapterReports
<1>2. CASE InitializeEnds(s, u)
  BY <1>1, <1>2, EndsProtocol
<1>3. CASE Closes(s, u)
  BY <1>1, <1>3, ClosesProtocol
<1>4. CASE Cleared(s, u)
  BY <1>1, <1>4, ClearedProtocol
<1>5. CASE Connecting(s, u)
  <2>1. /\ link[s] = "made" /\ link' = [link EXCEPT ![s] = "connecting"]
        /\ UNCHANGED <<sock, calls, asking, clearing>> /\ u.status = "initializing"
    BY <1>5 DEF Connecting, Reaches, bindingVars, Says
  <2>2. CodesAreAsked'
    BY <2>1 DEF ProtocolInv, CodesAreAsked, SocketTypeOK
  <2>3. link[s] \in Live /\ "connecting" \in Live /\ u.status \in Said("connecting")
    BY <2>1 DEF Live, Link, Said
  <2> QED BY <1>1, <2>1, <2>2, <2>3, ProgressProtocol
<1>6. CASE ShowsQr(s, u)
  <2>1. /\ link[s] \in {"connecting", "pairing"} /\ link' = [link EXCEPT ![s] = "pairing"]
        /\ UNCHANGED <<sock, calls, asking, clearing>> /\ u.status = "qr_received"
    BY <1>6 DEF ShowsQr, Reaches, bindingVars, Says
  <2>2. CodesAreAsked'
    BY <2>1 DEF ProtocolInv, CodesAreAsked, SocketTypeOK
  <2>3. link[s] \in Live /\ "pairing" \in Live /\ u.status \in Said("pairing")
    BY <2>1 DEF Live, Link, Said
  <2> QED BY <1>1, <2>1, <2>2, <2>3, ProgressProtocol
<1>7. CASE CodeArrives(s, u)
  <2>1. /\ s \in asking /\ asking' = asking \ {s}
        /\ link[s] # "closed" /\ link' = [link EXCEPT ![s] = "pairing"]
        /\ UNCHANGED <<sock, calls, clearing>> /\ u.status = "pairing_code_received"
    BY <1>7 DEF CodeArrives, bindingVars, Says
  <2>2. CodesAreAsked'
    BY <2>1 DEF ProtocolInv, CodesAreAsked, SocketTypeOK
  <2>3. link[s] = "asked"
    BY <2>1 DEF ProtocolInv, CodesAreAsked
  <2>4. link[s] \in Live /\ "pairing" \in Live /\ u.status \in Said("pairing")
    BY <2>1, <2>3 DEF Live, Link, Said
  <2> QED BY <1>1, <2>1, <2>2, <2>4, ProgressProtocol
<1>8. CASE NewLogin(s, u)
  <2>1. /\ link[s] = "pairing" /\ link' = [link EXCEPT ![s] = "paired"]
        /\ UNCHANGED <<sock, calls, asking, clearing>> /\ u.status = "authenticated"
    BY <1>8 DEF NewLogin, Reaches, bindingVars, Says
  <2>2. CodesAreAsked'
    BY <2>1 DEF ProtocolInv, CodesAreAsked, SocketTypeOK
  <2>3. link[s] \in Live /\ "paired" \in Live /\ u.status \in Said("paired")
    BY <2>1 DEF Live, Link, Said
  <2> QED BY <1>1, <2>1, <2>2, <2>3, ProgressProtocol
<1>9. CASE Opens(s, u)
  <2>1. /\ link[s] = "connecting" /\ link' = [link EXCEPT ![s] = "open"]
        /\ UNCHANGED <<sock, calls, asking, clearing>> /\ u.status = "ready"
    BY <1>9 DEF Opens, Reaches, bindingVars, Says
  <2>2. CodesAreAsked'
    BY <2>1 DEF ProtocolInv, CodesAreAsked, SocketTypeOK
  <2>3. link[s] \in Live /\ "open" \in Live /\ u.status \in Said("open")
    BY <2>1 DEF Live, Link, Said
  <2> QED BY <1>1, <2>1, <2>2, <2>3, ProgressProtocol
<1> QED
  BY <1>1, <1>2, <1>3, <1>4, <1>5, <1>6, <1>7, <1>8, <1>9 DEF Reported

\* A socket asks for a pairing code: where it stands, nothing new was reported.
LEMMA AsksProtocol ==
  ASSUME SocketTypeOK, ProtocolInv, NEW s \in Sockets, AsksForCode(s),
         UNCHANGED <<coreVars, disturbed>>
  PROVE  ProtocolInv'
<1>1. /\ link[s] = "connecting" /\ link' = [link EXCEPT ![s] = "asked"]
      /\ asking' = asking \cup {s} /\ UNCHANGED <<sock, calls, clearing, leaving>>
  BY DEF AsksForCode, Reaches, bindingVars
<1>2. UNCHANGED <<session, entry, restart, disposed, announceTimer>>
  BY DEF coreVars, vars, sourceVars
<1>3. link'[s] = "asked" /\ \A t \in Sockets \ {s} : link'[t] = link[t]
  BY <1>1 DEF SocketTypeOK
<1>4. CodesAreAsked' /\ FreshIsDown'
  BY <1>1, <1>2, <1>3 DEF ProtocolInv, CodesAreAsked, SocketTypeOK, FreshIsDown
<1>5. link[s] \in Live /\ link'[s] \in Live
  BY <1>1, <1>3 DEF Live, Link
<1>6. \A t \in Sockets : /\ link'[t] \in Live => link[t] \in Live
                         /\ Said(link'[t]) = Said(link[t])
  BY <1>1, <1>3, <1>5 DEF Said
<1>7. ~disturbed => OneAtATime'
  <2> SUFFICES ASSUME ~disturbed PROVE OneAtATime'
    OBVIOUS
  <2>1. OneAtATime
    BY DEF ProtocolInv
  <2>2. clearing = {}
    BY <1>1, <1>5, <2>1 DEF OneAtATime, Live
  <2> QED BY <1>1, <1>2, <1>6, <2>1, <2>2 DEF OneAtATime
<1>8. ASSUME ~disturbed, ~disposed PROVE Reporting' /\ ReadyIsOpen'
  <2>1. Reporting /\ ReadyIsOpen /\ OneAtATime
    BY <1>8 DEF ProtocolInv
  <2>2. Reporting'
    BY <1>1, <1>2, <1>6, <2>1 DEF Reporting
  <2>3. sock = s
    BY <1>5, <2>1 DEF OneAtATime
  <2>4. ReadyIsOpen'
    BY <1>1, <1>2, <2>1, <2>3 DEF ReadyIsOpen
  <2> QED BY <2>2, <2>4
<1> QED BY <1>2, <1>4, <1>7, <1>8 DEF ProtocolInv

\* A logged-out close: its report is still to come.
LEMMA ClosesLoggedOutProtocol ==
  ASSUME SocketTypeOK, ProtocolInv, NEW s \in Sockets, ClosesLoggedOut(s),
         UNCHANGED <<coreVars, disturbed>>
  PROVE  ProtocolInv'
<1>1. /\ link[s] \in Live /\ link' = [link EXCEPT ![s] = "closed"]
      /\ clearing' = clearing \cup {s} /\ UNCHANGED <<sock, calls, asking, leaving>>
  BY DEF ClosesLoggedOut, Reaches, bindingVars, Live
<1>2. UNCHANGED <<session, entry, restart, disposed, announceTimer>>
  BY DEF coreVars, vars, sourceVars
<1>3. link'[s] = "closed" /\ \A t \in Sockets \ {s} : link'[t] = link[t]
  BY <1>1 DEF SocketTypeOK
<1>4. CodesAreAsked' /\ FreshIsDown'
  BY <1>1, <1>2, <1>3 DEF ProtocolInv, CodesAreAsked, SocketTypeOK, FreshIsDown
<1>5. ASSUME ~disturbed
      PROVE  /\ s = sock /\ clearing' = {s} /\ ~(calls' > 0)
             /\ \A t \in Sockets : link'[t] \notin Live
  <2>1. OneAtATime
    BY <1>5 DEF ProtocolInv
  <2>2. s = sock /\ sock # NoSocket
    BY <1>1, <2>1, SocketAssumption DEF OneAtATime
  <2>3. clearing = {}
    BY <1>1, <2>1, <2>2 DEF OneAtATime, Live
  <2>4. \A t \in Sockets : link'[t] \in Live => t = s
    BY <1>3, <2>1, <2>2 DEF OneAtATime
  <2>5. link'[s] \notin Live
    BY <1>3 DEF Live
  <2> QED BY <1>1, <2>1, <2>2, <2>3, <2>4, <2>5 DEF OneAtATime
<1>6. ~disturbed => OneAtATime'
  BY <1>1, <1>3, <1>5 DEF OneAtATime
<1>7. ASSUME ~disturbed, ~disposed PROVE Reporting' /\ ReadyIsOpen'
  <2>1. session \in Said(link[s])
    BY <1>1, <1>7 DEF ProtocolInv, Reporting
  <2>2. session \in Status \ {"disconnected"}
    BY <1>1, <2>1 DEF Live, Link, Said, Status
  <2> QED BY <1>2, <1>5, <1>7, <2>2 DEF Reporting, ReadyIsOpen
<1> QED BY <1>2, <1>4, <1>6, <1>7 DEF ProtocolInv

LEMMA MoveProtocol ==
  ASSUME SocketTypeOK, ProtocolInv, NEW s \in Sockets, SocketMoves(s)
  PROVE  ProtocolInv'
<1>1. Unreported(s) /\ UNCHANGED <<coreVars, disturbed>>
  BY DEF SocketMoves
<1>2. CASE AsksForCode(s)
  BY <1>1, <1>2, AsksProtocol
<1>3. CASE ClosesLoggedOut(s)
  BY <1>1, <1>3, ClosesLoggedOutProtocol
<1>4. CASE CodeFails(s)
  <2>1. asking' \subseteq asking /\ UNCHANGED <<sock, link, calls, clearing, leaving>>
    BY <1>4 DEF CodeFails, bindingVars
  <2>2. UNCHANGED <<session, entry, restart, disposed, announceTimer>>
    BY <1>1 DEF coreVars, vars, sourceVars
  <2>3. CodesAreAsked'
    BY <2>1 DEF ProtocolInv, CodesAreAsked
  <2> QED
    BY <1>1, <2>1, <2>2, <2>3
       DEF ProtocolInv, FreshIsDown, OneAtATime, Reporting, ReadyIsOpen
<1> QED BY <1>1, <1>2, <1>3, <1>4 DEF Unreported

\* Every step of the client keeps the invariant.
LEMMA ProtocolStep ==
  ASSUME SocketTypeOK, SocketInv, ProtocolInv, [ClientNext]_clientVars
  PROVE  ProtocolInv'
<1>1. CASE Starts
  <2>1. session' = "starting" /\ entry' = entry /\ disposed' = disposed
        /\ entry = "initializing"
    BY <1>1 DEF Starts, Bootstrap, ProtocolInv, FreshIsDown
  <2>2. InitializeCalled /\ Calm
    BY <1>1, NotedIsCalm DEF Starts
  <2> QED BY <2>1, <2>2, CallProtocol
<1>2. CASE RunnerRetries
  <2>1. CASE entry = "disconnected"
    <3>1. session' = "starting" /\ entry' = entry /\ disposed' = disposed
      BY <1>2, <2>1 DEF RunnerRetries, RetryTimerFires
    <3>2. InitializeCalled /\ Calm
      BY <1>2, <2>1, NotedIsCalm DEF RunnerRetries
    <3> QED BY <2>1, <3>1, <3>2, CallProtocol
  <2>2. CASE entry # "disconnected"
    <3>1. UNCHANGED <<session, entry, restart, disposed, announceTimer>>
      BY <1>2, <2>2 DEF RunnerRetries, RetryTimerFires, sourceVars
    <3>2. UNCHANGED <<sock, link, calls, asking, clearing, leaving, disturbed>>
      BY <1>2, <2>2 DEF RunnerRetries, socketVars, bindingVars
    <3>3. FreshIsDown' /\ (ReadyIsOpen => ReadyIsOpen')
      BY <3>1, <3>2 DEF ProtocolInv, FreshIsDown, ReadyIsOpen
    <3> QED BY <3>1, <3>2, <3>3, QuietProtocol
  <2> QED BY <2>1, <2>2
<1>3. CASE AdapterRejects
  BY <1>3, RejectProtocol
<1>4. CASE Announces
  <2>1. UNCHANGED <<session, entry, restart, disposed>> /\ announceTimer' = FALSE
    BY <1>4 DEF Announces, AnnounceTimerFires, ClearPendingDisconnect
  <2>2. UNCHANGED <<sock, link, calls, asking, clearing, leaving, disturbed>>
    BY <1>4 DEF Announces, socketVars, bindingVars
  <2>3. FreshIsDown' /\ (ReadyIsOpen => ReadyIsOpen')
    BY <2>1, <2>2 DEF ProtocolInv, FreshIsDown, ReadyIsOpen
  <2> QED BY <2>1, <2>2, <2>3, QuietProtocol
<1>5. ASSUME NEW s \in Sockets, SocketMoves(s) PROVE ProtocolInv'
  BY <1>5, MoveProtocol
<1>6. ASSUME NEW s \in Sockets, NEW u \in Reports, AdapterReports(s, u) PROVE ProtocolInv'
  BY <1>6, ReportProtocol
<1>15. ASSUME NEW s \in Sockets, SessionStays(s) PROVE ProtocolInv'
  <2>1. disturbed' /\ UNCHANGED <<link, asking>>
    BY <1>15 DEF SessionStays, ClearFails, Notes
  <2>2. UNCHANGED <<session, entry>>
    BY <1>15 DEF SessionStays, coreVars, vars
  <2> QED BY <2>1, <2>2 DEF ProtocolInv, CodesAreAsked, FreshIsDown
<1>7. CASE PressRestart
  <2>1. /\ UNCHANGED <<session, entry, disposed>> /\ restart' = TRUE
        /\ leaving' = "no" /\ Teardown /\ UNCHANGED <<calls, asking, clearing>>
    BY <1>7 DEF PressRestart, RestartPressed, Destroy
  <2>2. Calm
    BY <1>7, NotedIsCalm DEF PressRestart
  <2> QED BY <2>1, <2>2, TeardownProtocol
<1>8. CASE PressForceQr \/ PressLogout
  <2>1. /\ UNCHANGED <<session, entry, disposed, announceTimer>> /\ restart = FALSE
        /\ leaving = "no"
    BY <1>8 DEF PressForceQr, PressLogout, RestartPressed, LogoutCalled, coreVars, vars,
                sourceVars
  <2>2. UNCHANGED <<sock, link, calls, asking, clearing, disturbed>>
    BY <1>8 DEF PressForceQr, PressLogout, LogoutCalled, bindingVars
  <2>3. FreshIsDown' /\ (ReadyIsOpen => ReadyIsOpen')
    BY <2>1, <2>2 DEF ProtocolInv, FreshIsDown, ReadyIsOpen
  <2> QED BY <2>1, <2>2, <2>3, QuietProtocol
<1>9. CASE LogoutGoesOn
  <2>1. /\ UNCHANGED <<session, entry, disposed, restart>> /\ leaving = "asked"
        /\ Teardown /\ UNCHANGED <<calls, asking, clearing>>
    BY <1>9 DEF LogoutGoesOn, LogoutTearsDown, coreVars, vars
  <2>2. ~disturbed' => ~disturbed /\ ~(Disturbs \/ ~LogoutWorked)
    BY <1>9, Zenon DEF LogoutGoesOn, Notes
  <2>3. Calm
    BY <2>2 DEF Calm, Disturbs, SocketInv
  <2>4. ASSUME ~disturbed', ~disposed', entry = "ready" PROVE FALSE
    <3>1. ReadyIsOpen
      BY <2>1, <2>2, <2>4 DEF ProtocolInv
    <3>2. LogoutWorked /\ clearing = {}
      BY <2>2, <2>4 DEF Disturbs
    <3> QED BY <2>1, <2>4, <3>1, <3>2 DEF ReadyIsOpen, LogoutWorked
  <2> QED BY <2>1, <2>3, <2>4, TeardownProtocol
<1>10. CASE LogoutReturns \/ RestartGivesUp
  <2>1. UNCHANGED <<session, entry, disposed, announceTimer>>
    BY <1>10 DEF LogoutReturns, RestartGivesUp, RestartFails, LogoutEnds, coreVars, vars,
                 sourceVars
  <2>2. UNCHANGED <<sock, link, calls, asking, clearing, disturbed>>
    BY <1>10 DEF LogoutReturns, RestartGivesUp, LogoutEnds, bindingVars
  <2>3. leaving = "clearing"
    BY <1>10 DEF LogoutReturns, RestartGivesUp, LogoutEnds
  <2>4. FreshIsDown' /\ (ReadyIsOpen => ReadyIsOpen')
    BY <2>1, <2>2, <2>3 DEF ProtocolInv, FreshIsDown, ReadyIsOpen
  <2> QED BY <2>1, <2>2, <2>4, QuietProtocol
<1>11. CASE RestartGoesOn
  <2>1. session' = "starting" /\ entry' = "initializing" /\ disposed' = disposed
    BY <1>11 DEF RestartGoesOn, RestartResumes
  <2>2. InitializeCalled /\ Calm
    BY <1>11, NotedIsCalm DEF RestartGoesOn
  <2> QED BY <2>1, <2>2, CallProtocol
<1>12. CASE ShutsDown
  <2>1. /\ UNCHANGED <<session, entry>> /\ disposed' = TRUE
        /\ Teardown /\ UNCHANGED <<calls, asking, clearing>>
    BY <1>12 DEF ShutsDown, Shutdown, Destroy
  <2>2. Calm
    BY <1>12, NotedIsCalm DEF ShutsDown
  <2> QED BY <2>1, <2>2, TeardownProtocol
<1>13. CASE DestroyReturns
  <2>1. session' = "idle" /\ disposed /\ UNCHANGED <<disposed, announceTimer>>
    BY <1>13 DEF DestroyReturns, Destroyed, sourceVars
  <2>2. UNCHANGED <<sock, link, calls, asking, clearing, disturbed>>
    BY <1>13 DEF DestroyReturns, socketVars, bindingVars
  <2>3. FreshIsDown'
    BY <2>1 DEF FreshIsDown
  <2> QED BY <2>1, <2>2, <2>3, QuietProtocol
<1>14. CASE UNCHANGED clientVars
  <2>1. UNCHANGED <<session, entry, restart, disposed, announceTimer>>
    BY <1>14 DEF clientVars, vars, sourceVars
  <2>2. UNCHANGED <<sock, link, calls, asking, clearing, leaving, disturbed>>
    BY <1>14 DEF clientVars, socketVars, bindingVars
  <2>3. FreshIsDown' /\ (ReadyIsOpen => ReadyIsOpen')
    BY <2>1, <2>2 DEF ProtocolInv, FreshIsDown, ReadyIsOpen
  <2> QED BY <2>1, <2>2, <2>3, QuietProtocol
<1> QED
  BY <1>1, <1>2, <1>3, <1>4, <1>5, <1>6, <1>7, <1>8, <1>9, <1>10, <1>11, <1>12, <1>13,
     <1>14, <1>15 DEF ClientNext

\* The adapter's state as one invariant.
AdapterInv == SocketTypeOK /\ SocketInv /\ ProtocolInv

\* While calls do not overlap, what the adapter last reported tells how far its one
\* live socket got, whatever retries, restarts, Force QRs, logouts, logged-out
\* closes and late pairing codes came before (onConnectionUpdate, initialize,
\* teardown, logout of BaileysAdapter).
THEOREM ProtocolInvariance == ClientSpec => []AdapterInv
<1>1. ASSUME ClientInit PROVE ProtocolInv
  <2>1. /\ session = "unstarted" /\ entry = "initializing" /\ calls = 0
        /\ asking = {} /\ clearing = {} /\ \A s \in Sockets : link[s] = "unmade"
    BY <1>1 DEF ClientInit, Init, SocketInit
  <2> QED
    BY <2>1 DEF ProtocolInv, CodesAreAsked, FreshIsDown, OneAtATime, Reporting,
                ReadyIsOpen, Live
<1>2. ClientTypeOK /\ SocketInv /\ ProtocolInv /\ [ClientNext]_clientVars => ProtocolInv'
  BY ProtocolStep DEF ClientTypeOK
<1>3. ClientTypeOK /\ SocketInv /\ ProtocolInv => AdapterInv
  BY DEF ClientTypeOK, AdapterInv
<1> QED
  BY <1>1, <1>2, <1>3, ClientTypeCorrect, SocketInvariance, PTL DEF ClientSpec
-----------------------------------------------------------------------------
(***************************************************************************)
(* What follows from it.                                                   *)
(***************************************************************************)

\* What onConnectionUpdate may report after each status, read off the table.
LEMMA BaileysOrder ==
  /\ "initializing" \in BaileysFollows["starting"]
  /\ Status \ {"authenticated"} \subseteq BaileysFollows["initializing"]
  /\ \A p \in {"qr_received", "pairing_code_received"} :
       Status \ {"initializing"} \subseteq BaileysFollows[p]
  /\ \A p \in {"authenticated", "ready"} :
       {"ready", "disconnected"} \subseteq BaileysFollows[p]
BY DEF BaileysFollows, Protocol, Status

\* A drop may be reported after any status but itself.
LEMMA DropsMayFollow ==
  \A p \in Status \ {"disconnected"} : "disconnected" \in BaileysFollows[p]
BY BaileysOrder DEF Status

LEMMA ReportFollows ==
  ASSUME AdapterInv, NEW s \in Sockets, NEW u \in Reports, AdapterReports(s, u),
         ~disturbed, ~disposed
  PROVE  u.status \in BaileysFollows[session]
<1>1. Reported(s, u) /\ OneAtATime /\ Reporting /\ CodesAreAsked
  BY DEF AdapterReports, AdapterInv, ProtocolInv
<1>2. CASE InitializeEnds(s, u)
  <2>1. session = "starting" /\ u.status = "initializing"
    BY <1>1, <1>2 DEF InitializeEnds, Reporting, Says
  <2> QED BY <2>1, BaileysOrder
<1>3. CASE Connecting(s, u) \/ Opens(s, u)
  <2>1. link[s] \in {"made", "connecting"} /\ u.status \in {"initializing", "ready"}
    BY <1>3 DEF Connecting, Opens, Reaches, Says
  <2>2. session = "initializing"
    BY <1>1, <2>1 DEF Reporting, Said, Live, Link
  <2> QED BY <2>1, <2>2, BaileysOrder DEF Status
<1>4. CASE ShowsQr(s, u)
  <2>1. link[s] \in {"connecting", "pairing"} /\ u.status = "qr_received"
    BY <1>4 DEF ShowsQr, Reaches, Says
  <2>2. session \in {"initializing", "qr_received", "pairing_code_received"}
    BY <1>1, <2>1 DEF Reporting, Said, Live, Link
  <2> QED BY <2>1, <2>2, BaileysOrder DEF Status
<1>5. CASE CodeArrives(s, u)
  <2>1. link[s] = "asked" /\ u.status = "pairing_code_received"
    BY <1>1, <1>5 DEF CodeArrives, CodesAreAsked, Says
  <2>2. session = "initializing"
    BY <1>1, <2>1 DEF Reporting, Said, Live, Link
  <2> QED BY <2>1, <2>2, BaileysOrder DEF Status
<1>6. CASE NewLogin(s, u)
  <2>1. link[s] = "pairing" /\ u.status = "authenticated"
    BY <1>6 DEF NewLogin, Reaches, Says
  <2>2. session \in {"qr_received", "pairing_code_received"}
    BY <1>1, <2>1 DEF Reporting, Said, Live, Link
  <2> QED BY <2>1, <2>2, BaileysOrder DEF Status
<1>7. CASE Closes(s, u)
  <2>1. link[s] \in Live /\ u.status = "disconnected"
    BY <1>7 DEF Closes, Reaches, SaysClosed, Live
  <2>2. session \in Status \ {"disconnected"}
    BY <1>1, <2>1 DEF Reporting, Said, Live, Link, Status
  <2> QED BY <2>1, <2>2, DropsMayFollow
<1>8. CASE Cleared(s, u)
  <2>1. session \in Status \ {"disconnected"} /\ u.status = "disconnected"
    BY <1>1, <1>8 DEF Cleared, Reporting, SaysClosed
  <2> QED BY <2>1, DropsMayFollow
<1> QED
  BY <1>1, <1>2, <1>3, <1>4, <1>5, <1>6, <1>7, <1>8 DEF Reported

\* The adapter reports in the order the core's model of it is checked with
\* (BaileysFollows), through any retries, restarts and logouts, as long as calls
\* do not overlap and until it is shut down.
THEOREM ReportsFollowProtocol == ClientSpec => KeepsToProtocol
<1>1. AdapterInv =>
        [ \A s \in Sockets, u \in Reports :
            AdapterReports(s, u) /\ ~disturbed /\ ~disposed =>
              u.status \in BaileysFollows[session] ]_clientVars
  BY ReportFollows
<1> QED BY <1>1, ProtocolInvariance, PTL DEF ClientSpec, KeepsToProtocol

\* Nothing but a report and the announcement of a held-back drop tells handlers
\* anything.
LEMMA OthersTellNothing ==
  ASSUME \/ Bootstrap \/ InitializeRejects \/ RetryTimerFires \/ RestartPressed
         \/ RestartResumes \/ RestartFails \/ Shutdown \/ Destroyed \/ UNCHANGED vars
  PROVE  UNCHANGED <<heard, lastStatus>>
<1>1. heard' = heard
  BY DEF Bootstrap, InitializeRejects, RetryTimerFires, RestartPressed, RestartResumes,
         RestartFails, Shutdown, Destroyed, Emit, Names, vars, outVars
<1>2. lastStatus' = lastStatus
  BY DEF Bootstrap, InitializeRejects, RetryTimerFires, RestartPressed, RestartResumes,
         RestartFails, Shutdown, Destroyed, vars, sourceVars
<1> QED BY <1>1, <1>2

\* The adapter reports ready of a live socket only, and then no drop is held back.
LEMMA ReportTells ==
  ASSUME AdapterInv, IInv, ToldUnlessDisturbed, ~disturbed,
         NEW s \in Sockets, NEW u \in Reports, AdapterReports(s, u)
  PROVE  UpIsTold'
<1>1. Report(u) /\ Reported(s, u) /\ UpIsTold /\ OneAtATime
  BY DEF AdapterReports, ToldUnlessDisturbed, AdapterInv, ProtocolInv
<1>2. lastStatus' = u.status
  BY <1>1 DEF Report, Apply
<1>3. CASE u.status = "ready"
  <2>1. Opens(s, u)
    BY <1>1, <1>3 DEF Reported, InitializeEnds, Connecting, ShowsQr, CodeArrives, NewLogin,
                      Closes, Cleared, Says, SaysClosed
  <2>2. link[s] \in Live
    BY <2>1 DEF Opens, Reaches, Live, Link
  <2>3. announceTimer = FALSE
    BY <1>1, <2>2 DEF OneAtATime
  <2> QED BY <1>1, <1>3, <2>3, ReadyIsAnnounced DEF UpIsTold
<1> QED BY <1>2, <1>3 DEF UpIsTold

\* Once calls have overlapped, that is not forgotten.
LEMMA DisturbanceStays ==
  ASSUME [ClientNext]_clientVars, disturbed
  PROVE  disturbed'
BY DEF ClientNext, Starts, RunnerRetries, AdapterReports, SocketMoves, SessionStays, AdapterRejects,
       Announces, PressRestart, PressForceQr, PressLogout, LogoutGoesOn, LogoutReturns,
       RestartGoesOn, RestartGivesUp, ShutsDown, DestroyReturns, Notes, clientVars

LEMMA ToldStep ==
  ASSUME AdapterInv, IInv, ToldUnlessDisturbed, [ClientNext]_clientVars
  PROVE  ToldUnlessDisturbed'
<1> SUFFICES ASSUME ~disturbed' PROVE UpIsTold'
  BY DEF ToldUnlessDisturbed
<1>0. ~disturbed /\ UpIsTold
  BY DisturbanceStays DEF ToldUnlessDisturbed
<1>1. ASSUME UNCHANGED <<heard, lastStatus>> PROVE UpIsTold'
  BY <1>0, <1>1 DEF UpIsTold
<1>2. ASSUME NEW s \in Sockets, NEW u \in Reports, AdapterReports(s, u) PROVE UpIsTold'
  BY <1>0, <1>2, ReportTells
<1>3. CASE Announces
  <2>1. lastStatus' = lastStatus /\ lastStatus = "disconnected"
    BY <1>3 DEF Announces, AnnounceTimerFires, IInv, PendingIsCurrent
  <2> QED BY <2>1 DEF UpIsTold
<1>4. CASE Starts \/ RunnerRetries \/ PressRestart \/ PressForceQr \/ RestartGoesOn
           \/ RestartGivesUp \/ ShutsDown \/ DestroyReturns
  BY <1>1, <1>4, OthersTellNothing
     DEF Starts, RunnerRetries, PressRestart, PressForceQr, RestartGoesOn, RestartGivesUp,
         ShutsDown, DestroyReturns
<1>5. CASE AdapterRejects
  BY <1>1, <1>5, OthersTellNothing DEF AdapterRejects, coreVars
<1>6. CASE PressLogout \/ LogoutGoesOn \/ LogoutReturns
  BY <1>1, <1>6, OthersTellNothing DEF PressLogout, LogoutGoesOn, LogoutReturns, coreVars
<1>7. ASSUME NEW s \in Sockets, SocketMoves(s) PROVE UpIsTold'
  BY <1>1, <1>7, OthersTellNothing DEF SocketMoves, coreVars
<1>9. ASSUME NEW s \in Sockets, SessionStays(s) PROVE UpIsTold'
  BY <1>1, <1>9, OthersTellNothing DEF SessionStays, coreVars
<1>8. CASE UNCHANGED clientVars
  BY <1>1, <1>8, OthersTellNothing DEF clientVars
<1> QED
  BY <1>2, <1>3, <1>4, <1>5, <1>6, <1>7, <1>8, <1>9 DEF ClientNext

\* Ready is what it says, on both sides: the registry's entry is of an open socket,
\* or of one whose logout is being reported or whose client is being torn down, and
\* handlers of a client that is up have been told.
THEOREM ReadyIsAlwaysTrue == ClientSpec => []ReadyIsTrue
<1>1. ClientInit => ToldUnlessDisturbed
  BY DEF ClientInit, Init, ToldUnlessDisturbed, UpIsTold, NoStatus
<1>2. AdapterInv /\ IInv /\ ToldUnlessDisturbed /\ [ClientNext]_clientVars
        => ToldUnlessDisturbed'
  BY ToldStep
<1>3. AdapterInv => ReadyMeansOpen
  BY DEF AdapterInv, ProtocolInv, ReadyIsOpen, ReadyMeansOpen
<1>4. ClientTypeOK /\ ReadyMeansOpen /\ ToldUnlessDisturbed => ReadyIsTrue
  BY DEF ReadyIsTrue
<1> QED
  BY <1>1, <1>2, <1>3, <1>4, ClientTypeCorrect, ProtocolInvariance, CoreInvariance, PTL
     DEF ClientSpec
=============================================================================
