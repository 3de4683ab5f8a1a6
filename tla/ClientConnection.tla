-------------------------- MODULE ClientConnection --------------------------
(***************************************************************************)
(* One client and what bindInternalEvents wires to its adapter: the        *)
(* registry entry's status, the ReconnectRunner and the                    *)
(* ConnectionEventSource, all driven by the adapter's connectionUpdate.    *)
(*                                                                         *)
(* Everything between two awaits is one action, as on the event loop: the  *)
(* whole listener runs within Report, timers fire between listeners.  The  *)
(* platform behind the adapter is the environment; what it may report next *)
(* is the CONSTANT Follows (AdapterProtocols has the real ones).           *)
(***************************************************************************)
EXTENDS ReconnectPolicy

CONSTANTS
  Debounced,    \* disconnectDebounceMs > 0
  Reconnects,   \* the `reconnect` option is set
  Restartable,  \* someone may press Restart or Force QR on the dashboard
  Follows,      \* [Phase -> SUBSET Status]: the status a session reports next
  Kinds         \* the reasons the adapter gives for a drop

\* Where the platform session behind the adapter stands: none yet, none any
\* more, initialize() in flight, or the last status it reported.
Phase == {"unstarted", "idle", "starting"} \cup Status

ASSUME OptionsAssumption  == Debounced \in BOOLEAN /\ Reconnects \in BOOLEAN
                               /\ Restartable \in BOOLEAN
ASSUME ProtocolAssumption == Follows \in [Phase -> SUBSET Status]
ASSUME KindsAssumption    == Kinds \subseteq DisconnectKind \cup {NoReason}

VARIABLES
  session,        \* the platform session behind the adapter
  restart,        \* a dashboard restart is awaiting adapter.destroy()
  entry,          \* the status in the client's registry entry
  lastStatus,     \* ConnectionEventSource.lastStatus
  pending,        \* ConnectionEventSource.pendingDisconnect
  announceTimer,  \* ConnectionEventSource.disconnectTimer is armed
  retryTimer,     \* ReconnectRunner.timer is armed
  attempts,       \* ReconnectPolicy.attempts
  disposed,       \* the cleanup function has run
  out,            \* the events the last step emitted on client.events
  heard,          \* history: the last of ready/disconnected handlers were told
  reason,         \* history: the reason of the last update
  retries         \* history: initialize() calls of the runner since last up

sourceVars == <<lastStatus, pending, announceTimer>>
runnerVars == <<retryTimer, attempts>>
outVars    == <<out, heard>>
vars == <<session, restart, entry, sourceVars, runnerVars, disposed, outVars,
          reason, retries>>

Init ==
  /\ session = "unstarted" /\ restart = FALSE
  /\ entry = "initializing"
  /\ lastStatus = NoStatus /\ pending = NoReason /\ announceTimer = FALSE
  /\ retryTimer = FALSE /\ attempts = 0
  /\ disposed = FALSE
  /\ out = {} /\ heard = "nothing"
  /\ reason = NoReason /\ retries = 0
-----------------------------------------------------------------------------
(***************************************************************************)
(* ConnectionEventSource                                                   *)
(***************************************************************************)
Names(events) == {e.name : e \in events}

Emit(events) ==
  /\ out' = events
  /\ heard' = CASE "ready" \in Names(events)        -> "ready"
                [] "disconnected" \in Names(events) -> "disconnected"
                [] OTHER                            -> heard

\* Mutant of ClearPendingDisconnect: the timer handle is left set.
ClearForgetsTimer == announceTimer' = announceTimer /\ pending' = NoReason

ClearPendingDisconnect == announceTimer' = FALSE /\ pending' = NoReason

AnnounceDisconnect(kind, events) ==
  \/ /\ ~Debounced \/ kind \in Terminal
     /\ Emit(events)
     /\ UNCHANGED <<pending, announceTimer>>
  \/ /\ Debounced /\ kind \notin Terminal
     /\ pending' = kind /\ announceTimer' = TRUE
     /\ Emit({})

\* Mutant of Apply: a flap returns before the status is recorded.
ApplyReturnsOnFlap(update) ==
  LET events == DerivedEvents(update, lastStatus)
  IN  \/ /\ update.status = "disconnected" /\ events # {}
         /\ lastStatus' = update.status /\ AnnounceDisconnect(update.kind, events)
      \/ /\ update.status = "disconnected" /\ events = {}
         /\ Emit({}) /\ UNCHANGED sourceVars
      \/ /\ update.status # "disconnected"
         /\ lastStatus' = IF announceTimer THEN lastStatus ELSE update.status
         /\ ClearPendingDisconnect
         /\ Emit(IF announceTimer THEN {} ELSE events)

\* Mutant of Apply: a drop that is announced at once is not recorded.
ApplyForgetsAnnounced(update) ==
  LET events == DerivedEvents(update, lastStatus)
  IN  \/ /\ update.status = "disconnected" /\ events # {}
         /\ lastStatus' = IF update.kind \in Terminal THEN lastStatus ELSE update.status
         /\ AnnounceDisconnect(update.kind, events)
      \/ /\ update.status = "disconnected" /\ events = {}
         /\ Emit({}) /\ UNCHANGED sourceVars
      \/ /\ update.status # "disconnected"
         /\ lastStatus' = update.status
         /\ ClearPendingDisconnect
         /\ Emit(IF announceTimer THEN {} ELSE events)

\* apply(update).  Recovering while an announcement is pending is a flap: the
\* announcement is cancelled and this update's own events are swallowed.
Apply(update) ==
  LET events == DerivedEvents(update, lastStatus)
      wasFlap == announceTimer
  IN  /\ lastStatus' = update.status
      /\ \/ /\ update.status = "disconnected" /\ events # {}
            /\ AnnounceDisconnect(update.kind, events)
         \/ /\ update.status = "disconnected" /\ events = {}
            /\ Emit({})
            /\ UNCHANGED <<pending, announceTimer>>
         \/ /\ update.status # "disconnected"
            /\ ClearPendingDisconnect
            /\ Emit(IF wasFlap THEN {} ELSE events)

\* Mutant of AnnounceTimerFires: a drop without a reason is taken for no drop.
AnnounceNeedsReason ==
  /\ announceTimer
  /\ ClearPendingDisconnect
  /\ Emit(IF lastStatus = "disconnected" /\ pending # NoReason
          THEN {[name |-> "disconnected", kind |-> pending]} ELSE {})
  /\ UNCHANGED <<session, restart, entry, lastStatus, runnerVars, disposed, reason,
                 retries>>

\* The callback of disconnectTimer.
AnnounceTimerFires ==
  /\ announceTimer
  /\ ClearPendingDisconnect
  /\ Emit(IF lastStatus = "disconnected"
          THEN {[name |-> "disconnected", kind |-> pending]} ELSE {})
  /\ UNCHANGED <<session, restart, entry, lastStatus, runnerVars, disposed, reason,
                 retries>>
-----------------------------------------------------------------------------
(***************************************************************************)
(* ReconnectRunner                                                         *)
(***************************************************************************)
Schedule(kind) ==
  \/ retryTimer /\ UNCHANGED runnerVars
  \/ /\ ~retryTimer
     /\ attempts' = AttemptsAfter(kind, attempts)
     /\ retryTimer' = Retries(kind, attempts)

\* Mutant of Succeeded: the backoff is not cleared.
SucceededKeepsBackoff == retryTimer' = FALSE /\ attempts' = attempts

Succeeded == retryTimer' = FALSE /\ attempts' = 0

\* Mutant of Supervise: only a drop that carries a reason is scheduled.
SuperviseNeedsReason(update) ==
  CASE Reconnects /\ update.status = "ready" -> Succeeded
    [] Reconnects /\ update.status = "disconnected" /\ update.kind # NoReason
         -> Schedule(update.kind)
    [] OTHER -> UNCHANGED runnerVars

\* What the connectionUpdate listener asks of the runner, if there is one.
Supervise(update) ==
  CASE Reconnects /\ update.status = "ready"        -> Succeeded
    [] Reconnects /\ update.status = "disconnected" -> Schedule(update.kind)
    [] OTHER                                        -> UNCHANGED runnerVars

\* Mutant of RetryTimerFires: no isStillDown().
RetryRegardless ==
  /\ retryTimer /\ retryTimer' = FALSE
  /\ session' = "starting" /\ retries' = Count(retries)
  /\ Emit({})
  /\ UNCHANGED <<restart, entry, sourceVars, attempts, disposed, reason>>

\* The callback of the runner's timer: only a client that is still down is
\* initialized again.  The rejection of that call is only logged.
RetryTimerFires ==
  /\ retryTimer
  /\ retryTimer' = FALSE
  /\ IF entry = "disconnected"
     THEN session' = "starting" /\ retries' = Count(retries)
     ELSE UNCHANGED <<session, retries>>
  /\ Emit({})
  /\ UNCHANGED <<restart, entry, sourceVars, attempts, disposed, reason>>
-----------------------------------------------------------------------------
(***************************************************************************)
(* The client's life: bootstrap, reports, dashboard restart, shutdown      *)
(***************************************************************************)

\* onApplicationBootstrap: adapter.initialize(), not awaited.
Bootstrap ==
  /\ session = "unstarted" /\ ~disposed
  /\ session' = "starting"
  /\ Emit({})
  /\ UNCHANGED <<restart, entry, sourceVars, runnerVars, disposed, reason, retries>>

\* The connectionUpdate listener, whole.  It is never taken off the adapter, so
\* it runs for reports that come after the cleanup as well.
Report(update) ==
  /\ update.status \in Follows[session]
  /\ session' = update.status
  /\ entry' = update.status
  /\ Supervise(update)
  /\ Apply(update)
  /\ reason' = update.kind
  /\ retries' = IF update.status = "ready" THEN 0 ELSE retries
  /\ UNCHANGED <<restart, disposed>>

Reports == {u \in Update : IF u.status = "disconnected" THEN u.kind \in Kinds
                                                        ELSE u.kind = NoReason}

\* initialize() rejects without the platform having reported anything; every
\* caller logs it and leaves it there.
InitializeRejects ==
  /\ session = "starting"
  /\ session' = "idle"
  /\ Emit({})
  /\ UNCHANGED <<restart, entry, sourceVars, runnerVars, disposed, reason, retries>>

\* Restart (Force QR): destroy() (logout()) is awaited first ...
RestartPressed ==
  /\ Restartable /\ ~restart /\ ~disposed /\ session # "unstarted"
  /\ restart' = TRUE
  /\ Emit({})
  /\ UNCHANGED <<session, entry, sourceVars, runnerVars, disposed, reason, retries>>

\* ... then the status is set and the client initialized, not awaited.
RestartResumes ==
  /\ restart /\ restart' = FALSE
  /\ entry' = "initializing"
  /\ session' = "starting"
  /\ Emit({})
  /\ UNCHANGED <<sourceVars, runnerVars, disposed, reason, retries>>

\* destroy() rejects: the request answers 500, nothing else happens.
RestartFails ==
  /\ restart /\ restart' = FALSE
  /\ Emit({})
  /\ UNCHANGED <<session, entry, sourceVars, runnerVars, disposed, reason, retries>>

\* onApplicationShutdown: the cleanup function, then adapter.destroy() is awaited.
Shutdown ==
  /\ ~disposed /\ disposed' = TRUE
  /\ ClearPendingDisconnect
  /\ retryTimer' = FALSE
  /\ Emit({})
  /\ UNCHANGED <<session, restart, entry, lastStatus, attempts, reason, retries>>

\* destroy() resolves: the session reports nothing more.
Destroyed ==
  /\ disposed /\ session \notin {"unstarted", "idle"}
  /\ session' = "idle"
  /\ Emit({})
  /\ UNCHANGED <<restart, entry, sourceVars, runnerVars, disposed, reason, retries>>

Next ==
  \/ Bootstrap
  \/ \E update \in Reports : Report(update)
  \/ InitializeRejects
  \/ AnnounceTimerFires
  \/ RetryTimerFires
  \/ RestartPressed \/ RestartResumes \/ RestartFails
  \/ Shutdown \/ Destroyed

Spec == Init /\ [][Next]_vars

\* The event loop runs a timer that is due, and an initialize() in flight ends:
\* the platform reports something or the call rejects.
Fairness ==
  /\ WF_vars(AnnounceTimerFires)
  /\ WF_vars(RetryTimerFires)
  /\ WF_vars(session = "starting"
              /\ (InitializeRejects \/ \E update \in Reports : Report(update)))

FairSpec == Spec /\ Fairness
-----------------------------------------------------------------------------
(***************************************************************************)
(* Properties                                                              *)
(***************************************************************************)
TypeOK ==
  /\ session \in Phase /\ restart \in BOOLEAN
  /\ entry \in Status
  /\ lastStatus \in Status \cup {NoStatus}
  /\ pending \in DisconnectKind \cup {NoReason}
  /\ announceTimer \in BOOLEAN
  /\ retryTimer \in BOOLEAN /\ attempts \in 0..AttemptCap
  /\ disposed \in BOOLEAN
  /\ out \subseteq Event
  /\ heard \in {"nothing", "ready", "disconnected"}
  /\ reason \in DisconnectKind \cup {NoReason}
  /\ retries \in 0..AttemptCap

\* Once the client is disconnected its handlers have been told, or will be when
\* the armed timer fires: no drop is lost between the two, whatever flaps,
\* repeated updates and restarts came before.
OutageToldOrPending ==
  lastStatus = "disconnected" /\ ~disposed => announceTimer \/ heard = "disconnected"

\* A pending announcement is always about an outage that is still going on, and
\* carries the reason of a real, recoverable drop.
PendingIsCurrent ==
  announceTimer => lastStatus = "disconnected" /\ pending \notin Terminal

\* A client that is up leaves nothing behind: no attempt scheduled, and the next
\* drop starts from the base delay with the full budget of attempts.
UpIsClean == entry = "ready" => ~retryTimer /\ attempts = 0 /\ retries = 0

\* "Give up after this many consecutive attempts": between two times the client
\* is up, the runner initializes it at most maxAttempts times.
RetriesBounded == MaxAttempts # Unlimited => retries <= MaxAttempts

\* What makes the bound hold: an attempt is counted when it is scheduled, before
\* the runner makes it, and only attempts within the limit are scheduled; without
\* the reconnect option there is no runner at all.
RetriesAreCounted ==
  /\ MaxAttempts # Unlimited =>
       /\ retries <= attempts /\ retries <= MaxAttempts
       /\ retryTimer => retries < attempts /\ attempts <= MaxAttempts
  /\ ~Reconnects => ~retryTimer /\ attempts = 0 /\ retries = 0

\* The inductive invariant the proofs rest on.
IInv == TypeOK /\ OutageToldOrPending /\ PendingIsCurrent /\ UpIsClean
          /\ RetriesAreCounted

\* When the client is up its handlers know: the last of ready and disconnected
\* they heard is ready, however the recovery was debounced.
UpIsTold == lastStatus = "ready" => heard = "ready"

\* "Nothing fires for a client that came back while the timer was pending": the
\* runner never initializes over a session that is up, coming up or being
\* started by somebody else.
RetryOnlyOverDeadSession ==
  [][ RetryTimerFires /\ retries' # retries => session \in {"idle", "disconnected"} ]_vars

\* Why UpIsTold is not inductive alone: no announcement is pending while the
\* session is in a phase the client can recover from without a further report.
PendingMeansDown ==
  announceTimer => session \in {"disconnected", "idle", "starting"}

\* The adapters that never recover without reporting the attempt first: neither a
\* dropped session nor one just started can report ready next.
NoDirectRecovery ==
  \A p \in {"disconnected", "idle", "starting"} : "ready" \notin Follows[p]

\* A scheduled attempt on a client that is down finds its session dead.
DeadWhileScheduled ==
  retryTimer /\ entry = "disconnected" => session \in {"idle", "disconnected"}

\* Handlers never hear a status the client is not in at that moment, however
\* late the announcement is.
AnnouncesWhatIsSo ==
  [][ \A e \in out' : e.name \in StatusEvents => lastStatus' = e.name ]_vars

\* A recoverable drop is followed by another initialize(), unless the client
\* left the state, was shut down, or the budget of attempts is spent.
DropIsRetried ==
  [](  session = "disconnected" /\ entry = "disconnected" /\ ~disposed
       /\ reason \notin Terminal /\ ~GaveUp(attempts)
       => <>(session # "disconnected" \/ entry # "disconnected" \/ disposed) )
-----------------------------------------------------------------------------
(***************************************************************************)
(* The client, its debounce and its runner implement Announcements.        *)
(***************************************************************************)
Promise == INSTANCE Announcements
             WITH real <- lastStatus, told <- heard, closed <- disposed

\* Handlers are told ready at once, disconnected only while the client is, and of
\* every outage that lasts, through any order of flaps, retries and restarts.
KeepsPromise == Promise!FairSpec
=============================================================================
