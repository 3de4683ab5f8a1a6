---------------------------- MODULE BaileysClient ----------------------------
(***************************************************************************)
(* A Baileys client: the adapter's socket under the core's connection      *)
(* wiring.  Each step is one of both: what the socket reports is what the  *)
(* connectionUpdate listener receives, and initialize(), destroy() and     *)
(* logout() are called by the bootstrap, the runner and the dashboard.     *)
(***************************************************************************)
EXTENDS ClientConnection, BaileysSocket, AdapterProtocols

VARIABLES
  disturbed  \* history: calls overlapped (Disturbs), or a logout or its cleanup failed

coreVars    == vars
clientVars  == <<vars, socketVars, disturbed>>

ClientInit == Init /\ SocketInit /\ disturbed = FALSE

\* A teardown while an initialize() is in flight cannot reach the socket that
\* call is about to make; one while a logged-out close is being handled cannot
\* stop the report of it.
Disturbs == calls > 0 \/ clearing # {}

Notes(bad) == disturbed' = (disturbed \/ bad)

Starts == Bootstrap /\ InitializeCalled /\ Notes(Disturbs)

\* Mutant of RunnerRetries: the runner does not ask whether the client is still down.
RetriesUnasked ==
  /\ RetryTimerFires
  /\ InitializeCalled
  /\ Notes(Disturbs)

\* The runner's timer, and the initialize() it makes on a client still down.
RunnerRetries ==
  /\ RetryTimerFires
  /\ IF entry = "disconnected" THEN InitializeCalled /\ Notes(Disturbs)
                               ELSE UNCHANGED <<socketVars, disturbed>>

AdapterReports(s, update) ==
  Report(update) /\ Reported(s, update) /\ UNCHANGED disturbed

SocketMoves(s) == Unreported(s) /\ UNCHANGED <<coreVars, disturbed>>

\* Logged out, and the core never hears of it.
SessionStays(s) == ClearFails(s) /\ Notes(TRUE) /\ UNCHANGED coreVars

\* A rejection the core's model does not see is one of an overlapping call.
AdapterRejects ==
  /\ InitializeFails
  /\ InitializeRejects \/ (session # "starting" /\ UNCHANGED coreVars)
  /\ UNCHANGED disturbed

Announces == AnnounceTimerFires /\ UNCHANGED <<socketVars, disturbed>>

\* Restart, Force QR and Logout of the dashboard.  One such request at a time.
PressRestart ==
  /\ RestartPressed /\ leaving = "no" /\ Destroy
  /\ Notes(Disturbs)

PressForceQr ==
  /\ RestartPressed /\ LogoutCalled
  /\ UNCHANGED disturbed

PressLogout ==
  /\ Restartable /\ ~restart /\ ~disposed /\ session # "unstarted"
  /\ LogoutCalled
  /\ UNCHANGED <<coreVars, disturbed>>

LogoutGoesOn ==
  /\ LogoutTearsDown
  /\ Notes(Disturbs \/ ~LogoutWorked)
  /\ UNCHANGED coreVars

LogoutReturns == LogoutEnds /\ UNCHANGED <<coreVars, disturbed>>

RestartGoesOn ==
  /\ RestartResumes /\ leaving = "no" /\ InitializeCalled
  /\ Notes(Disturbs)

\* Only logout() can reject, where it removes the session directory.
RestartGivesUp ==
  /\ RestartFails /\ LogoutEnds /\ UNCHANGED disturbed

\* onApplicationShutdown: the cleanup function and the teardown in one step.
ShutsDown == Shutdown /\ Destroy /\ Notes(Disturbs)

DestroyReturns == Destroyed /\ UNCHANGED <<socketVars, disturbed>>

ClientNext ==
  \/ Starts \/ RunnerRetries \/ AdapterRejects \/ Announces
  \/ \E s \in Sockets : SocketMoves(s) \/ SessionStays(s) \/ \E u \in Reports : AdapterReports(s, u)
  \/ PressRestart \/ PressForceQr \/ PressLogout
  \/ LogoutGoesOn \/ LogoutReturns \/ RestartGoesOn \/ RestartGivesUp
  \/ ShutsDown \/ DestroyReturns

ClientSpec == ClientInit /\ [][ClientNext]_clientVars
-----------------------------------------------------------------------------
\* One type invariant for both parts.
ClientTypeOK == TypeOK /\ SocketTypeOK

\* "Its listeners must go with it or every event would arrive twice": the
\* adapter never listens to two sockets, unless calls overlapped.
OneSocketUnlessDisturbed ==
  ~disturbed => Cardinality(listening) <= 1

\* Why that holds, inductively: what the adapter listens to it can detach from, and
\* while calls do not overlap it listens to the current socket at most, and to
\* none while initialize() is in flight.
SocketInv ==
  /\ unbind = listening /\ calls \in Nat
  /\ ~disturbed => /\ calls = 0 => listening \subseteq {sock}
                   /\ calls > 0 => calls = 1 /\ listening = {}

\* What the dashboard, the health check and the runner read: the registry says
\* ready only while the current socket is open, its close for a logout is being
\* handled, or the client is being torn down.
ReadyMeansOpen ==
  entry = "ready" /\ ~disturbed /\ ~disposed =>
    \/ sock # NoSocket /\ link[sock] = "open"
    \/ clearing # {}
    \/ restart \/ leaving # "no"

\* What MCClientConnection assumes of this adapter, derived from its code: as long
\* as calls do not overlap and until it is shut down, it reports in the order
\* BaileysFollows allows, through retries, restarts and logouts.
KeepsToProtocol ==
  [][ \A s \in Sockets, u \in Reports :
        AdapterReports(s, u) /\ ~disturbed /\ ~disposed =>
          u.status \in BaileysFollows[session] ]_clientVars

\* With this adapter too, handlers of a client that is up know it.
ToldUnlessDisturbed == ~disturbed => UpIsTold

\* Ready is what it says, on both sides: the registry's is of an open socket, and
\* handlers know of it.
ReadyIsTrue == ClientTypeOK /\ ReadyMeansOpen /\ ToldUnlessDisturbed
=============================================================================
