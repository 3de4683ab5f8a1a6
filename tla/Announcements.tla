--------------------------- MODULE Announcements ---------------------------
(***************************************************************************)
(* What a handler is promised of a client's status, whatever debounces,    *)
(* timers and reconnects do behind it: it is told ready the moment the     *)
(* client is, told disconnected only while it is, and told of every        *)
(* disconnect that lasts.                                                  *)
(***************************************************************************)
EXTENDS ConnectionUpdates

VARIABLES
  real,    \* the status the client is in
  told,    \* the last of ready and disconnected the handlers heard
  closed   \* the client was shut down: nothing is owed any more

vars == <<real, told, closed>>

Init == real = NoStatus /\ told = "nothing" /\ closed = FALSE

\* The client changes status, or repeats it.
Become(status) ==
  /\ real' = status
  /\ CASE status = "ready"        -> told' = "ready"
       [] status = "disconnected" -> told' \in {told, "disconnected"}
       [] OTHER                   -> told' = told
  /\ UNCHANGED closed

\* The announcement that was held back, of an outage that is still on.
TellDown ==
  /\ real = "disconnected"
  /\ told' = "disconnected"
  /\ UNCHANGED <<real, closed>>

Close == closed' = TRUE /\ UNCHANGED <<real, told>>

Next == (\E status \in Status : Become(status)) \/ TellDown \/ Close

Spec == Init /\ [][Next]_vars

\* A client that stays down is announced, if it is not shut down first.
FairSpec == Spec /\ WF_vars(~closed /\ TellDown)
=============================================================================
