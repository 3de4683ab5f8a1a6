---------------------------- MODULE BaileysSocket ----------------------------
(***************************************************************************)
(* BaileysAdapter's socket: initialize, teardown, destroy, logout and the  *)
(* connection.update handler.  An action that reports takes the update it  *)
(* emits as a parameter; BaileysClient feeds that to the core.             *)
(*                                                                         *)
(* Every method is cut at its awaits: the code before the first await runs *)
(* in the caller's step, the code after it in a step of its own.           *)
(***************************************************************************)
EXTENDS ConnectionUpdates, FiniteSets, Naturals

CONSTANTS
  Sockets,      \* what makeWASocket may return; one is reused once forgotten
  NoSocket,     \* this.sock is undefined
  PhoneNumber,  \* the phoneNumber option is set: pairing codes, not QRs
  MaxCalls      \* bound on initialize() calls in flight together

ASSUME SocketAssumption == NoSocket \notin Sockets /\ PhoneNumber \in BOOLEAN
                             /\ MaxCalls \in Nat

VARIABLES
  sock,       \* this.sock
  link,       \* how far each socket got with WhatsApp
  listening,  \* sockets the adapter's listeners are attached to
  unbind,     \* sockets the functions in this.unbind detach from
  calls,      \* initialize() calls awaiting the auth state or the version
  requested,  \* this.pairingRequested
  asking,     \* sockets whose requestPairingCode is awaited
  clearing,   \* logged-out sockets whose clearSession() is awaited
  leaving     \* logout(): "no", "asked" the socket, or "clearing" the session

bindingVars == <<sock, listening, unbind, calls>>
socketVars  == <<bindingVars, link, requested, asking, clearing, leaving>>

\* A socket is "made" by makeWASocket, and ends "closed".
Link == {"unmade", "made", "connecting", "asked", "pairing", "paired", "open",
         "closed"}

SocketInit ==
  /\ sock = NoSocket
  /\ link = [s \in Sockets |-> "unmade"]
  /\ listening = {} /\ unbind = {}
  /\ calls = 0
  /\ requested = FALSE /\ asking = {} /\ clearing = {}
  /\ leaving = "no"

SocketTypeOK ==
  /\ sock \in Sockets \cup {NoSocket}
  /\ link \in [Sockets -> Link]
  /\ listening \subseteq Sockets /\ unbind \subseteq Sockets
  /\ calls \in 0..MaxCalls
  /\ requested \in BOOLEAN
  /\ asking \subseteq Sockets /\ clearing \subseteq Sockets
  /\ leaving \in {"no", "asked", "clearing"}

Says(status)     == [status |-> status, kind |-> NoReason]
SaysClosed(kind) == [status |-> "disconnected", kind |-> kind]
-----------------------------------------------------------------------------
(***************************************************************************)
(* initialize() and teardown()                                             *)
(***************************************************************************)

\* Mutant of Teardown: the listeners stay on the old socket.
TeardownKeepsListeners ==
  /\ listening' = listening /\ unbind' = {}
  /\ sock' = NoSocket
  /\ link' = [s \in Sockets |-> IF s = sock THEN "closed" ELSE link[s]]

\* The part of teardown() before its await.  Every listener goes, of whatever
\* socket, but only the current socket is closed.
Teardown ==
  /\ listening' = listening \ unbind /\ unbind' = {}
  /\ sock' = NoSocket
  /\ link' = [s \in Sockets |-> IF s = sock THEN "closed" ELSE link[s]]

\* initialize() up to its first await.
InitializeCalled ==
  /\ calls < MaxCalls /\ calls' = calls + 1
  /\ Teardown
  /\ UNCHANGED <<requested, asking, clearing, leaving>>

\* A socket nothing refers to any more.
Forgotten(s) ==
  /\ link[s] \in {"unmade", "closed"}
  /\ s # sock /\ s \notin listening \cup unbind \cup asking \cup clearing

\* The rest of initialize(): a new socket becomes the current one, whatever the
\* current one is by now, and the adapter's listeners are bound to it.
InitializeEnds(s, update) ==
  /\ calls > 0 /\ calls' = calls - 1
  /\ Forgotten(s)
  /\ sock' = s /\ link' = [link EXCEPT ![s] = "made"]
  /\ listening' = listening \cup {s} /\ unbind' = unbind \cup {s}
  /\ requested' = FALSE
  /\ update = Says("initializing")
  /\ UNCHANGED <<asking, clearing, leaving>>

\* The auth state cannot be read, or makeWASocket throws.
InitializeFails ==
  /\ calls > 0 /\ calls' = calls - 1
  /\ UNCHANGED <<sock, link, listening, unbind, requested, asking, clearing, leaving>>

\* destroy()
Destroy == Teardown /\ UNCHANGED <<calls, requested, asking, clearing, leaving>>
-----------------------------------------------------------------------------
(***************************************************************************)
(* onConnectionUpdate, for a socket the adapter still listens to           *)
(***************************************************************************)
Reaches(s, from, to) ==
  /\ s \in listening /\ link[s] \in from
  /\ link' = [link EXCEPT ![s] = to]

Connecting(s, update) ==
  /\ Reaches(s, {"made"}, "connecting")
  /\ update = Says("initializing")
  /\ UNCHANGED <<bindingVars, requested, asking, clearing, leaving>>

\* Without a phone number, or with credentials that say they are registered:
\* what the auth state says is left open.
ShowsQr(s, update) ==
  /\ Reaches(s, {"connecting", "pairing"}, "pairing")
  /\ update = Says("qr_received")
  /\ UNCHANGED <<bindingVars, requested, asking, clearing, leaving>>

\* With a phone number the first QR asks for a pairing code instead, once.
AsksForCode(s) ==
  /\ PhoneNumber /\ ~requested
  /\ Reaches(s, {"connecting"}, "asked")
  /\ requested' = TRUE /\ asking' = asking \cup {s}
  /\ UNCHANGED <<bindingVars, clearing, leaving>>

\* After that await nothing looks at whether the adapter still listens to s.
\* Baileys fails what is asked of a closed socket.
CodeArrives(s, update) ==
  /\ s \in asking /\ asking' = asking \ {s}
  /\ link[s] # "closed" /\ link' = [link EXCEPT ![s] = "pairing"]
  /\ update = Says("pairing_code_received")
  /\ UNCHANGED <<bindingVars, requested, clearing, leaving>>

\* Logged only; the flag stays set, so this socket does not ask again.
CodeFails(s) ==
  /\ s \in asking /\ asking' = asking \ {s}
  /\ UNCHANGED <<bindingVars, link, requested, clearing, leaving>>

\* isNewLogin: paired; Baileys closes the socket with restart_required next.
NewLogin(s, update) ==
  /\ Reaches(s, {"pairing"}, "paired")
  /\ update = Says("authenticated")
  /\ UNCHANGED <<bindingVars, requested, asking, clearing, leaving>>

Opens(s, update) ==
  /\ Reaches(s, {"connecting"}, "open")
  /\ update = Says("ready")
  /\ UNCHANGED <<bindingVars, requested, asking, clearing, leaving>>

Closes(s, update) ==
  /\ Reaches(s, Link \ {"unmade", "closed"}, "closed")
  /\ update = SaysClosed(update.kind) /\ update.kind \notin {NoReason, "logged_out"}
  /\ UNCHANGED <<bindingVars, requested, asking, clearing, leaving>>

\* Mutant of ClosesLoggedOut: the handler stops at a logged-out close.
LoggedOutUnhandled(s) ==
  /\ Reaches(s, Link \ {"unmade", "closed"}, "closed")
  /\ UNCHANGED <<bindingVars, requested, asking, clearing, leaving>>

\* Closed for good: the credentials are removed before anything is reported ...
ClosesLoggedOut(s) ==
  /\ Reaches(s, Link \ {"unmade", "closed"}, "closed")
  /\ clearing' = clearing \cup {s}
  /\ UNCHANGED <<bindingVars, requested, asking, leaving>>

\* ... and after that await the report comes, whatever happened to s meanwhile.
Cleared(s, update) ==
  /\ s \in clearing /\ clearing' = clearing \ {s}
  /\ update = SaysClosed("logged_out")
  /\ UNCHANGED <<bindingVars, link, requested, asking, leaving>>

\* The session directory cannot be removed: nothing awaits the handler, and nothing is
\* reported.
ClearFails(s) ==
  /\ s \in clearing /\ clearing' = clearing \ {s}
  /\ UNCHANGED <<bindingVars, link, requested, asking, leaving>>

\* What the adapter may report next.
Reported(s, update) ==
  \/ InitializeEnds(s, update)
  \/ Connecting(s, update) \/ ShowsQr(s, update) \/ CodeArrives(s, update)
  \/ NewLogin(s, update) \/ Opens(s, update)
  \/ Closes(s, update) \/ Cleared(s, update)

\* What happens to a socket without a report.
Unreported(s) == AsksForCode(s) \/ CodeFails(s) \/ ClosesLoggedOut(s)
-----------------------------------------------------------------------------
(***************************************************************************)
(* logout(): the socket is asked first, and closes if that works; then the *)
(* teardown; then the credentials and the caches are cleared.              *)
(***************************************************************************)
LogoutCalled ==
  /\ leaving = "no" /\ leaving' = "asked"
  /\ UNCHANGED <<bindingVars, link, requested, asking, clearing>>

\* The request went through if the socket is closed by now.
LogoutWorked == sock = NoSocket \/ link[sock] = "closed"

LogoutTearsDown ==
  /\ leaving = "asked" /\ leaving' = "clearing"
  /\ Teardown
  /\ UNCHANGED <<calls, requested, asking, clearing>>

LogoutEnds ==
  /\ leaving = "clearing" /\ leaving' = "no"
  /\ UNCHANGED <<bindingVars, link, requested, asking, clearing>>
=============================================================================
