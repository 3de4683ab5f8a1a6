-------------------------- MODULE AdapterProtocols --------------------------
(***************************************************************************)
(* What each platform's adapter may report next, as values of Follows of   *)
(* ClientConnection: the statuses its listeners emit, in the order one     *)
(* session of the platform can reach them.                                 *)
(***************************************************************************)
EXTENDS ConnectionUpdates

Protocol(table) ==
  [p \in {"unstarted", "idle", "starting"} \cup Status |->
     IF p \in DOMAIN table THEN table[p] ELSE {}]

Credentials == {"qr_received", "pairing_code_received"}

\* onConnectionUpdate.  initialize() itself ends by reporting initializing;
\* "connecting" reports it again, "open" is ready, isNewLogin authenticated,
\* and after "close" the socket is gone.
BaileysFollows ==
  Protocol([starting              |-> {"initializing"},
            initializing          |-> Status \ {"authenticated"},
            qr_received           |-> Status \ {"initializing"},
            pairing_code_received |-> Status \ {"initializing"},
            authenticated         |-> {"ready", "disconnected"},
            ready                 |-> {"ready", "disconnected"}])

\* bindClientEvents.  whatsapp-web.js has no "connecting": the first report of a
\* session is a credential, authenticated, or the failure to get that far; it
\* does not retry, so nothing follows a disconnect.
WWebJsFollows ==
  Protocol([starting              |-> Credentials \cup {"authenticated", "disconnected"},
            qr_received           |-> Credentials \cup {"authenticated", "disconnected"},
            pairing_code_received |-> Credentials \cup {"authenticated", "disconnected"},
            authenticated         |-> {"authenticated", "ready", "disconnected"},
            ready                 |-> {"ready", "disconnected"}])

\* Either of them: every order of reports one of the two adapters can produce.
KnownFollows ==
  [p \in {"unstarted", "idle", "starting"} \cup Status |->
     BaileysFollows[p] \cup WWebJsFollows[p]]
=============================================================================
