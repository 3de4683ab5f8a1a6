------------------------- MODULE ConnectionUpdates -------------------------
(***************************************************************************)
(* The vocabulary adapters and the core share: what an adapter reports (a  *)
(* ConnectionUpdate) and the events the core derives from it for handlers. *)
(***************************************************************************)

Status == {"initializing", "qr_received", "pairing_code_received",
           "authenticated", "ready", "disconnected"}

DisconnectKind == {"logged_out", "auth_failure", "restart_required",
                   "forbidden", "connection_lost", "conflict", "unknown"}

\* `reason` is optional on an update; NoReason stands for its absence.
NoReason == "none"

\* Before its first update an event source has no last status.
NoStatus == "none"

\* isTerminalDisconnect: reconnecting cannot help.
Terminal == {"logged_out", "auth_failure"}

\* Adapters send a qr with qr_received and a pairing code with
\* pairing_code_received, and only there, so the status stands for the
\* credential it carries; a reason comes with disconnected alone.
Update == [status : Status, kind : DisconnectKind \cup {NoReason}]

Event == [name : {"qr", "pairingCode", "authenticated", "ready", "disconnected"},
          kind : DisconnectKind \cup {NoReason}]

\* The status events: initializing and the two credential states have none.
StatusEvents == {"authenticated", "ready", "disconnected"}

\* Credential events fire whenever the update carries one; a status event only
\* on a transition.
DerivedEvents(update, previous) ==
  {[name |-> "qr", kind |-> NoReason] : s \in {update.status} \cap {"qr_received"}}
  \cup
  {[name |-> "pairingCode", kind |-> NoReason] :
      s \in {update.status} \cap {"pairing_code_received"}}
  \cup
  {[name |-> s, kind |-> IF s = "disconnected" THEN update.kind ELSE NoReason] :
      s \in ({update.status} \cap StatusEvents) \ {previous}}
=============================================================================
