-------------------------- MODULE MessageStatuses --------------------------
(***************************************************************************)
(* How far a message the account sent got, as handlers are told of it.     *)
(* WhatsApp's reports arrive in any order, and again after a reconnect.    *)
(* One message, sent to one contact, to a group, or posted as a status.    *)
(***************************************************************************)
EXTENDS Integers, FiniteSets

CONSTANTS
  Recipients, \* who it is sent to: the first of them alone in a direct chat
  MaxReports  \* bound: reports under way

ASSUME StatusesAssumption == Recipients # {} /\ "me" \notin Recipients /\ MaxReports \in Nat

VARIABLES
  platform, chat,
  lidKnown,   \* the credentials name the account's LID
  server,     \* "pending", "sent" or "failed"
  reached,    \* how far it got with each recipient: 1 delivered, 2 read, 3 played
  ownSaw,     \* a device of the account's own acknowledged it
  reports,    \* reports under way
  told        \* the status updates handlers got: [status, participant]

vars == <<platform, chat, lidKnown, server, reached, ownSaw, reports, told>>

None == "none"

Init ==
  /\ platform \in {"baileys", "whatsapp-web.js"}
  /\ chat \in {"direct", "group", "status"} /\ lidKnown \in BOOLEAN
  /\ server = "pending" /\ reached = [r \in Recipients |-> 0] /\ ownSaw = FALSE
  /\ reports = {} /\ told = {}

Account == <<platform, chat, lidKnown>>
To == IF chat = "direct" THEN {CHOOSE r \in Recipients : TRUE} ELSE Recipients
-----------------------------------------------------------------------------
(***************************************************************************)
(* WhatsApp                                                                *)
(***************************************************************************)
Update(fromMe, code) == [is |-> "update", fromMe |-> fromMe, code |-> code]
Receipt(by, form, times) == [is |-> "receipt", by |-> by, form |-> form, times |-> times]
Ack(ack) == [is |-> "ack", ack |-> ack]

Reports(new) == reports' = reports \cup new /\ Cardinality(reports') <= MaxReports

\* The server takes the message, or refuses it.
ServerAnswers ==
  /\ server = "pending" /\ server' \in {"sent", "failed"}
  /\ LET code == IF server' = "sent" THEN 2 ELSE 0
     IN  Reports(IF platform = "baileys" THEN {Update(TRUE, code)} ELSE {Ack(code - 1)})
  /\ UNCHANGED <<Account, reached, ownSaw, told>>

\* A recipient gets further.  Outside direct chats the receipt names who; a group's update
\* is an aggregate that follows the fastest.
Reaches(r) ==
  /\ server = "sent"
  /\ \E n \in reached[r] + 1 .. 3, earlier \in SUBSET {1} :
       /\ reached' = [reached EXCEPT ![r] = n]
       /\ Reports(IF platform # "baileys" THEN {Ack(1 + n)}
                  ELSE (IF chat = "status" THEN {} ELSE {Update(TRUE, 2 + n)})
                         \cup (IF chat = "direct" THEN {} ELSE {Receipt(r, "pn", earlier \cup {n})}))
  /\ UNCHANGED <<Account, server, ownSaw, told>>

\* Another device of the account: it acknowledges the message, or, in a direct chat, reads
\* one of the contact's.
OwnDevice ==
  /\ platform = "baileys" /\ server = "sent" /\ ownSaw' = TRUE
  /\ \/ chat = "direct" /\ Reports({Update(FALSE, 4)})
     \/ chat # "direct" /\ \E form \in {"pn", "lid"}, n \in 1 .. 2 : Reports({Receipt("me", form, {n})})
  /\ UNCHANGED <<Account, server, reached, told>>

\* A status this version does not know.
SomethingNew ==
  /\ platform = "baileys" /\ Reports({Update(TRUE, 6)})
  /\ UNCHANGED <<Account, server, reached, ownSaw, told>>
-----------------------------------------------------------------------------
(***************************************************************************)
(* The adapters                                                            *)
(***************************************************************************)
STATUS_TO_PORTABLE ==
  [code \in 0 .. 5 |-> CASE code = 0 -> "failed" [] code = 1 -> "pending" [] code = 2 -> "sent"
                         [] code = 3 -> "delivered" [] code = 4 -> "read" [] code = 5 -> "played"]

ACK_TO_STATUS == [ack \in -1 .. 4 |-> STATUS_TO_PORTABLE[ack + 1]]

\* Mutant of toMessageStatus: a status that is not known is passed on.
toMessageStatusAny(code) == IF code \in DOMAIN STATUS_TO_PORTABLE THEN STATUS_TO_PORTABLE[code] ELSE "unknown"

\* A status that is not known is none.
toMessageStatus(code) == IF code \in DOMAIN STATUS_TO_PORTABLE THEN STATUS_TO_PORTABLE[code] ELSE None

\* Mutant of receiptToStatus: the first stage that has a timestamp.
receiptToStatusFirst(times) == STATUS_TO_PORTABLE[2 + CHOOSE n \in times : \A other \in times : n <= other]

\* The furthest stage that has a timestamp.
receiptToStatus(times) == STATUS_TO_PORTABLE[2 + CHOOSE n \in times : \A other \in times : n >= other]

isMe(receipt) == receipt.by = "me" /\ (receipt.form = "pn" \/ lidKnown)

Status(status, participant) == [status |-> status, participant |-> participant]

\* A report is delivered, for the last time or not.
Arrives(report) == report \in reports /\ reports' \in {reports, reports \ {report}}
                    /\ UNCHANGED <<Account, server, reached, ownSaw>>

\* Mutant of OnMessagesUpdate: of a group, what the server answered is taken for an aggregate.
OnMessagesUpdateLate(u) ==
  /\ u.is = "update" /\ Arrives(u)
  /\ LET status == toMessageStatus(u.code)
         skipped == ~u.fromMe \/ status = None \/ (chat = "group" /\ u.code >= 2)
     IN  told' = told \cup IF skipped THEN {} ELSE {Status(status, None)}

\* onMessagesUpdate: of a group only the stages of the message as a whole.
OnMessagesUpdate(u) ==
  /\ u.is = "update" /\ Arrives(u)
  /\ LET status == toMessageStatus(u.code)
         skipped == ~u.fromMe \/ status = None \/ (chat = "group" /\ u.code > 2)
     IN  told' = told \cup IF skipped THEN {} ELSE {Status(status, None)}

\* Mutant of OnReceiptUpdate: the account's own receipts count.
OnReceiptUpdateOwn(r) ==
  /\ r.is = "receipt" /\ Arrives(r)
  /\ told' = told \cup {Status(receiptToStatus(r.times), IF chat = "group" THEN r.by ELSE None)}

\* onReceiptUpdate: who it is of is asked in groups only.
OnReceiptUpdate(r) ==
  /\ r.is = "receipt" /\ Arrives(r)
  /\ told' = told \cup IF chat = "group" /\ isMe(r) THEN {}
                       ELSE {Status(receiptToStatus(r.times), IF chat = "group" THEN r.by ELSE None)}

\* whatsapp-web.js reports the aggregate only, wherever the message went.
MessageAck(a) ==
  /\ a.is = "ack" /\ Arrives(a)
  /\ told' = told \cup IF a.ack \in DOMAIN ACK_TO_STATUS THEN {Status(ACK_TO_STATUS[a.ack], None)} ELSE {}

Handles(report) == OnMessagesUpdate(report) \/ OnReceiptUpdate(report) \/ MessageAck(report)

Next ==
  \/ ServerAnswers \/ OwnDevice \/ SomethingNew
  \/ \E r \in To : Reaches(r)
  \/ \E report \in reports : Handles(report)

Spec == Init /\ [][Next]_vars
-----------------------------------------------------------------------------
Stages == [delivered |-> 1, read |-> 2, played |-> 3]

TypeOK ==
  /\ server \in {"pending", "sent", "failed"} /\ reached \in [Recipients -> 0 .. 3]
  /\ {t.status : t \in told} \subseteq {STATUS_TO_PORTABLE[code] : code \in 0 .. 5}
  /\ {t.participant : t \in told} \subseteq Recipients \cup {"me", None}
  /\ Cardinality(reports) <= MaxReports

\* No handler hears that somebody got, read or played the message who did not: who, in a
\* group of Baileys, or somebody it was sent to.  But for an own device that saw a posted
\* status, or is seen in a group under a LID the account does not know to be its own.
NeverOverstated ==
  \A t \in told : t.status \in DOMAIN Stages =>
    \/ t.participant \in Recipients /\ reached[t.participant] >= Stages[t.status]
    \/ t.participant = "me" /\ ~lidKnown
    \/ /\ t.participant = None /\ ~(platform = "baileys" /\ chat = "group")
       /\ (\E r \in To : reached[r] >= Stages[t.status]) \/ (chat = "status" /\ ownSaw)

\* Once every report has come, handlers know what became of the message, and how far it
\* got: with each recipient, where the platform tells them apart.
AllIsTold ==
  (reports = {} /\ server # "pending") =>
    /\ Status(server, None) \in told
    /\ \A r \in To : reached[r] > 0 =>
         Status(STATUS_TO_PORTABLE[2 + reached[r]],
                IF platform = "baileys" /\ chat = "group" THEN r ELSE None) \in told

\* Handlers know how far a message got, and no further.
StatusesAreTrue == TypeOK /\ NeverOverstated /\ AllIsTold
=============================================================================
