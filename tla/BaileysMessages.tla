-------------------------- MODULE BaileysMessages --------------------------
(***************************************************************************)
(* Messages of a Baileys client: which of those that arrive are handled,   *)
(* who wrote them, what is asked about them, and editing one's own.  A     *)
(* handler may keep a message longer than the socket it came by: what a    *)
(* message says of itself depends on whose socket there is.                *)
(*                                                                         *)
(* The account is "me"; "else" is another one that may be linked after it. *)
(***************************************************************************)
EXTENDS Integers, Sequences, FiniteSets

CONSTANTS
  World,   \* [id |-> [chat, writer, form, alt, here, kind, quotes]], see below
  Window,  \* EDIT_WINDOW_MS
  MaxTime, MaxHeld, MaxAsked, MaxEdits, MaxResent  \* bounds

\* chat is "direct" or "group"; form, "pn" or "lid", is how the other or the participant
\* is addressed, and alt whether the other form is given with it; here is whether this
\* client sent it; quotes is the id of the message it answers, or Nil.
Nil == "none"
Ids == DOMAIN World

\* What may be said of any world: a direct chat is between the account and the other, and
\* what this client sent the account wrote.
ASSUME WorldAssumption ==
  /\ Nil \notin Ids /\ Window \in Nat
  /\ \A id \in Ids :
       LET m == World[id]
       IN  /\ m.chat \in {"direct", "group"} /\ m.form \in {"pn", "lid"}
           /\ {m.alt, m.here} \subseteq BOOLEAN /\ m.writer # Nil
           /\ m.chat = "direct" => m.writer \in {"me", "peer"}
           /\ m.here => m.writer = "me"
           /\ m.quotes \in Ids \cup {Nil}

VARIABLES
  user,      \* sock.user: Nil without a socket
  knowsLid,  \* the credentials name the account's LID
  live,      \* messages WhatsApp has delivered
  handled,   \* how often handlers were given each
  resent,    \* how often WhatsApp delivered one again
  held,      \* the message objects handlers have: [id, key, quoted, sure, text]
  blocked,   \* whose numbers the blocklist has, Nil until WhatsApp sent it
  declined,  \* callers whose call was declined
  asked,     \* what was asked of the socket about a message: [user, key, sure]
  now, writtenAt,
  edits      \* the edits sent: [id, user, state, late]

messageVars == <<user, knowsLid, live, handled, resent, held, blocked, declined, asked, now,
                writtenAt, edits>>

MessagesInit ==
  /\ user = "me" /\ knowsLid \in BOOLEAN
  /\ live = {} /\ handled = [id \in Ids |-> 0] /\ resent = [id \in Ids |-> 0]
  /\ held = {} /\ blocked = {Nil} /\ declined = {} /\ asked = {} /\ now = 0
  /\ writtenAt = [id \in Ids |-> 0] /\ edits = <<>>

lists   == <<blocked, declined>>
objects == <<live, handled, resent, held, lists, asked, now, writtenAt, edits>>
-----------------------------------------------------------------------------
(***************************************************************************)
(* The socket, the clock, and what a message's key names                   *)
(***************************************************************************)
Drops == user # Nil /\ user' = Nil /\ UNCHANGED <<knowsLid, objects>>

\* The account again, or after a logout another one.
Opens ==
  /\ user = Nil /\ user' \in {"me", "else"}
  /\ UNCHANGED <<knowsLid, objects>>

Tick ==
  /\ now < MaxTime /\ now' = now + 1
  /\ UNCHANGED <<user, knowsLid, live, handled, resent, held, lists, asked, writtenAt, edits>>

Id(of, form) == [of |-> of, form |-> form]
NoId == Id(Nil, Nil)
Other(form) == IF form = "pn" THEN "lid" ELSE "pn"
ChatOf(m) == IF m.chat = "group" THEN Id("group", "group") ELSE Id("peer", m.form)

\* Of an own message in a direct chat the alternative form is the other's, too.
KeyOf(id) ==
  LET m == World[id]
      alt(of) == IF m.alt THEN Id(of, Other(m.form)) ELSE NoId
  IN  [id |-> id, remote |-> ChatOf(m), fromMe |-> m.writer = "me",
       participant    |-> IF m.chat = "group" /\ ~m.here THEN Id(m.writer, m.form) ELSE NoId,
       participantAlt |-> IF m.chat = "group" /\ ~m.here THEN alt(m.writer) ELSE NoId,
       remoteAlt      |-> IF m.chat = "direct" THEN alt("peer") ELSE NoId]

Object(id) == [id |-> id, key |-> KeyOf(id), quoted |-> FALSE, sure |-> TRUE, text |-> 0]

Holds(o) == held' = held \cup {o} /\ Cardinality(held') <= MaxHeld
-----------------------------------------------------------------------------
(***************************************************************************)
(* Arrival                                                                 *)
(***************************************************************************)
\* Reactions, votes, keys, stubs without content and the protocol's own messages are none.
IsMessage(kind) == kind \in {"text", "caption", "audio", "revoke"}

\* Mutant of OnMessagesUpsert: what history brings is handled, too.
OnMessagesUpsertAll(id, type) ==
  /\ user = "me"
  /\ IF IsMessage(World[id].kind)
     THEN handled' = [handled EXCEPT ![id] = @ + 1] /\ Holds(Object(id))
     ELSE UNCHANGED <<handled, held>>

\* Of a live one with content handlers are told; what history sync brings, and the echo of
\* this socket's own sends, is remembered only.
OnMessagesUpsert(id, type) ==
  /\ user = "me"
  /\ IF type = "notify" /\ IsMessage(World[id].kind)
     THEN handled' = [handled EXCEPT ![id] = @ + 1] /\ Holds(Object(id))
     ELSE UNCHANGED <<handled, held>>

\* sendAndWrap: whoever sends has the message, and no handler is told.
sendAndWrap(id) ==
  /\ user = "me" /\ World[id].here /\ id \notin live /\ live' = live \cup {id}
  /\ Holds(Object(id)) /\ writtenAt' = [writtenAt EXCEPT ![id] = now]
  /\ UNCHANGED <<user, knowsLid, handled, resent, lists, asked, now, edits>>

\* WhatsApp delivers a message once, and again if it did not see the acknowledgement.
Delivers(id) ==
  /\ ~World[id].here /\ OnMessagesUpsert(id, "notify")
  /\ \/ id \notin live /\ writtenAt' = [writtenAt EXCEPT ![id] = now] /\ resent' = resent
     \/ /\ id \in live /\ resent[id] < MaxResent
        /\ resent' = [resent EXCEPT ![id] = @ + 1] /\ writtenAt' = writtenAt
  /\ live' = live \cup {id}
  /\ UNCHANGED <<user, knowsLid, lists, asked, now, edits>>

\* A history sync, or the echo of a message sent from here.
Syncs(id) ==
  /\ OnMessagesUpsert(id, "append")
  /\ UNCHANGED <<user, knowsLid, live, resent, lists, asked, now, writtenAt, edits>>
-----------------------------------------------------------------------------
(***************************************************************************)
(* What a message says of itself                                           *)
(***************************************************************************)
senderId(o) ==
  CASE o.key.participant # NoId        -> o.key.participant
    [] o.key.participant = NoId /\ o.key.fromMe /\ user # Nil -> Id(user, "pn")
    [] OTHER                           -> o.key.remote

myLid == IF knowsLid \/ user = "else" THEN Id(user, "lid") ELSE NoId

Sender(o) ==
  CASE o.key.participant # NoId -> o.key.participant
    [] o.key.participant = NoId /\ ~o.key.fromMe -> o.key.remote
    [] OTHER -> IF user = Nil THEN NoId ELSE Id(user, "pn")

\* The contact: the sender's id, and of it and the alternative the number and the LID.
ContactOf(o, alt) ==
  LET candidates == {Sender(o), alt} \ {NoId}
      First(form) == IF Sender(o).form = form THEN Sender(o)
                     ELSE IF alt \in candidates /\ alt.form = form THEN alt ELSE NoId
  IN  [id |-> Sender(o), phone |-> First("pn"), lid |-> First("lid")]

\* Mutant of getContact: of a direct chat the alternative form is taken as it comes.
getContactRemote(o) ==
  ContactOf(o, IF o.key.participant # NoId THEN o.key.participantAlt ELSE o.key.remoteAlt)

\* Without a sender it throws.
getContact(o) ==
  ContactOf(o, CASE o.key.participant # NoId -> o.key.participantAlt
                 [] o.key.participant = NoId /\ o.key.fromMe -> IF user = Nil THEN NoId ELSE myLid
                 [] OTHER -> o.key.remoteAlt)

\* Mutant of IsUser: by its number only.
IsUserByNumber(id) == user # Nil /\ id = Id(user, "pn")

\* Whether a participant is the account, as far as it can be told.
IsUser(id) == user # Nil /\ id \in {Id(user, "pn"), myLid}

\* Mutant of QuotedKey: the quote is looked for where its participant is.
QuotedKeyDirect(o, quoted, participant) ==
  [id |-> quoted, remote |-> participant, fromMe |-> IsUser(participant),
   participant |-> participant, participantAlt |-> NoId, remoteAlt |-> NoId]

\* The key the answer gives: the participant, and the chat of the answer as that is
\* addressed, unless it names another chat that the quoted message was in.
QuotedKey(o, quoted, participant) ==
  [id |-> quoted, fromMe |-> IsUser(participant),
   remote |-> IF World[o.id].chat = World[quoted].chat THEN o.key.remote ELSE ChatOf(World[quoted]),
   participant |-> participant, participantAlt |-> NoId, remoteAlt |-> NoId]

\* The quoted message is built anew.
getQuotedMessage(o) ==
  LET quoted == World[o.id].quotes IN
  /\ ~o.quoted /\ quoted # Nil
  /\ LET participant == Id(World[quoted].writer, World[o.id].form)
     IN  Holds([id |-> quoted, key |-> QuotedKey(o, quoted, participant), quoted |-> TRUE, text |-> 0,
                sure |-> user = "me" /\ (knowsLid \/ participant # Id("me", "lid"))])
  /\ UNCHANGED <<user, knowsLid, live, handled, resent, lists, asked, now, writtenAt, edits>>
-----------------------------------------------------------------------------
(***************************************************************************)
(* What is asked about a message                                           *)
(***************************************************************************)
\* Over the socket there is, whichever it was that the message came by.
Asks(o, time) ==
  /\ user # Nil
  /\ asked' = asked \cup {[user |-> user, key |-> o.key, sure |-> o.sure, time |-> time]}
  /\ Cardinality(asked') <= MaxAsked
  /\ UNCHANGED <<user, knowsLid, live, handled, resent, held, lists, now, writtenAt, edits>>

\* star, pin, unpin and react: by its key.
Act(o) == Asks(o, Nil)

\* For everyone by its key, for the account alone with its timestamp, which a quote lacks.
delete(o, forEveryone) ==
  Asks(o, IF forEveryone THEN Nil ELSE IF o.quoted THEN "epoch" ELSE "its own")

HasCaption(kind) == kind \in {"text", "caption"}

\* A quoted message carries no timestamp.
Age(o) == IF o.quoted THEN Window + 1 ELSE now - writtenAt[o.id]

\* Mutant of MayEdit: what it is is not asked.
MayEditAny(o) == o.key.fromMe /\ Age(o) <= Window

\* Own, within the window, and with a text.
MayEdit(o) == o.key.fromMe /\ Age(o) <= Window /\ HasCaption(World[o.id].kind)

\* The edit is sent, and the message answered as it now reads.
edit(o) ==
  /\ user # Nil /\ MayEdit(o) /\ Len(edits) < MaxEdits
  /\ edits' = Append(edits, [id |-> o.id, user |-> user, state |-> "sent", late |-> FALSE])
  /\ Holds([o EXCEPT !.text = Len(edits')])
  /\ UNCHANGED <<user, knowsLid, live, handled, resent, lists, asked, now, writtenAt>>

\* WhatsApp shows an own message as edited within the window, and says nothing otherwise.
EditArrives(n) ==
  LET id == edits[n].id
      late == now - writtenAt[id] > Window
      shown == ~late /\ edits[n].user = "me" /\ World[id].writer = "me" /\ HasCaption(World[id].kind)
  IN  /\ edits[n].state = "sent"
      /\ edits' = [edits EXCEPT ![n].state = IF shown THEN "shown" ELSE "ignored", ![n].late = late]
      /\ UNCHANGED <<user, knowsLid, live, handled, resent, held, lists, asked, now, writtenAt>>

-----------------------------------------------------------------------------
(***************************************************************************)
(* Blocked contacts and calls                                              *)
(***************************************************************************)
Blocklist(people) ==
  /\ user = "me" /\ blocked' = people
  /\ UNCHANGED <<user, knowsLid, live, handled, resent, held, declined, asked, now, writtenAt, edits>>

HasBlocked(id) == id.form = "pn" /\ id.of \in blocked

\* Mutant of isBlocked: by its id only.
isBlockedById(contact) == HasBlocked(contact.id)

\* Of a contact known by its LID the number is looked up, too.
isBlocked(contact) == HasBlocked(contact.id) \/ (contact.phone # NoId /\ HasBlocked(contact.phone))

\* rejectIncoming: an offer is declined, unless another device of the account makes it.
Rings(from, status) ==
  /\ user = "me"
  /\ declined' = IF status = "offer" /\ ~IsUser(from) THEN declined \cup {from} ELSE declined
  /\ UNCHANGED <<user, knowsLid, live, handled, resent, held, blocked, asked, now, writtenAt, edits>>

MessagesNext ==
  \/ \E people \in SUBSET {"peer"} : Blocklist(people)
  \/ \E of \in {"me", "peer"}, form \in {"pn", "lid"}, status \in {"offer", "timeout"} :
       Rings(Id(of, form), status)
  \/ Drops \/ Opens \/ Tick
  \/ \E id \in Ids : sendAndWrap(id) \/ Delivers(id) \/ Syncs(id)
  \/ \E o \in held : getQuotedMessage(o) \/ Act(o) \/ edit(o)
                     \/ \E forEveryone \in BOOLEAN : delete(o, forEveryone)
  \/ \E n \in DOMAIN edits : EditArrives(n)

MessagesSpec == MessagesInit /\ [][MessagesNext]_messageVars
-----------------------------------------------------------------------------
MessagesTypeOK ==
  /\ user \in {Nil, "me", "else"} /\ live \subseteq Ids
  /\ {o.id : o \in held} \subseteq Ids /\ {o.text : o \in held} \subseteq 0 .. Len(edits)
  /\ \A n \in DOMAIN edits : edits[n].state \in {"sent", "shown", "ignored"}

\* A message reaches handlers once, however often history brings it; a second time only if
\* WhatsApp delivered it again, which nothing here notices.  What this client sent never
\* does, so that no handler answers itself.
HandledOnce ==
  \A id \in Ids :
    handled[id] <= IF id \in live /\ ~World[id].here THEN 1 + resent[id] ELSE 0

\* While its account is connected, the sender of a message and its contact, number and LID
\* are those of who wrote it, in direct chats and groups, whichever form it came in.
\* Without a socket the contact is right or refused; senderId then names the chat.
WriterIsNamed ==
  \A o \in held :
    LET writer == World[o.id].writer
        contact == getContact(o)
        named == {contact.id.of, contact.phone.of, contact.lid.of}
    IN  /\ user = "me" => senderId(o).of = writer /\ contact.id.of = writer
        /\ user # "else" => named \subseteq {writer, Nil}

\* What an account asks about its messages names a message there is, whose it is, and the
\* chat it is in by either of its addresses: unless the key was built from a quote when
\* the account was not connected, or not known by its LID.
AsksOfReal ==
  \A a \in asked :
    (a.user = "me" /\ a.sure) =>
      LET key == KeyOf(a.key.id) IN a.key.remote.of = key.remote.of /\ a.key.fromMe = key.fromMe

\* Who is blocked reads so, in whichever form he wrote, if his number is known; and no call
\* is declined that the account itself makes, unless it does not know its LID.
BlockedIsSeen ==
  /\ \A o \in held : LET contact == getContact(o) IN
       (user = "me" /\ contact.phone # NoId) => (isBlocked(contact) <=> contact.phone.of \in blocked)
  /\ \A from \in declined : from.of # "me" \/ (from.form = "lid" /\ ~knowsLid)

\* An edit that was answered is shown, or under way, or came after the window though it
\* was sent within.
EditTakesHold ==
  \A n \in DOMAIN edits : (edits[n].state = "ignored" /\ edits[n].user = "me") => edits[n].late

\* Who wrote a message, what it quotes, whose contact is blocked and what may be edited
\* is told from what the account knows of itself, and is right or refused.
WritersAreKnown == MessagesTypeOK /\ WriterIsNamed /\ AsksOfReal /\ BlockedIsSeen /\ EditTakesHold
=============================================================================
