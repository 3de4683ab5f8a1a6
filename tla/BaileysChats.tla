---------------------------- MODULE BaileysChats ----------------------------
(***************************************************************************)
(* The chats of a Baileys client: the store that follows what WhatsApp     *)
(* reports, listing them, and what is asked of a chat.  Reports come one   *)
(* after the other; the answers to what was asked cross them.  The store's *)
(* own limit is the matter of BaileysStores.                               *)
(***************************************************************************)
EXTENDS Integers, Sequences

CONSTANTS
  Directs, Groups, Communities,        \* chats, and the groups that hold groups
  MaxEvents, MaxMessages, MaxAccounts  \* bounds: events under way, messages, accounts

ASSUME AccountsAssumption == MaxAccounts \in Nat \ {0}

Chats == Directs \cup Groups

VARIABLES
  account,  \* the accounts linked one after the other are 1, 2, ...
  unlinked, \* the phone has unlinked this client, and another account may follow
  phone,    \* the chats on the phone -> unread messages, below 0 if marked unread by hand
  member,   \* the groups the account is in
  messages, \* how many messages there were
  piecemeal, \* history: chats whose unread messages were reported one after the other
  events,   \* chats.upsert, chats.update and chats.delete under way: [chat, is, unread]
  store,    \* the chat store: chat -> unread
  marker,   \* of which account the last message seen in a chat is, 0 for none
  modified, \* the modifications WhatsApp was sent: [chat, of, by]
  deletes,  \* deletions asked for: chat -> "asked" or "done"
  crossed,  \* chats whose deletion and whose reports crossed
  listing,  \* getChats under way: the chats of the store when it was asked
  answered  \* what getChats answered: [chat, metadata]

chatVars == <<account, unlinked, phone, member, messages, piecemeal, events, store, marker, modified,
              deletes, crossed, listing, answered>>

NoListing == [none |-> TRUE]
NoMarker == [c \in Chats |-> 0]

ChatsInit ==
  /\ account = 1 /\ unlinked = FALSE /\ phone = <<>> /\ member \in SUBSET Groups /\ messages = 0
  /\ piecemeal = {} /\ events = <<>> /\ store = <<>> /\ marker = NoMarker /\ modified = {}
  /\ deletes = <<>> /\ crossed = {} /\ listing = NoListing /\ answered = {}

session  == <<account, unlinked>>
world    == <<phone, member, messages, piecemeal>>
asks     == <<modified, deletes, crossed>>
answers  == <<listing, answered>>

With(f, c, v) == [x \in {c} \cup DOMAIN f |-> IF x = c THEN v ELSE f[x]]
Without(f, c) == [x \in DOMAIN f \ {c} |-> f[x]]
Unread(f, c) == IF c \in DOMAIN f /\ f[c] > 0 THEN f[c] ELSE 0
Pending(c) == \E i \in DOMAIN events : events[i].chat = c
Report(c, is, unread) ==
  Len(events) < MaxEvents /\ events' = Append(events, [chat |-> c, is |-> is, unread |-> unread])
Crosses(c) == crossed' = IF c \in DOMAIN deletes THEN crossed \cup {c} ELSE crossed
-----------------------------------------------------------------------------
(***************************************************************************)
(* The phone, and what it reports                                          *)
(***************************************************************************)
\* n messages of others in a chat, which bring the chat back if it is not there.  Baileys
\* counts those that came, in a chats.update, and not those that are unread by then.
Message(c, n) ==
  /\ c \in Directs \cup member /\ messages + n <= MaxMessages /\ messages' = messages + n
  /\ phone' = With(phone, c, Unread(phone, c) + n) /\ Report(c, "message", n) /\ Crosses(c)
  /\ piecemeal' = IF Unread(phone, c) > 0 THEN piecemeal \cup {c} ELSE piecemeal \ {c}
  /\ UNCHANGED <<session, member, store, marker, modified, deletes, answers>>

\* A chat that is there without a message seen here, of the history that is synced or
\* just made: a chats.upsert, with all that is unread of it.
Synced(c, unread) ==
  /\ c \in (Directs \cup member) \ DOMAIN phone
  /\ phone' = With(phone, c, unread) /\ Report(c, "upsert", unread) /\ Crosses(c)
  /\ piecemeal' = piecemeal \ {c}
  /\ UNCHANGED <<session, member, messages, store, marker, modified, deletes, answers>>

\* A chat is read, or marked unread by hand, on some device.
Turns(c, unread) ==
  /\ c \in DOMAIN phone /\ phone[c] # unread
  /\ phone' = With(phone, c, unread) /\ Report(c, "update", unread) /\ Crosses(c)
  /\ piecemeal' = piecemeal \ {c}
  /\ UNCHANGED <<session, member, messages, store, marker, modified, deletes, answers>>

\* A chat is deleted on another device.
Vanishes(c) ==
  /\ c \in DOMAIN phone /\ phone' = Without(phone, c) /\ Report(c, "delete", 0) /\ Crosses(c)
  /\ UNCHANGED <<session, member, messages, piecemeal, store, marker, modified, deletes, answers>>

\* The account joins a group, or leaves it.
Membership(g) ==
  /\ member' = IF g \in member THEN member \ {g} ELSE member \cup {g}
  /\ UNCHANGED <<session, phone, messages, piecemeal, events, store, marker, asks, answers>>

\* Mutant of Reported: of a chat that is known the fields there are win over the reported.
ReportedKept ==
  /\ events # <<>> /\ events' = Tail(events)
  /\ LET e == Head(events) IN
     /\ store' = CASE e.is = "delete" -> Without(store, e.chat)
                   [] e.is # "delete" /\ e.chat \in DOMAIN store -> store
                   [] OTHER -> With(store, e.chat, e.unread)
     /\ marker' = IF e.is = "message" THEN [marker EXCEPT ![e.chat] = account] ELSE marker
  /\ UNCHANGED <<session, world, asks, answers>>

\* chats.delete, chats.upsert and chats.update.  Both of the latter make a chat of what is
\* not known, and put the count they carry in the place of the one there was, also where
\* it counts messages that came on top of it.  A message is seen along with its report.
Reported ==
  /\ events # <<>> /\ events' = Tail(events)
  /\ LET e == Head(events) IN
     /\ store' = IF e.is = "delete" THEN Without(store, e.chat) ELSE With(store, e.chat, e.unread)
     /\ marker' = IF e.is = "message" THEN [marker EXCEPT ![e.chat] = account] ELSE marker
  /\ UNCHANGED <<session, world, asks, answers>>

\* Another account is linked: what was under way ends with the socket.
Relinks ==
  /\ account < MaxAccounts /\ account' = account + 1
  /\ phone' = <<>> /\ member' \in SUBSET Groups /\ piecemeal' = {} /\ events' = <<>>
  /\ deletes' = <<>> /\ listing' = NoListing /\ answered' = {}

\* After the phone unlinked this client: only the session was cleared.
UnlinkedAndRelinked ==
  /\ Relinks /\ unlinked' = TRUE
  /\ UNCHANGED <<messages, store, marker, modified, crossed>>

\* Mutant of LoggedOutAndRelinked: the messages seen are left.
LoggedOutOfStore ==
  /\ Relinks /\ store' = <<>>
  /\ UNCHANGED <<unlinked, messages, marker, modified, crossed>>

\* After logout(): the chat list and the messages go.
LoggedOutAndRelinked ==
  /\ Relinks /\ store' = <<>> /\ marker' = NoMarker
  /\ UNCHANGED <<unlinked, messages, modified, crossed>>
-----------------------------------------------------------------------------
(***************************************************************************)
(* What is asked of a chat                                                 *)
(***************************************************************************)
\* requireMarker: a message seen in the chat goes with the modification.
Marks(c) ==
  /\ marker[c] # 0
  /\ modified' = modified \cup {[chat |-> c, of |-> marker[c], by |-> account]}

\* archive, markRead, markUnread and clearMessages.  pin, mute and setDisappearing carry no
\* message, and change nothing here.
Modify(c) ==
  /\ Marks(c)
  /\ UNCHANGED <<session, world, events, store, marker, deletes, crossed, answers>>

\* delete; one at a time of a chat.
Delete(c) ==
  /\ Marks(c) /\ c \notin DOMAIN deletes /\ deletes' = With(deletes, c, "asked")
  /\ crossed' = IF Pending(c) THEN crossed \cup {c} ELSE crossed
  /\ UNCHANGED <<session, world, events, store, marker, answers>>

Carried(c) ==
  /\ c \in DOMAIN deletes /\ deletes[c] = "asked" /\ deletes' = With(deletes, c, "done")
  /\ phone' = Without(phone, c)
  /\ UNCHANGED <<session, member, messages, piecemeal, events, store, marker, modified, crossed, answers>>

\* Mutant of Deleted: the store is left.
DeletedThere(c) ==
  /\ c \in DOMAIN deletes /\ deletes[c] = "done" /\ deletes' = Without(deletes, c)
  /\ UNCHANGED <<session, world, events, store, marker, modified, crossed, answers>>

\* The answer: the chat leaves the store, whatever came meanwhile.
Deleted(c) ==
  /\ c \in DOMAIN deletes /\ deletes[c] = "done" /\ deletes' = Without(deletes, c)
  /\ store' = Without(store, c)
  /\ UNCHANGED <<session, world, events, marker, modified, crossed, answers>>

\* It fails: the call throws, and the store is left as it is.
NotDeleted(c) ==
  /\ c \in DOMAIN deletes /\ deletes[c] = "asked" /\ deletes' = Without(deletes, c)
  /\ UNCHANGED <<session, world, events, store, marker, modified, crossed, answers>>
-----------------------------------------------------------------------------
(***************************************************************************)
(* getChats, and what the chats it answers offer                           *)
(***************************************************************************)
getChats ==
  /\ listing = NoListing /\ listing' = [chats |-> DOMAIN store] /\ answered' = {}
  /\ UNCHANGED <<session, world, events, store, marker, asks>>

Chat(c, metadata) == [chat |-> c, metadata |-> metadata]
Known == {Chat(c, FALSE) : c \in listing.chats}

\* Mutant of Listed: a group that is known is left as it is.
ListedAnew(groups) == Known \cup {Chat(g, TRUE) : g \in groups \ listing.chats}

\* The groups with their metadata over the chats known when it was asked.
Listed(groups) == {o \in Known : o.chat \notin groups} \cup {Chat(g, TRUE) : g \in groups}

\* The groups the account is in; if they cannot be had, the chats that are known, if any.
GroupsFetched ==
  /\ listing # NoListing /\ listing' = NoListing /\ answered' = Listed(member)
  /\ UNCHANGED <<session, world, events, store, marker, asks>>

GroupsNotFetched ==
  /\ listing # NoListing /\ listing' = NoListing /\ answered' = Listed({})
  /\ UNCHANGED <<session, world, events, store, marker, asks>>

\* getChat: a group by its metadata, if the account is in it; another that the store has,
\* or that WhatsApp knows.
getChat(c, exists) ==
  /\ IF c \in Groups THEN c \in member ELSE c \in DOMAIN store \/ exists
  /\ answered' = {o \in answered : o.chat # c} \cup {Chat(c, c \in Groups)}
  /\ UNCHANGED <<session, world, events, store, marker, asks, listing>>

\* What a chat says of itself is what the store has of it now, 0 here if it has nothing;
\* marked unread by hand is no count.
unreadCount(o) == Unread(store, o.chat)

\* The operations a chat is given when it is made: a group's by its id, a community's by
\* its metadata.
Offers(o) ==
  {"chat"} \cup (IF o.chat \in Groups THEN {"group"} ELSE {})
           \cup (IF o.chat \in Communities /\ o.metadata THEN {"community"} ELSE {})

ChatsNext ==
  \/ \E c \in Chats : \E unread \in {0, -1} : Turns(c, unread)
  \/ \E c \in Chats : \E exists \in BOOLEAN : getChat(c, exists)
  \/ \E c \in Chats : \E n \in 1 .. MaxMessages : Message(c, n)
  \/ \E c \in Chats : \E unread \in 0 .. MaxMessages : Synced(c, unread)
  \/ \E c \in Chats : Vanishes(c) \/ Modify(c)
  \/ \E c \in Chats : Delete(c) \/ Carried(c) \/ Deleted(c) \/ NotDeleted(c)
  \/ \E g \in Groups : Membership(g)
  \/ Reported \/ UnlinkedAndRelinked \/ LoggedOutAndRelinked
  \/ getChats \/ GroupsFetched \/ GroupsNotFetched

ChatsSpec == ChatsInit /\ [][ChatsNext]_chatVars
-----------------------------------------------------------------------------
ChatsTypeOK ==
  /\ account \in 1 .. MaxAccounts /\ DOMAIN phone \subseteq Chats /\ DOMAIN store \subseteq Chats
  /\ marker \in [Chats -> 0 .. account] /\ DOMAIN deletes \subseteq Chats
  /\ {o.chat : o \in answered} \subseteq Chats

\* With nothing under way the store has the chats the phone has, and a chat that is kept
\* tells how many of its messages are unread: of those that were reported one after the
\* other it tells some, and so no more than there are and that there are any.  But for a
\* chat whose deletion crossed a report of it, and what the phone's unlinking left behind.
StoreFollows ==
  (events = <<>> /\ deletes = <<>> /\ ~unlinked) =>
    /\ DOMAIN store \ crossed = DOMAIN phone \ crossed
    /\ \A o \in answered : (o.chat \in DOMAIN phone \ crossed) =>
         IF o.chat \in piecemeal THEN unreadCount(o) \in 1 .. Unread(phone, o.chat)
         ELSE unreadCount(o) = Unread(phone, o.chat)

\* A modification carries a message of the account that asks for it, which WhatsApp may
\* log out otherwise: unless the phone unlinked the one before.
MarkersAreOwn == unlinked \/ \A m \in modified : m.of = m.by

\* The two, for every account the client was linked to.
StoreIsPhones == ChatsTypeOK /\ StoreFollows /\ MarkersAreOwn

\* Nothing that getChats knew is lost, no chat is answered twice, and a community the
\* account was in offers what communities do, unless its groups could not be had.
ListingIsWhole ==
  [][listing # NoListing /\ listing' = NoListing /\ account' = account =>
       /\ listing.chats \subseteq {o.chat : o \in answered'}
       /\ \A o, p \in answered' : o.chat = p.chat => o = p
       /\ (\E o \in answered' : o.metadata) =>
            \A g \in member \cap Communities :
              \E o \in answered' : o.chat = g /\ "community" \in Offers(o)]_chatVars
=============================================================================
