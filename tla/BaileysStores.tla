---------------------------- MODULE BaileysStores ----------------------------
(***************************************************************************)
(* What a Baileys adapter remembers between its sockets: participant lists *)
(* of groups, retry counters, messages, chats, the blocklist and presence  *)
(* subscriptions.  Events come from an open socket; what another device or *)
(* the server does in between is the environment.                          *)
(*                                                                         *)
(* Every entry is stamped with the account it was learned of.              *)
(***************************************************************************)
EXTENDS TtlCaches

CONSTANTS
  Groups, MaxLists,      \* groups, and how many participant lists are kept
  Retried, MaxRetries,   \* messages that are retried, and how many counters are kept
  Messages, MaxMessages, \* [id |-> [chat, fromMe, content]], and how many are kept
  Chats, MaxChats,       \* chats, and how many are kept
  Activities,            \* timestamps of a chat, 0 for none
  Contacts,              \* contacts that are blocked or whose presence is asked for
  MaxAccounts, MaxChanges, MaxTime, MaxLoops, MaxAsked \* bounds: accounts linked one
                         \* after the other, changes of a group, the clock, and how often
                         \* resubscribePresence and groupMetadata are under way at once

ASSUME StoresAssumption ==
  /\ {MaxLists, MaxRetries, MaxMessages, MaxChats, MaxAccounts, MaxLoops} \subseteq Nat \ {0}
  /\ {MaxChanges, MaxTime, MaxAsked, Ttl} \subseteq Nat /\ Activities \subseteq Nat /\ 0 \in Activities

Ids == DOMAIN Messages

ASSUME MessagesAssumption ==
  /\ None \notin Ids
  /\ \A id \in Ids : /\ Messages[id].chat \in Chats /\ Messages[id].fromMe \in BOOLEAN
                     /\ Messages[id].content # None

VARIABLES
  sock,       \* "none", "closed" or "open"
  account,    \* the account linked last, or linked now
  linked,     \* there are credentials
  unlinked,   \* the phone has unlinked this device, and logout() was not called since
  now,
  lists,      \* the group cache: group -> [version, account, raced]
  version,    \* how often each group has changed
  reported,   \* the change of each group that was reported last
  asked,      \* answers to groupMetadata under way: <<group, version, raced>>, raced when a
              \* change was reported meanwhile
  counters,   \* the retry counters: message -> account
  byId,       \* the ids of the messages kept, oldest first
  heard,      \* all that were remembered, by when they last were
  lastByChat, lastReceivedByChat, \* the last message of each chat, or None
  chats,      \* the chat store: [id, activity, account], in the order of its Map
  truth,      \* the contacts the account has blocked
  owed,       \* changes of truth that were not reported yet
  told,       \* contacts the blocklist was told of
  blocked, blocklistKnown, knownOf, \* what is known of it, and of which account
  subs,       \* presenceSubscriptions: [contact, account], 0 for whichever is linked next
  active,     \* contacts whose presence this connection reports
  failed,     \* contacts whose subscription failed on this connection
  loops       \* resubscribePresence at work: the contacts each has come to

session   == <<sock, account, linked, unlinked>>
groupVars == <<now, lists, version, reported, asked, counters>>
msgVars   == <<byId, heard, lastByChat, lastReceivedByChat>>
blockVars == <<truth, owed, told, blocked, blocklistKnown, knownOf>>
presence  == <<subs, active, failed, loops>>
stores    == <<groupVars, msgVars, chats, blockVars, presence>>
vars      == <<session, stores>>

NoLast == [c \in Chats |-> None]

Init ==
  /\ sock = "none" /\ account = 0 /\ linked = FALSE /\ unlinked = FALSE
  /\ now = 0 /\ lists = <<>> /\ counters = <<>> /\ asked = {}
  /\ version = [g \in Groups |-> 0] /\ reported = version
  /\ byId = <<>> /\ heard = <<>> /\ lastByChat = NoLast /\ lastReceivedByChat = NoLast
  /\ chats = <<>>
  /\ truth \in SUBSET Contacts /\ owed = {} /\ told = {}
  /\ blocked = {} /\ blocklistKnown = FALSE /\ knownOf = 0
  /\ subs = {} /\ active = {} /\ failed = {} /\ loops = <<>>
-----------------------------------------------------------------------------
(***************************************************************************)
(* The socket                                                              *)
(***************************************************************************)
Subscribed == {s.contact : s \in subs}

\* initialize() and the open that follows: with credentials, or paired anew, with the same
\* account or another one.
Opens ==
  /\ sock # "open" /\ sock' = "open" /\ linked' = TRUE /\ asked' = {}
  /\ account' \in (IF linked THEN {account} ELSE {account, account + 1} \cap 1 .. MaxAccounts)
  /\ IF account' = account THEN UNCHANGED <<truth, owed, told>>
     ELSE truth' \in SUBSET Contacts /\ owed' = {} /\ told' = {}
  /\ active' = {} /\ failed' = {}
  /\ UNCHANGED <<unlinked, now, lists, version, reported, counters, msgVars, chats,
                 blocked, blocklistKnown, knownOf, subs>>

\* Mutant of Connects: presence is not subscribed again.
ConnectsOnly == Opens /\ loops' = loops

\* On open, resubscribePresence begins.
Connects ==
  /\ Opens
  /\ subs = {} \/ Len(loops) < MaxLoops
  /\ loops' = IF subs = {} THEN loops ELSE Append(loops, {})

\* A socket that ends fails what it was asked.
Ends(to) == sock' = to /\ asked' = {}

Drops ==
  /\ sock = "open" /\ Ends("closed")
  /\ UNCHANGED <<account, linked, unlinked, now, lists, version, reported, counters, msgVars,
                 chats, blockVars, presence>>

\* A close for loggedOut: clearSession, and nothing else.
PhoneUnlinks ==
  /\ sock = "open" /\ Ends("closed") /\ linked' = FALSE /\ unlinked' = TRUE
  /\ UNCHANGED <<account, now, lists, version, reported, counters, msgVars, chats, blockVars,
                 presence>>

\* destroy, and the teardown that initialize() begins with.
Destroys ==
  /\ sock # "none" /\ Ends("none")
  /\ UNCHANGED <<account, linked, unlinked, now, lists, version, reported, counters, msgVars,
                 chats, blockVars, presence>>

\* Mutant of Logout: the retry counters and the blocklist are left.
LogoutSome ==
  /\ linked /\ Ends("none") /\ linked' = FALSE /\ unlinked' = FALSE
  /\ lists' = <<>> /\ byId' = <<>> /\ heard' = <<>>
  /\ lastByChat' = NoLast /\ lastReceivedByChat' = NoLast /\ chats' = <<>> /\ subs' = {}
  /\ UNCHANGED <<account, now, version, reported, counters, blockVars, active, failed, loops>>

\* logout: teardown, clearSession, and all stores are cleared.
Logout ==
  /\ linked /\ Ends("none") /\ linked' = FALSE /\ unlinked' = FALSE
  /\ lists' = <<>> /\ counters' = <<>> /\ chats' = <<>>
  /\ byId' = <<>> /\ heard' = <<>> /\ lastByChat' = NoLast /\ lastReceivedByChat' = NoLast
  /\ blocked' = {} /\ blocklistKnown' = FALSE /\ told' = {} /\ subs' = {}
  /\ UNCHANGED <<account, now, version, reported, truth, owed, knownOf, active, failed, loops>>
-----------------------------------------------------------------------------
(***************************************************************************)
(* Groups and retries                                                      *)
(***************************************************************************)
Tick ==
  /\ now < MaxTime /\ now' = now + 1
  /\ UNCHANGED <<session, lists, version, reported, asked, counters, msgVars, chats, blockVars,
                 presence>>

GroupChanges(g) ==
  /\ version[g] < MaxChanges /\ version' = [version EXCEPT ![g] = @ + 1]
  /\ UNCHANGED <<session, now, lists, reported, asked, counters, msgVars, chats, blockVars, presence>>

List(g, v, raced) ==
  Put(lists, g, [version |-> v, account |-> account, raced |-> raced], MaxLists, now)

\* cachedGroupMetadata: a hit, or the question to WhatsApp, which answers at once what
\* arrives later.
CachedGroupMetadata(g) ==
  /\ sock = "open" /\ lists' = AfterGet(lists, g, now)
  /\ Cardinality(asked) < MaxAsked
  /\ asked' = IF Get(lists, g, now) # None THEN asked ELSE asked \cup {<<g, version[g], FALSE>>}
  /\ UNCHANGED <<session, now, version, reported, counters, msgVars, chats, blockVars, presence>>

MetadataArrives(a) ==
  /\ a \in asked /\ asked' = asked \ {a}
  /\ lists' = List(a[1], a[2], a[3])
  /\ UNCHANGED <<session, now, version, reported, counters, msgVars, chats, blockVars, presence>>

MetadataFails(a) ==
  /\ a \in asked /\ asked' = asked \ {a}
  /\ UNCHANGED <<session, now, lists, version, reported, counters, msgVars, chats, blockVars, presence>>

ReportOf(g) ==
  /\ reported' = [reported EXCEPT ![g] = version[g]]
  /\ asked' = {IF a[1] = g THEN <<g, a[2], TRUE>> ELSE a : a \in asked}

\* Mutant of GroupReported: the entry is kept.
GroupReportedOnly(g) ==
  /\ sock = "open" /\ reported[g] < version[g] /\ ReportOf(g)
  /\ UNCHANGED <<session, now, lists, version, counters, msgVars, chats, blockVars, presence>>

\* groups.update and group-participants.update, which may come before the answer to a
\* question or after it.
GroupReported(g) ==
  /\ sock = "open" /\ reported[g] < version[g] /\ ReportOf(g)
  /\ lists' = Del(lists, g)
  /\ UNCHANGED <<session, now, version, counters, msgVars, chats, blockVars, presence>>

\* groups.upsert carries the list itself.
GroupUpserted(g) ==
  /\ sock = "open" /\ ReportOf(g) /\ lists' = List(g, version[g], FALSE)
  /\ UNCHANGED <<session, now, version, counters, msgVars, chats, blockVars, presence>>

\* Baileys counts a retry in msgRetryCounterCache.
Retries(k) ==
  /\ sock = "open" /\ counters' = Put(counters, k, account, MaxRetries, now)
  /\ UNCHANGED <<session, now, lists, version, reported, asked, msgVars, chats, blockVars, presence>>
-----------------------------------------------------------------------------
(***************************************************************************)
(* Messages                                                                *)
(***************************************************************************)
LastOf(seq, n) == SubSeq(seq, IF Len(seq) > n THEN Len(seq) - n + 1 ELSE 1, Len(seq))
Moved(seq, id) ==
  Append(At(seq, {i \in DOMAIN seq : seq[i].id # id}), [id |-> id, account |-> account])

\* Mutant of Kept: a message that is known keeps its place.
KeptInPlace(seq, id) ==
  IF id \in {seq[i].id : i \in DOMAIN seq} THEN seq
  ELSE LastOf(Append(seq, [id |-> id, account |-> account]), MaxMessages)

\* The ids after one more: it goes to the end, and the oldest goes when there are too many.
Kept(seq, id) == LastOf(Moved(seq, id), MaxMessages)

\* remember, from a live message, from history, or from what this client sent.
Remember(id) ==
  /\ byId' = Kept(byId, id) /\ heard' = Moved(heard, id)
  /\ lastByChat' = [lastByChat EXCEPT ![Messages[id].chat] = id]
  /\ lastReceivedByChat' = IF Messages[id].fromMe THEN lastReceivedByChat
                           ELSE [lastReceivedByChat EXCEPT ![Messages[id].chat] = id]

\* onMessagesUpsert: live ones, history, and the echo of those sent from here.
MessageSeen(id) ==
  /\ sock = "open" /\ Remember(id)
  /\ UNCHANGED <<session, groupVars, chats, blockVars, presence>>

\* sendAndWrap: remembered at once, and not at its echo only.
MessageSent(id) ==
  /\ sock = "open" /\ Messages[id].fromMe /\ Remember(id)
  /\ UNCHANGED <<session, groupVars, chats, blockVars, presence>>

\* What getMessage and poll votes are answered with, and what revokeMessage and the
\* markers of sendSeen and chatModify are.
Known(id)   == id \in {byId[i].id : i \in DOMAIN byId}
Content(id) == IF Known(id) THEN Messages[id].content ELSE None
CanRevoke(id) == Known(id)
ReadsVote(id) == Content(id) # None
Seen(c)       == lastReceivedByChat[c]
Marker(c)   == IF lastReceivedByChat[c] # None THEN lastReceivedByChat[c] ELSE lastByChat[c]
-----------------------------------------------------------------------------
(***************************************************************************)
(* Chats                                                                   *)
(***************************************************************************)
ChatIds(all) == {all[i].id : i \in DOMAIN all}

\* An entry laid over what was known; no activity in it leaves the old one.
Merged(all, c, activity) ==
  LET entry(old) == [id |-> c, activity |-> IF activity = None THEN old ELSE activity,
                     account |-> account]
  IN  IF c \in ChatIds(all)
      THEN [i \in DOMAIN all |-> IF all[i].id = c THEN entry(all[i].activity) ELSE all[i]]
      ELSE Append(all, entry(0))

\* Mutant of Trimmed: nothing goes.
TrimmedNever(all) == all

\* Mutant of Trimmed: the first known go first.
TrimmedFirst(all) == LastOf(all, MaxChats)

\* evict: of the least active, the first known go first.
Trimmed(all) ==
  LET before(i, j) == \/ all[i].activity < all[j].activity
                      \/ all[i].activity = all[j].activity /\ i < j
      rank(i) == Cardinality({j \in DOMAIN all : before(j, i)})
      gone == {all[i].id : i \in {j \in DOMAIN all : rank(j) < Len(all) - MaxChats}}
  IN  IF Len(all) <= MaxChats THEN all ELSE At(all, {i \in DOMAIN all : all[i].id \notin gone})

\* chats.upsert and messaging-history.set carry the activity, chats.update may.
ChatReported(c, activity) ==
  /\ sock = "open" /\ chats' = Trimmed(Merged(chats, c, activity))
  /\ UNCHANGED <<session, groupVars, msgVars, blockVars, presence>>

\* chats.delete, and chat.delete().
ChatDeleted(c) ==
  /\ sock = "open" /\ chats' = At(chats, {i \in DOMAIN chats : chats[i].id # c})
  /\ UNCHANGED <<session, groupVars, msgVars, blockVars, presence>>
-----------------------------------------------------------------------------
(***************************************************************************)
(* The blocklist                                                           *)
(***************************************************************************)
Flip(set, c) == IF c \in set THEN set \ {c} ELSE set \cup {c}

BlockChanges(c) ==
  /\ c \notin owed /\ truth' = Flip(truth, c) /\ owed' = owed \cup {c}
  /\ UNCHANGED <<session, groupVars, msgVars, chats, told, blocked, blocklistKnown, knownOf, presence>>

Knows == blocklistKnown' = TRUE /\ knownOf' = account

\* Mutant of BlocklistUpdate: whom it unblocks stays blocked.
BlocklistUpdateAdds(c) ==
  /\ sock = "open" /\ c \in owed /\ owed' = owed \ {c} /\ told' = told \cup {c}
  /\ blocked' = blocked \cup {c}
  /\ Knows
  /\ UNCHANGED <<session, groupVars, msgVars, chats, truth, presence>>

BlocklistUpdate(c) ==
  /\ sock = "open" /\ c \in owed /\ owed' = owed \ {c} /\ told' = told \cup {c}
  /\ blocked' = IF c \in truth THEN blocked \cup {c} ELSE blocked \ {c}
  /\ Knows
  /\ UNCHANGED <<session, groupVars, msgVars, chats, truth, presence>>

BlocklistSet ==
  /\ sock = "open" /\ blocked' = truth /\ owed' = {} /\ told' = Contacts /\ Knows
  /\ UNCHANGED <<session, groupVars, msgVars, chats, truth, presence>>

\* isBlocked: None for not known.
IsBlocked(c) == IF blocklistKnown THEN c \in blocked ELSE None
-----------------------------------------------------------------------------
(***************************************************************************)
(* Presence                                                                *)
(***************************************************************************)
\* presenceSubscribe on an open socket succeeds or fails, on a closed one it fails.
Asks(c) ==
  \/ sock = "open" /\ active' = active \cup {c} /\ failed' = failed
  \/ failed' = failed \cup {c} /\ active' = active

\* subscribePresence: remembered before it is asked, and without a socket too.
SubscribePresence(c) ==
  /\ subs' = {s \in subs : s.contact # c}
               \cup {[contact |-> c, account |-> IF linked THEN account ELSE 0]}
  /\ IF sock = "none" THEN UNCHANGED <<active, failed>> ELSE Asks(c)
  /\ UNCHANGED <<session, groupVars, msgVars, chats, blockVars, loops>>

Without(seq, i) == [j \in 1 .. Len(seq) - 1 |-> IF j < i THEN seq[j] ELSE seq[j + 1]]

\* One turn of a resubscribePresence, which also comes to what is added meanwhile.  When
\* the socket is gone the getter throws, and the loop with it.
Resubscribes(i) ==
  /\ i \in DOMAIN loops
  /\ \E c \in Subscribed \ loops[i] :
       IF sock = "none" THEN loops' = Without(loops, i) /\ UNCHANGED <<active, failed>>
       ELSE loops' = [loops EXCEPT ![i] = @ \cup {c}] /\ Asks(c)
  /\ UNCHANGED <<session, groupVars, msgVars, chats, blockVars, subs>>

ResubscribeEnds(i) ==
  /\ i \in DOMAIN loops /\ Subscribed \subseteq loops[i] /\ loops' = Without(loops, i)
  /\ UNCHANGED <<session, groupVars, msgVars, chats, blockVars, subs, active, failed>>
-----------------------------------------------------------------------------
Next ==
  \/ Connects \/ Drops \/ PhoneUnlinks \/ Destroys \/ Logout
  \/ Tick
  \/ \E g \in Groups : GroupChanges(g) \/ CachedGroupMetadata(g) \/ GroupReported(g) \/ GroupUpserted(g)
  \/ \E a \in asked : MetadataArrives(a) \/ MetadataFails(a)
  \/ \E k \in Retried : Retries(k)
  \/ \E id \in Ids : MessageSeen(id) \/ MessageSent(id)
  \/ \E c \in Chats : ChatDeleted(c) \/ \E a \in {None} \cup Activities : ChatReported(c, a)
  \/ \E c \in Contacts : BlockChanges(c) \/ BlocklistUpdate(c) \/ SubscribePresence(c)
  \/ BlocklistSet
  \/ \E i \in DOMAIN loops : Resubscribes(i) \/ ResubscribeEnds(i)

Spec == Init /\ [][Next]_vars
-----------------------------------------------------------------------------
\* Every store is within its limit, and has an entry once.
TypeOK ==
  /\ Len(lists) <= MaxLists /\ Cardinality(KeysOf(lists)) = Len(lists)
  /\ Len(counters) <= MaxRetries /\ Cardinality(KeysOf(counters)) = Len(counters)
  /\ Len(byId) <= MaxMessages /\ Len(chats) <= MaxChats /\ Cardinality(ChatIds(chats)) = Len(chats)
  /\ sock = "open" => linked

\* "Anything that changes the group drops the entry, so a stale list is never used": of a
\* group whose change was reported no older list is kept, unless the change was reported
\* while the list was asked for.
StaleOnlyIfRaced ==
  \A g \in KeysOf(lists) :
    LET list == EntryOf(lists, g).value IN list.version >= reported[g] \/ list.raced

\* What a message is answered with, and a vote on it read with, is kept for the messages
\* that were seen or sent last, however often and in which chat; and the marker of a chat
\* is the message last received in it, or else the last one, however long ago.
RecentAreAnswered ==
  LET last(set) == IF set = {} THEN None ELSE heard[CHOOSE i \in set : \A j \in set : j <= i].id
      of(c)     == {i \in DOMAIN heard : Messages[heard[i].id].chat = c}
      recent    == {LastOf(heard, MaxMessages)[i].id : i \in DOMAIN LastOf(heard, MaxMessages)}
  IN  /\ \A id \in Ids : CanRevoke(id) = (id \in recent) /\ ReadsVote(id) = (id \in recent)
      /\ \A c \in Chats :
           LET received == {i \in of(c) : ~Messages[heard[i].id].fromMe} IN
           /\ Seen(c) = last(received)
           /\ Marker(c) = IF received # {} THEN last(received) ELSE last(of(c))

\* A chat that goes to make room was no more active than any that stays.
IdleChatsGo ==
  [][(sock = "open" /\ Len(chats') = MaxChats) =>
       \A i \in DOMAIN chats : chats[i].id \notin ChatIds(chats') =>
         \A j \in DOMAIN chats' : chats[i].activity <= chats'[j].activity]_vars

\* Of a contact that the blocklist was told of, what isBlocked answers is so until it
\* changes.  (The first update makes the blocklist known for all others too.)
ToldIsSo == \A c \in told \ owed : IsBlocked(c) = (c \in truth)

\* Once resubscribePresence is done, the presence of everyone subscribed is reported on
\* this connection, unless their own subscription failed on it.
PresenceSurvives ==
  (sock = "open" /\ loops = <<>>) => Subscribed \subseteq active \cup failed

\* Nothing of an account is left when another one is linked.
OneAccount ==
  linked =>
    /\ \A i \in DOMAIN lists : lists[i].value.account = account
    /\ \A i \in DOMAIN counters : counters[i].value = account
    /\ \A i \in DOMAIN heard : heard[i].account = account
    /\ \A i \in DOMAIN chats : chats[i].account = account
    /\ \A s \in subs : s.account \in {0, account}
    /\ blocklistKnown => knownOf = account

\* That, when it was logout() that unlinked the other one, and not the phone.
LogoutForgets == unlinked \/ OneAccount

\* What the adapter says of an account, and is subscribed to for it, is that account's,
\* across reconnects, logouts and links.
AccountIsFollowed == TypeOK /\ ToldIsSo /\ PresenceSurvives /\ LogoutForgets
=============================================================================
