------------------------- MODULE MCBaileysMessages -------------------------
(***************************************************************************)
(* Messages, the statuses of a sent one, and chats: one of the three at a  *)
(* time, the others at rest, as none reads another.  Of messages either    *)
(* the arrivals, what is asked, the edits, or blocked contacts and calls;  *)
(* of chats the deletions, the modifications over two accounts, getting    *)
(* them, or the counts of two.                                             *)
(***************************************************************************)
EXTENDS MessageStatuses, BaileysMessages, BaileysChats

VARIABLE topic  \* the machine that runs
-----------------------------------------------------------------------------
Written(chatKind, writer, form, alt, here, kind, quotes) ==
  [chat |-> chatKind, writer |-> writer, form |-> form, alt |-> alt, here |-> here, kind |-> kind,
   quotes |-> quotes]

\* In a direct chat: one of the other's by LID, which answers an own voice note; that note,
\* from the phone; and a stub.  In a group: one sent from here, and an answer to it from
\* the phone; and, by number, the other's answer to it in private.
MCWorld ==
  [hello |-> Written("direct", "peer", "lid", TRUE,  FALSE, "text",    "voice"),
   voice |-> Written("direct", "me",   "lid", TRUE,  FALSE, "audio",   Nil),
   stub  |-> Written("direct", "peer", "pn",  FALSE, FALSE, "stub",    Nil),
   photo |-> Written("group",  "me",   "pn",  FALSE, TRUE,  "caption", Nil),
   aside |-> Written("direct", "peer", "pn",  FALSE, FALSE, "text",    "photo"),
   reply |-> Written("group",  "me",   "lid", TRUE,  FALSE, "text",    "photo")]

StatusRest  == Init /\ platform = "baileys" /\ chat = "direct" /\ lidKnown
MessageRest == MessagesInit /\ knowsLid
ChatRest    == ChatsInit /\ member = {}

MessageTopics == {"arrivals", "asking", "edits", "contacts"}
ChatTopics    == {"deleting", "modifying", "listing", "counting"}

MCInit ==
  \/ topic \in MessageTopics /\ MessagesInit /\ StatusRest /\ ChatRest
  \/ topic = "statuses" /\ Init /\ MessageRest /\ ChatRest
  \/ topic \in ChatTopics /\ ChatsInit /\ StatusRest /\ MessageRest

\* Where counts are not what it is about, a chat comes with a message and has one unread.
Single ==
  /\ \A c \in DOMAIN phone' : Unread(phone', c) <= 1
  /\ DOMAIN phone' \subseteq DOMAIN phone \/ messages' > messages

Stays ==
  /\ topic = "arrivals" \/ resent' = resent
  /\ topic = "asking" \/ asked' = {}
  /\ topic = "edits" \/ (edits' = <<>> /\ now' = now)
  /\ topic = "contacts" \/ (blocked' = {Nil} /\ declined' = {})
  /\ topic \in {"deleting", "counting"} \/ deletes' = <<>>
  /\ topic \in {"deleting", "modifying"} \/ modified' = {}
  /\ topic = "modifying" \/ account' = account
  /\ topic = "modifying" =>
       phone' = phone \/ messages' > messages \/ (account' # account /\ member' = member)
  /\ topic = "listing" \/ listing' = listing
  /\ topic \in {"listing", "counting"} \/ answered' = answered
  /\ topic = "counting" \/ Single
  /\ topic = "counting" =>
       member' = member /\ DOMAIN phone' \cup {o.chat : o \in answered'} \subseteq Chats \ Communities

MCNext ==
  /\ UNCHANGED topic
  /\ \/ topic \in MessageTopics /\ MessagesNext /\ UNCHANGED <<vars, chatVars>> /\ Stays
     \/ topic = "statuses" /\ Next /\ UNCHANGED <<messageVars, chatVars>>
     \/ topic \in ChatTopics /\ ChatsNext /\ UNCHANGED <<vars, messageVars>> /\ Stays

MCSpec == MCInit /\ [][MCNext]_<<vars, messageVars, chatVars, topic>>
=============================================================================
