--------------------------- MODULE MCBaileysStores ---------------------------
(***************************************************************************)
(* One store at a time: no store reads another, so a state of all of them  *)
(* is a state of each, and the others stay empty.                          *)
(***************************************************************************)
EXTENDS BaileysStores, TLC

VARIABLE topic \* the store in view

Message(chat, fromMe, content) == [chat |-> chat, fromMe |-> fromMe, content |-> content]
MCMessages == [hello |-> Message("c1", FALSE, "text"), poll |-> Message("c1", FALSE, "poll"),
               sent |-> Message("c1", TRUE, "text"), other |-> Message("c2", FALSE, "text")]

MCSymmetry == Permutations(Groups) \cup Permutations(Retried) \cup Permutations(Contacts)

MCInit == Init /\ topic \in {"lists", "counters", "messages", "chats", "blocklist", "presence"}
                /\ (topic = "blocklist" \/ truth = {})

Stays ==
  /\ topic = "lists" \/ (version' = version /\ reported' = reported /\ asked' = {})
  /\ topic = "counters" \/ counters' = <<>>
  /\ topic \in {"lists", "counters"} \/ now' = now
  /\ topic = "messages" \/ heard' = <<>>
  /\ topic = "chats" \/ chats' = <<>>
  /\ topic = "blocklist" \/ (truth' = {} /\ ~blocklistKnown')
  /\ topic = "presence" \/ subs' = {}

MCNext == Next /\ Stays /\ UNCHANGED topic
MCSpec == MCInit /\ [][MCNext]_<<vars, topic>>
=============================================================================
