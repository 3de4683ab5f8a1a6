----------------------------- MODULE MCDashboard -----------------------------
(***************************************************************************)
(* The parts of the dashboard one at a time: none reads what another keeps, *)
(* but for the payload that carries them all.                               *)
(***************************************************************************)
EXTENDS DashboardPage, FiniteSets, TLC

CONSTANTS First, OtherQr, Parts

VARIABLE topic \* the part in view

MCSymmetry == Permutations(Adapters) \cup Permutations(Slots) \cup Permutations(Passes)

Usual == CHOOSE p \in Prefixes : TRUE

MCInit == PageInit /\ topic \in Parts
                   /\ (topic = "images" \/ \A n \in Names \ {First} : reg[n] = Absent)
                   /\ (topic = "forms" \/ managed)
                   /\ \A n \in Names : reg[n] # Absent => reg[n].prefix = Usual

Alone == \A n \in Names \ {First} : reg'[n] = Absent
Jobs  == {tasks'[t].job : t \in Slots} \ {"none"}
Once  == Cardinality({t \in Slots : tasks'[t] # Idle}) <= 1 /\ Cardinality({p \in Passes : passes'[p].busy}) <= 1
Plain == \A t \in Slots : tasks'[t].prefix \in {Absent, Usual}
States(set) == \A n \in Names : reg'[n] # Absent => reg'[n].status \in set

\* Two clients and their images, one of which may go; no page is open.
Images ==
  /\ ~online' /\ answer' = NoAnswer /\ lastAsked' = 0 /\ Plain
  /\ \A t \in Slots : tasks'[t].job \in {"none", "create", "delete"} /\ tasks'[t].name \in {Absent, First}
  /\ Cardinality({t \in Slots : tasks'[t] # Idle}) <= 1
  /\ States({"initializing", "qr_received"})
  /\ \A n \in Names \ {First} : reg'[n] # Absent => reg'[n].credential # OtherQr

\* A client and its challenges, with every request, two at a time; no page is open.
Prompts ==
  /\ Alone /\ ~online' /\ answer' = NoAnswer /\ Plain
  /\ Jobs \subseteq {"passkey", "restart", "force-qr", "create", "options"}
  /\ States({"initializing", "pairing_code_received"})

\* A declared client, the page, and what is clicked on it.
Clicks ==
  /\ Alone /\ Plain /\ Once /\ Qr(reg'[First]) # OtherQr /\ lastAsked' = 0
  /\ answer' # NoAnswer => Jobs = {} /\ Len(stream') <= 1
  /\ \A t \in Slots : tasks'[t] = Idle \/ tasks'[t].page
  /\ Jobs \subseteq {"restart", "logout"}
  /\ States({"initializing", "qr_received", "ready"})

\* A client that pairs, the page, and the passkeys that are asked for.
Results ==
  /\ Alone /\ Plain /\ Once /\ form' # "cut" /\ (online => online')
  /\ answer' # NoAnswer => Jobs = {}
  /\ \A t \in Slots : tasks'[t] = Idle \/ tasks'[t].page
  /\ Jobs \subseteq {"passkey", "passkey-cancel"}
  /\ States({"initializing", "pairing_code_received"})

\* A client, the page, and the prefix it is edited with.
Forms ==
  /\ Alone /\ lastAsked' = 0 /\ Once /\ answer' = NoAnswer
  /\ Jobs \subseteq {"prefix", "delete", "create", "options"}
  /\ States({"initializing", "ready"})

MCNext ==
  /\ Next /\ UNCHANGED topic
  /\ CASE topic = "images" -> Images [] topic = "prompts" -> Prompts
       [] topic = "cards" -> Clicks [] topic = "results" -> Results [] topic = "forms" -> Forms
MCSpec == MCInit /\ [][MCNext]_<<vars, topic>>
=============================================================================
