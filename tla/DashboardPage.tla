---------------------------- MODULE DashboardPage ----------------------------
(***************************************************************************)
(* The page of the dashboard in one browser tab, over the server: the cards*)
(* it keeps, what it renders from an SSE message or a refresh, and the     *)
(* buttons a click disables.                                               *)
(***************************************************************************)
EXTENDS DashboardService

VARIABLES
  cards,      \* cardMap: what each card shows
  configs,    \* configMap
  prompts,    \* passkeyMap
  seen,       \* passkeyResultSeen
  toasted,    \* history: the results a toast was shown for
  empty,      \* showingEmpty
  form,       \* addClientCardEl: "none", "placed" in the grid, or "cut" from it
  answer,     \* the answer to a refresh on its way, and whether a message overtook it
  behind,     \* history: the page went back to something older
  apart,      \* history: a refresh was shown out of step with the messages
  again,      \* history: a result was shown twice
  lagging     \* history: names whose prefix was stored after the page was told

page == <<cards, configs, prompts, seen, toasted, empty, form, answer, behind, apart, again>>
vars == <<server, page, lagging>>

\* What a card asks for: a passkey, a code to type, or a QR to scan.
Panel == {"none", "passkey", "code"} \cup Qrs
Card  == [status : Status, virtual : BOOLEAN, panel : Panel, disabled : BOOLEAN]

\* What a message says of a client.
Summaries == [status : Status, virtual : BOOLEAN, qr : Qrs \cup {Absent}, code : BOOLEAN,
              challenge : 0..MaxAsked, result : 0..MaxAsked, config : Prefixes \cup {Absent}]

ASSUME PageAssumption == Absent \notin Card /\ Absent \notin Summaries

NoAnswer == [payload |-> Absent, old |-> FALSE]

Nothing == [n \in Names |-> Absent]
NoneOf  == [n \in Names |-> 0]

PageInit ==
  /\ Init
  /\ cards = Nothing /\ configs = Nothing /\ prompts = NoneOf /\ seen = NoneOf /\ toasted = {}
  /\ empty = TRUE /\ form = "none" /\ answer = NoAnswer
  /\ behind = FALSE /\ apart = FALSE /\ again = FALSE /\ lagging = {}
-----------------------------------------------------------------------------
(***************************************************************************)
(* render                                                                  *)
(***************************************************************************)

\* The passkey wins over the QR, and the QR over the pairing code.
PanelOf(c) == CASE c.challenge # 0  -> "passkey"
                [] c.challenge = 0 /\ c.qr # Absent -> c.qr
                [] c.challenge = 0 /\ c.qr = Absent /\ c.code -> "code"
                [] OTHER -> "none"

BuildCard(c) == [status |-> c.status, virtual |-> c.virtual, panel |-> PanelOf(c), disabled |-> FALSE]

\* Mutant of PatchCard: the actions are left as they are.
PatchCardActionsKept(card, c) ==
  [status |-> c.status, virtual |-> c.virtual, panel |-> PanelOf(c), disabled |-> card.disabled]

\* Mutant of PatchCard: a panel that is there stays.
PatchCardPanelKept(card, c) ==
  [status |-> c.status, virtual |-> c.virtual, panel |-> IF card.panel = "none" THEN PanelOf(c) ELSE card.panel,
   disabled |-> card.disabled /\ card.status = c.status /\ card.virtual = c.virtual]

\* The actions are built anew only when the status, or the kind of client, changed.
PatchCard(card, c) ==
  [status |-> c.status, virtual |-> c.virtual, panel |-> PanelOf(c),
   disabled |-> card.disabled /\ card.status = c.status /\ card.virtual = c.virtual]

Shown(p) == {n \in Names : p[n] # Absent}

\* With the form cut off the grid, placing a card before it throws.
Breaks(p) == form = "cut" /\ \E n \in Shown(p) : cards[n] = Absent

Cards(p) ==
  [n \in Names |-> CASE p[n] = Absent -> Absent
                     [] p[n] # Absent /\ cards[n] # Absent -> PatchCard(cards[n], p[n])
                     [] p[n] # Absent /\ cards[n] = Absent ->
                          IF Breaks(p) THEN Absent ELSE BuildCard(p[n])]

\* Mutant of News: a result is news whenever it is there.
NewsAlways(p) == {n \in Shown(p) : p[n].result # 0}

News(p) == {n \in Shown(p) : p[n].result # 0 /\ p[n].result # seen[n]}

\* Mutant of Configs: the first configuration of a name stays.
ConfigsOnce(p) ==
  [n \in Names |-> IF p[n] # Absent /\ configs[n] = Absent THEN p[n].config ELSE configs[n]]

\* A configuration stays until there is another.
Configs(p) ==
  [n \in Names |-> IF p[n] # Absent /\ p[n].config # Absent THEN p[n].config ELSE configs[n]]

\* What the page learns, whatever becomes of the cards.
Learns(p) ==
  /\ configs' = Configs(p)
  /\ prompts' = [n \in Names |-> IF p[n] = Absent THEN 0 ELSE p[n].challenge]
  /\ seen' = [n \in Names |-> IF n \in News(p) THEN p[n].result ELSE seen[n]]
  /\ toasted' = toasted \cup {p[n].result : n \in News(p)}
  /\ again' = (again \/ \E n \in News(p) : p[n].result \in toasted)

Cleared ==
  /\ cards' = Nothing
  /\ empty' = TRUE
  /\ form' = IF form = "placed" THEN "cut" ELSE form

\* A render that throws in a refresh ends in setEmpty, one in a message leaves it at that.
Render(p, refresh) ==
  /\ Learns(p)
  /\ IF (Shown(p) = {} /\ ~managed) \/ (refresh /\ Breaks(p))
     THEN Cleared
     ELSE /\ cards' = Cards(p) /\ empty' = FALSE
          /\ form' = IF managed /\ form = "none" THEN "placed" ELSE form
  /\ stuck' = {n \in stuck : cards'[n] # Absent /\ cards'[n].disabled}
-----------------------------------------------------------------------------
(***************************************************************************)
(* What the page hears                                                     *)
(***************************************************************************)
Aside == <<clients, pairing, views, crossed, mislaid, strays>>

\* The page is loaded, or loaded again.
Reload ==
  /\ cards' = Nothing /\ configs' = Nothing /\ prompts' = NoneOf /\ seen' = NoneOf /\ toasted' = {}
  /\ empty' = TRUE /\ form' = "none" /\ answer' = NoAnswer
  /\ behind' = FALSE /\ apart' = FALSE /\ again' = FALSE /\ lagging' = {} /\ stuck' = {}
  /\ online' = FALSE /\ stream' = <<>>
  /\ tasks' = [t \in Slots |-> [tasks[t] EXCEPT !.page = FALSE]]
  /\ UNCHANGED Aside

\* What changed meanwhile is in one message, and a change that was undone in none.
Connects ==
  /\ ~online /\ online' = TRUE
  /\ stream' = <<Payload(reg, images, challenges, results, config)>>
  /\ lagging' = {}
  /\ stuck' = stuck \cup {n \in Names : cards[n] # Absent /\ cards[n].disabled}
  /\ UNCHANGED <<Aside, tasks, page>>

\* The connection is lost, with what was on its way.
Cut ==
  /\ online /\ online' = FALSE /\ stream' = <<>>
  /\ UNCHANGED <<Aside, tasks, stuck, page, lagging>>

Message ==
  /\ stream # <<>> /\ stream' = Tail(stream)
  /\ Render(Head(stream), FALSE)
  /\ behind' = FALSE
  /\ answer' = IF answer = NoAnswer THEN NoAnswer ELSE [answer EXCEPT !.old = TRUE]
  /\ UNCHANGED <<Aside, tasks, online, apart, lagging>>

\* doRefresh: the server answers with what it has.
Refresh ==
  /\ answer = NoAnswer
  /\ answer' = [payload |-> Payload(reg, images, challenges, results, config), old |-> FALSE]
  /\ UNCHANGED <<Aside, tasks, stuck, online, stream, cards, configs, prompts, seen, toasted,
                 empty, form, behind, apart, again, lagging>>

Refreshed ==
  /\ answer # NoAnswer /\ answer' = NoAnswer
  /\ Render(answer.payload, TRUE)
  /\ behind' = (behind \/ answer.old) /\ apart' = (apart \/ answer.old \/ stream # <<>>)
  /\ UNCHANGED <<Aside, tasks, online, stream, lagging>>

\* The server cannot be reached.
RefreshFails ==
  /\ answer # NoAnswer /\ answer' = NoAnswer
  /\ Cleared
  /\ behind' = TRUE
  /\ stuck' = {}
  /\ UNCHANGED <<Aside, tasks, online, stream, configs, prompts, seen, toasted, apart, again, lagging>>
-----------------------------------------------------------------------------
(***************************************************************************)
(* What the user does                                                      *)
(***************************************************************************)

\* The buttons a card has; the panel has those of the passkey.
Buttons(card) ==
  LET any == IF card.status = "initializing" THEN {} ELSE {"restart"}
      up  == IF card.status = "ready" THEN {"force-qr", "logout"} ELSE {}
      own == IF card.virtual THEN {"prefix", "delete"} ELSE {}
  IN  any \cup up \cup own \cup (IF card.panel = "passkey" THEN {"passkey-cancel"} ELSE {})

\* doAction, once confirmed.  The panel may have been built after the click that disabled
\* the actions, and what signPasskey disables it enables again: whatever became of the
\* actions, the panel's buttons may work.
Click(t, n, job) ==
  /\ cards[n] # Absent /\ job \in Buttons(cards[n]) \ {"prefix"}
  /\ cards[n].disabled => job = "passkey-cancel"
  /\ Sent(t, job, n, Absent, TRUE)
  /\ cards' = [cards EXCEPT ![n].disabled = TRUE] /\ stuck' = stuck \ {n}
  /\ UNCHANGED <<Aside, online, stream, configs, prompts, seen, toasted, empty, form,
                 answer, behind, apart, again, lagging>>

\* signPasskey: what is signed is the challenge the page has by then.
SignPasskey(t, n) ==
  /\ cards[n] # Absent /\ cards[n].panel = "passkey" /\ prompts[n] # 0
  /\ Sent(t, "passkey", n, Absent, TRUE)
  /\ UNCHANGED <<Aside, stuck, online, stream, page, lagging>>

\* openEditForm and Save with another prefix.
SavePrefix(t, n, prefix) ==
  /\ cards[n] # Absent /\ ~cards[n].disabled /\ "prefix" \in Buttons(cards[n])
  /\ prefix \in Prefixes \ {configs[n]}
  /\ Sent(t, "prefix", n, prefix, TRUE)
  /\ UNCHANGED <<Aside, stuck, online, stream, page, lagging>>
-----------------------------------------------------------------------------
\* A prefix is stored with no message after it.
ServerStep ==
  /\ ServerNext
  /\ lagging' = (IF Len(stream') > Len(stream) THEN {} ELSE lagging)
                 \cup {n \in Names : config[n] # Absent /\ config'[n] \notin {Absent, config[n]}}
  /\ UNCHANGED page

PageNext ==
  \/ Reload \/ Connects \/ Cut \/ Message \/ Refresh \/ Refreshed \/ RefreshFails
  \/ \E t \in Slots, n \in Names :
       \/ \E job \in Job : Click(t, n, job)
       \/ SignPasskey(t, n)
       \/ \E p \in Prefixes : SavePrefix(t, n, p)

Next == ServerStep \/ PageNext

Spec == PageInit /\ [][Next]_vars
-----------------------------------------------------------------------------
TypeOK ==
  /\ ServerTypeOK
  /\ \A n \in Names : cards[n] # Absent => cards[n] \in Card
  /\ configs \in [Names -> {Absent} \cup Prefixes] /\ prompts \in [Names -> 0..MaxAsked]
  /\ seen \in [Names -> 0..MaxAsked] /\ toasted \subseteq 1..MaxAsked
  /\ form \in {"none", "placed", "cut"}
  /\ empty \in BOOLEAN /\ behind \in BOOLEAN /\ apart \in BOOLEAN /\ again \in BOOLEAN
  /\ stuck \subseteq Names /\ lagging \subseteq Names

Quiet == online /\ stream = <<>> /\ answer = NoAnswer

\* Once it heard everything, the page has a card for each client the server told it
\* about and no other, with its status and what the client waits with, unless a
\* refresh came late or failed: one that fails takes the form off the grid, and the
\* page places no card from then on.  An image that a pass for an older payload, or a
\* pass that fails, is the last to touch goes without the page being told.
PageAgrees ==
  (Quiet /\ ~behind /\ form # "cut") =>
    \A n \in Names :
      /\ listening[n] # Absent => cards[n] # Absent
      /\ cards[n] # Absent =>
           /\ reg[n] # Absent
           /\ cards[n].status = reg[n].status /\ cards[n].virtual = reg[n].virtual
           /\ ~Rendering => \/ n \in crossed
                            \/ cards[n].panel =
                                 PanelOf(Payload(reg, images, challenges, results, config)[n])

\* The buttons a click disabled work again once its request is served, unless that
\* left the status as it was, or the page missed the change.
ButtonsComeBack ==
  \A n \in Names :
    (Quiet /\ cards[n] # Absent /\ cards[n].disabled) =>
      \/ n \in stuck
      \/ \E t \in Slots : tasks[t].page /\ tasks[t].name = n

\* The result of a pairing is shown once, unless a refresh and the messages crossed:
\* the page knows the last result it showed, and an older one is news to it.
ResultToldOnce == again => apart

\* The edit form opens with the prefix the client has, unless the prefix was changed
\* through the page before: that is told before it is stored.
FormShowsPrefix ==
  (Quiet /\ ~behind) =>
    \A n \in Names : (cards[n] # Absent /\ configs[n] # Absent) => configs[n] = config[n] \/ n \in lagging

\* The page shows what the server has: its cards, their buttons, the results it tells and
\* the form it opens.
PageFollows == TypeOK /\ PageAgrees /\ ButtonsComeBack /\ ResultToldOnce /\ FormShowsPrefix
=============================================================================
