--------------------------- MODULE DashboardProofs ---------------------------
(***************************************************************************)
(* What the dashboard never gets wrong, for any number of names, adapters, *)
(* requests and rendering passes: whose challenge a prompt is, which       *)
(* adapters run, which image a client has, and what its page shows.        *)
(***************************************************************************)
EXTENDS DashboardPage, TLAPS

(* What there is of each variable, as far as the invariants read it. *)
RegShape == reg \in [Names -> Entry \cup {Absent}]

PairShape ==
  /\ asked \in [Adapters -> Nat] /\ lastAsked \in Nat
  /\ listening \in [Names -> Adapters \cup {Absent}] /\ challenges \in [Names -> Nat]

ViewShape ==
  /\ images \in [Names -> Qrs \cup {Absent}]
  /\ passes \in [Passes -> Pass]
  /\ \A p \in Passes : passes[p].busy => /\ passes[p].at \in Names
                                        /\ passes[p].wanted[passes[p].at] \in Qrs

(* A request that was sent has a name, and one that stopped or made an adapter has that. *)
TaskShape ==
  /\ tasks \in [Slots -> Task]
  /\ \A t \in Slots :
       /\ tasks[t].at # "none" => tasks[t].name \in Names
       /\ tasks[t].at \in {"stopping", "stopped", "added"} => tasks[t].adapter \in Adapters
       /\ (tasks[t].at # "none" /\ tasks[t].job \in {"create", "prefix", "options"}) =>
            tasks[t].prefix \in Prefixes
       /\ tasks[t].at = "removed" => tasks[t].job = "options"

(* Two names never have one adapter. *)
Distinct == \A m, n \in Names :
  (reg[m] # Absent /\ reg[n] # Absent /\ m # n) => reg[m].adapter # reg[n].adapter

(* An adapter that waits on a challenge runs.  A client that nobody listens to yet has *)
(* nothing to pair with, and waits on no challenge; it shows none either.              *)
Waiting == \A a \in Adapters : asked[a] # 0 => a \in on

Unheard == \A n \in Names : listening[n] = Absent =>
  /\ challenges[n] = 0
  /\ reg[n] # Absent => reg[n].credential = Absent /\ asked[reg[n].adapter] = 0

(* An adapter that was stopped to be removed is not brought up again but as a stray. *)
StaysDown == \A t \in Slots :
  (tasks[t].at = "stopped" /\ tasks[t].job \in {"delete", "options"}) =>
    tasks[t].adapter \notin on \ strays

(* A pass has yet to come to the name, with what the registry has for it by now. *)
Due(p, n) ==
  /\ passes[p].busy
  /\ \/ passes[p].wanted[n] = Qr(reg[n]) /\ n \in passes[p].todo \cup {passes[p].at}
     \/ passes[p].wanted[n] = "gone" /\ Qr(reg[n]) = Absent

(* Every image is the one of the name's QR, known not to be, or about to be. *)
Drawn == \A n \in Names : images[n] = Qr(reg[n]) \/ n \in crossed \/ \E p \in Passes : Due(p, n)

Prompting == Distinct /\ Waiting /\ Unheard /\ PromptsAgree
Running   == StaysDown /\ RunningIsKnown

DashboardInv ==
  /\ RegShape /\ PairShape /\ ViewShape /\ TaskShape
  /\ Prompting /\ Running /\ Drawn
-----------------------------------------------------------------------------
(* The loop of renderPendingQrCodes, from what it was begun or continued with to its next *)
(* await or its end, leaves every name drawn that it has not come to yet.                 *)
LEMMA PassMoves ==
  ASSUME ViewShape, NEW p \in Passes, NEW pass \in Pass,
         NEW shown \in [Names -> Qrs \cup {Absent}], NEW since,
         pass.busy, reg' \in [Names -> Entry \cup {Absent}],
         \A n \in Names :
           \/ shown[n] = Qr(reg'[n]) \/ n \in since
           \/ \E q \in Passes \ {p} :
                /\ passes[q].busy
                /\ \/ passes[q].wanted[n] = Qr(reg'[n]) /\ n \in passes[q].todo \cup {passes[q].at}
                   \/ passes[q].wanted[n] = "gone" /\ Qr(reg'[n]) = Absent
           \/ pass.wanted[n] = Qr(reg'[n]) /\ n \in pass.todo
           \/ pass.wanted[n] = "gone" /\ Qr(reg'[n]) = Absent,
         PassGoesOn(p, pass, shown, since) \/ PassEnds(p, pass, shown, since)
  PROVE  ViewShape' /\ Drawn'
<1>0. /\ passes \in [Passes -> Pass] /\ NoPass \in Pass /\ ~NoPass.busy
  BY DEF ViewShape, NoPass, Pass
<1>1. PICK looked \in SUBSET pass.todo :
        /\ Looks(pass, shown, looked, since)
        /\ \/ \E n \in pass.todo \ looked :
                /\ Needs(pass, shown, n)
                /\ passes' = [passes EXCEPT ![p] = [pass EXCEPT !.at = n, !.todo = @ \ (looked \cup {n})]]
           \/ looked = pass.todo /\ passes' = [passes EXCEPT ![p] = NoPass]
  BY DEF PassGoesOn, PassEnds
<1> DEFINE unwanted == {n \in looked : pass.wanted[n] = Absent}
           gone == IF looked = pass.todo THEN {n \in Names : pass.wanted[n] = "gone"} ELSE {}
<1>2. /\ images' = [n \in Names |-> IF n \in unwanted \cup gone THEN Absent ELSE shown[n]]
      /\ crossed' = since \cup {n \in unwanted \cup gone : Qr(reg'[n]) # Absent}
      /\ \A n \in looked : ~Needs(pass, shown, n)
  BY <1>1 DEF Looks
<1>3. pass.todo \subseteq Names /\ pass.wanted \in [Names -> {Absent, "gone"} \cup Qrs]
  BY DEF Pass
<1>4. ViewShape'
  <2>1. images' \in [Names -> Qrs \cup {Absent}]
    BY <1>2
  <2>2. CASE looked = pass.todo /\ passes' = [passes EXCEPT ![p] = NoPass]
    BY <1>0, <2>1, <2>2 DEF ViewShape
  <2>3. ASSUME NEW n \in pass.todo \ looked, Needs(pass, shown, n),
               passes' = [passes EXCEPT ![p] = [pass EXCEPT !.at = n, !.todo = @ \ (looked \cup {n})]]
        PROVE  ViewShape'
    <3>1. n \in Names /\ pass.wanted[n] \in Qrs
      BY <1>3, <2>3 DEF Needs
    <3>2. PICK after \in Pass : after = [pass EXCEPT !.at = n, !.todo = @ \ (looked \cup {n})]
      BY <1>3, <3>1 DEF Pass
    <3>3. after.at = n /\ after.wanted = pass.wanted
      BY <3>2 DEF Pass
    <3>4. passes' = [passes EXCEPT ![p] = after]
      BY <2>3, <3>2
    <3>5. QED
      BY <1>0, <2>1, <3>1, <3>3, <3>4 DEF ViewShape
  <2>4. QED
    BY <1>1, <2>2, <2>3
<1>5. ASSUME NEW n \in Names
      PROVE  images'[n] = Qr(reg'[n]) \/ n \in crossed' \/ \E q \in Passes : Due(q, n)'
  <2>1. ASSUME NEW q \in Passes \ {p}, passes[q].busy,
               \/ passes[q].wanted[n] = Qr(reg'[n]) /\ n \in passes[q].todo \cup {passes[q].at}
               \/ passes[q].wanted[n] = "gone" /\ Qr(reg'[n]) = Absent
        PROVE  Due(q, n)'
    <3>1. passes'[q] = passes[q]
      BY <1>0, <1>1
    <3>2. QED
      BY <2>1, <3>1 DEF Due
  <2>2. Qr(reg'[n]) \in Qrs \cup {Absent}
    BY DEF Qr
  <2>3. CASE n \in unwanted \cup gone
    BY <1>2, <2>3
  <2>4. CASE n \notin unwanted \cup gone
    <3>1. images'[n] = shown[n] /\ (n \in since => n \in crossed')
      BY <1>2, <2>4
    <3>2. CASE pass.wanted[n] = Qr(reg'[n]) /\ n \in looked
      <4>1. pass.wanted[n] \in Qrs
        BY <2>2, <2>4, <3>2
      <4>2. shown[n] = pass.wanted[n]
        BY <1>2, <3>2, <4>1 DEF Needs
      <4>3. QED
        BY <3>1, <3>2, <4>2
    <3>3. CASE pass.wanted[n] = Qr(reg'[n]) /\ n \in pass.todo \ looked
      <4>1. PICK m \in pass.todo \ looked :
              passes' = [passes EXCEPT ![p] = [pass EXCEPT !.at = m, !.todo = @ \ (looked \cup {m})]]
        BY <1>1, <3>3
      <4>2. /\ passes'[p] = [pass EXCEPT !.at = m, !.todo = @ \ (looked \cup {m})]
            /\ passes'[p].busy /\ passes'[p].wanted = pass.wanted /\ passes'[p].at = m
            /\ passes'[p].todo = pass.todo \ (looked \cup {m})
        BY <1>0, <4>1 DEF Pass
      <4>3. n \in passes'[p].todo \cup {passes'[p].at}
        BY <3>3, <4>2
      <4>4. Due(p, n)'
        BY <3>3, <4>2, <4>3 DEF Due
      <4>5. QED
        BY <4>4
    <3>4. CASE pass.wanted[n] = "gone" /\ Qr(reg'[n]) = Absent
      <4>1. looked # pass.todo
        BY <2>4, <3>4
      <4>2. PICK m \in pass.todo \ looked :
              passes' = [passes EXCEPT ![p] = [pass EXCEPT !.at = m, !.todo = @ \ (looked \cup {m})]]
        BY <1>1, <4>1
      <4>3. passes'[p].busy /\ passes'[p].wanted = pass.wanted
        BY <1>0, <4>2 DEF Pass
      <4>4. Due(p, n)'
        BY <3>4, <4>3 DEF Due
      <4>5. QED
        BY <4>4
    <3>5. QED
      BY <2>1, <3>1, <3>2, <3>3, <3>4
  <2>5. QED
    BY <2>3, <2>4
<1>6. QED
  BY <1>4, <1>5 DEF Drawn

(* A pass that a notification begins has every name before it. *)
LEMMA PassBeginsDrawn ==
  ASSUME ViewShape, NEW entries \in [Names -> Entry \cup {Absent}], reg' = entries, PassBegins(entries)
  PROVE  ViewShape' /\ Drawn'
<1>1. PICK wanted : wanted = Summary(entries)
  OBVIOUS
<1>2. \A n \in Names : /\ Qr(entries[n]) \in Qrs \cup {Absent}
                       /\ wanted[n] = IF entries[n] = Absent THEN "gone" ELSE Qr(entries[n])
  BY <1>1 DEF Summary, Qr
<1>3. wanted \in [Names -> {Absent, "gone"} \cup Qrs]
  <2>1. wanted = [n \in Names |-> IF entries[n] = Absent THEN "gone" ELSE Qr(entries[n])]
    BY <1>1 DEF Summary
  <2>2. QED
    BY <1>2, <2>1
<1>4. PICK pass : pass = [NoPass EXCEPT !.busy = TRUE, !.wanted = wanted,
                                        !.todo = {n \in Names : wanted[n] # "gone"}]
  OBVIOUS
<1>5. /\ pass \in Pass /\ pass.busy /\ pass.wanted = wanted
      /\ pass.todo = {n \in Names : wanted[n] # "gone"}
  BY <1>3, <1>4 DEF NoPass, Pass
<1>6. PICK p \in Passes :
        PassGoesOn(p, pass, images, crossed) \/ PassEnds(p, pass, images, crossed)
  BY <1>1, <1>4 DEF PassBegins
<1>7. \A n \in Names : \/ pass.wanted[n] = Qr(reg'[n]) /\ n \in pass.todo
                       \/ pass.wanted[n] = "gone" /\ Qr(reg'[n]) = Absent
  <2>1. Qr(Absent) = Absent
    BY DEF Qr
  <2>2. "gone" \notin Qrs
    BY DashboardAssumption
  <2>3. QED
    BY <1>2, <1>5, <2>1, <2>2
<1>8. images \in [Names -> Qrs \cup {Absent}]
  BY DEF ViewShape
<1>9. QED
  BY <1>5, <1>6, <1>7, <1>8, PassMoves

(* A rendering that is done, or that failed, leaves the images drawn. *)
LEMMA RenderedDrawn ==
  ASSUME RegShape, ViewShape, Drawn, NEW p \in Passes, Rendered(p) \/ RenderFails(p)
  PROVE  ViewShape' /\ Drawn'
<1>1. reg' = reg /\ passes[p] \in Pass /\ passes[p].busy /\ passes[p].at \in Names
  BY DEF Rendered, RenderFails, PassUnchanged, clients, ViewShape
<1>2. PICK n \in Names : n = passes[p].at
  BY <1>1
<1>3. reg' \in [Names -> Entry \cup {Absent}] /\ images \in [Names -> Qrs \cup {Absent}]
  BY <1>1 DEF RegShape, ViewShape
<1>4. \A m \in Names :
        \/ images[m] = Qr(reg'[m]) \/ m \in crossed
        \/ \E q \in Passes \ {p} :
             /\ passes[q].busy
             /\ \/ passes[q].wanted[m] = Qr(reg'[m]) /\ m \in passes[q].todo \cup {passes[q].at}
                \/ passes[q].wanted[m] = "gone" /\ Qr(reg'[m]) = Absent
        \/ passes[p].wanted[m] = Qr(reg'[m]) /\ m \in passes[p].todo
        \/ passes[p].wanted[m] = Qr(reg'[m]) /\ m = n
        \/ passes[p].wanted[m] = "gone" /\ Qr(reg'[m]) = Absent
  BY <1>1, <1>2 DEF Drawn, Due
<1>5. CASE Rendered(p)
  <2>1. PICK pass \in Pass : pass = [passes[p] EXCEPT !.at = Absent, !.rendered = TRUE]
    BY <1>1 DEF Pass
  <2>2. pass.busy /\ pass.wanted = passes[p].wanted /\ pass.todo = passes[p].todo
    BY <1>1, <2>1 DEF Pass
  <2>3. PICK shown : shown = [images EXCEPT ![n] = pass.wanted[n]]
    OBVIOUS
  <2>4. PICK since : since = IF Qr(reg[n]) = pass.wanted[n] THEN crossed \ {n} ELSE crossed \cup {n}
    OBVIOUS
  <2>5. PassGoesOn(p, pass, shown, since) \/ PassEnds(p, pass, shown, since)
    BY <1>2, <1>5, <2>1, <2>3, <2>4 DEF Rendered
  <2>6. shown[n] = pass.wanted[n] /\ \A m \in Names \ {n} : shown[m] = images[m]
    BY <1>3, <2>3
  <2>7. shown \in [Names -> Qrs \cup {Absent}]
    <3>1. pass.wanted[n] \in Qrs
      BY <1>1, <1>2, <2>2 DEF ViewShape
    <3>2. QED
      BY <1>3, <2>3, <3>1
  <2>8. QED
    BY <1>1, <1>3, <1>4, <2>2, <2>4, <2>5, <2>6, <2>7, PassMoves
<1>6. CASE RenderFails(p)
  <2>1. PICK pass \in Pass : pass = [passes[p] EXCEPT !.at = Absent]
    BY <1>1 DEF Pass
  <2>2. pass.busy /\ pass.wanted = passes[p].wanted /\ pass.todo = passes[p].todo
    BY <1>1, <2>1 DEF Pass
  <2>3. PICK since : since = crossed \cup {n}
    OBVIOUS
  <2>4. PassGoesOn(p, pass, images, since) \/ PassEnds(p, pass, images, since)
    BY <1>2, <1>6, <2>1, <2>3 DEF RenderFails
  <2>5. QED
    BY <1>1, <1>3, <1>4, <2>2, <2>3, <2>4, PassMoves
<1>7. QED
  BY <1>5, <1>6
-----------------------------------------------------------------------------
(* syncPasskeyListeners keeps whose prompt is shown, when the registry loses clients and *)
(* gives none another adapter.                                                           *)
LEMMA SyncKeepsPrompts ==
  ASSUME RegShape, PairShape, Prompting,
         NEW entries \in [Names -> Entry \cup {Absent}], reg' = entries,
         \A n \in Names : entries[n] # Absent =>
           reg[n] # Absent /\ entries[n].adapter = reg[n].adapter,
         SyncPasskeyListeners(entries), asked' = asked, lastAsked' = lastAsked, on \subseteq on'
  PROVE  PairShape' /\ Prompting'
<1>0. /\ listening \in [Names -> Adapters \cup {Absent}] /\ challenges \in [Names -> Nat]
      /\ Absent \notin Adapters
  BY DashboardAssumption DEF PairShape
<1>1. PICK off \in SUBSET Names : off = Detached(entries)
  BY DEF Detached
<1>2. \A n \in Names : n \in off <=> listening[n] # Absent /\ entries[n] = Absent
  BY <1>1 DEF Detached
<1>3. /\ listening' = [n \in Names |->
                         IF n \in off THEN Absent
                         ELSE IF listening[n] # Absent \/ entries[n] = Absent THEN listening[n]
                         ELSE entries[n].adapter]
      /\ challenges' = [n \in Names |-> IF n \in off THEN 0 ELSE challenges[n]]
      /\ mislaid' = mislaid \ off
  BY <1>1 DEF SyncPasskeyListeners
<1>4. \A n \in Names : entries[n] # Absent => entries[n].adapter \in Adapters
  BY DEF Entry
<1>5. PairShape'
  BY <1>0, <1>3, <1>4 DEF PairShape
<1>6. Distinct'
  BY DEF Prompting, Distinct
<1>7. Waiting'
  BY DEF Prompting, Waiting
<1>8. Unheard'
  BY <1>0, <1>2, <1>3, <1>4 DEF Prompting, Unheard
<1>9. ListenerFollows'
  BY <1>0, <1>2, <1>3 DEF Prompting, PromptsAgree, ListenerFollows
<1>10. PromptIsWaited'
  BY <1>0, <1>2, <1>3 DEF Prompting, PromptsAgree, PromptIsWaited, Unheard
<1>11. PromptIsShown'
  <2> SUFFICES ASSUME NEW n \in Names, listening'[n] # Absent, asked'[listening'[n]] # 0
               PROVE  challenges'[n] = asked'[listening'[n]] \/ n \in mislaid'
    BY DEF PromptIsShown
  <2>1. CASE listening[n] # Absent
    BY <1>2, <1>3, <2>1 DEF Prompting, PromptsAgree, PromptIsShown
  <2>2. CASE listening[n] = Absent
    BY <1>2, <1>3, <2>2 DEF Prompting, Unheard
  <2>3. QED
    BY <2>1, <2>2
<1>12. QED
  BY <1>5, <1>6, <1>7, <1>8, <1>9, <1>10, <1>11 DEF Prompting, PromptsAgree

(* notify: the listeners follow the registry, and the images are drawn anew. *)
LEMMA NotifyKeeps ==
  ASSUME RegShape, PairShape, ViewShape, Prompting,
         NEW entries \in [Names -> Entry \cup {Absent}], NEW stored, Notify(entries, stored),
         \A n \in Names : entries[n] # Absent =>
           reg[n] # Absent /\ entries[n].adapter = reg[n].adapter,
         asked' = asked, lastAsked' = lastAsked, on \subseteq on'
  PROVE  RegShape' /\ PairShape' /\ ViewShape' /\ Prompting' /\ Drawn'
<1>1. reg' = entries /\ SyncPasskeyListeners(entries) /\ PassBegins(entries)
  BY DEF Notify
<1>2. RegShape'
  BY <1>1 DEF RegShape
<1>3. PairShape' /\ Prompting'
  BY <1>1, SyncKeepsPrompts
<1>4. ViewShape' /\ Drawn'
  BY <1>1, PassBeginsDrawn
<1>5. QED
  BY <1>2, <1>3, <1>4

(* A step of the pairing of one adapter keeps whose prompt is shown, when it leaves the   *)
(* listeners of that adapter with its challenge or none.                                  *)
LEMMA PairingKeeps ==
  ASSUME RegShape, PairShape, Prompting, reg' = reg, listening' = listening,
         NEW a \in Adapters, NEW k \in Nat,
         asked' = [asked EXCEPT ![a] = k], lastAsked' \in Nat, challenges' \in [Names -> Nat],
         on \ {a} \subseteq on', k # 0 => a \in on',
         k # 0 => \A n \in Names : (reg[n] # Absent /\ reg[n].adapter = a) => listening[n] = a,
         \A n \in Names : listening[n] = Absent => challenges'[n] = 0,
         \A n \in Names : (listening[n] # a /\ listening[n] # Absent) =>
           challenges'[n] = challenges[n] /\ (n \in mislaid => n \in mislaid'),
         \A n \in Names : listening[n] = a =>
           challenges'[n] \in {0, k} /\ (k = 0 \/ challenges'[n] = k \/ n \in mislaid')
  PROVE  PairShape' /\ Prompting'
<1>0. /\ asked \in [Adapters -> Nat] /\ Absent \notin Adapters
      /\ listening \in [Names -> Adapters \cup {Absent}]
      /\ \A n \in Names : reg[n] # Absent => reg[n].adapter \in Adapters
  BY DashboardAssumption DEF PairShape, RegShape, Entry
<1>1. asked' \in [Adapters -> Nat] /\ asked'[a] = k /\ \A b \in Adapters \ {a} : asked'[b] = asked[b]
  BY <1>0
<1>2. PairShape'
  BY <1>0, <1>1 DEF PairShape
<1>3. Distinct'
  BY DEF Prompting, Distinct
<1>4. Waiting'
  BY <1>1 DEF Prompting, Waiting
<1>5. Unheard'
  BY <1>0, <1>1 DEF Prompting, Unheard
<1>6. ListenerFollows'
  BY DEF Prompting, PromptsAgree, ListenerFollows
<1>7. PromptIsWaited'
  <2> SUFFICES ASSUME NEW n \in Names, challenges'[n] # 0
               PROVE  reg[n] # Absent /\ asked'[reg[n].adapter] = challenges'[n]
    BY DEF PromptIsWaited
  <2>1. listening[n] # Absent /\ reg[n] # Absent /\ listening[n] = reg[n].adapter
    BY DEF Prompting, PromptsAgree, ListenerFollows
  <2>2. CASE listening[n] = a
    BY <1>1, <2>1, <2>2
  <2>3. CASE listening[n] # a
    BY <1>0, <1>1, <2>1, <2>3 DEF Prompting, PromptsAgree, PromptIsWaited
  <2>4. QED
    BY <2>2, <2>3
<1>8. PromptIsShown'
  <2> SUFFICES ASSUME NEW n \in Names, listening[n] # Absent, asked'[listening[n]] # 0
               PROVE  challenges'[n] = asked'[listening[n]] \/ n \in mislaid'
    BY DEF PromptIsShown
  <2>1. CASE listening[n] = a
    BY <1>1, <2>1
  <2>2. CASE listening[n] # a
    BY <1>0, <1>1, <2>2 DEF Prompting, PromptsAgree, PromptIsShown
  <2>3. QED
    BY <2>1, <2>2
<1>9. QED
  BY <1>2, <1>3, <1>4, <1>5, <1>6, <1>7, <1>8 DEF Prompting, PromptsAgree

(* The challenge of an adapter is refused. *)
LEMMA RefusedKeeps ==
  ASSUME RegShape, PairShape, Prompting, reg' = reg, listening' = listening, lastAsked' = lastAsked,
         NEW a \in Adapters, Refused(a), on \ {a} \subseteq on'
  PROVE  PairShape' /\ Prompting'
<1>0. /\ asked \in [Adapters -> Nat] /\ Absent \notin Adapters
      /\ listening \in [Names -> Adapters \cup {Absent}] /\ challenges \in [Names -> Nat]
      /\ lastAsked \in Nat
  BY DashboardAssumption DEF PairShape
<1>1. asked' = [asked EXCEPT ![a] = 0]
  BY DEF Refused
<1>2. /\ challenges' \in [Names -> Nat]
      /\ \A n \in Names : /\ listening[n] # a => challenges'[n] = challenges[n]
                          /\ listening[n] = a => challenges'[n] = 0
                          /\ (listening[n] # a /\ n \in mislaid) => n \in mislaid'
  <2>1. CASE asked[a] = 0
    <3>1. challenges' = challenges /\ mislaid' = mislaid
      BY <2>1 DEF Refused
    <3>2. ASSUME NEW n \in Names, listening[n] = a PROVE challenges[n] = 0
      BY <1>0, <2>1, <3>2 DEF Prompting, PromptsAgree, ListenerFollows, PromptIsWaited
    <3>3. QED
      BY <1>0, <3>1, <3>2
  <2>2. CASE asked[a] # 0
    <3>1. /\ challenges' = [n \in Names |-> IF n \in Listened(a) THEN 0 ELSE challenges[n]]
          /\ mislaid' = mislaid \ Listened(a)
      BY <2>2 DEF Refused, OnResult
    <3>2. QED
      BY <1>0, <3>1 DEF Listened
  <2>3. QED
    BY <2>1, <2>2
<1>3. \A n \in Names : listening[n] = Absent => challenges'[n] = 0
  BY <1>0, <1>2 DEF Prompting, Unheard
<1>4. PICK k \in Nat : k = 0
  OBVIOUS
<1>5. asked' = [asked EXCEPT ![a] = k]
  BY <1>1, <1>4
<1>6. \A n \in Names : (listening[n] # a /\ listening[n] # Absent) =>
        challenges'[n] = challenges[n] /\ (n \in mislaid => n \in mislaid')
  BY <1>2
<1>7. \A n \in Names : listening[n] = a =>
        challenges'[n] \in {0, k} /\ (k = 0 \/ challenges'[n] = k \/ n \in mislaid')
  BY <1>2, <1>4
<1>8. lastAsked' \in Nat
  BY <1>0
<1>9. k # 0 => a \in on'
  BY <1>4
<1>10. k # 0 => \A n \in Names : (reg[n] # Absent /\ reg[n].adapter = a) => listening[n] = a
  BY <1>4
<1>11. QED
  BY <1>2, <1>3, <1>5, <1>6, <1>7, <1>8, <1>9, <1>10, PairingKeeps
-----------------------------------------------------------------------------
(* A request that is put in its slot. *)
LEMMA TaskPut ==
  ASSUME TaskShape, NEW t \in Slots, NEW task \in Task, tasks' = [tasks EXCEPT ![t] = task],
         task.at # "none" => task.name \in Names,
         task.at \in {"stopping", "stopped", "added"} => task.adapter \in Adapters,
         (task.at # "none" /\ task.job \in {"create", "prefix", "options"}) => task.prefix \in Prefixes,
         task.at = "removed" => task.job = "options"
  PROVE  TaskShape'
BY DEF TaskShape

(* A request that is answered leaves its slot. *)
LEMMA Answered ==
  ASSUME TaskShape, NEW t \in Slots, NEW without, Answer(t, without)
  PROVE  TaskShape' /\ tasks' = [tasks EXCEPT ![t] = Idle] /\ Idle.at = "none"
<1>1. Idle \in Task /\ Idle.at = "none"
  BY DEF Idle, Task, Job, At
<1>2. tasks' = [tasks EXCEPT ![t] = Idle]
  BY DEF Answer, Put
<1>3. QED
  BY <1>1, <1>2, TaskPut

(* A request that goes on at another point. *)
LEMMA TaskMoves ==
  ASSUME TaskShape, NEW t \in Slots, tasks[t].at # "none", NEW at \in At, NEW a \in Adapters,
         at = "removed" => tasks[t].job = "options",
         tasks' = [tasks EXCEPT ![t] = [tasks[t] EXCEPT !.at = at, !.adapter = a]]
  PROVE  /\ TaskShape' /\ tasks'[t].at = at /\ tasks'[t].adapter = a /\ tasks'[t].job = tasks[t].job
         /\ \A u \in Slots \ {t} : tasks'[u] = tasks[u]
<1>1. tasks[t] \in Task /\ tasks \in [Slots -> Task]
  BY DEF TaskShape
<1>2. PICK task \in Task : task = [tasks[t] EXCEPT !.at = at, !.adapter = a]
  BY <1>1 DEF Task
<1>3. /\ task.at = at /\ task.adapter = a /\ task.job = tasks[t].job
      /\ task.name = tasks[t].name /\ task.prefix = tasks[t].prefix
  BY <1>1, <1>2 DEF Task
<1>4. /\ tasks[t].name \in Names
      /\ tasks[t].job \in {"create", "prefix", "options"} => tasks[t].prefix \in Prefixes
  BY DEF TaskShape
<1>5. tasks' = [tasks EXCEPT ![t] = task]
  BY <1>2
<1>6. TaskShape'
  <2>1. task.at # "none" => task.name \in Names
    BY <1>3, <1>4
  <2>2. task.at \in {"stopping", "stopped", "added"} => task.adapter \in Adapters
    BY <1>3
  <2>3. (task.at # "none" /\ task.job \in {"create", "prefix", "options"}) => task.prefix \in Prefixes
    BY <1>3, <1>4
  <2>4. task.at = "removed" => task.job = "options"
    BY <1>3
  <2>5. QED
    BY <1>5, <2>1, <2>2, <2>3, <2>4, TaskPut
<1>7. QED
  BY <1>1, <1>3, <1>5, <1>6

(* No adapter that runs is lost, when the registry keeps what it has. *)
LEMMA RunningKeeps ==
  ASSUME Running, NEW a,
         on' \subseteq on \cup {a}, strays \subseteq strays',
         a \in strays' \/ a \in on \/ \E n \in Names : reg'[n] # Absent /\ reg'[n].adapter = a,
         \A n \in Names : reg[n] # Absent => \/ reg'[n] # Absent /\ reg'[n].adapter = reg[n].adapter
                                            \/ reg[n].adapter \in strays' \/ reg[n].adapter \notin on',
         \A u \in Slots : (tasks'[u].at = "stopped" /\ tasks'[u].job \in {"delete", "options"}) =>
           \/ tasks'[u].adapter \notin on' \ strays'
           \/ /\ tasks[u].at = "stopped" /\ tasks[u].job \in {"delete", "options"}
              /\ tasks'[u].adapter = tasks[u].adapter
              /\ tasks[u].adapter # a \/ a \in on \/ a \in strays'
  PROVE  Running'
<1>1. StaysDown'
  BY DEF Running, StaysDown
<1>2. RunningIsKnown'
  <2> SUFFICES ASSUME NEW b \in on'
               PROVE  (\E n \in Names : reg'[n] # Absent /\ reg'[n].adapter = b) \/ b \in strays'
    BY DEF RunningIsKnown
  <2>1. CASE b \in on
    BY <2>1 DEF Running, RunningIsKnown
  <2>2. CASE b \notin on
    BY <2>2
  <2>3. QED
    BY <2>1, <2>2
<1>3. QED
  BY <1>1, <1>2 DEF Running

Rest == <<reg, on, asked, lastAsked, listening, challenges, images, passes, crossed, mislaid, strays>>

(* A step of requests alone, that stops no adapter. *)
LEMMA RequestKeeps ==
  ASSUME DashboardInv, UNCHANGED Rest, TaskShape',
         \A u \in Slots : (tasks'[u].at = "stopped" /\ tasks'[u].job \in {"delete", "options"}) =>
           /\ tasks[u].at = "stopped" /\ tasks[u].job \in {"delete", "options"}
           /\ tasks'[u].adapter = tasks[u].adapter
  PROVE  DashboardInv'
<1>1. RegShape' /\ PairShape' /\ ViewShape' /\ Prompting' /\ Drawn'
  BY DEF DashboardInv, Rest, RegShape, PairShape, ViewShape, Prompting, Distinct, Waiting, Unheard,
    PromptsAgree, ListenerFollows, PromptIsWaited, PromptIsShown, Drawn, Due
<1>2. Running'
  BY DEF DashboardInv, Rest, Running, StaysDown, RunningIsKnown
<1>3. QED
  BY <1>1, <1>2 DEF DashboardInv

(* A request that is answered without having changed anything. *)
LEMMA AnswerKeeps ==
  ASSUME DashboardInv, UNCHANGED Rest, NEW t \in Slots, NEW without, Answer(t, without)
  PROVE  DashboardInv'
<1>1. TaskShape' /\ tasks' = [tasks EXCEPT ![t] = Idle] /\ Idle.at = "none"
  BY Answered DEF DashboardInv
<1>2. \A u \in Slots : tasks'[u].at = "stopped" => tasks'[u] = tasks[u]
  BY <1>1 DEF DashboardInv, TaskShape
<1>3. QED
  BY <1>1, <1>2, RequestKeeps

(* A request that is sent. *)
LEMMA SentKeeps ==
  ASSUME DashboardInv, UNCHANGED Rest, NEW t \in Slots, NEW job \in Job, NEW n \in Names,
         NEW prefix \in Prefixes \cup {Absent}, NEW by \in BOOLEAN, Sent(t, job, n, prefix, by),
         job \in {"create", "prefix", "options"} => prefix \in Prefixes
  PROVE  DashboardInv'
<1>0. PICK task : task = [Idle EXCEPT !.job = job, !.at = "sent", !.name = n,
                                    !.prefix = prefix, !.page = by]
  OBVIOUS
<1>1. /\ task \in Task /\ task.at = "sent" /\ task.name = n /\ task.job = job
      /\ task.prefix = prefix
  BY <1>0 DEF Idle, Task, At
<1>2. tasks' = [tasks EXCEPT ![t] = task]
  BY <1>0 DEF Sent, Put
<1>3. TaskShape'
  BY <1>1, <1>2, TaskPut DEF DashboardInv
<1>4. \A u \in Slots : tasks'[u].at = "stopped" => tasks'[u] = tasks[u]
  BY <1>1, <1>2 DEF DashboardInv, TaskShape
<1>5. QED
  BY <1>3, <1>4, RequestKeeps
-----------------------------------------------------------------------------
(* A client reports: its status and what it can be paired with change, and nothing else. *)
LEMMA ReportKeeps ==
  ASSUME DashboardInv, NEW n \in Names, NEW status \in Status, NEW credential \in Credentials,
         Report(n, status, credential)
  PROVE  DashboardInv'
<1>1. /\ reg \in [Names -> Entry \cup {Absent}] /\ reg[n] # Absent
      /\ UNCHANGED <<on, asked, lastAsked, tasks, strays>>
  BY DEF Report, pairing, DashboardInv, RegShape
<1>2. PICK entries : entries = [reg EXCEPT ![n].status = status, ![n].credential = credential]
  OBVIOUS
<1>3. Notify(entries, config)
  BY <1>2 DEF Report
<1>4. reg[n] \in Entry
  BY <1>1
<1>5. PICK entry \in Entry :
        entry = [[reg[n] EXCEPT !.status = status] EXCEPT !.credential = credential]
  BY <1>4 DEF Entry
<1>6. entry.adapter = reg[n].adapter
  BY <1>4, <1>5 DEF Entry
<1>7. entries = [reg EXCEPT ![n] = entry]
  BY <1>1, <1>2, <1>5
<1>8. /\ entries \in [Names -> Entry \cup {Absent}]
      /\ \A m \in Names : entries[m] # Absent => reg[m] # Absent /\ entries[m].adapter = reg[m].adapter
      /\ \A m \in Names : reg[m] # Absent => entries[m] # Absent /\ entries[m].adapter = reg[m].adapter
  BY <1>1, <1>6, <1>7, EntryAssumption
<1>9. RegShape' /\ PairShape' /\ ViewShape' /\ Prompting' /\ Drawn'
  BY <1>1, <1>3, <1>8, NotifyKeeps DEF DashboardInv
<1>10. TaskShape' /\ Running'
  <2>1. reg' = entries
    BY <1>3 DEF Notify
  <2>2. QED
    BY <1>1, <1>8, <2>1 DEF DashboardInv, TaskShape, Running, StaysDown, RunningIsKnown
<1>11. QED
  BY <1>9, <1>10 DEF DashboardInv

(* The images that are rendered, or are not, change nothing else. *)
LEMMA PassKeeps ==
  ASSUME DashboardInv, NEW p \in Passes, Rendered(p) \/ RenderFails(p)
  PROVE  DashboardInv'
<1>1. UNCHANGED <<reg, on, asked, lastAsked, listening, challenges, mislaid, strays, tasks>>
  BY DEF Rendered, RenderFails, PassUnchanged, clients, pairing
<1>2. ViewShape' /\ Drawn'
  BY RenderedDrawn DEF DashboardInv
<1>3. QED
  BY <1>1, <1>2 DEF DashboardInv, RegShape, PairShape, TaskShape, Prompting, Distinct, Waiting,
    Unheard, PromptsAgree, ListenerFollows, PromptIsWaited, PromptIsShown, Running, StaysDown,
    RunningIsKnown

(* What a step of a pairing leaves alone. *)
Elsewhere == <<reg, listening, images, passes, crossed, strays>>

(* A step of a pairing that keeps the prompts keeps all, as long as it brings up nothing *)
(* and stops no adapter that a request is to remove.                                     *)
LEMMA PairingStep ==
  ASSUME DashboardInv, UNCHANGED Elsewhere, PairShape', Prompting', TaskShape', on' \subseteq on,
         \A u \in Slots : (tasks'[u].at = "stopped" /\ tasks'[u].job \in {"delete", "options"}) =>
           \/ tasks'[u].adapter \notin on' \ strays'
           \/ /\ tasks[u].at = "stopped" /\ tasks[u].job \in {"delete", "options"}
              /\ tasks'[u].adapter = tasks[u].adapter
  PROVE  DashboardInv'
<1>1. RegShape' /\ ViewShape' /\ Drawn'
  BY DEF DashboardInv, Elsewhere, RegShape, ViewShape, Drawn, Due
<1>2. Running'
  BY DEF DashboardInv, Elsewhere, Running, StaysDown, RunningIsKnown
<1>3. QED
  BY <1>1, <1>2 DEF DashboardInv

(* A challenge comes: only a client that is listened to has anything to pair with. *)
LEMMA AskKeeps ==
  ASSUME DashboardInv, NEW a \in Adapters, Ask(a)
  PROVE  DashboardInv'
<1>0. /\ asked \in [Adapters -> Nat] /\ Absent \notin Adapters
      /\ listening \in [Names -> Adapters \cup {Absent}] /\ challenges \in [Names -> Nat]
      /\ lastAsked \in Nat /\ reg \in [Names -> Entry \cup {Absent}]
  BY DashboardAssumption DEF DashboardInv, PairShape, RegShape
<1>1. PICK k \in Nat : k = lastAsked + 1
  BY <1>0
<1>2. /\ a \in on /\ asked' = [asked EXCEPT ![a] = k] /\ lastAsked' = k
      /\ \E n \in Names : reg[n] # Absent /\ reg[n].adapter = a /\ reg[n].credential # Absent
      /\ UNCHANGED <<reg, on, images, passes, listening, tasks, crossed, strays>>
      /\ IF asked[a] = 0 THEN OnChallenge(a, k) ELSE OnResult(a, asked[a])
      /\ mislaid' = IF asked[a] = 0 THEN mislaid \ Listened(a) ELSE mislaid \cup Listened(a)
  BY <1>1 DEF Ask, clients
<1>3. \A n \in Names : (reg[n] # Absent /\ reg[n].adapter = a) => listening[n] = a
  <2>1. PICK m \in Names : reg[m] # Absent /\ reg[m].adapter = a /\ reg[m].credential # Absent
    BY <1>2
  <2>2. listening[m] = a
    BY <2>1 DEF DashboardInv, Prompting, Unheard, PromptsAgree, ListenerFollows
  <2>3. \A n \in Names : (reg[n] # Absent /\ reg[n].adapter = a) => n = m
    BY <2>1 DEF DashboardInv, Prompting, Distinct
  <2>4. QED
    BY <2>2, <2>3
<1>4. /\ challenges' \in [Names -> Nat]
      /\ \A n \in Names : /\ listening[n] # a => /\ challenges'[n] = challenges[n]
                                                 /\ n \in mislaid => n \in mislaid'
                          /\ listening[n] = a => /\ challenges'[n] \in {0, k}
                                                 /\ challenges'[n] = k \/ n \in mislaid'
  <2>1. CASE asked[a] = 0
    <3>1. /\ challenges' = [n \in Names |-> IF n \in Listened(a) THEN k ELSE challenges[n]]
          /\ mislaid' = mislaid \ Listened(a)
      BY <1>2, <2>1 DEF OnChallenge
    <3>2. QED
      BY <1>0, <3>1 DEF Listened
  <2>2. CASE asked[a] # 0
    <3>1. /\ challenges' = [n \in Names |-> IF n \in Listened(a) THEN 0 ELSE challenges[n]]
          /\ mislaid' = mislaid \cup Listened(a)
      BY <1>2, <2>2 DEF OnResult
    <3>2. QED
      BY <1>0, <3>1 DEF Listened
  <2>3. QED
    BY <2>1, <2>2
<1>5. \A n \in Names : listening[n] = Absent => challenges'[n] = 0
  BY <1>0, <1>4 DEF DashboardInv, Prompting, Unheard
<1>6. PairShape' /\ Prompting'
  <2>1. RegShape /\ PairShape /\ Prompting
    BY DEF DashboardInv
  <2>2. reg' = reg /\ listening' = listening /\ lastAsked' \in Nat
    BY <1>2
  <2>3. on \ {a} \subseteq on' /\ (k # 0 => a \in on')
    BY <1>2
  <2>4. k # 0 => \A n \in Names : (reg[n] # Absent /\ reg[n].adapter = a) => listening[n] = a
    BY <1>3
  <2>5. \A n \in Names : (listening[n] # a /\ listening[n] # Absent) =>
          challenges'[n] = challenges[n] /\ (n \in mislaid => n \in mislaid')
    BY <1>4
  <2>6. \A n \in Names : listening[n] = a =>
          challenges'[n] \in {0, k} /\ (k = 0 \/ challenges'[n] = k \/ n \in mislaid')
    BY <1>4
  <2>7. asked' = [asked EXCEPT ![a] = k] /\ challenges' \in [Names -> Nat]
    BY <1>2, <1>4
  <2>8. QED
    BY <1>5, <2>1, <2>2, <2>3, <2>4, <2>5, <2>6, <2>7, PairingKeeps
<1>7. TaskShape' /\ UNCHANGED Elsewhere
  BY <1>2 DEF DashboardInv, TaskShape, Elsewhere
<1>8. QED
  BY <1>2, <1>6, <1>7, PairingStep

(* Nobody answers in time. *)
LEMMA GivesUpKeeps ==
  ASSUME DashboardInv, NEW a \in Adapters, GivesUp(a)
  PROVE  DashboardInv'
<1>1. /\ Refused(a)
      /\ UNCHANGED <<reg, on, lastAsked, images, passes, listening, tasks, crossed, strays>>
  BY DEF GivesUp, clients
<1>2. PairShape' /\ Prompting'
  BY <1>1, RefusedKeeps DEF DashboardInv
<1>3. TaskShape' /\ UNCHANGED Elsewhere
  BY <1>1 DEF DashboardInv, TaskShape, Elsewhere
<1>4. QED
  BY <1>1, <1>2, <1>3, PairingStep

(* A result comes, of a challenge that was answered. *)
LEMMA ResultKeeps ==
  ASSUME DashboardInv, NEW a \in Adapters, NEW k \in 1 .. MaxAsked, ResultTold(a, k)
  PROVE  DashboardInv'
<1>0. /\ asked \in [Adapters -> Nat] /\ Absent \notin Adapters
      /\ listening \in [Names -> Adapters \cup {Absent}] /\ challenges \in [Names -> Nat]
      /\ lastAsked \in Nat /\ reg \in [Names -> Entry \cup {Absent}]
  BY DashboardAssumption DEF DashboardInv, PairShape, RegShape
<1>1. /\ UNCHANGED <<reg, on, asked, lastAsked, images, passes, listening, tasks, crossed, strays>>
      /\ challenges' = [n \in Names |-> IF n \in Listened(a) THEN 0 ELSE challenges[n]]
      /\ mislaid' = IF asked[a] = 0 THEN mislaid ELSE mislaid \cup Listened(a)
  BY DEF ResultTold, clients, OnResult
<1>2. PairShape' /\ Prompting'
  <2>1. PICK j \in Nat : j = asked[a]
    BY <1>0
  <2>2. asked' = [asked EXCEPT ![a] = j] /\ lastAsked' \in Nat /\ challenges' \in [Names -> Nat]
    BY <1>0, <1>1, <2>1
  <2>3. j # 0 => a \in on'
    BY <1>1, <2>1 DEF DashboardInv, Prompting, Waiting
  <2>4. \A n \in Names : listening[n] = Absent => challenges'[n] = 0
    BY <1>0, <1>1 DEF DashboardInv, Prompting, Unheard, Listened
  <2>5. j # 0 => \A n \in Names : (reg[n] # Absent /\ reg[n].adapter = a) => listening[n] = a
    BY <2>1 DEF DashboardInv, Prompting, Unheard, PromptsAgree, ListenerFollows
  <2>6. \A n \in Names : (listening[n] # a /\ listening[n] # Absent) =>
          challenges'[n] = challenges[n] /\ (n \in mislaid => n \in mislaid')
    BY <1>1 DEF Listened
  <2>7. \A n \in Names : listening[n] = a =>
          challenges'[n] \in {0, j} /\ (j = 0 \/ challenges'[n] = j \/ n \in mislaid')
    BY <1>1, <2>1 DEF Listened
  <2>8. reg' = reg /\ listening' = listening /\ on \ {a} \subseteq on'
    BY <1>1
  <2>9. RegShape /\ PairShape /\ Prompting
    BY DEF DashboardInv
  <2>10. QED
    BY <2>2, <2>3, <2>4, <2>5, <2>6, <2>7, <2>8, <2>9, PairingKeeps
<1>3. TaskShape' /\ UNCHANGED Elsewhere
  BY <1>1 DEF DashboardInv, TaskShape, Elsewhere
<1>4. QED
  BY <1>1, <1>2, <1>3, PairingStep
-----------------------------------------------------------------------------
(* A passkey is answered: its challenge is let go of, if one waits. *)
LEMMA AnswerPasskeyKeeps ==
  ASSUME DashboardInv, NEW t \in Slots, AnswerPasskey(t)
  PROVE  DashboardInv'
<1>0. /\ asked \in [Adapters -> Nat] /\ Absent \notin Adapters
      /\ listening \in [Names -> Adapters \cup {Absent}] /\ challenges \in [Names -> Nat]
      /\ lastAsked \in Nat /\ reg \in [Names -> Entry \cup {Absent}]
  BY DashboardAssumption DEF DashboardInv, PairShape, RegShape
<1>1. PICK n \in Names : n = tasks[t].name
  BY DEF AnswerPasskey, Arrived, DashboardInv, TaskShape
<1>2. reg[n] # Absent /\ tasks[t].job = "passkey"
  BY <1>1 DEF AnswerPasskey, Arrived, Rejected
<1>3. PICK a \in Adapters : a = reg[n].adapter
  BY <1>0, <1>2 DEF Entry
<1>4. /\ UNCHANGED <<reg, on, lastAsked, images, passes, listening, crossed, strays>>
      /\ Answer(t, TRUE)
  BY DEF AnswerPasskey, clients
<1>5. TaskShape' /\ tasks' = [tasks EXCEPT ![t] = Idle] /\ Idle.at = "none"
  BY <1>4, Answered DEF DashboardInv
<1>6. \A u \in Slots : tasks'[u].at = "stopped" => tasks'[u] = tasks[u]
  BY <1>5 DEF DashboardInv, TaskShape
<1>7. CASE asked[a] = 0
  <2>1. UNCHANGED <<asked, challenges, mislaid>>
    BY <1>1, <1>3, <1>7 DEF AnswerPasskey
  <2>2. UNCHANGED Rest
    BY <1>4, <2>1 DEF Rest
  <2>3. QED
    BY <1>5, <1>6, <2>2, RequestKeeps
<1>8. CASE asked[a] # 0
  <2>1. /\ asked' = [asked EXCEPT ![a] = 0] /\ challenges' = [challenges EXCEPT ![n] = 0]
        /\ mislaid' = mislaid \ {n}
    BY <1>1, <1>3, <1>8 DEF AnswerPasskey
  <2>2. \A m \in Names : listening[m] = a => m = n
    BY <1>0, <1>2, <1>3 DEF DashboardInv, Prompting, Distinct, PromptsAgree, ListenerFollows
  <2>3. listening[n] \in {a, Absent}
    BY <1>3 DEF DashboardInv, Prompting, PromptsAgree, ListenerFollows
  <2>4. PairShape' /\ Prompting'
    <3>1. PICK k \in Nat : k = 0
      OBVIOUS
    <3>2. asked' = [asked EXCEPT ![a] = k] /\ challenges' \in [Names -> Nat]
      BY <1>0, <2>1, <3>1
    <3>3. k # 0 => a \in on'
      BY <3>1
    <3>4. \A m \in Names : listening[m] = Absent => challenges'[m] = 0
      BY <1>0, <2>1 DEF DashboardInv, Prompting, Unheard
    <3>5. k # 0 => \A m \in Names : (reg[m] # Absent /\ reg[m].adapter = a) => listening[m] = a
      BY <3>1
    <3>6. \A m \in Names : (listening[m] # a /\ listening[m] # Absent) =>
            challenges'[m] = challenges[m] /\ (m \in mislaid => m \in mislaid')
      BY <1>0, <2>1, <2>3
    <3>7. \A m \in Names : listening[m] = a =>
            challenges'[m] \in {0, k} /\ (k = 0 \/ challenges'[m] = k \/ m \in mislaid')
      BY <1>0, <2>1, <2>2, <3>1
    <3>8. reg' = reg /\ listening' = listening /\ on \ {a} \subseteq on' /\ lastAsked' \in Nat
      BY <1>0, <1>4
    <3>9. RegShape /\ PairShape /\ Prompting
      BY DEF DashboardInv
    <3>10. QED
      BY <3>2, <3>3, <3>4, <3>5, <3>6, <3>7, <3>8, <3>9, PairingKeeps
  <2>5. UNCHANGED Elsewhere /\ on' = on
    BY <1>4 DEF Elsewhere
  <2>6. QED
    BY <1>5, <1>6, <2>4, <2>5, PairingStep
<1>9. QED
  BY <1>7, <1>8

(* A passkey is cancelled: nothing waits, and nothing is shown. *)
LEMMA CancelPasskeyKeeps ==
  ASSUME DashboardInv, NEW t \in Slots, CancelPasskey(t)
  PROVE  DashboardInv'
<1>0. /\ asked \in [Adapters -> Nat] /\ Absent \notin Adapters
      /\ listening \in [Names -> Adapters \cup {Absent}] /\ challenges \in [Names -> Nat]
      /\ lastAsked \in Nat /\ reg \in [Names -> Entry \cup {Absent}]
  BY DashboardAssumption DEF DashboardInv, PairShape, RegShape
<1>1. PICK n \in Names : n = tasks[t].name
  BY DEF CancelPasskey, Arrived, DashboardInv, TaskShape
<1>2. reg[n] # Absent /\ tasks[t].job = "passkey-cancel"
  BY <1>1 DEF CancelPasskey, Arrived, Rejected
<1>3. PICK a \in Adapters : a = reg[n].adapter
  BY <1>0, <1>2 DEF Entry
<1>4. /\ UNCHANGED <<reg, on, lastAsked, images, passes, listening, crossed, strays>>
      /\ Answer(t, TRUE)
  BY DEF CancelPasskey, clients
<1>5. TaskShape' /\ tasks' = [tasks EXCEPT ![t] = Idle] /\ Idle.at = "none"
  BY <1>4, Answered DEF DashboardInv
<1>6. \A u \in Slots : tasks'[u].at = "stopped" => tasks'[u] = tasks[u]
  BY <1>5 DEF DashboardInv, TaskShape
<1>7. PairShape' /\ Prompting'
  <2>1. CASE asked[a] # 0
    <3>1. Refused(a)
      BY <1>1, <1>3, <2>1 DEF CancelPasskey
    <3>2. QED
      BY <1>4, <3>1, RefusedKeeps DEF DashboardInv
  <2>2. CASE asked[a] = 0
    <3>1. challenges' = [challenges EXCEPT ![n] = 0] /\ UNCHANGED <<asked, mislaid>>
      BY <1>1, <1>3, <2>2 DEF CancelPasskey
    <3>2. challenges[n] = 0
      BY <1>0, <1>3, <2>2 DEF DashboardInv, Prompting, PromptsAgree, PromptIsWaited
    <3>3. challenges' = challenges
      BY <1>0, <3>1, <3>2
    <3>4. QED
      BY <1>4, <3>1, <3>3 DEF DashboardInv, PairShape, Prompting, Distinct, Waiting, Unheard,
        PromptsAgree, ListenerFollows, PromptIsWaited, PromptIsShown
  <2>3. QED
    BY <2>1, <2>2
<1>8. UNCHANGED Elsewhere /\ on' = on
  BY <1>4 DEF Elsewhere
<1>9. QED
  BY <1>5, <1>6, <1>7, <1>8, PairingStep

(* An adapter is torn down: what it waited on is refused, and it is down. *)
LEMMA TearsDownKeeps ==
  ASSUME DashboardInv, NEW t \in Slots, NEW a \in Adapters, tasks[t].at # "none", TearsDown(t, a)
  PROVE  DashboardInv'
<1>1. /\ tasks' = [tasks EXCEPT ![t] = [tasks[t] EXCEPT !.at = "stopped", !.adapter = a]]
      /\ UNCHANGED <<reg, lastAsked, images, passes, listening, crossed, strays>>
      /\ on' = on \ {a} /\ Refused(a)
  BY DEF TearsDown, Put, Stops
<1>2. PICK at \in At : at = "stopped"
  BY DEF At
<1>3. /\ TaskShape' /\ tasks'[t].adapter = a
      /\ \A u \in Slots \ {t} : tasks'[u] = tasks[u]
  <2>1. tasks' = [tasks EXCEPT ![t] = [tasks[t] EXCEPT !.at = at, !.adapter = a]]
    BY <1>1, <1>2
  <2>2. TaskShape /\ tasks[t].at # "none" /\ (at = "removed" => tasks[t].job = "options")
    BY <1>2 DEF DashboardInv
  <2>3. /\ TaskShape' /\ tasks'[t].at = at /\ tasks'[t].adapter = a /\ tasks'[t].job = tasks[t].job
        /\ \A u \in Slots \ {t} : tasks'[u] = tasks[u]
    BY <2>1, <2>2, TaskMoves
  <2>4. QED
    BY <2>3
<1>4. PairShape' /\ Prompting'
  <2>1. on \ {a} \subseteq on' /\ reg' = reg /\ listening' = listening /\ lastAsked' = lastAsked
    BY <1>1
  <2>2. QED
    BY <1>1, <2>1, RefusedKeeps DEF DashboardInv
<1>5. UNCHANGED Elsewhere /\ on' \subseteq on /\ tasks'[t].adapter \notin on'
  BY <1>1, <1>3 DEF Elsewhere
<1>6. QED
  BY <1>3, <1>4, <1>5, PairingStep

(* destroy() and logout() of a request. *)
LEMMA StopKeeps ==
  ASSUME DashboardInv, NEW t \in Slots, DestroyBegins(t) \/ LogoutTearsDown(t)
  PROVE  DashboardInv'
<1>1. CASE DestroyBegins(t)
  <2>1. /\ tasks[t].at = "sent" /\ tasks[t].name \in Names /\ reg[tasks[t].name] # Absent
        /\ TearsDown(t, reg[tasks[t].name].adapter)
    BY <1>1 DEF DestroyBegins, Arrived, Rejected, Destroying, DashboardInv, TaskShape
  <2>2. PICK a \in Adapters : a = reg[tasks[t].name].adapter
    BY <2>1 DEF DashboardInv, RegShape, Entry
  <2>3. QED
    BY <2>1, <2>2, TearsDownKeeps
<1>2. CASE LogoutTearsDown(t)
  <2>1. tasks[t].at = "stopping" /\ TearsDown(t, tasks[t].adapter)
    BY <1>2 DEF LogoutTearsDown
  <2>2. PICK a \in Adapters : a = tasks[t].adapter
    BY <2>1 DEF DashboardInv, TaskShape
  <2>3. QED
    BY <2>1, <2>2, TearsDownKeeps
<1>3. QED
  BY <1>1, <1>2

(* logout() is asked for. *)
LEMMA LogoutBeginsKeeps ==
  ASSUME DashboardInv, NEW t \in Slots, LogoutBegins(t)
  PROVE  DashboardInv'
<1>1. /\ tasks[t].at = "sent" /\ tasks[t].name \in Names /\ reg[tasks[t].name] # Absent
      /\ tasks[t].job \in {"force-qr", "logout"}
  BY DEF LogoutBegins, Arrived, Rejected, DashboardInv, TaskShape
<1>2. PICK a \in Adapters : a = reg[tasks[t].name].adapter
  BY <1>1 DEF DashboardInv, RegShape, Entry
<1>3. /\ tasks' = [tasks EXCEPT ![t] = [tasks[t] EXCEPT !.at = "stopping", !.adapter = a]]
      /\ UNCHANGED Rest
  BY <1>2 DEF LogoutBegins, Put, clients, pairing, views, past, Rest
<1>4. "stopping" \in At
  BY DEF At
<1>5. /\ TaskShape' /\ tasks'[t].at = "stopping" /\ \A u \in Slots \ {t} : tasks'[u] = tasks[u]
  BY <1>1, <1>3, <1>4, TaskMoves DEF DashboardInv
<1>6. QED
  BY <1>3, <1>5, RequestKeeps
-----------------------------------------------------------------------------
(* Who else may be removing the adapter, or has its name by now. *)
LEMMA StrayOrKnown ==
  ASSUME NEW t \in Slots, tasks[t].name \in Names, NEW b, b = tasks[t].adapter, strays' = Strays(t)
  PROVE  /\ strays \subseteq strays'
         /\ b \in strays' \/ (reg[tasks[t].name] # Absent /\ reg[tasks[t].name].adapter = b)
         /\ \A u \in Slots \ {t} :
              (tasks[u].at = "stopped" /\ tasks[u].job \in {"delete", "options"}
                 /\ tasks[u].adapter = b) => b \in strays'
BY DEF Strays

(* A restart brings up the adapter that it stopped. *)
LEMMA RestartEndsKeeps ==
  ASSUME DashboardInv, NEW t \in Slots, RestartEnds(t)
  PROVE  DashboardInv'
<1>0. /\ RegShape /\ PairShape /\ ViewShape /\ TaskShape /\ Prompting /\ Running /\ Drawn
      /\ reg \in [Names -> Entry \cup {Absent}] /\ tasks \in [Slots -> Task]
  BY DEF DashboardInv, RegShape, TaskShape
<1>1. PICK n \in Names : n = tasks[t].name
  BY <1>0 DEF RestartEnds, TaskShape
<1>2. PICK a \in Adapters : a = tasks[t].adapter
  BY <1>0 DEF RestartEnds, TaskShape
<1>3. /\ tasks[t].at = "stopped" /\ tasks[t].job \in {"restart", "force-qr"}
      /\ on' = on \cup {a} /\ strays' = Strays(t) /\ Answer(t, reg[n] = Absent)
      /\ UNCHANGED <<asked, lastAsked>>
  BY <1>1, <1>2 DEF RestartEnds, pairing
<1>4. TaskShape' /\ tasks' = [tasks EXCEPT ![t] = Idle] /\ Idle.at = "none"
  BY <1>0, <1>3, Answered
<1>5. \A u \in Slots : tasks'[u].at = "stopped" => u # t /\ tasks'[u] = tasks[u]
  BY <1>0, <1>4
<1>6. /\ strays \subseteq strays'
      /\ a \in strays' \/ (reg[n] # Absent /\ reg[n].adapter = a)
      /\ \A u \in Slots \ {t} :
           (tasks[u].at = "stopped" /\ tasks[u].job \in {"delete", "options"}
              /\ tasks[u].adapter = a) => a \in strays'
  BY <1>1, <1>2, <1>3, StrayOrKnown
<1>7. ASSUME \A m \in Names : reg[m] # Absent => reg'[m] # Absent /\ reg'[m].adapter = reg[m].adapter
      PROVE  Running'
  <2>1. on' \subseteq on \cup {a}
    BY <1>3
  <2>2. a \in strays' \/ a \in on \/ \E m \in Names : reg'[m] # Absent /\ reg'[m].adapter = a
    BY <1>6, <1>7
  <2>3. \A m \in Names : reg[m] # Absent => \/ reg'[m] # Absent /\ reg'[m].adapter = reg[m].adapter
                                            \/ reg[m].adapter \in strays' \/ reg[m].adapter \notin on'
    BY <1>7
  <2>4. \A u \in Slots : (tasks'[u].at = "stopped" /\ tasks'[u].job \in {"delete", "options"}) =>
           \/ tasks'[u].adapter \notin on' \ strays'
           \/ /\ tasks[u].at = "stopped" /\ tasks[u].job \in {"delete", "options"}
              /\ tasks'[u].adapter = tasks[u].adapter
              /\ tasks[u].adapter # a \/ a \in on \/ a \in strays'
    BY <1>5, <1>6
  <2>5. QED
    BY <1>0, <1>6, <2>1, <2>2, <2>3, <2>4, RunningKeeps
<1>8. CASE reg[n] = Absent
  <2>1. UNCHANGED <<reg, images, passes, listening, challenges, crossed, mislaid>>
    BY <1>1, <1>8 DEF RestartEnds
  <2>2. Running'
    BY <1>7, <2>1
  <2>3. RegShape' /\ PairShape' /\ ViewShape' /\ Prompting' /\ Drawn'
    BY <1>0, <1>3, <2>1 DEF RegShape, PairShape, ViewShape, Prompting, Distinct, Waiting, Unheard,
      PromptsAgree, ListenerFollows, PromptIsWaited, PromptIsShown, Drawn, Due
  <2>4. QED
    BY <1>4, <2>2, <2>3 DEF DashboardInv
<1>9. CASE reg[n] # Absent
  <2>1. PICK entries : entries = [reg EXCEPT ![n].status = "initializing", ![n].credential = Absent]
    OBVIOUS
  <2>2. Notify(entries, config)
    BY <1>1, <1>9, <2>1 DEF RestartEnds
  <2>3. reg[n] \in Entry /\ "initializing" \in Status /\ Absent \in Credentials
    BY <1>0, <1>9 DEF Status, Credentials
  <2>4. PICK entry \in Entry :
          entry = [[reg[n] EXCEPT !.status = "initializing"] EXCEPT !.credential = Absent]
    BY <2>3 DEF Entry
  <2>5. entry.adapter = reg[n].adapter
    BY <2>3, <2>4 DEF Entry
  <2>6. entries = [reg EXCEPT ![n] = entry]
    BY <1>0, <2>1, <2>4
  <2>7. /\ entries \in [Names -> Entry \cup {Absent}]
        /\ \A m \in Names : entries[m] # Absent => reg[m] # Absent /\ entries[m].adapter = reg[m].adapter
        /\ \A m \in Names : reg[m] # Absent => entries[m] # Absent /\ entries[m].adapter = reg[m].adapter
    BY <1>0, <1>9, <2>5, <2>6, EntryAssumption
  <2>8. RegShape' /\ PairShape' /\ ViewShape' /\ Prompting' /\ Drawn'
    <3>1. asked' = asked /\ lastAsked' = lastAsked /\ on \subseteq on'
      BY <1>3
    <3>2. QED
      BY <1>0, <2>2, <2>7, <3>1, NotifyKeeps
  <2>9. Running'
    BY <1>7, <2>2, <2>7 DEF Notify
  <2>10. QED
    BY <1>4, <2>8, <2>9 DEF DashboardInv
<1>10. QED
  BY <1>8, <1>9

(* A removal takes whoever has the name, and tells what it takes beside what it stopped. *)
LEMMA RemovedKeeps ==
  ASSUME DashboardInv, NEW t \in Slots, Removed(t)
  PROVE  DashboardInv'
<1>0. /\ RegShape /\ PairShape /\ ViewShape /\ TaskShape /\ Prompting /\ Running /\ Drawn
      /\ reg \in [Names -> Entry \cup {Absent}] /\ tasks \in [Slots -> Task]
  BY DEF DashboardInv, RegShape, TaskShape
<1>1. PICK n \in Names : n = tasks[t].name
  BY <1>0 DEF Removed, TaskShape
<1>2. PICK a \in Adapters : a = tasks[t].adapter
  BY <1>0 DEF Removed, TaskShape
<1>3. /\ tasks[t].at = "stopped" /\ tasks[t].job \in {"delete", "options"}
      /\ strays' = strays \cup (IF reg[n] = Absent THEN {} ELSE {reg[n].adapter} \ {a})
      /\ UNCHANGED <<on, asked, lastAsked>>
      /\ IF tasks[t].job = "delete" THEN Answer(t, TRUE)
         ELSE tasks' = [tasks EXCEPT ![t] = [tasks[t] EXCEPT !.at = "removed"]]
  BY <1>1, <1>2 DEF Removed, pairing, Put
<1>4. PICK entries : entries = [reg EXCEPT ![n] = Absent]
  OBVIOUS
<1>5. Notify(entries, config)
  BY <1>1, <1>4 DEF Removed
<1>6. /\ entries \in [Names -> Entry \cup {Absent}]
      /\ \A m \in Names : entries[m] # Absent => reg[m] # Absent /\ entries[m].adapter = reg[m].adapter
      /\ entries[n] = Absent /\ \A m \in Names \ {n} : entries[m] = reg[m]
  BY <1>0, <1>4
<1>7. RegShape' /\ PairShape' /\ ViewShape' /\ Prompting' /\ Drawn'
  <2>1. asked' = asked /\ lastAsked' = lastAsked /\ on \subseteq on'
    BY <1>3
  <2>2. QED
    BY <1>0, <1>5, <1>6, <2>1, NotifyKeeps
<1>8. TaskShape' /\ \A u \in Slots : tasks'[u].at = "stopped" => tasks'[u] = tasks[u]
  <2>1. CASE tasks[t].job = "delete"
    <3>1. TaskShape' /\ tasks' = [tasks EXCEPT ![t] = Idle] /\ Idle.at = "none"
      BY <1>0, <1>3, <2>1, Answered
    <3>2. QED
      BY <1>0, <3>1
  <2>2. CASE tasks[t].job # "delete"
    <3>1. PICK at \in At : at = "removed"
      BY DEF At
    <3>2. tasks[t] \in Task
      BY <1>0
    <3>3. [tasks[t] EXCEPT !.at = "removed"] = [tasks[t] EXCEPT !.at = at, !.adapter = a]
      BY <1>2, <3>1, <3>2 DEF Task
    <3>4. tasks' = [tasks EXCEPT ![t] = [tasks[t] EXCEPT !.at = at, !.adapter = a]]
      BY <1>3, <2>2, <3>3
    <3>5. tasks[t].at # "none" /\ tasks[t].job = "options"
      BY <1>3, <2>2
    <3>6. /\ TaskShape' /\ tasks'[t].at = at /\ \A u \in Slots \ {t} : tasks'[u] = tasks[u]
      BY <1>0, <3>4, <3>5, TaskMoves
    <3>7. QED
      BY <3>1, <3>6
  <2>3. QED
    BY <2>1, <2>2
<1>9. Running'
  <2>1. strays \subseteq strays' /\ on' \subseteq on /\ reg' = entries
    BY <1>3, <1>5 DEF Notify
  <2>2. a \notin on \ strays
    BY <1>0, <1>2, <1>3 DEF Running, StaysDown
  <2>3. \A m \in Names : reg[m] # Absent => \/ reg'[m] # Absent /\ reg'[m].adapter = reg[m].adapter
                                            \/ reg[m].adapter \in strays' \/ reg[m].adapter \notin on'
    BY <1>3, <1>6, <2>1, <2>2
  <2>4. StaysDown'
    BY <1>0, <1>8, <2>1 DEF Running, StaysDown
  <2>5. RunningIsKnown'
    BY <1>0, <2>1, <2>3 DEF Running, RunningIsKnown
  <2>6. QED
    BY <2>4, <2>5 DEF Running
<1>10. QED
  BY <1>7, <1>8, <1>9 DEF DashboardInv
-----------------------------------------------------------------------------
(* A client is added: under an adapter of its own, which nobody hears of yet. *)
LEMMA AddedKeeps ==
  ASSUME DashboardInv, NEW t \in Slots, Added(t)
  PROVE  DashboardInv'
<1>0. /\ RegShape /\ PairShape /\ ViewShape /\ TaskShape /\ Prompting /\ Running /\ Drawn
      /\ reg \in [Names -> Entry \cup {Absent}] /\ tasks \in [Slots -> Task]
      /\ Absent \notin Qrs /\ Absent \notin Adapters
  BY DashboardAssumption DEF DashboardInv, RegShape, TaskShape
<1>1. /\ \/ tasks[t].at = "sent" /\ tasks[t].job = "create"
         \/ tasks[t].at = "removed"
      /\ tasks[t].at # "none"
  BY DEF Added, Creates, Arrived
<1>2. PICK n \in Names : n = tasks[t].name
  BY <1>0, <1>1 DEF TaskShape
<1>3. PICK a \in Adapters :
        /\ Unused(a)
        /\ reg' = [reg EXCEPT ![n] = [adapter |-> a, virtual |-> TRUE, status |-> "initializing",
                                      credential |-> Absent, prefix |-> tasks[t].prefix]]
        /\ tasks' = [tasks EXCEPT ![t] = [tasks[t] EXCEPT !.at = "added", !.adapter = a]]
  BY <1>2 DEF Added, Put
<1>4. /\ reg[n] = Absent
      /\ UNCHANGED <<on, asked, lastAsked, images, passes, listening, challenges, crossed, mislaid, strays>>
  BY <1>2 DEF Added, pairing, views, past
<1>5. CASE tasks[t].prefix \in Prefixes
  <2>1. PICK entry \in Entry :
          entry = [adapter |-> a, virtual |-> TRUE, status |-> "initializing",
                   credential |-> Absent, prefix |-> tasks[t].prefix]
    BY <1>5 DEF Entry, Status, Credentials
  <2>2. entry.adapter = a /\ entry.credential = Absent
    BY <2>1
  <2>3. reg' = [reg EXCEPT ![n] = entry]
    BY <1>3, <2>1
  <2>4. /\ RegShape' /\ reg'[n] = entry /\ entry # Absent /\ \A m \in Names \ {n} : reg'[m] = reg[m]
    BY <1>0, <2>3, EntryAssumption DEF RegShape
  <2>5. a \notin on /\ \A m \in Names : reg[m] # Absent => reg[m].adapter # a
    BY <1>3 DEF Unused
  <2>6. \A m \in Names : Qr(reg'[m]) = Qr(reg[m])
    <3>1. Qr(reg'[n]) = Absent /\ Qr(reg[n]) = Absent
      BY <1>0, <1>4, <2>2, <2>4 DEF Qr
    <3>2. QED
      BY <2>4, <3>1
  <2>7. PairShape' /\ ViewShape' /\ Drawn'
    BY <1>0, <1>4, <2>6 DEF PairShape, ViewShape, Drawn, Due
  <2>8. Distinct' /\ Waiting'
    BY <1>0, <1>4, <2>2, <2>4, <2>5 DEF Prompting, Distinct, Waiting
  <2>9. listening[n] = Absent /\ challenges[n] = 0 /\ asked[a] = 0
    <3>1. listening[n] = Absent
      BY <1>0, <1>4 DEF Prompting, PromptsAgree, ListenerFollows
    <3>2. QED
      BY <1>0, <2>5, <3>1 DEF Prompting, Unheard, Waiting
  <2>10. Unheard' /\ PromptsAgree'
    BY <1>0, <1>4, <2>2, <2>4, <2>9 DEF Prompting, Unheard, PromptsAgree, ListenerFollows,
      PromptIsWaited, PromptIsShown
  <2>11. /\ TaskShape' /\ tasks'[t].at = "added" /\ \A u \in Slots \ {t} : tasks'[u] = tasks[u]
    <3>1. PICK at \in At : at = "added"
      BY DEF At
    <3>2. tasks' = [tasks EXCEPT ![t] = [tasks[t] EXCEPT !.at = at, !.adapter = a]]
      BY <1>3, <3>1
    <3>3. at = "removed" => tasks[t].job = "options"
      BY <3>1
    <3>4. /\ TaskShape' /\ tasks'[t].at = at /\ tasks'[t].adapter = a /\ tasks'[t].job = tasks[t].job
          /\ \A u \in Slots \ {t} : tasks'[u] = tasks[u]
      BY <1>0, <1>1, <3>2, <3>3, TaskMoves
    <3>5. QED
      BY <3>1, <3>4
  <2>12. Running'
    BY <1>0, <1>4, <2>4, <2>11 DEF Running, StaysDown, RunningIsKnown
  <2>13. QED
    BY <2>4, <2>7, <2>8, <2>10, <2>11, <2>12 DEF DashboardInv, Prompting
<1>6. tasks[t].prefix \in Prefixes
  BY <1>0, <1>1 DEF TaskShape
<1>7. QED
  BY <1>5, <1>6

(* The adapter of a client that was added is brought up. *)
LEMMA InitializedKeeps ==
  ASSUME DashboardInv, NEW t \in Slots, Initialized(t)
  PROVE  DashboardInv'
<1>0. /\ RegShape /\ PairShape /\ ViewShape /\ TaskShape /\ Prompting /\ Running /\ Drawn
      /\ reg \in [Names -> Entry \cup {Absent}] /\ tasks \in [Slots -> Task]
  BY DEF DashboardInv, RegShape, TaskShape
<1>1. PICK n \in Names : n = tasks[t].name
  BY <1>0 DEF Initialized, TaskShape
<1>2. PICK a \in Adapters : a = tasks[t].adapter
  BY <1>0 DEF Initialized, TaskShape
<1>3. /\ on' = on \cup {a} /\ strays' = Strays(t) /\ Answer(t, TRUE)
      /\ UNCHANGED <<reg, asked, lastAsked, images, passes, listening, challenges, crossed, mislaid>>
  BY <1>2 DEF Initialized, pairing, views
<1>4. TaskShape' /\ tasks' = [tasks EXCEPT ![t] = Idle] /\ Idle.at = "none"
  BY <1>0, <1>3, Answered
<1>5. \A u \in Slots : tasks'[u].at = "stopped" => u # t /\ tasks'[u] = tasks[u]
  BY <1>0, <1>4
<1>6. /\ strays \subseteq strays'
      /\ a \in strays' \/ (reg[n] # Absent /\ reg[n].adapter = a)
      /\ \A u \in Slots \ {t} :
           (tasks[u].at = "stopped" /\ tasks[u].job \in {"delete", "options"}
              /\ tasks[u].adapter = a) => a \in strays'
  BY <1>1, <1>2, <1>3, StrayOrKnown
<1>7. Running'
  <2>1. on' \subseteq on \cup {a}
    BY <1>3
  <2>2. a \in strays' \/ a \in on \/ \E m \in Names : reg'[m] # Absent /\ reg'[m].adapter = a
    BY <1>3, <1>6
  <2>3. \A m \in Names : reg[m] # Absent => \/ reg'[m] # Absent /\ reg'[m].adapter = reg[m].adapter
                                            \/ reg[m].adapter \in strays' \/ reg[m].adapter \notin on'
    BY <1>3
  <2>4. \A u \in Slots : (tasks'[u].at = "stopped" /\ tasks'[u].job \in {"delete", "options"}) =>
           \/ tasks'[u].adapter \notin on' \ strays'
           \/ /\ tasks[u].at = "stopped" /\ tasks[u].job \in {"delete", "options"}
              /\ tasks'[u].adapter = tasks[u].adapter
              /\ tasks[u].adapter # a \/ a \in on \/ a \in strays'
    BY <1>5, <1>6
  <2>5. QED
    BY <1>0, <1>6, <2>1, <2>2, <2>3, <2>4, RunningKeeps
<1>8. RegShape' /\ PairShape' /\ ViewShape' /\ Prompting' /\ Drawn'
  BY <1>0, <1>3 DEF RegShape, PairShape, ViewShape, Prompting, Distinct, Waiting, Unheard,
    PromptsAgree, ListenerFollows, PromptIsWaited, PromptIsShown, Drawn, Due
<1>9. QED
  BY <1>4, <1>7, <1>8 DEF DashboardInv

(* A prefix is set. *)
LEMMA PrefixSetKeeps ==
  ASSUME DashboardInv, NEW t \in Slots, PrefixSet(t)
  PROVE  DashboardInv'
<1>0. /\ RegShape /\ PairShape /\ ViewShape /\ TaskShape /\ Prompting /\ Running /\ Drawn
      /\ reg \in [Names -> Entry \cup {Absent}] /\ tasks \in [Slots -> Task]
  BY DEF DashboardInv, RegShape, TaskShape
<1>1. /\ tasks[t].at = "sent" /\ tasks[t].job = "prefix" /\ ~Rejected(t) /\ Answer(t, TRUE)
      /\ UNCHANGED <<on, asked, lastAsked, strays>>
  BY DEF PrefixSet, Arrived, pairing
<1>2. PICK n \in Names : n = tasks[t].name
  BY <1>0, <1>1 DEF TaskShape
<1>3. reg[n] \in Entry /\ tasks[t].prefix \in Prefixes
  BY <1>0, <1>1, <1>2 DEF Rejected, TaskShape
<1>4. PICK entries : entries = [reg EXCEPT ![n].prefix = tasks[t].prefix]
  OBVIOUS
<1>5. Notify(entries, config)
  BY <1>2, <1>4 DEF PrefixSet
<1>6. PICK entry \in Entry : entry = [reg[n] EXCEPT !.prefix = tasks[t].prefix]
  BY <1>3 DEF Entry
<1>7. entry.adapter = reg[n].adapter /\ entry # Absent /\ reg[n] # Absent
  BY <1>3, <1>6, EntryAssumption DEF Entry
<1>8. entries = [reg EXCEPT ![n] = entry]
  BY <1>0, <1>4, <1>6
<1>9. /\ entries \in [Names -> Entry \cup {Absent}]
      /\ \A m \in Names : entries[m] # Absent => reg[m] # Absent /\ entries[m].adapter = reg[m].adapter
      /\ \A m \in Names : reg[m] # Absent => entries[m] # Absent /\ entries[m].adapter = reg[m].adapter
  BY <1>0, <1>7, <1>8
<1>10. RegShape' /\ PairShape' /\ ViewShape' /\ Prompting' /\ Drawn'
  <2>1. asked' = asked /\ lastAsked' = lastAsked /\ on \subseteq on'
    BY <1>1
  <2>2. QED
    BY <1>0, <1>5, <1>9, <2>1, NotifyKeeps
<1>11. TaskShape' /\ tasks' = [tasks EXCEPT ![t] = Idle] /\ Idle.at = "none"
  BY <1>0, <1>1, Answered
<1>12. \A u \in Slots : tasks'[u].at = "stopped" => tasks'[u] = tasks[u]
  BY <1>0, <1>11
<1>13. Running'
  <2>1. reg' = entries
    BY <1>5 DEF Notify
  <2>2. QED
    BY <1>0, <1>1, <1>9, <1>12, <2>1 DEF Running, StaysDown, RunningIsKnown
<1>14. QED
  BY <1>10, <1>11, <1>13 DEF DashboardInv
-----------------------------------------------------------------------------
(* A request that another page sends, that is refused, or that ends without a change. *)
LEMMA OtherKeeps ==
  ASSUME DashboardInv, NEW t \in Slots,
         \/ \E job \in Job, n \in Names, p \in Prefixes \cup {Absent} : OtherRequest(t, job, n, p)
         \/ RequestRejected(t) \/ StopFails(t) \/ LogoutEnds(t) \/ CreateSkipped(t)
  PROVE  DashboardInv'
<1>1. CASE \E job \in Job, n \in Names, p \in Prefixes \cup {Absent} : OtherRequest(t, job, n, p)
  <2>1. PICK job \in Job, n \in Names, p \in Prefixes \cup {Absent} : OtherRequest(t, job, n, p)
    BY <1>1
  <2>2. /\ UNCHANGED Rest
        /\ job \in {"create", "prefix", "options"} => p \in Prefixes
        /\ Sent(t, job, n, p, FALSE)
    BY <2>1 DEF OtherRequest, clients, pairing, views, past, Rest
  <2>3. PICK by \in BOOLEAN : by = FALSE
    OBVIOUS
  <2>4. Sent(t, job, n, p, by)
    BY <2>2, <2>3
  <2>5. UNCHANGED Rest
    BY <2>2
  <2>6. job \in {"create", "prefix", "options"} => p \in Prefixes
    BY <2>2
  <2>7. QED
    BY <2>4, <2>5, <2>6, SentKeeps
<1>2. CASE RequestRejected(t) \/ StopFails(t) \/ LogoutEnds(t) \/ CreateSkipped(t)
  <2>1. Answer(t, TRUE) /\ UNCHANGED Rest
    BY <1>2 DEF RequestRejected, StopFails, LogoutEnds, CreateSkipped, clients, pairing, views, Rest
  <2>2. QED
    BY <2>1, AnswerKeeps
<1>3. QED
  BY <1>1, <1>2

(* What the page does is of no matter to the server, but for the requests it sends. *)
LEMMA PageKeeps ==
  ASSUME DashboardInv, PageNext
  PROVE  DashboardInv'
<1>0. tasks \in [Slots -> Task] /\ TaskShape
  BY DEF DashboardInv, TaskShape
<1>1. UNCHANGED Rest
  BY DEF PageNext, Reload, Connects, Cut, Message, Refresh, Refreshed, RefreshFails, Click,
    SignPasskey, SavePrefix, Aside, clients, pairing, views, Rest
<1>2. CASE Reload
  <2>1. tasks' = [t \in Slots |-> [tasks[t] EXCEPT !.page = FALSE]]
    BY <1>2 DEF Reload
  <2>2. ASSUME NEW t \in Slots
        PROVE  /\ tasks'[t] \in Task /\ tasks'[t].at = tasks[t].at /\ tasks'[t].job = tasks[t].job
               /\ tasks'[t].name = tasks[t].name /\ tasks'[t].prefix = tasks[t].prefix
               /\ tasks'[t].adapter = tasks[t].adapter
    BY <1>0, <2>1 DEF Task
  <2>3. TaskShape'
    BY <1>0, <2>1, <2>2 DEF TaskShape
  <2>4. QED
    BY <1>1, <2>2, <2>3, RequestKeeps
<1>3. CASE Connects \/ Cut \/ Message \/ Refresh \/ Refreshed \/ RefreshFails
  <2>1. tasks' = tasks
    BY <1>3 DEF Connects, Cut, Message, Refresh, Refreshed, RefreshFails
  <2>2. TaskShape'
    BY <1>0, <2>1 DEF TaskShape
  <2>3. QED
    BY <1>1, <2>1, <2>2, RequestKeeps
<1>4. ASSUME NEW t \in Slots, NEW n \in Names,
             \/ \E job \in Job : Click(t, n, job)
             \/ SignPasskey(t, n)
             \/ \E p \in Prefixes : SavePrefix(t, n, p)
      PROVE  DashboardInv'
  <2>0. PICK by \in BOOLEAN : by = TRUE
    OBVIOUS
  <2>1. CASE \E job \in Job : Click(t, n, job)
    <3>1. PICK job \in Job : Sent(t, job, n, Absent, TRUE) /\ job \in Buttons(cards[n]) \ {"prefix"}
      BY <2>1 DEF Click
    <3>2. job \notin {"create", "prefix", "options"}
      BY <3>1 DEF Buttons
    <3>3. PICK p \in Prefixes \cup {Absent} : p = Absent
      OBVIOUS
    <3>4. Sent(t, job, n, p, by)
      BY <2>0, <3>1, <3>3
    <3>5. QED
      BY <1>1, <3>2, <3>4, SentKeeps
  <2>2. CASE SignPasskey(t, n)
    <3>1. PICK job \in Job : job = "passkey"
      BY DEF Job
    <3>2. PICK p \in Prefixes \cup {Absent} : p = Absent
      OBVIOUS
    <3>3. Sent(t, job, n, p, by)
      BY <2>0, <2>2, <3>1, <3>2 DEF SignPasskey
    <3>4. job \notin {"create", "prefix", "options"}
      BY <3>1
    <3>5. QED
      BY <1>1, <3>3, <3>4, SentKeeps
  <2>3. CASE \E p \in Prefixes : SavePrefix(t, n, p)
    <3>1. PICK job \in Job : job = "prefix"
      BY DEF Job
    <3>2. PICK p \in Prefixes : Sent(t, job, n, p, by)
      BY <2>0, <2>3, <3>1 DEF SavePrefix
    <3>3. QED
      BY <1>1, <3>2, SentKeeps
  <2>4. QED
    BY <1>4, <2>1, <2>2, <2>3
<1>5. QED
  BY <1>2, <1>3, <1>4 DEF PageNext
-----------------------------------------------------------------------------
(* At first the module's clients are listened to, and nothing else has happened. *)
LEMMA DashboardBegins == PageInit => DashboardInv
<1> SUFFICES ASSUME Init PROVE DashboardInv
  BY DEF PageInit
<1>0. Absent \notin Adapters /\ Absent \notin Qrs /\ Absent \notin Entry
  BY DashboardAssumption, EntryAssumption
<1>1. PICK of \in [Names -> Adapters], p \in Prefixes, declared \in SUBSET Names :
        /\ \A m, n \in Names : of[m] = of[n] => m = n
        /\ reg = [n \in Names |-> IF n \notin declared THEN Absent
                                  ELSE [adapter |-> of[n], virtual |-> FALSE, prefix |-> p,
                                        status |-> "initializing", credential |-> Absent]]
  BY DEF Init
<1>2. /\ on = {reg[n].adapter : n \in {m \in Names : reg[m] # Absent}}
      /\ asked = [a \in Adapters |-> 0] /\ lastAsked = 0
      /\ images = [n \in Names |-> Absent] /\ passes = [q \in Passes |-> NoPass]
      /\ listening = [n \in Names |-> IF reg[n] = Absent THEN Absent ELSE reg[n].adapter]
      /\ challenges = [n \in Names |-> 0] /\ tasks = [t \in Slots |-> Idle]
      /\ strays = {}
  BY DEF Init
<1>3. ASSUME NEW n \in Names, reg[n] # Absent
      PROVE  reg[n] \in Entry /\ reg[n].adapter = of[n] /\ reg[n].credential = Absent
  BY <1>1, <1>3 DEF Entry, Status, Credentials
<1>4. RegShape
  BY <1>1, <1>3 DEF RegShape
<1>5. PairShape
  <2>1. listening \in [Names -> Adapters \cup {Absent}]
    BY <1>2, <1>3
  <2>2. QED
    BY <1>2, <2>1 DEF PairShape
<1>6. ViewShape
  <2>1. NoPass \in Pass /\ ~NoPass.busy
    BY DEF NoPass, Pass
  <2>2. QED
    BY <1>2, <2>1 DEF ViewShape
<1>7. TaskShape /\ Running
  <2>1. Idle \in Task /\ Idle.at = "none"
    BY DEF Idle, Task, Job, At
  <2>2. TaskShape
    BY <1>2, <2>1 DEF TaskShape
  <2>3. StaysDown
    BY <1>2, <2>1 DEF StaysDown
  <2>4. RunningIsKnown
    BY <1>2 DEF RunningIsKnown
  <2>5. QED
    BY <2>2, <2>3, <2>4 DEF Running
<1>8. Prompting
  <2>1. Distinct
    BY <1>1, <1>3 DEF Distinct
  <2>2. Waiting
    BY <1>2 DEF Waiting
  <2>3. Unheard
    BY <1>0, <1>2, <1>3 DEF Unheard
  <2>4. ListenerFollows /\ PromptIsWaited
    BY <1>2 DEF ListenerFollows, PromptIsWaited
  <2>5. PromptIsShown
    BY <1>2, <1>5 DEF PromptIsShown, PairShape
  <2>6. QED
    BY <2>1, <2>2, <2>3, <2>4, <2>5 DEF Prompting, PromptsAgree
<1>9. Drawn
  BY <1>0, <1>2, <1>3 DEF Drawn, Qr
<1>10. QED
  BY <1>4, <1>5, <1>6, <1>7, <1>8, <1>9 DEF DashboardInv

(* Every step of the server and of the page keeps the invariant. *)
LEMMA DashboardStep == DashboardInv /\ [Next]_vars => DashboardInv'
<1> SUFFICES ASSUME DashboardInv, [Next]_vars PROVE DashboardInv'
  OBVIOUS
<1>1. ASSUME NEW n \in Names, NEW s \in Status, NEW c \in Credentials, Report(n, s, c)
      PROVE  DashboardInv'
  BY <1>1, ReportKeeps
<1>2. ASSUME NEW p \in Passes, Rendered(p) \/ RenderFails(p) PROVE DashboardInv'
  BY <1>2, PassKeeps
<1>3. ASSUME NEW a \in Adapters,
             Ask(a) \/ GivesUp(a) \/ \E k \in 1 .. MaxAsked : ResultTold(a, k)
      PROVE  DashboardInv'
  BY <1>3, AskKeeps, GivesUpKeeps, ResultKeeps
<1>4. ASSUME NEW t \in Slots,
             \/ \E job \in Job, n \in Names, p \in Prefixes \cup {Absent} : OtherRequest(t, job, n, p)
             \/ RequestRejected(t) \/ AnswerPasskey(t) \/ CancelPasskey(t)
             \/ DestroyBegins(t) \/ LogoutBegins(t) \/ LogoutTearsDown(t) \/ StopFails(t)
             \/ LogoutEnds(t) \/ RestartEnds(t) \/ Removed(t) \/ CreateSkipped(t) \/ Added(t)
             \/ Initialized(t) \/ PrefixSet(t)
      PROVE  DashboardInv'
  BY <1>4, OtherKeeps, AnswerPasskeyKeeps, CancelPasskeyKeeps, StopKeeps, LogoutBeginsKeeps,
    RestartEndsKeeps, RemovedKeeps, AddedKeeps, InitializedKeeps, PrefixSetKeeps
<1>5. CASE ServerStep
  BY <1>1, <1>2, <1>3, <1>4, <1>5 DEF ServerStep, ServerNext
<1>6. CASE PageNext
  BY <1>6, PageKeeps
<1>7. CASE UNCHANGED vars
  <2>1. UNCHANGED Rest /\ tasks' = tasks
    BY <1>7 DEF vars, server, clients, pairing, views, past, Rest
  <2>2. TaskShape'
    BY <2>1 DEF DashboardInv, TaskShape
  <2>3. QED
    BY <2>1, <2>2, RequestKeeps
<1>8. QED
  BY <1>5, <1>6, <1>7 DEF Next

(* For any number of names, adapters, requests and rendering passes: what keeps prompts, *)
(* adapters and images in order is inductive.                                            *)
THEOREM DashboardInvariance == Spec => []DashboardInv
<1>1. PageInit => DashboardInv
  BY DashboardBegins
<1>2. DashboardInv /\ [Next]_vars => DashboardInv'
  BY DashboardStep
<1>3. QED
  BY <1>1, <1>2, PTL DEF Spec

(* The challenge shown for a client is the one that its adapter waits on, on the adapter   *)
(* it has, whatever requests, timeouts, answers and removals come in between               *)
(* (syncPasskeyListeners, onChallenge, onResult and the passkey handlers of the service).  *)
THEOREM PromptsAlwaysAgree == Spec => []PromptsAgree
<1>1. DashboardInv => PromptsAgree
  BY DEF DashboardInv, Prompting
<1>2. QED
  BY <1>1, DashboardInvariance, PTL

(* An adapter that runs is one the registry has, unless requests overlapped on its client *)
(* (restart, forceQr, destroyClient and createClient across their awaits).                *)
THEOREM RunningIsAlwaysKnown == Spec => []RunningIsKnown
<1>1. DashboardInv => RunningIsKnown
  BY DEF DashboardInv, Running
<1>2. QED
  BY <1>1, DashboardInvariance, PTL

(* Once nothing is being rendered, every client has the image of its QR and no other,   *)
(* but for those an older or a failed rendering was the last to touch                   *)
(* (renderPendingQrCodes, any number of which may be under way).                        *)
THEOREM ImagesAreCurrent == Spec => []ImageIsCurrent
<1>1. DashboardInv => ImageIsCurrent
  BY DEF DashboardInv, Drawn, Due, ImageIsCurrent, Rendering
<1>2. QED
  BY <1>1, DashboardInvariance, PTL
-----------------------------------------------------------------------------
(***************************************************************************)
(* The page.  What it shows is what the server has, or the server's last   *)
(* message to it says so; this is kept by a step that sends a message,     *)
(* whatever it does (Sends), and by one that sends none if it leaves what  *)
(* a card shows (Keeps).                                                   *)
(***************************************************************************)
Messages == [Names -> Summaries \cup {Absent}]
Now      == Payload(reg, images, challenges, results, config)
Last(s)  == s[Len(s)]

Typed ==
  /\ TypeOK /\ lastAsked \in 0..MaxAsked
  /\ cards \in [Names -> Card \cup {Absent}]
  /\ stream \in Seq(Messages)
  /\ answer \in {NoAnswer} \cup [payload : Messages, old : BOOLEAN]

(* A pass under way has drawn something: it tells the page when it ends. *)
Pushing == \E p \in Passes : passes[p].busy /\ passes[p].rendered

(* What the page shows of a name, on a card or by a message it has yet to read. *)
Shows(card, n) == card # Absent =>
  /\ reg[n] # Absent /\ card.status = reg[n].status /\ card.virtual = reg[n].virtual
  /\ card.panel = PanelOf(Now[n]) \/ n \in crossed \/ Pushing
CardOf(p, n) == IF p[n] = Absent THEN Absent ELSE BuildCard(p[n])
HasPrefix(prefix, n) == prefix # Absent => prefix = config[n] \/ n \in lagging

Right(p) == \A n \in Names :
  /\ Shows(CardOf(p, n), n)
  /\ listening[n] # Absent => p[n] # Absent
  /\ p[n] # Absent => HasPrefix(p[n].config, n)
CardsRight == \A n \in Names :
  /\ Shows(cards[n], n)
  /\ (listening[n] # Absent /\ form # "cut") => cards[n] # Absent
  /\ cards[n] # Absent => HasPrefix(configs[n], n)

Following ==
  /\ ~online => stream = <<>>
  /\ (online /\ stream # <<>>) => Right(Last(stream))
  /\ (online /\ stream = <<>> /\ answer # NoAnswer /\ ~answer.old) => Right(answer.payload)
  /\ (online /\ stream = <<>> /\ ~behind) => CardsRight

(* A client of the manager has a configuration, and a declared one never had. *)
Declared(n) == reg[n] # Absent /\ ~reg[n].virtual
Sound(p) == \A n \in Names : p[n] # Absent =>
  /\ p[n].virtual => p[n].config # Absent
  /\ Declared(n) => p[n].config = Absent
Stored ==
  /\ \A n \in Names : reg[n] # Absent => (reg[n].virtual <=> config[n] # Absent)
  /\ \A n \in Names : Declared(n) => configs[n] = Absent
  /\ \A i \in DOMAIN stream : Sound(stream[i])
  /\ answer # NoAnswer => Sound(answer.payload)

(* The buttons of a card wait for a request that marks them stuck, for a restart that  *)
(* changes the status, or for a message on its way that has.                           *)
Alters(p, n) == p[n] = Absent \/ p[n].status # cards[n].status \/ p[n].virtual # cards[n].virtual
Awaited(t, n) ==
  /\ tasks[t].page /\ tasks[t].name = n
  /\ \/ tasks[t].job \in {"logout", "delete", "passkey-cancel"}
     \/ tasks[t].job \in {"restart", "force-qr"} /\ cards[n].status # "initializing"
Waits(n) == online /\ cards[n] # Absent /\ cards[n].disabled /\ n \notin stuck
Released == \A n \in Names : Waits(n) =>
  (\E t \in Slots : Awaited(t, n)) \/ \E i \in DOMAIN stream : Alters(stream[i], n)

(* The results of a name in the order the page learns of them, the server's last. *)
Res(p, n) == IF p[n] = Absent THEN 0 ELSE p[n].result
Line(n)   == [i \in 1 .. Len(stream) + 1 |-> IF i <= Len(stream) THEN Res(stream[i], n) ELSE results[n]]
Told(n, k) == \/ seen[n] = k
              \/ \E i \in 1 .. Len(stream) + 1 : Line(n)[i] = k
              \/ answer # NoAnswer /\ Res(answer.payload, n) = k

(* A challenge has one adapter, and one result, which nobody knows until it is told, and *)
(* which is of one name.                                                                 *)
Pending(k) == k > lastAsked \/ \E a \in Adapters : asked[a] = k \/ k \in answered[a]
Single == \A a, b \in Adapters :
  /\ (asked[a] = asked[b] /\ asked[a] # 0) => a = b
  /\ asked[a] = 0 \/ asked[a] \notin answered[b]
  /\ a # b => answered[a] \cap answered[b] = {}
Fresh == \A k \in Nat \ {0} : Pending(k) => k \notin toasted /\ \A n \in Names : ~Told(n, k)
OfOne == \A m, n \in Names, k \in Nat \ {0} : (Told(m, k) /\ Told(n, k)) => m = n

(* A result that was shown comes again only before any other: what was shown last. *)
Between(line, i, j) == \A l \in DOMAIN line : (i < l /\ l < j) => line[l] \in {0, line[j]}
Ordered(line, last, told) ==
  /\ \A i \in DOMAIN line : line[i] \in told => last = line[i] /\ Between(line, 0, i)
  /\ \A i, j \in DOMAIN line : (i < j /\ line[i] = line[j] /\ line[i] # 0) => Between(line, i, j)
InLine(n) == Ordered(Line(n), seen[n], toasted)
AnswerInLine(n) == (answer # NoAnswer /\ ~answer.old) =>
  /\ Res(answer.payload, n) \in toasted => seen[n] = Res(answer.payload, n)
  /\ results[n] \in toasted => Res(answer.payload, n) \in {0, results[n]}
ShownOnce == (again => apart) /\ (~apart => \A n \in Names : InLine(n) /\ AnswerInLine(n))

PageInv == Typed /\ Following /\ Stored /\ Released /\ Single /\ Fresh /\ OfOne /\ ShownOnce
-----------------------------------------------------------------------------
(* What a message says of a name. *)
Says(p, n, entries, shown, waiting, ended, stored) ==
  /\ p[n] = Absent <=> entries[n] = Absent
  /\ entries[n] # Absent =>
       /\ p[n].status = entries[n].status /\ p[n].virtual = entries[n].virtual
       /\ p[n].qr = (IF Qr(entries[n]) = Absent THEN Absent ELSE shown[n])
       /\ p[n].code = (entries[n].credential = "code") /\ p[n].challenge = waiting[n]
       /\ p[n].result = ended[n] /\ p[n].config = stored[n]

LEMMA PayloadIs ==
  ASSUME NEW entries, \A n \in Names : entries[n] # Absent => entries[n] \in Entry,
         NEW shown \in [Names -> {Absent} \cup Qrs], NEW waiting \in [Names -> 0..MaxAsked],
         NEW ended \in [Names -> 0..MaxAsked], NEW stored \in [Names -> {Absent} \cup Prefixes],
         NEW p, p = Payload(entries, shown, waiting, ended, stored)
  PROVE  p \in Messages /\ \A n \in Names : Says(p, n, entries, shown, waiting, ended, stored)
<1>1. ASSUME NEW n \in Names, entries[n] # Absent
      PROVE  [status |-> entries[n].status, virtual |-> entries[n].virtual,
              qr |-> IF Qr(entries[n]) = Absent THEN Absent ELSE shown[n],
              code |-> entries[n].credential = "code",
              challenge |-> waiting[n], result |-> ended[n], config |-> stored[n]] \in Summaries
  <2>1. entries[n].status \in Status /\ entries[n].virtual \in BOOLEAN
    BY <1>1 DEF Entry
  <2>2. (IF Qr(entries[n]) = Absent THEN Absent ELSE shown[n]) \in Qrs \cup {Absent}
    OBVIOUS
  <2> QED
    BY <2>1, <2>2 DEF Summaries
<1>2. p = [n \in Names |->
     IF entries[n] = Absent THEN Absent
     ELSE [status |-> entries[n].status, virtual |-> entries[n].virtual,
           qr |-> IF Qr(entries[n]) = Absent THEN Absent ELSE shown[n],
           code |-> entries[n].credential = "code",
           challenge |-> waiting[n], result |-> ended[n], config |-> stored[n]]]
  BY DEF Payload
<1>3. p \in Messages
  BY <1>1, <1>2 DEF Messages
<1>4. ASSUME NEW n \in Names, entries[n] # Absent PROVE p[n] # Absent
  BY <1>1, <1>2, <1>4, PageAssumption
<1> QED
  BY <1>2, <1>3, <1>4 DEF Says

(* What there is now, as a message. *)
LEMMA NowIs ==
  ASSUME Typed
  PROVE  Now \in Messages /\ \A n \in Names : Says(Now, n, reg, images, challenges, results, config)
<1>1. /\ \A n \in Names : reg[n] # Absent => reg[n] \in Entry
      /\ images \in [Names -> {Absent} \cup Qrs] /\ config \in [Names -> {Absent} \cup Prefixes]
      /\ challenges \in [Names -> 0..MaxAsked] /\ results \in [Names -> 0..MaxAsked]
  BY DashboardAssumption DEF Typed, TypeOK, ServerTypeOK
<1>2. PICK p : p = Now
  OBVIOUS
<1>3. p = Payload(reg, images, challenges, results, config)
  BY <1>2 DEF Now
<1>4. p \in Messages /\ \A n \in Names : Says(p, n, reg, images, challenges, results, config)
  BY <1>1, <1>3, PayloadIs
<1> QED
  BY <1>2, <1>4

LEMMA NextIs ==
  ASSUME Typed'
  PROVE  Now' \in Messages /\ \A n \in Names : Says(Now', n, reg', images', challenges', results', config')
<1>1. /\ \A n \in Names : reg'[n] # Absent => reg'[n] \in Entry
      /\ images' \in [Names -> {Absent} \cup Qrs] /\ config' \in [Names -> {Absent} \cup Prefixes]
      /\ challenges' \in [Names -> 0..MaxAsked] /\ results' \in [Names -> 0..MaxAsked]
  BY DashboardAssumption DEF Typed, TypeOK, ServerTypeOK
<1>2. PICK p : p = Now'
  OBVIOUS
<1>3. p = Payload(reg', images', challenges', results', config')
  BY <1>2 DEF Now
<1>4. p \in Messages /\ \A n \in Names : Says(p, n, reg', images', challenges', results', config')
  BY <1>1, <1>3, PayloadIs
<1> QED
  BY <1>2, <1>4

(* A card is built of what a message says. *)
LEMMA CardIs ==
  ASSUME NEW c \in Summaries
  PROVE  PanelOf(c) \in Panel /\ BuildCard(c) \in Card /\ BuildCard(c) # Absent
<1>1. c.qr \in Qrs \cup {Absent} /\ c.status \in Status /\ c.virtual \in BOOLEAN
  BY DEF Summaries
<1>2. PanelOf(c) \in Panel
  BY <1>1 DEF PanelOf, Panel
<1>3. BuildCard(c) \in Card
  BY <1>1, <1>2 DEF BuildCard, Card
<1> QED
  BY <1>2, <1>3, PageAssumption
-----------------------------------------------------------------------------
(* A message with all there is after a step is sent. *)
Sends == /\ \A n \in Names : reg'[n] # Absent => reg[n] # Absent
         /\ stream' = Append(stream, Payload(reg', images', challenges', results', config))

(* None is, and what a card of the name shows is as it was. *)
Keeps(n) ==
  /\ listening'[n] # Absent => listening[n] # Absent
  /\ reg[n] # Absent => /\ reg'[n] # Absent /\ reg'[n].status = reg[n].status
                        /\ reg'[n].virtual = reg[n].virtual /\ reg'[n].credential = reg[n].credential
  /\ challenges'[n] = challenges[n]
  /\ images'[n] = images[n] \/ Qr(reg'[n]) = Absent \/ n \in crossed' \/ Pushing'
  /\ n \in crossed => n \in crossed' \/ Pushing'
KeepsAll == stream' = stream /\ results' = results /\ (Pushing => Pushing') /\ \A n \in Names : Keeps(n)

(* What becomes of a name's entry and configuration. *)
Registers(n) == reg'[n] # Absent =>
  /\ reg[n] = Absent => reg'[n].virtual /\ config'[n] # Absent
  /\ reg[n] # Absent => /\ reg'[n].virtual = reg[n].virtual
                        /\ config'[n] # Absent <=> config[n] # Absent
Noted == \A n \in Names : /\ stream' = stream => (n \in lagging => n \in lagging')
                          /\ (config[n] # Absent /\ config'[n] # Absent) =>
                               config'[n] = config[n] \/ n \in lagging'

(* What the panel of a card is made of. *)
LEMMA PanelIs ==
  ASSUME NEW c, NEW d, c.challenge = d.challenge, c.qr = d.qr, c.code = d.code
  PROVE  PanelOf(c) = PanelOf(d)
BY DEF PanelOf

(* A card that a step leaves alone shows what it did. *)
LEMMA ShowsStill ==
  ASSUME Typed, Typed', NEW n \in Names, Keeps(n), Pushing => Pushing',
         NEW card, Shows(card, n)
  PROVE  Shows(card, n)'
<1> SUFFICES ASSUME card # Absent
             PROVE  /\ reg'[n] # Absent /\ card.status = reg'[n].status /\ card.virtual = reg'[n].virtual
                    /\ card.panel = PanelOf(Now'[n]) \/ n \in crossed' \/ Pushing'
  BY DEF Shows
<1>1. /\ reg[n] # Absent /\ card.status = reg[n].status /\ card.virtual = reg[n].virtual
      /\ card.panel = PanelOf(Now[n]) \/ n \in crossed \/ Pushing
  BY DEF Shows
<1>2. /\ reg'[n] # Absent /\ card.status = reg'[n].status /\ card.virtual = reg'[n].virtual
      /\ reg'[n].credential = reg[n].credential
  BY <1>1 DEF Keeps
<1>3. CASE n \in crossed \/ Pushing
  BY <1>2, <1>3 DEF Keeps
<1>4. CASE card.panel = PanelOf(Now[n]) /\ ~(n \in crossed' \/ Pushing')
  <2>1. Qr(reg'[n]) = Qr(reg[n])
    BY <1>1, <1>2 DEF Qr
  <2>2. images'[n] = images[n] \/ Qr(reg'[n]) = Absent
    BY <1>4 DEF Keeps
  <2>3. /\ Now[n].qr = (IF Qr(reg[n]) = Absent THEN Absent ELSE images[n])
        /\ Now[n].code = (reg[n].credential = "code") /\ Now[n].challenge = challenges[n]
    BY <1>1, NowIs DEF Says
  <2>4. /\ Now'[n].qr = (IF Qr(reg'[n]) = Absent THEN Absent ELSE images'[n])
        /\ Now'[n].code = (reg'[n].credential = "code") /\ Now'[n].challenge = challenges'[n]
    BY <1>2, NextIs DEF Says
  <2>5. challenges'[n] = challenges[n]
    BY DEF Keeps
  <2>6. PanelOf(Now'[n]) = PanelOf(Now[n])
    BY <1>2, <2>1, <2>2, <2>3, <2>4, <2>5, PanelIs
  <2> QED
    BY <1>2, <1>4, <2>6
<1> QED
  BY <1>1, <1>2, <1>3, <1>4

(* A prefix that is known stays known. *)
LEMMA PrefixStill ==
  ASSUME NEW n \in Names, stream' = stream, Keeps(n), Registers(n), Noted, reg[n] # Absent,
         Absent \notin Prefixes, NEW prefix, HasPrefix(prefix, n)
  PROVE  HasPrefix(prefix, n)'
<1>1. reg'[n] # Absent /\ (config'[n] # Absent <=> config[n] # Absent)
  BY DEF Keeps, Registers
<1> QED
  BY <1>1 DEF HasPrefix, Noted

(* A message that is right stays so while none is sent. *)
LEMMA RightStill ==
  ASSUME Typed, Typed', KeepsAll, \A n \in Names : Registers(n), Noted,
         NEW p \in Messages, Right(p)
  PROVE  Right(p)'
<1> SUFFICES ASSUME NEW n \in Names
             PROVE  /\ Shows(CardOf(p, n), n)'
                    /\ listening'[n] # Absent => p[n] # Absent
                    /\ p[n] # Absent => HasPrefix(p[n].config, n)'
  BY DEF Right
<1>1. Keeps(n) /\ Registers(n) /\ stream' = stream /\ (Pushing => Pushing')
  BY DEF KeepsAll
<1>2. PICK card : card = CardOf(p, n)
  OBVIOUS
<1>3. Shows(card, n)
  BY <1>2 DEF Right
<1>4. Shows(card, n)'
  BY <1>1, <1>3, ShowsStill
<1>5. Shows(CardOf(p, n), n)'
  BY <1>2, <1>4 DEF CardOf, BuildCard, PanelOf
<1>6. listening'[n] # Absent => p[n] # Absent
  BY <1>1 DEF Right, Keeps
<1>7. ASSUME p[n] # Absent PROVE HasPrefix(p[n].config, n)'
  <2>1. PICK prefix : prefix = p[n].config
    OBVIOUS
  <2>2. HasPrefix(prefix, n)
    BY <1>7, <2>1 DEF Right
  <2>3. p[n] \in Summaries
    BY <1>7 DEF Messages
  <2>4. BuildCard(p[n]) # Absent
    BY <2>3, CardIs
  <2>5. reg[n] # Absent
    BY <1>2, <1>3, <1>7, <2>4 DEF Shows, CardOf
  <2>6. HasPrefix(prefix, n)'
    BY <1>1, <2>2, <2>5, PrefixStill, DashboardAssumption
  <2> QED
    BY <2>1, <2>6 DEF HasPrefix
<1> QED
  BY <1>5, <1>6, <1>7

(* What a message that is sent says, with the configuration there was. *)
LEMMA SentIs ==
  ASSUME Typed, Typed', NEW p, p = Payload(reg', images', challenges', results', config)
  PROVE  p \in Messages /\ \A n \in Names : Says(p, n, reg', images', challenges', results', config)
<1>1. /\ \A n \in Names : reg'[n] # Absent => reg'[n] \in Entry
      /\ images' \in [Names -> {Absent} \cup Qrs] /\ config \in [Names -> {Absent} \cup Prefixes]
  BY DEF Typed, TypeOK, ServerTypeOK
<1>2. challenges' \in [Names -> 0..lastAsked'] /\ results' \in [Names -> 0..lastAsked']
  BY DEF Typed, TypeOK, ServerTypeOK
<1>3. lastAsked' \in 0..MaxAsked /\ MaxAsked \in Nat
  BY DashboardAssumption DEF Typed
<1>4. challenges' \in [Names -> 0..MaxAsked] /\ results' \in [Names -> 0..MaxAsked]
  BY <1>2, <1>3
<1> QED
  BY <1>1, <1>4, PayloadIs

(* A message that is sent is right. *)
LEMMA SentIsRight ==
  ASSUME Typed, Typed', ListenerFollows', \A n \in Names : Registers(n), Noted,
         NEW p, p = Payload(reg', images', challenges', results', config)
  PROVE  p \in Messages /\ Right(p)'
<1>2. p \in Messages /\ \A n \in Names : Says(p, n, reg', images', challenges', results', config)
  BY SentIs
<1>3. ASSUME NEW n \in Names
      PROVE  /\ Shows(CardOf(p, n), n)'
             /\ listening'[n] # Absent => p[n] # Absent
             /\ p[n] # Absent => HasPrefix(p[n].config, n)'
  <2>1. CASE p[n] = Absent
    <3>1. reg'[n] = Absent
      BY <1>2, <2>1 DEF Says
    <3> QED
      BY <2>1, <3>1 DEF ListenerFollows, Shows, CardOf
  <2>2. CASE p[n] # Absent
    <3>1. /\ reg'[n] # Absent /\ p[n].status = reg'[n].status /\ p[n].virtual = reg'[n].virtual
          /\ p[n].qr = (IF Qr(reg'[n]) = Absent THEN Absent ELSE images'[n])
          /\ p[n].code = (reg'[n].credential = "code") /\ p[n].challenge = challenges'[n]
          /\ p[n].config = config[n]
      BY <1>2, <2>2 DEF Says
    <3>2. /\ Now'[n].qr = (IF Qr(reg'[n]) = Absent THEN Absent ELSE images'[n])
          /\ Now'[n].code = (reg'[n].credential = "code") /\ Now'[n].challenge = challenges'[n]
      BY <3>1, NextIs DEF Says
    <3>3. PanelOf(Now'[n]) = PanelOf(p[n])
      BY <3>1, <3>2, PanelIs
    <3>4. CardOf(p, n)' = BuildCard(p[n])
      BY <2>2 DEF CardOf, BuildCard, PanelOf
    <3>5. /\ BuildCard(p[n]).status = reg'[n].status /\ BuildCard(p[n]).virtual = reg'[n].virtual
          /\ BuildCard(p[n]).panel = PanelOf(p[n])
      BY <3>1 DEF BuildCard
    <3>6. Shows(CardOf(p, n), n)'
      BY <3>1, <3>3, <3>4, <3>5 DEF Shows
    <3>7. HasPrefix(p[n].config, n)'
      <4> SUFFICES ASSUME config[n] # Absent PROVE config[n] = config'[n] \/ n \in lagging'
        BY <3>1 DEF HasPrefix
      <4>1. config'[n] # Absent
        BY <3>1 DEF Registers
      <4> QED
        BY <4>1 DEF Noted
    <3> QED
      BY <2>2, <3>6, <3>7
  <2> QED
    BY <2>1, <2>2
<1> QED
  BY <1>2, <1>3 DEF Right

LEMMA LastOfAppend ==
  ASSUME NEW S, NEW s \in Seq(S), NEW e \in S
  PROVE  /\ Append(s, e) # <<>> /\ Last(Append(s, e)) = e /\ Len(Append(s, e)) = Len(s) + 1
         /\ s # <<>> => Last(s) \in S
BY DEF Last

(* The server's step. *)
LEMMA ServerFollows ==
  ASSUME Typed, Typed', ListenerFollows', Following, online' = online, UNCHANGED page,
         IF online THEN Sends \/ KeepsAll ELSE stream' = stream,
         \A n \in Names : Registers(n), Noted
  PROVE  Following'
<1>0. answer' = answer /\ cards' = cards /\ configs' = configs /\ form' = form /\ behind' = behind
  BY DEF page
<1>1. CASE ~online
  BY <1>1 DEF Following
<1>2. CASE online /\ Sends
  <2>1. PICK p : p = Payload(reg', images', challenges', results', config)
    OBVIOUS
  <2>2. p \in Messages /\ Right(p)'
    BY <2>1, SentIsRight
  <2>3. stream' = Append(stream, p) /\ stream \in Seq(Messages)
    BY <1>2, <2>1 DEF Sends, Typed
  <2>4. stream' # <<>> /\ Last(stream') = p
    BY <2>2, <2>3, LastOfAppend
  <2>5. Right(Last(stream))'
    BY <2>2, <2>4 DEF Right, CardOf, Shows
  <2> QED
    BY <1>2, <2>4, <2>5 DEF Following
<1>3. CASE online /\ KeepsAll
  <2>1. stream' = stream /\ (Pushing => Pushing') /\ \A n \in Names : Keeps(n)
    BY <1>3 DEF KeepsAll
  <2>2. ASSUME NEW p \in Messages, Right(p) PROVE Right(p)'
    BY <1>3, <2>2, RightStill
  <2>3. ASSUME stream # <<>> PROVE Right(Last(stream))'
    <3>1. Last(stream) \in Messages
      BY <2>3, LastOfAppend DEF Typed, Last
    <3>2. PICK p \in Messages : p = Last(stream)
      BY <3>1
    <3>3. Right(p)
      BY <1>3, <2>3, <3>2 DEF Following
    <3>4. Right(p)'
      BY <2>2, <3>3
    <3>5. Last(stream') = p
      BY <2>1, <3>2
    <3> QED
      BY <3>4, <3>5 DEF Right, CardOf, Shows
  <2>4. ASSUME stream = <<>>, answer # NoAnswer, ~answer.old PROVE Right(answer.payload)'
    <3>1. PICK p \in Messages : p = answer.payload
      BY <2>4 DEF Typed
    <3>2. Right(p)
      BY <1>3, <2>4, <3>1 DEF Following
    <3>3. Right(p)'
      BY <2>2, <3>2
    <3>4. answer'.payload = p
      BY <1>0, <3>1
    <3> QED
      BY <3>3, <3>4 DEF Right, CardOf, Shows
  <2>5. ASSUME stream = <<>>, ~behind PROVE CardsRight'
    <3>1. CardsRight
      BY <1>3, <2>5 DEF Following
    <3> SUFFICES ASSUME NEW n \in Names
                 PROVE  /\ Shows(cards[n], n)'
                        /\ (listening'[n] # Absent /\ form' # "cut") => cards'[n] # Absent
                        /\ cards'[n] # Absent => HasPrefix(configs[n], n)'
      BY DEF CardsRight
    <3>2. PICK card : card = cards[n]
      OBVIOUS
    <3>3. Shows(card, n)
      BY <3>1, <3>2 DEF CardsRight
    <3>4. Shows(card, n)'
      BY <2>1, <3>3, ShowsStill
    <3>5. Shows(cards[n], n)'
      BY <1>0, <3>2, <3>4 DEF Shows
    <3>6. (listening'[n] # Absent /\ form' # "cut") => cards'[n] # Absent
      BY <1>0, <2>1, <3>1 DEF CardsRight, Keeps
    <3>7. ASSUME cards[n] # Absent PROVE HasPrefix(configs[n], n)'
      <4>1. PICK prefix : prefix = configs[n]
        OBVIOUS
      <4>2. HasPrefix(prefix, n) /\ reg[n] # Absent
        BY <3>1, <3>7, <4>1 DEF CardsRight, Shows
      <4>3. HasPrefix(prefix, n)'
        BY <2>1, <4>2, PrefixStill, DashboardAssumption
      <4> QED
        BY <1>0, <4>1, <4>3 DEF HasPrefix
    <3> QED
      BY <1>0, <3>5, <3>6, <3>7
  <2> QED
    BY <1>0, <1>3, <2>1, <2>3, <2>4, <2>5 DEF Following
<1> QED
  BY <1>1, <1>2, <1>3
-----------------------------------------------------------------------------
(* What else is kept by a step of the server. *)
LEMMA ServerStored ==
  ASSUME Typed, Stored, UNCHANGED page, \A n \in Names : Registers(n),
         \/ stream' = stream
         \/ /\ \A n \in Names : reg'[n] # Absent => reg[n] # Absent
            /\ stream' = Append(stream, Payload(reg', images', challenges', results', config)),
         Typed'
  PROVE  Stored'
<1>0. answer' = answer /\ configs' = configs
  BY DEF page
<1>1. \A n \in Names : Declared(n)' => Declared(n)
  BY DEF Declared, Registers
<1>2. ASSUME NEW p, Sound(p) PROVE Sound(p)'
  BY <1>1, <1>2 DEF Sound
<1>3. \A n \in Names : reg'[n] # Absent => (reg'[n].virtual <=> config'[n] # Absent)
  <2> SUFFICES ASSUME NEW n \in Names, reg'[n] # Absent
               PROVE  reg'[n].virtual <=> config'[n] # Absent
    OBVIOUS
  <2>1. Registers(n) /\ (reg[n] # Absent => (reg[n].virtual <=> config[n] # Absent))
    BY DEF Stored
  <2> QED
    BY <2>1 DEF Registers
<1>4. \A n \in Names : Declared(n)' => configs'[n] = Absent
  BY <1>0, <1>1 DEF Stored
<1>5. answer' # NoAnswer => Sound(answer.payload)'
  <2> SUFFICES ASSUME answer # NoAnswer PROVE Sound(answer.payload)'
    BY <1>0 DEF Sound
  <2>1. PICK p : p = answer.payload
    OBVIOUS
  <2>2. Sound(p)
    BY <2>1 DEF Stored
  <2>3. Sound(p)'
    BY <1>2, <2>2
  <2> QED
    BY <1>0, <2>1, <2>3 DEF Sound
<1>6. \A i \in DOMAIN stream' : Sound(stream[i])'
  <2>1. ASSUME NEW i \in DOMAIN stream, NEW p, p = stream[i] PROVE Sound(p)'
    BY <1>2, <2>1 DEF Stored
  <2>2. CASE stream' = stream
    <3> SUFFICES ASSUME NEW i \in DOMAIN stream' PROVE Sound(stream[i])'
      OBVIOUS
    <3>1. PICK p : p = stream[i]
      OBVIOUS
    <3>2. Sound(p)'
      BY <2>1, <2>2, <3>1
    <3> QED
      BY <2>2, <3>1, <3>2 DEF Sound
  <2>3. CASE /\ \A n \in Names : reg'[n] # Absent => reg[n] # Absent
             /\ stream' = Append(stream, Payload(reg', images', challenges', results', config))
    <3>1. PICK q : q = Payload(reg', images', challenges', results', config)
      OBVIOUS
    <3>3. \A n \in Names : Says(q, n, reg', images', challenges', results', config)
      BY <3>1, SentIs
    <3>4. Sound(q)'
      <4> SUFFICES ASSUME NEW n \in Names, q[n] # Absent
                   PROVE  /\ q[n].virtual => q[n].config # Absent
                          /\ Declared(n)' => q[n].config = Absent
        BY DEF Sound
      <4>1. /\ reg'[n] # Absent /\ reg[n] # Absent
            /\ q[n].virtual = reg'[n].virtual /\ q[n].config = config[n]
        BY <2>3, <3>3 DEF Says
      <4>2. reg'[n].virtual = reg[n].virtual /\ (reg[n].virtual <=> config[n] # Absent)
        BY <4>1 DEF Registers, Stored
      <4> QED
        BY <4>1, <4>2 DEF Declared
    <3>5. stream \in Seq(Messages) /\ stream' = Append(stream, q)
      BY <2>3, <3>1 DEF Typed
    <3> SUFFICES ASSUME NEW i \in DOMAIN stream' PROVE Sound(stream[i])'
      OBVIOUS
    <3>6. CASE i \in DOMAIN stream
      <4>1. PICK p : p = stream[i]
        OBVIOUS
      <4>2. Sound(p)' /\ stream'[i] = p
        BY <2>1, <3>5, <3>6, <4>1
      <4> QED
        BY <4>2 DEF Sound
    <3>7. CASE i \notin DOMAIN stream
      <4>1. stream'[i] = q
        BY <3>5, <3>7
      <4> QED
        BY <3>4, <4>1 DEF Sound
    <3> QED
      BY <3>6, <3>7
  <2> QED
    BY <2>2, <2>3
<1> QED
  BY <1>3, <1>4, <1>5, <1>6 DEF Stored

(* A request that the page waits for goes on, marks its name stuck, or has the page told *)
(* of a restart.                                                                         *)
Settles ==
  /\ stuck \subseteq stuck'
  /\ \A t \in Slots, n \in Names : (online /\ Awaited(t, n)) =>
       \/ tasks'[t].page /\ tasks'[t].name = tasks[t].name /\ tasks'[t].job = tasks[t].job
       \/ n \in stuck'
       \/ /\ stream' # stream /\ tasks[t].job \in {"restart", "force-qr"}
          /\ reg'[n] # Absent => reg'[n].status = "initializing"

LEMMA ServerReleases ==
  ASSUME Typed, Typed', Released, online' = online, UNCHANGED page, Settles,
         \/ stream' = stream
         \/ stream' = Append(stream, Payload(reg', images', challenges', results', config))
  PROVE  Released'
<1>0. cards' = cards
  BY DEF page
<1> SUFFICES ASSUME NEW n \in Names, Waits(n)'
             PROVE  \/ \E t \in Slots : Awaited(t, n)'
                    \/ \E i \in DOMAIN stream' : Alters(stream[i], n)'
  BY DEF Released
<1>1. Waits(n)
  BY <1>0 DEF Waits, Settles
<1>2. \/ \E t \in Slots : Awaited(t, n)
      \/ \E i \in DOMAIN stream : Alters(stream[i], n)
  BY <1>1 DEF Released
<1>3. CASE \E i \in DOMAIN stream : Alters(stream[i], n)
  <2>1. PICK i \in DOMAIN stream : Alters(stream[i], n)
    BY <1>3
  <2>2. i \in DOMAIN stream' /\ stream'[i] = stream[i]
    BY DEF Typed
  <2> QED
    BY <1>0, <2>1, <2>2 DEF Alters
<1>4. CASE \E t \in Slots : Awaited(t, n)
  <2>1. PICK t \in Slots : Awaited(t, n)
    BY <1>4
  <2>2. n \notin stuck' /\ online
    BY <1>1 DEF Waits, Settles
  <2>3. CASE tasks'[t].page /\ tasks'[t].name = tasks[t].name /\ tasks'[t].job = tasks[t].job
    BY <1>0, <2>1, <2>3 DEF Awaited
  <2>4. CASE /\ stream' # stream /\ tasks[t].job \in {"restart", "force-qr"}
             /\ reg'[n] # Absent => reg'[n].status = "initializing"
    <3>1. PICK q : q = Payload(reg', images', challenges', results', config)
      OBVIOUS
    <3>3. Says(q, n, reg', images', challenges', results', config)
      BY <3>1, SentIs
    <3>4. cards[n].status # "initializing"
      BY <2>1, <2>4 DEF Awaited
    <3>5. q[n] = Absent \/ q[n].status # cards[n].status
      BY <2>4, <3>3, <3>4 DEF Says
    <3>6. stream' = Append(stream, q) /\ stream \in Seq(Messages)
      BY <2>4, <3>1 DEF Typed
    <3>7. Len(stream) + 1 \in DOMAIN stream' /\ stream'[Len(stream) + 1] = q
      BY <3>6
    <3> QED
      BY <1>0, <3>5, <3>7 DEF Alters
  <2> QED
    BY <2>1, <2>2, <2>3, <2>4 DEF Settles
<1> QED
  BY <1>2, <1>3, <1>4
-----------------------------------------------------------------------------
(* The results on their way, when another message is sent, *)
LEMMA OrderedGrows ==
  ASSUME NEW N \in Nat, NEW line \in [1 .. N + 1 -> Nat], NEW last, NEW told,
         Ordered(line, last, told), 0 \notin told,
         NEW v \in Nat, NEW u \in {0, v},
         v = 0 \/ v = line[N + 1] \/ (v \notin told /\ \A i \in 1 .. N + 1 : line[i] # v),
         NEW next \in [1 .. N + 2 -> Nat], \A i \in 1 .. N : next[i] = line[i],
         next[N + 1] = u, next[N + 2] = v
  PROVE  Ordered(next, last, told)
<1>0. DOMAIN line = 1 .. N + 1 /\ DOMAIN next = 1 .. N + 2
  OBVIOUS
<1>1. ASSUME NEW i \in DOMAIN next, next[i] \in told
      PROVE  last = next[i] /\ Between(next, 0, i)
  <2>1. CASE i \in 1 .. N
    <3>1. i \in DOMAIN line /\ line[i] = next[i]
      BY <1>0, <2>1
    <3>2. last = line[i] /\ Between(line, 0, i)
      BY <1>1, <3>1 DEF Ordered
    <3>3. \A l \in DOMAIN next : (0 < l /\ l < i) => l \in 1 .. N /\ l \in DOMAIN line
      BY <1>0, <2>1
    <3> QED
      BY <3>1, <3>2, <3>3 DEF Between
  <2>2. CASE i \notin 1 .. N
    <3>1. (i = N + 1 \/ i = N + 2) /\ next[i] = v /\ v # 0 /\ v \in told
      BY <1>0, <1>1, <2>2
    <3>2. N + 1 \in DOMAIN line /\ line[N + 1] = v
      BY <1>0, <3>1
    <3>3. last = v /\ Between(line, 0, N + 1)
      BY <3>1, <3>2 DEF Ordered
    <3>4. \A l \in 1 .. N : next[l] \in {0, v}
      BY <1>0, <3>2, <3>3 DEF Between
    <3>5. \A l \in DOMAIN next : (0 < l /\ l < i) => next[l] \in {0, next[i]}
      BY <1>0, <3>1, <3>4
    <3> QED
      BY <3>1, <3>3, <3>5 DEF Between
  <2> QED
    BY <2>1, <2>2
<1>2. ASSUME NEW i \in DOMAIN next, NEW j \in DOMAIN next, i < j, next[i] = next[j], next[i] # 0
      PROVE  Between(next, i, j)
  <2>1. CASE j \in 1 .. N
    <3>1. i \in DOMAIN line /\ j \in DOMAIN line /\ line[i] = next[i] /\ line[j] = next[j]
      BY <1>0, <1>2, <2>1
    <3>2. Between(line, i, j)
      BY <1>2, <3>1 DEF Ordered
    <3>3. \A l \in DOMAIN next : (i < l /\ l < j) => l \in 1 .. N /\ l \in DOMAIN line
      BY <1>0, <1>2, <2>1
    <3> QED
      BY <3>1, <3>2, <3>3 DEF Between
  <2>2. CASE j \notin 1 .. N /\ i \in 1 .. N
    <3>0. j = N + 1 \/ j = N + 2
      BY <1>0, <2>2
    <3>1. (j = N + 1 \/ j = N + 2) /\ next[j] = v /\ v # 0
      BY <1>2, <3>0
    <3>2. i \in DOMAIN line /\ line[i] = v /\ line[N + 1] = v /\ N + 1 \in DOMAIN line /\ i < N + 1
      BY <1>0, <1>2, <2>2, <3>1
    <3>3. Between(line, i, N + 1)
      BY <3>1, <3>2 DEF Ordered
    <3>4. \A l \in 1 .. N : i < l => next[l] \in {0, v}
      BY <1>0, <3>2, <3>3 DEF Between
    <3>5. ASSUME NEW l \in DOMAIN next, i < l, l < j PROVE next[l] \in {0, next[j]}
      <4>1. l \in 1 .. N \/ l = N + 1
        BY <1>0, <3>0, <3>5
      <4>2. next[N + 1] \in {0, v}
        OBVIOUS
      <4> QED
        BY <3>1, <3>4, <3>5, <4>1, <4>2
    <3> QED
      BY <3>5 DEF Between
  <2>3. CASE j \notin 1 .. N /\ i \notin 1 .. N
    BY <1>0, <1>2, <2>3 DEF Between
  <2> QED
    BY <2>1, <2>2, <2>3
<1> QED
  BY <1>1, <1>2 DEF Ordered

(* and when the page reads the first of them. *)
LEMMA OrderedShifts ==
  ASSUME NEW N \in Nat, NEW line \in [1 .. N + 2 -> Nat], NEW last, NEW told,
         Ordered(line, last, told),
         NEW next \in [1 .. N + 1 -> Nat], \A i \in 1 .. N + 1 : next[i] = line[i + 1],
         NEW after, after = (IF line[1] \in {0, last} THEN last ELSE line[1]),
         NEW known, 0 \notin known,
         \A i \in 1 .. N + 1 : next[i] \in known => next[i] \in told \/ next[i] = line[1]
  PROVE  Ordered(next, after, known)
<1>0. DOMAIN line = 1 .. N + 2 /\ DOMAIN next = 1 .. N + 1
  OBVIOUS
<1>1. ASSUME NEW i \in DOMAIN next, NEW j \in {k \in Nat : k <= i}, Between(line, j + 1, i + 1)
      PROVE  Between(next, j, i)
  <2>1. \A l \in DOMAIN next : (j < l /\ l < i) =>
          l + 1 \in DOMAIN line /\ j + 1 < l + 1 /\ l + 1 < i + 1 /\ next[l] = line[l + 1]
    BY <1>0
  <2>2. next[i] = line[i + 1]
    BY <1>0
  <2> QED
    BY <1>1, <2>1, <2>2 DEF Between
<1>2. ASSUME NEW i \in DOMAIN next, next[i] \in known
      PROVE  after = next[i] /\ Between(next, 0, i)
  <2>0. i + 1 \in DOMAIN line /\ 1 \in DOMAIN line /\ 1 < i + 1 /\ next[i] = line[i + 1] /\ next[i] # 0
    BY <1>0, <1>2
  <2>1. CASE next[i] \in told
    <3>1. last = next[i] /\ Between(line, 0, i + 1)
      BY <2>0, <2>1 DEF Ordered
    <3>2. line[1] \in {0, last} /\ Between(line, 1, i + 1)
      BY <1>0, <2>0, <3>1 DEF Between
    <3>3. Between(next, 0, i)
      BY <1>0, <1>1, <3>2
    <3> QED
      BY <3>1, <3>2, <3>3
  <2>2. CASE next[i] \notin told
    <3>1. next[i] = line[1]
      BY <1>0, <1>2, <2>2
    <3>2. after = next[i]
      BY <2>0, <3>1
    <3>3. Between(line, 1, i + 1)
      BY <2>0, <3>1 DEF Ordered
    <3>4. Between(next, 0, i)
      BY <1>0, <1>1, <3>3
    <3> QED
      BY <3>2, <3>4
  <2> QED
    BY <2>1, <2>2
<1>3. ASSUME NEW i \in DOMAIN next, NEW j \in DOMAIN next, i < j, next[i] = next[j], next[i] # 0
      PROVE  Between(next, i, j)
  <2>1. /\ i + 1 \in DOMAIN line /\ j + 1 \in DOMAIN line /\ i + 1 < j + 1
        /\ line[i + 1] = line[j + 1] /\ line[i + 1] # 0
    BY <1>0, <1>3
  <2>2. Between(line, i + 1, j + 1)
    BY <2>1 DEF Ordered
  <2>3. i \in {k \in Nat : k <= j}
    BY <1>0, <1>3
  <2> QED
    BY <1>1, <2>2, <2>3
<1> QED
  BY <1>2, <1>3 DEF Ordered
-----------------------------------------------------------------------------
LEMMA ResIs ==
  ASSUME NEW p \in Messages, NEW n \in Names
  PROVE  Res(p, n) \in 0 .. MaxAsked
<1>1. p[n] # Absent => p[n] \in Summaries
  BY DEF Messages
<1>2. MaxAsked \in Nat
  BY DashboardAssumption
<1> QED
  BY <1>1, <1>2 DEF Res, Summaries

LEMMA LineIs ==
  ASSUME Typed, NEW n \in Names
  PROVE  /\ Len(stream) \in Nat /\ stream \in Seq(Messages)
         /\ Line(n) \in [1 .. Len(stream) + 1 -> Nat]
         /\ \A i \in 1 .. Len(stream) : Line(n)[i] = Res(stream[i], n)
         /\ Line(n)[Len(stream) + 1] = results[n] /\ results[n] \in Nat
<1>1. stream \in Seq(Messages) /\ Len(stream) \in Nat /\ results[n] \in Nat
  BY DEF Typed, TypeOK, ServerTypeOK
<1>2. \A i \in 1 .. Len(stream) : Res(stream[i], n) \in Nat
  BY <1>1, ResIs, DashboardAssumption
<1> QED
  BY <1>1, <1>2 DEF Line

LEMMA NextLineIs ==
  ASSUME Typed', NEW n \in Names
  PROVE  /\ Len(stream') \in Nat /\ stream' \in Seq(Messages)
         /\ Line(n)' \in [1 .. Len(stream') + 1 -> Nat]
         /\ \A i \in 1 .. Len(stream') : Line(n)'[i] = Res(stream'[i], n)
         /\ Line(n)'[Len(stream') + 1] = results'[n] /\ results'[n] \in Nat
<1>1. stream' \in Seq(Messages) /\ Len(stream') \in Nat /\ results'[n] \in Nat
  BY DEF Typed, TypeOK, ServerTypeOK
<1>2. \A i \in 1 .. Len(stream') : Res(stream'[i], n) \in Nat
  BY <1>1, ResIs, DashboardAssumption
<1> QED
  BY <1>1, <1>2 DEF Line, Res

(* A result is that of a challenge that was pending, and of one name. *)
Ends ==
  /\ \A n \in Names : \/ results'[n] \in {0, results[n]}
                      \/ Pending(results'[n]) /\ ~Pending(results[n])'
  /\ \A m, n \in Names : (results'[m] # 0 /\ results'[m] = results'[n] /\ Pending(results'[m])) => m = n
  /\ \A k \in Nat \ {0} : Pending(k)' => Pending(k)

(* What is said of the results that are on their way. *)
Goes ==
  \/ stream' = stream /\ (results' = results \/ stream = <<>>)
  \/ stream' = Append(stream, Payload(reg', images', challenges', results', config))

(* The line of a name after a message was sent. *)
LEMMA LineGrows ==
  ASSUME Typed, Typed', NEW n \in Names,
         stream' = Append(stream, Payload(reg', images', challenges', results', config))
  PROVE  /\ Len(stream') = Len(stream) + 1
         /\ \A i \in 1 .. Len(stream) : Line(n)'[i] = Line(n)[i]
         /\ Line(n)'[Len(stream) + 1] \in {0, results'[n]}
<1>1. PICK q : q = Payload(reg', images', challenges', results', config)
  OBVIOUS
<1>2. q \in Messages /\ Says(q, n, reg', images', challenges', results', config)
  BY <1>1, SentIs
<1>3. Res(q, n) \in {0, results'[n]}
  BY <1>2 DEF Says, Res
<1>4. /\ stream \in Seq(Messages) /\ stream' = Append(stream, q)
      /\ Len(stream') = Len(stream) + 1 /\ stream'[Len(stream) + 1] = q
      /\ \A i \in 1 .. Len(stream) : stream'[i] = stream[i]
  BY <1>1, <1>2 DEF Typed
<1> QED
  BY <1>3, <1>4, LineIs, NextLineIs

LEMMA ServerToldThen ==
  ASSUME Typed, Typed', UNCHANGED page, Ends, Goes, NEW n \in Names, NEW k \in Nat \ {0}, Told(n, k)'
  PROVE  Told(n, k) \/ (results'[n] = k /\ Pending(k) /\ ~Pending(k)')
<1>0. seen' = seen /\ answer' = answer
  BY DEF page
<1>1. results'[n] = k => Told(n, k) \/ (results'[n] = k /\ Pending(k) /\ ~Pending(k)')
  <2> SUFFICES ASSUME results'[n] = k
               PROVE  Told(n, k) \/ (Pending(k) /\ ~Pending(k)')
    OBVIOUS
  <2>1. CASE results[n] = k
    <3>1. Line(n)[Len(stream) + 1] = k /\ Len(stream) + 1 \in 1 .. Len(stream) + 1
      BY <2>1, LineIs
    <3> QED
      BY <3>1 DEF Told
  <2>2. CASE results[n] # k
    <3>1. Pending(results'[n]) /\ ~Pending(results[n])'
      BY <2>2 DEF Ends
    <3>2. Pending(k)
      BY <3>1
    <3>3. ~Pending(k)'
      BY <3>1 DEF Pending
    <3> QED
      BY <3>2, <3>3
  <2> QED
    BY <2>1, <2>2
<1>2. CASE seen'[n] = k
  BY <1>0, <1>2 DEF Told
<1>3. CASE answer' # NoAnswer /\ Res(answer'.payload, n) = k
  BY <1>0, <1>3 DEF Told
<1>4. CASE \E i \in 1 .. Len(stream') + 1 : Line(n)'[i] = k
  <2>1. PICK i \in 1 .. Len(stream') + 1 : Line(n)'[i] = k
    BY <1>4
  <2>2. CASE stream' = stream
    <3>1. CASE i \in 1 .. Len(stream)
      <4>1. Line(n)[i] = k /\ i \in 1 .. Len(stream) + 1
        BY <2>1, <2>2, <3>1, LineIs, NextLineIs
      <4> QED
        BY <4>1 DEF Told
    <3>2. CASE i \notin 1 .. Len(stream)
      <4>1. results'[n] = k
        BY <2>1, <2>2, <3>2, LineIs, NextLineIs
      <4> QED
        BY <1>1, <4>1
    <3> QED
      BY <3>1, <3>2
  <2>3. CASE stream' = Append(stream, Payload(reg', images', challenges', results', config))
    <3>1. CASE i \in 1 .. Len(stream)
      <4>1. Line(n)[i] = k /\ i \in 1 .. Len(stream) + 1
        BY <2>1, <2>3, <3>1, LineGrows, LineIs
      <4> QED
        BY <4>1 DEF Told
    <3>2. CASE i \notin 1 .. Len(stream)
      <4>1. i = Len(stream) + 1 \/ i = Len(stream') + 1
        BY <2>1, <2>3, <3>2, LineGrows, LineIs
      <4>2. results'[n] = k
        BY <2>1, <2>3, <4>1, LineGrows, NextLineIs
      <4> QED
        BY <1>1, <4>2
    <3> QED
      BY <3>1, <3>2
  <2> QED
    BY <2>2, <2>3 DEF Goes
<1> QED
  BY <1>2, <1>3, <1>4 DEF Told

LEMMA ServerTells ==
  ASSUME Typed, Typed', UNCHANGED page, Ends, Goes, Fresh, OfOne, ShownOnce
  PROVE  Fresh' /\ OfOne' /\ ShownOnce'
<1>0. seen' = seen /\ answer' = answer /\ toasted' = toasted /\ again' = again /\ apart' = apart
  BY DEF page
<1>1. Fresh'
  <2> SUFFICES ASSUME NEW k \in Nat \ {0}, Pending(k)'
               PROVE  k \notin toasted /\ \A n \in Names : ~Told(n, k)'
    BY <1>0 DEF Fresh
  <2>1. Pending(k)
    BY DEF Ends
  <2>2. k \notin toasted /\ \A n \in Names : ~Told(n, k)
    BY <2>1 DEF Fresh
  <2> QED
    BY <2>2, ServerToldThen
<1>2. OfOne'
  <2> SUFFICES ASSUME NEW m \in Names, NEW n \in Names, NEW k \in Nat \ {0}, Told(m, k)', Told(n, k)'
               PROVE  m = n
    BY DEF OfOne
  <2>1. CASE Pending(k)
    <3>1. ~Told(m, k) /\ ~Told(n, k)
      BY <2>1 DEF Fresh
    <3>2. results'[m] = k /\ results'[n] = k
      BY <3>1, ServerToldThen
    <3> QED
      BY <2>1, <3>2 DEF Ends
  <2>2. CASE ~Pending(k)
    <3>1. Told(m, k) /\ Told(n, k)
      BY <2>2, ServerToldThen
    <3> QED
      BY <3>1 DEF OfOne
  <2> QED
    BY <2>1, <2>2
<1>3. 0 \notin toasted
  BY DashboardAssumption DEF Typed, TypeOK
<1>4. ASSUME NEW n \in Names
      PROVE  /\ results'[n] \in Nat
             /\ \/ results'[n] = 0 \/ results'[n] = results[n]
                \/ /\ results'[n] \notin toasted
                   /\ \A i \in 1 .. Len(stream) + 1 : Line(n)[i] # results'[n]
  <2>1. results'[n] \in Nat
    BY NextLineIs
  <2>2. ASSUME Pending(results'[n]), results'[n] # 0
        PROVE  /\ results'[n] \notin toasted
               /\ \A i \in 1 .. Len(stream) + 1 : Line(n)[i] # results'[n]
    <3>1. PICK k \in Nat \ {0} : k = results'[n]
      BY <2>1, <2>2
    <3>2. Pending(k)
      BY <2>2, <3>1
    <3> QED
      BY <3>1, <3>2 DEF Fresh, Told
  <2> QED
    BY <2>1, <2>2 DEF Ends
<1>5. ASSUME NEW n \in Names, InLine(n) PROVE InLine(n)'
  <2>0. PICK N \in Nat : N = Len(stream)
    BY LineIs
  <2>1. PICK line \in [1 .. N + 1 -> Nat] : N = Len(stream) /\ line = Line(n)
    BY <2>0, LineIs
  <2>2. Ordered(line, seen[n], toasted) /\ line[N + 1] = results[n]
    BY <1>5, <2>1, LineIs DEF InLine
  <2>3. CASE stream' = stream /\ results' = results
    <3>1. Line(n)' = Line(n)
      BY <2>3 DEF Line, Res
    <3> QED
      BY <1>0, <1>5, <3>1 DEF InLine, Ordered, Between
  <2>4. CASE stream' = stream /\ stream = <<>>
    <3>1. PICK next : next = Line(n)'
      OBVIOUS
    <3>2. DOMAIN next = {1} /\ next[1] = results'[n]
      BY <2>4, <3>1, NextLineIs
    <3>3. N = 0
      BY <2>1, <2>4
    <3>4. results'[n] \in toasted => seen[n] = results'[n]
      BY <1>3, <1>4, <2>1, <2>2, <3>3 DEF Ordered
    <3>5. Ordered(next, seen[n], toasted)
      BY <3>2, <3>4 DEF Ordered, Between
    <3> QED
      BY <1>0, <3>1, <3>5 DEF InLine, Ordered, Between
  <2>5. CASE stream' = Append(stream, Payload(reg', images', challenges', results', config))
    <3>1. PICK v \in Nat : v = results'[n]
      BY <1>4
    <3>2. v = 0 \/ v = line[N + 1] \/ (v \notin toasted /\ \A i \in 1 .. N + 1 : line[i] # v)
      BY <1>4, <2>1, <2>2, <3>1
    <3>0. PICK last, told : last = seen[n] /\ told = toasted
      OBVIOUS
    <3>3. PICK next \in [1 .. N + 2 -> Nat] : next = Line(n)'
      BY <2>1, <2>5, LineGrows, NextLineIs
    <3>4. PICK u \in {0, v} : next[N + 1] = u
      BY <2>1, <2>5, <3>1, <3>3, LineGrows
    <3>5. (\A i \in 1 .. N : next[i] = line[i]) /\ next[N + 2] = v
      BY <2>1, <2>5, <3>1, <3>3, LineGrows, NextLineIs
    <3>6. Ordered(next, last, told)
      <4>1. Ordered(line, last, told) /\ 0 \notin told
        BY <1>3, <2>2, <3>0
      <4>2. v = 0 \/ v = line[N + 1] \/ (v \notin told /\ \A i \in 1 .. N + 1 : line[i] # v)
        BY <3>0, <3>2
      <4> QED
        BY ONLY <2>0, <3>1, <3>3, <3>4, <3>5, <4>1, <4>2, N \in Nat, v \in Nat, u \in {0, v},
          line \in [1 .. N + 1 -> Nat], next \in [1 .. N + 2 -> Nat], OrderedGrows
    <3> QED
      BY <1>0, <3>0, <3>3, <3>6 DEF InLine, Ordered, Between
  <2> QED
    BY <2>3, <2>4, <2>5 DEF Goes
<1>6. ASSUME NEW n \in Names, AnswerInLine(n) PROVE AnswerInLine(n)'
  BY <1>0, <1>3, <1>4, <1>6 DEF AnswerInLine, Res
<1> QED
  BY <1>0, <1>1, <1>2, <1>5, <1>6 DEF ShownOnce
-----------------------------------------------------------------------------
(* What every step of the server does. *)
Serves ==
  /\ online' = online /\ UNCHANGED page
  /\ IF online THEN Sends \/ KeepsAll ELSE stream' = stream
  /\ \A n \in Names : Registers(n)
  /\ Noted /\ Ends /\ Settles

LEMMA ServerKeeps ==
  ASSUME PageInv, Typed', ListenerFollows', Single', Serves
  PROVE  PageInv'
<1>0. /\ Typed /\ Following /\ Stored /\ Released /\ Fresh /\ OfOne /\ ShownOnce
      /\ online' = online /\ UNCHANGED page /\ Noted /\ Ends /\ Settles
      /\ \A n \in Names : Registers(n)
      /\ IF online THEN Sends \/ KeepsAll ELSE stream' = stream
  BY DEF PageInv, Serves
<1>1. Following'
  BY <1>0, ServerFollows
<1>2. Goes
  BY <1>0 DEF Goes, Sends, KeepsAll, Following
<1>3. Stored'
  <2>1. \/ stream' = stream
        \/ /\ \A n \in Names : reg'[n] # Absent => reg[n] # Absent
           /\ stream' = Append(stream, Payload(reg', images', challenges', results', config))
    BY <1>0 DEF Sends, KeepsAll
  <2> QED
    BY <1>0, <2>1, ServerStored
<1>4. Released'
  <2>1. \/ stream' = stream
        \/ stream' = Append(stream, Payload(reg', images', challenges', results', config))
    BY <1>2 DEF Goes
  <2> QED
    BY <1>0, <2>1, ServerReleases
<1>5. Fresh' /\ OfOne' /\ ShownOnce'
  BY <1>0, <1>2, ServerTells
<1> QED
  BY <1>1, <1>3, <1>4, <1>5 DEF PageInv

(* A prefix that is stored is one the page may not know. *)
LEMMA ServerNotes ==
  ASSUME ServerStep
  PROVE  Noted
BY DEF ServerStep, Noted
-----------------------------------------------------------------------------
(* What there is of each variable, beyond what the server's invariant says. *)
OwnTyped   == /\ managed \in BOOLEAN /\ on \subseteq Adapters /\ online \in BOOLEAN
              /\ config \in [Names -> {Absent} \cup Prefixes]
AskedTyped == /\ lastAsked \in 0 .. MaxAsked
              /\ asked \in [Adapters -> 0 .. lastAsked]
              /\ answered \in [Adapters -> SUBSET (1 .. lastAsked)]
              /\ challenges \in [Names -> 0 .. lastAsked] /\ results \in [Names -> 0 .. lastAsked]
PassTyped  == \A p \in Passes : passes[p].at # Absent => passes[p].busy
IdleTyped  == /\ \A t \in Slots : tasks[t].at = "none" => tasks[t] = Idle
              /\ stuck \subseteq Names
SentTyped  == stream \in Seq(Messages) /\ Len(stream) <= MaxStream
CardsTyped == /\ cards \in [Names -> Card \cup {Absent}]
              /\ configs \in [Names -> {Absent} \cup Prefixes] /\ prompts \in [Names -> 0 .. MaxAsked]
              /\ seen \in [Names -> 0 .. MaxAsked] /\ toasted \subseteq 1 .. MaxAsked
              /\ form \in {"none", "placed", "cut"}
              /\ answer \in {NoAnswer} \cup [payload : Messages, old : BOOLEAN]
              /\ empty \in BOOLEAN /\ behind \in BOOLEAN /\ apart \in BOOLEAN /\ again \in BOOLEAN

LEMMA TypedNow ==
  ASSUME Typed
  PROVE  OwnTyped /\ AskedTyped /\ PassTyped /\ IdleTyped /\ SentTyped /\ CardsTyped
<1>1. OwnTyped /\ PassTyped /\ IdleTyped
  BY DEF Typed, TypeOK, ServerTypeOK, OwnTyped, PassTyped, IdleTyped
<1>2. AskedTyped
  BY DEF Typed, TypeOK, ServerTypeOK, AskedTyped
<1>3. SentTyped /\ CardsTyped
  BY DEF Typed, TypeOK, ServerTypeOK, SentTyped, CardsTyped
<1> QED
  BY <1>1, <1>2, <1>3

LEMMA TypedNext ==
  ASSUME DashboardInv', OwnTyped', AskedTyped', PassTyped', IdleTyped', SentTyped', CardsTyped',
         lagging' \subseteq Names
  PROVE  Typed'
<1>1. \A n \in Names : reg'[n] # Absent => reg'[n] \in Entry
  BY DEF DashboardInv, RegShape
<1>2. images' \in [Names -> {Absent} \cup Qrs] /\ passes' \in [Passes -> Pass]
  BY DEF DashboardInv, ViewShape
<1>3. \A p \in Passes : passes'[p].busy <=> passes'[p].at # Absent
  BY DashboardAssumption DEF DashboardInv, ViewShape, PassTyped
<1>4. listening' \in [Names -> {Absent} \cup Adapters]
  BY DEF DashboardInv, PairShape
<1>5. tasks' \in [Slots -> Task] /\ \A t \in Slots : tasks'[t].at = "none" <=> tasks'[t] = Idle
  BY DEF DashboardInv, TaskShape, IdleTyped, Idle
<1>6. ServerTypeOK'
  BY <1>1, <1>2, <1>3, <1>4, <1>5 DEF ServerTypeOK, OwnTyped, AskedTyped, SentTyped
<1>7. TypeOK'
  BY <1>6 DEF TypeOK, CardsTyped, IdleTyped
<1> QED
  BY <1>7 DEF Typed, AskedTyped, SentTyped, CardsTyped

(* The page is left as it was by the server, and so is what it may not know. *)
LEMMA ServerTyped ==
  ASSUME Typed, ServerStep, DashboardInv', OwnTyped', AskedTyped', PassTyped', IdleTyped', SentTyped'
  PROVE  Typed'
<1>1. UNCHANGED page /\ lagging' \subseteq Names
  BY DEF ServerStep, Typed, TypeOK
<1>2. CardsTyped'
  BY <1>1, TypedNow DEF CardsTyped, page
<1> QED
  BY <1>1, <1>2, TypedNext

(* A message is one of the messages. *)
LEMMA BroadcastIs ==
  ASSUME Typed, DashboardInv', AskedTyped', Broadcast(config)
  PROVE  /\ SentTyped'
         /\ IF online THEN stream' = Append(stream, Payload(reg', images', challenges', results', config))
                           /\ stream' # stream
                      ELSE stream' = stream
<1>1. PICK q : q = Payload(reg', images', challenges', results', config)
  OBVIOUS
<1>2. /\ \A n \in Names : reg'[n] # Absent => reg'[n] \in Entry
      /\ images' \in [Names -> {Absent} \cup Qrs] /\ config \in [Names -> {Absent} \cup Prefixes]
  BY TypedNow DEF DashboardInv, RegShape, ViewShape, OwnTyped
<1>3. challenges' \in [Names -> 0..MaxAsked] /\ results' \in [Names -> 0..MaxAsked]
  BY DashboardAssumption DEF AskedTyped
<1>4. q \in Messages
  BY <1>1, <1>2, <1>3, PayloadIs
<1>5. SentTyped
  BY TypedNow
<1>6. CASE online
  <2>1. stream' = Append(stream, q) /\ Len(stream) < MaxStream
    BY <1>1, <1>6 DEF Broadcast
  <2>2. SentTyped' /\ Len(stream') = Len(stream) + 1 /\ Len(stream) \in Nat
    BY <1>4, <1>5, <2>1, DashboardAssumption DEF SentTyped
  <2>3. stream' # stream
    BY <2>2
  <2> QED
    BY <1>1, <1>6, <2>1, <2>2, <2>3
<1>7. CASE ~online
  BY <1>5, <1>7 DEF Broadcast, SentTyped
<1> QED
  BY <1>6, <1>7
-----------------------------------------------------------------------------
(* Requests: one that is answered marks its name stuck, *)
LEMMA AnswerSettles ==
  ASSUME Typed, TaskShape, NEW t \in Slots, tasks[t].at # "none", Answer(t, TRUE)
  PROVE  Settles /\ IdleTyped'
<1>0. tasks \in [Slots -> Task] /\ IdleTyped /\ tasks[t].name \in Names
  BY TypedNow DEF TaskShape
<1>1. tasks' = [tasks EXCEPT ![t] = Idle]
  BY DEF Answer, Put
<1>2. stuck' = IF tasks[t].page /\ tasks[t].job \notin {"passkey", "prefix"}
               THEN stuck \cup {tasks[t].name} ELSE stuck
  BY DEF Answer
<1>3. IdleTyped'
  BY <1>0, <1>1, <1>2 DEF IdleTyped
<1>4. Settles
  <2>1. ASSUME NEW u \in Slots, NEW n \in Names, Awaited(u, n)
        PROVE  \/ tasks'[u].page /\ tasks'[u].name = tasks[u].name /\ tasks'[u].job = tasks[u].job
               \/ n \in stuck'
    <3>1. CASE u = t
      BY <1>2, <2>1, <3>1 DEF Awaited
    <3>2. CASE u # t
      BY <1>0, <1>1, <2>1, <3>2 DEF Awaited
    <3> QED
      BY <3>1, <3>2
  <2> QED
    BY <1>2, <2>1 DEF Settles
<1> QED
  BY <1>3, <1>4

(* one that goes on is still that request, *)
LEMMA PutSettles ==
  ASSUME Typed, TaskShape, NEW t \in Slots, NEW task, Put(t, task), task.at # "none",
         task.page = tasks[t].page, task.name = tasks[t].name, task.job = tasks[t].job,
         stuck' = stuck
  PROVE  Settles /\ IdleTyped'
<1>0. tasks \in [Slots -> Task] /\ IdleTyped
  BY TypedNow DEF TaskShape
<1>1. tasks' = [tasks EXCEPT ![t] = task]
  BY DEF Put
<1>2. tasks'[t] = task /\ \A u \in Slots \ {t} : tasks'[u] = tasks[u]
  BY <1>0, <1>1
<1>3. IdleTyped'
  BY <1>0, <1>2 DEF IdleTyped
<1>4. Settles
  <2>1. ASSUME NEW u \in Slots, NEW n \in Names, Awaited(u, n)
        PROVE  tasks'[u].page /\ tasks'[u].name = tasks[u].name /\ tasks'[u].job = tasks[u].job
    BY <1>2, <2>1 DEF Awaited
  <2> QED
    BY <2>1 DEF Settles
<1> QED
  BY <1>3, <1>4

(* and one that is sent took the place of none. *)
LEMMA SentSettles ==
  ASSUME Typed, TaskShape, NEW t \in Slots, NEW job, NEW n, NEW prefix, NEW by,
         Sent(t, job, n, prefix, by)
  PROVE  /\ tasks[t] = Idle /\ ~tasks[t].page
         /\ tasks'[t].at = "sent" /\ tasks'[t].job = job /\ tasks'[t].name = n /\ tasks'[t].page = by
         /\ \A u \in Slots \ {t} : tasks'[u] = tasks[u]
         /\ stuck' = stuck => Settles
         /\ stuck' \subseteq Names => IdleTyped'
<1>0. tasks \in [Slots -> Task] /\ IdleTyped
  BY TypedNow DEF TaskShape
<1>1. tasks[t] = Idle /\ ~tasks[t].page
  BY DEF Sent, Idle
<1>2. tasks' = [tasks EXCEPT ![t] = [Idle EXCEPT !.job = job, !.at = "sent", !.name = n,
                                                 !.prefix = prefix, !.page = by]]
  BY DEF Sent, Put
<1>3. /\ tasks'[t].at = "sent" /\ tasks'[t].job = job /\ tasks'[t].name = n /\ tasks'[t].page = by
      /\ \A u \in Slots \ {t} : tasks'[u] = tasks[u]
  BY <1>0, <1>2 DEF Idle
<1>4. stuck' \subseteq Names => IdleTyped'
  BY <1>0, <1>3 DEF IdleTyped
<1>5. ASSUME NEW u \in Slots, NEW m \in Names, Awaited(u, m)
      PROVE  tasks'[u].page /\ tasks'[u].name = tasks[u].name /\ tasks'[u].job = tasks[u].job
  BY <1>1, <1>3, <1>5 DEF Awaited
<1>6. stuck' = stuck => Settles
  BY <1>5 DEF Settles
<1> QED
  BY <1>1, <1>3, <1>4, <1>6
-----------------------------------------------------------------------------
(* Pairing: the results there are, are past; *)
LEMMA KnownIsPast ==
  ASSUME Typed, Fresh, NEW n \in Names, results[n] # 0
  PROVE  ~Pending(results[n])
<1>1. PICK k \in Nat \ {0} : k = results[n]
  BY LineIs
<1>2. Line(n)[Len(stream) + 1] = k /\ Len(stream) + 1 \in 1 .. Len(stream) + 1
  BY <1>1, LineIs
<1>3. Told(n, k)
  BY <1>2 DEF Told
<1> QED
  BY <1>1, <1>3 DEF Fresh

(* and another is of a challenge that was pending, for the one name that is listened to. *)
LEMMA ResultEnds ==
  ASSUME Typed, Fresh, Prompting, RegShape, NEW a \in Adapters, NEW k \in Nat \ {0}, Pending(k), ~Pending(k)',
         results' = [n \in Names |-> IF n \in Listened(a) THEN k ELSE results[n]],
         \A j \in Nat \ {0} : Pending(j)' => Pending(j)
  PROVE  Ends
<1>1. ASSUME NEW n \in Names
      PROVE  /\ \/ results'[n] \in {0, results[n]}
                \/ Pending(results'[n]) /\ ~Pending(results[n])'
             /\ (results'[n] # 0 /\ Pending(results'[n])) => n \in Listened(a)
  <2>1. CASE n \in Listened(a)
    <3>1. results'[n] = k
      BY <2>1
    <3>2. Pending(results'[n]) /\ ~Pending(results[n])'
      BY <3>1 DEF Pending
    <3> QED
      BY <2>1, <3>2
  <2>2. CASE n \notin Listened(a)
    <3>1. results'[n] = results[n]
      BY <2>2
    <3>2. results[n] # 0 => ~Pending(results[n])
      BY KnownIsPast
    <3> QED
      BY <3>1, <3>2
  <2> QED
    BY <2>1, <2>2
<1>2. \A m, n \in Names : (m \in Listened(a) /\ n \in Listened(a)) => m = n
  BY DashboardAssumption DEF Listened, Prompting, Distinct, PromptsAgree, ListenerFollows
<1> QED
  BY <1>1, <1>2 DEF Ends

(* No pairing moves, and results are let go of at most. *)
LEMMA PairingStays ==
  ASSUME Typed, Fresh, Single, UNCHANGED pairing,
         results' \in [Names -> Nat], \A n \in Names : results'[n] \in {0, results[n]},
         challenges' \in [Names -> Nat], \A n \in Names : challenges'[n] \in {0, challenges[n]}
  PROVE  Ends /\ Single' /\ AskedTyped'
<1>1. asked' = asked /\ answered' = answered /\ lastAsked' = lastAsked
  BY DEF pairing
<1>2. AskedTyped /\ lastAsked \in Nat
  BY TypedNow, DashboardAssumption DEF AskedTyped
<1>3. AskedTyped'
  <2>1. ASSUME NEW n \in Names PROVE results'[n] \in 0 .. lastAsked /\ challenges'[n] \in 0 .. lastAsked
    BY <1>2 DEF AskedTyped
  <2> QED
    BY <1>1, <1>2, <2>1 DEF AskedTyped
<1>4. Single'
  BY <1>1 DEF Single
<1>5. Ends
  <2>1. \A k \in Nat \ {0} : Pending(k)' => Pending(k)
    BY <1>1 DEF Pending
  <2>2. ASSUME NEW n \in Names, results'[n] # 0 PROVE ~Pending(results'[n])
    <3>1. results'[n] = results[n]
      BY <2>2
    <3> QED
      BY <2>2, <3>1, KnownIsPast
  <2> QED
    BY <2>1, <2>2 DEF Ends
<1> QED
  BY <1>3, <1>4, <1>5

(* The challenge that waits is refused. *)
LEMMA RefusedEnds ==
  ASSUME Typed, Fresh, Single, Prompting, RegShape, NEW a \in Adapters, Refused(a),
         answered' = answered, lastAsked' = lastAsked
  PROVE  Ends /\ Single' /\ AskedTyped'
<1>0. AskedTyped /\ lastAsked \in Nat /\ asked \in [Adapters -> Nat] /\ asked[a] \in 0 .. lastAsked
  BY TypedNow, DashboardAssumption DEF AskedTyped
<1>1. asked'[a] = 0 /\ asked' \in [Adapters -> 0 .. lastAsked] /\ \A b \in Adapters \ {a} : asked'[b] = asked[b]
  BY <1>0 DEF Refused, AskedTyped
<1>2. Single'
  <2> SUFFICES ASSUME NEW b \in Adapters, NEW c \in Adapters
               PROVE  /\ (asked'[b] = asked'[c] /\ asked'[b] # 0) => b = c
                      /\ asked'[b] = 0 \/ asked'[b] \notin answered[c]
                      /\ b # c => answered[b] \cap answered[c] = {}
    BY DEF Single
  <2>1. asked'[b] = 0 \/ asked'[b] = asked[b]
    BY <1>1
  <2>2. asked'[c] = 0 \/ asked'[c] = asked[c]
    BY <1>1
  <2> QED
    BY <2>1, <2>2 DEF Single
<1>3. \A j \in Nat \ {0} : Pending(j)' => Pending(j)
  BY <1>0, <1>1 DEF Pending
<1>4. CASE asked[a] = 0
  <2>1. results' = results /\ challenges' = challenges /\ asked' = asked
    BY <1>0, <1>4 DEF Refused
  <2>2. UNCHANGED pairing
    BY <2>1 DEF pairing
  <2>3. results' \in [Names -> Nat] /\ challenges' \in [Names -> Nat]
    BY <1>0, <2>1 DEF AskedTyped
  <2> QED
    BY <2>1, <2>2, <2>3, PairingStays
<1>5. CASE asked[a] # 0
  <2>1. PICK k \in Nat \ {0} : k = asked[a]
    BY <1>0, <1>5
  <2>2. /\ results' = [n \in Names |-> IF n \in Listened(a) THEN k ELSE results[n]]
        /\ challenges' = [n \in Names |-> IF n \in Listened(a) THEN 0 ELSE challenges[n]]
    BY <1>5, <2>1 DEF Refused, OnResult
  <2>3. Pending(k)
    BY <2>1 DEF Pending
  <2>4. ~Pending(k)'
    <3>1. k <= lastAsked'
      BY <1>0, <2>1
    <3>2. \A b \in Adapters : asked'[b] # k /\ k \notin answered[b]
      BY <1>1, <2>1 DEF Single
    <3> QED
      BY <1>0, <3>1, <3>2 DEF Pending
  <2>5. Ends
    BY <1>3, <2>2, <2>3, <2>4, ResultEnds
  <2>6. AskedTyped'
    <3>1. k \in 0 .. lastAsked /\ 0 \in 0 .. lastAsked
      BY <1>0, <2>1
    <3>2. results' \in [Names -> 0 .. lastAsked] /\ challenges' \in [Names -> 0 .. lastAsked]
      BY <1>0, <2>2, <3>1 DEF AskedTyped
    <3> QED
      BY <1>0, <1>1, <3>2 DEF AskedTyped
  <2> QED
    BY <1>2, <2>5, <2>6
<1> QED
  BY <1>4, <1>5

(* Another challenge comes, and the one that waited is refused. *)
LEMMA AskEnds ==
  ASSUME Typed, Fresh, Single, Prompting, RegShape, NEW a \in Adapters, Ask(a)
  PROVE  Ends /\ Single' /\ AskedTyped'
<1>0. /\ AskedTyped /\ lastAsked \in Nat /\ asked \in [Adapters -> Nat] /\ asked[a] \in 0 .. lastAsked
      /\ answered \in [Adapters -> SUBSET (1 .. lastAsked)]
  BY TypedNow, DashboardAssumption DEF AskedTyped
<1>1. /\ lastAsked' = lastAsked + 1 /\ lastAsked < MaxAsked /\ answered' = answered
      /\ asked' = [asked EXCEPT ![a] = lastAsked + 1]
      /\ IF asked[a] = 0 THEN OnChallenge(a, lastAsked + 1) ELSE OnResult(a, asked[a])
  BY DEF Ask
<1>2. asked'[a] = lastAsked + 1 /\ \A b \in Adapters \ {a} : asked'[b] = asked[b]
  BY <1>0, <1>1
<1>3. ASSUME NEW b \in Adapters
      PROVE  asked[b] \in 0 .. lastAsked /\ \A j \in answered[b] : j \in 1 .. lastAsked
  BY <1>0 DEF AskedTyped
<1>4. Single'
  <2> SUFFICES ASSUME NEW b \in Adapters, NEW c \in Adapters
               PROVE  /\ (asked'[b] = asked'[c] /\ asked'[b] # 0) => b = c
                      /\ asked'[b] = 0 \/ asked'[b] \notin answered[c]
                      /\ b # c => answered[b] \cap answered[c] = {}
    BY <1>1 DEF Single
  <2>1. (asked'[b] = asked'[c] /\ asked'[b] # 0) => b = c
    BY <1>0, <1>2, <1>3 DEF Single
  <2>2. asked'[b] = 0 \/ asked'[b] \notin answered[c]
    BY <1>0, <1>2, <1>3 DEF Single
  <2>3. b # c => answered[b] \cap answered[c] = {}
    BY DEF Single
  <2> QED
    BY <2>1, <2>2, <2>3
<1>5. \A j \in Nat \ {0} : Pending(j)' => Pending(j)
  BY <1>0, <1>1, <1>2 DEF Pending
<1>6. CASE asked[a] = 0
  <2>1. /\ challenges' = [n \in Names |-> IF n \in Listened(a) THEN lastAsked + 1 ELSE challenges[n]]
        /\ results' = [n \in Names |-> IF n \in Listened(a) THEN 0 ELSE results[n]]
    BY <1>1, <1>6 DEF OnChallenge
  <2>2. Ends
    <3>1. \A n \in Names : results'[n] \in {0, results[n]}
      BY <2>1
    <3>2. ASSUME NEW n \in Names, results'[n] # 0 PROVE ~Pending(results'[n])
      <4>1. results'[n] = results[n]
        BY <3>1, <3>2
      <4> QED
        BY <3>2, <4>1, KnownIsPast
    <3> QED
      BY <1>5, <3>1, <3>2 DEF Ends
  <2>3. AskedTyped'
    <3>1. \A n \in Names : challenges[n] \in 0 .. lastAsked /\ results[n] \in 0 .. lastAsked
      BY <1>0 DEF AskedTyped
    <3>2. results' \in [Names -> 0 .. lastAsked + 1] /\ challenges' \in [Names -> 0 .. lastAsked + 1]
      BY <1>0, <2>1, <3>1
    <3>3. asked' \in [Adapters -> 0 .. lastAsked + 1]
      BY <1>0, <1>1, <1>3
    <3>4. answered \in [Adapters -> SUBSET (1 .. lastAsked + 1)]
      BY <1>0, <1>3
    <3>5. lastAsked + 1 \in 0 .. MaxAsked
      BY <1>0, <1>1, DashboardAssumption
    <3> QED
      BY <1>1, <3>2, <3>3, <3>4, <3>5 DEF AskedTyped
  <2> QED
    BY <1>4, <2>2, <2>3
<1>7. CASE asked[a] # 0
  <2>1. PICK k \in Nat \ {0} : k = asked[a]
    BY <1>0, <1>7
  <2>2. /\ results' = [n \in Names |-> IF n \in Listened(a) THEN k ELSE results[n]]
        /\ challenges' = [n \in Names |-> IF n \in Listened(a) THEN 0 ELSE challenges[n]]
    BY <1>1, <1>7, <2>1 DEF OnResult
  <2>3. Pending(k)
    BY <2>1 DEF Pending
  <2>4. ~Pending(k)'
    <3>1. k <= lastAsked
      BY <1>0, <2>1
    <3>2. \A b \in Adapters : asked'[b] # k /\ k \notin answered[b]
      BY <1>0, <1>2, <2>1, <3>1 DEF Single
    <3> QED
      BY <1>0, <1>1, <3>1, <3>2 DEF Pending
  <2>5. Ends
    BY <1>5, <2>2, <2>3, <2>4, ResultEnds
  <2>6. AskedTyped'
    <3>1. \A n \in Names : challenges[n] \in 0 .. lastAsked /\ results[n] \in 0 .. lastAsked
      BY <1>0 DEF AskedTyped
    <3>2. k \in 0 .. lastAsked
      BY <1>0, <2>1
    <3>3. results' \in [Names -> 0 .. lastAsked + 1] /\ challenges' \in [Names -> 0 .. lastAsked + 1]
      BY <1>0, <2>2, <3>1, <3>2
    <3>4. asked' \in [Adapters -> 0 .. lastAsked + 1]
      BY <1>0, <1>1, <1>3
    <3>5. answered \in [Adapters -> SUBSET (1 .. lastAsked + 1)]
      BY <1>0, <1>3
    <3>6. lastAsked + 1 \in 0 .. MaxAsked
      BY <1>0, <1>1, DashboardAssumption
    <3> QED
      BY <1>1, <3>3, <3>4, <3>5, <3>6 DEF AskedTyped
  <2> QED
    BY <1>4, <2>5, <2>6
<1> QED
  BY <1>6, <1>7

(* A challenge that was answered has ended. *)
LEMMA ToldEnds ==
  ASSUME Typed, Fresh, Single, Prompting, RegShape, NEW a \in Adapters, NEW k \in 1 .. MaxAsked,
         ResultTold(a, k)
  PROVE  Ends /\ Single' /\ AskedTyped'
<1>0. /\ AskedTyped /\ lastAsked \in Nat /\ k \in Nat \ {0}
      /\ answered \in [Adapters -> SUBSET (1 .. lastAsked)]
  BY TypedNow, DashboardAssumption DEF AskedTyped
<1>1. /\ k \in answered[a] /\ answered' = [answered EXCEPT ![a] = @ \ {k}]
      /\ asked' = asked /\ lastAsked' = lastAsked
      /\ results' = [n \in Names |-> IF n \in Listened(a) THEN k ELSE results[n]]
      /\ challenges' = [n \in Names |-> IF n \in Listened(a) THEN 0 ELSE challenges[n]]
  BY DEF ResultTold, OnResult
<1>2. /\ answered'[a] = answered[a] \ {k} /\ \A b \in Adapters \ {a} : answered'[b] = answered[b]
      /\ \A b \in Adapters : answered'[b] \subseteq answered[b]
  BY <1>0, <1>1
<1>3. Single'
  BY <1>1, <1>2 DEF Single
<1>4. \A j \in Nat \ {0} : Pending(j)' => Pending(j)
  BY <1>1, <1>2 DEF Pending
<1>5. k \in 1 .. lastAsked
  BY <1>0, <1>1
<1>6. Pending(k) /\ ~Pending(k)'
  <2>1. \A b \in Adapters : asked[b] # k /\ k \notin answered'[b]
    BY <1>0, <1>1, <1>2 DEF Single
  <2>2. ~Pending(k)'
    BY <1>0, <1>1, <1>5, <2>1 DEF Pending
  <2> QED
    BY <1>1, <2>2 DEF Pending
<1>7. Ends
  BY <1>0, <1>1, <1>4, <1>6, ResultEnds
<1>8. AskedTyped'
  <2>1. results' \in [Names -> 0 .. lastAsked] /\ challenges' \in [Names -> 0 .. lastAsked]
    BY <1>0, <1>1, <1>5 DEF AskedTyped
  <2>2. answered' \in [Adapters -> SUBSET (1 .. lastAsked)]
    BY <1>0, <1>1
  <2> QED
    BY <1>0, <1>1, <2>1, <2>2 DEF AskedTyped
<1> QED
  BY <1>3, <1>7, <1>8

(* A challenge that is answered has yet to end. *)
LEMMA AnsweredEnds ==
  ASSUME Typed, Fresh, Single, NEW a \in Adapters, asked[a] # 0, NEW n \in Names,
         asked' = [asked EXCEPT ![a] = 0], answered' = [answered EXCEPT ![a] = @ \cup {asked[a]}],
         lastAsked' = lastAsked, results' = results, challenges' = [challenges EXCEPT ![n] = 0]
  PROVE  Ends /\ Single' /\ AskedTyped'
<1>0. /\ AskedTyped /\ lastAsked \in Nat /\ asked \in [Adapters -> 0 .. lastAsked]
      /\ answered \in [Adapters -> SUBSET (1 .. lastAsked)]
      /\ asked[a] \in 1 .. lastAsked
  BY TypedNow, DashboardAssumption DEF AskedTyped
<1>1. /\ asked'[a] = 0 /\ answered'[a] = answered[a] \cup {asked[a]}
      /\ \A b \in Adapters \ {a} : asked'[b] = asked[b] /\ answered'[b] = answered[b]
  BY <1>0
<1>2. Single'
  <2> SUFFICES ASSUME NEW b \in Adapters, NEW c \in Adapters
               PROVE  /\ (asked'[b] = asked'[c] /\ asked'[b] # 0) => b = c
                      /\ asked'[b] = 0 \/ asked'[b] \notin answered'[c]
                      /\ b # c => answered'[b] \cap answered'[c] = {}
    BY DEF Single
  <2>1. (asked'[b] = asked'[c] /\ asked'[b] # 0) => b = c
    BY <1>1 DEF Single
  <2>2. asked'[b] = 0 \/ asked'[b] \notin answered'[c]
    BY <1>1 DEF Single
  <2>3. b # c => answered'[b] \cap answered'[c] = {}
    BY <1>0, <1>1 DEF Single
  <2> QED
    BY <2>1, <2>2, <2>3
<1>3. \A j \in Nat \ {0} : Pending(j)' => Pending(j)
  BY <1>1 DEF Pending
<1>4. Ends
  BY <1>3, KnownIsPast DEF Ends
<1>5. AskedTyped'
  <2>1. asked' \in [Adapters -> 0 .. lastAsked] /\ answered' \in [Adapters -> SUBSET (1 .. lastAsked)]
    BY <1>0
  <2>2. challenges' \in [Names -> 0 .. lastAsked]
    BY <1>0 DEF AskedTyped
  <2> QED
    BY <1>0, <2>1, <2>2 DEF AskedTyped
<1> QED
  BY <1>2, <1>4, <1>5
-----------------------------------------------------------------------------
(* Every step of the server, in these terms. *)
LEMMA ServerSteps ==
  ASSUME PageInv, DashboardInv', ServerStep,
         OwnTyped', AskedTyped', PassTyped', IdleTyped', SentTyped', Single',
         online' = online, IF online THEN Sends \/ KeepsAll ELSE stream' = stream,
         \A n \in Names : Registers(n), Ends, Settles
  PROVE  PageInv'
<1>1. Typed /\ UNCHANGED page
  BY DEF PageInv, ServerStep
<1>2. Typed'
  BY <1>1, ServerTyped
<1>3. ListenerFollows'
  BY DEF DashboardInv, Prompting, PromptsAgree
<1>4. Noted
  BY ServerNotes
<1>5. Serves
  BY <1>1, <1>4 DEF Serves
<1> QED
  BY <1>2, <1>3, <1>5, ServerKeeps

Silent == <<managed, reg, config, pairing, views, online, stream, crossed>>

(* A request moves, and nothing that the page is told of. *)
LEMMA RequestServes ==
  ASSUME PageInv, DashboardInv', ServerStep, UNCHANGED Silent, on' \subseteq Adapters,
         Settles, IdleTyped'
  PROVE  PageInv'
<1>0. Typed /\ Fresh /\ Single
  BY DEF PageInv
<1>1. /\ managed' = managed /\ reg' = reg /\ config' = config /\ online' = online
      /\ stream' = stream /\ crossed' = crossed /\ images' = images /\ passes' = passes
      /\ listening' = listening /\ challenges' = challenges /\ results' = results
      /\ UNCHANGED pairing
  BY DEF Silent, views
<1>2. OwnTyped' /\ PassTyped' /\ SentTyped'
  BY <1>0, <1>1, TypedNow DEF OwnTyped, PassTyped, SentTyped
<1>3. Ends /\ Single' /\ AskedTyped'
  <2>1. results' \in [Names -> Nat] /\ challenges' \in [Names -> Nat]
    BY <1>0, <1>1, TypedNow, DashboardAssumption DEF AskedTyped
  <2> QED
    BY <1>0, <1>1, <2>1, PairingStays
<1>4. KeepsAll
  BY <1>1 DEF KeepsAll, Keeps, Pushing
<1>5. \A n \in Names : Registers(n)
  <2> SUFFICES ASSUME NEW n \in Names PROVE Registers(n)
    OBVIOUS
  <2> QED
    BY <1>1 DEF Registers
<1> QED
  BY <1>1, <1>2, <1>3, <1>4, <1>5, ServerSteps

(* A pass goes on to another name, or ends. *)
LEMMA PassMovesTyped ==
  ASSUME Typed, ViewShape, NEW p \in Passes, NEW pass \in Pass, pass.busy, NEW shown, NEW since,
         PassGoesOn(p, pass, shown, since) \/ PassEnds(p, pass, shown, since)
  PROVE  PassTyped'
<1>1. PassTyped /\ passes \in [Passes -> Pass]
  BY TypedNow DEF ViewShape
<1>2. CASE PassGoesOn(p, pass, shown, since)
  <2>1. PICK n, looked :
          passes' = [passes EXCEPT ![p] = [pass EXCEPT !.at = n, !.todo = @ \ (looked \cup {n})]]
    BY <1>2 DEF PassGoesOn
  <2>2. passes'[p].busy /\ \A q \in Passes \ {p} : passes'[q] = passes[q]
    BY <1>1, <2>1 DEF Pass
  <2> QED
    BY <1>1, <2>2 DEF PassTyped
<1>3. CASE PassEnds(p, pass, shown, since)
  <2>1. passes' = [passes EXCEPT ![p] = NoPass] /\ NoPass.at = Absent
    BY <1>3 DEF PassEnds, NoPass
  <2> QED
    BY <1>1, <2>1 DEF PassTyped
<1> QED
  BY <1>2, <1>3

LEMMA PassBeginsTyped ==
  ASSUME Typed, ViewShape, NEW entries \in [Names -> Entry \cup {Absent}], PassBegins(entries)
  PROVE  PassTyped'
<1>1. PICK wanted : wanted = Summary(entries)
  OBVIOUS
<1>2. \A n \in Names : /\ Qr(entries[n]) \in Qrs \cup {Absent}
                       /\ wanted[n] = IF entries[n] = Absent THEN "gone" ELSE Qr(entries[n])
  BY <1>1 DEF Summary, Qr
<1>3. wanted \in [Names -> {Absent, "gone"} \cup Qrs]
  <2>1. wanted = [n \in Names |-> IF entries[n] = Absent THEN "gone" ELSE Qr(entries[n])]
    BY <1>1 DEF Summary
  <2> QED
    BY <1>2, <2>1
<1>4. PICK pass : pass = [NoPass EXCEPT !.busy = TRUE, !.wanted = wanted,
                                        !.todo = {n \in Names : wanted[n] # "gone"}]
  OBVIOUS
<1>5. pass \in Pass /\ pass.busy
  BY <1>3, <1>4 DEF NoPass, Pass
<1>6. PICK p \in Passes :
        PassGoesOn(p, pass, images, crossed) \/ PassEnds(p, pass, images, crossed)
  BY <1>1, <1>4 DEF PassBegins
<1> QED
  BY <1>5, <1>6, PassMovesTyped

(* notify(): what the registry loses is told with all the rest. *)
LEMMA NotifyServes ==
  ASSUME PageInv, DashboardInv, DashboardInv', ServerStep,
         NEW entries \in [Names -> Entry \cup {Absent}], Notify(entries, config),
         \A n \in Names : entries[n] # Absent => reg[n] # Absent,
         UNCHANGED <<managed, pairing, online>>, on' \subseteq Adapters,
         config' \in [Names -> {Absent} \cup Prefixes], \A n \in Names : Registers(n),
         (online => stream' # stream) => Settles, IdleTyped'
  PROVE  PageInv'
<1>0. Typed /\ Fresh /\ Single /\ ViewShape
  BY DEF PageInv, DashboardInv
<1>1. /\ reg' = entries /\ SyncPasskeyListeners(entries) /\ PassBegins(entries) /\ Broadcast(config)
      /\ managed' = managed /\ UNCHANGED pairing /\ online' = online
  BY DEF Notify
<1>2. PassTyped'
  BY <1>0, <1>1, PassBeginsTyped
<1>3. Ends /\ Single' /\ AskedTyped'
  <2>1. PICK off : /\ challenges' = [n \in Names |-> IF n \in off THEN 0 ELSE challenges[n]]
                   /\ results' = [n \in Names |-> IF n \in off THEN 0 ELSE results[n]]
    BY <1>1 DEF SyncPasskeyListeners
  <2>2. results \in [Names -> Nat] /\ challenges \in [Names -> Nat]
    BY <1>0, TypedNow, DashboardAssumption DEF AskedTyped
  <2>3. /\ results' \in [Names -> Nat] /\ challenges' \in [Names -> Nat]
        /\ \A n \in Names : results'[n] \in {0, results[n]}
        /\ \A n \in Names : challenges'[n] \in {0, challenges[n]}
    BY <2>1, <2>2
  <2> QED
    BY <1>0, <1>1, <2>3, PairingStays
<1>4. /\ SentTyped'
      /\ IF online THEN stream' = Append(stream, Payload(reg', images', challenges', results', config))
                        /\ stream' # stream
                   ELSE stream' = stream
  BY <1>0, <1>1, <1>3, BroadcastIs
<1>5. IF online THEN Sends \/ KeepsAll ELSE stream' = stream
  BY <1>1, <1>4 DEF Sends
<1>6. OwnTyped'
  BY <1>0, <1>1, TypedNow DEF OwnTyped
<1>7. Settles
  BY <1>4
<1> QED
  BY <1>1, <1>2, <1>3, <1>4, <1>5, <1>6, <1>7, ServerSteps

(* A rendering that is done is told when its pass ends; one that failed lets go of its image. *)
LEMMA PassServes ==
  ASSUME PageInv, DashboardInv, DashboardInv', ServerStep, NEW p \in Passes, Rendered(p) \/ RenderFails(p)
  PROVE  PageInv'
<1>0. Typed /\ Fresh /\ Single /\ ViewShape /\ passes[p] \in Pass /\ TaskShape
  BY DEF PageInv, DashboardInv, ViewShape
<1>1. /\ managed' = managed /\ reg' = reg /\ on' = on /\ config' = config /\ UNCHANGED pairing
      /\ listening' = listening /\ challenges' = challenges /\ results' = results
      /\ tasks' = tasks /\ online' = online /\ stuck' = stuck /\ passes[p].busy
  BY DEF Rendered, RenderFails, PassUnchanged, clients
<1>2. OwnTyped' /\ IdleTyped'
  BY <1>0, <1>1, TypedNow DEF OwnTyped, IdleTyped
<1>3. Ends /\ Single' /\ AskedTyped'
  <2>1. results' \in [Names -> Nat] /\ challenges' \in [Names -> Nat]
    BY <1>0, <1>1, TypedNow, DashboardAssumption DEF AskedTyped
  <2> QED
    BY <1>0, <1>1, <2>1, PairingStays
<1>4. Settles
  BY <1>1 DEF Settles, Awaited
<1>5. \A n \in Names : Registers(n)
  <2> SUFFICES ASSUME NEW n \in Names PROVE Registers(n)
    OBVIOUS
  <2> QED
    BY <1>1 DEF Registers
<1>6. ASSUME Broadcast(config)
      PROVE  SentTyped' /\ IF online THEN Sends \/ KeepsAll ELSE stream' = stream
  <2>1. /\ SentTyped'
        /\ IF online THEN stream' = Append(stream, Payload(reg', images', challenges', results', config))
                          /\ stream' # stream
                     ELSE stream' = stream
    BY <1>0, <1>3, <1>6, BroadcastIs
  <2> QED
    BY <1>1, <2>1 DEF Sends
<1>7. ASSUME stream' = stream PROVE SentTyped'
  BY <1>0, <1>7, TypedNow DEF SentTyped
<1>8. CASE Rendered(p)
  <2>1. PICK pass : pass = [passes[p] EXCEPT !.at = Absent, !.rendered = TRUE]
    OBVIOUS
  <2>2. pass \in Pass /\ pass.busy /\ pass.rendered
    BY <1>0, <1>1, <2>1 DEF Pass
  <2>3. PICK shown, since :
          \/ PassGoesOn(p, pass, shown, since) /\ stream' = stream
          \/ PassEnds(p, pass, shown, since) /\ Broadcast(config)
    BY <1>8, <2>1 DEF Rendered
  <2>4. PassTyped'
    BY <1>0, <2>2, <2>3, PassMovesTyped
  <2>5. CASE PassGoesOn(p, pass, shown, since) /\ stream' = stream
    <3>1. PICK n, todo : passes' = [passes EXCEPT ![p] = [pass EXCEPT !.at = n, !.todo = todo]]
      BY <2>5 DEF PassGoesOn
    <3>2. passes'[p].busy /\ passes'[p].rendered
      BY <1>0, <2>2, <3>1 DEF Pass, ViewShape
    <3>3. Pushing'
      BY <3>2 DEF Pushing
    <3>4. KeepsAll
      BY <1>1, <2>5, <3>3 DEF KeepsAll, Keeps
    <3> QED
      BY <1>1, <1>2, <1>3, <1>4, <1>5, <1>7, <2>4, <2>5, <3>4, ServerSteps
  <2>6. CASE PassEnds(p, pass, shown, since) /\ Broadcast(config)
    BY <1>1, <1>2, <1>3, <1>4, <1>5, <1>6, <2>4, <2>6, ServerSteps
  <2> QED
    BY <2>3, <2>5, <2>6
<1>9. CASE RenderFails(p)
  <2>1. PICK pass : pass = [passes[p] EXCEPT !.at = Absent]
    OBVIOUS
  <2>2. pass \in Pass /\ pass.busy /\ pass.rendered = passes[p].rendered
    BY <1>0, <1>1, <2>1 DEF Pass
  <2>3. PICK since :
          /\ since = crossed \cup {passes[p].at}
          /\ \/ PassGoesOn(p, pass, images, since) /\ stream' = stream
             \/ /\ PassEnds(p, pass, images, since)
                /\ IF pass.rendered THEN Broadcast(config) ELSE stream' = stream
    BY <1>9, <2>1 DEF RenderFails
  <2>4. PassTyped'
    BY <1>0, <2>2, <2>3, PassMovesTyped
  <2>5. CASE stream' = stream /\ (pass.rendered => PassGoesOn(p, pass, images, since))
    <3>1. PICK looked : Looks(pass, images, looked, since)
      BY <2>3 DEF PassGoesOn, PassEnds
    <3>2. PICK let : /\ images' = [n \in Names |-> IF n \in let THEN Absent ELSE images[n]]
                     /\ crossed' = since \cup {n \in let : Qr(reg'[n]) # Absent}
      BY <3>1 DEF Looks
    <3>3. ASSUME Pushing PROVE Pushing'
      <4>1. PICK q \in Passes : passes[q].busy /\ passes[q].rendered
        BY <3>3 DEF Pushing
      <4>2. CASE q = p
        <5>1. PassGoesOn(p, pass, images, since)
          BY <2>2, <2>5, <4>1, <4>2
        <5>2. PICK n, todo : passes' = [passes EXCEPT ![p] = [pass EXCEPT !.at = n, !.todo = todo]]
          BY <5>1 DEF PassGoesOn
        <5>3. passes'[p].busy /\ passes'[p].rendered
          BY <1>0, <2>2, <4>1, <4>2, <5>2 DEF Pass, ViewShape
        <5> QED
          BY <5>3 DEF Pushing
      <4>3. CASE q # p
        <5>1. PICK next : passes' = [passes EXCEPT ![p] = next]
          BY <2>3 DEF PassGoesOn, PassEnds
        <5>2. passes'[q] = passes[q]
          BY <1>0, <4>3, <5>1 DEF ViewShape
        <5> QED
          BY <4>1, <5>2 DEF Pushing
      <4> QED
        BY <4>2, <4>3
    <3>4. ASSUME NEW n \in Names PROVE Keeps(n)
      <4>1. images'[n] = images[n] \/ Qr(reg'[n]) = Absent \/ n \in crossed'
        <5>1. images \in [Names -> Qrs \cup {Absent}]
          BY <1>0 DEF ViewShape
        <5>2. images'[n] = IF n \in let THEN Absent ELSE images[n]
          BY <3>2
        <5> QED
          BY <3>2, <5>2
      <4>2. n \in crossed => n \in crossed'
        BY <2>3, <3>2
      <4> QED
        BY <1>1, <4>1, <4>2 DEF Keeps
    <3>5. KeepsAll
      BY <1>1, <2>5, <3>3, <3>4 DEF KeepsAll
    <3> QED
      BY <1>1, <1>2, <1>3, <1>4, <1>5, <1>7, <2>4, <2>5, <3>5, ServerSteps
  <2>6. CASE Broadcast(config)
    BY <1>1, <1>2, <1>3, <1>4, <1>5, <1>6, <2>4, <2>6, ServerSteps
  <2> QED
    BY <2>3, <2>5, <2>6
<1> QED
  BY <1>8, <1>9

(* A pairing moves, and the page is told if there is anything to tell. *)
LEMMA PairingServes ==
  ASSUME PageInv, DashboardInv, DashboardInv', ServerStep,
         UNCHANGED <<managed, reg, config, images, passes, listening, online, crossed>>,
         on' \subseteq Adapters, Ends, Single', AskedTyped', Settles, IdleTyped',
         \/ Broadcast(config)
         \/ stream' = stream /\ challenges' = challenges /\ results' = results
  PROVE  PageInv'
<1>0. Typed
  BY DEF PageInv
<1>1. OwnTyped' /\ PassTyped'
  BY <1>0, TypedNow DEF OwnTyped, PassTyped
<1>2. \A n \in Names : Registers(n)
  <2> SUFFICES ASSUME NEW n \in Names PROVE Registers(n)
    OBVIOUS
  <2> QED
    BY DEF Registers
<1>3. CASE Broadcast(config)
  <2>1. /\ SentTyped'
        /\ IF online THEN stream' = Append(stream, Payload(reg', images', challenges', results', config))
                          /\ stream' # stream
                     ELSE stream' = stream
    BY <1>0, <1>3, BroadcastIs
  <2>2. IF online THEN Sends \/ KeepsAll ELSE stream' = stream
    BY <2>1 DEF Sends
  <2> QED
    BY <1>1, <1>2, <2>1, <2>2, ServerSteps
<1>4. CASE stream' = stream /\ challenges' = challenges /\ results' = results
  <2>1. SentTyped'
    BY <1>0, <1>4, TypedNow DEF SentTyped
  <2>2. KeepsAll
    BY <1>4 DEF KeepsAll, Keeps, Pushing
  <2> QED
    BY <1>1, <1>2, <1>4, <2>1, <2>2, ServerSteps
<1> QED
  BY <1>3, <1>4

(* A step that leaves the requests alone. *)
LEMMA NoneSettles ==
  ASSUME Typed, tasks' = tasks, stuck' = stuck
  PROVE  Settles /\ IdleTyped'
<1>1. IdleTyped'
  BY TypedNow DEF IdleTyped
<1> QED
  BY <1>1 DEF Settles, Awaited

LEMMA WhatsAppServes ==
  ASSUME PageInv, DashboardInv, DashboardInv', ServerStep, NEW a \in Adapters,
         Ask(a) \/ GivesUp(a) \/ \E k \in 1 .. MaxAsked : ResultTold(a, k)
  PROVE  PageInv'
<1>0. Typed /\ Fresh /\ Single /\ Prompting /\ RegShape
  BY DEF PageInv, DashboardInv
<1>1. /\ UNCHANGED <<managed, reg, on, config, images, passes, listening, online, crossed>>
      /\ tasks' = tasks /\ stuck' = stuck /\ Broadcast(config)
  BY DEF Ask, GivesUp, ResultTold, clients
<1>2. Settles /\ IdleTyped'
  BY <1>0, <1>1, NoneSettles
<1>3. Ends /\ Single' /\ AskedTyped'
  <2>1. CASE Ask(a)
    BY <1>0, <2>1, AskEnds
  <2>2. CASE GivesUp(a)
    <3>1. Refused(a) /\ answered' = answered /\ lastAsked' = lastAsked
      BY <2>2 DEF GivesUp
    <3> QED
      BY <1>0, <3>1, RefusedEnds
  <2>3. CASE \E k \in 1 .. MaxAsked : ResultTold(a, k)
    BY <1>0, <2>3, ToldEnds
  <2> QED
    BY <2>1, <2>2, <2>3
<1>4. on' \subseteq Adapters
  BY <1>0, <1>1, TypedNow DEF OwnTyped
<1> QED
  BY <1>1, <1>2, <1>3, <1>4, PairingServes

LEMMA AnswerPasskeyServes ==
  ASSUME PageInv, DashboardInv, DashboardInv', ServerStep, NEW t \in Slots, AnswerPasskey(t)
  PROVE  PageInv'
<1>0. Typed /\ Fresh /\ Single /\ Prompting /\ RegShape /\ TaskShape
  BY DEF PageInv, DashboardInv
<1>1. PICK n \in Names : n = tasks[t].name
  BY <1>0 DEF AnswerPasskey, Arrived, TaskShape
<1>2. reg[n] # Absent
  BY <1>1 DEF AnswerPasskey, Arrived, Rejected
<1>3. PICK a \in Adapters : a = reg[n].adapter
  BY <1>0, <1>2 DEF RegShape, Entry
<1>4. /\ UNCHANGED <<managed, reg, on, config, images, passes, listening, online, crossed>>
      /\ tasks[t].at # "none" /\ Answer(t, TRUE) /\ lastAsked' = lastAsked /\ results' = results
      /\ IF asked[a] = 0
         THEN UNCHANGED <<asked, answered, challenges, mislaid, stream>>
         ELSE /\ asked' = [asked EXCEPT ![a] = 0]
              /\ answered' = [answered EXCEPT ![a] = @ \cup {asked[a]}]
              /\ challenges' = [challenges EXCEPT ![n] = 0]
              /\ Broadcast(config)
  BY <1>1, <1>3 DEF AnswerPasskey, Arrived, clients
<1>5. Settles /\ IdleTyped'
  BY <1>0, <1>4, AnswerSettles
<1>6. on' \subseteq Adapters
  BY <1>0, <1>4, TypedNow DEF OwnTyped
<1>7. Ends /\ Single' /\ AskedTyped'
  <2>1. CASE asked[a] = 0
    <3>1. UNCHANGED pairing /\ challenges' = challenges /\ results' = results
      BY <1>4, <2>1 DEF pairing
    <3>2. results' \in [Names -> Nat] /\ challenges' \in [Names -> Nat]
      BY <1>0, <3>1, TypedNow, DashboardAssumption DEF AskedTyped
    <3> QED
      BY <1>0, <3>1, <3>2, PairingStays
  <2>2. CASE asked[a] # 0
    BY <1>0, <1>4, <2>2, AnsweredEnds
  <2> QED
    BY <2>1, <2>2
<1>8. \/ Broadcast(config)
      \/ stream' = stream /\ challenges' = challenges /\ results' = results
  BY <1>4
<1> QED
  BY <1>4, <1>5, <1>6, <1>7, <1>8, PairingServes

LEMMA CancelPasskeyServes ==
  ASSUME PageInv, DashboardInv, DashboardInv', ServerStep, NEW t \in Slots, CancelPasskey(t)
  PROVE  PageInv'
<1>0. Typed /\ Fresh /\ Single /\ Prompting /\ RegShape /\ TaskShape
  BY DEF PageInv, DashboardInv
<1>1. PICK n \in Names : n = tasks[t].name
  BY <1>0 DEF CancelPasskey, Arrived, TaskShape
<1>2. reg[n] # Absent
  BY <1>1 DEF CancelPasskey, Arrived, Rejected
<1>3. PICK a \in Adapters : a = reg[n].adapter
  BY <1>0, <1>2 DEF RegShape, Entry
<1>4. /\ UNCHANGED <<managed, reg, on, config, images, passes, listening, online, crossed>>
      /\ tasks[t].at # "none" /\ Answer(t, TRUE) /\ lastAsked' = lastAsked /\ answered' = answered
      /\ IF asked[a] # 0 THEN Refused(a)
         ELSE challenges' = [challenges EXCEPT ![n] = 0] /\ asked' = asked /\ results' = results
      /\ Broadcast(config)
  BY <1>1, <1>3 DEF CancelPasskey, Arrived, clients
<1>5. Settles /\ IdleTyped'
  BY <1>0, <1>4, AnswerSettles
<1>6. on' \subseteq Adapters
  BY <1>0, <1>4, TypedNow DEF OwnTyped
<1>7. Ends /\ Single' /\ AskedTyped'
  <2>1. CASE asked[a] # 0
    BY <1>0, <1>4, <2>1, RefusedEnds
  <2>2. CASE asked[a] = 0
    <3>1. UNCHANGED pairing /\ challenges' = [challenges EXCEPT ![n] = 0] /\ results' = results
      BY <1>4, <2>2 DEF pairing
    <3>2. results \in [Names -> Nat] /\ challenges \in [Names -> Nat]
      BY <1>0, TypedNow, DashboardAssumption DEF AskedTyped
    <3>3. /\ results' \in [Names -> Nat] /\ challenges' \in [Names -> Nat]
          /\ \A m \in Names : challenges'[m] \in {0, challenges[m]}
          /\ \A m \in Names : results'[m] \in {0, results[m]}
      BY <3>1, <3>2
    <3> QED
      BY <1>0, <3>1, <3>3, PairingStays
  <2> QED
    BY <2>1, <2>2
<1> QED
  BY <1>4, <1>5, <1>6, <1>7, PairingServes

LEMMA StopServes ==
  ASSUME PageInv, DashboardInv, DashboardInv', ServerStep, NEW t \in Slots,
         DestroyBegins(t) \/ LogoutTearsDown(t)
  PROVE  PageInv'
<1>0. Typed /\ Fresh /\ Single /\ Prompting /\ RegShape /\ TaskShape /\ tasks[t] \in Task
  BY DEF PageInv, DashboardInv, TaskShape
<1>1. PICK a \in Adapters : TearsDown(t, a) /\ tasks[t].at # "none"
  <2>1. CASE DestroyBegins(t)
    <3>1. /\ tasks[t].at = "sent" /\ tasks[t].name \in Names /\ reg[tasks[t].name] # Absent
          /\ TearsDown(t, reg[tasks[t].name].adapter)
      BY <1>0, <2>1 DEF DestroyBegins, Arrived, Rejected, Destroying, TaskShape
    <3>2. reg[tasks[t].name].adapter \in Adapters
      BY <1>0, <3>1 DEF RegShape, Entry
    <3> QED
      BY <3>1, <3>2
  <2>2. CASE LogoutTearsDown(t)
    BY <1>0, <2>2 DEF LogoutTearsDown, TaskShape
  <2> QED
    BY <2>1, <2>2
<1>2. /\ UNCHANGED <<managed, reg, config, answered, lastAsked, images, passes, listening, online,
                     crossed, stuck>>
      /\ on' = on \ {a} /\ Refused(a)
      /\ IF asked[a] = 0 THEN stream' = stream ELSE Broadcast(config)
  BY <1>1 DEF TearsDown, Stops
<1>3. Settles /\ IdleTyped'
  <2>1. PICK task : task = [tasks[t] EXCEPT !.at = "stopped", !.adapter = a]
    OBVIOUS
  <2>2. /\ task.at # "none" /\ task.page = tasks[t].page /\ task.name = tasks[t].name
        /\ task.job = tasks[t].job
    BY <1>0, <2>1 DEF Task
  <2>3. Put(t, task)
    BY <1>1, <2>1 DEF TearsDown
  <2> QED
    BY <1>0, <1>2, <2>2, <2>3, PutSettles
<1>4. on' \subseteq Adapters
  BY <1>0, <1>2, TypedNow DEF OwnTyped
<1>5. Ends /\ Single' /\ AskedTyped'
  BY <1>0, <1>2, RefusedEnds
<1>6. \/ Broadcast(config)
      \/ stream' = stream /\ challenges' = challenges /\ results' = results
  BY <1>2 DEF Refused
<1> QED
  BY <1>2, <1>3, <1>4, <1>5, <1>6, PairingServes

(* Requests that are sent, refused or ended with nothing to tell. *)
LEMMA OtherServes ==
  ASSUME PageInv, DashboardInv, DashboardInv', ServerStep, NEW t \in Slots,
         \/ \E job \in Job, n \in Names, p \in Prefixes \cup {Absent} : OtherRequest(t, job, n, p)
         \/ RequestRejected(t) \/ StopFails(t) \/ LogoutEnds(t) \/ CreateSkipped(t)
         \/ LogoutBegins(t) \/ Initialized(t)
  PROVE  PageInv'
<1>0. Typed /\ TaskShape /\ tasks[t] \in Task /\ OwnTyped
  BY TypedNow DEF PageInv, DashboardInv, TaskShape
<1>1. CASE \E job \in Job, n \in Names, p \in Prefixes \cup {Absent} : OtherRequest(t, job, n, p)
  <2>1. PICK job, n, p : OtherRequest(t, job, n, p)
    BY <1>1
  <2>2. Sent(t, job, n, p, FALSE) /\ UNCHANGED Silent /\ on' = on /\ stuck' = stuck
    BY <2>1 DEF OtherRequest, Silent, clients, past
  <2>3. Settles /\ IdleTyped'
    <3>1. stuck' \subseteq Names
      BY <1>0, <2>2, TypedNow DEF IdleTyped
    <3> QED
      BY <1>0, <2>2, <3>1, SentSettles
  <2> QED
    BY <1>0, <2>2, <2>3, RequestServes DEF OwnTyped
<1>2. CASE RequestRejected(t) \/ StopFails(t) \/ LogoutEnds(t) \/ CreateSkipped(t) \/ Initialized(t)
  <2>1. /\ Answer(t, TRUE) /\ UNCHANGED Silent /\ tasks[t].at # "none"
        /\ on' = on \/ (on' = on \cup {tasks[t].adapter} /\ tasks[t].at = "added")
    BY <1>2 DEF RequestRejected, StopFails, LogoutEnds, CreateSkipped, Creates, Arrived, Initialized,
      Silent, clients
  <2>2. Settles /\ IdleTyped'
    BY <1>0, <2>1, AnswerSettles
  <2>3. on' \subseteq Adapters
    BY <1>0, <2>1 DEF OwnTyped, TaskShape
  <2> QED
    BY <2>1, <2>2, <2>3, RequestServes
<1>3. CASE LogoutBegins(t)
  <2>1. /\ UNCHANGED Silent /\ on' = on /\ stuck' = stuck
        /\ \E a : Put(t, [tasks[t] EXCEPT !.at = "stopping", !.adapter = a])
    BY <1>3 DEF LogoutBegins, Silent, clients, past
  <2>2. PICK a : Put(t, [tasks[t] EXCEPT !.at = "stopping", !.adapter = a])
    BY <2>1
  <2>3. PICK task : task = [tasks[t] EXCEPT !.at = "stopping", !.adapter = a]
    OBVIOUS
  <2>4. /\ task.at # "none" /\ task.page = tasks[t].page /\ task.name = tasks[t].name
        /\ task.job = tasks[t].job /\ Put(t, task)
    BY <1>0, <2>2, <2>3 DEF Task
  <2>5. Settles /\ IdleTyped'
    BY <1>0, <2>1, <2>4, PutSettles
  <2> QED
    BY <1>0, <2>1, <2>5, RequestServes DEF OwnTyped
<1> QED
  BY <1>1, <1>2, <1>3

(* A client reports. *)
LEMMA ReportServes ==
  ASSUME PageInv, DashboardInv, DashboardInv', ServerStep,
         NEW n \in Names, NEW status \in Status, NEW credential \in Credentials,
         Report(n, status, credential)
  PROVE  PageInv'
<1>0. /\ Typed /\ reg \in [Names -> Entry \cup {Absent}] /\ OwnTyped /\ Stored
  BY TypedNow DEF PageInv, DashboardInv, RegShape
<1>1. PICK entries : entries = [reg EXCEPT ![n].status = status, ![n].credential = credential]
  OBVIOUS
<1>2. /\ reg[n] # Absent /\ Notify(entries, config) /\ reg' = entries
      /\ UNCHANGED <<managed, pairing, online>> /\ on' = on /\ config' = config
      /\ tasks' = tasks /\ stuck' = stuck
  BY <1>1 DEF Report, Notify
<1>3. PICK entry \in Entry :
        /\ entry = [[reg[n] EXCEPT !.status = status] EXCEPT !.credential = credential]
        /\ entry.virtual = reg[n].virtual
  <2>1. reg[n] \in Entry
    BY <1>0, <1>2
  <2>2. PICK entry \in Entry :
          entry = [[reg[n] EXCEPT !.status = status] EXCEPT !.credential = credential]
    BY <2>1 DEF Entry
  <2>3. entry.virtual = reg[n].virtual
    BY <2>1, <2>2 DEF Entry
  <2> QED
    BY <2>2, <2>3
<1>4. entries = [reg EXCEPT ![n] = entry]
  BY <1>0, <1>1, <1>3
<1>5. /\ entries \in [Names -> Entry \cup {Absent}]
      /\ \A m \in Names : entries[m] # Absent => reg[m] # Absent /\ entries[m].virtual = reg[m].virtual
  BY <1>0, <1>2, <1>3, <1>4
<1>6. \A m \in Names : Registers(m)
  <2> SUFFICES ASSUME NEW m \in Names PROVE Registers(m)
    OBVIOUS
  <2> QED
    BY <1>2, <1>5 DEF Registers
<1>7. Settles /\ IdleTyped'
  BY <1>0, <1>2, NoneSettles
<1>8. on' \subseteq Adapters /\ config' \in [Names -> {Absent} \cup Prefixes]
  BY <1>0, <1>2 DEF OwnTyped
<1>9. \A m \in Names : entries[m] # Absent => reg[m] # Absent
  BY <1>5
<1> QED
  BY <1>2, <1>5, <1>6, <1>7, <1>8, <1>9, NotifyServes

(* A restart ends: the client's buttons are built anew, once its status is told. *)
LEMMA RestartServes ==
  ASSUME PageInv, DashboardInv, DashboardInv', ServerStep, NEW t \in Slots, RestartEnds(t)
  PROVE  PageInv'
<1>0. /\ Typed /\ TaskShape /\ tasks[t] \in Task /\ OwnTyped /\ tasks \in [Slots -> Task]
      /\ reg \in [Names -> Entry \cup {Absent}]
  BY TypedNow DEF PageInv, DashboardInv, TaskShape, RegShape
<1>1. PICK n \in Names : n = tasks[t].name
  BY <1>0 DEF RestartEnds, TaskShape
<1>2. PICK a \in Adapters : a = tasks[t].adapter
  BY <1>0 DEF RestartEnds, TaskShape
<1>3. /\ tasks[t].at = "stopped" /\ tasks[t].job \in {"restart", "force-qr"}
      /\ on' = on \cup {a} /\ Answer(t, reg[n] = Absent)
      /\ UNCHANGED <<managed, pairing, online>> /\ config' = config
  BY <1>1, <1>2 DEF RestartEnds
<1>4. on' \subseteq Adapters
  BY <1>0, <1>3 DEF OwnTyped
<1>5. CASE reg[n] = Absent
  <2>1. UNCHANGED Silent
    BY <1>1, <1>3, <1>5 DEF RestartEnds, Silent, views
  <2>2. Answer(t, TRUE)
    BY <1>3, <1>5 DEF Answer
  <2>3. Settles /\ IdleTyped'
    BY <1>0, <1>3, <2>2, AnswerSettles
  <2> QED
    BY <1>4, <2>1, <2>3, RequestServes
<1>6. CASE reg[n] # Absent
  <2>1. PICK entries : entries = [reg EXCEPT ![n].status = "initializing", ![n].credential = Absent]
    OBVIOUS
  <2>2. Notify(entries, config) /\ reg' = entries
    BY <1>1, <1>6, <2>1 DEF RestartEnds, Notify
  <2>3. reg[n] \in Entry /\ "initializing" \in Status /\ Absent \in Credentials
    BY <1>0, <1>6 DEF Status, Credentials
  <2>4. PICK entry \in Entry :
          /\ entry = [[reg[n] EXCEPT !.status = "initializing"] EXCEPT !.credential = Absent]
          /\ entry.virtual = reg[n].virtual /\ entry.status = "initializing"
    <3>1. PICK entry \in Entry :
            entry = [[reg[n] EXCEPT !.status = "initializing"] EXCEPT !.credential = Absent]
      BY <2>3 DEF Entry
    <3>2. entry.virtual = reg[n].virtual /\ entry.status = "initializing"
      BY <2>3, <3>1 DEF Entry
    <3> QED
      BY <3>1, <3>2
  <2>5. entries = [reg EXCEPT ![n] = entry]
    BY <1>0, <2>1, <2>4
  <2>6. /\ entries \in [Names -> Entry \cup {Absent}] /\ entries[n].status = "initializing"
        /\ \A m \in Names : entries[m] # Absent => reg[m] # Absent /\ entries[m].virtual = reg[m].virtual
    BY <1>0, <1>6, <2>4, <2>5
  <2>7. \A m \in Names : Registers(m)
    <3> SUFFICES ASSUME NEW m \in Names PROVE Registers(m)
      OBVIOUS
    <3> QED
      BY <1>3, <2>2, <2>6 DEF Registers
  <2>8. tasks' = [tasks EXCEPT ![t] = Idle] /\ stuck' = stuck
    BY <1>3, <1>6 DEF Answer, Put
  <2>9. IdleTyped'
    BY <1>0, <2>8, TypedNow DEF IdleTyped
  <2>10. ASSUME online => stream' # stream PROVE Settles
    <3>1. ASSUME NEW u \in Slots, NEW m \in Names, online, Awaited(u, m)
          PROVE  \/ tasks'[u].page /\ tasks'[u].name = tasks[u].name /\ tasks'[u].job = tasks[u].job
                 \/ /\ stream' # stream /\ tasks[u].job \in {"restart", "force-qr"}
                    /\ reg'[m] # Absent => reg'[m].status = "initializing"
      <4>1. CASE u = t
        <5>1. m = n
          BY <1>1, <3>1, <4>1 DEF Awaited
        <5> QED
          BY <1>3, <2>2, <2>6, <2>10, <3>1, <4>1, <5>1
      <4>2. CASE u # t
        BY <1>0, <2>8, <3>1, <4>2 DEF Awaited
      <4> QED
        BY <4>1, <4>2
    <3> QED
      BY <2>8, <3>1 DEF Settles
  <2>11. config' \in [Names -> {Absent} \cup Prefixes]
    BY <1>0, <1>3 DEF OwnTyped
  <2>12. \A m \in Names : entries[m] # Absent => reg[m] # Absent
    BY <2>6
  <2> QED
    BY <1>3, <1>4, <2>2, <2>6, <2>7, <2>9, <2>10, <2>11, <2>12, NotifyServes
<1> QED
  BY <1>5, <1>6

(* A client is removed, and so is its configuration. *)
LEMMA RemovedServes ==
  ASSUME PageInv, DashboardInv, DashboardInv', ServerStep, NEW t \in Slots, Removed(t)
  PROVE  PageInv'
<1>0. /\ Typed /\ TaskShape /\ tasks[t] \in Task /\ OwnTyped
      /\ reg \in [Names -> Entry \cup {Absent}]
  BY TypedNow DEF PageInv, DashboardInv, TaskShape, RegShape
<1>1. PICK n \in Names : n = tasks[t].name
  BY <1>0 DEF Removed, TaskShape
<1>2. PICK entries : entries = [reg EXCEPT ![n] = Absent]
  OBVIOUS
<1>3. /\ tasks[t].at = "stopped" /\ Notify(entries, config) /\ reg' = entries
      /\ config' = [config EXCEPT ![n] = Absent]
      /\ UNCHANGED <<managed, pairing, online>> /\ on' = on
      /\ IF tasks[t].job = "delete" THEN Answer(t, TRUE)
         ELSE Put(t, [tasks[t] EXCEPT !.at = "removed"]) /\ stuck' = stuck
  BY <1>1, <1>2 DEF Removed, Notify
<1>4. /\ entries \in [Names -> Entry \cup {Absent}]
      /\ \A m \in Names : entries[m] # Absent => reg[m] # Absent /\ m # n /\ entries[m] = reg[m]
  BY <1>0, <1>2
<1>5. config' \in [Names -> {Absent} \cup Prefixes] /\ \A m \in Names \ {n} : config'[m] = config[m]
  BY <1>0, <1>3 DEF OwnTyped
<1>6. \A m \in Names : Registers(m)
  <2> SUFFICES ASSUME NEW m \in Names PROVE Registers(m)
    OBVIOUS
  <2> QED
    BY <1>3, <1>4, <1>5 DEF Registers
<1>7. Settles /\ IdleTyped'
  <2>1. CASE tasks[t].job = "delete"
    <3>1. Answer(t, TRUE) /\ tasks[t].at # "none"
      BY <1>3, <2>1
    <3> QED
      BY <1>0, <3>1, AnswerSettles
  <2>2. CASE tasks[t].job # "delete"
    <3>1. PICK task : task = [tasks[t] EXCEPT !.at = "removed"]
      OBVIOUS
    <3>2. /\ task.at # "none" /\ task.page = tasks[t].page /\ task.name = tasks[t].name
          /\ task.job = tasks[t].job /\ Put(t, task) /\ stuck' = stuck
      BY <1>0, <1>3, <2>2, <3>1 DEF Task
    <3> QED
      BY <1>0, <3>2, PutSettles
  <2> QED
    BY <2>1, <2>2
<1>8. on' \subseteq Adapters /\ \A m \in Names : entries[m] # Absent => reg[m] # Absent
  BY <1>0, <1>3, <1>4 DEF OwnTyped
<1> QED
  BY <1>3, <1>4, <1>5, <1>6, <1>7, <1>8, NotifyServes

(* A client is added, and nobody is told. *)
LEMMA AddedServes ==
  ASSUME PageInv, DashboardInv, DashboardInv', ServerStep, NEW t \in Slots, Added(t)
  PROVE  PageInv'
<1>0. /\ Typed /\ TaskShape /\ tasks[t] \in Task /\ OwnTyped /\ Fresh /\ Single
      /\ reg \in [Names -> Entry \cup {Absent}] /\ tasks[t].at # "none"
  BY TypedNow DEF PageInv, DashboardInv, TaskShape, RegShape, Added, Creates, Arrived
<1>1. PICK n \in Names : n = tasks[t].name
  BY <1>0 DEF TaskShape
<1>2. tasks[t].prefix \in Prefixes
  BY <1>0 DEF Added, Creates, Arrived, TaskShape
<1>3. PICK a \in Adapters :
        /\ reg' = [reg EXCEPT ![n] = [adapter |-> a, virtual |-> TRUE, status |-> "initializing",
                                      credential |-> Absent, prefix |-> tasks[t].prefix]]
        /\ Put(t, [tasks[t] EXCEPT !.at = "added", !.adapter = a])
  BY <1>1 DEF Added
<1>4. /\ reg[n] = Absent /\ config' = [config EXCEPT ![n] = tasks[t].prefix]
      /\ managed' = managed /\ on' = on /\ UNCHANGED pairing /\ images' = images /\ passes' = passes
      /\ listening' = listening /\ challenges' = challenges /\ results' = results
      /\ online' = online /\ stream' = stream /\ crossed' = crossed /\ stuck' = stuck
  BY <1>1 DEF Added, views, past
<1>5. /\ config' \in [Names -> {Absent} \cup Prefixes] /\ config'[n] = tasks[t].prefix
      /\ \A m \in Names \ {n} : config'[m] = config[m]
  BY <1>0, <1>2, <1>4 DEF OwnTyped
<1>6. reg'[n].virtual /\ \A m \in Names \ {n} : reg'[m] = reg[m]
  BY <1>0, <1>3
<1>7. \A m \in Names : Registers(m)
  <2> SUFFICES ASSUME NEW m \in Names PROVE Registers(m)
    OBVIOUS
  <2>1. Absent \notin Prefixes
    BY DashboardAssumption
  <2> QED
    BY <1>2, <1>4, <1>5, <1>6, <2>1 DEF Registers
<1>8. KeepsAll
  <2>1. \A m \in Names : Keeps(m)
    BY <1>4, <1>6 DEF Keeps
  <2> QED
    BY <1>4, <2>1 DEF KeepsAll, Pushing
<1>9. Settles /\ IdleTyped'
  <2>1. PICK task : task = [tasks[t] EXCEPT !.at = "added", !.adapter = a]
    OBVIOUS
  <2>2. /\ task.at # "none" /\ task.page = tasks[t].page /\ task.name = tasks[t].name
        /\ task.job = tasks[t].job /\ Put(t, task)
    BY <1>0, <1>3, <2>1 DEF Task
  <2> QED
    BY <1>0, <1>4, <2>2, PutSettles
<1>10. Ends /\ Single' /\ AskedTyped'
  <2>1. results' \in [Names -> Nat] /\ challenges' \in [Names -> Nat]
    BY <1>0, <1>4, TypedNow, DashboardAssumption DEF AskedTyped
  <2> QED
    BY <1>0, <1>4, <2>1, PairingStays
<1>11. OwnTyped' /\ PassTyped' /\ SentTyped'
  BY <1>0, <1>4, <1>5, TypedNow DEF OwnTyped, PassTyped, SentTyped
<1> QED
  BY <1>4, <1>7, <1>8, <1>9, <1>10, <1>11, ServerSteps

(* The prefix is changed once the page was told. *)
LEMMA PrefixServes ==
  ASSUME PageInv, DashboardInv, DashboardInv', ServerStep, NEW t \in Slots, PrefixSet(t)
  PROVE  PageInv'
<1>0. /\ Typed /\ TaskShape /\ tasks[t] \in Task /\ OwnTyped
      /\ reg \in [Names -> Entry \cup {Absent}] /\ Absent \notin Prefixes
  BY TypedNow, DashboardAssumption DEF PageInv, DashboardInv, TaskShape, RegShape
<1>1. PICK n \in Names : n = tasks[t].name
  BY <1>0 DEF PrefixSet, Arrived, TaskShape
<1>2. /\ tasks[t].at = "sent" /\ tasks[t].job = "prefix" /\ ~Rejected(t) /\ Answer(t, TRUE)
      /\ config' = IF config[n] = Absent THEN config ELSE [config EXCEPT ![n] = tasks[t].prefix]
      /\ UNCHANGED <<managed, pairing, online>> /\ on' = on
  BY <1>1 DEF PrefixSet, Arrived
<1>3. reg[n] \in Entry /\ reg[n] # Absent /\ tasks[t].prefix \in Prefixes
  BY <1>0, <1>1, <1>2 DEF Rejected, TaskShape
<1>4. PICK entries : entries = [reg EXCEPT ![n].prefix = tasks[t].prefix]
  OBVIOUS
<1>5. Notify(entries, config) /\ reg' = entries
  BY <1>1, <1>4 DEF PrefixSet, Notify
<1>6. PICK entry \in Entry : entry = [reg[n] EXCEPT !.prefix = tasks[t].prefix] /\ entry.virtual = reg[n].virtual
  <2>1. PICK entry \in Entry : entry = [reg[n] EXCEPT !.prefix = tasks[t].prefix]
    BY <1>3 DEF Entry
  <2>2. entry.virtual = reg[n].virtual
    BY <1>3, <2>1 DEF Entry
  <2> QED
    BY <2>1, <2>2
<1>7. entries = [reg EXCEPT ![n] = entry]
  BY <1>0, <1>4, <1>6
<1>8. /\ entries \in [Names -> Entry \cup {Absent}]
      /\ \A m \in Names : entries[m] # Absent => reg[m] # Absent /\ entries[m].virtual = reg[m].virtual
  BY <1>0, <1>3, <1>6, <1>7
<1>9. /\ config' \in [Names -> {Absent} \cup Prefixes]
      /\ \A m \in Names : config'[m] # Absent <=> config[m] # Absent
  BY <1>0, <1>2, <1>3 DEF OwnTyped
<1>10. \A m \in Names : Registers(m)
  <2> SUFFICES ASSUME NEW m \in Names PROVE Registers(m)
    OBVIOUS
  <2> QED
    BY <1>5, <1>8, <1>9 DEF Registers
<1>11. Settles /\ IdleTyped'
  <2>1. tasks[t].at # "none"
    BY <1>2
  <2> QED
    BY <1>0, <1>2, <2>1, AnswerSettles
<1>12. on' \subseteq Adapters /\ \A m \in Names : entries[m] # Absent => reg[m] # Absent
  BY <1>0, <1>2, <1>8 DEF OwnTyped
<1> QED
  BY <1>2, <1>5, <1>8, <1>9, <1>10, <1>11, <1>12, NotifyServes
-----------------------------------------------------------------------------
(* The page's own steps leave what the server has. *)
LEMMA AsideIs ==
  ASSUME UNCHANGED Aside
  PROVE  /\ managed' = managed /\ reg' = reg /\ on' = on /\ config' = config
         /\ asked' = asked /\ answered' = answered /\ lastAsked' = lastAsked
         /\ images' = images /\ passes' = passes /\ listening' = listening
         /\ challenges' = challenges /\ results' = results
         /\ crossed' = crossed /\ mislaid' = mislaid /\ strays' = strays
BY DEF Aside, clients, pairing, views

LEMMA AsideStill ==
  ASSUME UNCHANGED Aside
  PROVE  /\ Now' = Now /\ (Pushing' <=> Pushing)
         /\ \A k : Pending(k)' <=> Pending(k)
         /\ Single <=> Single'
         /\ \A n \in Names : Declared(n)' <=> Declared(n)
         /\ \A p : Sound(p)' <=> Sound(p)
<1>1. Now' = Now /\ (Pushing' <=> Pushing)
  BY AsideIs DEF Now, Pushing, Payload, Qr
<1>2. (\A k : Pending(k)' <=> Pending(k)) /\ (Single <=> Single')
  BY AsideIs DEF Pending, Single
<1>3. \A n \in Names : Declared(n)' <=> Declared(n)
  BY AsideIs DEF Declared
<1>4. \A p : Sound(p)' <=> Sound(p)
  BY <1>3 DEF Sound
<1> QED
  BY <1>1, <1>2, <1>3, <1>4

LEMMA AsideShows ==
  ASSUME UNCHANGED Aside, NEW card, NEW n \in Names
  PROVE  Shows(card, n) => Shows(card, n)'
BY AsideIs, AsideStill DEF Shows

LEMMA AsideRight ==
  ASSUME UNCHANGED Aside, lagging \subseteq lagging', NEW p, Right(p)
  PROVE  Right(p)'
<1> SUFFICES ASSUME NEW n \in Names
             PROVE  /\ Shows(CardOf(p, n), n)'
                    /\ listening'[n] # Absent => p[n] # Absent
                    /\ p[n] # Absent => HasPrefix(p[n].config, n)'
  BY DEF Right
<1>1. PICK card : card = CardOf(p, n)
  OBVIOUS
<1>2. Shows(card, n)'
  BY <1>1, AsideShows DEF Right
<1>3. Shows(CardOf(p, n), n)'
  BY <1>1, <1>2 DEF CardOf, BuildCard, PanelOf
<1>4. listening'[n] # Absent => p[n] # Absent
  BY AsideIs DEF Right
<1>5. p[n] # Absent => HasPrefix(p[n].config, n)'
  BY AsideIs DEF Right, HasPrefix
<1> QED
  BY <1>3, <1>4, <1>5

(* What is there now, as a message. *)
LEMMA NowServes ==
  ASSUME Typed, ListenerFollows, Stored, UNCHANGED Aside, Typed',
         NEW p, p = Payload(reg, images, challenges, results, config)
  PROVE  /\ p \in Messages /\ Right(p)' /\ Sound(p)'
         /\ \A n \in Names : Res(p, n) \in {0, results[n]}
<1>1. p = Payload(reg', images', challenges', results', config)
  BY AsideIs DEF Payload, Qr
<1>2. p \in Messages /\ \A n \in Names : Says(p, n, reg', images', challenges', results', config)
  BY <1>1, SentIs
<1>3. Right(p)'
  <2> SUFFICES ASSUME NEW n \in Names
               PROVE  /\ Shows(CardOf(p, n), n)'
                      /\ listening'[n] # Absent => p[n] # Absent
                      /\ p[n] # Absent => HasPrefix(p[n].config, n)'
    BY DEF Right
  <2>1. listening'[n] # Absent => p[n] # Absent
    BY <1>2, AsideIs DEF ListenerFollows, Says
  <2>2. p[n] # Absent => HasPrefix(p[n].config, n)'
    BY <1>2, AsideIs DEF Says, HasPrefix
  <2>3. Shows(CardOf(p, n), n)'
    <3>1. CASE p[n] = Absent
      BY <3>1 DEF CardOf, Shows
    <3>2. CASE p[n] # Absent
      <4>1. /\ reg'[n] # Absent /\ p[n].status = reg'[n].status /\ p[n].virtual = reg'[n].virtual
            /\ p[n].qr = (IF Qr(reg'[n]) = Absent THEN Absent ELSE images'[n])
            /\ p[n].code = (reg'[n].credential = "code") /\ p[n].challenge = challenges'[n]
        BY <1>2, <3>2 DEF Says
      <4>2. /\ Now'[n].qr = (IF Qr(reg'[n]) = Absent THEN Absent ELSE images'[n])
            /\ Now'[n].code = (reg'[n].credential = "code") /\ Now'[n].challenge = challenges'[n]
        BY <4>1, NextIs DEF Says
      <4>3. PanelOf(Now'[n]) = PanelOf(p[n])
        BY <4>1, <4>2, PanelIs
      <4>4. CardOf(p, n)' = BuildCard(p[n])
        BY <3>2 DEF CardOf, BuildCard, PanelOf
      <4>5. /\ BuildCard(p[n]).status = reg'[n].status /\ BuildCard(p[n]).virtual = reg'[n].virtual
            /\ BuildCard(p[n]).panel = PanelOf(p[n])
        BY <4>1 DEF BuildCard
      <4> QED
        BY <4>1, <4>3, <4>4, <4>5 DEF Shows
    <3> QED
      BY <3>1, <3>2
  <2> QED
    BY <2>1, <2>2, <2>3
<1>4. Sound(p)'
  <2> SUFFICES ASSUME NEW n \in Names, p[n] # Absent
               PROVE  /\ p[n].virtual => p[n].config # Absent
                      /\ Declared(n) => p[n].config = Absent
    BY AsideStill DEF Sound
  <2>1. reg[n] # Absent /\ p[n].virtual = reg[n].virtual /\ p[n].config = config[n]
    BY <1>2, AsideIs DEF Says
  <2> QED
    BY <2>1 DEF Stored, Declared
<1>5. \A n \in Names : Res(p, n) \in {0, results[n]}
  BY <1>2, AsideIs DEF Says, Res
<1> QED
  BY <1>2, <1>3, <1>4, <1>5
-----------------------------------------------------------------------------
(* render *)
LEMMA PatchIs ==
  ASSUME NEW c \in Summaries, NEW card \in Card
  PROVE  /\ PatchCard(card, c) \in Card /\ PatchCard(card, c) # Absent
         /\ PatchCard(card, c).status = c.status /\ PatchCard(card, c).virtual = c.virtual
         /\ PatchCard(card, c).panel = PanelOf(c)
         /\ PatchCard(card, c).disabled => /\ card.disabled /\ card.status = c.status
                                           /\ card.virtual = c.virtual
<1>1. c.qr \in Qrs \cup {Absent} /\ c.status \in Status /\ c.virtual \in BOOLEAN
  BY DEF Summaries
<1>2. PanelOf(c) \in Panel
  BY CardIs
<1>3. (card.disabled /\ card.status = c.status /\ card.virtual = c.virtual) \in BOOLEAN
  OBVIOUS
<1>4. PatchCard(card, c) \in Card
  BY <1>1, <1>2, <1>3 DEF PatchCard, Card
<1>5. PatchCard(card, c) # Absent
  BY <1>4, PageAssumption
<1> QED
  BY <1>4, <1>5 DEF PatchCard

LEMMA BuildIs ==
  ASSUME NEW c \in Summaries
  PROVE  /\ BuildCard(c) \in Card /\ BuildCard(c) # Absent
         /\ BuildCard(c).status = c.status /\ BuildCard(c).virtual = c.virtual
         /\ BuildCard(c).panel = PanelOf(c) /\ ~BuildCard(c).disabled
BY CardIs DEF BuildCard

(* What becomes of a card: it goes, or it is patched, or it is built anew. *)
LEMMA RenderIs ==
  ASSUME Typed, NEW p \in Messages, NEW refresh \in BOOLEAN, Render(p, refresh), NEW n \in Names
  PROVE  /\ cards' \in [Names -> Card \cup {Absent}]
         /\ cards'[n] # Absent =>
              /\ p[n] # Absent /\ cards'[n].status = p[n].status /\ cards'[n].virtual = p[n].virtual
              /\ cards'[n].panel = PanelOf(p[n])
              /\ cards'[n].disabled => /\ cards[n] # Absent /\ cards[n].disabled
                                       /\ cards[n].status = p[n].status /\ cards[n].virtual = p[n].virtual
         /\ (p[n] # Absent /\ form' # "cut") => cards'[n] # Absent
<1>0. /\ cards \in [Names -> Card \cup {Absent}] /\ form \in {"none", "placed", "cut"}
      /\ \A m \in Names : p[m] # Absent => p[m] \in Summaries
  BY DEF Typed, TypeOK, Messages
<1>1. CASE (Shown(p) = {} /\ ~managed) \/ (refresh /\ Breaks(p))
  <2>1. cards' = Nothing /\ form' = IF form = "placed" THEN "cut" ELSE form
    BY <1>1 DEF Render, Cleared
  <2>2. cards' \in [Names -> Card \cup {Absent}] /\ cards'[n] = Absent
    BY <2>1 DEF Nothing
  <2>3. p[n] # Absent => form' = "cut"
    BY <1>1, <2>1 DEF Shown, Breaks
  <2> QED
    BY <2>2, <2>3
<1>2. CASE ~((Shown(p) = {} /\ ~managed) \/ (refresh /\ Breaks(p)))
  <2>1. cards' = Cards(p) /\ form' = IF managed /\ form = "none" THEN "placed" ELSE form
    BY <1>2 DEF Render
  <2>2. ASSUME NEW m \in Names
        PROVE  /\ p[m] = Absent => cards'[m] = Absent
               /\ (p[m] # Absent /\ cards[m] # Absent) => cards'[m] = PatchCard(cards[m], p[m])
               /\ (p[m] # Absent /\ cards[m] = Absent) =>
                    cards'[m] = IF Breaks(p) THEN Absent ELSE BuildCard(p[m])
    BY <2>1 DEF Cards
  <2>3. ASSUME NEW m \in Names PROVE cards'[m] \in Card \cup {Absent}
    <3>1. p[m] # Absent => BuildCard(p[m]) \in Card
      BY <1>0, BuildIs
    <3>2. (p[m] # Absent /\ cards[m] # Absent) => PatchCard(cards[m], p[m]) \in Card
      <4> SUFFICES ASSUME p[m] # Absent, cards[m] # Absent PROVE PatchCard(cards[m], p[m]) \in Card
        OBVIOUS
      <4>1. p[m] \in Summaries /\ cards[m] \in Card
        BY <1>0
      <4> QED
        BY <4>1, PatchIs
    <3> QED
      BY <2>2, <3>1, <3>2
  <2>4. cards' \in [Names -> Card \cup {Absent}]
    BY <2>1, <2>3 DEF Cards
  <2>5. CASE p[n] = Absent
    BY <2>2, <2>4, <2>5
  <2>6. CASE p[n] # Absent /\ cards[n] # Absent
    <3>1. p[n] \in Summaries /\ cards[n] \in Card /\ cards'[n] = PatchCard(cards[n], p[n])
      BY <1>0, <2>2, <2>6
    <3> QED
      BY <2>4, <2>6, <3>1, PatchIs
  <2>7. CASE p[n] # Absent /\ cards[n] = Absent
    <3>1. p[n] \in Summaries /\ cards'[n] = IF Breaks(p) THEN Absent ELSE BuildCard(p[n])
      BY <1>0, <2>2, <2>7
    <3>2. Breaks(p) => form' = "cut"
      BY <2>1 DEF Breaks
    <3> QED
      BY <2>4, <2>7, <3>1, <3>2, BuildIs
  <2> QED
    BY <2>5, <2>6, <2>7
<1> QED
  BY <1>1, <1>2

(* The page shows what is right, once it rendered that. *)
LEMMA RenderRight ==
  ASSUME Typed, Stored, UNCHANGED Aside, lagging' = lagging,
         NEW p \in Messages, Right(p), Sound(p), NEW refresh \in BOOLEAN, Render(p, refresh)
  PROVE  CardsRight'
<1> SUFFICES ASSUME NEW n \in Names
             PROVE  /\ Shows(cards[n], n)'
                    /\ (listening'[n] # Absent /\ form' # "cut") => cards'[n] # Absent
                    /\ cards'[n] # Absent => HasPrefix(configs[n], n)'
  BY DEF CardsRight
<1>1. /\ cards'[n] # Absent =>
           /\ p[n] # Absent /\ cards'[n].status = p[n].status /\ cards'[n].virtual = p[n].virtual
           /\ cards'[n].panel = PanelOf(p[n])
      /\ (p[n] # Absent /\ form' # "cut") => cards'[n] # Absent
  BY RenderIs
<1>2. (listening'[n] # Absent /\ form' # "cut") => cards'[n] # Absent
  BY <1>1, AsideIs DEF Right
<1>3. ASSUME p[n] # Absent
      PROVE  /\ reg[n] # Absent /\ p[n].status = reg[n].status /\ p[n].virtual = reg[n].virtual
             /\ PanelOf(p[n]) = PanelOf(Now[n]) \/ n \in crossed \/ Pushing
  <2>1. p[n] \in Summaries
    BY <1>3 DEF Messages
  <2>2. CardOf(p, n) = BuildCard(p[n]) /\ Shows(CardOf(p, n), n)
    BY <1>3 DEF CardOf, Right
  <2>3. Shows(BuildCard(p[n]), n)
    BY <2>2
  <2> QED
    BY <2>1, <2>3, BuildIs DEF Shows
<1>4. Shows(cards[n], n)'
  BY <1>1, <1>3, AsideIs, AsideStill DEF Shows
<1>5. ASSUME cards'[n] # Absent PROVE HasPrefix(configs[n], n)'
  <2>1. p[n] # Absent
    BY <1>1, <1>5
  <2>2. configs'[n] = IF p[n].config # Absent THEN p[n].config ELSE configs[n]
    BY <2>1 DEF Render, Learns, Configs
  <2>3. CASE p[n].config # Absent
    <3>1. HasPrefix(p[n].config, n)
      BY <2>1 DEF Right
    <3> QED
      BY <2>2, <2>3, <3>1, AsideIs DEF HasPrefix
  <2>4. CASE p[n].config = Absent
    <3>1. Declared(n)
      BY <1>3, <2>1, <2>4 DEF Sound, Declared
    <3>2. configs'[n] = Absent
      BY <2>2, <2>4, <3>1 DEF Stored
    <3> QED
      BY <3>2 DEF HasPrefix
  <2> QED
    BY <2>3, <2>4
<1> QED
  BY <1>2, <1>4, <1>5

(* What else the page has after it rendered something. *)
LEMMA RenderTyped ==
  ASSUME Typed, NEW p \in Messages, NEW refresh \in BOOLEAN, Render(p, refresh)
  PROVE  /\ cards' \in [Names -> Card \cup {Absent}] /\ configs' \in [Names -> {Absent} \cup Prefixes]
         /\ prompts' \in [Names -> 0 .. MaxAsked] /\ seen' \in [Names -> 0 .. MaxAsked]
         /\ toasted' \subseteq 1 .. MaxAsked /\ again' \in BOOLEAN /\ empty' \in BOOLEAN
         /\ form' \in {"none", "placed", "cut"} /\ stuck' \subseteq stuck
<1>0. CardsTyped /\ MaxAsked \in Nat
  BY TypedNow, DashboardAssumption
<1>1. \A n \in Names : p[n] # Absent =>
        /\ p[n].config \in Prefixes \cup {Absent}
        /\ p[n].challenge \in 0 .. MaxAsked /\ p[n].result \in 0 .. MaxAsked
  BY DEF Messages, Summaries
<1>2. Learns(p)
  BY DEF Render
<1>3. configs' \in [Names -> {Absent} \cup Prefixes]
  <2>1. configs' = [n \in Names |-> IF p[n] # Absent /\ p[n].config # Absent THEN p[n].config ELSE configs[n]]
    BY <1>2 DEF Learns, Configs
  <2> QED
    BY <1>0, <1>1, <2>1 DEF CardsTyped
<1>4. prompts' \in [Names -> 0 .. MaxAsked]
  <2>1. prompts' = [n \in Names |-> IF p[n] = Absent THEN 0 ELSE p[n].challenge]
    BY <1>2 DEF Learns
  <2> QED
    BY <1>0, <1>1, <2>1
<1>5. \A n \in News(p) : n \in Names /\ p[n].result \in 1 .. MaxAsked
  <2> SUFFICES ASSUME NEW n \in News(p) PROVE n \in Names /\ p[n].result \in 1 .. MaxAsked
    OBVIOUS
  <2>1. n \in Names /\ p[n] # Absent /\ p[n].result # 0
    BY DEF News, Shown
  <2>2. p[n].result \in 0 .. MaxAsked
    BY <1>1, <2>1
  <2> QED
    BY <1>0, <2>1, <2>2
<1>6. seen' \in [Names -> 0 .. MaxAsked]
  <2>1. seen' = [n \in Names |-> IF n \in News(p) THEN p[n].result ELSE seen[n]]
    BY <1>2 DEF Learns
  <2> QED
    BY <1>0, <1>5, <2>1 DEF CardsTyped
<1>7. toasted' \subseteq 1 .. MaxAsked
  <2>1. toasted' = toasted \cup {p[n].result : n \in News(p)}
    BY <1>2 DEF Learns
  <2>2. toasted \subseteq 1 .. MaxAsked
    BY <1>0 DEF CardsTyped
  <2> QED
    BY ONLY <1>5, <2>1, <2>2
<1>8. again' \in BOOLEAN
  BY <1>2 DEF Learns
<1>9. empty' \in BOOLEAN /\ form' \in {"none", "placed", "cut"} /\ stuck' \subseteq stuck
  BY <1>0 DEF Render, Cleared, CardsTyped
<1>10. cards' \in [Names -> Card \cup {Absent}]
  <2>1. CASE Names = {}
    BY <2>1 DEF Render, Cleared, Nothing, Cards
  <2>2. CASE Names # {}
    BY <2>2, RenderIs
  <2> QED
    BY <2>1, <2>2
<1> QED
  BY <1>3, <1>4, <1>6, <1>7, <1>8, <1>9, <1>10

(* A button that still waits was there before, on a card that shows what it did. *)
LEMMA RenderWaits ==
  ASSUME Typed, NEW p \in Messages, NEW refresh \in BOOLEAN, Render(p, refresh), online' = online,
         NEW n \in Names, Waits(n)'
  PROVE  Waits(n) /\ ~Alters(p, n) /\ cards'[n].status = cards[n].status /\ cards'[n].virtual = cards[n].virtual
<1>1. /\ p[n] # Absent /\ cards'[n].status = p[n].status /\ cards'[n].virtual = p[n].virtual
      /\ cards[n] # Absent /\ cards[n].disabled
      /\ cards[n].status = p[n].status /\ cards[n].virtual = p[n].virtual
  BY RenderIs DEF Waits
<1>2. stuck' = {m \in stuck : cards'[m] # Absent /\ cards'[m].disabled}
  BY DEF Render
<1>3. n \notin stuck
  BY <1>2 DEF Waits
<1> QED
  BY <1>1, <1>3 DEF Waits, Alters

(* A client that was declared has no configuration to show. *)
LEMMA RenderStored ==
  ASSUME Stored, UNCHANGED Aside, NEW p, Sound(p), NEW refresh, Render(p, refresh)
  PROVE  \A n \in Names : Declared(n)' => configs'[n] = Absent
<1> SUFFICES ASSUME NEW n \in Names, Declared(n) PROVE configs'[n] = Absent
  BY AsideStill
<1>1. configs'[n] = IF p[n] # Absent /\ p[n].config # Absent THEN p[n].config ELSE configs[n]
  BY DEF Render, Learns, Configs
<1> QED
  BY <1>1 DEF Stored, Sound

(* The results that are told: what was on its way is known by then, and nothing is twice. *)
LEMMA RenderTells ==
  ASSUME Typed, NEW p \in Messages, NEW refresh, Render(p, refresh), NEW n \in Names
  PROVE  /\ seen'[n] = IF Res(p, n) \in {0, seen[n]} THEN seen[n] ELSE Res(p, n)
         /\ \A k \in toasted' : k \in toasted \/ \E m \in Names : k = Res(p, m)
         /\ \A k \in toasted : k \in toasted'
         /\ again' => again \/ \E m \in Names : /\ Res(p, m) \in toasted
                                               /\ Res(p, m) \notin {0, seen[m]}
<1>1. News(p) = {m \in Names : Res(p, m) \notin {0, seen[m]}}
  BY DEF News, Shown, Res
<1>2. \A m \in News(p) : m \in Names /\ p[m] # Absent /\ p[m].result = Res(p, m)
  BY DEF News, Shown, Res
<1>3. Learns(p)
  BY DEF Render
<1>4. seen'[n] = IF n \in News(p) THEN p[n].result ELSE seen[n]
  BY <1>3 DEF Learns
<1>5. seen'[n] = IF Res(p, n) \in {0, seen[n]} THEN seen[n] ELSE Res(p, n)
  BY <1>1, <1>2, <1>4
<1>6. toasted' = toasted \cup {p[m].result : m \in News(p)}
  BY <1>3 DEF Learns
<1>7. again' => again \/ \E m \in News(p) : p[m].result \in toasted
  BY <1>3 DEF Learns
<1> QED
  BY <1>1, <1>2, <1>5, <1>6, <1>7
-----------------------------------------------------------------------------
(* What the page's own steps need not touch. *)
LEMMA AsideTyped ==
  ASSUME Typed, UNCHANGED Aside, online' \in BOOLEAN
  PROVE  OwnTyped' /\ AskedTyped' /\ PassTyped' /\ (Single => Single')
<1>1. OwnTyped' /\ PassTyped'
  BY TypedNow, AsideIs DEF OwnTyped, PassTyped
<1>2. AskedTyped'
  BY TypedNow, AsideIs DEF AskedTyped
<1>3. Single => Single'
  BY AsideStill
<1> QED
  BY <1>1, <1>2, <1>3

(* What the page knows of results, or will. *)
LEMMA IsTold ==
  ASSUME Typed, NEW n \in Names
  PROVE  /\ \A i \in 1 .. Len(stream) : Told(n, Res(stream[i], n))
         /\ Told(n, results[n]) /\ Told(n, seen[n])
         /\ answer # NoAnswer => Told(n, Res(answer.payload, n))
<1>1. \A i \in 1 .. Len(stream) : i \in 1 .. Len(stream) + 1 /\ Line(n)[i] = Res(stream[i], n)
  BY LineIs
<1>2. Len(stream) + 1 \in 1 .. Len(stream) + 1 /\ Line(n)[Len(stream) + 1] = results[n]
  BY LineIs
<1> QED
  BY <1>1, <1>2 DEF Told

LEMMA StillFresh ==
  ASSUME Typed', UNCHANGED Aside, Fresh, OfOne,
         \A k \in toasted' : k \in toasted \/ \E m \in Names : Told(m, k),
         \A n \in Names :
           /\ seen'[n] = 0 \/ Told(n, seen'[n])
           /\ \A i \in 1 .. Len(stream') : Res(stream'[i], n) = 0 \/ Told(n, Res(stream'[i], n))
           /\ Told(n, results[n])
           /\ answer' # NoAnswer => Res(answer'.payload, n) = 0 \/ Told(n, Res(answer'.payload, n))
  PROVE  Fresh' /\ OfOne'
<1>1. ASSUME NEW n \in Names, NEW k \in Nat \ {0}, Told(n, k)' PROVE Told(n, k)
  <2>1. CASE seen'[n] = k
    BY <2>1
  <2>2. CASE answer' # NoAnswer /\ Res(answer'.payload, n) = k
    BY <2>2
  <2>3. CASE \E i \in 1 .. Len(stream') + 1 : Line(n)'[i] = k
    <3>1. PICK i \in 1 .. Len(stream') + 1 : Line(n)'[i] = k
      BY <2>3
    <3>2. CASE i \in 1 .. Len(stream')
      BY <3>1, <3>2, NextLineIs
    <3>3. CASE i \notin 1 .. Len(stream')
      <4>1. results'[n] = k
        BY <3>1, <3>3, NextLineIs
      <4> QED
        BY <4>1, AsideIs
    <3> QED
      BY <3>2, <3>3
  <2> QED
    BY <1>1, <2>1, <2>2, <2>3 DEF Told, Res
<1>2. Fresh'
  <2> SUFFICES ASSUME NEW k \in Nat \ {0}, Pending(k)'
               PROVE  k \notin toasted' /\ \A n \in Names : ~Told(n, k)'
    BY DEF Fresh
  <2>1. Pending(k)
    BY AsideStill
  <2>2. k \notin toasted /\ \A n \in Names : ~Told(n, k)
    BY <2>1 DEF Fresh
  <2> QED
    BY <1>1, <2>2
<1>3. OfOne'
  BY <1>1 DEF OfOne
<1> QED
  BY <1>2, <1>3

(* The page is loaded again, *)
LEMMA ReloadKeeps ==
  ASSUME PageInv, DashboardInv, DashboardInv', Reload
  PROVE  PageInv'
<1>0. /\ Typed /\ Stored /\ Single /\ Fresh /\ OfOne /\ TaskShape
      /\ tasks \in [Slots -> Task] /\ UNCHANGED Aside
  BY DEF PageInv, DashboardInv, TaskShape, Reload
<1>1. /\ cards' = Nothing /\ configs' = Nothing /\ prompts' = NoneOf /\ seen' = NoneOf /\ toasted' = {}
      /\ empty' = TRUE /\ form' = "none" /\ answer' = NoAnswer
      /\ behind' = FALSE /\ apart' = FALSE /\ again' = FALSE /\ lagging' = {} /\ stuck' = {}
      /\ online' = FALSE /\ stream' = <<>>
      /\ tasks' = [t \in Slots |-> [tasks[t] EXCEPT !.page = FALSE]]
  BY DEF Reload
<1>2. OwnTyped' /\ AskedTyped' /\ PassTyped' /\ Single'
  <2>1. online' \in BOOLEAN
    BY <1>1
  <2> QED
    BY <1>0, <2>1, AsideTyped
<1>3. IdleTyped'
  <2>1. \A t \in Slots : tasks'[t] = [tasks[t] EXCEPT !.page = FALSE] /\ tasks'[t].at = tasks[t].at
    BY <1>0, <1>1 DEF Task
  <2>2. ASSUME NEW t \in Slots, tasks'[t].at = "none" PROVE tasks'[t] = Idle
    <3>1. tasks[t] = Idle
      BY <2>1, <2>2, <1>0, TypedNow DEF IdleTyped
    <3>2. tasks'[t] = [Idle EXCEPT !.page = FALSE]
      BY <2>1, <3>1
    <3>3. Idle = [job |-> "none", at |-> "none", name |-> Absent, adapter |-> Absent,
                  prefix |-> Absent, page |-> FALSE]
      BY DEF Idle
    <3> QED
      BY ONLY <3>2, <3>3
  <2> QED
    BY <1>1, <2>2 DEF IdleTyped
<1>4. SentTyped' /\ CardsTyped'
  <2>1. 0 \in 0 .. MaxAsked /\ 0 <= MaxStream
    BY DashboardAssumption
  <2>2. SentTyped'
    BY <1>1, <2>1 DEF SentTyped
  <2>3. cards' \in [Names -> Card \cup {Absent}] /\ configs' \in [Names -> {Absent} \cup Prefixes]
    BY <1>1 DEF Nothing
  <2>4. prompts' \in [Names -> 0 .. MaxAsked] /\ seen' \in [Names -> 0 .. MaxAsked]
    BY <1>1, <2>1 DEF NoneOf
  <2> QED
    BY <1>1, <2>2, <2>3, <2>4 DEF CardsTyped
<1>5. Typed'
  BY <1>1, <1>2, <1>3, <1>4, TypedNext
<1>6. Following' /\ Released'
  BY <1>1 DEF Following, Released, Waits
<1>7. Stored'
  <2>1. \A n \in Names : configs'[n] = Absent
    BY <1>1 DEF Nothing
  <2>2. \A n \in Names : reg'[n] # Absent => (reg'[n].virtual <=> config'[n] # Absent)
    BY <1>0, AsideIs DEF Stored
  <2> QED
    BY <1>1, <2>1, <2>2 DEF Stored
<1>8. Fresh' /\ OfOne'
  <2>1. \A n \in Names : seen'[n] = 0 /\ Told(n, results[n])
    BY <1>0, <1>1, IsTold DEF NoneOf
  <2> QED
    BY <1>0, <1>1, <1>5, <2>1, StillFresh
<1>9. ShownOnce'
  <2>1. ASSUME NEW n \in Names PROVE InLine(n)' /\ AnswerInLine(n)'
    <3>1. PICK next : next = Line(n)'
      OBVIOUS
    <3>2. DOMAIN next = {1}
      BY <1>1, <1>5, <3>1, NextLineIs
    <3>3. Ordered(next, seen'[n], toasted')
      BY <1>1, <3>2 DEF Ordered, Between
    <3>4. InLine(n)'
      BY <3>1, <3>3 DEF InLine, Ordered, Between
    <3> QED
      BY <1>1, <3>4 DEF AnswerInLine
  <2> QED
    BY <1>1, <2>1 DEF ShownOnce
<1> QED
  BY <1>2, <1>5, <1>6, <1>7, <1>8, <1>9 DEF PageInv

(* connects, *)
LEMMA ConnectsKeeps ==
  ASSUME PageInv, DashboardInv, DashboardInv', Connects
  PROVE  PageInv'
<1>0. /\ Typed /\ Stored /\ Following /\ Single /\ Fresh /\ OfOne /\ ShownOnce /\ ListenerFollows
      /\ UNCHANGED Aside /\ UNCHANGED page
  BY DEF PageInv, DashboardInv, Prompting, PromptsAgree, Connects
<1>1. PICK p : p = Payload(reg, images, challenges, results, config)
  OBVIOUS
<1>2. /\ ~online /\ online' = TRUE /\ stream' = <<p>> /\ lagging' = {} /\ tasks' = tasks
      /\ stuck' = stuck \cup {n \in Names : cards[n] # Absent /\ cards[n].disabled}
  BY <1>1 DEF Connects
<1>3. stream = <<>>
  BY <1>0, <1>2 DEF Following
<1>4. OwnTyped' /\ AskedTyped' /\ PassTyped' /\ Single'
  <2>1. online' \in BOOLEAN
    BY <1>2
  <2> QED
    BY <1>0, <2>1, AsideTyped
<1>5. CardsTyped' /\ IdleTyped'
  BY <1>0, <1>2, TypedNow DEF CardsTyped, IdleTyped, page
<1>6. SentTyped'
  <2>1. p \in Messages
    <3>1. /\ \A n \in Names : reg[n] # Absent => reg[n] \in Entry
          /\ images \in [Names -> {Absent} \cup Qrs] /\ config \in [Names -> {Absent} \cup Prefixes]
      BY TypedNow DEF OwnTyped, DashboardInv, RegShape, ViewShape, PageInv
    <3>2. challenges \in [Names -> 0..MaxAsked] /\ results \in [Names -> 0..MaxAsked]
      BY <1>0, TypedNow, DashboardAssumption DEF AskedTyped
    <3> QED
      BY <1>1, <3>1, <3>2, PayloadIs
  <2> QED
    BY <1>2, <2>1, DashboardAssumption DEF SentTyped
<1>7. Typed'
  BY <1>2, <1>4, <1>5, <1>6, TypedNext
<1>8. p \in Messages /\ Right(p)' /\ Sound(p)'
  BY <1>0, <1>1, <1>7, NowServes
<1>9. Following'
  <2>1. Last(stream') = p /\ stream' # <<>>
    BY <1>2 DEF Last
  <2>2. Right(Last(stream))'
    BY <1>8, <2>1 DEF Right, CardOf, Shows
  <2> QED
    BY <1>2, <2>1, <2>2 DEF Following
<1>10. Stored'
  <2>1. configs' = configs /\ answer' = answer
    BY <1>0 DEF page
  <2>2. \A n \in Names : reg'[n] # Absent => (reg'[n].virtual <=> config'[n] # Absent)
    BY <1>0, AsideIs DEF Stored
  <2>3. \A n \in Names : Declared(n)' => configs'[n] = Absent
    BY <1>0, <2>1, AsideStill DEF Stored
  <2>4. answer' # NoAnswer => Sound(answer.payload)'
    BY <1>0, <2>1, AsideStill DEF Stored, Sound
  <2>5. \A i \in DOMAIN stream' : stream'[i] = p
    BY <1>2
  <2>6. (\A i \in DOMAIN stream : Sound(stream[i]))'
    BY <1>8, <2>5 DEF Sound
  <2> QED
    BY <2>2, <2>3, <2>4, <2>6 DEF Stored
<1>11. Released'
  <2>1. cards' = cards
    BY <1>0 DEF page
  <2> QED
    BY <1>2, <2>1 DEF Released, Waits
<1>12. Fresh' /\ OfOne' /\ ShownOnce'
  <2>1. Ends
    <3>1. \A n \in Names : results'[n] = results[n] /\ (results[n] # 0 => ~Pending(results[n]))
      BY <1>0, AsideIs, KnownIsPast
    <3>2. \A k \in Nat \ {0} : Pending(k)' => Pending(k)
      BY <1>0, AsideStill
    <3> QED
      BY <3>1, <3>2 DEF Ends
  <2>2. Goes
    <3>1. p = Payload(reg', images', challenges', results', config)
      BY <1>0, <1>1, AsideIs DEF Payload, Qr
    <3>2. stream' = Append(stream, p)
      BY <1>2, <1>3
    <3> QED
      BY <3>1, <3>2 DEF Goes
  <2> QED
    BY <1>0, <1>7, <2>1, <2>2, ServerTells
<1> QED
  BY <1>4, <1>7, <1>9, <1>10, <1>11, <1>12 DEF PageInv

(* or loses its connection. *)
LEMMA CutKeeps ==
  ASSUME PageInv, DashboardInv', Cut
  PROVE  PageInv'
<1>0. /\ Typed /\ Stored /\ Single /\ Fresh /\ OfOne /\ ShownOnce
      /\ UNCHANGED Aside /\ UNCHANGED page
      /\ online' = FALSE /\ stream' = <<>> /\ tasks' = tasks /\ stuck' = stuck /\ lagging' = lagging
  BY DEF PageInv, Cut
<1>1. /\ configs' = configs /\ answer' = answer /\ cards' = cards /\ seen' = seen
      /\ toasted' = toasted /\ apart' = apart /\ again' = again
  BY <1>0 DEF page
<1>2. OwnTyped' /\ AskedTyped' /\ PassTyped' /\ Single'
  <2>1. online' \in BOOLEAN
    BY <1>0
  <2> QED
    BY <1>0, <2>1, AsideTyped
<1>3. CardsTyped' /\ IdleTyped' /\ SentTyped' /\ lagging' \subseteq Names
  <2>1. CardsTyped' /\ IdleTyped' /\ SentTyped'
    BY <1>0, TypedNow, DashboardAssumption DEF CardsTyped, IdleTyped, SentTyped, page
  <2> QED
    BY <1>0, <2>1 DEF Typed, TypeOK
<1>4. Typed'
  BY <1>2, <1>3, TypedNext
<1>5. Following' /\ Released'
  BY <1>0 DEF Following, Released, Waits
<1>6. Stored'
  <2>1. \A n \in Names : reg'[n] # Absent => (reg'[n].virtual <=> config'[n] # Absent)
    BY <1>0, AsideIs DEF Stored
  <2>2. \A n \in Names : Declared(n)' => configs'[n] = Absent
    BY <1>0, <1>1, AsideStill DEF Stored
  <2>3. answer' # NoAnswer => Sound(answer.payload)'
    BY <1>0, <1>1, AsideStill DEF Stored, Sound
  <2> QED
    BY <1>0, <2>1, <2>2, <2>3 DEF Stored
<1>7. Fresh' /\ OfOne'
  <2>1. \A n \in Names : /\ Told(n, seen'[n]) /\ Told(n, results[n])
                         /\ answer' # NoAnswer => Told(n, Res(answer'.payload, n))
    BY <1>0, <1>1, IsTold
  <2> QED
    BY <1>0, <1>1, <1>4, <2>1, StillFresh
<1>8. ShownOnce'
  <2>1. ASSUME NEW n \in Names, InLine(n) PROVE InLine(n)'
    <3>1. PICK next : next = Line(n)'
      OBVIOUS
    <3>2. DOMAIN next = {1} /\ next[1] = results[n]
      BY <1>0, <1>4, <3>1, NextLineIs, AsideIs
    <3>3. results[n] \in toasted => seen[n] = results[n]
      BY <1>0, <2>1, LineIs DEF InLine, Ordered
    <3>4. Ordered(next, seen[n], toasted)
      BY <3>2, <3>3 DEF Ordered, Between
    <3> QED
      BY <1>1, <3>1, <3>4 DEF InLine, Ordered, Between
  <2>2. ASSUME NEW n \in Names, AnswerInLine(n) PROVE AnswerInLine(n)'
    BY <1>0, <1>1, <2>2, AsideIs DEF AnswerInLine, Res
  <2> QED
    BY <1>0, <1>1, <2>1, <2>2 DEF ShownOnce
<1> QED
  BY <1>2, <1>4, <1>5, <1>6, <1>7, <1>8 DEF PageInv
-----------------------------------------------------------------------------
(* What the page shows stays right while it shows the same. *)
LEMMA CardsStill ==
  ASSUME UNCHANGED Aside, lagging' = lagging, configs' = configs, form' = form,
         \A n \in Names :
           /\ cards'[n] = Absent <=> cards[n] = Absent
           /\ cards[n] # Absent => /\ cards'[n].status = cards[n].status
                                   /\ cards'[n].virtual = cards[n].virtual
                                   /\ cards'[n].panel = cards[n].panel,
         CardsRight
  PROVE  CardsRight'
<1> SUFFICES ASSUME NEW n \in Names
             PROVE  /\ Shows(cards[n], n)'
                    /\ (listening'[n] # Absent /\ form' # "cut") => cards'[n] # Absent
                    /\ cards'[n] # Absent => HasPrefix(configs[n], n)'
  BY DEF CardsRight
<1>1. Shows(cards[n], n)'
  BY AsideIs, AsideStill DEF CardsRight, Shows
<1>2. (listening'[n] # Absent /\ form' # "cut") => cards'[n] # Absent
  BY AsideIs DEF CardsRight
<1>3. cards'[n] # Absent => HasPrefix(configs[n], n)'
  BY AsideIs DEF CardsRight, HasPrefix
<1> QED
  BY <1>1, <1>2, <1>3

(* The messages on their way stay right and sound. *)
LEMMA StreamStill ==
  ASSUME UNCHANGED Aside, stream' = stream, online' = online, lagging' = lagging, Following, Stored
  PROVE  /\ ~online' => stream' = <<>>
         /\ (online' /\ stream' # <<>>) => Right(Last(stream))'
         /\ \A n \in Names : reg'[n] # Absent => (reg'[n].virtual <=> config'[n] # Absent)
         /\ (\A i \in DOMAIN stream : Sound(stream[i]))'
<1>1. ASSUME online, stream # <<>> PROVE Right(Last(stream))'
  <2>1. PICK p : p = Last(stream)
    OBVIOUS
  <2>2. Right(p)'
    BY <1>1, <2>1, AsideRight DEF Following
  <2> QED
    BY <2>1, <2>2 DEF Right, CardOf, Shows, Last
<1>2. \A n \in Names : reg'[n] # Absent => (reg'[n].virtual <=> config'[n] # Absent)
  BY AsideIs DEF Stored
<1>3. (\A i \in DOMAIN stream : Sound(stream[i]))'
  <2> SUFFICES ASSUME NEW i \in DOMAIN stream PROVE Sound(stream[i])'
    OBVIOUS
  <2>1. PICK p : p = stream[i]
    OBVIOUS
  <2>2. Sound(p)'
    BY <2>1, AsideStill DEF Stored
  <2> QED
    BY <2>1, <2>2 DEF Sound
<1> QED
  BY <1>1, <1>2, <1>3 DEF Following

(* The page asks for all there is, *)
LEMMA RefreshKeeps ==
  ASSUME PageInv, DashboardInv, DashboardInv', Refresh
  PROVE  PageInv'
<1>0. /\ Typed /\ Stored /\ Following /\ Single /\ Fresh /\ OfOne /\ ShownOnce /\ Released
      /\ ListenerFollows /\ UNCHANGED Aside
  BY DEF PageInv, DashboardInv, Prompting, PromptsAgree, Refresh
<1>1. PICK p : p = Payload(reg, images, challenges, results, config)
  OBVIOUS
<1>2. /\ answer' = [payload |-> p, old |-> FALSE] /\ answer = NoAnswer
      /\ tasks' = tasks /\ stuck' = stuck /\ online' = online /\ stream' = stream /\ cards' = cards
      /\ configs' = configs /\ prompts' = prompts /\ seen' = seen /\ toasted' = toasted /\ empty' = empty
      /\ form' = form /\ behind' = behind /\ apart' = apart /\ again' = again /\ lagging' = lagging
  BY <1>1 DEF Refresh
<1>3. p \in Messages
  <2>1. /\ \A n \in Names : reg[n] # Absent => reg[n] \in Entry
        /\ images \in [Names -> {Absent} \cup Qrs] /\ config \in [Names -> {Absent} \cup Prefixes]
    BY TypedNow DEF OwnTyped, DashboardInv, RegShape, ViewShape, PageInv
  <2>2. challenges \in [Names -> 0..MaxAsked] /\ results \in [Names -> 0..MaxAsked]
    BY <1>0, TypedNow, DashboardAssumption DEF AskedTyped
  <2> QED
    BY <1>1, <2>1, <2>2, PayloadIs
<1>4. OwnTyped' /\ AskedTyped' /\ PassTyped' /\ Single'
  <2>1. online' \in BOOLEAN
    BY <1>0, <1>2, TypedNow DEF OwnTyped
  <2> QED
    BY <1>0, <2>1, AsideTyped
<1>5. CardsTyped' /\ IdleTyped' /\ SentTyped' /\ lagging' \subseteq Names
  <2>1. IdleTyped' /\ SentTyped' /\ lagging' \subseteq Names
    BY <1>0, <1>2, TypedNow DEF IdleTyped, SentTyped, Typed, TypeOK
  <2>2. answer' \in {NoAnswer} \cup [payload : Messages, old : BOOLEAN]
    BY <1>2, <1>3
  <2>3. CardsTyped'
    BY <1>0, <1>2, <2>2, TypedNow DEF CardsTyped
  <2> QED
    BY <2>1, <2>3
<1>6. Typed'
  BY <1>4, <1>5, TypedNext
<1>7. /\ Right(p)' /\ Sound(p)'
      /\ \A n \in Names : Res(p, n) \in {0, results[n]}
  BY <1>0, <1>1, <1>6, NowServes
<1>8. answer'.payload = p
  BY <1>2
<1>9. Following'
  <2>1. Right(answer.payload)'
    BY <1>7, <1>8 DEF Right, CardOf, Shows
  <2>2. CardsRight => CardsRight'
    BY <1>0, <1>2, CardsStill
  <2>3. (~online' => stream' = <<>>) /\ ((online' /\ stream' # <<>>) => Right(Last(stream))')
    BY <1>0, <1>2, StreamStill
  <2> QED
    BY <1>0, <1>2, <2>1, <2>2, <2>3 DEF Following
<1>10. Stored'
  <2>1. Sound(answer.payload)'
    BY <1>7, <1>8 DEF Sound
  <2>2. \A n \in Names : Declared(n)' => configs'[n] = Absent
    BY <1>0, <1>2, AsideStill DEF Stored
  <2> QED
    BY <1>0, <1>2, <2>1, <2>2, StreamStill DEF Stored
<1>11. Released'
  BY <1>0, <1>2 DEF Released, Waits, Awaited, Alters
<1>12. Fresh' /\ OfOne'
  <2>1. \A n \in Names : /\ \A i \in 1 .. Len(stream) : Told(n, Res(stream[i], n))
                         /\ Told(n, results[n]) /\ Told(n, seen[n])
    BY <1>0, IsTold
  <2>2. \A n \in Names : Res(answer'.payload, n) = 0 \/ Told(n, Res(answer'.payload, n))
    BY <1>7, <1>8, <2>1
  <2> QED
    BY <1>0, <1>2, <1>6, <2>1, <2>2, StillFresh
<1>13. ShownOnce'
  <2>1. ASSUME NEW n \in Names, InLine(n) PROVE InLine(n)' /\ AnswerInLine(n)'
    <3>1. Line(n)' = Line(n)
      BY <1>0, <1>2, AsideIs DEF Line, Res
    <3>2. InLine(n)'
      BY <1>2, <2>1, <3>1 DEF InLine, Ordered, Between
    <3>3. results[n] \in toasted => seen[n] = results[n]
      BY <1>0, <2>1, LineIs DEF InLine, Ordered
    <3>4. 0 \notin toasted
      BY <1>0, TypedNow DEF CardsTyped
    <3>5. Res(answer.payload, n)' = Res(p, n) /\ results'[n] = results[n]
      BY <1>0, <1>8, AsideIs DEF Res
    <3>6. AnswerInLine(n)'
      BY <1>2, <1>7, <3>3, <3>4, <3>5 DEF AnswerInLine
    <3> QED
      BY <3>2, <3>6
  <2> QED
    BY <1>0, <1>2, <2>1 DEF ShownOnce
<1> QED
  BY <1>4, <1>6, <1>9, <1>10, <1>11, <1>12, <1>13 DEF PageInv

(* and gets no answer. *)
LEMMA RefreshFailsKeeps ==
  ASSUME PageInv, DashboardInv', RefreshFails
  PROVE  PageInv'
<1>0. /\ Typed /\ Stored /\ Following /\ Single /\ Fresh /\ OfOne /\ ShownOnce /\ UNCHANGED Aside
  BY DEF PageInv, RefreshFails
<1>1. /\ answer' = NoAnswer /\ cards' = Nothing /\ empty' = TRUE
      /\ form' = (IF form = "placed" THEN "cut" ELSE form)
      /\ tasks' = tasks /\ stuck' = {} /\ online' = online /\ stream' = stream
      /\ configs' = configs /\ prompts' = prompts /\ seen' = seen /\ toasted' = toasted
      /\ behind' = TRUE /\ apart' = apart /\ again' = again /\ lagging' = lagging
  BY DEF RefreshFails, Cleared
<1>2. OwnTyped' /\ AskedTyped' /\ PassTyped' /\ Single'
  <2>1. online' \in BOOLEAN
    BY <1>0, <1>1, TypedNow DEF OwnTyped
  <2> QED
    BY <1>0, <2>1, AsideTyped
<1>3. CardsTyped' /\ IdleTyped' /\ SentTyped' /\ lagging' \subseteq Names
  <2>1. IdleTyped' /\ SentTyped' /\ lagging' \subseteq Names
    BY <1>0, <1>1, TypedNow DEF IdleTyped, SentTyped, Typed, TypeOK
  <2>2. cards' \in [Names -> Card \cup {Absent}]
    BY <1>1 DEF Nothing
  <2>3. CardsTyped'
    BY <1>0, <1>1, <2>2, TypedNow DEF CardsTyped
  <2> QED
    BY <2>1, <2>3
<1>4. Typed'
  BY <1>2, <1>3, TypedNext
<1>5. Following'
  BY <1>0, <1>1, StreamStill DEF Following
<1>6. Stored'
  <2>1. \A n \in Names : Declared(n)' => configs'[n] = Absent
    BY <1>0, <1>1, AsideStill DEF Stored
  <2> QED
    BY <1>0, <1>1, <2>1, StreamStill DEF Stored
<1>7. Released'
  BY <1>1 DEF Released, Waits, Nothing
<1>8. Fresh' /\ OfOne'
  <2>1. \A n \in Names : /\ \A i \in 1 .. Len(stream) : Told(n, Res(stream[i], n))
                         /\ Told(n, results[n]) /\ Told(n, seen[n])
    BY <1>0, IsTold
  <2> QED
    BY <1>0, <1>1, <1>4, <2>1, StillFresh
<1>9. ShownOnce'
  <2>1. ASSUME NEW n \in Names, InLine(n) PROVE InLine(n)' /\ AnswerInLine(n)'
    <3>1. Line(n)' = Line(n)
      BY <1>0, <1>1, AsideIs DEF Line, Res
    <3> QED
      BY <1>1, <2>1, <3>1 DEF InLine, Ordered, Between, AnswerInLine
  <2> QED
    BY <1>0, <1>1, <2>1 DEF ShownOnce
<1> QED
  BY <1>2, <1>4, <1>5, <1>6, <1>7, <1>8, <1>9 DEF PageInv

(* What the page hears and shows stays, but for buttons whose requests are under way. *)
LEMMA PageStill ==
  ASSUME PageInv, DashboardInv', IdleTyped',
         UNCHANGED <<Aside, online, stream, configs, prompts, seen, toasted, empty, form,
                     answer, behind, apart, again, lagging>>,
         cards' \in [Names -> Card \cup {Absent}],
         \A m \in Names :
           /\ cards'[m] = Absent <=> cards[m] = Absent
           /\ cards[m] # Absent => /\ cards'[m].status = cards[m].status
                                   /\ cards'[m].virtual = cards[m].virtual
                                   /\ cards'[m].panel = cards[m].panel,
         \A m \in Names : Waits(m)' =>
           \/ \E t \in Slots : Awaited(t, m)'
           \/ Waits(m) /\ \A t \in Slots : Awaited(t, m) => Awaited(t, m)'
  PROVE  PageInv'
<1>0. /\ Typed /\ Stored /\ Following /\ Single /\ Fresh /\ OfOne /\ ShownOnce /\ Released
      /\ UNCHANGED Aside
  BY DEF PageInv
<1>1. /\ online' = online /\ stream' = stream /\ configs' = configs /\ prompts' = prompts
      /\ seen' = seen /\ toasted' = toasted /\ empty' = empty /\ form' = form /\ answer' = answer
      /\ behind' = behind /\ apart' = apart /\ again' = again /\ lagging' = lagging
  OBVIOUS
<1>3. OwnTyped' /\ AskedTyped' /\ PassTyped' /\ Single'
  <2>1. online' \in BOOLEAN
    BY <1>0, <1>1, TypedNow DEF OwnTyped
  <2> QED
    BY <1>0, <2>1, AsideTyped
<1>4. CardsTyped' /\ SentTyped' /\ lagging' \subseteq Names
  <2>1. SentTyped' /\ lagging' \subseteq Names
    BY <1>0, <1>1, TypedNow DEF SentTyped, Typed, TypeOK
  <2>2. CardsTyped'
    BY <1>0, <1>1, TypedNow DEF CardsTyped
  <2> QED
    BY <2>1, <2>2
<1>5. Typed'
  BY <1>3, <1>4, TypedNext
<1>6. Following'
  <2>1. CardsRight => CardsRight'
    BY <1>0, <1>1, CardsStill
  <2>2. (~online' => stream' = <<>>) /\ ((online' /\ stream' # <<>>) => Right(Last(stream))')
    BY <1>0, <1>1, StreamStill
  <2>3. PICK p : p = answer.payload
    OBVIOUS
  <2>4. Right(p) => Right(p)'
    BY <1>0, <1>1, AsideRight
  <2>5. Right(answer.payload) => Right(answer.payload)'
    BY <1>1, <2>3, <2>4 DEF Right, CardOf, Shows
  <2> QED
    BY <1>0, <1>1, <2>1, <2>2, <2>5 DEF Following
<1>7. Stored'
  <2>1. \A m \in Names : Declared(m)' => configs'[m] = Absent
    BY <1>0, <1>1, AsideStill DEF Stored
  <2>2. answer' # NoAnswer => Sound(answer.payload)'
    BY <1>0, <1>1, AsideStill DEF Stored, Sound
  <2> QED
    BY <1>0, <1>1, <2>1, <2>2, StreamStill DEF Stored
<1>8. Released'
  <2> SUFFICES ASSUME NEW m \in Names, Waits(m)'
               PROVE  (\E u \in Slots : Awaited(u, m)') \/ \E i \in DOMAIN stream : Alters(stream[i], m)'
    BY <1>1 DEF Released
  <2>1. CASE \E u \in Slots : Awaited(u, m)'
    BY <2>1
  <2>2. CASE Waits(m) /\ \A u \in Slots : Awaited(u, m) => Awaited(u, m)'
    <3>1. cards[m] # Absent
      BY <2>2 DEF Waits
    <3>2. (\E i \in DOMAIN stream : Alters(stream[i], m)) => \E i \in DOMAIN stream : Alters(stream[i], m)'
      BY <1>1, <3>1 DEF Alters
    <3> QED
      BY <1>0, <2>2, <3>2 DEF Released
  <2> QED
    BY <2>1, <2>2
<1>9. Fresh' /\ OfOne'
  <2>1. \A m \in Names : /\ \A i \in 1 .. Len(stream) : Told(m, Res(stream[i], m))
                         /\ Told(m, results[m]) /\ Told(m, seen[m])
                         /\ answer # NoAnswer => Told(m, Res(answer.payload, m))
    BY <1>0, IsTold
  <2> QED
    BY <1>0, <1>1, <1>5, <2>1, StillFresh
<1>10. ShownOnce'
  <2>1. ASSUME NEW m \in Names PROVE (InLine(m) => InLine(m)') /\ (AnswerInLine(m) => AnswerInLine(m)')
    <3>1. Line(m)' = Line(m)
      BY <1>0, <1>1, AsideIs DEF Line, Res
    <3>2. InLine(m) => InLine(m)'
      BY <1>1, <3>1 DEF InLine, Ordered, Between
    <3>3. AnswerInLine(m) => AnswerInLine(m)'
      BY <1>0, <1>1, AsideIs DEF AnswerInLine, Res
    <3> QED
      BY <3>2, <3>3
  <2> QED
    BY <1>0, <1>1, <2>1 DEF ShownOnce
<1> QED
  BY <1>3, <1>5, <1>6, <1>7, <1>8, <1>9, <1>10 DEF PageInv

(* A request of the page. *)
LEMMA RequestShows ==
  ASSUME PageInv, DashboardInv, DashboardInv',
         NEW t \in Slots, NEW n \in Names, NEW job, NEW prefix, Sent(t, job, n, prefix, TRUE),
         UNCHANGED <<Aside, online, stream, configs, prompts, seen, toasted, empty, form,
                     answer, behind, apart, again, lagging>>,
         cards' \in [Names -> Card \cup {Absent}], stuck' \subseteq Names,
         \A m \in Names :
           /\ cards'[m] = Absent <=> cards[m] = Absent
           /\ cards[m] # Absent => /\ cards'[m].status = cards[m].status
                                   /\ cards'[m].virtual = cards[m].virtual
                                   /\ cards'[m].panel = cards[m].panel,
         \A m \in Names : Waits(m)' => Waits(m) \/ (m = n /\ Awaited(t, n)')
  PROVE  PageInv'
<1>1. ~tasks[t].page /\ IdleTyped' /\ \A u \in Slots \ {t} : tasks'[u] = tasks[u]
  BY SentSettles DEF PageInv, DashboardInv
<1>2. ASSUME NEW m \in Names, Waits(m), NEW u \in Slots, Awaited(u, m) PROVE Awaited(u, m)'
  <2>1. u # t /\ tasks'[u] = tasks[u]
    BY <1>1, <1>2 DEF Awaited
  <2>2. cards'[m].status = cards[m].status
    BY <1>2 DEF Waits
  <2> QED
    BY <1>2, <2>1, <2>2 DEF Awaited
<1>3. \A m \in Names : Waits(m)' =>
        \/ \E u \in Slots : Awaited(u, m)'
        \/ Waits(m) /\ \A u \in Slots : Awaited(u, m) => Awaited(u, m)'
  BY <1>2
<1> QED
  BY <1>1, <1>3, PageStill

(* A click disables the buttons of its card until its request is served, *)
LEMMA ClickKeeps ==
  ASSUME PageInv, DashboardInv, DashboardInv',
         NEW t \in Slots, NEW n \in Names, NEW job, Click(t, n, job)
  PROVE  PageInv'
<1>0. Typed /\ TaskShape /\ CardsTyped /\ IdleTyped
  BY TypedNow DEF PageInv, DashboardInv
<1>1. /\ cards[n] # Absent /\ job \in Buttons(cards[n]) \ {"prefix"} /\ Sent(t, job, n, Absent, TRUE)
      /\ cards' = [cards EXCEPT ![n].disabled = TRUE] /\ stuck' = stuck \ {n} /\ online' = online
  BY DEF Click
<1>2. cards[n] \in Card /\ \A m \in Names : cards[m] \in Card \cup {Absent}
  BY <1>0, <1>1 DEF CardsTyped
<1>3. PICK card \in Card : /\ card.status = cards[n].status /\ card.virtual = cards[n].virtual
                          /\ card.panel = cards[n].panel /\ cards' = [cards EXCEPT ![n] = card]
  <2>1. [cards[n] EXCEPT !.disabled = TRUE] \in Card
    BY <1>2 DEF Card
  <2>2. cards' = [cards EXCEPT ![n] = [cards[n] EXCEPT !.disabled = TRUE]]
    BY <1>1
  <2>3. /\ [cards[n] EXCEPT !.disabled = TRUE].status = cards[n].status
        /\ [cards[n] EXCEPT !.disabled = TRUE].virtual = cards[n].virtual
        /\ [cards[n] EXCEPT !.disabled = TRUE].panel = cards[n].panel
    BY <1>2 DEF Card
  <2> QED
    BY <2>1, <2>2, <2>3
<1>4. cards'[n] = card /\ card # Absent /\ \A m \in Names \ {n} : cards'[m] = cards[m]
  BY <1>0, <1>3, PageAssumption DEF CardsTyped
<1>5. cards' \in [Names -> Card \cup {Absent}] /\ stuck' \subseteq Names
  BY <1>0, <1>1, <1>3 DEF CardsTyped, IdleTyped
<1>6. \A m \in Names :
        /\ cards'[m] = Absent <=> cards[m] = Absent
        /\ cards[m] # Absent => /\ cards'[m].status = cards[m].status
                                /\ cards'[m].virtual = cards[m].virtual
                                /\ cards'[m].panel = cards[m].panel
  BY <1>1, <1>3, <1>4
<1>7. Awaited(t, n)'
  <2>1. tasks'[t].job = job /\ tasks'[t].name = n /\ tasks'[t].page = TRUE
    BY <1>0, <1>1, SentSettles
  <2>2. \/ job \in {"logout", "delete", "passkey-cancel"}
        \/ job \in {"restart", "force-qr"} /\ cards[n].status # "initializing"
    BY <1>1 DEF Buttons
  <2> QED
    BY <1>3, <1>4, <2>1, <2>2 DEF Awaited
<1>8. \A m \in Names : Waits(m)' => Waits(m) \/ (m = n /\ Awaited(t, n)')
  <2>1. ASSUME NEW m \in Names \ {n}, Waits(m)' PROVE Waits(m)
    BY <1>1, <1>4, <2>1 DEF Waits
  <2> QED
    BY <1>7, <2>1
<1>9. UNCHANGED <<Aside, online, stream, configs, prompts, seen, toasted, empty, form,
                  answer, behind, apart, again, lagging>>
  BY DEF Click
<1> QED
  BY <1>1, <1>5, <1>6, <1>8, <1>9, RequestShows

(* and one that signs or saves disables none. *)
LEMMA FormKeeps ==
  ASSUME PageInv, DashboardInv, DashboardInv', NEW t \in Slots, NEW n \in Names,
         NEW job, NEW prefix, Sent(t, job, n, prefix, TRUE),
         UNCHANGED <<Aside, stuck, online, stream, page, lagging>>
  PROVE  PageInv'
<1>1. UNCHANGED <<Aside, online, stream, configs, prompts, seen, toasted, empty, form,
                  answer, behind, apart, again, lagging>>
  BY DEF page
<1>2. cards' = cards /\ stuck' = stuck /\ online' = online
  BY DEF page
<1>3. cards' \in [Names -> Card \cup {Absent}] /\ stuck' \subseteq Names
  BY <1>2, TypedNow DEF PageInv, CardsTyped, IdleTyped
<1>4. \A m \in Names : Waits(m)' => Waits(m) \/ (m = n /\ Awaited(t, n)')
  BY <1>2 DEF Waits
<1>5. \A m \in Names :
        /\ cards'[m] = Absent <=> cards[m] = Absent
        /\ cards[m] # Absent => /\ cards'[m].status = cards[m].status
                                /\ cards'[m].virtual = cards[m].virtual
                                /\ cards'[m].panel = cards[m].panel
  BY <1>2
<1> QED
  BY <1>1, <1>3, <1>4, <1>5, RequestShows
-----------------------------------------------------------------------------
(* The page reads the next message, *)
LEMMA MessageShows ==
  ASSUME PageInv, DashboardInv', Message
  PROVE  PageInv'
<1>0. /\ Typed /\ Stored /\ Following /\ Single /\ Fresh /\ OfOne /\ ShownOnce /\ Released
      /\ UNCHANGED Aside
  BY DEF PageInv, Message
<1>1. PICK p : p = Head(stream)
  OBVIOUS
<1>2. /\ stream # <<>> /\ stream' = Tail(stream) /\ Render(p, FALSE) /\ behind' = FALSE
      /\ answer' = (IF answer = NoAnswer THEN NoAnswer ELSE [answer EXCEPT !.old = TRUE])
      /\ tasks' = tasks /\ online' = online /\ apart' = apart /\ lagging' = lagging
  BY <1>1 DEF Message
<1>3. /\ stream \in Seq(Messages) /\ Len(stream) \in Nat \ {0} /\ p = stream[1] /\ p \in Messages
      /\ stream' \in Seq(Messages) /\ Len(stream') = Len(stream) - 1
      /\ \A i \in 1 .. Len(stream') : stream'[i] = stream[i + 1]
  BY <1>0, <1>1, <1>2 DEF Typed
<1>4. answer' # NoAnswer => /\ answer # NoAnswer /\ answer \in [payload : Messages, old : BOOLEAN]
                            /\ answer'.old = TRUE /\ answer'.payload = answer.payload
                            /\ answer' \in [payload : Messages, old : BOOLEAN]
  <2>1. answer \in {NoAnswer} \cup [payload : Messages, old : BOOLEAN]
    BY <1>0, TypedNow DEF CardsTyped
  <2> QED
    BY <1>2, <2>1
<1>5. /\ cards' \in [Names -> Card \cup {Absent}] /\ configs' \in [Names -> {Absent} \cup Prefixes]
      /\ prompts' \in [Names -> 0 .. MaxAsked] /\ seen' \in [Names -> 0 .. MaxAsked]
      /\ toasted' \subseteq 1 .. MaxAsked /\ again' \in BOOLEAN /\ empty' \in BOOLEAN
      /\ form' \in {"none", "placed", "cut"} /\ stuck' \subseteq stuck
  BY <1>0, <1>2, <1>3, RenderTyped
<1>6. OwnTyped' /\ AskedTyped' /\ PassTyped' /\ Single'
  <2>1. online' \in BOOLEAN
    BY <1>0, <1>2, TypedNow DEF OwnTyped
  <2> QED
    BY <1>0, <2>1, AsideTyped
<1>7. CardsTyped' /\ IdleTyped' /\ SentTyped' /\ lagging' \subseteq Names
  <2>1. IdleTyped' /\ lagging' \subseteq Names
    BY <1>0, <1>2, <1>5, TypedNow DEF IdleTyped, Typed, TypeOK
  <2>2. SentTyped'
    BY <1>0, <1>3, TypedNow, DashboardAssumption DEF SentTyped
  <2>3. behind' \in BOOLEAN /\ apart' \in BOOLEAN
    BY <1>0, <1>2, TypedNow DEF CardsTyped
  <2>4. answer' \in {NoAnswer} \cup [payload : Messages, old : BOOLEAN]
    BY <1>4
  <2>5. CardsTyped'
    BY <1>5, <2>3, <2>4 DEF CardsTyped
  <2> QED
    BY <2>1, <2>2, <2>5
<1>8. Typed'
  BY <1>6, <1>7, TypedNext
<1>9. Sound(p)
  BY <1>0, <1>3 DEF Stored
<1>10. Following'
  <2>1. CASE stream' # <<>>
    <3>1. PICK q : q = Last(stream)
      OBVIOUS
    <3>2. online /\ Right(q)
      BY <1>0, <1>2, <3>1 DEF Following
    <3>3. Right(q)'
      BY <1>0, <1>2, <3>2, AsideRight
    <3>4. Last(stream') = q
      BY <1>3, <2>1, <3>1 DEF Last
    <3>5. Right(Last(stream))'
      BY <3>3, <3>4 DEF Right, CardOf, Shows
    <3> QED
      BY <1>2, <2>1, <3>2, <3>5 DEF Following
  <2>2. CASE stream' = <<>>
    <3>1. Last(stream) = p
      <4>1. Len(stream) = 1
        BY <1>3, <2>2
      <4> QED
        BY <1>3, <4>1 DEF Last
    <3>2. online /\ Right(p)
      BY <1>0, <1>2, <3>1 DEF Following
    <3>3. CardsRight'
      BY <1>0, <1>2, <1>3, <1>9, <3>2, RenderRight
    <3> QED
      BY <1>2, <1>4, <2>2, <3>2, <3>3 DEF Following
  <2> QED
    BY <2>1, <2>2
<1>11. Stored'
  <2>1. \A n \in Names : reg'[n] # Absent => (reg'[n].virtual <=> config'[n] # Absent)
    BY <1>0, AsideIs DEF Stored
  <2>2. \A n \in Names : Declared(n)' => configs'[n] = Absent
    BY <1>0, <1>2, <1>9, RenderStored
  <2>3. answer' # NoAnswer => Sound(answer.payload)'
    BY <1>0, <1>4, AsideStill DEF Stored, Sound
  <2>4. (\A i \in DOMAIN stream : Sound(stream[i]))'
    <3> SUFFICES ASSUME NEW i \in DOMAIN stream' PROVE Sound(stream[i])'
      OBVIOUS
    <3>1. PICK q : q = stream[i + 1]
      OBVIOUS
    <3>2. stream'[i] = q /\ i + 1 \in DOMAIN stream
      BY <1>3, <3>1
    <3>3. Sound(q)'
      BY <1>0, <3>1, <3>2, AsideStill DEF Stored
    <3> QED
      BY <3>2, <3>3 DEF Sound
  <2> QED
    BY <2>1, <2>2, <2>3, <2>4 DEF Stored
<1>12. Released'
  <2> SUFFICES ASSUME NEW n \in Names, Waits(n)'
               PROVE  (\E t \in Slots : Awaited(t, n)') \/ (\E i \in DOMAIN stream : Alters(stream[i], n))'
    BY DEF Released
  <2>1. Waits(n) /\ ~Alters(p, n) /\ cards'[n].status = cards[n].status /\ cards'[n].virtual = cards[n].virtual
    BY <1>0, <1>2, <1>3, RenderWaits
  <2>2. CASE \E t \in Slots : Awaited(t, n)
    BY <1>2, <2>1, <2>2 DEF Awaited
  <2>3. CASE \E i \in DOMAIN stream : Alters(stream[i], n)
    <3>1. PICK i \in DOMAIN stream : Alters(stream[i], n)
      BY <2>3
    <3>2. i # 1
      BY <1>3, <2>1, <3>1
    <3>3. i - 1 \in DOMAIN stream' /\ stream'[i - 1] = stream[i]
      BY <1>3, <3>2
    <3>4. Alters(stream[i - 1], n)'
      BY <2>1, <3>1, <3>3 DEF Alters
    <3> QED
      BY <3>3, <3>4
  <2> QED
    BY <1>0, <2>1, <2>2, <2>3 DEF Released
<1>13. \A n \in Names :
         /\ \A i \in 1 .. Len(stream) : Told(n, Res(stream[i], n))
         /\ Told(n, results[n]) /\ Told(n, seen[n]) /\ Told(n, Res(p, n))
         /\ answer # NoAnswer => Told(n, Res(answer.payload, n))
  BY <1>0, <1>3, IsTold
<1>14. ASSUME NEW n \in Names
       PROVE  /\ seen'[n] = IF Res(p, n) \in {0, seen[n]} THEN seen[n] ELSE Res(p, n)
              /\ \A k \in toasted' : k \in toasted \/ \E m \in Names : k = Res(p, m)
              /\ again' => again \/ \E m \in Names : /\ Res(p, m) \in toasted
                                                    /\ Res(p, m) \notin {0, seen[m]}
  BY <1>0, <1>2, <1>3, RenderTells
<1>15. Fresh' /\ OfOne'
  <2>1. \A k \in toasted' : k \in toasted \/ \E m \in Names : Told(m, k)
    <3> SUFFICES ASSUME NEW k \in toasted', k \notin toasted PROVE \E m \in Names : Told(m, k)
      OBVIOUS
    <3>1. CASE Names = {}
      BY <1>0, <1>2, <3>1 DEF Render, Learns, News, Shown
    <3>2. CASE Names # {}
      BY <1>13, <1>14, <3>2
    <3> QED
      BY <3>1, <3>2
  <2>2. ASSUME NEW n \in Names
        PROVE  /\ seen'[n] = 0 \/ Told(n, seen'[n])
               /\ \A i \in 1 .. Len(stream') : Res(stream'[i], n) = 0 \/ Told(n, Res(stream'[i], n))
               /\ Told(n, results[n])
               /\ answer' # NoAnswer => Res(answer'.payload, n) = 0 \/ Told(n, Res(answer'.payload, n))
    <3>1. seen'[n] = 0 \/ Told(n, seen'[n])
      BY <1>13, <1>14
    <3>2. ASSUME NEW i \in 1 .. Len(stream') PROVE Told(n, Res(stream'[i], n))
      <4>1. i + 1 \in 1 .. Len(stream) /\ stream'[i] = stream[i + 1]
        BY <1>3
      <4> QED
        BY <1>13, <4>1
    <3>3. answer' # NoAnswer => Told(n, Res(answer'.payload, n))
      BY <1>4, <1>13
    <3> QED
      BY <1>13, <3>1, <3>2, <3>3
  <2> QED
    BY <1>0, <1>8, <2>1, <2>2, StillFresh
<1>16. ShownOnce'
  <2>1. ASSUME NEW n \in Names, InLine(n) PROVE InLine(n)'
    <3>1. PICK N \in Nat : N + 1 = Len(stream)
      BY <1>3
    <3>2. PICK line \in [1 .. N + 2 -> Nat] : line = Line(n)
      BY <1>0, <3>1, LineIs
    <3>3. PICK next \in [1 .. N + 1 -> Nat] : next = Line(n)'
      BY <1>3, <1>8, <3>1, NextLineIs
    <3>4. PICK known : known = toasted'
      OBVIOUS
    <3>5. PICK after : after = seen'[n]
      OBVIOUS
    <3>6. Ordered(line, seen[n], toasted) /\ line[1] = Res(p, n)
      BY <1>0, <1>3, <2>1, <3>2, LineIs DEF InLine
    <3>7. \A i \in 1 .. N + 1 : next[i] = line[i + 1]
      <4> SUFFICES ASSUME NEW i \in 1 .. N + 1 PROVE next[i] = line[i + 1]
        OBVIOUS
      <4>1. CASE i = N + 1
        <5>0. i = Len(stream') + 1
          BY <1>3, <3>1, <4>1
        <5>1. next[i] = results'[n]
          BY <1>8, <3>3, <5>0, NextLineIs
        <5>2. line[i + 1] = results[n]
          BY <1>0, <3>1, <3>2, <4>1, LineIs
        <5> QED
          BY <1>0, <5>1, <5>2, AsideIs
      <4>2. CASE i # N + 1
        <5>1. i \in 1 .. Len(stream') /\ i + 1 \in 1 .. Len(stream)
          BY <1>3, <3>1, <4>2
        <5>2. next[i] = Res(stream'[i], n)
          BY <1>8, <3>3, <5>1, NextLineIs
        <5>3. line[i + 1] = Res(stream[i + 1], n)
          BY <1>0, <3>2, <5>1, LineIs
        <5> QED
          BY <1>3, <5>1, <5>2, <5>3
      <4> QED
        BY <4>1, <4>2
    <3>8. 0 \notin known
      BY <1>5, <3>4
    <3>9. \A i \in 1 .. N + 1 : next[i] \in known => next[i] \in toasted \/ next[i] = line[1]
      <4> SUFFICES ASSUME NEW i \in 1 .. N + 1, next[i] \in known, next[i] \notin toasted
                   PROVE  next[i] = line[1]
        OBVIOUS
      <4>1. PICK k \in Nat \ {0} : k = next[i]
        BY <3>8
      <4>2. PICK m \in Names : k = Res(p, m)
        BY <1>14, <3>4, <4>1
      <4>3. Told(m, k)
        BY <1>13, <4>2
      <4>4. Told(n, k)
        <5>1. i + 1 \in 1 .. Len(stream) + 1 /\ Line(n)[i + 1] = k
          BY <3>1, <3>2, <3>7, <4>1
        <5> QED
          BY <5>1 DEF Told
      <4>5. m = n
        BY <1>0, <4>3, <4>4 DEF OfOne
      <4> QED
        BY <3>6, <4>1, <4>2, <4>5
    <3>10. after = IF line[1] \in {0, seen[n]} THEN seen[n] ELSE line[1]
      BY <1>14, <3>5, <3>6
    <3>11. Ordered(next, after, known)
      BY <3>6, <3>7, <3>8, <3>9, <3>10, OrderedShifts
    <3> QED
      BY <3>3, <3>4, <3>5, <3>11 DEF InLine, Ordered, Between
  <2>2. \A n \in Names : AnswerInLine(n)'
    BY <1>4 DEF AnswerInLine
  <2>3. ASSUME again', ~apart PROVE FALSE
    <3>1. ~again /\ \A m \in Names : InLine(m)
      BY <1>0, <2>3 DEF ShownOnce
    <3>2. \E m \in Names : Res(p, m) \in toasted /\ Res(p, m) \notin {0, seen[m]}
      <4>1. CASE Names = {}
        BY <1>0, <1>2, <2>3, <3>1, <4>1 DEF Render, Learns, News, Shown
      <4>2. CASE Names # {}
        BY <1>14, <2>3, <3>1, <4>2
      <4> QED
        BY <4>1, <4>2
    <3>3. PICK m \in Names : Res(p, m) \in toasted /\ Res(p, m) \notin {0, seen[m]}
      BY <3>2
    <3>4. 1 \in DOMAIN Line(m) /\ Line(m)[1] = Res(p, m)
      BY <1>0, <1>3, LineIs
    <3> QED
      BY <3>1, <3>3, <3>4 DEF InLine, Ordered
  <2> QED
    BY <1>0, <1>2, <2>1, <2>2, <2>3 DEF ShownOnce
<1> QED
  BY <1>6, <1>8, <1>10, <1>11, <1>12, <1>15, <1>16 DEF PageInv

(* or the answer to its refresh. *)
LEMMA RefreshedShows ==
  ASSUME PageInv, DashboardInv', Refreshed
  PROVE  PageInv'
<1>0. /\ Typed /\ Stored /\ Following /\ Single /\ Fresh /\ OfOne /\ ShownOnce /\ Released
      /\ UNCHANGED Aside
  BY DEF PageInv, Refreshed
<1>1. PICK p : p = answer.payload
  OBVIOUS
<1>2. /\ answer # NoAnswer /\ answer' = NoAnswer /\ Render(p, TRUE)
      /\ behind' = (behind \/ answer.old) /\ apart' = (apart \/ answer.old \/ stream # <<>>)
      /\ tasks' = tasks /\ online' = online /\ stream' = stream /\ lagging' = lagging
  BY <1>1 DEF Refreshed
<1>3. p \in Messages /\ answer.old \in BOOLEAN /\ behind \in BOOLEAN /\ apart \in BOOLEAN
  <2>1. answer \in [payload : Messages, old : BOOLEAN]
    BY <1>0, <1>2, TypedNow DEF CardsTyped
  <2> QED
    BY <1>0, <1>1, <2>1, TypedNow DEF CardsTyped
<1>5. /\ cards' \in [Names -> Card \cup {Absent}] /\ configs' \in [Names -> {Absent} \cup Prefixes]
      /\ prompts' \in [Names -> 0 .. MaxAsked] /\ seen' \in [Names -> 0 .. MaxAsked]
      /\ toasted' \subseteq 1 .. MaxAsked /\ again' \in BOOLEAN /\ empty' \in BOOLEAN
      /\ form' \in {"none", "placed", "cut"} /\ stuck' \subseteq stuck
  BY <1>0, <1>2, <1>3, RenderTyped
<1>6. OwnTyped' /\ AskedTyped' /\ PassTyped' /\ Single'
  <2>1. online' \in BOOLEAN
    BY <1>0, <1>2, TypedNow DEF OwnTyped
  <2> QED
    BY <1>0, <2>1, AsideTyped
<1>7. CardsTyped' /\ IdleTyped' /\ SentTyped' /\ lagging' \subseteq Names
  <2>1. IdleTyped' /\ SentTyped' /\ lagging' \subseteq Names
    BY <1>0, <1>2, <1>5, TypedNow DEF IdleTyped, SentTyped, Typed, TypeOK
  <2>2. behind' \in BOOLEAN /\ apart' \in BOOLEAN
    BY <1>2, <1>3
  <2>3. CardsTyped'
    BY <1>2, <1>5, <2>2 DEF CardsTyped
  <2> QED
    BY <2>1, <2>3
<1>8. Typed'
  BY <1>6, <1>7, TypedNext
<1>9. Sound(p)
  BY <1>0, <1>1, <1>2 DEF Stored
<1>10. Following'
  <2>1. ASSUME online, stream = <<>>, ~behind' PROVE CardsRight'
    <3>1. Right(p)
      BY <1>0, <1>1, <1>2, <1>3, <2>1 DEF Following
    <3> QED
      BY <1>0, <1>2, <1>3, <1>9, <3>1, RenderRight
  <2>2. (~online' => stream' = <<>>) /\ ((online' /\ stream' # <<>>) => Right(Last(stream))')
    BY <1>0, <1>2, StreamStill
  <2> QED
    BY <1>2, <2>1, <2>2 DEF Following
<1>11. Stored'
  <2>1. \A n \in Names : Declared(n)' => configs'[n] = Absent
    BY <1>0, <1>2, <1>9, RenderStored
  <2> QED
    BY <1>0, <1>2, <2>1, StreamStill DEF Stored
<1>12. Released'
  <2> SUFFICES ASSUME NEW n \in Names, Waits(n)'
               PROVE  (\E t \in Slots : Awaited(t, n)') \/ (\E i \in DOMAIN stream : Alters(stream[i], n))'
    BY DEF Released
  <2>1. Waits(n) /\ cards'[n].status = cards[n].status /\ cards'[n].virtual = cards[n].virtual
    BY <1>0, <1>2, <1>3, RenderWaits
  <2>2. CASE \E t \in Slots : Awaited(t, n)
    BY <1>2, <2>1, <2>2 DEF Awaited
  <2>3. CASE \E i \in DOMAIN stream : Alters(stream[i], n)
    BY <1>2, <2>1, <2>3 DEF Alters
  <2> QED
    BY <1>0, <2>1, <2>2, <2>3 DEF Released
<1>13. \A n \in Names :
         /\ \A i \in 1 .. Len(stream) : Told(n, Res(stream[i], n))
         /\ Told(n, results[n]) /\ Told(n, seen[n]) /\ Told(n, Res(p, n))
  BY <1>0, <1>1, <1>2, IsTold
<1>14. ASSUME NEW n \in Names
       PROVE  /\ seen'[n] = IF Res(p, n) \in {0, seen[n]} THEN seen[n] ELSE Res(p, n)
              /\ \A k \in toasted' : k \in toasted \/ \E m \in Names : k = Res(p, m)
              /\ again' => again \/ \E m \in Names : /\ Res(p, m) \in toasted
                                                    /\ Res(p, m) \notin {0, seen[m]}
  BY <1>0, <1>2, <1>3, RenderTells
<1>15. Fresh' /\ OfOne'
  <2>1. \A k \in toasted' : k \in toasted \/ \E m \in Names : Told(m, k)
    <3> SUFFICES ASSUME NEW k \in toasted', k \notin toasted PROVE \E m \in Names : Told(m, k)
      OBVIOUS
    <3>1. CASE Names = {}
      BY <1>0, <1>2, <3>1 DEF Render, Learns, News, Shown
    <3>2. CASE Names # {}
      BY <1>13, <1>14, <3>2
    <3> QED
      BY <3>1, <3>2
  <2>2. ASSUME NEW n \in Names
        PROVE  /\ seen'[n] = 0 \/ Told(n, seen'[n])
               /\ \A i \in 1 .. Len(stream') : Res(stream'[i], n) = 0 \/ Told(n, Res(stream'[i], n))
               /\ Told(n, results[n])
    BY <1>2, <1>13, <1>14
  <2> QED
    BY <1>0, <1>2, <1>8, <2>1, <2>2, StillFresh
<1>16. ASSUME ~apart'
       PROVE  /\ ~apart /\ ~again /\ stream = <<>> /\ ~answer.old
              /\ \A n \in Names : InLine(n) /\ AnswerInLine(n)
  BY <1>0, <1>2, <1>3, <1>16 DEF ShownOnce
<1>17. ASSUME ~apart', NEW n \in Names PROVE InLine(n)'
  <2>1. PICK next : next = Line(n)'
    OBVIOUS
  <2>2. PICK k \in Nat : k = results[n]
    BY <1>0, LineIs
  <2>3. DOMAIN next = {1} /\ next[1] = k
    BY <1>0, <1>2, <1>8, <1>16, <1>17, <2>1, <2>2, NextLineIs, AsideIs
  <2>4. ASSUME k \in toasted' PROVE seen'[n] = k
    <3>1. CASE k \in toasted
      <4>1. seen[n] = k
        BY <1>0, <1>16, <1>17, <2>2, <3>1, LineIs DEF InLine, Ordered
      <4>2. Res(p, n) \in {0, k}
        BY <1>1, <1>2, <1>16, <1>17, <2>2, <3>1 DEF AnswerInLine
      <4> QED
        BY <1>14, <4>1, <4>2
    <3>2. CASE k \notin toasted
      <4>1. PICK m \in Names : k = Res(p, m)
        BY <1>14, <2>4, <3>2
      <4>2. k # 0
        BY <1>5, <2>4
      <4>3. Told(m, k) /\ Told(n, k)
        BY <1>13, <2>2, <4>1
      <4>4. m = n
        BY <1>0, <4>2, <4>3 DEF OfOne
      <4> QED
        BY <1>14, <4>1, <4>2, <4>4
    <3> QED
      BY <3>1, <3>2
  <2>5. PICK after : after = seen'[n]
    OBVIOUS
  <2>6. PICK known : known = toasted'
    OBVIOUS
  <2>7. Ordered(next, after, known)
    BY <2>3, <2>4, <2>5, <2>6 DEF Ordered, Between
  <2> QED
    BY <2>1, <2>5, <2>6, <2>7 DEF InLine, Ordered, Between
<1>18. ASSUME again', ~apart' PROVE FALSE
  <2>1. \E m \in Names : Res(p, m) \in toasted /\ Res(p, m) \notin {0, seen[m]}
    <3>1. CASE Names = {}
      BY <1>0, <1>2, <1>16, <1>18, <3>1 DEF Render, Learns, News, Shown
    <3>2. CASE Names # {}
      BY <1>14, <1>16, <1>18, <3>2
    <3> QED
      BY <3>1, <3>2
  <2> QED
    BY <1>1, <1>2, <1>16, <1>18, <2>1 DEF AnswerInLine
<1>19. ShownOnce'
  BY <1>2, <1>17, <1>18 DEF ShownOnce, AnswerInLine
<1> QED
  BY <1>6, <1>8, <1>10, <1>11, <1>12, <1>15, <1>19 DEF PageInv
-----------------------------------------------------------------------------
(* At first the page has heard nothing. *)
LEMMA PageBegins == PageInit => PageInv
<1> SUFFICES ASSUME PageInit PROVE PageInv
  OBVIOUS
<1>0. DashboardInv /\ Init
  BY DashboardBegins DEF PageInit
<1>1. /\ cards = Nothing /\ configs = Nothing /\ prompts = NoneOf /\ seen = NoneOf /\ toasted = {}
      /\ empty = TRUE /\ form = "none" /\ answer = NoAnswer
      /\ behind = FALSE /\ apart = FALSE /\ again = FALSE /\ lagging = {}
  BY DEF PageInit
<1>2. PICK of \in [Names -> Adapters], p \in Prefixes, declared \in SUBSET Names :
        /\ \A m, n \in Names : of[m] = of[n] => m = n
        /\ reg = [n \in Names |-> IF n \notin declared THEN Absent
                                  ELSE [adapter |-> of[n], virtual |-> FALSE, prefix |-> p,
                                        status |-> "initializing", credential |-> Absent]]
  BY <1>0 DEF Init
<1>3. /\ managed \in BOOLEAN
      /\ on = {reg[n].adapter : n \in {m \in Names : reg[m] # Absent}}
      /\ config = [n \in Names |-> Absent]
      /\ asked = [a \in Adapters |-> 0] /\ answered = [a \in Adapters |-> {}] /\ lastAsked = 0
      /\ passes = [q \in Passes |-> NoPass]
      /\ challenges = [n \in Names |-> 0] /\ results = [n \in Names |-> 0]
      /\ tasks = [t \in Slots |-> Idle] /\ online = FALSE /\ stream = <<>> /\ stuck = {}
  BY <1>0 DEF Init
<1>4. ServerTypeOK
  <2>1. /\ \A n \in Names : reg[n] # Absent => reg[n] \in Entry
        /\ images \in [Names -> {Absent} \cup Qrs] /\ passes \in [Passes -> Pass]
        /\ listening \in [Names -> {Absent} \cup Adapters] /\ tasks \in [Slots -> Task]
    BY <1>0 DEF DashboardInv, RegShape, ViewShape, PairShape, TaskShape
  <2>2. on \subseteq Adapters
    <3>1. \A n \in Names : reg[n] # Absent => reg[n].adapter \in Adapters
      BY <2>1 DEF Entry
    <3> QED
      BY <1>3, <3>1
  <2>3. config \in [Names -> {Absent} \cup Prefixes]
    BY <1>3
  <2>4. asked \in [Adapters -> 0 .. lastAsked] /\ answered \in [Adapters -> SUBSET (1 .. lastAsked)]
    BY <1>3
  <2>5. challenges \in [Names -> 0 .. lastAsked] /\ results \in [Names -> 0 .. lastAsked]
    BY <1>3
  <2>6. \A q \in Passes : passes[q].busy <=> passes[q].at # Absent
    BY <1>3 DEF NoPass
  <2>7. \A t \in Slots : tasks[t].at = "none" <=> tasks[t] = Idle
    BY <1>3 DEF Idle
  <2>8. online \in BOOLEAN /\ Len(stream) <= MaxStream
    <3>1. Len(stream) = 0 /\ 0 <= MaxStream
      BY <1>3, DashboardAssumption
    <3> QED
      BY <1>3, <3>1
  <2> QED
    BY <1>3, <2>1, <2>2, <2>3, <2>4, <2>5, <2>6, <2>7, <2>8 DEF ServerTypeOK
<1>5. Typed
  <2>0. 0 \in 0 .. MaxAsked
    BY DashboardAssumption
  <2>1. cards \in [Names -> Card \cup {Absent}] /\ configs \in [Names -> {Absent} \cup Prefixes]
    BY <1>1 DEF Nothing
  <2>2. prompts \in [Names -> 0 .. MaxAsked] /\ seen \in [Names -> 0 .. MaxAsked]
    BY <1>1, <2>0 DEF NoneOf
  <2>3. stream \in Seq(Messages)
    BY <1>3
  <2>4. TypeOK
    BY <1>1, <1>3, <1>4, <2>1, <2>2 DEF TypeOK
  <2> QED
    BY <1>1, <1>3, <2>0, <2>1, <2>3, <2>4 DEF Typed
<1>6. Following /\ Released
  BY <1>3 DEF Following, Released, Waits
<1>7. Stored
  <2>1. \A n \in Names : /\ config[n] = Absent /\ configs[n] = Absent
                         /\ reg[n] # Absent => reg[n].virtual = FALSE
    BY <1>1, <1>2, <1>3 DEF Nothing
  <2> QED
    BY <1>1, <1>3, <2>1 DEF Stored
<1>8. Single
  BY <1>3 DEF Single
<1>9. ASSUME NEW n \in Names
      PROVE  DOMAIN Line(n) = {1} /\ Line(n)[1] = 0 /\ seen[n] = 0
  <2>1. results[n] = 0 /\ Len(stream) = 0 /\ seen[n] = 0
    BY <1>1, <1>3 DEF NoneOf
  <2> QED
    BY <1>5, <2>1, LineIs
<1>10. \A n \in Names, k \in Nat \ {0} : ~Told(n, k)
  <2> SUFFICES ASSUME NEW n \in Names, NEW k \in Nat \ {0}, Told(n, k) PROVE FALSE
    OBVIOUS
  <2>1. Len(stream) + 1 = 1
    BY <1>3
  <2> QED
    BY <1>1, <1>9, <2>1 DEF Told
<1>11. Fresh /\ OfOne
  BY <1>1, <1>10 DEF Fresh, OfOne
<1>12. ShownOnce
  <2>1. ASSUME NEW n \in Names PROVE InLine(n)
    BY <1>1, <1>9 DEF InLine, Ordered, Between
  <2> QED
    BY <1>1, <2>1 DEF ShownOnce, AnswerInLine
<1> QED
  BY <1>5, <1>6, <1>7, <1>8, <1>11, <1>12 DEF PageInv

(* Every step of the server and of the page keeps what the page follows by. *)
LEMMA PageStep == PageInv /\ DashboardInv /\ DashboardInv' /\ [Next]_vars => PageInv'
<1> SUFFICES ASSUME PageInv, DashboardInv, DashboardInv', [Next]_vars PROVE PageInv'
  OBVIOUS
<1>1. CASE ServerStep
  <2>1. ASSUME NEW n \in Names, NEW s \in Status, NEW c \in Credentials, Report(n, s, c)
        PROVE  PageInv'
    BY <1>1, <2>1, ReportServes
  <2>2. ASSUME NEW p \in Passes, Rendered(p) \/ RenderFails(p) PROVE PageInv'
    BY <1>1, <2>2, PassServes
  <2>3. ASSUME NEW a \in Adapters,
               Ask(a) \/ GivesUp(a) \/ \E k \in 1 .. MaxAsked : ResultTold(a, k)
        PROVE  PageInv'
    BY <1>1, <2>3, WhatsAppServes
  <2>4. ASSUME NEW t \in Slots,
               \/ \E job \in Job, n \in Names, p \in Prefixes \cup {Absent} : OtherRequest(t, job, n, p)
               \/ RequestRejected(t) \/ StopFails(t) \/ LogoutEnds(t) \/ CreateSkipped(t)
               \/ LogoutBegins(t) \/ Initialized(t)
        PROVE  PageInv'
    BY <1>1, <2>4, OtherServes
  <2>5. ASSUME NEW t \in Slots,
               \/ AnswerPasskey(t) \/ CancelPasskey(t) \/ DestroyBegins(t) \/ LogoutTearsDown(t)
               \/ RestartEnds(t) \/ Removed(t) \/ Added(t) \/ PrefixSet(t)
        PROVE  PageInv'
    BY <1>1, <2>5, AnswerPasskeyServes, CancelPasskeyServes, StopServes, RestartServes,
      RemovedServes, AddedServes, PrefixServes
  <2> QED
    BY <1>1, <2>1, <2>2, <2>3, <2>4, <2>5 DEF ServerStep, ServerNext
<1>2. CASE PageNext
  <2>1. ASSUME NEW t \in Slots, NEW n \in Names,
               \/ \E job \in Job : Click(t, n, job)
               \/ SignPasskey(t, n)
               \/ \E p \in Prefixes : SavePrefix(t, n, p)
        PROVE  PageInv'
    <3>1. ASSUME NEW job \in Job, Click(t, n, job) PROVE PageInv'
      BY <3>1, ClickKeeps
    <3>2. CASE SignPasskey(t, n)
      BY <3>2, FormKeeps DEF SignPasskey
    <3>3. ASSUME NEW p \in Prefixes, SavePrefix(t, n, p) PROVE PageInv'
      <4>1. Sent(t, "prefix", n, p, TRUE) /\ UNCHANGED <<Aside, stuck, online, stream, page, lagging>>
        BY <3>3 DEF SavePrefix
      <4> QED
        BY <4>1, FormKeeps
    <3> QED
      BY <2>1, <3>1, <3>2, <3>3
  <2> QED
    BY <1>2, <2>1, ReloadKeeps, ConnectsKeeps, CutKeeps, MessageShows, RefreshKeeps, RefreshedShows,
      RefreshFailsKeeps DEF PageNext
<1>3. CASE UNCHANGED vars
  <2>1. /\ UNCHANGED <<Aside, online, stream, configs, prompts, seen, toasted, empty, form,
                       answer, behind, apart, again, lagging>>
        /\ cards' = cards /\ tasks' = tasks /\ stuck' = stuck /\ online' = online
    BY <1>3 DEF vars, server, page, past, Aside
  <2>2. IdleTyped' /\ cards' \in [Names -> Card \cup {Absent}]
    BY <2>1, TypedNow DEF PageInv, IdleTyped, CardsTyped
  <2>3. \A m \in Names : Waits(m)' => Waits(m) /\ \A t \in Slots : Awaited(t, m) => Awaited(t, m)'
    BY <2>1 DEF Waits, Awaited
  <2>4. \A m \in Names :
          /\ cards'[m] = Absent <=> cards[m] = Absent
          /\ cards[m] # Absent => /\ cards'[m].status = cards[m].status
                                  /\ cards'[m].virtual = cards[m].virtual
                                  /\ cards'[m].panel = cards[m].panel
    BY <2>1
  <2> QED
    BY <2>1, <2>2, <2>3, <2>4, PageStill
<1> QED
  BY <1>1, <1>2, <1>3 DEF Next

(* What it follows by says what a reader of the page may rely on. *)
LEMMA PageTells == PageInv => PageFollows
<1> SUFFICES ASSUME PageInv PROVE PageFollows
  OBVIOUS
<1>1. Typed /\ Following /\ Released /\ ShownOnce
  BY DEF PageInv
<1>2. Quiet => online /\ stream = <<>>
  BY DEF Quiet
<1>3. (Quiet /\ ~behind) => CardsRight
  BY <1>1, <1>2 DEF Following
<1>4. PageAgrees
  <2> SUFFICES ASSUME Quiet, ~behind, form # "cut", NEW n \in Names
               PROVE  /\ listening[n] # Absent => cards[n] # Absent
                      /\ cards[n] # Absent =>
                           /\ reg[n] # Absent
                           /\ cards[n].status = reg[n].status /\ cards[n].virtual = reg[n].virtual
                           /\ ~Rendering => \/ n \in crossed
                                            \/ cards[n].panel =
                                                 PanelOf(Payload(reg, images, challenges, results, config)[n])
    BY DEF PageAgrees
  <2>1. Shows(cards[n], n) /\ (listening[n] # Absent => cards[n] # Absent)
    BY <1>3 DEF CardsRight
  <2>2. Pushing => Rendering
    BY DEF Pushing, Rendering
  <2> QED
    BY <2>1, <2>2 DEF Shows, Now
<1>5. ButtonsComeBack
  <2> SUFFICES ASSUME NEW n \in Names, Quiet, cards[n] # Absent, cards[n].disabled, n \notin stuck
               PROVE  \E t \in Slots : tasks[t].page /\ tasks[t].name = n
    BY DEF ButtonsComeBack
  <2>1. Waits(n) /\ DOMAIN stream = {}
    BY <1>2 DEF Waits
  <2> QED
    BY <1>1, <2>1 DEF Released, Awaited
<1>6. ResultToldOnce
  BY <1>1 DEF ShownOnce, ResultToldOnce
<1>7. FormShowsPrefix
  BY <1>3 DEF FormShowsPrefix, CardsRight, HasPrefix
<1> QED
  BY <1>1, <1>4, <1>5, <1>6, <1>7 DEF PageFollows, Typed

(* For any number of clients, requests, renderings and messages on their way, whatever the *)
(* page misses, reloads or refreshes: once it has read all it was sent it has a card for   *)
(* each client and no other, with the status, the kind and what it waits with that the     *)
(* server has; the buttons a click disabled come back with the answer or the change it     *)
(* brings; a result is shown once; and the form opens with the prefix that is stored, but  *)
(* for the exceptions these properties name (render, doAction and doRefresh of the page,   *)
(* broadcastSse and renderPendingQrCodes of the server).                                   *)
THEOREM PageAlwaysFollows == Spec => []PageFollows
<1>1. PageInit => PageInv
  BY PageBegins
<1>2. PageInv /\ DashboardInv /\ DashboardInv' /\ [Next]_vars => PageInv'
  BY PageStep
<1>3. PageInv => PageFollows
  BY PageTells
<1> QED
  BY <1>1, <1>2, <1>3, DashboardInvariance, PTL DEF Spec
=============================================================================
