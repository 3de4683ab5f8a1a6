--------------------------- MODULE DashboardService ---------------------------
(***************************************************************************)
(* The server of the dashboard over the registry of clients: the QR images *)
(* it renders, the passkey challenges it listens for, the requests it      *)
(* serves and what it sends to the page over SSE.                          *)
(*                                                                         *)
(* A request (task) runs alone up to its next await.  What the client      *)
(* manager does for it is here as far as the registry shows it;            *)
(* ClientManager has the rest.                                             *)
(***************************************************************************)
EXTENDS Naturals, Sequences

CONSTANTS
  Names,     \* names of clients
  Adapters,  \* what a factory may build
  Qrs,       \* QR payloads; an image is named by the payload it shows
  Prefixes,  \* command prefixes
  Slots,     \* bounds the requests served together
  Passes,    \* bounds the rendering passes under way together
  MaxAsked,  \* bounds the passkey challenges
  MaxStream, \* bounds the messages on their way to the page
  Faults,    \* an adapter's destroy() or logout() may throw, rendering may fail
  Absent

\* An absence, and a name that a summary lacks, are told from what there is.
ASSUME DashboardAssumption ==
  /\ MaxAsked \in Nat /\ MaxStream \in Nat \ {0} /\ Faults \in BOOLEAN
  /\ Absent \notin Names \cup Adapters \cup Qrs \cup Prefixes /\ "gone" \notin Qrs

VARIABLES
  managed,    \* this.clientManager was found
  reg,        \* the registry's entry of each name
  on,         \* adapters that were initialized and not stopped since
  config,     \* the persisted configuration of each name, as far as its prefix
  asked,      \* [adapter |-> the challenge it waits on, 0 for none]
  answered,   \* [adapter |-> the challenges that were answered and not told about]
  lastAsked,  \* history: how many challenges there were
  images,     \* this.qrImages
  passes,     \* renderPendingQrCodes under way
  listening,  \* [name |-> the adapter its passkeyListeners are on]
  challenges, \* this.passkeyChallenges
  results,    \* this.passkeyResults: the challenge each result is about
  tasks,      \* the request in each slot
  online,     \* the page's EventSource is connected
  stream,     \* messages on their way to the page
  crossed,    \* history: the last image set or deleted was for an older payload
  mislaid,    \* history: the result of an older challenge came while one waits
  strays,     \* history: adapters two requests together left behind
  stuck       \* history: names a request of the page ended for without a new status

clients == <<managed, reg, on, config>>
pairing == <<asked, answered, lastAsked>>
views   == <<images, passes, listening, challenges, results>>
past    == <<crossed, mislaid, strays, stuck>>
server  == <<clients, pairing, views, tasks, online, stream, past>>

Status == {"initializing", "qr_received", "pairing_code_received", "ready", "disconnected"}
Credentials == Qrs \cup {"code", Absent}
Entry == [adapter : Adapters, virtual : BOOLEAN, status : Status,
          credential : Credentials, prefix : Prefixes]

ASSUME EntryAssumption == Absent \notin Entry

\* A pass of renderPendingQrCodes: the summary it began with, the names it has yet
\* to look at, the one it renders, and whether it rendered any.
NoPass == [busy |-> FALSE, wanted |-> [n \in Names |-> Absent], todo |-> {}, at |-> Absent,
           rendered |-> FALSE]

Job  == {"none", "restart", "force-qr", "logout", "passkey", "passkey-cancel", "delete",
         "create", "prefix", "options"}
At   == {"none", "sent", "stopping", "stopped", "removed", "added"}
Idle == [job |-> "none", at |-> "none", name |-> Absent, adapter |-> Absent, prefix |-> Absent,
         page |-> FALSE]

\* The module's clients are there first, and those of the manager come later.
Init ==
  /\ managed \in BOOLEAN
  /\ \E of \in [Names -> Adapters] :
       /\ \A m, n \in Names : of[m] = of[n] => m = n
       /\ \E p \in Prefixes : \E declared \in SUBSET Names :
            reg = [n \in Names |-> IF n \notin declared THEN Absent
                                   ELSE [adapter |-> of[n], virtual |-> FALSE, prefix |-> p,
                                         status |-> "initializing", credential |-> Absent]]
  /\ on = {reg[n].adapter : n \in {m \in Names : reg[m] # Absent}}
  /\ config = [n \in Names |-> Absent]
  /\ asked = [a \in Adapters |-> 0] /\ answered = [a \in Adapters |-> {}] /\ lastAsked = 0
  /\ images = [n \in Names |-> Absent] /\ passes = [p \in Passes |-> NoPass]
  /\ listening = [n \in Names |-> IF reg[n] = Absent THEN Absent ELSE reg[n].adapter]
  /\ challenges = [n \in Names |-> 0] /\ results = [n \in Names |-> 0]
  /\ tasks = [t \in Slots |-> Idle]
  /\ online = FALSE /\ stream = <<>>
  /\ crossed = {} /\ mislaid = {} /\ strays = {} /\ stuck = {}
-----------------------------------------------------------------------------
(***************************************************************************)
(* What the page is told                                                   *)
(***************************************************************************)
Qr(entry) == IF entry # Absent /\ entry.credential \in Qrs THEN entry.credential ELSE Absent

\* buildPayload: the image goes with any QR, whichever it was rendered from.
Payload(entries, shown, waiting, ended, stored) ==
  [n \in Names |->
     IF entries[n] = Absent THEN Absent
     ELSE [status |-> entries[n].status, virtual |-> entries[n].virtual,
           qr |-> IF Qr(entries[n]) = Absent THEN Absent ELSE shown[n],
           code |-> entries[n].credential = "code",
           challenge |-> waiting[n], result |-> ended[n], config |-> stored[n]]]

\* broadcastSse, once the rest of the step is done.
Broadcast(stored) ==
  IF online THEN /\ Len(stream) < MaxStream
                 /\ stream' = Append(stream, Payload(reg', images', challenges', results', stored))
            ELSE stream' = stream
-----------------------------------------------------------------------------
(***************************************************************************)
(* renderPendingQrCodes                                                    *)
(***************************************************************************)
Summary(entries) ==
  [n \in Names |-> IF entries[n] = Absent THEN "gone" ELSE Qr(entries[n])]

\* Mutant of Needs: a client that has an image keeps it.
NeedsFirst(pass, shown, n) == pass.wanted[n] \in Qrs /\ shown[n] = Absent

Needs(pass, shown, n) == pass.wanted[n] \in Qrs /\ shown[n] # pass.wanted[n]

\* The loop, from the images that are shown, to its next await or to its end.  The
\* names in seen are those it has no image to render for.
Looks(pass, shown, seen, since) ==
  /\ \A n \in seen : ~Needs(pass, shown, n)
  /\ LET unwanted == {n \in seen : pass.wanted[n] = Absent}
         gone == IF seen = pass.todo THEN {n \in Names : pass.wanted[n] = "gone"} ELSE {}
     IN  /\ images' = [n \in Names |-> IF n \in unwanted \cup gone THEN Absent ELSE shown[n]]
         /\ crossed' = since \cup {n \in unwanted \cup gone : Qr(reg'[n]) # Absent}

PassGoesOn(p, pass, shown, since) ==
  \E seen \in SUBSET pass.todo :
    /\ Looks(pass, shown, seen, since)
    /\ \E n \in pass.todo \ seen :
         /\ Needs(pass, shown, n)
         /\ passes' = [passes EXCEPT ![p] = [pass EXCEPT !.at = n, !.todo = @ \ (seen \cup {n})]]

PassEnds(p, pass, shown, since) ==
  Looks(pass, shown, pass.todo, since) /\ passes' = [passes EXCEPT ![p] = NoPass]

\* A notification of the registry begins a pass, in the same step.
PassBegins(entries) ==
  \E p \in Passes :
    LET wanted == Summary(entries)
        pass == [NoPass EXCEPT !.busy = TRUE, !.wanted = wanted,
                               !.todo = {n \in Names : wanted[n] # "gone"}]
    IN  /\ ~passes[p].busy
        /\ PassGoesOn(p, pass, images, crossed) \/ PassEnds(p, pass, images, crossed)

PassUnchanged == UNCHANGED <<clients, pairing, listening, challenges, results, tasks, online,
                             mislaid, strays, stuck>>

\* toDataURL resolves, with the image of what the registry had when the pass began.
Rendered(p) ==
  LET pass  == [passes[p] EXCEPT !.at = Absent, !.rendered = TRUE]
      n     == passes[p].at
      shown == [images EXCEPT ![n] = pass.wanted[n]]
      since == IF Qr(reg[n]) = pass.wanted[n] THEN crossed \ {n} ELSE crossed \cup {n}
  IN  /\ passes[p].busy
      /\ PassUnchanged
      /\ \/ PassGoesOn(p, pass, shown, since) /\ stream' = stream
         \/ PassEnds(p, pass, shown, since) /\ Broadcast(config)

\* toDataURL rejects: only logged.
RenderFails(p) ==
  LET pass == [passes[p] EXCEPT !.at = Absent]
      since == crossed \cup {passes[p].at}
  IN  /\ Faults /\ passes[p].busy
      /\ PassUnchanged
      /\ \/ PassGoesOn(p, pass, images, since) /\ stream' = stream
         \/ /\ PassEnds(p, pass, images, since)
            /\ IF pass.rendered THEN Broadcast(config) ELSE stream' = stream
-----------------------------------------------------------------------------
(***************************************************************************)
(* A change of the registry                                                *)
(***************************************************************************)

\* Mutant of Detached: the listener of a client that is gone stays.
DetachedNever(entries) == {}

\* syncPasskeyListeners: names whose listener goes.
Detached(entries) == {n \in Names : listening[n] # Absent /\ entries[n] = Absent}

SyncPasskeyListeners(entries) ==
  LET off == Detached(entries) IN
  /\ listening' = [n \in Names |->
                     IF n \in off THEN Absent
                     ELSE IF listening[n] # Absent \/ entries[n] = Absent THEN listening[n]
                     ELSE entries[n].adapter]
  /\ challenges' = [n \in Names |-> IF n \in off THEN 0 ELSE challenges[n]]
  /\ results' = [n \in Names |-> IF n \in off THEN 0 ELSE results[n]]
  /\ mislaid' = mislaid \ off

\* notify(): the three of them, with the configurations stored by then.
Notify(entries, stored) ==
  /\ reg' = entries
  /\ SyncPasskeyListeners(entries)
  /\ PassBegins(entries)
  /\ Broadcast(stored)

\* The life cycle of the client reports.
Report(n, status, credential) ==
  /\ reg[n] # Absent /\ reg[n].adapter \in on
  /\ CASE status = "qr_received" -> credential \in Qrs
       [] status = "pairing_code_received" -> credential = "code"
       [] OTHER -> credential = Absent
  /\ Notify([reg EXCEPT ![n].status = status, ![n].credential = credential], config)
  /\ UNCHANGED <<managed, on, config, pairing, tasks, online, strays, stuck>>
-----------------------------------------------------------------------------
(***************************************************************************)
(* Passkeys                                                                *)
(***************************************************************************)
Listened(a) == {n \in Names : listening[n] = a}

\* Mutant of OnResult: the challenge stays.
OnResultKept(a, k) ==
  /\ challenges' = challenges
  /\ results' = [n \in Names |-> IF n \in Listened(a) THEN k ELSE results[n]]

\* onResult of the adapter's listener: whatever challenge it has goes.
OnResult(a, k) ==
  /\ challenges' = [n \in Names |-> IF n \in Listened(a) THEN 0 ELSE challenges[n]]
  /\ results' = [n \in Names |-> IF n \in Listened(a) THEN k ELSE results[n]]

\* Mutant of OnChallenge: a client that has a result takes no other challenge.
OnChallengeOnce(a, k) ==
  /\ challenges' = [n \in Names |-> IF n \in Listened(a) /\ results[n] = 0 THEN k ELSE challenges[n]]
  /\ results' = results

OnChallenge(a, k) ==
  /\ challenges' = [n \in Names |-> IF n \in Listened(a) THEN k ELSE challenges[n]]
  /\ results' = [n \in Names |-> IF n \in Listened(a) THEN 0 ELSE results[n]]

\* WhatsApp asks while the client authenticates.  The challenge that waits is
\* superseded: it is refused, and its result comes once the new one was announced.
Ask(a) ==
  LET k == lastAsked + 1 IN
  /\ a \in on /\ lastAsked < MaxAsked
  /\ \E n \in Names : reg[n] # Absent /\ reg[n].adapter = a /\ reg[n].credential # Absent
  /\ asked' = [asked EXCEPT ![a] = k] /\ lastAsked' = k
  /\ UNCHANGED <<clients, answered, images, passes, listening, tasks, online, crossed,
                 strays, stuck>>
  /\ IF asked[a] = 0 THEN OnChallenge(a, k) ELSE OnResult(a, asked[a])
  /\ mislaid' = IF asked[a] = 0 THEN mislaid \ Listened(a) ELSE mislaid \cup Listened(a)
  /\ Broadcast(config)

\* The challenge that waits ends, and so does its pairing.
Refused(a) ==
  /\ asked' = [asked EXCEPT ![a] = 0]
  /\ IF asked[a] = 0 THEN UNCHANGED <<challenges, results, mislaid>>
     ELSE OnResult(a, asked[a]) /\ mislaid' = mislaid \ Listened(a)

\* Nobody answers in time.
GivesUp(a) ==
  /\ asked[a] # 0 /\ Refused(a)
  /\ UNCHANGED <<clients, answered, lastAsked, images, passes, listening, tasks, online,
                 crossed, strays, stuck>>
  /\ Broadcast(config)

\* How a pairing ended that was answered; another challenge may wait by then.
ResultTold(a, k) ==
  /\ k \in answered[a] /\ answered' = [answered EXCEPT ![a] = @ \ {k}]
  /\ UNCHANGED <<clients, asked, lastAsked, images, passes, listening, tasks, online, crossed,
                 strays, stuck>>
  /\ OnResult(a, k)
  /\ mislaid' = IF asked[a] = 0 THEN mislaid ELSE mislaid \cup Listened(a)
  /\ Broadcast(config)
-----------------------------------------------------------------------------
(***************************************************************************)
(* Requests                                                                *)
(***************************************************************************)
Put(t, task) == tasks' = [tasks EXCEPT ![t] = task]

\* Mutant of Answer: the request is not let go of.
AnswerOnly(t, without) ==
  tasks' = [tasks EXCEPT ![t].at = "none"] /\ stuck' = stuck

\* The answer to the request; without a new status, the buttons it was sent with stay
\* disabled.
Answer(t, without) ==
  /\ Put(t, Idle)
  /\ stuck' = IF without /\ tasks[t].page /\ tasks[t].job \notin {"passkey", "prefix"}
              THEN stuck \cup {tasks[t].name} ELSE stuck

Sent(t, job, n, prefix, page) ==
  /\ tasks[t] = Idle
  /\ Put(t, [Idle EXCEPT !.job = job, !.at = "sent", !.name = n, !.prefix = prefix,
                         !.page = page])

\* Another page, or a program, sends one.
OtherRequest(t, job, n, prefix) ==
  /\ job \in Job \ {"none"}
  /\ prefix \in IF job \in {"create", "prefix", "options"} THEN Prefixes ELSE {Absent}
  /\ Sent(t, job, n, prefix, FALSE)
  /\ UNCHANGED <<clients, pairing, views, online, stream, past>>

Arrived(t, jobs) == tasks[t].at = "sent" /\ tasks[t].job \in jobs

\* 404 and 409, and 400 for the requests the client manager serves when there is none.
Rejected(t) ==
  LET entry == reg[tasks[t].name]
      manages == tasks[t].job \in {"delete", "create", "prefix", "options"}
  IN  IF entry = Absent THEN tasks[t].job # "create" \/ ~managed
      ELSE manages /\ (~managed \/ (tasks[t].job # "create" /\ ~entry.virtual))

RequestRejected(t) ==
  /\ tasks[t].at = "sent" /\ Rejected(t)
  /\ Answer(t, TRUE)
  /\ UNCHANGED <<clients, pairing, views, online, stream, crossed, mislaid, strays>>

\* resolvePasskey throws when no challenge waits, and the page's stays then.
AnswerPasskey(t) ==
  LET n == tasks[t].name
      a == reg[n].adapter
  IN  /\ Arrived(t, {"passkey"}) /\ ~Rejected(t)
      /\ Answer(t, TRUE)
      /\ UNCHANGED <<clients, lastAsked, images, passes, listening, results, online, crossed, strays>>
      /\ IF asked[a] = 0
         THEN UNCHANGED <<asked, answered, challenges, mislaid, stream>>
         ELSE /\ asked' = [asked EXCEPT ![a] = 0]
              /\ answered' = [answered EXCEPT ![a] = @ \cup {asked[a]}]
              /\ challenges' = [challenges EXCEPT ![n] = 0]
              /\ mislaid' = mislaid \ {n}
              /\ Broadcast(config)

CancelPasskey(t) ==
  LET n == tasks[t].name IN
  /\ Arrived(t, {"passkey-cancel"}) /\ ~Rejected(t)
  /\ Answer(t, TRUE)
  /\ UNCHANGED <<clients, answered, lastAsked, images, passes, listening, online, crossed, strays>>
  /\ IF asked[reg[n].adapter] # 0 THEN Refused(reg[n].adapter)
     ELSE /\ challenges' = [challenges EXCEPT ![n] = 0]
          /\ UNCHANGED <<asked, results, mislaid>>
  /\ Broadcast(config)

\* Up to the await of destroy() or logout().  destroy() tears down at once, logout()
\* once WhatsApp answered.
Destroying == {"restart", "delete", "options"}

\* Mutant of Stops: the adapter is not stopped.
StopsNothing(a) == UNCHANGED <<on, asked, challenges, results, mislaid>>

Stops(a) == on' = on \ {a} /\ Refused(a)

TearsDown(t, a) ==
  /\ Put(t, [tasks[t] EXCEPT !.at = "stopped", !.adapter = a])
  /\ UNCHANGED <<managed, reg, config, answered, lastAsked, images, passes, listening, online,
                 crossed, strays, stuck>>
  /\ Stops(a)
  /\ IF asked[a] = 0 THEN stream' = stream ELSE Broadcast(config)

DestroyBegins(t) ==
  /\ Arrived(t, Destroying) /\ ~Rejected(t)
  /\ TearsDown(t, reg[tasks[t].name].adapter)

LogoutBegins(t) ==
  /\ Arrived(t, {"force-qr", "logout"}) /\ ~Rejected(t)
  /\ Put(t, [tasks[t] EXCEPT !.at = "stopping", !.adapter = reg[tasks[t].name].adapter])
  /\ UNCHANGED <<clients, pairing, views, online, stream, past>>

LogoutTearsDown(t) == tasks[t].at = "stopping" /\ TearsDown(t, tasks[t].adapter)

\* destroy() or logout() throws: 500.  The client manager only logs it.
StopFails(t) ==
  /\ Faults /\ tasks[t].at = "stopped" /\ tasks[t].job \in {"restart", "force-qr", "logout"}
  /\ Answer(t, TRUE)
  /\ UNCHANGED <<clients, pairing, views, online, stream, crossed, mislaid, strays>>

LogoutEnds(t) ==
  /\ tasks[t].at = "stopped" /\ tasks[t].job = "logout"
  /\ Answer(t, TRUE)
  /\ UNCHANGED <<clients, pairing, views, online, stream, crossed, mislaid, strays>>

\* An adapter that is brought up when it is no longer, or soon no longer, registered.
Strays(t) ==
  LET n == tasks[t].name
      a == tasks[t].adapter
      leaving == \E u \in Slots \ {t} : /\ tasks[u].at = "stopped" /\ tasks[u].adapter = a
                                       /\ tasks[u].job \in {"delete", "options"}
  IN  IF reg[n] = Absent \/ reg[n].adapter # a \/ leaving THEN strays \cup {a} ELSE strays

\* The status of whoever has the name by now, and the adapter that was stopped.
RestartEnds(t) ==
  LET n == tasks[t].name
      a == tasks[t].adapter
  IN  /\ tasks[t].at = "stopped" /\ tasks[t].job \in {"restart", "force-qr"}
      /\ on' = on \cup {a}
      /\ strays' = Strays(t)
      /\ Answer(t, reg[n] = Absent)
      /\ UNCHANGED <<managed, config, pairing, online>>
      /\ IF reg[n] = Absent
         THEN UNCHANGED <<reg, images, passes, listening, challenges, results, stream, crossed, mislaid>>
         ELSE Notify([reg EXCEPT ![n].status = "initializing", ![n].credential = Absent], config)
-----------------------------------------------------------------------------
(***************************************************************************)
(* What the client manager does for a request                              *)
(***************************************************************************)

\* destroyClient, past the await: whoever has the name is removed.
Removed(t) ==
  LET n == tasks[t].name IN
  /\ tasks[t].at = "stopped" /\ tasks[t].job \in {"delete", "options"}
  /\ strays' = strays \cup (IF reg[n] = Absent THEN {} ELSE {reg[n].adapter} \ {tasks[t].adapter})
  /\ config' = [config EXCEPT ![n] = Absent]
  /\ IF tasks[t].job = "delete" THEN Answer(t, TRUE)
     ELSE Put(t, [tasks[t] EXCEPT !.at = "removed"]) /\ stuck' = stuck
  /\ UNCHANGED <<managed, on, pairing, online>>
  /\ Notify([reg EXCEPT ![n] = Absent], config)

Unused(a) ==
  /\ a \notin on \cup strays /\ \A n \in Names : reg[n] # Absent => reg[n].adapter # a
  /\ \A t \in Slots : tasks[t].adapter # a

\* createClient: a name that is taken is skipped, and answered 200.  Nobody is told.
Creates(t) == \/ Arrived(t, {"create"}) /\ ~Rejected(t)
              \/ tasks[t].at = "removed"

CreateSkipped(t) ==
  /\ Creates(t) /\ reg[tasks[t].name] # Absent
  /\ Answer(t, TRUE)
  /\ UNCHANGED <<clients, pairing, views, online, stream, crossed, mislaid, strays>>

Added(t) ==
  LET n == tasks[t].name IN
  /\ Creates(t) /\ reg[n] = Absent
  /\ \E a \in Adapters :
       /\ Unused(a)
       /\ reg' = [reg EXCEPT ![n] = [adapter |-> a, virtual |-> TRUE, status |-> "initializing",
                                     credential |-> Absent, prefix |-> tasks[t].prefix]]
       /\ Put(t, [tasks[t] EXCEPT !.at = "added", !.adapter = a])
  /\ config' = [config EXCEPT ![n] = tasks[t].prefix]
  /\ UNCHANGED <<managed, on, pairing, views, online, stream, past>>

\* The configuration is stored by now, and the adapter initialized.
Initialized(t) ==
  /\ tasks[t].at = "added"
  /\ on' = on \cup {tasks[t].adapter}
  /\ strays' = Strays(t)
  /\ Answer(t, TRUE)
  /\ UNCHANGED <<managed, reg, config, pairing, views, online, stream, crossed, mislaid>>

\* updateClient with a prefix: the page is told before the configuration is changed.
PrefixSet(t) ==
  LET n == tasks[t].name IN
  /\ Arrived(t, {"prefix"}) /\ ~Rejected(t)
  /\ config' = IF config[n] = Absent THEN config ELSE [config EXCEPT ![n] = tasks[t].prefix]
  /\ Answer(t, TRUE)
  /\ UNCHANGED <<managed, on, pairing, online, strays>>
  /\ Notify([reg EXCEPT ![n].prefix = tasks[t].prefix], config)
-----------------------------------------------------------------------------
ServerNext ==
  \/ \E n \in Names, s \in Status, c \in Credentials : Report(n, s, c)
  \/ \E p \in Passes : Rendered(p) \/ RenderFails(p)
  \/ \E a \in Adapters : Ask(a) \/ GivesUp(a) \/ (\E k \in 1..MaxAsked : ResultTold(a, k))
  \/ \E t \in Slots :
       \/ \E job \in Job, n \in Names, p \in Prefixes \cup {Absent} : OtherRequest(t, job, n, p)
       \/ RequestRejected(t) \/ AnswerPasskey(t) \/ CancelPasskey(t)
       \/ DestroyBegins(t) \/ LogoutBegins(t) \/ LogoutTearsDown(t) \/ StopFails(t)
       \/ LogoutEnds(t) \/ RestartEnds(t) \/ Removed(t) \/ CreateSkipped(t) \/ Added(t)
       \/ Initialized(t) \/ PrefixSet(t)

Pass == [busy : BOOLEAN, wanted : [Names -> {Absent, "gone"} \cup Qrs], todo : SUBSET Names,
         at : {Absent} \cup Names, rendered : BOOLEAN]
Task == [job : Job, at : At, name : {Absent} \cup Names, adapter : {Absent} \cup Adapters,
         prefix : {Absent} \cup Prefixes, page : BOOLEAN]

ServerTypeOK ==
  /\ managed \in BOOLEAN /\ \A n \in Names : reg[n] # Absent => reg[n] \in Entry
  /\ on \subseteq Adapters /\ config \in [Names -> {Absent} \cup Prefixes]
  /\ asked \in [Adapters -> 0..lastAsked] /\ answered \in [Adapters -> SUBSET (1..lastAsked)]
  /\ images \in [Names -> {Absent} \cup Qrs] /\ passes \in [Passes -> Pass]
  /\ \A p \in Passes : passes[p].busy <=> passes[p].at # Absent
  /\ listening \in [Names -> {Absent} \cup Adapters]
  /\ challenges \in [Names -> 0..lastAsked] /\ results \in [Names -> 0..lastAsked]
  /\ tasks \in [Slots -> Task] /\ \A t \in Slots : tasks[t].at = "none" <=> tasks[t] = Idle
  /\ online \in BOOLEAN /\ Len(stream) <= MaxStream
-----------------------------------------------------------------------------
Rendering == \E p \in Passes : passes[p].busy

\* Overlapping passes and failures apart, the image of a client is of the QR it
\* waits with, and a client without one has no image: a QR that is replaced while
\* the old one is rendered, or in a pass that still goes over the others, is drawn.
ImageIsCurrent ==
  ~Rendering => \A n \in Names : images[n] = Qr(reg[n]) \/ n \in crossed

\* The listeners of a name are on the adapter it has, also when its client was
\* removed and created again: none is left on an adapter that is gone.
ListenerFollows ==
  \A n \in Names : listening[n] # Absent =>
    reg[n] # Absent /\ listening[n] = reg[n].adapter

\* A challenge the page shows is the one its client waits on: none outlives a
\* restart, a timeout, a newer one or its client.
PromptIsWaited ==
  \A n \in Names : challenges[n] # 0 => reg[n] # Absent /\ asked[reg[n].adapter] = challenges[n]

\* The challenge a listened-to client waits on is shown, unless the result of an
\* older one came after it: onResult lets go of whichever challenge is there.
PromptIsShown ==
  \A n \in Names :
    (listening[n] # Absent /\ asked[listening[n]] # 0) =>
      challenges[n] = asked[listening[n]] \/ n \in mislaid

\* The challenge shown for a client is the one its adapter waits on, on the adapter that
\* it has.
PromptsAgree == ListenerFollows /\ PromptIsWaited /\ PromptIsShown

\* An adapter that runs is in the registry, unless requests overlapped: a restart
\* brings up the adapter it stopped, also when its client was removed meanwhile,
\* and a removal takes whoever has the name when the adapter it stopped is down.
RunningIsKnown ==
  \A a \in on : (\E n \in Names : reg[n] # Absent /\ reg[n].adapter = a) \/ a \in strays
=============================================================================
