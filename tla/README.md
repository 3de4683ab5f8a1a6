# NestWhats in TLA+

NestWhats is a NestJS framework for WhatsApp bots. An application declares
clients (or creates them at runtime), each on an adapter for one WhatsApp
library, and writes handlers for commands and events. What makes the program
hard is not the handlers but what goes on behind them: connections that drop and
come back, timers, sockets that are replaced while a request on them is awaited,
clients that are created and destroyed while a file is read and written. This
directory models that part, checks it with TLC and proves some of it with TLAPS.

Contents: [the system](#the-system) · [the modules](#the-modules) ·
[the runs](#the-runs) · [disturbances](#disturbances) ·
[divergences](#divergences) · [the proofs](#the-proofs) ·
[what is not modelled](#what-is-not-modelled) · [the plan](#the-plan)

## The system

One Node.js process, one event loop. Code between two awaits is not interrupted;
everything else is: an `await` lets other calls, adapter events and timers run.
So the unit of atomicity in every module is **the code between two awaits**.

| Part | State | Operations | Correct when |
|---|---|---|---|
| **Connection wiring** (`core/src/client/client.service.ts`, `core/src/adapter/connection-event-source.ts`, `derive-connection-events.ts`) | last status, pending disconnect, debounce timer | the `connectionUpdate` listener, the timer, the cleanup function | handlers hear of what happened: no drop is lost, nothing false is announced, a recovery is known |
| **Reconnects** (`reconnect-runner.ts`, `reconnect-policy.ts`) | retry timer, attempts since the client was last up | `schedule`, `succeeded`, `cancel`, the timer | a dropped client is tried again, at most `maxAttempts` times, never over a live session, at growing delays |
| **Clients registry** (`clients-registry.service.ts`) | per name: adapter, status, credential, prefix | `add`, `updateStatus`, `remove`, lookups | an entry's status is the client's; every running adapter has an entry |
| **Client manager** (`client-manager.service.ts`) and its **storage** (`json-file-virtual-client-storage.ts`) | clients to keep, cleanup functions, the `restoring` flag, the watcher; the file | `createClient`, `updateClient`, `destroyClient`, restore at bootstrap, sync on an edit, shutdown | what was created comes back after any crash, what was destroyed does not, no adapter is left running unknown |
| **Baileys adapter** (`platform-baileys/src/adapter.ts`) | current socket, listeners to detach, pairing flag, caches | `initialize`, `teardown`, `destroy`, `logout`, `onConnectionUpdate`, the messaging API | one socket at a time is listened to; reports come in an order the core copes with |
| **Passkey pairing** (`platform-baileys/src/passkey/`, `adapter.ts` `signPasskey`) | per socket: handshake, timer; the pending challenge; the adv secret in memory and on disk | prologue, signer or event, answer, continuation, timeout, teardown | the old secret is gone before anything is signed, an answer reaches the challenge that waits, the end is told |
| **Baileys stores** (`ttl-cache.ts`, `group-metadata-cache.ts`, `message-cache.ts`, `chat-store.ts`, blocklist and presence in `adapter.ts`) | bounded maps, two sets | get, set, invalidate, evict, resubscribe, clear | nothing stale after an invalidation, the oldest go first, nothing of another account |
| **Baileys messages and chats** (`adapter.ts`, `structures/`) | what a handler holds on to; the chat store | arrive, quote, edit, delete, block, receipts; list, delete and modify chats | handled once, the writer named, statuses true, the store is the phone's |
| **whatsapp-web.js adapter** (`platform-wwjs/src/adapter.ts`) | the library's client | `initialize`, `destroy`, `logout`, event forwarding | reports come in an order the core copes with; acks are translated |
| **Webhook bindings** (`webhook/src/services/webhook.service.ts`) | bindings per client, last saved state | register, unregister, restore, sync | what is listed as bound is attached to the current adapter, and saved |
| **Dashboard server** (`dashboard/src/dashboard.service.ts`) | QR images, passkey listeners, challenges, results, requests | restart, Force QR, logout, create, edit, delete, broadcast | an image, a prompt and a listener belong to the client that has them now |
| **Dashboard page** (`dashboard/src/dashboard.html.ts`) | cards, buttons, toasts, forms | a message, a refresh, a click, a submit | it shows what the server has; a form submits what it shows |
| **Commands** (`core/src/commands/`) | maps of commands by name, alias and prefix | explore, add, remove, dispatch | a message reaches the command it names, the most specific one |
| **Client access** (`client.ts`, `messaging.service.ts`, listeners, `adapter-capability.ts`) | listeners of two emitters per client, registered capabilities | bind, on, off, once, emit, ask for a capability | whoever subscribed hears, once; what is said to be supported is done |
| **Module wiring** (`nestwhats.module.ts`, `adapter-registry.ts`, `client-token.util.ts`) | providers by token, clients | `forRoot`, `forRootAsync`, inject, init, shutdown | what is declared is what starts, once per adapter |
| **Option schemas and forms** (`adapter-options-schema.ts`, both adapters' factories, `dashboard.html.ts`) | values of a form, options of a client | fill, create, open, edit, save | the adapter runs with what the form showed |
| **Locale** (`packages/locale`) | the catalogue; one message's context | lookup, resolvers, translate | the language is the sender's, a text is never a bare key |
| Health indicator, filters, pipes, logging, documentation | none that changes while running | | |

How they interact. The application's bootstrap calls `adapter.initialize()` and
does not wait. The adapter emits `connectionUpdate`; one listener per client
(`bindInternalEvents`) writes the status into the registry, tells the reconnect
runner of a `ready` or a `disconnected`, and gives the update to the event
source, which emits the events handlers subscribe to. The runner's timer asks the
registry whether the client is still down and calls `initialize()` again. The
dashboard calls `destroy()`, `logout()` and `initialize()` on adapters at any time
and writes the status itself. The manager creates and destroys clients, wires them
the same way, and saves what it keeps; a watcher on that file calls back. Above the
connection, messages go from the adapter's emitter to listeners, webhooks and the
command dispatcher, which look clients and commands up by name at that moment; beside
it, the registry's changes reach the dashboard's server, which renders, listens and
broadcasts, and its page, which patches cards and refetches.

Which behaviours are hard, in these terms:

- **timers against events**: the debounce timer and the retry timer fire between
  any two updates, after a recovery, after the cleanup;
- **calls against calls**: `initialize()`, `destroy()` and `logout()` come from the
  bootstrap, the runner, the dashboard and the shutdown, and each awaits inside;
- **reports after an await**: a pairing code and the end of a logged-out session
  are reported when the socket they are about may be gone;
- **crashes and faults**: the process may die at any await of a save; the file may
  be torn, unreadable, or edited by hand, and the watcher reads the program's own
  saves too;
- **work that outlives its subject**: a participant list fetched while the group
  changes, an image rendered for a QR that has been replaced, a deletion that crosses
  a message, a result of a challenge that has been superseded, a page's refresh that
  is older than the messages it overwrites;
- **one account after another**: sockets, logouts and links change whose the caches,
  the quotes and the subscriptions are;
- **tables kept under several keys**: commands under names, aliases and prefixes,
  clients under names and capitalised tokens, listeners on two emitters;
- **flags and names shared across awaits**: `restoring` belongs to the manager and
  not to the call, and `destroyClient` removes by name what it looked up before.

`PROJECT.json` lists each of these hazards at its line, with the properties that
cover it or the reason none does.

## The modules

```
ConnectionUpdates            vocabulary: statuses, reasons, derived events
  ReconnectPolicy            retry or give up; the attempts counter
    ReconnectDelays          the policy alone, with its delays   <- MCAlgorithms
    ClientConnection         one client: registry status, event source, runner
      |                                                          <- MCClientConnection
      | implements
      v                      ConnectionProofs
  Announcements              what handlers are promised
  AdapterProtocols           what each adapter may report next
  BaileysSocket              the adapter's socket
    BaileysClient            = ClientConnection || BaileysSocket <- MCBaileysClient
                             ConnectionProofs
PasskeyPairing               pairing by passkey, over sockets    <- MCPasskeyPairing
                             PasskeyPairingProofs
Names                        the clients an application has, by name
Places                       what the filter of an array returns
  TtlCaches                  a map with an expiry and a limit
    BaileysStores            what is kept between sockets        <- MCBaileysStores
                             BaileysStoresProofs
  ClientAccess               listeners, client, service, capabilities <- MCClientAccess
  CommandDispatch            from a message to a command         <- MCCommandDispatch
                             ApplicationProofs (of both, which have Names in common)
MessageStatuses              how far a sent message got          <- MCBaileysMessages
BaileysMessages              messages handlers hold              <- MCBaileysMessages
BaileysChats                 the chat store and the phone        <- MCBaileysMessages
                             MessagesProofs
ClientManager                virtual clients, their file, crashes <- MCClientManager
                             ClientManagerProofs
WebhookBindings              handlers bound at runtime, their file <- MCWebhookBindings
                             WebhookBindingsProofs
DashboardService             the server of the dashboard
  DashboardPage              = a page over DashboardService      <- MCDashboard
                             DashboardProofs
OptionSchemas                the fields of the adapters' options
  OptionForms                the forms over them                 <- MCAlgorithms
PhoneCodes                   country codes
  Localization               the language of an answer           <- MCAlgorithms
ModuleWiring                 forRoot, forRootAsync, lifecycles   <- MCAlgorithms
```

**ConnectionUpdates** is `ClientStatus`, `DisconnectKind` and
`deriveConnectionEvents`: credential events fire with every update that carries a
credential, status events on a transition. A status stands for the credential it
carries.

**ReconnectPolicy** is `ReconnectPolicy.next` without the delays. The counter only
decides by comparison with `maxAttempts`, so it may saturate at `AttemptCap`, any
number above that. **ReconnectDelays** is the same class with the delays: the
doubling, the ceiling, the cooldown after `forbidden`, the rounding, and jitter as
a share chosen from a set.

**ClientConnection** is one client. `Report(update)` is the whole listener:
registry, runner (`Supervise`), event source (`Apply`). `AnnounceTimerFires` and
`RetryTimerFires` are the two timers. `Bootstrap`, `RestartPressed` /
`RestartResumes` / `RestartFails`, `Shutdown` / `Destroyed` are the callers, cut at
their awaits. `session` is the platform's side, the environment; what it may
report next is the constant `Follows`. The variables `heard`, `reason` and
`retries` are history: properties read them, no action of the code does.

**AdapterProtocols** has the values of `Follows`: `BaileysFollows` from
`onConnectionUpdate`, `WWebJsFollows` from `bindClientEvents`, and their union. For
Baileys this is not taken on trust: the run `baileys` checks it (`KeepsToProtocol`)
of the adapter's own model.

**Announcements** is the abstract specification: three variables - the status a
client is in, what handlers were told last, and whether it was shut down. Handlers
are told `ready` in the step the client becomes it, `disconnected` only while it is
down, and of every outage that lasts. `ClientConnection` implements it with
`real <- lastStatus, told <- heard, closed <- disposed` (property `KeepsPromise`).

**BaileysSocket** is the adapter: `Teardown` (before its await), `InitializeCalled`
up to the first await and `InitializeEnds` after it, with any number of
`initialize()` calls in flight up to `MaxCalls`; the handler of `connection.update`
as one action per kind of update; `AsksForCode` / `CodeArrives` / `CodeFails` and
`ClosesLoggedOut` / `Cleared` for the two awaits in it; `logout()` in three parts.
A socket is `Forgotten`, and its name free to be used again, once it is closed and
nothing refers to it.

**BaileysClient** puts the two together, step by step: what the socket reports is
what the core's listener receives, and what the core, the dashboard and the
shutdown call is what the socket does. `ClientConnection` is instantiated here with
a `Follows` that allows everything, so the order of reports is the adapter's.

**ClientManager** is the manager and its file. A call in flight is a *task*: the
method it is (`job`), the method it is inside of (`leg`), and the await it stands
at (`at`): `load`, `save` (before the file is truncated), `write` (while it is
torn), `init` and `stop` (in the adapter). A call that another awaits ends in
`returned` or `threw` and its caller takes over in a step of its own. `ProcessEnds`
loses everything but the file, at any moment. A configuration is one value: the
model tells clients apart, not the fields of their configuration. The order in
which loops visit clients is left open.

**WebhookBindings** is the webhook service and its file. A *pair* is a bucket (a
client's name, or the default one) and a handler; a *listener* is a pair and the
client whose adapter its function was put on, which for the default bucket is
resolved when it is bound and again when it is unbound. `Bound` and `Unbound` are
`_bindHandlers` and `_unbindHandlers`; `Register`, `RegisterAll`, `Unregister`, the
restore (`Loads`, `LoadFails`, and `WriteEnds` of the save that drops stale keys)
and `Syncs` are made of them. `Persist` remembers and starts a save, which is in
flight from then on. Contents stand for a text: two texts of the same contents may
differ, so a save or a sync of the same contents may or may not happen.

**PasskeyPairing** has one record per socket and one run per prologue. A run's `step`
is the await it stands at: saving the rotated secret, being signed (by the configured
signer, or by whoever hears the event), the query, sent. `waiting` says what became of
each challenge; `pendingPasskey` is the adapter's, the secret in `creds` the socket's,
the one in `disk` what a process that starts would load. Teardown, the timer of the
challenge and that of the continuation, and a crash come between any two steps.
A secret is a number; proving and carrying one is remembering which it was.

**Places** filters a sequence by the places that stay: `At(s, P)` is what `s` has at `P`,
in its order. **TtlCaches** is `TtlCache` as the sequence of its entries in the order of
the Map under it. **BaileysStores** has the six things a Baileys adapter keeps from one socket to the
next, fed by events of a socket that opens, drops, ends and is unlinked, and read across
awaits (`cachedGroupMetadata`, `resubscribePresence`). Entries are stamped with the
account they were learned of; the stamps are history.

**MessageStatuses** is one sent message: what became of it with each recipient, and the
reports on it, which come in any order and again. Both adapters' translations are in it.
**BaileysMessages** is what a handler sees in a message it holds, possibly longer than the
socket lives: the writer, the key a quote gives, the contact, the edit window.
**BaileysChats** is the store against the phone: reports in order, answers that cross them.

**CommandDispatch** is the explorer's additions, the registry's three tables, and one
call of `CommandsService.handle` cut at the await after each prefix. A body is a sequence
of symbols. **ClientAccess** has two emitters per client (the core's and the adapter's),
the three ways to subscribe to them, and capability lookups; **ModuleWiring** goes from
the options of the module to a running application and its shutdown, in either form.

**DashboardService** has the registry as the dashboard sees it, rendering *passes*,
challenges with their listeners, and *tasks*: a request, cut at its awaits (what the
manager does for it is in `ClientManager`). **DashboardPage** adds one tab: the stream
of messages to it, one refresh under way, the cards.

**OptionSchemas** lists the fields the two adapters offer and which field shows which;
**OptionForms** goes from what is typed to the options an adapter is built with and back
into the edit form. **PhoneCodes** is the table of country codes; **Localization** the
interceptor, the resolvers and `t()`.

Every action names the code it stands for in `PROJECT.json` (`map`).

## The runs

`tlc -config X.cfg M` in this directory. All bounds are constants.

| Run | Module / cfg | Shows |
|---|---|---|
| `conn` | `MCClientConnection`, `MCConn` | a client on both adapters: nothing lost, nothing false, retries bounded and over dead sessions, drops retried; it implements `Announcements`, liveness included |
| `baileys` | `MCBaileysClient`, `MCBaileys` | the adapter under the core: one socket, an honest `ready`, the assumed protocol |
| `passkey` | `MCPasskeyPairing`, `MCPasskeyPairing` | the old secret goes before it is proven, secrets are not mixed, the challenge that waits is the one answered, the end is told |
| `stores` | `MCBaileysStores`, `MCBaileysStores` | stale lists go, recent messages are answered, idle chats make room, presence survives a reconnect, a logout forgets |
| `messages` | `MCBaileysMessages`, `MCBaileysMessages` | handled once, writers known, statuses true, the chat store is the phone's |
| `manager` | `MCClientManager`, `MCManager` | no orphans, nothing lost in a crash, agreement when quiet |
| `webhook` | `MCWebhookBindings`, `MCWebhookBindings` | no stray listeners, what is listed is attached, bindings survive a restart, file and list agree |
| `dispatch` | `MCCommandDispatch`, `MCCommandDispatch` | what runs was called, what was called is answered, removal is exact |
| `access` | `MCClientAccess`, `MCClientAccess` | exactly the subscribers hear, what is supported stays so |
| `dashboard` | `MCDashboard`, `MCDashboard` | images, prompts and cards belong to the client there is |
| `algorithms` | `MCAlgorithms`, `MCAlgorithms` | delays only grow, forms are faithful, the language fits, the wiring holds |
| `manager_edit` | `MCClientManager`, `MCManagerEdit` | a counterexample: the divergence on edits that remove and add |

Deadlock is checked in `dispatch`, `access` and `stores`, which never stop. In the
others it is not: a client that was shut down, a machine that is off, a message that
has been answered and a supply of sockets that is used up stop.

Several properties are conjunctions of named parts, so that each run checks what it is
for as a few statements; a type invariant is part of one of them. The parts are
described below under the name that is checked.

**One part at a time.** `stores`, `messages`, `dashboard` and `algorithms` put machines
into one run that share no variable that matters to another: each initial state picks a
*topic*, and only its part moves, the rest staying at its initial value. Nothing is lost
by it where no part reads another's variables, which is the case for the six stores
(`BaileysStores`: each action changes one of them, and none is a guard of another's),
for the three machines of `messages` and the four of `algorithms`. In `dashboard` the
parts meet in the payload of a message, which carries all of them side by side: a topic
leaves out of it what its properties do not read. They also meet in a pass that goes over
several clients while the page is open, which no topic has; `PageAlwaysFollows` is proved
of the whole.

**`conn`.** Two recoverable reasons, a terminal one and none; debounce,
runner and dashboard all on; `MaxAttempts = 2`, so that a first attempt, a last one
and the refusal of another happen; `Follows` is the union of both adapters.
- `IInv` says, with what makes them inductive (see [the proofs](#the-proofs)), two things.
  `OutageToldOrPending`: handlers of a client that is down were told, or the timer
  that will tell them is armed. `UpIsClean`: a client that is up has no attempt scheduled
  and its budget back.
- `RetriesBounded`: the runner initializes at most `maxAttempts` times between two
  times the client is up, restarts by hand or not.
- `UpIsTold`: handlers of a client that is up were told `ready` last. This one
  needs the adapter to report something before it recovers (`NoDirectRecovery`):
  an update inside the debounce window is swallowed, and were it the `ready`
  itself, handlers would never hear it. Both adapters do.
- `RetryOnlyOverDeadSession`: the runner never initializes over a session that is
  up, coming up, or started by somebody else.
- `AnnouncesWhatIsSo`: a status event is only emitted for the status the client is
  in, however late.
- `DropIsRetried`: a recoverable drop within the limit does not stay as it is.
- `KeepsPromise`: the refinement.

This is the only run with liveness. Fairness is weak and on three things: each of the
two timers fires if it stays armed, which `setTimeout` does; and an `initialize()` in
flight ends, by a report or a rejection, which both libraries' connect timeouts make it
do. None on reports in general: the platform may stay silent for ever, and nobody has to
press Restart or shut down.

**`baileys`.** Two sockets (the one being replaced and its replacement), two
`initialize()` calls in flight (one more than the code can handle), the
`phoneNumber` option on (the path with the extra await; the QR path stays open
too), closes with `restart_required`, `logged_out` and no reason, and no limit on
attempts. Sockets are symmetric. About 659 000 states.
- `OneSocketUnlessDisturbed`: the adapter listens to one socket at most.
- `ReadyIsTrue`, of two parts. `ReadyMeansOpen`: the registry says `ready` only while the current socket is
  open, or is being torn down, or its logged-out close is being handled.
  `ToldUnlessDisturbed`: `UpIsTold`, with this adapter rather than the protocol.
- `KeepsToProtocol`: what it reports is what `BaileysFollows` allows.

**`manager`.** Two clients, one configuration, two adapters, two calls in flight
(a call and the sync or the restore, or two calls), faults on. Names, adapters and
slots are symmetric. One configuration is enough for these properties, which are
about whether a client is there. About 1.25 million states.
- `RegistryIsSound`: an adapter that was not told to stop is in the registry.
- `KeptAcrossCrashes`: at every moment the process could die, a file that can be
  read has every client that was created or put into it, and not removed - but for
  the clients being updated, which are destroyed first.
- `QuietMeansAgreed`: when nothing is in flight, registry, map and file have the
  same clients.

**`webhook`.** Two clients, one of them the one named default; one handler, a
`@Once` one, which fires or not; a bucket named for that client and the default
bucket, which are the two kinds there are (`Named` leaves the other client without
bindings of its own); two saves in flight. About 1.1 million states.
- `BindingsAreAttached`, of two parts. `NoStrayListeners`: what is attached is listed, and a function that nothing lists
  was put on without naming a client, by a bucket that stands for another since.
  `ListedIsAttached`: what is listed is attached, but for a `@Once` that has fired
  and a client that was destroyed since.
- `BindingsSurvive`: whenever the process is down the file holds what was asked for
  last, and whenever it runs and no edit waits, so does the service.
- `FileFollows`: when nothing is on its way, a watched file holds what is listed.

**`passkey`.** Two prologues on up to three sockets, made one after the other in a
process or across a crash: an own challenge, one that supersedes it, and one of a
socket that came later. A configured signer or none. WhatsApp answers a prologue with at
most one continuation, which may come before the query is answered; a query on a socket
that was closed is rejected. About 374 000 states.
- `SecretsAreSound`: once a signer was asked, the secret it proves is not on disk and
  never will be (but when a socket was made while a secret was being saved, which then
  saves what it read: `overtaken`); a prologue proves the secret that was there when it
  was asked, and the pairing carries the one that replaced it (but when prologues
  overlap on one socket: `overlapped`).
- `PendingIsWaiting`: what `resolvePasskey` would answer is a challenge that waits, and
  with no signer a challenge that waits can be answered (but when a settled one was
  answered once more, which clears the pending one without asking whose it is: `stale`).
- `EndIsToldOnce`: a pairing that ended is told, and twice only when the continuation
  came `untimely` or prologues overlap. Not told is one whose continuation failed, whose
  socket is gone, or that another prologue came after.

**`stores`.** Two groups and room for one list, three retried messages and room for two
counters, four messages (a text, a poll, a sent one, one of another chat) and room for
two, three chats and room for two, two contacts, two accounts, two resubscribing loops,
a clock of two ticks with a life of one: in each the limit is passed, and something
expires. About 122 000 states.
- `StaleOnlyIfRaced`: no list of participants older than a reported change is kept, but
  one that was being fetched when the change was reported (the code's own word is
  "never", see the divergences).
- `RecentAreAnswered`: what was seen or sent last - as many as there is room for -
  can be answered, revoked and voted on, however often and in which chat; the marker of
  a chat is its last received message, or else its last.
- `AccountIsFollowed`: blocked is who the blocklist said last; after a reconnect
  everyone who was subscribed is subscribed again, or failed to be, once the loop is
  over; and after `logout()` nothing of the account is left for the next.
- `IdleChatsGo`: a chat that makes room was no more active than any that stays.

**`messages`.** Six messages - a direct one by LID, an own voice note it answers, a stub,
a captioned photo sent from here to a group, an answer to it from the phone, and one to it
in private -; statuses of a message to two recipients; chats of three kinds, with a
community and two accounts. Two messages come in one report or in two, of one chat or of
two, and a chat that is synced has up to two unread: that is enough for a count to be
overwritten. Of the chats the deletions, the modifications over two accounts, the
listings and the counts are each a topic of their own, which bounds the run and not the
argument: `StoreFollowsPhone` is proved of all of them together. About 510 000 states.
- `HandledOnce`: however often history brings it, a message reaches handlers once, a
  second time only when WhatsApp delivers it again, and never when this client sent it.
- `WritersAreKnown`: the writer, the contact and both its identifiers are those of who
  wrote, or refused; a key made from a quote is the quoted message's (but when it was
  made without a socket, or without the account's LID); who is blocked reads so; an edit
  that was answered takes hold, or came after the window.
- `StatusesAreTrue`: nobody hears that a recipient got, read or played what he did not,
  and once every report has come everybody heard how far it got (but for an own device
  that saw a posted status, and one under a LID the socket does not know).
- `StoreIsPhones`: with nothing under way the store has the phone's chats and unread
  counts, and a modification carries a message of its own account (but for a deletion
  that crossed a report, and what the phone's unlinking left behind). Where the unread
  messages of a chat were reported one after the other (`piecemeal`) the count is one of
  `1 .. unread` and no more: Baileys reports how many came, and the store puts that in the
  place of what it had, see the divergences. Once the chat is read, or the report carries
  all that is unread, the count is exact again.
- `ListingIsWhole`: `getChats` loses no chat it knew, names none twice, and a community
  offers what communities do.

**`dispatch`.** Two clients; a command with an alias, one with a prefix of its own that
the usual one begins, two under one word for a client each, a group with a default and a
subcommand; eight bodies that tell these apart. Commands are put on and off and prefixes
edited between the steps of a call, one call at a time: calls meet only in the registry.
- `CallsAreAnswered`: what runs was called by name, under a prefix there was; a message
  that calls a handler its client may use is answered, by the most specific one, with
  the words after the handler's as arguments. The exceptions are a word claimed twice
  (`contested`), tables that changed during the call (`steady`), and arguments under a
  prefix with a space in it. The parts compare with a definition of their own of what a
  body calls (`Addresses`), not with the lookup's.
- `RemovalIsExact`: all the words of a handler that is listed lead to it, whatever else
  was taken off, and none to one that was taken off itself. The exceptions are each
  handler's own: those that claimed a word another one did, and those removed by an alias,
  which `remove` leaves behind their name.

**`access`.** Two clients that both emit the events of the platform, the second with an
adapter that lists its events - one of the two - and subtracts a capability; two
functions, one of which throws; three found listeners (of one client, `@Once` of all, one
that webhooks manage); two packages of capabilities. About 126 000 states.
- `ExactlySubscribersHear`: whoever subscribed and was not refused hears, nobody else
  does, and a found listener is on a client once; but for `messaging.on` of an event of
  the core, which it puts on the wrong emitter, and an `off` whose name, or default,
  stands for another client than when the function was put on: it misses the listener it
  is meant for (`astray`), and takes the one off that the same function has on the other
  client (`taken`).
- `SupportedStaysSupported`: what a client was said to support is done, also after more
  packages were loaded, and by the client and by the service alike.

**`dashboard`.** Two names, two adapters, two QRs, two prefixes, two requests and two
rendering passes under way, two challenges, two messages on the stream, one refresh;
requests and the connection of the page may fail.
- `ImageIsCurrent`: once no pass is under way, the image of a client is of the QR it
  waits with, also when that was replaced while the old one was rendered (but when a
  pass for an older payload set it last: `crossed`).
- `PromptsAgree`: the listeners of a name are on the adapter it has; a challenge that is
  shown is the one its client waits on; and the one it waits on is shown (but for one
  that the result of an older one took away: `mislaid`).
- `RunningIsKnown`: an adapter that runs is in the registry, whichever requests overlap
  (but for what a restart and a removal leave behind together: `strays`).
- `PageFollows`: once it has heard everything the page has the server's cards, their
  buttons work again, a result is told once, and the edit form shows the prefix there
  is; the exceptions are a refresh that came late or failed (`behind`, `apart`), a request
  that changed no status (`stuck`), a prefix changed through the page (`lagging`), and an
  image that an older or a failed pass was the last to touch (`crossed`).

**`algorithms`.** About 268 000 states.
- `BackoffNeverShrinks`: of two drops in a row with a transient reason, the second waits
  at least as long but for jitter, and never longer than the ceiling plus jitter. At the
  default delays (1 s base, 60 s ceiling, 5 min cooldown) and `MaxAttempts = 7`, since
  2^6 s already passes the ceiling. Jitter is 0, 10 or 20 hundredths: none, half and all.
- `FormsAreFaithful`: the adapter runs with what the form showed (but for what the
  factory was given in code); an edit keeps what it did not edit, if it was opened with
  the client's own options; and a save of the prefix alone does not reconnect, if the
  options came from one form and one tier. Up to two fields filled, one edited.
- `LanguageFits`: a number is of the country whose code it begins with, for one number of
  every listed code and some of none; code and language agree at one lookup (but for a
  LID that gave none); nobody is answered with a bare key if the fallback has it.
- `WiringHolds`: every lifecycle drives an adapter of its own, initialized and destroyed
  once (but for names equal in capitals); what is declared is started on the one adapter
  it can mean; injection goes by name; sound options start (but for capitals); `forRoot` and `forRootAsync`
  agree. Up to two factories and two clients, all of them.

Each property has mutants (plausible bugs in one mapped definition, beside that
definition in its module) under which TLC finds it violated in the same run; a property
of several parts has one for each that matters.

## Disturbances

Some interleavings and faults the code does not cope with. Leaving them out of the
model would make it unfaithful; keeping them would leave nothing to check but that.
So they are in the model, and a history variable `disturbed` notes that one has
happened; the properties above that mention it hold of every behaviour up to then.

`BaileysClient`: a teardown or an `initialize()` while an `initialize()` is in
flight or a logged-out close is being handled (`Disturbs`); a logout whose request
failed (`LogoutWorked`); a logged-out close whose session cannot be cleared
(`SessionStays`), of which nothing is ever reported. That last one is a rejection of
`onConnectionUpdate`, which nothing awaits: where the application does not catch such
rejections, Node ends the process instead.

`ClientManager`:
- a save while another is in flight, before the restore is over, or over an edit
  that was not applied yet (`PersistDisturbs`);
- a save, a load or a factory that fails; a file that is torn when it is loaded;
- a `createClient` of a user while `restoring` is set;
- a create, destroy or update of a name another call is about to create or destroy
  (`Contended`), and the end of a destroy whose entry was replaced;
- an edit of the file that is not watched, made while something is going on, or
  that both adds and removes; a sync that reads a file older than the map while
  another call is in flight (`Stale`);
- a crash in the middle of an update.

`WebhookBindings`, where `wanted` becomes `None` and `BindingsSurvive` says nothing
from then on:
- a call while a save or a read is in flight, before the restore is over, or over an
  edit that was not applied yet; a file read while a save waits to be written - the
  way the watcher's echo of one call undoes the next;
- an edit that is not watched, or made while a save or a read is in flight; a file
  that is removed;
- stored bindings that cannot be bound: of a client that is not registered yet, or
  that does not take the handler;
- the end of the process with a save in flight, which is also what a save that fails
  leads to.

`FileFollows` has two exceptions only (`inStep`): a call before the restore was over,
and a restore that skipped something, after which what was saved last is not what is
bound.

The later modules name each exception for itself rather than in one variable: the
histories quoted above (`overtaken`, `overlapped`, `untimely`, `stale`; `raced`, `unlinked`,
`piecemeal`;
`crossed`, `mislaid`, `strays`, `stuck`, `behind`, `apart`, `lagging`; `contested`,
`steady`; `astray`, `taken`) are set by the one step that goes wrong, and excuse only what that
step concerns. Each is reachable, and without it TLC finds the property violated.

What happens then is a matter of reading the code; where it breaks something the
repository states, it is listed next.

## Divergences

Where the code does something else than a document, a comment or a test of the
repository says. `manager_edit` (`SyncDestroysOnlyRemoved`) is kept as a run: one edit
that removes a client and adds another; the save after the removal drops the addition
from the file, and the sync that save triggers destroys it
(`client-manager.service.ts:146` against the comment at `:137`). The others are in the
models, which follow the code, and are what the exceptions above are for; a
counterexample to the sentence quoted is found by dropping the exception.

Connections (`packages/core/README.md:803-813`):
- with the debounce on, Baileys' own `initializing` report ends the flap, so the `ready`
  that follows is announced although its `disconnected` was not
  (`connection-event-source.ts:51`);
- an auth failure reported while the client is already down is never announced: no
  transition, no event (`derive-connection-events.ts:39`);
- a timer armed by an earlier drop is not cancelled by a terminal one
  (`reconnect-runner.ts:40`), and an attempt that rejects is only logged (`:52`): with
  whatsapp-web.js, which reports nothing then, the client stays down;
- Restart while `initialize()` awaits makes two sockets, both listened to
  (`adapter.ts:381` against `adapter.interface.ts:54`).

Clients and wiring:
- a client created while a restore awaits some other client's `initialize()` is neither
  kept nor saved (`client-manager.service.ts:227` against `:60`); creating one whose name
  is taken reports success (`:188`);
- a module-level `ignoreSelf` is not inherited by `clients`; `@InjectClient` in other
  capitals than the declaration makes the start fail; names that differ in capitals only
  share a token; a single client named `Default` is replaced by an alias of itself
  (`nestwhats.module.ts:318-322`), and the start fails; `forRootAsync` does not look for duplicates, and never starts a client
  that `clientNames` leaves out.

Commands and access:
- a group's `client` is lost for its subcommands (`explorer.service.ts:111` against
  `command-group.decorator.ts:12`), which also answer under any custom prefix;
- `@Args()` is cut from the whole body, wrongly where a prefix has a space in it, and is
  an array where `apps/docs/docs/core/commands.md:40` and `:103` have a string; a word claimed by
  two commands for different clients is the later one's for all; taking a command off by
  its alias leaves its name;
- `messaging.on('ready')` never fires: the core's events are emitted elsewhere
  (`messaging.service.ts:116` against `:61`), as `client.ts:303` knows; `messaging.off`
  without a name may miss after another client joined, and take off what the same
  function hears of that one.

The Baileys adapter:
- "a stale list is never used" (`adapter.ts:171`): a list that was fetched while
  the group changed is stored after the change dropped the entry (`adapter.ts:365`);
- a phone that unlinks the device leaves the stores (`adapter.ts:598`), which `logout()`
  clears (`:909`); if the session cannot be removed there, the drop is never reported;
- `chat.unreadCount` (`packages/platform-baileys/README.md:176`, and "Unread messages,
  where the platform tracks it", `packages/core/src/structures/chat.interface.ts:27`) is
  the count of the last report: Baileys says in a `chats.update` how many messages came,
  and `ChatStore.update` (`chat-store.ts:39-46`) puts that over the count there was. After
  two messages that come one after the other the store says one, and so does the list of
  unread chats in `examples/10-baileys/src/chats.handler.ts:30`;
- a pairing is told its result twice when the continuation comes before the query is
  answered (`passkey-handshake.ts:290` against `:174`);
- presence subscriptions are said not to survive a reconnect (`client.ts:281`); Baileys'
  adapter sends them again;
- the results of a poll's vote are of that update's votes, where `poll.ts:8` says the
  whole tally; whatsapp-web.js' acks have no `fromMe` guard (`platform-wwjs/src/adapter.ts:188`)
  where `message-status.ts` says "a message this client sent";
- without a socket the sender of an own message is the chat it is in; an own message that
  was quoted cannot be edited; a message delivered again is handled again;
- `getChats` lists groups of its store that the account has left, which `getChat` says do
  not exist.

The dashboard:
- a pass that began before a client had a QR, and of whose renderings none succeeds, deletes
  the image a newer pass made for that client and tells nobody (`dashboard.service.ts:619`
  and `:636`): the page keeps an image the server no longer has, and one that connects gets none;
- a save that edits nothing reconnects the client if its options came from both tiers of
  fields or had raw ones (`dashboard.html.ts:880`, which compares texts); options outside
  the schema are lost by an edit, and so is a default spelled out over the factory's own
  configuration; a checkbox left at the schema's default does not override it either;
- an edit form that was opened before the page knew the client's configuration, or that
  another page overtook, writes the other options over; it shows fields that the form for
  creating hides; `usesPairingCode` (`:970`) does not see Baileys' `phoneNumber`.

Locale:
- a resolver given as a class that is no provider is created by a promise nobody awaits,
  so that asking it throws (`localization.interceptor.ts:70` against
  `packages/locale/README.md:230`); the interceptor and its lookup run once per handler and, for a LID, once
  more per resolver, not "once per message" (`phone.util.ts:29`), so that the code and the
  language may disagree; when no resolver answers, the language is a hard-coded `en-US`
  (`:56`).

## The proofs

TLAPS, for every value of the constants under the named assumptions. These say

- what type a constant has (`OptionsAssumption`, `ProtocolAssumption`, `KindsAssumption`,
  `MaxAttemptsAssumption`, `PasskeyAssumption`, `StatusesAssumption`, `StoresAssumption`,
  parts of the others), and that each store has room for one entry (`StoresAssumption`);
- that there are finitely many names, clients, handlers and found listeners
  (`ManagerAssumption`, `WebhookAssumption`, `AccessAssumption`), which a Map and a
  decorated class have;
- that a found listener is bound by a function of its own, which the explorer makes for
  it, and that an event is the core's or the platform's (`AccessAssumption`);
- that no client is called what stands for "no client" (`NamesAssumption`); of commands
  what a declaration has - a word at least, a parent if it is a subcommand's, a prefix of
  its own only if it is a command - and that a space has no other case
  (`DispatchAssumption`);
- that the counter of attempts saturates above the limit (`AttemptCapAssumption`);
- that the values that stand for "none" - no socket, no adapter, no card, a torn or a
  missing file - are not values of what they stand in for (`SocketAssumption`,
  `ManagerAssumption`, `WebhookAssumption`, `DashboardAssumption`, `EntryAssumption`,
  `PageAssumption`), and that the page's stream has room for a message (`DashboardAssumption`);
- of a world of messages that a direct chat is between the account and the other, that
  what this client sent the account wrote, and that what is quoted is a message
  (`WorldAssumption`); of chats that there is an account (`AccountsAssumption`); of what
  the cache of messages is given that it is of a chat and has a content
  (`MessagesAssumption`).

The bounds of the models (calls in flight, sockets, prologues, messages, slots, passes)
are constants too: the theorems hold for every number of them. In particular those of
`ClientConnection` hold for every `Follows`: any order of reports of any adapter.

**ConnectionProofs, one client on any adapter.**
- `TypeCorrect`: `TypeOK`.
- `Invariance`: the run's property `IInv == TypeOK /\ OutageToldOrPending /\ PendingIsCurrent /\
  UpIsClean /\ RetriesAreCounted`. `OutageToldOrPending` is not inductive alone:
  the timer's callback emits only if the client is still down, so one needs that a
  pending announcement is about an outage that is on (`PendingIsCurrent`).
  `RetriesBounded` is not either: it needs that an attempt is counted when it is
  scheduled, before it is made, and that only attempts within the limit are
  scheduled (`RetriesAreCounted`). The step has one lemma for the runner
  (`RunnerStep`), one for the event source (`SourceStep`) and one for the actions
  that touch neither (`QuietStep`).
- `DropsAreAnnounced`, `AttemptsAreBounded`, `UpLeavesNothing`: its consequences.
- `AnnouncementsAreTrue`, `RetriesAreSafe`: the action properties
  `AnnouncesWhatIsSo` and `RetryOnlyOverDeadSession`. The latter rests on
  `DeadWhileScheduled`: while a retry is scheduled on a client the registry has as
  down, the session is dead, since every way to start one either is the runner's
  own, which disarms the timer, or changes the status first.
- `UpIsAlwaysTold`: `UpIsTold`, assuming `NoDirectRecovery`. The invariant adds
  `PendingMeansDown`.
- `ImplementsPromise`: every behaviour of `Spec` is one of `Promise!Spec`, the
  safety half of the refinement, under the same assumption.

**ConnectionProofs, a Baileys client.** For any number of sockets, calls and retries, and any options.
- `SocketInvariance`: `SocketInv` - the adapter can detach from whatever it listens
  to, and undisturbed it listens to its current socket at most, and to none while
  an `initialize()` is in flight.
- `OneSocket`: `OneSocketUnlessDisturbed`.
- `ImplementsConnection`: `ClientSpec => Spec`. Every step of the client with its adapter
  is a step of the core's model or leaves it as it was, so each theorem above holds with
  this adapter; `ClientTypeCorrect` is the first that is carried over.
- `ProtocolInvariance`: `AdapterInv`, which relates what the adapter reported last to how
  far its socket got. `KeepsToProtocol` is not inductive: what may be reported next depends
  on reports long past. While calls do not overlap one socket at most is not closed, it is
  the current one, and no drop waits to be announced (`OneAtATime`); hence what was
  reported last tells where that socket is (`Reporting`). Overlaps are noted before they do
  harm, so that a step is either calm or disturbs (`Calm`).
- `ReportsFollowProtocol`: `KeepsToProtocol`, so the `Follows` the core is checked with is
  the adapter's. `ReadyIsAlwaysTrue`: `ReadyIsTrue`; its `ReadyIsOpen` names the two moments
  at which the registry is behind the socket, and its second part is the core's theorem
  that what is up was announced, whose premise the protocol gives.

**ClientManagerProofs.** For any number of clients, adapters and calls in flight.
- `RegistryStaysSound`: `RegistryIsSound`, from `Sound`. A call is a record whose fields
  matter or not by where it stands; `WellFormed` says which combinations there are. That
  what was told to stop does not run (`StoppedStays`) needs that a created adapter is one
  that nothing remembers. That no call is torn out of its shape holds disturbed or not,
  that there are no orphans until then.
- `ClientsAreKept`: `KeptAcrossCrashes`, from `Keeping`. Undisturbed, every save in flight
  carries every client that is owed, and no call that removes is about one (`FileKeeps`);
  calls are about different names where they could undo each other, and one at most saves
  (`CallsApart`), which holds because any other call is noted as a disturbance. The clients being updated are out of it only while they are
  gone (`RemadeIsGone`).
- `QuietAgrees`: `QuietMeansAgreed`, from `Agreeing`, which says for each moment of each
  call what registry, map, file and the snapshots in flight still lack of each other.

**WebhookBindingsProofs.** For any clients, handlers, buckets and saves in flight.
- `BindingsInvariance`: `IInv == TypeOK /\ BoundIsSound`. `BoundIsSound` adds to the two
  properties below that whatever is attached is on a client that is registered, and on the
  client it is named for: without it, taking a function of a named bucket off could miss
  its adapter. `BoundKeepsSound` and `UnboundKeepsSound` say that binding and unbinding
  keep it, whatever is bound or unbound.
- `NoStrays`, `ListedHearsClient`: `NoStrayListeners` and `ListedIsAttached`; together
  `BindingsAgree`: the run's `BindingsAreAttached`.
- `BindingsOutlive`, `FileIsFollowed`: `BindingsSurvive` and `FileFollows`, from `FInv`.
  Both speak of quiet moments, so the invariant says what holds in between: every save in
  flight carries what was asked for and an edit on its way to the list is what the file
  has (`Wanted`); what was saved last is what is listed, and a watched file of which nothing is
  on its way has just that (`InStep`).

**MessagesProofs, statuses.** For any recipients and any number of reports under way.
- `StatusInvariance`: every report under way is *grounded* - it says what happened -,
  every status told is *fair* - what `NeverOverstated` says of one -, and whatever
  happened is told or its report is under way (`AnswerComes`, `ProgressComes`). The last is what `AllIsTold` needs before
  the reports are in, and the first what a report that comes late, again or out of order
  needs to be fair: what was reached is not unreached.
- `StatusesHold`: `StatusesAreTrue`.

**PasskeyPairingProofs.** For any number of sockets and prologues.
- `SecretInvariance`: `SecretInv == Shape /\ Owned /\ Gone /\ Own`. That the old secret is
  not on disk does not follow from its own step: the disk is written by other prologues,
  by saves of other sockets and read by a new process. So one needs where each secret comes
  from (`Owned`: what is on disk or in a socket is the first one or some run's, a run's own
  is later than the one it replaced, and handshakes and continuations are of their socket's
  runs), and that the current socket, which saves next, has not got the old secret either
  once a signer was asked (`Gone`). `Own` adds to `SecretsAreOwn` what a run that still goes
  on, or may still be continued, has in its socket.
- `SecretsHold`: `SecretsAreSound`. `PendingWaits`: `PendingIsWaiting`, from an invariant
  of its own about who set the pending challenge and who cleared it (`WaitInv`).

- `EndToldOnce`: `EndIsToldOnce`, from `EndInv`. Told at least once: whoever has sent its
  result and is not told waits for the timer, which is its own (`ArmedOwn`), for a
  continuation under way, or had one that failed (`Ends`). Told at most once: while one
  waits for the timer none of its continuations is under way, and never two are (`Once`).
  Of two prologues of one socket that are live both are marked as overlapping (`Alone`),
  so that a step of one ends no other's. The proof corrected the property: with a third
  prologue on a socket, the late continuation of an earlier one that failed is taken for
  the last one's, whose own then finds it told. That is no continuation before its query
  was answered, which is all the exception named before, and the run's two prologues do
  not reach it; the exception is now any continuation that is not the prologue's own in
  time (`untimely`).

**MessagesProofs, messages and chats.** For any world of messages, any chats and groups.
- `MessagesInvariance`: `MessagesInv`. What a handler holds is a message as it came, or
  one built from a quote (`ObjectsOwn`): its key is then of the message quoted whenever the
  account knew itself. From that follow what was asked about it and which edits were sent
  (`EditsOwn`), long after the socket is another's.
- `MessagesAreHandledOnce`: `HandledOnce`. `WritersAreAlwaysKnown`: `WritersAreKnown`, of
  which the writer, the contact and the blocked are read off the object in each state: a
  key tells the writer by its participant, as the account's own, or by the chat
  (`WriterIsTold`).
- `ChatsInvariance`: `ChatsInv`. `StoreFollows` speaks of the chats with nothing under way;
  in between, of a chat whose deletion crossed no report, the last report under way says
  what the phone has (`Tells`), and with none the store has it (`Mirrors`), unless the
  deletion was carried out and the answer is on its way (`Follows`). Earlier reports need
  not be true any more. Of a chat in `piecemeal` the last report says how many messages
  came with it, which is one at least and no more than there are unread (`CountTells`):
  that bound is what the store keeps, and an exact count is not to be had.
- `StoreFollowsPhone`: `StoreIsPhones`. `NothingListedIsLost`: `ListingIsWhole`.

**BaileysStoresProofs.** For any groups, messages, chats, contacts, limits and accounts.
- The stores are arrays that are filtered, cut and sorted. The proofs speak of *places*:
  `AtReturns` says that `At(s, P)` has exactly what `s` has at `P`, in order. `SelectSeq`
  is defined by recursion, of which TLAPS proves nothing without an induction; `At` is
  the same filter in a form that a proof can open.
- A step is of the socket or of one store (`OneAtATime`), so each store has an invariant
  of its own.
- `ListsAreCurrentOrRaced`: `StaleOnlyIfRaced`, from `GroupInv`. A list that is kept is as
  new as what was reported only if each that is under way is, or is marked as raced by
  the report (`AnswersAreMarked`).
- `RecentMessagesAreAnswered`: `RecentAreAnswered`, from `MsgInv`: what is kept is the end
  of all that was heard (`LastOf`), also when a message moves up because it was heard
  again (`NewestOfNewest`), and each chat's marker is the last of that chat, before and
  after the cut.
- `StoresFollowTheAccount`: `AccountIsFollowed`. `BlockInv` says which contacts were told of and
  did not change since; `PresenceInv` that of the resubscribing loops that are at work one
  has asked for everyone it has come to; `Owned` that while nothing is linked nothing is
  kept, so that the account that comes next finds nothing.
- `LeastActiveChatGoes`: `IdleChatsGo`, from `ChatsInv` and what sorting by activity and
  cutting returns (`TrimmedReturns`).

**ApplicationProofs, ways to a client.** For any clients, events, functions, found listeners and packages.
- `SubscribersHearOnce`: `ExactlySubscribersHear`. A subscription is history and a listener
  an entry of an emitter's array; the invariant ties them together in both directions:
  every entry is of a subscription that put it there (`Backed`), every subscription has its
  entry unless it was taken (`Heard`). Neither is inductive without uniqueness: `off` takes
  the last entry of a function off and ends one subscription, which is the same one only
  if an emitter has a function for an event once (`PlacedOnce`) and a function one
  subscription to an event of a client (`OneEach`). The proof corrected the property: with
  a second client that emits, an `off` meant for one takes the same function off the
  other, whose subscription goes on and does not hear. The run had one emitting client and
  did not reach it; now it does, and the exception is named (`taken`).
- `SupportIsKept`: `SupportedStaysSupported`, an action property: the packages' table only
  grows, and a client and the service resolve the same name to the same adapter.

**ApplicationProofs, commands.** For any declarations, prefixes and bodies, of any symbols
and any length. A symbol's lower case is one symbol (`LowerOf`): a letter that
`toLowerCase` turns into two is outside the model.
- `CallsAlwaysAnswered`: `CallsAreAnswered`. Three arguments, one on another.
  *Text.* The property says who is called in terms of prefixes of the body (`Opens`,
  `OpensTwice`), the code splits it into tokens and looks these up. `CallsIs`: they agree.
  Below it is what a token is (`TokenIs`), where the second begins after any number of
  spaces (`SecondBegins`), and that cutting a prefix without a space off the front leaves
  the tokens after the first what they were (`TailsAgree`), which is why arguments cut from
  the whole body are those that follow.
  *Tables.* `Good`, of each of the three tables and each prefix: an entry is under a key of
  the handler it is of, which is listed or contested, and who is listed and not contested
  has all his keys. It is not inductive alone: `remove` takes the aliases of the command it
  finds off, whosever they are by now, so one needs that whoever shares a key with another
  is contested (`Rivals`). That in turn holds only while nothing has been removed, at the
  start, where no key is lost yet; after it `Rivals` is a fact about the declarations.
  *Call.* `CallSound`: what ran, ran for a body that calls it. `AnsweredSoFar`, while nothing
  but the call moves (`steady`): a call that goes on has found nobody under its own prefix
  and under those it has seen who should have been; when none is left it has seen every
  prefix that anybody listed has.
- `RemovalAlwaysExact`: `RemovalIsExact`, from `Good` of every table.

This module and `BaileysStoresProofs` state the lemmas on `At` each for itself, as they are
needed.

**DashboardProofs.** For any number of names, adapters, requests, rendering passes,
challenges and messages on their way.
- `DashboardInvariance`: `DashboardInv`.
- `PromptsAlwaysAgree`: `PromptsAgree`. Needs that no two names have one adapter
  (`Distinct`), or a challenge of one would be shown as the other's; and that a client
  nobody listens to yet waits on no challenge (`Unheard`), since nobody would show it.
- `RunningIsAlwaysKnown`: `RunningIsKnown`. An adapter that a request stopped in order to
  remove it is only brought up again by a restart, which makes it a stray (`StaysDown`).
- `ImagesAreCurrent`: `ImageIsCurrent`. In between, an image that is not the one of the
  client's QR is known not to be (`crossed`), or some pass has yet to come to that name
  with the QR the registry has by now (`Drawn`).
- `PageAlwaysFollows`: `PageFollows`, from `DashboardInv` and `PageInv`. A page that has read
  everything is one whose last message was right, so the invariant is about what is still
  on its way: the last message, or an answer nothing overtook, says what the server has,
  but for the image of a pass that will yet send one (`Following`); a card whose buttons are
  off and not `stuck` has a request under way that will end one way or another, or a message
  that changes its status (`Released`); a client has a configuration in the messages when it
  has one (`Stored`), or the form would keep that of a client long gone. Of results it says
  that a challenge ends once and for one client (`Single`, `OfOne`), that nobody knows of an
  end that is yet to come (`Fresh`), and that a result that was shown comes again only
  before any other (`ShownOnce`): the page remembers the last it showed, no more. A step of
  the server is a message with all there is, or it leaves what a card shows (`Sends`,
  `Keeps`). The proof corrected the property, which had no exception for `crossed`: with
  two clients an image may go without a message, which no topic of the run has.

Checked by TLC only:
- liveness: `DropIsRetried`, and the liveness of `KeepsPromise`, whose safety is proved;
- `FormsAreFaithful`, which rests on a fold over the fields of a form, hence on induction;
- `BackoffNeverShrinks`, whose delays are powers of two, and `LanguageFits` and
  `WiringHolds`, which are about finite tables that the run goes through whole.

## What is not modelled

- Libraries: Baileys, whatsapp-web.js and Nest. What they may do is taken from how
  the code uses them; a request on a closed Baileys socket fails.
- Payloads: QR strings, pairing codes, texts and media, whose presence is what counts;
  the cryptography of passkeys, which is two names for a secret, and `protobuf.ts`, which
  encodes bytes.
- Time: a timer fires at any moment after it is armed. Delays are in
  `ReconnectDelays`, expiry in `BaileysStores` and the edit window in `BaileysMessages`.
- An adapter whose `destroy()` never returns. In `ClientConnection`, `logout()` and
  Restart pressed a second time before the first has returned (one dashboard request
  at a time per client); `DashboardService` has two.
- A file of bindings whose JSON is something else than a map; two reads of the
  watcher in flight at once.
- Of chats: messages the account itself writes, which carry no unread count, and the
  markers they leave.
- Of messages: media, stickers, the tallies of polls, groups' administration, profiles,
  statuses that are posted, and privacy settings: each passes a request on and keeps
  nothing. One of them is torn by a failure in the middle (`setPrivacySettings`,
  `adapter.ts:1190-1203`, six requests one after the other): what was set before stays.
- Of the dashboard: HTTP routes, sessions, statistics of the process, the markup, the
  logs and the webhook list.
- Of the locale: the loader of the JSON files and the interpolation of arguments.
- Filters, pipes and the guards that look at one field of a message; the health
  indicator, which counts entries; loggers.
- Documentation, examples and build files, which are read for what they promise.

## The plan

Done: the connection and its promise, the Baileys socket under it, the manager over its
file, webhook bindings, passkey pairing, the stores, messages and chats, commands, access
and capabilities, the wiring, the dashboard with its page and forms, locale; and the eight
proof modules. What is left, in the order of what it would add:

1. The requests of `adapter.ts` and `structures/` that are several in a row and can fail
   in between: `setPrivacySettings`, groups' invitations, pinned chats.
2. The dashboard's log and webhook lists, which are streams of their own.
