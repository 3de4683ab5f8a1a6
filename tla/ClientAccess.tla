----------------------------- MODULE ClientAccess -----------------------------
(***************************************************************************)
(* The three ways an application reaches its clients: the listeners that   *)
(* are found in it (bindListeners), the injected NestWhatsClient, and      *)
(* NestWhatsMessagingService, which looks a client up by its name, or by   *)
(* none.  Two emitters stand behind a client, its adapter and, for what    *)
(* the core derives, client.events; both are new when a client is created  *)
(* again.  Operations go by the capabilities of the adapter.               *)
(***************************************************************************)
EXTENDS Names, Places, SequencesExt

CONSTANTS
  DefaultName,  \* the client named "default", if Clients has it
  Derived,      \* DERIVED_CONNECTION_EVENTS
  Native,       \* the events of the platforms
  Supported,    \* [client |-> its adapter's supportedEvents, or None]
  Handlers,     \* functions of the application
  Throwing,     \* those that throw
  Found,        \* the listeners found: [handler, event, once, only, managed]
  Packages,     \* what platform packages register: <<capability, method>>
  Implemented,  \* [client |-> the methods its adapter has]
  Unsupported,  \* [client |-> the capabilities its adapter subtracts]
  BuiltIn,      \* capability -> method, as the core declares them
  MaxSubscribed \* bounds the application's subscriptions together, those
                \* included that an off has missed

ASSUME AccessAssumption ==
  /\ Derived \cap Native = {} /\ MaxSubscribed \in Nat
  /\ Throwing \subseteq Handlers
  /\ IsFiniteSet(Found) \* each is bound by a function of its own
  /\ \A f \in Found : /\ f.handler \notin Handlers /\ f.event \in Derived \cup Native
                      /\ f.once \in BOOLEAN
                      /\ \A g \in Found : g.handler = f.handler => g = f

Events == Derived \cup Native
Core(c)    == <<"core", c>>
Adapter(c) == <<"adapter", c>>
Emitters   == {"core", "adapter"} \X Clients

VARIABLES
  registered, \* the clients in the registry
  bound,      \* those bindListeners has been called for, in this life
  listeners,  \* per emitter, in the order they were put on: [event, handler, once]
  methods,    \* CAPABILITY_METHODS
  subscribed, \* history: the subscriptions that stand:
              \* [client, event, handler, once, via, asked]
  astray,     \* history: those a call to off was meant for, and missed
  taken       \* history: of those that stand, whom an off meant for another hit

history == <<subscribed, astray, taken>>
vars    == <<registered, bound, listeners, methods, history>>

Init ==
  /\ registered = {} /\ bound = {}
  /\ listeners = [e \in Emitters |-> <<>>] /\ methods = BuiltIn
  /\ subscribed = {} /\ astray = {} /\ taken = {}
-----------------------------------------------------------------------------
(***************************************************************************)
(* Clients                                                                 *)
(***************************************************************************)
Joins(c) ==
  /\ c \notin registered /\ registered' = registered \cup {c}
  /\ UNCHANGED <<bound, listeners, methods, history>>

\* Nothing is heard of a destroyed adapter, and so of what is on it.
Leaves(c) ==
  /\ c \in registered
  /\ registered' = registered \ {c} /\ bound' = bound \ {c}
  /\ listeners' = [e \in Emitters |-> IF e[2] = c THEN <<>> ELSE listeners[e]]
  /\ subscribed' = {s \in subscribed : s.client # c}
  /\ astray' = {s \in astray : s.client # c}
  /\ taken' = {s \in taken : s.client # c}
  /\ UNCHANGED <<methods>>

\* The registry's answer: the client named, and without a name the only one there
\* is, or the one named default.
Resolve(name) ==
  IF name # None THEN (IF name \in registered THEN name ELSE None)
  ELSE IF Cardinality(registered) = 1 THEN CHOOSE c \in registered : TRUE
  ELSE IF DefaultName \in registered THEN DefaultName ELSE None
-----------------------------------------------------------------------------
(***************************************************************************)
(* Subscribing                                                             *)
(***************************************************************************)
Emits(c, event) == (event \in Native /\ Supported[c] # None) => event \in Supported[c]

\* Mutant of EmitterFor: everything is put on the adapter.
EmitterForAdapter(c, event) == Adapter(c)

\* Mutant of EmitterFor: everything is put on what the core emits.
EmitterForCore(c, event) == Core(c)

\* emitterFor: the core emits what it derives, the adapter everything else.
EmitterFor(c, event) ==
  IF event \in Derived THEN Core(c) ELSE Adapter(c)

Listener(event, handler, once) == [event |-> event, handler |-> handler, once |-> once]
Subscription(c, event, handler, once, via, asked) ==
  [client |-> c, event |-> event, handler |-> handler, once |-> once,
   via |-> via, asked |-> asked]

\* Only the last one put on is taken off, as an EventEmitter does.
TakeOff(emitter, event, handler) ==
  LET places == {i \in DOMAIN listeners[emitter] : /\ listeners[emitter][i].event = event
                                                   /\ listeners[emitter][i].handler = handler}
  IN  [listeners EXCEPT ![emitter] =
         IF places = {} THEN @
         ELSE At(@, DOMAIN @ \ {CHOOSE i \in places : \A j \in places : j <= i})]

\* Mutant of Bindings: what the webhooks manage is bound as well.
BindingsManaged(c) ==
  {f \in Found : (f.only # None => c \in f.only) /\ Emits(c, f.event)}

\* What bindListeners puts on a client: what the webhooks do not manage, for this
\* client, of an event there is.
Bindings(c) ==
  {f \in Found : ~f.managed /\ (f.only # None => c \in f.only) /\ Emits(c, f.event)}

\* bindListeners, at bootstrap or when a client is created.
Binds(c) ==
  LET on(emitter) == {f \in Bindings(c) : EmitterFor(c, f.event) = emitter}
      put(f) == Listener(f.event, f.handler, f.once)
  IN  /\ c \in registered \ bound
      /\ bound' = bound \cup {c}
      /\ listeners' = [e \in Emitters |->
                         listeners[e] \o SetToSeq({put(f) : f \in on(e)})]
      /\ subscribed' = subscribed \cup
           {Subscription(c, f.event, f.handler, f.once, "found", c) : f \in Bindings(c)}
      /\ UNCHANGED <<registered, methods, astray, taken>>

\* A function is put on an emitter once at a time.
PutOn(emitter, s) ==
  /\ Cardinality({t \in subscribed : t.via # "found"} \cup astray) < MaxSubscribed
  /\ \A t \in subscribed \cup astray : <<t.client, t.event, t.handler>> # <<s.client, s.event, s.handler>>
  /\ listeners' = [listeners EXCEPT ![emitter] =
                     Append(@, Listener(s.event, s.handler, s.once))]
  /\ subscribed' = subscribed \cup {s}
  /\ UNCHANGED <<registered, bound, methods, astray, taken>>

\* client.on and client.once; what the adapter cannot emit is refused.
ClientOn(c, event, handler, once) ==
  /\ c \in registered /\ Emits(c, event)
  /\ PutOn(EmitterFor(c, event), Subscription(c, event, handler, once, "client", c))

\* messaging.on and messaging.once: on the adapter, whatever the event.
ServiceOn(name, event, handler, once) ==
  LET c == Resolve(name)
  IN  /\ c # None /\ Emits(c, event)
      /\ PutOn(Adapter(c), Subscription(c, event, handler, once, "service", name))

\* The emitter a subscription was put on.
On(s) == IF s.via = "service" THEN Adapter(s.client) ELSE EmitterFor(s.client, s.event)

\* A function is taken off an emitter; meant are the subscriptions that were to end.
Off(emitter, event, handler, meant) ==
  /\ listeners' = TakeOff(emitter, event, handler)
  /\ subscribed' = subscribed \ meant
  /\ astray' = astray \cup {s \in meant : On(s) # emitter}
  /\ taken' = (taken \ meant) \cup {s \in subscribed \ meant :
                 On(s) = emitter /\ s.event = event /\ s.handler = handler}
  /\ UNCHANGED <<registered, bound, methods>>

\* What on returned: it holds the emitter.
Stop(s) ==
  /\ s \in subscribed /\ s.via # "found" /\ ~s.once
  /\ Off(IF s.via = "service" \/ s.event \in Native THEN Adapter(s.client)
         ELSE Core(s.client), s.event, s.handler, {s})

ClientOff(c, event, handler) ==
  LET meant == {s \in subscribed : s.via = "client" /\ s.handler = handler
                  /\ s.client = c /\ s.event = event}
  IN  meant # {} /\ Off(EmitterFor(c, event), event, handler, meant)

\* messaging.off: the name is looked up again, and may stand for another client.
ServiceOff(name, event, handler) ==
  LET meant == {s \in subscribed : s.via = "service" /\ s.handler = handler
                  /\ s.asked = name /\ s.event = event}
      c == Resolve(name)
  IN  meant # {} /\ c # None /\ Off(Adapter(c), event, handler, meant)
-----------------------------------------------------------------------------
(***************************************************************************)
(* Events                                                                  *)
(***************************************************************************)
\* Mutant of Stays: a once stays on after it was called.
StaysOnce(listener, event) == TRUE
Stays(listener, event)     == ~(listener.once /\ listener.event = event)

\* Where an event is emitted: by bindInternalEvents, or by the platform.
Source(c, event) == IF event \in Derived THEN Core(c) ELSE Adapter(c)

\* A function that throws ends the emission there; those found are wrapped.
Fires(c, event) ==
  LET emitter  == Source(c, event)
      on       == listeners[emitter]
      hearing  == {i \in DOMAIN on : on[i].event = event}
      throwing == {i \in hearing : on[i].handler \in Throwing}
      called   == {on[i].handler : i \in {j \in hearing : \A k \in throwing : j <= k}}
  IN  /\ c \in registered /\ Emits(c, event)
      /\ listeners' = [listeners EXCEPT ![emitter] =
           At(on, {i \in DOMAIN on : Stays(on[i], event) \/ on[i].handler \notin called})]
      /\ subscribed' = {s \in subscribed : ~(/\ s.client = c /\ s.event = event
                                            /\ s.once /\ s.handler \in called)}
      /\ taken' = taken \cap subscribed'
      /\ UNCHANGED <<registered, bound, methods, astray>>
-----------------------------------------------------------------------------
(***************************************************************************)
(* Operations                                                              *)
(***************************************************************************)
\* Mutant of Registers: a method that was there is overwritten.
RegistersOver(capability, method) ==
  /\ methods' = [k \in DOMAIN methods \cup {capability} |->
                    IF k = capability THEN method ELSE methods[k]]
  /\ UNCHANGED <<registered, bound, listeners, history>>

\* registerCapability, as a platform package is loaded: throws when another method
\* has the name.
Registers(capability, method) ==
  /\ capability \notin DOMAIN methods
  /\ methods' = [k \in DOMAIN methods \cup {capability} |->
                    IF k = capability THEN method ELSE methods[k]]
  /\ UNCHANGED <<registered, bound, listeners, history>>

\* supportsCapability: implemented, and not subtracted.
Supports(c, capability) ==
  /\ capability \notin Unsupported[c] /\ capability \in DOMAIN methods
  /\ methods[capability] \in Implemented[c]

\* Whether an operation that takes this capability reaches the adapter: of a client,
\* and of the service, which looks the client up first.
ClientDoes(c, capability)     == c \in registered /\ Supports(c, capability)
ServiceDoes(name, capability) ==
  Resolve(name) # None /\ Supports(Resolve(name), capability)

\* RequiresCapability: whether a handler is let through that needs all of these.
Allows(c, capabilities) == c \in registered /\ \A k \in capabilities : Supports(c, k)

Names == {None} \cup Clients

Next ==
  \/ \E c \in Clients : Joins(c) \/ Leaves(c) \/ Binds(c)
  \/ \E event \in Events, handler \in Handlers :
       \/ \E once \in BOOLEAN :
            \/ \E c \in Clients : ClientOn(c, event, handler, once)
            \/ \E name \in Names : ServiceOn(name, event, handler, once)
       \/ \E c \in Clients : ClientOff(c, event, handler)
       \/ \E name \in Names : ServiceOff(name, event, handler)
  \/ \E s \in subscribed : Stop(s)
  \/ \E c \in Clients, event \in Events : Fires(c, event)
  \/ \E p \in Packages : Registers(p[1], p[2])

Spec == Init /\ [][Next]_vars
-----------------------------------------------------------------------------
TypeOK ==
  /\ bound \subseteq registered /\ registered \subseteq Clients
  /\ \A e \in Emitters : \A i \in DOMAIN listeners[e] :
       listeners[e][i].event \in (IF e[1] = "core" THEN Derived ELSE Events)
  /\ DOMAIN BuiltIn \subseteq DOMAIN methods

\* The subscriptions an event does not come to where it is emitted.
Unheard == {s \in subscribed :
  \A i \in DOMAIN listeners[Source(s.client, s.event)] :
    listeners[Source(s.client, s.event)][i] # Listener(s.event, s.handler, s.once)}

\* Whoever subscribed to an event and was not refused has it come to him; or it is
\* an event of the core, asked of the service, which puts it on the adapter; or an off
\* of the same function, meant for another client, looked up a name that stood for his.
SubscribersHear == \A s \in Unheard : s \in taken \/ (s.via = "service" /\ s.event \in Derived)

\* An event comes to nobody who has not subscribed, has unsubscribed, or has had his
\* once; unless off looked up a name that stood for another client by then.
OnlySubscribersHear ==
  \A e \in Emitters : \A i \in DOMAIN listeners[e] :
    \E s \in subscribed \cup astray :
      s.client = e[2] /\ Listener(s.event, s.handler, s.once) = listeners[e][i]

\* A handler found is on a client at most once, whoever else creates, binds and
\* subscribes, and what the webhooks manage is not put on beside them.
FoundBoundOnce ==
  \A c \in bound, f \in Found :
    LET s == Subscription(c, f.event, f.handler, f.once, "found", c)
        on(e) == Cardinality({i \in DOMAIN listeners[e] : listeners[e][i].handler = f.handler})
    IN  /\ on(Core(c)) + on(Adapter(c)) = IF s \in subscribed THEN 1 ELSE 0
        /\ f.managed => s \notin subscribed

\* An event comes to exactly those who subscribed to it, once each, by whichever way.
ExactlySubscribersHear == TypeOK /\ SubscribersHear /\ OnlySubscribersHear /\ FoundBoundOnce

\* What a client was once said to support is done when it is asked for, whatever
\* packages are loaded between; unless the name stands for another client by then.
\* So is all that a handler does which a guard has let through, while the client is there.
SupportedStaysSupported ==
  [][/\ \A c \in Clients, needed \in SUBSET {p[1] : p \in Packages} :
          Allows(c, needed) => (\A k \in needed : ClientDoes(c, k)') \/ c \notin registered'
     /\ \A name \in Names, p \in Packages :
          /\ ServiceDoes(name, p[1]) =>
               ServiceDoes(name, p[1])' \/ Resolve(name)' # Resolve(name)
          /\ ServiceDoes(name, p[1])' = ClientDoes(Resolve(name), p[1])']_vars
=============================================================================
