----------------------------- MODULE ModuleWiring -----------------------------
(***************************************************************************)
(* NestWhatsModule.forRoot and forRootAsync: from the options to clients   *)
(* with an adapter each, the providers that injection goes by, and the     *)
(* lifecycles that register, bind, initialize and destroy them.            *)
(*                                                                         *)
(* A token is a name in capitals, and the provider added last for a token  *)
(* is the one Nest keeps.                                                  *)
(***************************************************************************)
EXTENDS Naturals, Sequences, FiniteSets

CONSTANTS
  Configs,     \* what the module may be given: [form, adapters, clients, shorthand,
               \* names, requested, injected, ignoreSelf] with form "sync" or "async";
               \* adapters a set of factories [id, class]; clients a sequence of
               \* [name, ref, ignoreSelf]; shorthand a factory or None; names the
               \* clientNames of forRootAsync; requested what @InjectClient was asked
               \* for anywhere, injected what a provider really asks for
  Capitals,    \* [name |-> its capitals]
  DefaultName, \* NESTWHATS_DEFAULT_NAME
  None

VARIABLES
  cfg,         \* the options
  phase,       \* "configuring", "initializing", "bootstrapping", "running", "stopping",
               \* "failed"
  clients,     \* the resolved clients: [name, factory, ignoreSelf]; the i-th has the
               \* i-th adapter and the i-th lifecycle
  providers,   \* in the order they were added: [token, gives] with gives <<"client", i>>,
               \* <<"alias", token>> or <<"throws", name>>
  pending,     \* the lifecycles this phase has not come to yet
  registry,    \* token -> <<name, adapter>>
  bound, initialized, destroyed \* [adapter |-> how often]

counts == <<bound, initialized, destroyed>>
vars   == <<cfg, phase, clients, providers, pending, registry, counts>>

Token(name) == Capitals[name]
Nobody      == [t \in {} |-> None]

Init ==
  /\ cfg \in Configs /\ phase = "configuring"
  /\ clients = <<>> /\ providers = <<>> /\ pending = {} /\ registry = Nobody
  /\ bound = <<>> /\ initialized = <<>> /\ destroyed = <<>>
-----------------------------------------------------------------------------
(***************************************************************************)
(* The adapter registry                                                    *)
(***************************************************************************)
\* buildAdapterRegistry rejects an id that comes twice.
IdsDiffer(adapters) == \A f, g \in adapters : f.id = g.id => f = g

\* Mutant of Resolved: whichever is found first.
ResolvedFirst(adapters, ref) ==
  LET found == {f \in adapters : ref = None \/ ref = <<"class", f.class>> \/ ref = <<"id", f.id>>}
  IN  IF found = {} THEN {} ELSE {CHOOSE f \in found : TRUE}

\* resolveFactory: the factory a client asked for, {} when it throws.
Resolved(adapters, ref) ==
  LET found == {f \in adapters : ref = None \/ ref = <<"class", f.class>> \/ ref = <<"id", f.id>>}
  IN  IF Cardinality(found) = 1 THEN found ELSE {}

TheOne(set) == CHOOSE x \in set : TRUE

\* resolveFromClientOptions: of the module's settings it takes the debounce and the
\* reconnect policy, not ignoreSelf.
FromClient(c, adapters) ==
  {[name |-> c.name, factory |-> f, ignoreSelf |-> c.ignoreSelf] : f \in Resolved(adapters, c.ref)}

FromShorthand(name) == [name |-> name, factory |-> cfg.shorthand, ignoreSelf |-> cfg.ignoreSelf]
-----------------------------------------------------------------------------
(***************************************************************************)
(* forRoot and forRootAsync                                                *)
(***************************************************************************)
\* The resolved clients as sequences, none when something throws.
SyncClients ==
  IF cfg.clients = <<>>
  THEN {IF cfg.shorthand = None THEN <<>> ELSE <<FromShorthand(DefaultName)>>}
  ELSE IF \E i \in DOMAIN cfg.clients : FromClient(cfg.clients[i], cfg.adapters) = {} THEN {}
  ELSE IF \E i, j \in DOMAIN cfg.clients : i # j /\ cfg.clients[i].name = cfg.clients[j].name THEN {}
  ELSE {[i \in DOMAIN cfg.clients |-> TheOne(FromClient(cfg.clients[i], cfg.adapters))]}

\* Mutant of AsyncClient: the shorthand goes before the clients.
AsyncClientShorthand(name) ==
  IF cfg.shorthand # None THEN {FromShorthand(name)}
  ELSE UNION {FromClient(cfg.clients[i], cfg.adapters) :
                i \in {j \in DOMAIN cfg.clients : cfg.clients[j].name = name}}

\* resolveAsyncClient: the first client of that name, or else the shorthand.
AsyncClient(name) ==
  LET named == {i \in DOMAIN cfg.clients : cfg.clients[i].name = name}
  IN  IF named # {} THEN FromClient(cfg.clients[CHOOSE i \in named : \A j \in named : i <= j],
                                    cfg.adapters)
      ELSE IF cfg.shorthand # None THEN {FromShorthand(name)} ELSE {}

AsyncNames == IF cfg.names = <<>> THEN <<DefaultName>> ELSE cfg.names

AsyncClients ==
  IF \E i \in DOMAIN AsyncNames : AsyncClient(AsyncNames[i]) = {} THEN {}
  ELSE {[i \in DOMAIN AsyncNames |-> TheOne(AsyncClient(AsyncNames[i]))]}

\* Mutant of Covered: the default name is not known to be an alias.
CoveredNames(resolved) == {resolved[i].name : i \in DOMAIN resolved}

\* The names that @InjectClient may have asked for.
Covered(resolved) ==
  {resolved[i].name : i \in DOMAIN resolved}
    \cup (IF Len(resolved) = 1 THEN {DefaultName} ELSE {})

\* Mutant of Provided: the default is an alias of the first client however many there are.
ProvidedAlias(resolved) ==
  LET own   == [i \in DOMAIN resolved |-> [token |-> Token(resolved[i].name), gives |-> <<"client", i>>]]
      alias == IF resolved # <<>> /\ \A i \in DOMAIN resolved : resolved[i].name # DefaultName
               THEN <<[token |-> Token(DefaultName), gives |-> <<"alias", Token(resolved[1].name)>>]>>
               ELSE <<>>
  IN  own \o alias

\* The providers in their order: the clients, the default's alias for a single one,
\* and for every other name that was asked for one that throws.
Provided(resolved) ==
  LET own     == [i \in DOMAIN resolved |-> [token |-> Token(resolved[i].name), gives |-> <<"client", i>>]]
      alias   == IF Len(resolved) = 1 /\ resolved[1].name # DefaultName
                 THEN <<[token |-> Token(DefaultName), gives |-> <<"alias", Token(resolved[1].name)>>]>>
                 ELSE <<>>
      unknown == {[token |-> Token(n), gives |-> <<"throws", n>>] : n \in cfg.requested \ Covered(resolved)}
  IN  own \o alias \o (CHOOSE s \in [1 .. Cardinality(unknown) -> unknown] :
                         \A p \in unknown : \E i \in DOMAIN s : s[i] = p)

\* The provider added last for a token is the one that Nest keeps.
LastGiven(all, token) ==
  LET of == {i \in DOMAIN all : all[i].token = token}
  IN  IF of = {} THEN <<"throws", token>> ELSE all[CHOOSE i \in of : \A j \in of : j <= i].gives

\* The client injected for a token, {} when that throws.
Injected(all, token) ==
  LET first == LastGiven(all, token)
      given == IF first[1] = "alias" THEN LastGiven(all, first[2]) ELSE first
  IN  IF given[1] = "client" THEN {given[2]} ELSE {}

Fails ==
  /\ phase' = "failed"
  /\ UNCHANGED <<cfg, clients, providers, pending, registry, counts>>

\* forRoot, or forRootAsync and its factories, and the instances Nest makes then: every
\* lifecycle asks for the client of its token, and so do the application's providers.
Configure ==
  /\ phase = "configuring"
  /\ LET found == IF cfg.form = "sync" THEN SyncClients ELSE AsyncClients
         resolved == TheOne(found)
         all == Provided(resolved)
         asked == {Token(resolved[i].name) : i \in DOMAIN resolved} \cup {Token(n) : n \in cfg.injected}
     IN  IF ~IdsDiffer(cfg.adapters) \/ found = {} \/ \E t \in asked : Injected(all, t) = {}
         THEN Fails
         ELSE /\ phase' = "initializing"
              /\ clients' = resolved /\ providers' = all /\ pending' = DOMAIN resolved
              /\ bound' = [i \in DOMAIN resolved |-> 0] /\ initialized' = bound'
              /\ destroyed' = bound'
              /\ UNCHANGED <<cfg, registry>>
-----------------------------------------------------------------------------
(***************************************************************************)
(* NestWhatsClientService                                                  *)
(***************************************************************************)
\* The adapter a lifecycle has in its hands: that of the client injected to it.
AdapterOf(i) == TheOne(Injected(providers, Token(clients[i].name)))

Again(count, i) == [count EXCEPT ![AdapterOf(i)] = @ + 1]

OnModuleInit(i) ==
  /\ phase = "initializing" /\ i \in pending /\ pending' = pending \ {i}
  /\ registry' = [t \in DOMAIN registry \cup {Token(clients[i].name)} |->
                    IF t = Token(clients[i].name) THEN <<clients[i].name, AdapterOf(i)>> ELSE registry[t]]
  /\ bound' = Again(bound, i)
  /\ UNCHANGED <<cfg, phase, clients, providers, initialized, destroyed>>

\* initialize is not waited for, and its errors are logged.
OnApplicationBootstrap(i) ==
  /\ phase = "bootstrapping" /\ i \in pending /\ pending' = pending \ {i}
  /\ initialized' = Again(initialized, i)
  /\ UNCHANGED <<cfg, phase, clients, providers, registry, bound, destroyed>>

\* Mutant of OnApplicationShutdown: a destroy that fails ends the shutdown.
OnApplicationShutdownAborts(i) ==
  /\ phase = "stopping" /\ i \in pending /\ pending' \in {pending \ {i}, {}}
  /\ destroyed' = Again(destroyed, i)
  /\ UNCHANGED <<cfg, phase, clients, providers, registry, bound, initialized>>

\* "A failed destroy must not abort the shutdown of the remaining clients."
OnApplicationShutdown(i) ==
  /\ phase = "stopping" /\ i \in pending /\ pending' = pending \ {i}
  /\ destroyed' = Again(destroyed, i)
  /\ UNCHANGED <<cfg, phase, clients, providers, registry, bound, initialized>>

\* Nest goes on when it has called every provider.
NextPhase ==
  /\ pending = {}
  /\ \E step \in {<<"initializing", "bootstrapping">>, <<"bootstrapping", "running">>,
                  <<"running", "stopping">>} : phase = step[1] /\ phase' = step[2]
  /\ pending' = IF phase' = "running" THEN {} ELSE DOMAIN clients
  /\ UNCHANGED <<cfg, clients, providers, registry, counts>>

Next ==
  \/ Configure \/ NextPhase
  \/ \E i \in DOMAIN clients :
       OnModuleInit(i) \/ OnApplicationBootstrap(i) \/ OnApplicationShutdown(i)

Spec == Init /\ [][Next]_vars
-----------------------------------------------------------------------------
\* The counts and what is pending are of the clients, the registry is of their tokens,
\* and every client has an adapter.
TypeOK ==
  /\ pending \subseteq DOMAIN clients /\ DOMAIN bound = DOMAIN clients
  /\ \A t \in DOMAIN registry : t \in {Token(clients[i].name) : i \in DOMAIN clients}
  /\ \A i \in DOMAIN clients : clients[i].factory \in (cfg.adapters \cup {cfg.shorthand}) \ {None}

\* The names declared, one after the other.
Declared  == [i \in DOMAIN cfg.clients |-> cfg.clients[i].name]
NamesClash(names) == \E i, j \in DOMAIN names : i # j /\ Token(names[i]) = Token(names[j])
Clash == NamesClash([i \in DOMAIN clients |-> clients[i].name])

\* Every lifecycle drives an adapter of its own, which the registry has under its
\* name, and nothing is initialized that nobody listens to or destroys; unless two
\* names differ in their capitals only, or one is named twice for forRootAsync.
OneLifecyclePerAdapter ==
  ~Clash =>
    /\ phase \in {"running", "stopping"} => \A i \in DOMAIN clients :
         /\ bound[i] = 1 /\ initialized[i] = 1
         /\ registry[Token(clients[i].name)] = <<clients[i].name, i>>
    /\ phase = "stopping" /\ pending = {} => \A i \in DOMAIN clients : destroyed[i] = 1

\* A client declared to forRoot is started on the one adapter that its reference can
\* mean, with its own settings, or nothing is.
DeclaredIsStarted ==
  (phase = "running" /\ cfg.form = "sync") =>
    \A k \in DOMAIN cfg.clients : \E i \in DOMAIN clients :
      /\ clients[i].name = cfg.clients[k].name /\ clients[i].ignoreSelf = cfg.clients[k].ignoreSelf
      /\ \A f \in cfg.adapters :
           (f = clients[i].factory) =
             (cfg.clients[k].ref \in {<<"class", f.class>>, <<"id", f.id>>, None})

\* Who asks for a client by name gets the one of that name, or, where there is a single
\* one, asks for the default and gets that.
InjectedIsNamed ==
  phase = "running" => \A n \in cfg.injected : \A i \in Injected(providers, Token(n)) :
    Token(clients[i].name) = Token(n) \/ (n = DefaultName /\ Len(clients) = 1)

\* The application starts when its options are sound, said declaratively: the ids
\* differ, so do the names, every client means one adapter, and every name that is
\* asked for is one of them, or the default of a single one; unless a name is asked
\* for in other capitals than it is declared in, or a single client has the default's
\* name in other capitals: its own provider is replaced by an alias of itself.
SoundStarts ==
  LET names == IF cfg.clients # <<>> THEN Declared
               ELSE IF cfg.shorthand # None THEN <<DefaultName>> ELSE <<>>
      known == {names[i] : i \in DOMAIN names} \cup (IF Len(names) = 1 THEN {DefaultName} ELSE {})
      means(c) == {f \in cfg.adapters : c.ref \in {<<"class", f.class>>, <<"id", f.id>>, None}}
      sound == /\ IdsDiffer(cfg.adapters)
               /\ \A k \in DOMAIN cfg.clients : \E f \in cfg.adapters : means(cfg.clients[k]) = {f}
               /\ ~NamesClash(names) /\ cfg.injected \subseteq known
  IN  (phase = "failed" /\ sound) =>
        \/ \E n \in cfg.requested \ known : Token(n) \in {Token(m) : m \in known}
        \/ Len(names) = 1 /\ names[1] # DefaultName /\ Token(names[1]) = Token(DefaultName)
        \/ cfg.form = "async" /\ {names[i] : i \in DOMAIN names} #
                                   {AsyncNames[i] : i \in DOMAIN AsyncNames}

\* What forRoot makes of a declaration, forRootAsync does when its clientNames are
\* those of the declaration, each once.
FormsAgree ==
  LET names == [i \in DOMAIN AsyncNames |-> AsyncNames[i]]
      seen(found) == {{s[i] : i \in DOMAIN s} : s \in found}
  IN  (~NamesClash(Declared) /\ (IF cfg.clients = <<>> THEN cfg.shorthand # None /\ names = <<DefaultName>>
                                 ELSE names = Declared)) =>
        seen(SyncClients) = seen(AsyncClients)

\* What is declared to the module is what starts, each client on an adapter of its own,
\* and is injected by its name, whichever form declares it.
WiringHolds ==
  /\ TypeOK /\ OneLifecyclePerAdapter /\ DeclaredIsStarted
  /\ InjectedIsNamed /\ SoundStarts /\ FormsAgree
=============================================================================
