---------------------------- MODULE MCAlgorithms ----------------------------
(***************************************************************************)
(* Four machines that share nothing, checked in one run: the delays of the *)
(* reconnect policy, the dashboard's option forms, the language of an      *)
(* answer, and a module that is configured, started and stopped.  Each     *)
(* runs on its own, the others being at rest.                              *)
(***************************************************************************)
EXTENDS OptionForms, ReconnectPolicy, PhoneCodes

CONSTANTS BaseDelay, MaxDelay, ForbiddenCooldown, JitterShares, Kinds
VARIABLES attempts, decision, last
Delays == INSTANCE ReconnectDelays
delaysVars == <<attempts, decision, last>>

CONSTANTS Numbers, Preferences, ResolverLists, Catalogues, Fallbacks, TextKeys
VARIABLES sender, visible, preference, resolvers, fallback, catalogue, task
Locale == INSTANCE Localization
localeVars == <<sender, visible, preference, resolvers, fallback, catalogue, task>>

CONSTANTS Nothing, Configs, Capitals, DefaultName
VARIABLES cfg, phase, clients, providers, pending, registry, bound, initialized, destroyed
Wiring == INSTANCE ModuleWiring WITH None <- Nothing
wiringVars == <<cfg, phase, clients, providers, pending, registry, bound, initialized, destroyed>>

VARIABLE topic  \* the machine that runs
-----------------------------------------------------------------------------
\* The default jitter of 0.2 in three steps: none of it, half, all.
MCJitterShares == {0, 10, 20}
MCKinds == DisconnectKind \cup {NoReason}
-----------------------------------------------------------------------------
(***************************************************************************)
(* Forms: two factories, one that may be configured in code; the fields    *)
(* that show others, that are shown, that are folded away, and that set a  *)
(* key of a key.                                                           *)
(***************************************************************************)
E(key, value) == [key |-> key, value |-> value]

MCTexts == {"", "x"}
MCRaws == {<<>>, <<E(<<"groupCache">>, "true")>>, <<E(<<"deviceName">>, "x"), E(<<"webVersion">>, "x")>>,
           <<E(<<"pairWithPhoneNumber", "phoneNumber">>, "x")>>}
MCTouched == {<<"authMethod">>, <<"phoneNumber">>, <<"deviceName">>, <<"groupCache">>,
              <<"pairWithPhoneNumber", "phoneNumber">>}
NoShare == [id \in {"baileys", "whatsapp-web.js"} |-> <<>>]
MCShares == {NoShare, [NoShare EXCEPT !["baileys"] = <<E(<<"groupCache">>, "false")>>]}

FormsInit == Init /\ (shared # NoShare <=> registered = <<"baileys">>)

Differs(a, b) == {k \in DOMAIN a : a[k] # b[k]}

\* At most two fields are filled to create a client, one of them if there are raw options,
\* and one is edited, with one form in use at a time.  A form is opened behind the
\* client's back for clients of one option.
FormsNext ==
  /\ Next
  /\ LET filled == Differs(form'.values, BlankForm(form'.adapter).values)
     IN  Cardinality(filled) <= CASE client' # NoClient -> 0 [] form'.raw # <<>> -> 1 [] OTHER -> 2
  /\ edit' # NoEdit =>
       /\ form' = BlankForm(form'.adapter)
       /\ LET edited == Differs(edit'.values, Prefill(edit'.adapter, edit'.current))
          IN  Cardinality(edited) <= 1
  /\ Len(client'.options) <= 2
  /\ client' = NoClient => Len(known'.options) <= 1
  /\ (known \notin {client, NoClient} /\ edit' # edit) =>
        edit' = NoEdit \/ edit # NoEdit \/ Len(known.options \o client.options) <= 2
  /\ client' # client =>
        \/ known \in {client, NoClient} \/ client = NoClient
        \/ edit # NoEdit /\ Len(client.options) <= 1
-----------------------------------------------------------------------------
(***************************************************************************)
(* Locale: a number of every listed country and a few of none; resolvers   *)
(* in every order for a few of them.                                       *)
(***************************************************************************)
Digits(n) ==
  IF n < 10 THEN <<n>> ELSE IF n < 100 THEN <<n \div 10, n % 10>>
  ELSE <<n \div 100, (n \div 10) % 10, n % 10>>
MCNumbers == {Digits(code) \o <<1, 2>> : code \in DOMAIN DDI_LOCALE}
               \cup {<<>>, <<9>>, <<9, 9, 9, 1>>, <<5, 9, 2, 1>>}
MCFew == {<<5, 5, 1, 2>>, <<5, 9, 5, 1, 2>>, <<9, 9, 9, 1>>}
MCLists == {<<"country">>, <<"preference", "country">>, <<"country", "preference">>,
            <<"country", "country">>, <<"country", "class">>, <<"class">>}
MCPreferences == {"es-PE", "fr-FR"}
Entry(locale, key) == [locale |-> locale, key |-> key]
MCCatalogues ==
  {{}, {Entry("en-US", "hello"), Entry("en-US", "bye"), Entry("pt-BR", "hello")},
   {Entry("pt-BR", "hello"), Entry("pt-BR", "bye"), Entry("es-PE", "bye")}}

LocaleInit ==
  Locale!Init /\ (sender.number \notin MCFew => resolvers = <<"country">> /\ preference = "none")
-----------------------------------------------------------------------------
(***************************************************************************)
(* Wiring: every module of up to two factories, two of one class and two   *)
(* of one id among them, and up to two clients, whose names may differ in  *)
(* capitals only, a single one's from the default's too.                   *)
(***************************************************************************)
Factory(id, class) == [id |-> id, class |-> class]
MCCapitals  == [bot |-> "BOT", Bot |-> "BOT", default |-> "DEFAULT", Default |-> "DEFAULT"]
MCFactories == {Factory("wwjs", "W"), Factory("wwjs2", "W"), Factory("baileys", "B"), Factory("wwjs", "B")}
MCRefs      == {Nothing, <<"class", "W">>, <<"id", "wwjs">>}

MCDeclarations == [name : DOMAIN MCCapitals, ref : MCRefs, ignoreSelf : {FALSE}]
MCPaired       == {c \in MCDeclarations : c.name # "Default"}
MCClientLists  == {<<>>} \cup {<<c>> : c \in MCDeclarations} \cup
                  {<<c, d>> : c \in MCPaired, d \in {x \in MCPaired : x.ref # Nothing}}
MCAsks == {[requested |-> r, injected |-> i] :
             r \in {{"bot"}, {"bot", "default"}}, i \in {{}, {"bot"}, {"default"}}}

MCConfigs ==
  {[form |-> way, adapters |-> a, clients |-> c, shorthand |-> s, names |-> n,
    requested |-> ask.requested, injected |-> ask.injected, ignoreSelf |-> TRUE] :
     way \in {"sync", "async"}, a \in {x \in SUBSET MCFactories : Cardinality(x) \in {1, 2}},
     c \in MCClientLists, s \in {Nothing, Factory("baileys", "B")},
     n \in {<<>>, <<"bot">>, <<"bot", "default">>},
     ask \in {x \in MCAsks : x.injected \subseteq x.requested}}

NoConfig ==
  [form |-> "sync", adapters |-> {Factory("wwjs", "W")}, clients |-> <<>>, shorthand |-> Nothing,
   names |-> <<>>, requested |-> {"bot"}, injected |-> {}, ignoreSelf |-> TRUE]
-----------------------------------------------------------------------------
FormsRest  == Init /\ registered = <<"baileys", "whatsapp-web.js">> /\ shared = NoShare
LocaleRest ==
  /\ Locale!Init /\ sender = [kind |-> "group", number |-> <<>>]
  /\ ~visible /\ preference = "none" /\ resolvers = <<"country">>
  /\ fallback = "en-US" /\ catalogue = {}

WiringRest ==
  /\ cfg = NoConfig /\ phase = "configuring" /\ registry = Wiring!Nobody /\ pending = {}
  /\ clients = <<>> /\ providers = <<>>
  /\ bound = <<>> /\ initialized = <<>> /\ destroyed = <<>>

AlgorithmsInit ==
  /\ Delays!Init
  /\ \/ topic = "delays" /\ FormsRest /\ LocaleRest /\ WiringRest
     \/ topic = "forms"  /\ FormsInit /\ LocaleRest /\ WiringRest
     \/ topic = "locale" /\ FormsRest /\ LocaleInit /\ WiringRest
     \/ topic = "wiring" /\ FormsRest /\ LocaleRest /\ Wiring!Init

AlgorithmsNext ==
  /\ UNCHANGED topic
  /\ \/ topic = "delays" /\ Delays!Next /\ UNCHANGED <<vars, localeVars, wiringVars>>
     \/ topic = "forms"  /\ FormsNext /\ UNCHANGED <<delaysVars, localeVars, wiringVars>>
     \/ topic = "locale" /\ Locale!Next /\ UNCHANGED <<vars, delaysVars, wiringVars>>
     \/ topic = "wiring" /\ Wiring!Next /\ UNCHANGED <<vars, delaysVars, localeVars>>

AlgorithmsSpec ==
  AlgorithmsInit /\ [][AlgorithmsNext]_<<vars, delaysVars, localeVars, wiringVars, topic>>
-----------------------------------------------------------------------------
\* Two transient drops in a row: the second waits at least as long but for the jitter,
\* and never past the ceiling plus its jitter.
BackoffNeverShrinks == Delays!BackoffNeverShrinks

\* The code a number begins with, the language it is answered in and the text agree.
LanguageFits == Locale!LanguageFits

\* What is declared is what is started, with a lifecycle of its own, and injected by name.
WiringHolds == Wiring!WiringHolds
=============================================================================
