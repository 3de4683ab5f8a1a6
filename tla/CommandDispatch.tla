--------------------------- MODULE CommandDispatch ---------------------------
(***************************************************************************)
(* From a message to the command it runs: what the explorer finds, the     *)
(* three tables of CommandsRegistryService, and CommandsService.handle,    *)
(* which tries the client's prefix and then every prefix a command brought *)
(* along, with an await after each try.                                    *)
(*                                                                         *)
(* A body is a sequence of symbols: a word, a space or a sign.  Calls meet *)
(* only in the registry, so one at a time is followed, and everybody else  *)
(* is in the actions that change the registry between two of its steps.    *)
(***************************************************************************)
EXTENDS Names, Places, SequencesExt

CONSTANTS
  Declared,      \* what the explorer finds: [kind, words, prefix, parent, only, group]
                 \* with kind "command", "default" (of a group) or "sub"; words its
                 \* name and its aliases; only, group the clients it and its group
                 \* are for, None for all
  Bodies,        \* what messages say
  ClientPrefixes,      \* what a client's prefix may be set to
  DefaultPrefix, \* NESTWHATS_DEFAULT_PREFIX
  Space,         \* the symbol bodies are split at
  LowerOf        \* [symbol |-> its lower case], for those that have another one

IsText(t) == t \in Seq(ToSet(t))

ASSUME DispatchAssumption ==
  /\ DefaultPrefix \in ClientPrefixes /\ \A t \in Bodies \cup ClientPrefixes : IsText(t)
  /\ Space \notin DOMAIN LowerOf /\ \A s \in DOMAIN LowerOf : LowerOf[s] # Space
  /\ \A d \in Declared :
       /\ d.kind \in {"command", "default", "sub"}
       /\ IsText(d.words) /\ d.words # <<>> /\ \A w \in ToSet(d.words) : IsText(w)
       /\ d.prefix = None \/ IsText(d.prefix)
       /\ d.parent = None \/ IsText(d.parent)
       /\ d.only = None \/ d.only \subseteq Clients
       /\ d.group = None \/ d.group \subseteq Clients
       /\ (d.kind = "sub") = (d.parent # None)
       /\ d.kind # "command" => d.prefix = None
       /\ d.kind = "default" => Len(d.words) = 1

VARIABLES
  words,     \* cache: the command behind a word
  prefixed,  \* prefixCache, in the order its keys came: <<[prefix, words]>>
  subs,      \* subcommandCache: the subcommand behind <<group, word>>
  prefixOf,  \* the prefix of a client's registry entry; None when there is no entry
  undiscovered, \* what onModuleInit has not added yet
  call,      \* the message being handled: [client, body, prefix, seen, at, ran],
             \* ran being what ran, one handler or none: {[d, prefix, args]}
  contested, \* history: what claimed a word that was taken, or lost one
  listed,    \* history: what was added and not removed since
  steady     \* history: nothing but call has moved since it began

tables       == <<words, prefixed, subs>>
claims       == <<contested, listed, steady>>
dispatchVars == <<tables, prefixOf, undiscovered, call, claims>>

Nothing == [s \in {} |-> None]
NoCall  == [client |-> None, body |-> <<>>, prefix |-> <<>>, seen |-> {},
            at |-> "over", ran |-> {}]

DispatchInit ==
  /\ words = Nothing /\ prefixed = <<>> /\ subs = Nothing
  /\ prefixOf = [c \in Clients |-> DefaultPrefix]
  /\ undiscovered = Declared /\ call = NoCall
  /\ contested = {} /\ listed = {} /\ steady = TRUE
-----------------------------------------------------------------------------
(***************************************************************************)
(* Text                                                                    *)
(***************************************************************************)
Lower(symbol) == IF symbol \in DOMAIN LowerOf THEN LowerOf[symbol] ELSE symbol
Lowered(text) == [i \in DOMAIN text |-> Lower(text[i])]

StartsWith(body, prefix) == IsPrefix(Lowered(prefix), Lowered(body))
After(body, length)      == SubSeq(body, length + 1, Len(body))

\* split(/ +/): a token begins at the start and after every run of spaces, so that
\* one at an end leaves an empty one there, and goes on to the next space.
Begins(text) ==
  {i \in 1 .. Len(text) + 1 :
     i > 1 => text[i - 1] = Space /\ (i <= Len(text) => text[i] # Space)}
Stops(text, i)  == {j \in i .. Len(text) + 1 : j <= Len(text) => text[j] = Space}
Token(text, i)  == SubSeq(text, i, Nth(Stops(text, i), 1) - 1)
Tokens(text) ==
  LET begins == Begins(text)
  IN  [n \in 1 .. Cardinality(begins) |-> Token(text, Nth(begins, n))]
-----------------------------------------------------------------------------
(***************************************************************************)
(* CommandsRegistryService                                                 *)
(***************************************************************************)
Keys(d) == {Lowered(w) : w \in ToSet(d.words)}

\* A name and its aliases are set, over whatever they stood for.
Set(table, keys, d) == [k \in keys \cup DOMAIN table |-> IF k \in keys THEN d ELSE table[k]]
Without(table, keys) == [k \in DOMAIN table \ keys |-> table[k]]

Under(prefix) == {i \in DOMAIN prefixed : prefixed[i].prefix = prefix}
TableOf(prefix) == IF Under(prefix) = {} THEN Nothing
                   ELSE prefixed[CHOOSE i \in Under(prefix) : TRUE].words
PutTable(prefix, table) ==
  IF Under(prefix) = {} THEN Append(prefixed, [prefix |-> prefix, words |-> table])
  ELSE [i \in DOMAIN prefixed |->
          IF i \in Under(prefix) THEN [prefixed[i] EXCEPT !.words = table] ELSE prefixed[i]]

\* Those in range lose one of keys to another.
Losing(table, keys, d) == {table[k] : k \in keys \cap DOMAIN table} \ {d}

\* What claims a word another one has, and that one, are contested from then on.
Claim(table, keys, d) ==
  LET losing == Losing(table, keys, d)
  IN  /\ contested' = contested \cup losing \cup {x \in {d} : losing # {}}
      /\ listed' = listed \cup {d}
      /\ steady' = FALSE

\* add: a prefix of its own takes a command out of the common table.
Add(d) ==
  \/ /\ d.prefix = None
     /\ words' = Set(words, Keys(d), d) /\ Claim(words, Keys(d), d)
     /\ UNCHANGED <<prefixed, subs>>
  \/ /\ d.prefix # None
     /\ prefixed' = PutTable(d.prefix, Set(TableOf(d.prefix), Keys(d), d))
     /\ Claim(TableOf(d.prefix), Keys(d), d)
     /\ UNCHANGED <<words, subs>>

AddSubcommand(d) ==
  LET keys == {Lowered(d.parent)} \X Keys(d)
  IN  /\ subs' = Set(subs, keys, d) /\ Claim(subs, keys, d)
      /\ UNCHANGED <<words, prefixed>>

\* CommandsModule.onModuleInit: the commands, then the groups' defaults and after
\* them the subcommands, each in the order of their providers, which is any.
Discover(d) ==
  /\ d \in undiscovered
  /\ \A e \in undiscovered :
       /\ d.kind # "command" => e.kind # "command"
       /\ d.kind = "sub" => e.kind = "sub"
  /\ undiscovered' = undiscovered \ {d}
  /\ IF d.kind = "sub" THEN AddSubcommand(d) ELSE Add(d)
  /\ UNCHANGED <<prefixOf, call>>

Running == undiscovered = {}

\* A command that was taken off is put back by the application.
Readd(d) ==
  /\ Running /\ d \in Declared \ listed /\ d.kind # "sub"
  /\ Add(d) /\ UNCHANGED <<prefixOf, undiscovered, call>>

\* Mutant of Gone: the name goes and the aliases stay.
GoneNameOnly(table, key) == Without(table, {key})

\* What remove takes off: the word itself, and the aliases of the command it stands
\* for, whosever they are by now.
Gone(table, key) == Without(table, {key} \cup (Keys(table[key]) \ {Lowered(table[key].words[1])}))

\* d, found at key, is no longer listed.  Asked by an alias, remove leaves d behind
\* its name, and what else lost a word had it contested.
Unlists(d, key) ==
  /\ listed' = listed \ {d}
  /\ contested' = contested \cup {x \in {d} : key # Lowered(d.words[1])}
  /\ steady' = FALSE

RemoveWord(key) ==
  /\ Running /\ key \in DOMAIN words
  /\ words' = Gone(words, key) /\ Unlists(words[key], key)
  /\ UNCHANGED <<prefixed, subs, prefixOf, undiscovered, call>>

\* Mutant of RemoveByPrefix: the emptied table stays.
RemoveByPrefixOnly(prefix, key) ==
  /\ Running /\ key \in DOMAIN TableOf(prefix)
  /\ prefixed' = PutTable(prefix, Gone(TableOf(prefix), key))
  /\ Unlists(TableOf(prefix)[key], key)
  /\ UNCHANGED <<words, subs, prefixOf, undiscovered, call>>

\* An emptied table goes with its prefix, which comes back at the end of the order
\* and is then new to a call that has been at it.
RemoveByPrefix(prefix, key) ==
  LET left == Gone(TableOf(prefix), key)
  IN  /\ Running /\ key \in DOMAIN TableOf(prefix)
      /\ prefixed' = IF DOMAIN left = {}
                     THEN At(prefixed, DOMAIN prefixed \ Under(prefix))
                     ELSE PutTable(prefix, left)
      /\ call' = [call EXCEPT !.seen = IF DOMAIN left = {} THEN @ \ {prefix} ELSE @]
      /\ Unlists(TableOf(prefix)[key], key)
      /\ UNCHANGED <<words, subs, prefixOf, undiscovered>>

\* registry.updatePrefix, and an entry that goes and comes while its adapter still
\* reports messages.
SetPrefix(c, prefix) ==
  /\ prefixOf' = [prefixOf EXCEPT ![c] = prefix] /\ prefix # prefixOf[c]
  /\ steady' = FALSE
  /\ UNCHANGED <<tables, undiscovered, call, contested, listed>>
-----------------------------------------------------------------------------
(***************************************************************************)
(* CommandsService.handle                                                  *)
(***************************************************************************)
AllowsClient(d, c) == d.only = None \/ c \in d.only

\* The subcommand its first two words name, and the command its first one does; a
\* subcommand is looked for whichever prefix it came with.
SubNamed(tokens) ==
  IF Len(tokens) < 2 \/ tokens[2] = <<>> THEN {}
  ELSE {subs[k] : k \in {<<Lowered(tokens[1]), Lowered(tokens[2])>>} \cap DOMAIN subs}
Named(tokens, table) == {table[k] : k \in {Lowered(tokens[1])} \cap DOMAIN table}

\* Mutant of Chosen: the command is looked up before the subcommand.
ChosenCommandFirst(c, tokens, table) ==
  LET own == {d \in Named(tokens, table) : AllowsClient(d, c)}
  IN  IF own # {} THEN own ELSE {d \in SubNamed(tokens) : AllowsClient(d, c)}

\* dispatch: the subcommand, if there is one the client may use, or the command.
Chosen(c, tokens, table) ==
  LET found == {d \in SubNamed(tokens) : AllowsClient(d, c)}
  IN  IF found # {} THEN found ELSE {d \in Named(tokens, table) : AllowsClient(d, c)}

\* Mutant of Arguments: a subcommand's own name is among its words.
ArgumentsFromFirst(d, body) == After(Tokens(body), 1)

\* @Args: what follows the command's word, or the subcommand's, in the whole body.
Arguments(d, body) == After(Tokens(body), IF d.kind = "sub" THEN 2 ELSE 1)

\* What a try with prefix finds: one handler or none.
FoundWith(c, prefix, table) ==
  LET tokens == Tokens(After(c.body, Len(prefix)))
  IN  IF tokens[1] = <<>> THEN {} ELSE Chosen(c.client, tokens, table)

\* The call after it: what it found runs, its guards' refusal included, and the call
\* is over; or it goes on to the prefixes it has not seen.
Tried(c, prefix, table) ==
  LET found == FoundWith(c, prefix, table)
  IN  IF found = {} THEN [c EXCEPT !.at = "awaiting"]
      ELSE [c EXCEPT !.at = "over",
                     !.ran = LET d == CHOOSE d \in found : TRUE
                             IN  {[d |-> d, prefix |-> prefix, args |-> Arguments(d, c.body)]}]

\* Mutant of PrefixRead: the prefix as it was when the client was bound.
PrefixReadOnce(c) == DefaultPrefix

\* bindListeners: read per message, the default without an entry.
PrefixRead(c) == IF prefixOf[c] = None THEN DefaultPrefix ELSE prefixOf[c]

\* A message that is not the client's own, or of a client without ignoreSelf.
Arrives(c, body) ==
  /\ Running /\ call.at = "over" /\ body # <<>>
  /\ LET fresh == [NoCall EXCEPT !.client = c, !.body = body, !.prefix = PrefixRead(c)]
     IN  call' = IF fresh.prefix # <<>> /\ StartsWith(body, fresh.prefix)
                 THEN Tried(fresh, fresh.prefix, words)
                 ELSE [fresh EXCEPT !.at = "awaiting"]
  /\ steady' = TRUE
  /\ UNCHANGED <<tables, prefixOf, undiscovered, contested, listed>>

\* Mutant of Left: one try is all a call has.
LeftNone(c) == {}

\* The places of the custom prefixes a call still has to try.
Left(c) == {i \in DOMAIN prefixed :
              prefixed[i].prefix \notin c.seen /\ StartsWith(c.body, prefixed[i].prefix)}

\* The rest of handle, from one await to the next.
GoesOn ==
  /\ call.at = "awaiting"
  /\ IF Left(call) = {} THEN call' = [call EXCEPT !.at = "over"]
     ELSE LET i == CHOOSE i \in Left(call) : \A j \in Left(call) : i <= j
          IN  call' = Tried([call EXCEPT !.seen = @ \cup {prefixed[i].prefix}],
                            prefixed[i].prefix, prefixed[i].words)
  /\ UNCHANGED <<tables, prefixOf, undiscovered, claims>>

DispatchNext ==
  \/ \E d \in Declared : Discover(d) \/ Readd(d)
  \/ \E key \in DOMAIN words : RemoveWord(key)
  \/ \E i \in DOMAIN prefixed : \E key \in DOMAIN prefixed[i].words :
       RemoveByPrefix(prefixed[i].prefix, key)
  \/ \E c \in Clients, prefix \in {None} \cup ClientPrefixes : SetPrefix(c, prefix)
  \/ \E c \in Clients, body \in Bodies : Arrives(c, body)
  \/ GoesOn

DispatchSpec == DispatchInit /\ [][DispatchNext]_dispatchVars
-----------------------------------------------------------------------------
(***************************************************************************)
(* Who a message is for, said of the declarations and not of the tables    *)
(***************************************************************************)
\* text is one of these words, and nothing or a space after it; a word with a space
\* in it, or nothing in it, is never found.
Opens(text, first) ==
  \E w \in ToSet(first) :
    /\ w # <<>> /\ Space \notin ToSet(w) /\ IsPrefix(Lowered(w), Lowered(text))
    /\ Len(text) > Len(w) => text[Len(w) + 1] = Space
OpensTwice(text, parent, second) ==
  /\ Opens(text, <<parent>>)
  /\ \E n \in (Len(parent) + 1) .. Len(text) :
       /\ \A i \in (Len(parent) + 1) .. n : text[i] = Space
       /\ Opens(After(text, n), second)

\* Whether body calls d when it comes with this prefix.
Calls(body, d, prefix) ==
  /\ StartsWith(body, prefix)
  /\ LET text == After(body, Len(prefix))
     IN  IF d.kind = "sub" THEN OpensTwice(text, d.parent, d.words) ELSE Opens(text, d.words)

PrefixesOf(d, own) == IF d.prefix # None THEN {d.prefix} ELSE {own} \ {<<>>}
Addresses(c, d) == \E prefix \in PrefixesOf(d, c.prefix) : Calls(c.body, d, prefix)
-----------------------------------------------------------------------------
TablesOK ==
  /\ \A k \in DOMAIN words : words[k] \in Declared /\ words[k].prefix = None
  /\ \A i \in DOMAIN prefixed : DOMAIN prefixed[i].words # {}
  /\ \A i, j \in DOMAIN prefixed : prefixed[i].prefix = prefixed[j].prefix => i = j
  /\ \A k \in DOMAIN subs : subs[k].kind = "sub"
  /\ call.at \in {"awaiting", "over"} /\ listed \subseteq Declared

\* What runs was called by name: the message starts with the prefix it was found
\* under, which is the client's at that moment or one that some command brought
\* along, a word of the handler's follows, and its `client` option lets it.
RunsWhatWasCalled ==
  \A r \in call.ran :
    /\ Calls(call.body, r.d, r.prefix)
    /\ AllowsClient(r.d, call.client)
    /\ r.d.prefix # None => r.prefix = r.d.prefix
    /\ steady => r.prefix \in
         {IF prefixOf[call.client] = None THEN DefaultPrefix ELSE prefixOf[call.client]}
           \cup {prefixed[i].prefix : i \in DOMAIN prefixed}

\* A message that calls a handler its client may use is not left without an answer,
\* however the client's prefix and the custom ones begin each other; unless a word
\* was claimed twice, by commands for other clients perhaps: the later one has it for
\* all of them.
CalledIsAnswered ==
  (call.at = "over" /\ call.client # None /\ call.ran = {} /\ steady) =>
    \A d \in listed \ contested : ~(AllowsClient(d, call.client) /\ Addresses(call, d))

\* The more specific one answers: the subcommand before the group's default, and
\* the client's own prefix before those that commands brought along.
MostSpecificAnswers ==
  (call.at = "over" /\ steady) =>
    \A r \in call.ran, d \in listed \ contested :
      AllowsClient(d, call.client) /\ Addresses(call, d) =>
        \/ r.d.kind = "sub" \/ r.d = d
        \/ /\ d.kind # "sub"
           /\ d.prefix = None => r.prefix = call.prefix

\* A handler's arguments are the words after its own, wherever the prefix has no
\* space in it: they are cut from the whole body.
ArgumentsFollow ==
  \A r \in call.ran : Space \notin ToSet(r.prefix) =>
    LET text == After(call.body, Len(r.prefix))
    IN  r.args = After(Tokens(text), IF Opens(text, r.d.words) /\ r.d.kind # "sub" THEN 1 ELSE 2)

\* A message is answered by the handler it calls, the most specific one, with its
\* arguments, and by none only if it calls none.
CallsAreAnswered ==
  TablesOK /\ RunsWhatWasCalled /\ CalledIsAnswered /\ MostSpecificAnswers /\ ArgumentsFollow

\* All its words lead to a handler that is listed, whatever else was taken off, and none
\* to one that was taken off itself; unless it claimed a word that another one did, or
\* was asked for by an alias.
Reach(table, d) == {k \in DOMAIN table : table[k] = d}
RemovalIsExact ==
  \A d \in Declared \ contested : d.kind # "sub" =>
    Reach(words, d) \cup UNION {Reach(prefixed[i].words, d) : i \in DOMAIN prefixed}
      = IF d \in listed THEN Keys(d) ELSE {}
=============================================================================
