---------------------------- MODULE Localization ----------------------------
(***************************************************************************)
(* The language a message is answered in: the interceptor looks up who     *)
(* writes, asks the resolvers in order, and the handler runs in a context  *)
(* of its own.  One message and one handler of it: two of them share only  *)
(* the catalogue, which is loaded once.  What the account knows of the     *)
(* sender changes at the awaits.                                           *)
(***************************************************************************)
EXTENDS PhoneCodes

CONSTANTS
  Numbers,     \* phone numbers, as sequences of digits
  Preferences, \* locales a sender may have chosen
  ResolverLists, Catalogues, Fallbacks, TextKeys

VARIABLES
  sender,      \* [kind, number]
  visible,     \* the contact gives the number up
  preference,  \* what the application stored for the sender
  resolvers, fallback,  \* the options of forRoot and of the adapter
  catalogue,   \* _locales: the set of [locale, key] there is a text for
  task         \* how far the handling is

vars == <<sender, visible, preference, resolvers, fallback, catalogue, task>>

None == "none"
-----------------------------------------------------------------------------
Fresh == [at |-> "arrived", next |-> 1, ddi |-> NoCode, locale |-> None, from |-> None,
          lookups |-> 0, key |-> None, text |-> None]

Init ==
  /\ sender \in [kind : {"user", "lid", "group"}, number : Numbers]
  /\ visible \in BOOLEAN
  /\ preference \in {None} \cup Preferences
  /\ resolvers \in ResolverLists /\ fallback \in Fallbacks /\ catalogue \in Catalogues
  /\ task = Fresh

Given == <<sender, preference, resolvers, fallback, catalogue>>

\* phoneOfMessage: a user's id is its number, a group has none, and a LID is looked up.
Arrives ==
  /\ task.at = "arrived"
  /\ task' = CASE sender.kind = "user"  -> [task EXCEPT !.at = "resolving", !.ddi = DdiOf(sender.number)]
               [] sender.kind = "group" -> [task EXCEPT !.at = "resolving"]
               [] sender.kind = "lid"   -> [task EXCEPT !.at = "looking", !.lookups = 1]
  /\ UNCHANGED <<Given, visible>>

\* The code of the contact, if the platform can fetch one and it has the number.
LookedUp == {IF visible THEN DdiOf(sender.number) ELSE NoCode, NoCode}

Found ==
  /\ task.at = "looking"
  /\ \E ddi \in LookedUp : task' = [task EXCEPT !.at = "resolving", !.ddi = ddi]
  /\ UNCHANGED <<Given, visible>>

\* A resolver's answer; None goes on to the next one.
Answered(locale, from) ==
  IF locale # None
  THEN [task EXCEPT !.at = "resolved", !.locale = locale, !.from = from]
  ELSE [task EXCEPT !.at = "resolving", !.next = @ + 1]

LocaleOf(ddi) == IF ddi \in DOMAIN DDI_LOCALE THEN DDI_LOCALE[ddi] ELSE None

\* Mutant of Asks: the hint is not looked at.
AsksAnew == sender.kind = "lid"

\* PhoneCountryResolver looks the sender up again if it was given no code.
Asks == sender.kind = "lid" /\ task.ddi = NoCode

Current(kind) == task.at = "resolving" /\ task.next <= Len(resolvers) /\ resolvers[task.next] = kind

ByCountry ==
  /\ Current("country")
  /\ task' = IF Asks THEN [task EXCEPT !.at = "asking", !.lookups = @ + 1]
                     ELSE Answered(LocaleOf(task.ddi), "country")
  /\ UNCHANGED <<Given, visible>>

Asked ==
  /\ task.at = "asking"
  /\ \E ddi \in LookedUp : task' = Answered(LocaleOf(ddi), "country")
  /\ UNCHANGED <<Given, visible>>

\* A resolver of the application, as an object or as a class that is a provider.
ByPreference ==
  /\ Current("preference")
  /\ task' = Answered(preference, "preference")
  /\ UNCHANGED <<Given, visible>>

\* A class that is no provider is created, and the promise of it asked: that throws.
ByStranger ==
  /\ Current("class")
  /\ task' = [task EXCEPT !.at = "failed"]
  /\ UNCHANGED <<Given, visible>>

\* LocaleStorage.run: the handler runs with a locale, whatever the adapter falls back to.
Runs ==
  /\ task.at = "resolved" \/ (task.at = "resolving" /\ task.next > Len(resolvers))
  /\ task' = [task EXCEPT !.at = "running", !.locale = IF @ = None THEN "en-US" ELSE @]
  /\ UNCHANGED <<Given, visible>>

In(locale, key) == [locale |-> locale, key |-> key] \in catalogue

\* Mutant of Translation: the fallback is not looked in.
TranslationOnly(locale, key) == IF In(locale, key) THEN locale ELSE key

\* getTranslation: the locale the text is in, or the key itself.
Translation(locale, key) ==
  CASE In(locale, key) -> locale
    [] ~In(locale, key) /\ In(fallback, key) -> fallback
    [] OTHER -> key

Replies ==
  /\ task.at = "running"
  /\ \E key \in TextKeys :
       task' = [task EXCEPT !.at = "done", !.key = key, !.text = Translation(task.locale, key)]
  /\ UNCHANGED <<Given, visible>>

\* The account learns the number behind a LID.
Learns ==
  /\ sender.kind = "lid" /\ ~visible
  /\ visible' = TRUE
  /\ UNCHANGED <<Given, task>>

Next ==
  \/ Arrives \/ Found \/ ByCountry \/ Asked \/ ByPreference \/ ByStranger \/ Runs \/ Replies
  \/ Learns

Spec == Init /\ [][Next]_vars
-----------------------------------------------------------------------------
TypeOK ==
  /\ task.at \in {"arrived", "looking", "resolving", "asking", "resolved", "failed", "running", "done"}
  /\ task.ddi \in DOMAIN DDI_LOCALE \cup {NoCode}
  /\ task.next \in 1..(Len(resolvers) + 1)
  /\ task.lookups \in 0..(Len(resolvers) + 1)
  /\ task.at \in {"running", "done"} => task.locale # None

Begins(code, number) == \E length \in 1..3 : code = Prefix(number, length)

\* A sender whose number begins with a listed code is taken for that country and no
\* other, Paraguay not for Brazil: whichever of the code's lengths is tried first.
DdiIsCountry ==
  (sender.kind = "user" /\ task.at # "arrived") =>
    \A code \in DOMAIN DDI_LOCALE : Begins(code, sender.number) => task.ddi = code

\* The code the handler is given and the language of its country agree, at one lookup of
\* the sender; but for a LID that gave no code the first time, which every resolver by
\* country looks up again, and may then answer while the handler's code is still unknown.
OneLookup ==
  IF task.ddi # NoCode
  THEN task.lookups <= 1 /\ (task.from = "country" => task.locale = DDI_LOCALE[task.ddi])
  ELSE task.from = "country" => sender.kind = "lid" /\ task.lookups > 1

\* Whoever writes, with a fallback that has every key nobody is answered with a bare key,
\* nor in the fallback when the sender's own language has the text.
NeverBare ==
  task.at = "done" =>
    /\ (\A key \in TextKeys : In(fallback, key)) => task.text # task.key
    /\ In(task.locale, task.key) => task.text = task.locale

\* A sender is answered in a language that his number or somebody's preference gives.
LanguageFits == TypeOK /\ DdiIsCountry /\ OneLookup /\ NeverBare
=============================================================================
