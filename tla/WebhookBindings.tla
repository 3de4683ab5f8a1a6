--------------------------- MODULE WebhookBindings ---------------------------
(***************************************************************************)
(* NestWhatsWebhookService over a JsonFileWebhookStorage: which @Webhook() *)
(* handlers are bound to which client, the listeners that makes on the     *)
(* adapters, the file it is kept in, and the watcher that reads the file   *)
(* back, the service's own saves as much as somebody's edits, while clients *)
(* come and go and the process restarts.                                   *)
(*                                                                         *)
(* register, unregister and the sync run alone; what is asynchronous is    *)
(* the save they start and do not wait for, and the watcher's read.        *)
(***************************************************************************)
EXTENDS FiniteSets, Naturals

CONSTANTS
  Clients,      \* names of clients
  DefaultName,  \* the client named "default", if Clients has it
  Handlers,     \* the discovered @Webhook() handlers
  Once,         \* those declared with @Once
  Bindable,     \* <<handler, client>>: neither its `client` option nor the
                \* adapter's supportedEvents rules it out
  DefaultKey,   \* the bucket for bindings made without naming a client
  Named,        \* the clients handlers are bound to by name
  MaxSaves,     \* bounds the saves in flight together
  None, Torn, Missing   \* no value; a file that is no JSON; no file

Keys     == Named \cup {DefaultKey}
Pairs    == Keys \X Handlers
Contents == SUBSET Pairs
Listener == Pairs \X Clients

ASSUME WebhookAssumption ==
  /\ IsFiniteSet(Clients) /\ IsFiniteSet(Handlers) /\ MaxSaves \in Nat
  /\ Once \subseteq Handlers /\ Bindable \subseteq Handlers \X Clients
  /\ Named \subseteq Clients /\ DefaultKey \notin Clients /\ None \notin Clients
  /\ \A contents \in Contents : contents \notin {None, Torn, Missing}
  /\ None # Torn /\ Torn # Missing /\ Missing # None

VARIABLES
  phase,        \* of the process: "down", "starting", "cleaning" the file, "running",
                \* "stopping"
  registered,   \* the clients in the registry
  bound,        \* listed: this.bindings; attached: the listed functions that are on
                \* an adapter; leaked: the unlisted ones that are; spent, a history:
                \* what is listed and was attached to an adapter that is gone, or has
                \* fired its once
  lastSaved,    \* this.lastSavedState
  pendingError, \* this.hasPendingStorageError
  file,         \* what the storage file holds
  watching,     \* the watcher is on the file
  changed,      \* the watcher's debounce timer is armed
  reading,      \* what the watcher has read and not applied yet
  saves,        \* the saves in flight
  wanted,       \* history: the bindings by the last call on each bucket, or edit; None
                \* once an order or a fault came that the code is not written for
  inStep        \* history: nothing stored was skipped by the restore, and no call came
                \* before it was over

process == <<phase, registered>>
memory  == <<bound, lastSaved, pendingError>>
store   == <<file, watching, changed, reading, saves>>
history == <<wanted, inStep>>
vars    == <<process, memory, store, history>>

NothingBound == [listed |-> {}, attached |-> {}, leaked |-> {}, spent |-> {}]
SaveOf(contents, restores) == [at |-> "save", snap |-> contents, restores |-> restores]

\* load(): a file that is not there holds nothing.
Text(content) == IF content = Missing THEN {} ELSE content

Init ==
  /\ phase = "down" /\ registered = {}
  /\ bound = NothingBound /\ lastSaved = None /\ pendingError = FALSE
  /\ file \in Contents \cup {Missing}
  /\ watching = FALSE /\ changed = FALSE /\ reading = None /\ saves = {}
  /\ wanted = Text(file) /\ inStep = TRUE

\* wanted is what it was, or content, unless something bad happens.
Wants(content, bad) == wanted' = IF bad \/ wanted = None THEN None ELSE content
-----------------------------------------------------------------------------
(***************************************************************************)
(* Binding and unbinding                                                   *)
(***************************************************************************)

\* The registry's answer for a bucket: a client by its name, and without one the
\* only client there is, or the one named default.
Resolve(key) ==
  IF key \in Clients THEN (IF key \in registered THEN key ELSE None)
  ELSE IF Cardinality(registered) = 1 THEN CHOOSE c \in registered : TRUE
  ELSE IF DefaultName \in registered THEN DefaultName ELSE None

\* Mutant of Bound: a client that is not registered is not an early return.
BoundUnchecked(b, pairs) ==
  [b EXCEPT !.listed   = @ \cup pairs,
            !.attached = @ \cup {<<p, Resolve(p[1])>> : p \in pairs \ b.listed}]

\* Mutant of Bound: listed before it is known whether the client takes it.
BoundListedFirst(b, pairs) ==
  LET new == {p \in pairs \ b.listed : <<p[2], Resolve(p[1])>> \in Bindable}
  IN  [b EXCEPT !.listed   = @ \cup pairs,
                !.attached = @ \cup {<<p, Resolve(p[1])>> : p \in new}]

\* _bindHandlers: what is listed already is skipped, whatever it is attached to.
Bound(b, pairs) ==
  LET new == {p \in pairs \ b.listed : <<p[2], Resolve(p[1])>> \in Bindable}
  IN  [b EXCEPT !.listed   = @ \cup new,
                !.attached = @ \cup {<<p, Resolve(p[1])>> : p \in new}]

\* Mutant of Unbound: taken off the list and not off the adapter.
UnboundNotOff(b, pairs) ==
  LET fns == {l \in b.attached : l[1] \in pairs}
  IN  [listed |-> b.listed \ pairs, attached |-> b.attached \ fns,
       leaked |-> b.leaked \cup fns, spent |-> b.spent \ pairs]

\* _unbindHandlers: each function is taken off the adapter that the bucket stands
\* for by now, which may be another one than it was put on, or none.
Unbound(b, pairs) ==
  LET fns == {l \in b.attached : l[1] \in pairs}
      off == {l \in fns : l[2] = Resolve(l[1][1])}
  IN  [listed |-> b.listed \ pairs, attached |-> b.attached \ fns,
       leaked |-> b.leaked \cup (fns \ off), spent |-> b.spent \ pairs]

\* persistState: remembered, then saved, unless the text is the one remembered
\* last.  The same bindings may read otherwise: the order, a client with none.
Persist(listed, last) ==
  /\ lastSaved' = listed
  /\ Cardinality(saves) < MaxSaves
  /\ \/ listed = last /\ UNCHANGED saves
     \/ saves' = saves \cup {SaveOf(listed, FALSE)}
-----------------------------------------------------------------------------
(***************************************************************************)
(* register and unregister                                                 *)
(***************************************************************************)
Restored == phase \in {"running", "stopping"}

\* A call on bucket key has made of bound what b is.  The code copes with it once
\* the restore is over, when nothing is being saved or read, and no edit waits.
Called(key, b) ==
  /\ phase # "down"
  /\ bound' = b
  /\ Persist(b.listed, lastSaved)
  /\ Wants({p \in wanted : p[1] # key} \cup {p \in b.listed : p[1] = key},
           ~Restored \/ saves # {} \/ reading # None \/ Text(file) # bound.listed)
  /\ inStep' = (inStep /\ Restored)
  /\ UNCHANGED <<process, pendingError, file, watching, changed, reading>>

Register(key, handlers) ==
  /\ key \in Clients => key \in registered
  /\ Called(key, Bound(bound, {key} \X handlers))

\* Without `handlers`: everything is bound anew.
RegisterAll(key) ==
  /\ key \in Clients => key \in registered
  /\ LET all == {key} \X Handlers IN Called(key, Bound(Unbound(bound, all), all))

\* Mutant of Unregister: the change is not saved.
UnregisterUnsaved(key, handlers) ==
  LET b == Unbound(bound, {key} \X handlers)
  IN  /\ phase # "down" /\ bound' = b
      /\ Wants({p \in wanted : p \notin {key} \X handlers},
               ~Restored \/ saves # {} \/ reading # None \/ Text(file) # bound.listed)
      /\ UNCHANGED <<process, lastSaved, pendingError, store, inStep>>

Unregister(key, handlers) ==
  /\ key \in Clients => \E p \in bound.listed : p[1] = key
  /\ Called(key, Unbound(bound, {key} \X handlers))
-----------------------------------------------------------------------------
(***************************************************************************)
(* onApplicationBootstrap                                                  *)
(***************************************************************************)

\* The clients declared, and the virtual ones restored by now.
Boot ==
  /\ phase = "down" /\ phase' = "starting"
  /\ registered' \in SUBSET Clients
  /\ UNCHANGED <<memory, store, history>>

\* The end of the restore: contents are bound for the clients that are registered,
\* and a file that is there is watched.
Restores(contents, content) ==
  LET b == Bound(bound, contents)
  IN  /\ phase' = "running" /\ bound' = b
      /\ watching' = (content # Missing)
      /\ Wants(wanted, ~(contents \subseteq b.listed))
      /\ inStep' = (inStep /\ contents \subseteq b.listed)
      /\ UNCHANGED <<registered, pendingError, reading>>

\* Stored handlers that are no longer in the code are dropped and the rest is
\* saved first.
Loads ==
  /\ phase = "starting" /\ file # Torn
  /\ \/ /\ Restores(Text(file), file)
        /\ UNCHANGED <<lastSaved, file, changed, saves>>
     \/ /\ file # Missing
        /\ phase' = "cleaning"
        /\ lastSaved' = file /\ saves' = saves \cup {SaveOf(file, TRUE)}
        /\ UNCHANGED <<registered, bound, pendingError, file, watching, changed, reading,
                       history>>

\* A file that is no JSON is only warned about.
LoadFails ==
  /\ phase = "starting" /\ file = Torn
  /\ Restores({}, file)
  /\ UNCHANGED <<lastSaved, file, changed, saves>>
-----------------------------------------------------------------------------
(***************************************************************************)
(* save(): the file is emptied, then written.  Two saves in flight can end *)
(* in either order.                                                        *)
(***************************************************************************)
WriteBegins(s) ==
  /\ s.at = "save"
  /\ file' = Torn /\ changed' = watching
  /\ saves' = (saves \ {s}) \cup {[s EXCEPT !.at = "write"]}
  /\ UNCHANGED <<process, memory, watching, reading, history>>

WriteEnds(s) ==
  /\ s.at = "write"
  /\ file' = s.snap /\ saves' = saves \ {s}
  /\ changed' = watching
  /\ \/ s.restores /\ Restores(s.snap, file) /\ UNCHANGED lastSaved
     \/ ~s.restores /\ UNCHANGED <<process, memory, watching, reading, history>>
-----------------------------------------------------------------------------
(***************************************************************************)
(* The watcher and syncFromState                                           *)
(***************************************************************************)

\* Somebody edits the file, in place or by putting another in its place, creates it
\* or removes it; the watcher tells of all of it, and goes on only if the file is the
\* same.  The code copes with an edit that is noticed, made while nothing is being
\* saved or read, and with no removal.
Edit(content, inPlace) ==
  /\ file \notin {Torn, content}
  /\ content = Missing => ~inPlace
  /\ file' = content /\ changed' = watching
  /\ watching' = (watching /\ inPlace)
  /\ Wants(content, \/ saves # {} \/ reading # None \/ content = Missing
                    \/ Restored /\ ~watching)
  /\ UNCHANGED <<process, memory, reading, saves, inStep>>

\* The debounce timer fires and the file is read, if it is there.  One read at a time.
Reads ==
  /\ changed /\ reading = None
  /\ changed' = FALSE
  /\ reading' = IF file = Missing THEN None ELSE file
  /\ Wants(wanted, saves # {} /\ file \notin {Torn, bound.listed})
  /\ UNCHANGED <<process, memory, file, watching, saves, inStep>>

\* Mutant of Syncs: what is made of the file is not saved.
SyncsUnsaved ==
  LET b == Unbound(Bound(bound, reading), bound.listed \ reading)
  IN  /\ reading \notin {None, Torn}
      /\ bound' = b /\ lastSaved' = b.listed /\ pendingError' = FALSE
      /\ reading' = None
      /\ Wants(wanted, b.listed # reading)
      /\ UNCHANGED <<process, file, watching, changed, saves, inStep>>

\* The text is another than the one remembered, or follows one that was no JSON:
\* what is missing is bound, what is too much unbound, and the outcome saved.
Syncs ==
  LET b == Unbound(Bound(bound, reading), bound.listed \ reading)
  IN  /\ reading \notin {None, Torn}
      /\ bound' = b /\ Persist(b.listed, reading) /\ pendingError' = FALSE
      /\ reading' = None
      /\ Wants(wanted, b.listed # reading)
      /\ UNCHANGED <<process, file, watching, changed, inStep>>

\* The text the service itself saved last.
IsOwn == reading = lastSaved /\ ~pendingError

SyncSkipped ==
  /\ reading \notin {None, Torn} /\ IsOwn
  /\ reading' = None
  /\ UNCHANGED <<process, memory, file, watching, changed, saves, history>>

SyncFails ==
  /\ reading = Torn
  /\ reading' = None /\ pendingError' = TRUE
  /\ UNCHANGED <<process, bound, lastSaved, file, watching, changed, saves, history>>
-----------------------------------------------------------------------------
(***************************************************************************)
(* The rest of the program                                                 *)
(***************************************************************************)

\* A client is created, its adapter new.
ClientJoins(c) ==
  /\ phase # "down" /\ c \notin registered
  /\ registered' = registered \cup {c}
  /\ UNCHANGED <<phase, memory, store, history>>

\* A client is destroyed, and its adapter with the listeners on it.
ClientLeaves(c) ==
  /\ c \in registered
  /\ registered' = registered \ {c}
  /\ bound' = [bound EXCEPT
       !.attached = {l \in @ : l[2] # c},
       !.leaked   = {l \in @ : l[2] # c},
       !.spent    = @ \cup {l[1] : l \in {k \in bound.attached : k[2] = c}}]
  /\ UNCHANGED <<phase, lastSaved, pendingError, store, history>>

\* An event reaches a function put on with adapter.once.
Fires(l) ==
  /\ l[1][2] \in Once
  /\ bound' = [bound EXCEPT !.attached = @ \ {l}, !.leaked = @ \ {l},
                            !.spent = @ \cup ({l[1]} \cap {k[1] : k \in bound.attached \cap {l}})]
  /\ UNCHANGED <<process, lastSaved, pendingError, store, history>>

Shutdown ==
  /\ phase = "running" /\ phase' = "stopping"
  /\ watching' = FALSE /\ changed' = FALSE
  /\ UNCHANGED <<registered, memory, file, reading, saves, history>>

\* At any moment: a crash, the end of a shutdown, or a save that fails, which
\* nobody catches.
ProcessEnds ==
  /\ phase # "down" /\ phase' = "down"
  /\ registered' = {} /\ bound' = NothingBound
  /\ lastSaved' = None /\ pendingError' = FALSE
  /\ watching' = FALSE /\ changed' = FALSE /\ reading' = None /\ saves' = {}
  /\ Wants(wanted, saves # {})
  /\ inStep' = TRUE
  /\ UNCHANGED file

Call ==
  \E key \in Keys :
    \/ RegisterAll(key)
    \/ \E handlers \in SUBSET Handlers : Register(key, handlers) \/ Unregister(key, handlers)

Next ==
  \/ Call
  \/ Boot \/ Loads \/ LoadFails
  \/ \E s \in saves : WriteBegins(s) \/ WriteEnds(s)
  \/ \E content \in {Missing} \cup Contents, inPlace \in BOOLEAN : Edit(content, inPlace)
  \/ Reads \/ Syncs \/ SyncSkipped \/ SyncFails
  \/ \E c \in Clients : ClientJoins(c) \/ ClientLeaves(c)
  \/ \E l \in bound.attached \cup bound.leaked : Fires(l)
  \/ Shutdown \/ ProcessEnds

Spec == Init /\ [][Next]_vars
-----------------------------------------------------------------------------
(***************************************************************************)
(* Properties                                                              *)
(***************************************************************************)
TypeOK ==
  /\ phase \in {"down", "starting", "cleaning", "running", "stopping"}
  /\ registered \subseteq Clients
  /\ bound \in [listed : Contents, attached : SUBSET Listener, leaked : SUBSET Listener,
                spent : Contents]
  /\ lastSaved \in {None} \cup Contents /\ pendingError \in BOOLEAN
  /\ file \in {Torn, Missing} \cup Contents
  /\ watching \in BOOLEAN /\ changed \in BOOLEAN
  /\ reading \in {None, Torn} \cup Contents
  /\ saves \subseteq [at : {"save", "write"}, snap : Contents, restores : BOOLEAN]
  /\ wanted \in {None} \cup Contents /\ inStep \in BOOLEAN

\* "Binds and unbinds @Webhook() handlers at runtime, per client": a function
\* nothing lists, which no call could ever take off, was put on without naming the
\* client, whose bucket has come to stand for another client since.
NoStrayListeners ==
  /\ \A l \in bound.leaked : l[1][1] = DefaultKey
  /\ \A l \in bound.attached : l[1] \in bound.listed

\* A handler that is listed as bound hears its client, unless it has fired its
\* once or the client it was bound to was destroyed since, to come back with
\* another adapter.
ListedIsAttached ==
  bound.listed \subseteq bound.spent \cup {l[1] : l \in bound.attached}

\* The lists and the adapters agree, both ways.
BindingsAreAttached == TypeOK /\ NoStrayListeners /\ ListedIsAttached

\* "Bindings are persisted [...], so they survive a restart, and are restored on
\* bootstrap": the file holds what the calls and the edits asked for whenever the
\* process is down, and the service has it once it runs again.
BindingsSurvive ==
  wanted # None =>
    /\ phase = "down" => Text(file) = wanted
    /\ phase = "running" /\ ~changed /\ reading = None => bound.listed = wanted

\* "Edits made outside the application are synced automatically": when nothing is on
\* its way, the watched file and the list agree, however the saves, the edits and
\* the watcher's echoes of the service's own saves have met.
FileFollows ==
  phase = "running" /\ watching /\ lastSaved # None
    /\ saves = {} /\ ~changed /\ reading = None /\ inStep =>
  file = bound.listed
=============================================================================
