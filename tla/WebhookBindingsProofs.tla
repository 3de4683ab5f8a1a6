------------------------ MODULE WebhookBindingsProofs ------------------------
(***************************************************************************)
(* What holds of the bindings for any clients, handlers and buckets.       *)
(***************************************************************************)
EXTENDS WebhookBindings, FiniteSetTheorems, TLAPS

\* What binding and unbinding keep: whatever is attached is listed, and is on a
\* client that is registered and that the bucket, if it has a name, is named for.
Sound(b) ==
  /\ b \in [listed : Contents, attached : SUBSET Listener, leaked : SUBSET Listener,
            spent : Contents]
  /\ \A l \in b.attached : /\ l[1] \in b.listed
                           /\ l[2] \in registered
                           /\ l[1][1] # DefaultKey => l[2] = l[1][1]
  /\ \A l \in b.leaked : l[1][1] = DefaultKey
  /\ \A p \in b.listed : p \in b.spent \/ \E l \in b.attached : l[1] = p

\* And nothing is registered while the process is down.
BoundIsSound == Sound(bound) /\ (phase = "down" => registered = {})

IInv == TypeOK /\ BoundIsSound
-----------------------------------------------------------------------------
(* A bucket stands for a client that is registered, and a named one for none but *)
(* the client it is named for.                                                   *)
LEMMA ResolveIsRegistered ==
  ASSUME registered \subseteq Clients, NEW key \in Keys, Resolve(key) # None
  PROVE  /\ Resolve(key) \in registered
         /\ key # DefaultKey => Resolve(key) = key
<1>1. CASE key \in Clients
  BY <1>1 DEF Resolve
<1>2. CASE key \notin Clients
  <2>1. key = DefaultKey
    BY <1>2, WebhookAssumption DEF Keys
  <2>2. CASE Cardinality(registered) = 1
    <3>1. IsFiniteSet(registered)
      BY FS_Subset, WebhookAssumption
    <3>2. PICK c : registered = {c}
      BY <2>2, <3>1, FS_Singleton
    <3>3. QED
      BY <1>2, <2>1, <2>2, <3>2 DEF Resolve
  <2>3. CASE Cardinality(registered) # 1
    BY <1>2, <2>1, <2>3 DEF Resolve
  <2>4. QED
    BY <2>2, <2>3
<1>3. QED
  BY <1>1, <1>2

(* Binding keeps the bindings sound, whatever is bound. *)
LEMMA BoundKeepsSound ==
  ASSUME registered \subseteq Clients, NEW b, Sound(b), NEW pairs \in Contents
  PROVE  Sound(Bound(b, pairs))
<1> DEFINE new == {p \in pairs \ b.listed : <<p[2], Resolve(p[1])>> \in Bindable}
           fns == {<<p, Resolve(p[1])>> : p \in new}
           after == [b EXCEPT !.listed = @ \cup new, !.attached = @ \cup fns]
<1>1. Bound(b, pairs) = after
  BY DEF Bound
<1>2. new \in Contents
  BY DEF Contents
<1>3. \A p \in new : /\ p \in Pairs /\ p[1] \in Keys
                     /\ Resolve(p[1]) \in Clients
                     /\ Resolve(p[1]) \in registered
                     /\ p[1] # DefaultKey => Resolve(p[1]) = p[1]
  <2> SUFFICES ASSUME NEW p \in new
               PROVE  /\ p \in Pairs /\ p[1] \in Keys
                      /\ Resolve(p[1]) \in Clients
                      /\ Resolve(p[1]) \in registered
                      /\ p[1] # DefaultKey => Resolve(p[1]) = p[1]
    OBVIOUS
  <2>1. p \in Pairs /\ p[1] \in Keys
    BY DEF Contents, Pairs
  <2>2. Resolve(p[1]) \in Clients
    BY WebhookAssumption
  <2>3. QED
    BY <2>1, <2>2, ResolveIsRegistered, WebhookAssumption
<1>4. \A l \in fns : /\ l \in Listener /\ l[1] \in new
                     /\ l[2] \in registered
                     /\ l[1][1] # DefaultKey => l[2] = l[1][1]
  <2> SUFFICES ASSUME NEW l \in fns
               PROVE  /\ l \in Listener /\ l[1] \in new
                      /\ l[2] \in registered
                      /\ l[1][1] # DefaultKey => l[2] = l[1][1]
    OBVIOUS
  <2>1. PICK p \in new : l = <<p, Resolve(p[1])>>
    OBVIOUS
  <2>2. l[1] = p /\ l[2] = Resolve(p[1])
    BY <2>1
  <2>3. l \in Listener
    BY <2>1, <1>3 DEF Listener
  <2>4. QED
    BY <2>2, <2>3, <1>3
<1>5. /\ after.listed = b.listed \cup new /\ after.attached = b.attached \cup fns
      /\ after.leaked = b.leaked /\ after.spent = b.spent
  BY DEF Sound
<1>6. after \in [listed : Contents, attached : SUBSET Listener, leaked : SUBSET Listener,
                 spent : Contents]
  BY <1>2, <1>4 DEF Sound, Contents
<1>7. \A l \in after.attached : /\ l[1] \in after.listed
                                /\ l[2] \in registered
                                /\ l[1][1] # DefaultKey => l[2] = l[1][1]
  BY <1>4, <1>5 DEF Sound
<1>8. \A p \in after.listed : p \in after.spent \/ \E l \in after.attached : l[1] = p
  <2> SUFFICES ASSUME NEW p \in after.listed
               PROVE  p \in after.spent \/ \E l \in after.attached : l[1] = p
    OBVIOUS
  <2>1. CASE p \in b.listed
    BY <2>1, <1>5 DEF Sound
  <2>2. CASE p \in new
    <3>1. <<p, Resolve(p[1])>> \in after.attached
      BY <2>2, <1>5
    <3>2. QED
      BY <3>1
  <2>3. QED
    BY <2>1, <2>2, <1>5
<1>9. QED
  BY <1>1, <1>5, <1>6, <1>7, <1>8 DEF Sound

(* Unbinding keeps them sound: a function that stays on an adapter is the default *)
(* bucket's, since the adapter of a named one is where it was put.                *)
LEMMA UnboundKeepsSound ==
  ASSUME registered \subseteq Clients, NEW b, Sound(b), NEW pairs
  PROVE  Sound(Unbound(b, pairs))
<1> DEFINE fns == {l \in b.attached : l[1] \in pairs}
           off == {l \in fns : l[2] = Resolve(l[1][1])}
           after == [listed |-> b.listed \ pairs, attached |-> b.attached \ fns,
                     leaked |-> b.leaked \cup (fns \ off), spent |-> b.spent \ pairs]
<1>1. Unbound(b, pairs) = after
  BY DEF Unbound
<1>2. after \in [listed : Contents, attached : SUBSET Listener, leaked : SUBSET Listener,
                 spent : Contents]
  BY DEF Sound, Contents
<1>3. \A l \in after.attached : /\ l[1] \in after.listed
                                /\ l[2] \in registered
                                /\ l[1][1] # DefaultKey => l[2] = l[1][1]
  BY DEF Sound
<1>4. \A l \in after.leaked : l[1][1] = DefaultKey
  <2> SUFFICES ASSUME NEW l \in fns \ off, l[1][1] # DefaultKey
               PROVE  FALSE
    BY DEF Sound
  <2>1. l[2] = l[1][1] /\ l[2] \in registered
    BY DEF Sound
  <2>2. Resolve(l[1][1]) = l[1][1]
    BY <2>1 DEF Resolve
  <2>3. QED
    BY <2>1, <2>2
<1>5. \A p \in after.listed : p \in after.spent \/ \E l \in after.attached : l[1] = p
  BY DEF Sound
<1>6. QED
  BY <1>1, <1>2, <1>3, <1>4, <1>5 DEF Sound
-----------------------------------------------------------------------------
Save == [at : {"save", "write"}, snap : Contents, restores : BOOLEAN]

(* What persistState remembers and saves are bindings. *)
LEMMA PersistTypes ==
  ASSUME saves \subseteq Save, NEW listed \in Contents, NEW last, Persist(listed, last)
  PROVE  lastSaved' \in Contents /\ saves' \subseteq Save
<1>1. SaveOf(listed, FALSE) \in Save
  BY DEF SaveOf, Save
<1>2. QED
  BY <1>1 DEF Persist

(* A call that leaves sound bindings keeps the invariant. *)
LEMMA CalledStep ==
  ASSUME IInv, NEW key \in Keys, NEW b, Sound(b), Called(key, b)
  PROVE  IInv'
<1>1. b.listed \in Contents
  BY DEF Sound
<1>2. lastSaved' \in Contents /\ saves' \subseteq Save
  BY <1>1, PersistTypes DEF IInv, TypeOK, Called, Save
<1>3. wanted' \in {None} \cup Contents
  BY <1>1 DEF IInv, TypeOK, Called, Wants, Contents
<1>4. bound' = b /\ registered' = registered /\ phase' = phase
  BY DEF Called, process
<1>5. BoundIsSound'
  BY <1>4 DEF IInv, BoundIsSound, Sound
<1>6. bound' \in [listed : Contents, attached : SUBSET Listener, leaked : SUBSET Listener,
                  spent : Contents]
  BY <1>4 DEF Sound
<1>7. inStep' \in BOOLEAN
  BY DEF IInv, TypeOK, Called, Restored
<1>8. TypeOK'
  BY <1>2, <1>3, <1>6, <1>7 DEF IInv, TypeOK, Called, process, Save
<1>9. QED
  BY <1>5, <1>8 DEF IInv

(* The end of the restore keeps the invariant, whatever contents it binds. *)
LEMMA RestoresStep ==
  ASSUME IInv, NEW contents \in Contents, NEW content, Restores(contents, content),
         lastSaved' = lastSaved, file' \in {Torn, Missing} \cup Contents,
         changed' \in BOOLEAN, saves' \subseteq Save
  PROVE  IInv'
<1>1. bound' = Bound(bound, contents) /\ registered' = registered /\ phase' = "running"
  BY DEF Restores
<1>2. Sound(Bound(bound, contents))
  BY BoundKeepsSound DEF IInv, TypeOK, BoundIsSound
<1>3. BoundIsSound'
  BY <1>1, <1>2 DEF BoundIsSound, Sound
<1>4. bound' \in [listed : Contents, attached : SUBSET Listener, leaked : SUBSET Listener,
                  spent : Contents]
  BY <1>1, <1>2 DEF Sound
<1>5. wanted' \in {None} \cup Contents
  BY DEF IInv, TypeOK, Restores, Wants
<1>6. inStep' \in BOOLEAN /\ watching' \in BOOLEAN /\ phase' = "running"
  BY DEF IInv, TypeOK, Restores
<1>7. TypeOK'
  BY <1>4, <1>5, <1>6 DEF IInv, TypeOK, Restores, Save
<1>8. QED
  BY <1>3, <1>7 DEF IInv

(* A sync keeps the invariant: it binds what is missing, then unbinds the rest. *)
LEMMA SyncsStep ==
  ASSUME IInv, Syncs
  PROVE  IInv'
<1> DEFINE b == Unbound(Bound(bound, reading), bound.listed \ reading)
<1>1. reading \in Contents
  BY DEF IInv, TypeOK, Syncs
<1>2. Sound(Bound(bound, reading))
  BY <1>1, BoundKeepsSound DEF IInv, TypeOK, BoundIsSound
<1>3. Sound(b)
  BY <1>2, UnboundKeepsSound DEF IInv, TypeOK
<1>4. /\ bound' = b /\ registered' = registered /\ phase' = phase
      /\ Persist(b.listed, reading)
  BY DEF Syncs, process
<1>5. BoundIsSound'
  BY <1>3, <1>4 DEF IInv, BoundIsSound, Sound
<1>6. bound' \in [listed : Contents, attached : SUBSET Listener, leaked : SUBSET Listener,
                  spent : Contents]
  BY <1>3, <1>4 DEF Sound
<1>7. b.listed \in Contents
  BY <1>3 DEF Sound
<1>8. lastSaved' \in Contents /\ saves' \subseteq Save
  BY <1>4, <1>7, PersistTypes DEF IInv, TypeOK, Save
<1>9. wanted' \in {None} \cup Contents
  BY DEF IInv, TypeOK, Syncs, Wants
<1>10. TypeOK'
  BY <1>6, <1>8, <1>9 DEF IInv, TypeOK, Syncs, process, Save
<1>11. QED
  BY <1>5, <1>10 DEF IInv

(* A client that comes or goes, and an event that reaches a @Once handler. *)
LEMMA ClientsStep ==
  ASSUME IInv,
         \/ \E c \in Clients : ClientJoins(c) \/ ClientLeaves(c)
         \/ \E l \in bound.attached \cup bound.leaked : Fires(l)
  PROVE  IInv'
<1>1. ASSUME NEW c \in Clients, ClientJoins(c)
      PROVE  IInv'
  BY <1>1 DEF IInv, TypeOK, BoundIsSound, Sound, ClientJoins, memory, store, history
<1>2. ASSUME NEW c \in Clients, ClientLeaves(c)
      PROVE  IInv'
  <2> DEFINE lost == {l[1] : l \in {k \in bound.attached : k[2] = c}}
  <2>1. /\ bound'.listed = bound.listed
        /\ bound'.attached = {l \in bound.attached : l[2] # c}
        /\ bound'.leaked = {l \in bound.leaked : l[2] # c}
        /\ bound'.spent = bound.spent \cup lost
        /\ registered' = registered \ {c} /\ phase' = phase
    BY <1>2 DEF ClientLeaves, IInv, TypeOK
  <2>2. lost \in Contents
    BY DEF IInv, TypeOK, Listener, Contents
  <2>3. bound' \in [listed : Contents, attached : SUBSET Listener,
                    leaked : SUBSET Listener, spent : Contents]
    BY <1>2, <2>2 DEF ClientLeaves, IInv, TypeOK, Contents
  <2>4. \A p \in bound'.listed : p \in bound'.spent \/ \E l \in bound'.attached : l[1] = p
    BY <2>1 DEF IInv, BoundIsSound, Sound
  <2>5. BoundIsSound'
    BY <2>1, <2>3, <2>4 DEF IInv, BoundIsSound, Sound
  <2>6. TypeOK'
    BY <1>2, <2>1, <2>3 DEF IInv, TypeOK, ClientLeaves, store, history
  <2>7. QED
    BY <2>5, <2>6 DEF IInv
<1>3. ASSUME NEW l \in bound.attached \cup bound.leaked, Fires(l)
      PROVE  IInv'
  <2> DEFINE fired == {l[1]} \cap {k[1] : k \in bound.attached \cap {l}}
  <2>1. /\ bound'.listed = bound.listed
        /\ bound'.attached = bound.attached \ {l}
        /\ bound'.leaked = bound.leaked \ {l}
        /\ bound'.spent = bound.spent \cup fired
        /\ registered' = registered /\ phase' = phase
    BY <1>3 DEF Fires, IInv, TypeOK, process
  <2>2. fired \in Contents
    BY DEF IInv, TypeOK, Listener, Contents
  <2>3. bound' \in [listed : Contents, attached : SUBSET Listener,
                    leaked : SUBSET Listener, spent : Contents]
    <3>1. bound.attached \ {l} \in SUBSET Listener /\ bound.leaked \ {l} \in SUBSET Listener
      BY DEF IInv, TypeOK
    <3>2. bound.spent \cup fired \in Contents
      BY <2>2 DEF IInv, TypeOK, Contents
    <3>3. bound' = [bound EXCEPT !.attached = @ \ {l}, !.leaked = @ \ {l},
                                 !.spent = @ \cup fired]
      BY <1>3 DEF Fires
    <3>4. QED
      BY <3>1, <3>2, <3>3 DEF IInv, TypeOK
  <2>4. \A p \in bound'.listed : p \in bound'.spent \/ \E k \in bound'.attached : k[1] = p
    BY <2>1 DEF IInv, BoundIsSound, Sound
  <2>5. BoundIsSound'
    BY <2>1, <2>3, <2>4 DEF IInv, BoundIsSound, Sound
  <2>6. TypeOK'
    <3>1. UNCHANGED <<phase, registered, lastSaved, pendingError, file, watching, changed,
                      reading, saves, wanted, inStep>>
      BY <1>3 DEF Fires, process, store, history
    <3>2. QED
      BY <2>3, <3>1 DEF IInv, TypeOK
  <2>7. QED
    BY <2>5, <2>6 DEF IInv
<1>4. QED
  BY <1>1, <1>2, <1>3

(* The steps that touch no binding, and the end of the process, which drops all. *)
LEMMA QuietStep ==
  ASSUME IInv,
         \/ Boot \/ Reads \/ SyncSkipped \/ SyncFails \/ Shutdown \/ ProcessEnds
         \/ \E s \in saves : WriteBegins(s)
         \/ \E content \in {Missing} \cup Contents, inPlace \in BOOLEAN : Edit(content, inPlace)
  PROVE  IInv'
<1> USE DEF IInv, TypeOK, process, memory, store, history
<1>a. ASSUME bound' = bound, registered' = registered, phase' = "down" => phase = "down"
      PROVE  BoundIsSound'
  BY <1>a DEF BoundIsSound, Sound
<1>1. CASE Boot
  <2>1. bound.attached = {}
    BY <1>1 DEF Boot, BoundIsSound, Sound
  <2>2. BoundIsSound'
    BY <1>1, <2>1 DEF Boot, BoundIsSound, Sound
  <2>3. QED
    BY <1>1, <2>2 DEF Boot
<1>2. CASE Reads
  BY <1>2, <1>a DEF Reads, Wants
<1>3. CASE SyncSkipped \/ SyncFails
  BY <1>3, <1>a DEF SyncSkipped, SyncFails
<1>4. CASE Shutdown
  BY <1>4, <1>a DEF Shutdown
<1>5. CASE ProcessEnds
  <2>1. NothingBound \in [listed : Contents, attached : SUBSET Listener,
                          leaked : SUBSET Listener, spent : Contents]
    BY DEF NothingBound, Contents
  <2>2. BoundIsSound'
    BY <1>5, <2>1 DEF ProcessEnds, NothingBound, BoundIsSound, Sound
  <2>3. QED
    BY <1>5, <2>1, <2>2 DEF ProcessEnds, Wants
<1>6. ASSUME NEW s \in saves, WriteBegins(s)
      PROVE  IInv'
  <2>1. [s EXCEPT !.at = "write"] \in Save
    BY <1>6 DEF Save
  <2>2. saves' \subseteq Save
    BY <1>6, <2>1 DEF WriteBegins, Save
  <2>3. QED
    BY <1>6, <1>a, <2>2 DEF WriteBegins, Save
<1>7. ASSUME NEW content \in {Missing} \cup Contents, NEW inPlace \in BOOLEAN,
             Edit(content, inPlace)
      PROVE  IInv'
  BY <1>7, <1>a DEF Edit, Wants
<1>8. QED
  BY <1>1, <1>2, <1>3, <1>4, <1>5, <1>6, <1>7

(* A call of register or unregister. *)
LEMMA CallStep ==
  ASSUME IInv, Call
  PROVE  IInv'
<1>1. PICK key \in Keys :
        \/ RegisterAll(key)
        \/ \E handlers \in SUBSET Handlers : Register(key, handlers) \/ Unregister(key, handlers)
  BY DEF Call
<1>2. \A handlers \in SUBSET Handlers : {key} \X handlers \in Contents
  BY DEF Contents, Pairs
<1>3. Sound(bound) /\ registered \subseteq Clients
  BY DEF IInv, TypeOK, BoundIsSound
<1>4. CASE RegisterAll(key)
  <2> DEFINE all == {key} \X Handlers
             b == Bound(Unbound(bound, all), all)
  <2>1. Sound(Unbound(bound, all))
    BY <1>3, UnboundKeepsSound
  <2>2. Sound(b)
    BY <1>2, <1>3, <2>1, BoundKeepsSound
  <2>3. Called(key, b)
    BY <1>4 DEF RegisterAll
  <2>4. QED
    BY <2>2, <2>3, CalledStep
<1>5. ASSUME NEW handlers \in SUBSET Handlers, Register(key, handlers)
      PROVE  IInv'
  <2>1. Sound(Bound(bound, {key} \X handlers))
    BY <1>2, <1>3, BoundKeepsSound
  <2>2. Called(key, Bound(bound, {key} \X handlers))
    BY <1>5 DEF Register
  <2>3. QED
    BY <2>1, <2>2, CalledStep
<1>6. ASSUME NEW handlers \in SUBSET Handlers, Unregister(key, handlers)
      PROVE  IInv'
  <2>1. Sound(Unbound(bound, {key} \X handlers))
    BY <1>3, UnboundKeepsSound
  <2>2. Called(key, Unbound(bound, {key} \X handlers))
    BY <1>6 DEF Unregister
  <2>3. QED
    BY <2>1, <2>2, CalledStep
<1>7. QED
  BY <1>1, <1>4, <1>5, <1>6

(* Loading the file, and a write that ends: with it, the restore that waited for it. *)
LEMMA LoadStep ==
  ASSUME IInv, Loads \/ LoadFails \/ \E s \in saves : WriteEnds(s)
  PROVE  IInv'
<1>1. CASE Loads
  <2>1. file # Torn /\ file \in {Missing} \cup Contents /\ Text(file) \in Contents
    BY <1>1 DEF Loads, Text, IInv, TypeOK, Contents
  <2>2. CASE /\ Restores(Text(file), file)
             /\ UNCHANGED <<lastSaved, file, changed, saves>>
    BY <2>1, <2>2, RestoresStep DEF IInv, TypeOK, Save
  <2>3. CASE /\ file # Missing /\ phase' = "cleaning"
             /\ lastSaved' = file /\ saves' = saves \cup {SaveOf(file, TRUE)}
             /\ UNCHANGED <<registered, bound, pendingError, file, watching, changed,
                            reading, history>>
    <3>1. SaveOf(file, TRUE) \in Save
      BY <2>1, <2>3 DEF SaveOf, Save
    <3>2. BoundIsSound'
      BY <2>3 DEF IInv, BoundIsSound, Sound
    <3>3. TypeOK'
      BY <2>1, <2>3, <3>1 DEF IInv, TypeOK, Save, history
    <3>4. QED
      BY <3>2, <3>3 DEF IInv
  <2>4. QED
    BY <1>1, <2>2, <2>3 DEF Loads
<1>2. CASE LoadFails
  <2>1. {} \in Contents
    BY DEF Contents
  <2>2. QED
    BY <1>2, <2>1, RestoresStep DEF LoadFails, IInv, TypeOK, Save
<1>3. ASSUME NEW s \in saves, WriteEnds(s)
      PROVE  IInv'
  <2>1. /\ s.snap \in Contents /\ file' = s.snap /\ saves' \subseteq Save
        /\ changed' \in BOOLEAN
    BY <1>3 DEF WriteEnds, IInv, TypeOK, Save
  <2>2. CASE Restores(s.snap, file) /\ UNCHANGED lastSaved
    BY <2>1, <2>2, RestoresStep
  <2>3. CASE UNCHANGED <<process, memory, watching, reading, history>>
    <3>1. BoundIsSound'
      BY <2>3 DEF IInv, BoundIsSound, Sound, process, memory
    <3>2. TypeOK'
      BY <2>1, <2>3 DEF IInv, TypeOK, Save, process, memory, history
    <3>3. QED
      BY <3>1, <3>2 DEF IInv
  <2>4. QED
    BY <1>3, <2>2, <2>3 DEF WriteEnds
<1>4. QED
  BY <1>1, <1>2, <1>3
-----------------------------------------------------------------------------
(* The bindings are sound, through calls, syncs, restores, restarts, and clients *)
(* that come and go.                                                            *)
THEOREM BindingsInvariance == Spec => []IInv
<1>1. Init => IInv
  <2> SUFFICES ASSUME Init PROVE IInv
    OBVIOUS
  <2>1. NothingBound \in [listed : Contents, attached : SUBSET Listener,
                          leaked : SUBSET Listener, spent : Contents]
    BY DEF NothingBound, Contents
  <2>2. Text(file) \in Contents
    BY DEF Init, Text, Contents
  <2>3. TypeOK
    BY <2>1, <2>2 DEF Init, TypeOK
  <2>4. BoundIsSound
    BY <2>1 DEF Init, BoundIsSound, Sound, NothingBound
  <2>5. QED
    BY <2>3, <2>4 DEF IInv
<1>2. IInv /\ [Next]_vars => IInv'
  <2> SUFFICES ASSUME IInv, [Next]_vars PROVE IInv'
    OBVIOUS
  <2>1. CASE Call
    BY <2>1, CallStep
  <2>2. CASE Loads \/ LoadFails \/ \E s \in saves : WriteEnds(s)
    BY <2>2, LoadStep
  <2>3. CASE Syncs
    BY <2>3, SyncsStep
  <2>4. CASE \/ \E c \in Clients : ClientJoins(c) \/ ClientLeaves(c)
             \/ \E l \in bound.attached \cup bound.leaked : Fires(l)
    BY <2>4, ClientsStep
  <2>5. CASE \/ Boot \/ Reads \/ SyncSkipped \/ SyncFails \/ Shutdown \/ ProcessEnds
             \/ \E s \in saves : WriteBegins(s)
             \/ \E content \in {Missing} \cup Contents, inPlace \in BOOLEAN :
                  Edit(content, inPlace)
    BY <2>5, QuietStep
  <2>6. CASE UNCHANGED vars
    <3>1. BoundIsSound'
      BY <2>6 DEF IInv, BoundIsSound, Sound, vars, process, memory
    <3>2. TypeOK'
      BY <2>6 DEF IInv, TypeOK, vars, process, memory, store, history
    <3>3. QED
      BY <3>1, <3>2 DEF IInv
  <2>7. QED
    BY <2>1, <2>2, <2>3, <2>4, <2>5, <2>6 DEF Next
<1>3. QED
  BY <1>1, <1>2, PTL DEF Spec

(* TypeOK: the state keeps its shape, for any clients, handlers and buckets. *)
THEOREM TypeCorrect == Spec => []TypeOK
<1>1. IInv => TypeOK
  BY DEF IInv
<1>2. QED
  BY <1>1, BindingsInvariance, PTL

(* NoStrayListeners: only the default bucket ever leaves a function on an adapter *)
(* that nothing lists (_unbindHandlers).                                         *)
THEOREM NoStrays == Spec => []NoStrayListeners
<1>1. IInv => NoStrayListeners
  BY DEF IInv, BoundIsSound, Sound, NoStrayListeners
<1>2. QED
  BY <1>1, BindingsInvariance, PTL

(* ListedIsAttached: what is listed hears its client, until that is destroyed or a *)
(* @Once has fired (_bindHandlers).                                               *)
THEOREM ListedHearsClient == Spec => []ListedIsAttached
<1>1. IInv => ListedIsAttached
  BY DEF IInv, BoundIsSound, Sound, ListedIsAttached
<1>2. QED
  BY <1>1, BindingsInvariance, PTL

(* BindingsAreAttached: the lists and the adapters agree, both ways, in every state. *)
THEOREM BindingsAgree == Spec => []BindingsAreAttached
<1>1. TypeOK /\ NoStrayListeners /\ ListedIsAttached => BindingsAreAttached
  BY DEF BindingsAreAttached
<1>2. QED
  BY <1>1, TypeCorrect, NoStrays, ListedHearsClient, PTL
-----------------------------------------------------------------------------
(* The file and the list.  Before the restore is over nothing is listed, and the only *)
(* save is the one the restore waits for; after it, what was saved last is what is    *)
(* listed, and the watcher knows of every change to the file.                         *)
BeforeRestore ==
  /\ bound.listed = {} /\ ~watching /\ ~changed /\ reading = None
  /\ phase \in {"down", "starting"} => saves = {} /\ lastSaved = None
  /\ phase = "cleaning" =>
       lastSaved # None /\ \E s \in saves : saves = {s} /\ s.restores /\ s.snap = lastSaved

AfterRestore ==
  /\ \A s \in saves : ~s.restores
  /\ lastSaved \in {None, bound.listed}
  /\ file = Torn /\ saves = {} => lastSaved = None /\ ~changed /\ reading = None

Watched ==
  watching =>
    /\ file # Missing
    /\ ~changed /\ reading # None => reading = file
    /\ ~changed /\ reading = None /\ saves = {} /\ lastSaved # None => file = bound.listed

InStep == inStep => IF Restored THEN AfterRestore /\ Watched ELSE BeforeRestore

(* What was asked for is in the file, or in every save in flight; and listed, unless *)
(* an edit of the file is still on its way to the list.                              *)
WantedIsFiled ==
  /\ file = Missing => ~changed
  /\ saves = {} => Text(file) = wanted
  /\ \A s \in saves : s.snap = wanted

WantedIsListed ==
  /\ reading \in {None, Torn, wanted}
  /\ saves # {} => bound.listed = wanted
  /\ phase = "running" /\ ~changed /\ reading \in {None, Torn} => bound.listed = wanted

Wanted == wanted # None => inStep /\ WantedIsFiled /\ (Restored => WantedIsListed)

FInv == InStep /\ Wanted /\ (phase # "running" => ~watching /\ ~changed)

(* A call changes the list of its bucket alone. *)
LEMMA CallLists ==
  ASSUME IInv, Call
  PROVE  \E key \in Keys : \E b :
            /\ Called(key, b) /\ b.listed \in Contents
            /\ \A p \in Pairs : p[1] # key => (p \in b.listed <=> p \in bound.listed)
<1>1. PICK key \in Keys :
        \/ RegisterAll(key)
        \/ \E handlers \in SUBSET Handlers : Register(key, handlers) \/ Unregister(key, handlers)
  BY DEF Call
<1>2. bound.listed \in Contents
  BY DEF IInv, TypeOK
<1>3. \A pairs, b : /\ Unbound(b, pairs).listed = b.listed \ pairs
                    /\ b.listed \in Contents /\ DOMAIN b = {"listed", "attached", "leaked", "spent"} =>
                         /\ b.listed \subseteq Bound(b, pairs).listed
                         /\ Bound(b, pairs).listed \subseteq b.listed \cup pairs
  BY DEF Unbound, Bound
<1>4. \A handlers \in SUBSET Handlers :
        {key} \X handlers \in Contents /\ \A p \in {key} \X handlers : p[1] = key
  BY DEF Contents, Pairs
<1>5. CASE RegisterAll(key)
  <2> DEFINE all == {key} \X Handlers
             less == Unbound(bound, all)
             b == Bound(less, all)
  <2>1. less.listed = bound.listed \ all /\ DOMAIN less = {"listed", "attached", "leaked", "spent"}
    BY DEF Unbound
  <2>2. less.listed \in Contents
    BY <1>2, <2>1 DEF Contents
  <2>3. less.listed \subseteq b.listed /\ b.listed \subseteq less.listed \cup all
    BY <1>3, <2>1, <2>2
  <2>4. all \in Contents /\ \A p \in all : p[1] = key
    BY <1>4
  <2>5. b.listed \in Contents /\ \A p \in Pairs : p[1] # key => (p \in b.listed <=> p \in bound.listed)
    BY <2>1, <2>2, <2>3, <2>4 DEF Contents
  <2>6. Called(key, b)
    BY <1>5 DEF RegisterAll
  <2> QED
    BY <2>5, <2>6
<1>6. ASSUME NEW handlers \in SUBSET Handlers, Register(key, handlers)
      PROVE  \E b : /\ Called(key, b) /\ b.listed \in Contents
                    /\ \A p \in Pairs : p[1] # key => (p \in b.listed <=> p \in bound.listed)
  <2> DEFINE pairs == {key} \X handlers
             b == Bound(bound, pairs)
  <2>1. bound.listed \subseteq b.listed /\ b.listed \subseteq bound.listed \cup pairs
    BY DEF Bound, IInv, TypeOK
  <2>2. b.listed \in Contents /\ \A p \in Pairs : p[1] # key => (p \in b.listed <=> p \in bound.listed)
    BY <1>2, <1>4, <2>1 DEF Contents
  <2>3. Called(key, b)
    BY <1>6 DEF Register
  <2> QED
    BY <2>2, <2>3
<1>7. ASSUME NEW handlers \in SUBSET Handlers, Unregister(key, handlers)
      PROVE  \E b : /\ Called(key, b) /\ b.listed \in Contents
                    /\ \A p \in Pairs : p[1] # key => (p \in b.listed <=> p \in bound.listed)
  <2> DEFINE pairs == {key} \X handlers
             b == Unbound(bound, pairs)
  <2>1. b.listed = bound.listed \ pairs
    BY DEF Unbound
  <2>2. b.listed \in Contents /\ \A p \in Pairs : p[1] # key => (p \in b.listed <=> p \in bound.listed)
    BY <1>2, <1>4, <2>1 DEF Contents
  <2>3. Called(key, b)
    BY <1>7 DEF Unregister
  <2> QED
    BY <2>2, <2>3
<1> QED
  BY <1>1, <1>5, <1>6, <1>7

(* A call: what it makes of the list is saved, or was saved last. *)
LEMMA CallFollows ==
  ASSUME IInv, FInv, Call
  PROVE  FInv'
<1> PICK key \in Keys : \E b :
           /\ Called(key, b) /\ b.listed \in Contents
           /\ \A p \in Pairs : p[1] # key => (p \in b.listed <=> p \in bound.listed)
  BY CallLists
<1> PICK b : /\ Called(key, b) /\ b.listed \in Contents
             /\ \A p \in Pairs : p[1] # key => (p \in b.listed <=> p \in bound.listed)
  OBVIOUS
<1>1. /\ bound' = b /\ lastSaved' = b.listed /\ inStep' = (inStep /\ Restored)
      /\ UNCHANGED <<phase, registered, file, watching, changed, reading>>
      /\ \/ b.listed = lastSaved /\ saves' = saves
         \/ saves' = saves \cup {SaveOf(b.listed, FALSE)}
  BY DEF Called, Persist, process
<1>2. Restored' <=> Restored
  BY <1>1 DEF Restored
<1>3. b.listed # None /\ ~SaveOf(b.listed, FALSE).restores /\ SaveOf(b.listed, FALSE).snap = b.listed
  BY WebhookAssumption DEF SaveOf
<1>4. InStep'
  <2> SUFFICES ASSUME inStep, Restored PROVE AfterRestore' /\ Watched'
    BY <1>1, <1>2 DEF InStep
  <2>1. AfterRestore /\ Watched
    BY DEF FInv, InStep
  <2>2. saves' = {} => b.listed = lastSaved /\ saves = {} /\ bound.listed = b.listed
    BY <1>1, <1>3, <2>1 DEF AfterRestore
  <2>3. AfterRestore'
    BY <1>1, <1>3, <2>1, <2>2 DEF AfterRestore
  <2>4. Watched'
    BY <1>1, <1>3, <2>1, <2>2 DEF Watched
  <2> QED
    BY <2>3, <2>4
<1>5. Wanted'
  <2> SUFFICES ASSUME wanted' # None PROVE inStep' /\ WantedIsFiled' /\ WantedIsListed'
    BY DEF Wanted
  <2>1. /\ Restored /\ saves = {} /\ reading = None /\ Text(file) = bound.listed /\ wanted # None
        /\ wanted' = {p \in wanted : p[1] # key} \cup {p \in b.listed : p[1] = key}
    BY DEF Called, Wants
  <2>2. inStep /\ WantedIsFiled /\ wanted = bound.listed
    BY <2>1 DEF FInv, Wanted, WantedIsFiled
  <2>3. wanted' = b.listed
    BY <2>1, <2>2 DEF Contents, IInv, TypeOK
  <2>4. AfterRestore
    BY <2>1, <2>2 DEF FInv, InStep
  <2>5. saves' = {} => b.listed = bound.listed
    BY <1>1, <1>3, <2>4 DEF AfterRestore
  <2>6. WantedIsFiled'
    BY <1>1, <1>3, <2>1, <2>2, <2>3, <2>5 DEF WantedIsFiled, Text
  <2>7. WantedIsListed'
    BY <1>1, <2>1, <2>3 DEF WantedIsListed
  <2> QED
    BY <1>1, <2>1, <2>2, <2>6, <2>7
<1> QED
  BY <1>1, <1>4, <1>5 DEF FInv

(* The end of the restore: everything in the file is listed, unless something was skipped. *)
LEMMA RestoresFollows ==
  ASSUME IInv, FInv, NEW contents \in Contents, NEW content, Restores(contents, content), ~Restored,
         UNCHANGED lastSaved, ~changed', inStep => saves' = {} /\ lastSaved \in {None, contents},
         content # Missing => file' # Missing,
         file' = Torn /\ inStep => lastSaved = None,
         inStep /\ lastSaved # None => file' = contents,
         wanted # None => Text(file') = contents /\ wanted = contents
  PROVE  FInv'
<1> DEFINE b == Bound(bound, contents)
<1>1. /\ phase' = "running" /\ bound' = b /\ watching' = (content # Missing)
      /\ wanted' = (IF ~(contents \subseteq b.listed) \/ wanted = None THEN None ELSE wanted)
      /\ inStep' = (inStep /\ contents \subseteq b.listed) /\ UNCHANGED reading
  BY DEF Restores, Wants
<1>2. Restored'
  BY <1>1 DEF Restored
<1>3. inStep => BeforeRestore
  BY DEF FInv, InStep
<1>4. b.listed \subseteq bound.listed \cup contents
  BY DEF Bound, IInv, TypeOK
<1>5. inStep' => b.listed = contents
  BY <1>1, <1>3, <1>4 DEF BeforeRestore
<1> HIDE DEF b
<1>6. InStep'
  BY <1>1, <1>2, <1>3, <1>5 DEF InStep, AfterRestore, Watched, BeforeRestore
<1>7. Wanted'
  <2> SUFFICES ASSUME wanted' # None PROVE inStep' /\ WantedIsFiled' /\ WantedIsListed'
    BY DEF Wanted
  <2>1. inStep' /\ wanted' = wanted /\ wanted # None /\ inStep
    BY <1>1 DEF FInv, Wanted
  <2>2. b.listed = wanted /\ reading = None /\ saves' = {}
    BY <1>3, <1>5, <2>1 DEF BeforeRestore
  <2>3. WantedIsFiled' /\ WantedIsListed'
    BY <1>1, <2>1, <2>2 DEF WantedIsFiled, WantedIsListed, Text
  <2> QED
    BY <2>1, <2>3
<1> QED
  BY <1>1, <1>6, <1>7 DEF FInv

(* The file is loaded, or not. *)
LEMMA LoadsFollows ==
  ASSUME IInv, FInv, Loads \/ LoadFails
  PROVE  FInv'
<1>1. phase = "starting" /\ ~Restored /\ ~changed /\ ~watching
  BY DEF Loads, LoadFails, Restored, FInv
<1>2. inStep => bound.listed = {} /\ reading = None /\ saves = {} /\ lastSaved = None
  BY <1>1 DEF FInv, InStep, BeforeRestore
<1>3. wanted # None => inStep /\ Text(file) = wanted
  BY <1>2 DEF FInv, Wanted, WantedIsFiled
<1>4. Text(file) = IF file = Missing THEN {} ELSE file
  BY DEF Text
<1>5. CASE file # Torn /\ Restores(Text(file), file) /\ UNCHANGED <<lastSaved, file, changed, saves>>
  <2> PICK contents : contents = Text(file)
    OBVIOUS
  <2>1. contents \in Contents
    BY <1>4, <1>5 DEF IInv, TypeOK, Contents
  <2>2. Restores(contents, file)
    BY <1>5
  <2>3. Text(file') = Text(file) /\ file' = file
    BY <1>5
  <2> QED
    BY <1>1, <1>2, <1>3, <1>5, <2>1, <2>2, <2>3, RestoresFollows
<1>6. CASE /\ file \notin {Torn, Missing} /\ phase' = "cleaning"
           /\ lastSaved' = file /\ saves' = saves \cup {SaveOf(file, TRUE)}
           /\ UNCHANGED <<registered, bound, pendingError, file, watching, changed, reading, history>>
  <2>1. file \in Contents /\ file # None /\ ~Restored' /\ Text(file) = file
    BY <1>4, <1>6, WebhookAssumption DEF Restored, IInv, TypeOK
  <2>2. SaveOf(file, TRUE).restores /\ SaveOf(file, TRUE).snap = file
    BY DEF SaveOf
  <2>3. InStep'
    BY <1>1, <1>2, <1>6, <2>1, <2>2 DEF InStep, BeforeRestore, history
  <2>4. Wanted'
    BY <1>1, <1>2, <1>3, <1>6, <2>1, <2>2 DEF Wanted, WantedIsFiled, history
  <2> QED
    BY <1>1, <1>6, <2>3, <2>4 DEF FInv
<1>7. CASE file = Torn /\ Restores({}, file) /\ UNCHANGED <<lastSaved, file, changed, saves>>
  <2>1. {} \in Contents
    BY DEF Contents
  <2>2. wanted = None
    BY <1>3, <1>4, <1>7, WebhookAssumption DEF IInv, TypeOK
  <2>3. file' # Missing
    BY <1>7, WebhookAssumption
  <2> QED
    BY <1>1, <1>2, <1>7, <2>1, <2>2, <2>3, RestoresFollows
<1> QED
  BY <1>5, <1>6, <1>7 DEF Loads, LoadFails

(* The file is emptied, and the watcher knows. *)
LEMMA WriteBeginsFollows ==
  ASSUME IInv, FInv, NEW s \in saves, WriteBegins(s)
  PROVE  FInv'
<1> PICK w : w = [s EXCEPT !.at = "write"]
  OBVIOUS
<1>1. /\ file' = Torn /\ changed' = watching /\ saves' = (saves \ {s}) \cup {w}
      /\ UNCHANGED <<phase, bound, lastSaved, watching, reading, wanted, inStep>>
  BY DEF WriteBegins, process, memory, history
<1>2. w.snap = s.snap /\ w.restores = s.restores
  BY DEF IInv, TypeOK
<1>3. saves' # {} /\ saves # {} /\ (Restored' <=> Restored) /\ Torn # Missing
  BY <1>1, WebhookAssumption DEF Restored
<1>4. InStep'
  BY <1>1, <1>2, <1>3 DEF FInv, InStep, BeforeRestore, AfterRestore, Watched, Restored
<1>5. Wanted'
  BY <1>1, <1>2, <1>3 DEF FInv, Wanted, WantedIsFiled, WantedIsListed
<1> QED
  BY <1>1, <1>4, <1>5 DEF FInv

(* It is written, and the watcher knows; the restore that waited for it goes on. *)
LEMMA WriteEndsFollows ==
  ASSUME IInv, FInv, NEW s \in saves, WriteEnds(s)
  PROVE  FInv'
<1>1. /\ s.snap \in Contents /\ file' = s.snap /\ saves' = saves \ {s} /\ changed' = watching
      /\ s.at = "write"
  BY DEF WriteEnds, IInv, TypeOK
<1>2. s.snap \notin {Torn, Missing} /\ Text(s.snap) = s.snap
  BY <1>1, WebhookAssumption DEF Text
<1>3. CASE ~s.restores /\ UNCHANGED <<process, memory, watching, reading, history>>
  <2>1. UNCHANGED <<phase, bound, lastSaved, watching, reading, wanted, inStep>>
    BY <1>3 DEF process, memory, history
  <2>2. Restored' <=> Restored
    BY <2>1 DEF Restored
  <2>3. inStep => Restored
    BY <1>3 DEF FInv, InStep, BeforeRestore, Restored, IInv, TypeOK
  <2>4. InStep'
    BY <1>1, <1>2, <2>1, <2>2, <2>3 DEF FInv, InStep, AfterRestore, Watched
  <2>5. wanted # None => s.snap = wanted /\ bound.listed = wanted
    BY <2>3 DEF FInv, Wanted, WantedIsFiled, WantedIsListed
  <2>6. Wanted'
    BY <1>1, <1>2, <2>1, <2>2, <2>5 DEF FInv, Wanted, WantedIsFiled, WantedIsListed
  <2> QED
    BY <1>1, <2>1, <2>4, <2>6 DEF FInv
<1>4. CASE s.restores /\ Restores(s.snap, file) /\ UNCHANGED lastSaved
  <2>1. inStep => ~Restored
    BY <1>4 DEF FInv, InStep, AfterRestore
  <2>2. CASE inStep
    <3>1. phase = "cleaning" /\ BeforeRestore
      BY <2>1, <2>2 DEF FInv, InStep, BeforeRestore, Restored, IInv, TypeOK
    <3>2. lastSaved = s.snap /\ saves' = {} /\ ~changed'
      BY <1>1, <3>1 DEF BeforeRestore
    <3>3. file' # Missing /\ file' # Torn /\ file' = s.snap
      BY <1>1, <1>2
    <3>4. wanted # None => Text(file') = s.snap /\ wanted = s.snap
      BY <1>1, <1>2 DEF FInv, Wanted, WantedIsFiled
    <3>5. Restores(s.snap, file) /\ lastSaved' = lastSaved /\ ~Restored /\ s.snap \in Contents
      BY <1>1, <1>4, <2>1, <2>2
    <3> PICK contents \in Contents : contents = s.snap
      BY <3>5
    <3> QED
      BY <3>2, <3>3, <3>4, <3>5, RestoresFollows
  <2>3. CASE ~inStep
    <3>1. wanted = None
      BY <2>3 DEF FInv, Wanted
    <3>2. wanted' = None /\ ~inStep' /\ phase' = "running"
      BY <1>4, <2>3, <3>1 DEF Restores, Wants
    <3> QED
      BY <3>2 DEF FInv, InStep, Wanted
  <2> QED
    BY <2>2, <2>3
<1> QED
  BY <1>3, <1>4 DEF WriteEnds

(* Somebody changes the file, and the watcher knows, or watches no more. *)
LEMMA EditFollows ==
  ASSUME IInv, FInv, NEW content \in {Missing} \cup Contents, NEW inPlace \in BOOLEAN, Edit(content, inPlace)
  PROVE  FInv'
<1>1. /\ file' = content /\ changed' = watching /\ watching' = (watching /\ inPlace)
      /\ UNCHANGED <<phase, bound, lastSaved, reading, saves, inStep>>
      /\ content # Torn /\ file # Torn /\ (content = Missing => ~inPlace)
  BY WebhookAssumption DEF Edit, process, memory
<1>2. Restored' <=> Restored
  BY <1>1 DEF Restored
<1>3. InStep'
  BY <1>1, <1>2 DEF FInv, InStep, BeforeRestore, AfterRestore, Watched
<1>4. ASSUME wanted' # None
      PROVE  /\ wanted # None /\ wanted' = content /\ saves = {} /\ reading = None /\ content # Missing
             /\ Restored => watching
  BY <1>4 DEF Edit, Wants
<1>5. content # Missing => Text(content) = content
  BY DEF Text
<1>6. Wanted'
  BY <1>1, <1>2, <1>4, <1>5 DEF FInv, Wanted, WantedIsFiled, WantedIsListed
<1> QED
  BY <1>1, <1>3, <1>6 DEF FInv

(* The file is read: what the watcher knew of is on its way now. *)
LEMMA ReadsFollows ==
  ASSUME IInv, FInv, Reads
  PROVE  FInv'
<1>1. /\ changed /\ reading = None /\ ~changed' /\ reading' = (IF file = Missing THEN None ELSE file)
      /\ UNCHANGED <<phase, bound, lastSaved, file, watching, saves, inStep>> /\ phase = "running"
  BY DEF Reads, process, memory, FInv
<1>2. Restored /\ Restored'
  BY <1>1 DEF Restored
<1>3. InStep'
  BY <1>1, <1>2, WebhookAssumption DEF FInv, InStep, AfterRestore, Watched, IInv, TypeOK
<1>4. ASSUME wanted' # None
      PROVE  wanted # None /\ wanted' = wanted /\ (saves # {} => file \in {Torn, bound.listed})
  BY <1>4 DEF Reads, Wants
<1>5. Wanted'
  <2> SUFFICES ASSUME wanted' # None PROVE inStep' /\ WantedIsFiled' /\ WantedIsListed'
    BY DEF Wanted
  <2>1. inStep /\ WantedIsFiled /\ WantedIsListed
    BY <1>2, <1>4 DEF FInv, Wanted
  <2>2. file # Missing
    BY <1>1, <2>1 DEF WantedIsFiled
  <2>3. saves = {} => file = wanted
    BY <2>1, <2>2 DEF WantedIsFiled, Text
  <2>4. wanted \in Contents
    BY <1>4 DEF IInv, TypeOK
  <2> QED
    BY <1>1, <1>4, <2>1, <2>2, <2>3, <2>4, WebhookAssumption DEF WantedIsFiled, WantedIsListed
<1> QED
  BY <1>1, <1>3, <1>5 DEF FInv

(* The list is made what was read, or the read is an echo of the list. *)
LEMMA SyncsFollows ==
  ASSUME IInv, FInv, Syncs
  PROVE  FInv'
<1> PICK b : b = Unbound(Bound(bound, reading), bound.listed \ reading)
  OBVIOUS
<1>1. reading \in Contents
  BY DEF Syncs, IInv, TypeOK
<1>2. /\ bound' = b /\ lastSaved' = b.listed /\ reading' = None
      /\ UNCHANGED <<phase, file, watching, changed, inStep>>
      /\ \/ b.listed = reading /\ saves' = saves
         \/ saves' = saves \cup {SaveOf(b.listed, FALSE)}
      /\ wanted' = IF b.listed # reading \/ wanted = None THEN None ELSE wanted
  BY DEF Syncs, Persist, Wants, process
<1>3. b.listed \in Contents /\ b.listed # None
  <2>1. Sound(Bound(bound, reading))
    BY <1>1, BoundKeepsSound DEF IInv, TypeOK, BoundIsSound
  <2>2. Sound(b)
    BY <2>1, UnboundKeepsSound DEF IInv, TypeOK
  <2> QED
    BY <2>2, WebhookAssumption DEF Sound
<1>4. ~SaveOf(b.listed, FALSE).restores /\ SaveOf(b.listed, FALSE).snap = b.listed
  BY DEF SaveOf
<1>5. Restored' <=> Restored
  BY <1>2 DEF Restored
<1>6. reading # None /\ reading # Torn
  BY <1>1, WebhookAssumption
<1>7. inStep => Restored
  BY <1>6 DEF FInv, InStep, BeforeRestore
<1>8. InStep'
  BY <1>2, <1>3, <1>4, <1>5, <1>6, <1>7 DEF FInv, InStep, AfterRestore, Watched
<1>9. wanted' # None => reading = wanted /\ b.listed = wanted /\ wanted' = wanted
  BY <1>2, <1>6, <1>7 DEF FInv, Wanted, WantedIsListed
<1>10. Wanted'
  BY <1>2, <1>4, <1>5, <1>9 DEF FInv, Wanted, WantedIsFiled, WantedIsListed
<1> QED
  BY <1>2, <1>8, <1>10 DEF FInv

(* The rest: nothing is listed or filed, until the process ends. *)
LEMMA QuietFollows ==
  ASSUME IInv, FInv,
         \/ Boot \/ SyncSkipped \/ SyncFails \/ Shutdown \/ ProcessEnds
         \/ \E c \in Clients : ClientJoins(c) \/ ClientLeaves(c)
         \/ \E l \in bound.attached \cup bound.leaked : Fires(l)
         \/ UNCHANGED vars
  PROVE  FInv'
<1>1. ASSUME UNCHANGED <<phase, lastSaved, file, watching, changed, reading, saves, wanted, inStep>>,
             bound'.listed = bound.listed
      PROVE  FInv'
  <2>1. Restored' <=> Restored
    BY <1>1 DEF Restored
  <2>2. InStep'
    BY <1>1, <2>1 DEF FInv, InStep, BeforeRestore, AfterRestore, Watched
  <2>3. Wanted'
    BY <1>1, <2>1 DEF FInv, Wanted, WantedIsFiled, WantedIsListed
  <2> QED
    BY <1>1, <2>2, <2>3 DEF FInv
<1>2. CASE Boot
  <2>1. /\ phase = "down" /\ phase' = "starting" /\ ~Restored /\ ~Restored'
        /\ UNCHANGED <<bound, lastSaved, file, watching, changed, reading, saves, wanted, inStep>>
    BY <1>2 DEF Boot, Restored, memory, store, history
  <2> QED
    BY <2>1 DEF FInv, InStep, BeforeRestore, Wanted, WantedIsFiled
<1>3. CASE SyncSkipped
  <2>1. /\ reading \notin {None, Torn} /\ reading = lastSaved /\ reading' = None
        /\ UNCHANGED <<phase, bound, lastSaved, file, watching, changed, saves, wanted, inStep>>
    BY <1>3 DEF SyncSkipped, IsOwn, process, memory, history
  <2>2. (Restored' <=> Restored) /\ (inStep => Restored)
    BY <2>1 DEF Restored, FInv, InStep, BeforeRestore
  <2>3. inStep => reading = bound.listed
    BY <2>1, <2>2 DEF FInv, InStep, AfterRestore
  <2>4. InStep'
    BY <2>1, <2>2, <2>3 DEF FInv, InStep, AfterRestore, Watched
  <2>5. Wanted'
    BY <2>1, <2>2, <2>3 DEF FInv, Wanted, WantedIsFiled, WantedIsListed
  <2> QED
    BY <2>1, <2>4, <2>5 DEF FInv
<1>4. CASE SyncFails
  <2>1. /\ reading = Torn /\ reading' = None /\ Torn # None
        /\ UNCHANGED <<phase, bound, lastSaved, file, watching, changed, saves, wanted, inStep>>
    BY <1>4, WebhookAssumption DEF SyncFails, process, history
  <2>2. (Restored' <=> Restored) /\ (inStep => Restored)
    BY <2>1 DEF Restored, FInv, InStep, BeforeRestore
  <2>3. InStep'
    BY <2>1, <2>2 DEF FInv, InStep, AfterRestore, Watched
  <2>4. Wanted'
    BY <2>1, <2>2 DEF FInv, Wanted, WantedIsFiled, WantedIsListed
  <2> QED
    BY <2>1, <2>3, <2>4 DEF FInv
<1>5. CASE Shutdown
  <2>1. /\ phase = "running" /\ phase' = "stopping" /\ ~watching' /\ ~changed' /\ Restored /\ Restored'
        /\ UNCHANGED <<bound, lastSaved, file, reading, saves, wanted, inStep>>
    BY <1>5 DEF Shutdown, Restored, memory, history
  <2> QED
    BY <2>1 DEF FInv, InStep, AfterRestore, Watched, Wanted, WantedIsFiled, WantedIsListed
<1>6. CASE ProcessEnds
  <2>1. /\ phase' = "down" /\ bound'.listed = {} /\ lastSaved' = None /\ ~watching' /\ ~changed' /\ ~Restored'
        /\ reading' = None /\ saves' = {} /\ inStep' /\ file' = file
        /\ wanted' = IF saves # {} \/ wanted = None THEN None ELSE wanted
    BY <1>6 DEF ProcessEnds, Restored, NothingBound, Wants
  <2>2. InStep'
    BY <2>1 DEF InStep, BeforeRestore
  <2>3. Wanted'
    BY <2>1 DEF FInv, Wanted, WantedIsFiled
  <2> QED
    BY <2>1, <2>2, <2>3 DEF FInv
<1>7. ASSUME NEW c \in Clients, ClientJoins(c) \/ ClientLeaves(c)
      PROVE  FInv'
  <2>1. UNCHANGED <<phase, lastSaved, file, watching, changed, reading, saves, wanted, inStep>>
    BY <1>7 DEF ClientJoins, ClientLeaves, memory, store, history
  <2>2. bound'.listed = bound.listed
    BY <1>7 DEF ClientJoins, ClientLeaves, memory, IInv, TypeOK
  <2> QED
    BY <1>1, <2>1, <2>2
<1>8. ASSUME NEW l \in bound.attached \cup bound.leaked, Fires(l)
      PROVE  FInv'
  <2>1. UNCHANGED <<phase, lastSaved, file, watching, changed, reading, saves, wanted, inStep>>
    BY <1>8 DEF Fires, process, store, history
  <2>2. bound'.listed = bound.listed
    BY <1>8 DEF Fires, IInv, TypeOK
  <2> QED
    BY <1>1, <2>1, <2>2
<1>9. CASE UNCHANGED vars
  BY <1>1, <1>9 DEF vars, process, memory, store, history
<1> QED
  BY <1>2, <1>3, <1>4, <1>5, <1>6, <1>7, <1>8, <1>9

(* The file and the list go on following each other. *)
THEOREM FollowsInvariance == Spec => [](IInv /\ FInv)
<1>1. Init => FInv
  <2> SUFFICES ASSUME Init PROVE FInv
    OBVIOUS
  <2>1. phase = "down" /\ ~Restored /\ wanted = Text(file) /\ inStep /\ bound.listed = {}
    BY DEF Init, Restored, NothingBound
  <2> QED
    BY <2>1 DEF Init, FInv, InStep, BeforeRestore, Wanted, WantedIsFiled
<1>2. IInv /\ FInv /\ [Next]_vars => FInv'
  BY CallFollows, LoadsFollows, WriteBeginsFollows, WriteEndsFollows, EditFollows, ReadsFollows, SyncsFollows,
     QuietFollows DEF Next
<1>3. QED
  BY <1>1, <1>2, BindingsInvariance, PTL DEF Spec

(* BindingsSurvive: the file has what the calls and edits asked for whenever the process *)
(* is down, and the list has it once it runs (persistState, onApplicationBootstrap).     *)
THEOREM BindingsOutlive == Spec => []BindingsSurvive
<1>1. IInv /\ FInv => BindingsSurvive
  <2> SUFFICES ASSUME IInv, FInv, wanted # None
               PROVE  /\ phase = "down" => Text(file) = wanted
                      /\ phase = "running" /\ ~changed /\ reading = None => bound.listed = wanted
    BY DEF BindingsSurvive
  <2> QED
    BY DEF FInv, Wanted, WantedIsFiled, WantedIsListed, InStep, BeforeRestore, Restored
<1>2. QED
  BY <1>1, FollowsInvariance, PTL

(* FileFollows: when nothing is on its way, the watched file and the list agree, however *)
(* saves, edits and the echoes of saves have met (persistState, syncFromState).          *)
THEOREM FileIsFollowed == Spec => []FileFollows
<1>1. FInv => FileFollows
  BY DEF FInv, InStep, Watched, Restored, FileFollows
<1>2. QED
  BY <1>1, FollowsInvariance, PTL
=============================================================================
