------------------------- MODULE ClientManagerProofs -------------------------
(***************************************************************************)
(* What holds of the manager for any number of clients, adapters and calls *)
(* in flight.                                                              *)
(***************************************************************************)
EXTENDS ClientManager, TLAPS

Task == [job : Job, leg : Leg, at : At, name : Names \cup {Absent}, config : Configs \cup {Absent},
         adapter : Adapters \cup {Absent}, snap : Contents, gone : SUBSET Names,
         wanted : Contents, todo : SUBSET Names]

\* The calls there are: what each method can be inside of, and await there.
WellFormed(k) ==
  /\ k.job = "none" => k = Idle
  /\ k.leg = "none"    => k.job \in {"none", "restore"} /\ k.at \in {"none", "load"}
                            /\ k.gone = {} /\ k.todo = {}
  /\ k.leg # "none"    => k.job # "none" /\ k.name \in Names
  /\ k.leg = "create"  => k.job \in {"create", "update", "restore", "sync"} /\ k.config \in Configs
                            /\ k.at \in {"save", "write", "init", "returned", "threw"} /\ k.gone = {}
  /\ k.leg = "destroy" => k.job \in {"destroy", "update", "sync"}
                            /\ k.at \in {"stop", "save", "write", "returned"}
  /\ k.leg = "prefix"  => k.job = "prefix" /\ k.at \in {"save", "write", "returned"}
  /\ k.job \in {"create", "destroy", "prefix", "update"} =>
       k.leg # "none" /\ k.gone = {} /\ k.todo = {}
  /\ k.job = "restore" => k.gone = {}
  /\ k.job \in {"restore", "sync"} /\ k.leg = "create" => k.at \notin {"save", "write"}
  /\ k.job = "update" => k.config \in Configs
  /\ \A n \in k.todo : k.wanted[n] # Absent
  /\ k.gone \cap k.todo = {}

\* What was told to stop does not run, whoever else is created meanwhile.
StoppedStays == \A t \in Slots : tasks[t].at = "stop" => tasks[t].adapter \notin running

CallsSound ==
  /\ reg \in [Names -> Adapters \cup {Absent}] /\ disposers \in [Names -> Adapters \cup {Absent}]
  /\ running \subseteq Adapters /\ persisted \in Contents /\ disturbed \in BOOLEAN
  /\ tasks \in [Slots -> Task] /\ \A t \in Slots : WellFormed(tasks[t])
  /\ StoppedStays /\ NoOrphans

\* A process starts with nothing, and restores once before it watches.
StartsClean ==
  /\ phase = "down" => running = {} /\ \A t \in Slots : tasks[t] = Idle
  /\ \A t, u \in Slots : tasks[t].job = "restore" /\ tasks[u].job = "restore" => t = u
  /\ phase \notin {"loading", "restoring"} => \A t \in Slots : tasks[t].job # "restore"
  /\ phase \in {"down", "loading", "restoring"} => ~watching /\ ~changed

Sound ==
  /\ phase \in {"down", "loading", "restoring", "running", "stopping"} /\ restoring \in BOOLEAN
  /\ file \in Contents \cup {Torn} /\ watching \in BOOLEAN /\ changed \in BOOLEAN
  /\ owed \subseteq Names
  /\ CallsSound /\ StartsClean

-----------------------------------------------------------------------------
(* What a call is, and what the calls are when one of them goes on. *)

\* What is proved inductively is what the runs check, and more.
LEMMA SoundIsSound == Sound => RegistryIsSound
BY DEF Sound, CallsSound, RegistryIsSound, TypeOK, Task

\* The empty map.
LEMMA NothingIsHeld == Nothing \in Contents /\ \A n \in Names : Nothing[n] = Absent
BY DEF Nothing, Contents

\* A free slot is a well-formed call.
LEMMA IdleIsCall == Idle \in Task /\ WellFormed(Idle)
BY NothingIsHeld, ManagerAssumption DEF Idle, Task, WellFormed, Job, Leg, At

\* A call as it may go into createClient, and into destroyClient.
Creates(task)  == task \in Task /\ WellFormed([task EXCEPT !.leg = "create", !.at = "returned"])
Destroys(task) == task \in Task /\ WellFormed([task EXCEPT !.leg = "destroy", !.at = "returned"])

\* What createClient makes of a call up to its first await: k is the call then.
Created(t, k, task, quietly, kept, bad) ==
  /\ WellFormed(k) /\ Put(t, k) /\ persisted' \in Contents
  /\ k.leg = "create" /\ k.job = task.job /\ k.name = task.name /\ k.config = task.config
  /\ k.gone = task.gone /\ k.todo = task.todo /\ k.adapter = task.adapter
  /\ k.wanted = task.wanted
  /\ \/ /\ reg[k.name] # Absent /\ k.at = "returned" /\ persisted' = kept /\ Notes(bad)
        /\ UNCHANGED <<reg, disposers, running>>
     \/ /\ k.at = "threw" /\ persisted' = kept /\ Notes(TRUE)
        /\ UNCHANGED <<reg, disposers, running>>
     \/ \E a \in Adapters :
          /\ Forgotten(a) /\ reg[k.name] = Absent
          /\ reg' = [reg EXCEPT ![k.name] = a]
          /\ disposers' = [disposers EXCEPT ![k.name] = a]
          /\ running' = running \cup {a}
          /\ \/ /\ ~quietly /\ k.at = "save" /\ k.snap = persisted'
                /\ persisted' = [kept EXCEPT ![k.name] = k.config]
                /\ Notes(bad \/ PersistDisturbs(t))
             \/ /\ quietly /\ k.at = "init" /\ persisted' = kept
                /\ Notes(bad \/ k.job \notin {"restore", "sync"})

\* What destroyClient makes of it.
Destroyed(t, k, task) ==
  /\ WellFormed(k) /\ Put(t, k)
  /\ k.leg = "destroy" /\ k.job = task.job /\ k.name = task.name /\ k.config = task.config
  /\ k.gone = task.gone /\ k.todo = task.todo /\ k.snap = task.snap /\ k.wanted = task.wanted
  /\ \/ reg[k.name] = Absent /\ k.at = "returned" /\ k.adapter = task.adapter /\ UNCHANGED running
     \/ reg[k.name] # Absent /\ k.at = "stop" /\ k.adapter = reg[k.name]
          /\ running' = running \ {reg[k.name]}

(* createClient leaves the call inside of it: returned, thrown, saving or initializing. *)
LEMMA CreateCases ==
  ASSUME NEW t, NEW task, Creates(task), NEW quietly \in BOOLEAN, NEW kept \in Contents, NEW bad,
         task.job \in {"restore", "sync"} => quietly,
         Create(t, task, quietly, kept, bad)
  PROVE  \E k \in Task : Created(t, k, task, quietly, kept, bad)
<1> DEFINE With(at, snap) == [task EXCEPT !.leg = "create", !.at = at, !.snap = snap]
<1> DEFINE Is(k) == /\ k \in Task /\ k.leg = "create" /\ k.job = task.job /\ k.name = task.name
                    /\ k.config = task.config /\ k.gone = task.gone /\ k.todo = task.todo
                    /\ k.adapter = task.adapter /\ k.wanted = task.wanted
<1> USE DEF Creates
<1>1. task.name \in Names /\ task.config \in Configs
  BY DEF WellFormed, Task
<1>2. ASSUME NEW at \in {"save", "init", "returned", "threw"}, NEW snap \in Contents,
             at = "save" => task.job \notin {"restore", "sync"}
      PROVE  /\ Is(With(at, snap)) /\ With(at, snap).at = at /\ With(at, snap).snap = snap
             /\ WellFormed(With(at, snap))
  BY <1>2 DEF WellFormed, Task, Leg, At
<1>3. task.snap \in Contents
  BY DEF Task
<1>4. ASSUME NEW at \in At
      PROVE  [[task EXCEPT !.leg = "create"] EXCEPT !.at = at] = With(at, task.snap)
  BY DEF Task
<1>5. "returned" \in At /\ "threw" \in At /\ "init" \in At /\ "save" \in At
  BY DEF At
<1>6. /\ [[task EXCEPT !.leg = "create"] EXCEPT !.at = "returned"] = With("returned", task.snap)
       /\ [[task EXCEPT !.leg = "create"] EXCEPT !.at = "threw"] = With("threw", task.snap)
       /\ [[task EXCEPT !.leg = "create"] EXCEPT !.at = "init"] = With("init", task.snap)
       /\ \A c : [[task EXCEPT !.leg = "create"] EXCEPT !.at = "save", !.snap = c] = With("save", c)
  BY <1>4, <1>5 DEF Task
<1> HIDE DEF With
<1>7. CASE reg[task.name] # Absent /\ Put(t, With("returned", task.snap)) /\ Notes(bad) /\ persisted' = kept
           /\ UNCHANGED <<reg, disposers, running>>
  <2>1. PICK k : k = With("returned", task.snap)
    OBVIOUS
  <2>2. Is(k) /\ k.at = "returned" /\ WellFormed(k) /\ Put(t, k)
    BY <1>2, <1>3, <1>7, <2>1
  <2> QED
    BY <1>7, <2>2 DEF Created
<1>8. CASE Put(t, With("threw", task.snap)) /\ Notes(TRUE) /\ persisted' = kept
           /\ UNCHANGED <<reg, disposers, running>>
  <2>1. PICK k : k = With("threw", task.snap)
    OBVIOUS
  <2>2. Is(k) /\ k.at = "threw" /\ WellFormed(k) /\ Put(t, k)
    BY <1>2, <1>3, <1>8, <2>1
  <2> QED
    BY <1>8, <2>2 DEF Created
<1>9. ASSUME NEW a \in Adapters, Forgotten(a), reg[task.name] = Absent,
             reg' = [reg EXCEPT ![task.name] = a],
             disposers' = [disposers EXCEPT ![task.name] = a],
             running' = running \cup {a}, ~quietly,
             Persist(t, [task EXCEPT !.leg = "create"], [kept EXCEPT ![task.name] = task.config]),
             Notes(bad \/ PersistDisturbs(t))
      PROVE  \E k \in Task : WellFormed(k) /\ Put(t, k) /\ persisted' \in Contents /\ Is(k)
               /\ k.at = "save" /\ k.snap = persisted' /\ persisted' = [kept EXCEPT ![k.name] = k.config]
  <2> DEFINE contents == [kept EXCEPT ![task.name] = task.config]
  <2>1. contents \in Contents
    BY <1>1 DEF Contents
  <2>2. Put(t, With("save", contents)) /\ persisted' = contents
    BY <1>9, <1>6 DEF Persist
  <2>3. PICK k : k = With("save", contents)
    OBVIOUS
  <2>4. task.job \notin {"restore", "sync"}
    BY <1>9
  <2>5. Is(k) /\ k.at = "save" /\ k.snap = contents /\ WellFormed(k)
    BY <1>2, <2>1, <2>3, <2>4
  <2>6. Put(t, k) /\ k.name = task.name /\ k.config = task.config
    BY <2>2, <2>3, <2>5
  <2> QED
    BY <2>1, <2>2, <2>5, <2>6
<1>10. CASE \E a \in Adapters :
             /\ Forgotten(a) /\ reg[task.name] = Absent
             /\ reg' = [reg EXCEPT ![task.name] = a]
             /\ disposers' = [disposers EXCEPT ![task.name] = a]
             /\ running' = running \cup {a}
             /\ quietly /\ Put(t, With("init", task.snap))
             /\ Notes(bad \/ task.job \notin {"restore", "sync"}) /\ persisted' = kept
  <2>1. PICK k : k = With("init", task.snap)
    OBVIOUS
  <2>2. Is(k) /\ k.at = "init" /\ WellFormed(k) /\ Put(t, k)
    BY <1>2, <1>3, <1>10, <2>1
  <2> QED
    BY <1>10, <2>2 DEF Created
<1> QED
  <2>1. \/ reg[task.name] # Absent /\ Put(t, With("returned", task.snap)) /\ Notes(bad) /\ persisted' = kept
             /\ UNCHANGED <<reg, disposers, running>>
        \/ Put(t, With("threw", task.snap)) /\ Notes(TRUE) /\ persisted' = kept
             /\ UNCHANGED <<reg, disposers, running>>
        \/ \E a \in Adapters :
             /\ Forgotten(a) /\ reg[task.name] = Absent
             /\ reg' = [reg EXCEPT ![task.name] = a]
             /\ disposers' = [disposers EXCEPT ![task.name] = a]
             /\ running' = running \cup {a}
             /\ \/ /\ ~quietly
                   /\ Persist(t, [task EXCEPT !.leg = "create"], [kept EXCEPT ![task.name] = task.config])
                   /\ Notes(bad \/ PersistDisturbs(t))
                \/ /\ quietly /\ Put(t, With("init", task.snap))
                   /\ Notes(bad \/ task.job \notin {"restore", "sync"}) /\ persisted' = kept
    BY <1>6 DEF Create
  <2>2. CASE \E a \in Adapters :
             /\ Forgotten(a) /\ reg[task.name] = Absent
             /\ reg' = [reg EXCEPT ![task.name] = a]
             /\ disposers' = [disposers EXCEPT ![task.name] = a]
             /\ running' = running \cup {a} /\ ~quietly
             /\ Persist(t, [task EXCEPT !.leg = "create"], [kept EXCEPT ![task.name] = task.config])
             /\ Notes(bad \/ PersistDisturbs(t))
    <3>1. PICK a \in Adapters :
             /\ Forgotten(a) /\ reg[task.name] = Absent
             /\ reg' = [reg EXCEPT ![task.name] = a]
             /\ disposers' = [disposers EXCEPT ![task.name] = a]
             /\ running' = running \cup {a} /\ ~quietly
             /\ Persist(t, [task EXCEPT !.leg = "create"], [kept EXCEPT ![task.name] = task.config])
             /\ Notes(bad \/ PersistDisturbs(t))
      BY <2>2
    <3>2. PICK k \in Task : WellFormed(k) /\ Put(t, k) /\ persisted' \in Contents /\ Is(k)
               /\ k.at = "save" /\ k.snap = persisted' /\ persisted' = [kept EXCEPT ![k.name] = k.config]
      BY <1>9, <3>1
    <3> QED
      BY <3>1, <3>2 DEF Created
  <2> QED
    BY <1>7, <1>8, <1>10, <2>1, <2>2

(* destroyClient leaves the call inside of it: returned, or stopping the adapter. *)
LEMMA DestroyCases ==
  ASSUME NEW t, NEW task, Destroys(task),
         reg \in [Names -> Adapters \cup {Absent}],
         Destroy(t, task)
  PROVE  \E k \in Task : Destroyed(t, k, task)
<1> DEFINE With(at, adapter) == [task EXCEPT !.leg = "destroy", !.at = at, !.adapter = adapter]
<1> USE DEF Destroys
<1>1. task.name \in Names
  BY DEF WellFormed, Task
<1>2. task.adapter \in Adapters \cup {Absent} /\ reg[task.name] \in Adapters \cup {Absent}
  BY <1>1 DEF Task
<1>3. ASSUME NEW at \in {"stop", "returned"}, NEW adapter \in Adapters \cup {Absent}
      PROVE  LET k == With(at, adapter) IN
             /\ k \in Task /\ k.leg = "destroy" /\ k.job = task.job /\ k.name = task.name
             /\ k.config = task.config /\ k.gone = task.gone /\ k.todo = task.todo /\ k.snap = task.snap
             /\ k.wanted = task.wanted
             /\ k.at = at /\ k.adapter = adapter /\ WellFormed(k)
  BY <1>3 DEF WellFormed, Task, Leg, At
<1>4. \/ reg[task.name] = Absent /\ Put(t, With("returned", task.adapter)) /\ UNCHANGED running
      \/ reg[task.name] # Absent /\ Put(t, With("stop", reg[task.name])) /\ running' = running \ {reg[task.name]}
  BY DEF Destroy, Task
<1> HIDE DEF With
<1>5. CASE reg[task.name] = Absent /\ Put(t, With("returned", task.adapter)) /\ UNCHANGED running
  <2>1. PICK k : k = With("returned", task.adapter)
    OBVIOUS
  <2> QED
    BY <1>2, <1>3, <1>5, <2>1 DEF Destroyed
<1>6. CASE reg[task.name] # Absent /\ Put(t, With("stop", reg[task.name])) /\ running' = running \ {reg[task.name]}
  <2>1. PICK k : k = With("stop", reg[task.name])
    OBVIOUS
  <2> QED
    BY <1>2, <1>3, <1>6, <2>1 DEF Destroyed
<1> QED
  BY <1>4, <1>5, <1>6

(* One call goes on, the others stay as they are. *)
LEMMA CallGoesOn ==
  ASSUME tasks \in [Slots -> Task], NEW t \in Slots, NEW k \in Task, Put(t, k)
  PROVE  /\ tasks' \in [Slots -> Task] /\ tasks'[t] = k
         /\ \A u \in Slots : u # t => tasks'[u] = tasks[u]
BY DEF Put

(* A call that goes on without stopping an adapter leaves the calls sound, when what is
   registered, or neither that nor what runs, does not change. *)
LEMMA PutKeepsSound ==
  ASSUME CallsSound, NEW t \in Slots, NEW k \in Task, Put(t, k), WellFormed(k), k.at # "stop",
         UNCHANGED <<reg, disposers, running>>, persisted' \in Contents, disturbed' \in BOOLEAN,
         Serving' => Serving, disturbed => disturbed'
  PROVE  CallsSound'
<1>1. /\ tasks' \in [Slots -> Task] /\ tasks'[t] = k
      /\ \A u \in Slots : u # t => tasks'[u] = tasks[u]
  BY CallGoesOn DEF CallsSound
<1>2. \A u \in Slots : WellFormed(tasks'[u])
  BY <1>1 DEF CallsSound
<1>3. StoppedStays'
  BY <1>1 DEF CallsSound, StoppedStays
<1>4. NoOrphans'
  BY DEF CallsSound, NoOrphans
<1> QED
  BY <1>1, <1>2, <1>3, <1>4 DEF CallsSound

\* createClient, of whatever call, keeps the calls sound.
LEMMA CreateKeepsSound ==
  ASSUME CallsSound, NEW t \in Slots, NEW task, Creates(task), NEW quietly \in BOOLEAN,
         NEW kept \in Contents, NEW bad \in BOOLEAN,
         task.job \in {"restore", "sync"} => quietly,
         Create(t, task, quietly, kept, bad), Serving' => Serving
  PROVE  CallsSound' /\ tasks'[t].job = task.job /\ \A u \in Slots : u # t => tasks'[u] = tasks[u]
<1>1. PICK k \in Task :
           /\ WellFormed(k) /\ Put(t, k) /\ persisted' \in Contents
           /\ k.leg = "create" /\ k.job = task.job
           /\ \/ UNCHANGED <<reg, disposers, running>> /\ k.at # "stop" /\ (Notes(bad) \/ Notes(TRUE))
              \/ \E a \in Adapters :
                   /\ Forgotten(a) /\ reg[k.name] = Absent
                   /\ reg' = [reg EXCEPT ![k.name] = a]
                   /\ disposers' = [disposers EXCEPT ![k.name] = a]
                   /\ running' = running \cup {a}
                   /\ k.at # "stop"
                   /\ \/ Notes(bad \/ PersistDisturbs(t)) \/ Notes(bad \/ k.job \notin {"restore", "sync"})
  <2>1. PICK k \in Task : Created(t, k, task, quietly, kept, bad)
    BY CreateCases
  <2> QED
    BY <2>1 DEF Created
<1>2. disturbed' \in BOOLEAN /\ (disturbed => disturbed')
  BY <1>1 DEF Notes, CallsSound, PersistDisturbs, Saving
<1>3. /\ tasks' \in [Slots -> Task] /\ tasks'[t] = k
      /\ \A u \in Slots : u # t => tasks'[u] = tasks[u]
  BY <1>1, CallGoesOn DEF CallsSound
<1>4. CASE UNCHANGED <<reg, disposers, running>> /\ k.at # "stop"
  BY <1>1, <1>2, <1>3, <1>4, PutKeepsSound
<1>5. ASSUME NEW a \in Adapters, Forgotten(a), reg[k.name] = Absent,
             reg' = [reg EXCEPT ![k.name] = a], disposers' = [disposers EXCEPT ![k.name] = a],
             running' = running \cup {a}, k.at # "stop"
      PROVE  CallsSound'
  <2>1. k.name \in Names /\ reg \in [Names -> Adapters \cup {Absent}] /\ disposers \in [Names -> Adapters \cup {Absent}]
        /\ running \subseteq Adapters
    BY <1>1 DEF WellFormed, CallsSound
  <2>2. reg' \in [Names -> Adapters \cup {Absent}] /\ disposers' \in [Names -> Adapters \cup {Absent}]
        /\ running' \subseteq Adapters
    BY <1>5, <2>1
  <2>3. \A u \in Slots : WellFormed(tasks'[u])
    BY <1>1, <1>3 DEF CallsSound
  <2>4. StoppedStays'
    BY <1>3, <1>5 DEF CallsSound, StoppedStays, Forgotten
  <2>5. NoOrphans'
    <3> SUFFICES ASSUME Serving', ~disturbed', NEW b \in running'
                 PROVE  \E n \in Names : b = reg'[n]
      BY DEF NoOrphans
    <3>1. CASE b = a
      BY <1>5, <2>1, <3>1
    <3>2. CASE b \in running
      <4>1. PICK n \in Names : b = reg[n]
        BY <1>2, <3>2 DEF CallsSound, NoOrphans
      <4>2. n # k.name
        BY <1>5, <2>1, <3>2, <4>1, ManagerAssumption
      <4> QED
        BY <1>5, <2>1, <4>1, <4>2
    <3> QED
      BY <1>5, <3>1, <3>2
  <2> QED
    BY <1>1, <1>2, <1>3, <2>2, <2>3, <2>4, <2>5 DEF CallsSound
<1> QED
  BY <1>1, <1>3, <1>4, <1>5

\* destroyClient up to its first await does too: what it tells to stop runs no more.
LEMMA DestroyKeepsSound ==
  ASSUME CallsSound, NEW t \in Slots, NEW task, Destroys(task),
         Destroy(t, task), UNCHANGED <<reg, disposers>>, persisted' \in Contents,
         disturbed' \in BOOLEAN, disturbed => disturbed', Serving' => Serving
  PROVE  CallsSound' /\ tasks'[t].job = task.job /\ \A u \in Slots : u # t => tasks'[u] = tasks[u]
<1>1. PICK k \in Task : Destroyed(t, k, task)
  BY DestroyCases DEF CallsSound
<1>2. /\ tasks' \in [Slots -> Task] /\ tasks'[t] = k
      /\ \A u \in Slots : u # t => tasks'[u] = tasks[u]
  BY <1>1, CallGoesOn DEF CallsSound, Destroyed
<1>3. running' \subseteq running /\ (k.at = "stop" => k.adapter \notin running')
  BY <1>1 DEF Destroyed
<1>4. \A u \in Slots : WellFormed(tasks'[u])
  BY <1>1, <1>2 DEF CallsSound, Destroyed
<1>5. StoppedStays'
  BY <1>1, <1>2, <1>3 DEF CallsSound, StoppedStays, Destroyed
<1>6. NoOrphans'
  BY <1>3 DEF CallsSound, NoOrphans
<1> QED
  BY <1>1, <1>2, <1>3, <1>4, <1>5, <1>6 DEF CallsSound, Destroyed
-----------------------------------------------------------------------------
(* The loops of the restore and of the sync. *)

Taken(task, n)   == [task EXCEPT !.name = n, !.config = task.wanted[n], !.todo = @ \ {n}]
Dropped(task, n) == [task EXCEPT !.name = n, !.gone = @ \ {n}]

Restores(task) ==
  /\ task \in Task /\ task.job = "restore" /\ task.gone = {}
  /\ \A n \in task.todo : task.wanted[n] # Absent

Syncs(task) ==
  /\ task \in Task /\ task.job = "sync" /\ task.gone \cap task.todo = {}
  /\ \A n \in task.todo : task.wanted[n] # Absent

\* The next client of a loop is one that can be created, or destroyed.
LEMMA LoopsGoOn ==
  ASSUME NEW task, Restores(task) \/ Syncs(task)
  PROVE  /\ \A n \in task.todo : task.gone = {} =>
              /\ Creates(Taken(task, n)) /\ Taken(task, n).job = task.job
              /\ Taken(task, n).name = n /\ Taken(task, n).config = task.wanted[n]
              /\ Taken(task, n).todo = task.todo \ {n} /\ Taken(task, n).gone = {}
              /\ Taken(task, n).wanted = task.wanted
         /\ \A n \in task.gone :
              /\ Destroys(Dropped(task, n)) /\ Dropped(task, n).job = task.job
              /\ Dropped(task, n).name = n /\ Dropped(task, n).gone = task.gone \ {n}
              /\ Dropped(task, n).todo = task.todo /\ Dropped(task, n).wanted = task.wanted
<1> USE DEF Restores, Syncs
<1>1. task \in Task /\ task.job \in {"restore", "sync"}
  OBVIOUS
<1>2. ASSUME NEW n \in task.todo, task.gone = {}
      PROVE  /\ Creates(Taken(task, n)) /\ Taken(task, n).job = task.job
             /\ Taken(task, n).name = n /\ Taken(task, n).config = task.wanted[n]
             /\ Taken(task, n).todo = task.todo \ {n} /\ Taken(task, n).gone = {}
             /\ Taken(task, n).wanted = task.wanted
  <2>1. n \in Names /\ task.wanted[n] \in Configs
    BY <1>1, <1>2 DEF Task, Contents
  <2>2. Taken(task, n) \in Task /\ Taken(task, n).job = task.job /\ Taken(task, n).name = n
        /\ Taken(task, n).config = task.wanted[n] /\ Taken(task, n).todo = task.todo \ {n}
        /\ Taken(task, n).gone = {} /\ Taken(task, n).wanted = task.wanted
    BY <1>1, <1>2, <2>1 DEF Task, Taken
  <2>3. PICK k : k = Taken(task, n)
    OBVIOUS
  <2>4. WellFormed([k EXCEPT !.leg = "create", !.at = "returned"])
    BY <1>1, <2>1, <2>2, <2>3 DEF WellFormed, Task
  <2> QED
    BY <2>2, <2>3, <2>4 DEF Creates
<1>3. ASSUME NEW n \in task.gone
      PROVE  /\ Destroys(Dropped(task, n)) /\ Dropped(task, n).job = task.job
             /\ Dropped(task, n).name = n /\ Dropped(task, n).gone = task.gone \ {n}
             /\ Dropped(task, n).todo = task.todo /\ Dropped(task, n).wanted = task.wanted
  <2>1. n \in Names /\ task.job = "sync"
    BY <1>1, <1>3 DEF Task
  <2>2. Dropped(task, n) \in Task /\ Dropped(task, n).job = task.job /\ Dropped(task, n).name = n
        /\ Dropped(task, n).gone = task.gone \ {n} /\ Dropped(task, n).todo = task.todo
        /\ Dropped(task, n).wanted = task.wanted
    BY <1>1, <1>3, <2>1 DEF Task, Dropped
  <2>3. PICK k : k = Dropped(task, n)
    OBVIOUS
  <2>4. WellFormed([k EXCEPT !.leg = "destroy", !.at = "returned"])
    BY <1>1, <2>1, <2>2, <2>3 DEF WellFormed, Task
  <2> QED
    BY <2>2, <2>3, <2>4 DEF Destroys
<1> QED
  BY <1>2, <1>3

\* What a loop leaves behind is a map of clients.
LEMMA KeptIsContents ==
  ASSUME CallsSound, NEW t \in Slots
  PROVE  Kept(tasks[t]) \in Contents
BY DEF CallsSound, Kept, Contents, WellFormed, Task

\* A call the users make can be created, or destroyed.
LEMMA CallsAreMade ==
  ASSUME NEW n \in Names, NEW c \in Configs
  PROVE  /\ Creates(Call("create", n, c)) /\ Call("create", n, c).job = "create"
         /\ Call("create", n, c).name = n /\ Call("create", n, c).config = c
         /\ Call("create", n, c).todo = {} /\ Call("create", n, c).gone = {}
         /\ Destroys(Call("update", n, c)) /\ Call("update", n, c).job = "update"
         /\ Call("update", n, c).name = n
         /\ Call("update", n, c).todo = {} /\ Call("update", n, c).gone = {}
<1>1. /\ Call("create", n, c) \in Task /\ Call("create", n, c).job = "create"
      /\ Call("create", n, c).name = n /\ Call("create", n, c).config = c
      /\ Call("create", n, c).todo = {} /\ Call("create", n, c).gone = {}
  BY NothingIsHeld DEF Call, Idle, Task, Job, Leg, At
<1>2. /\ Call("update", n, c) \in Task /\ Call("update", n, c).job = "update"
      /\ Call("update", n, c).name = n /\ Call("update", n, c).config = c
      /\ Call("update", n, c).todo = {} /\ Call("update", n, c).gone = {}
  BY NothingIsHeld DEF Call, Idle, Task, Job, Leg, At
<1>3. PICK k : k = Call("create", n, c)
  OBVIOUS
<1>4. WellFormed([k EXCEPT !.leg = "create", !.at = "returned"])
  BY <1>1, <1>3 DEF WellFormed, Task
<1>5. PICK u : u = Call("update", n, c)
  OBVIOUS
<1>6. WellFormed([u EXCEPT !.leg = "destroy", !.at = "returned"])
  BY <1>2, <1>5 DEF WellFormed, Task
<1> QED
  BY <1>1, <1>2, <1>3, <1>4, <1>5, <1>6 DEF Creates, Destroys

\* A call the users make to destroy a client is well-formed.
LEMMA DestroyIsMade ==
  ASSUME NEW n \in Names
  PROVE  /\ Destroys(Call("destroy", n, Absent)) /\ Call("destroy", n, Absent).job = "destroy"
         /\ Call("destroy", n, Absent).name = n
         /\ Call("destroy", n, Absent).todo = {} /\ Call("destroy", n, Absent).gone = {}
<1>1. /\ Call("destroy", n, Absent) \in Task /\ Call("destroy", n, Absent).job = "destroy"
      /\ Call("destroy", n, Absent).name = n
      /\ Call("destroy", n, Absent).todo = {} /\ Call("destroy", n, Absent).gone = {}
  BY NothingIsHeld DEF Call, Idle, Task, Job, Leg, At
<1>2. PICK k : k = Call("destroy", n, Absent)
  OBVIOUS
<1>3. WellFormed([k EXCEPT !.leg = "destroy", !.at = "returned"])
  BY <1>1, <1>2 DEF WellFormed, Task
<1> QED
  BY <1>1, <1>2, <1>3 DEF Destroys
-----------------------------------------------------------------------------
(* The registry stays sound. *)

\* A process that was not started is sound.
LEMMA InitSound == Init => Sound
<1> SUFFICES ASSUME Init PROVE Sound
  OBVIOUS
<1>1. reg \in [Names -> Adapters \cup {Absent}] /\ disposers \in [Names -> Adapters \cup {Absent}]
      /\ persisted \in Contents
  BY NothingIsHeld DEF Init, Nothing
<1>2. tasks \in [Slots -> Task] /\ \A t \in Slots : tasks[t] = Idle /\ WellFormed(tasks[t])
  BY IdleIsCall DEF Init
<1>3. StoppedStays /\ NoOrphans
  BY DEF Init, StoppedStays, NoOrphans, Serving
<1>4. CallsSound
  BY <1>1, <1>2, <1>3 DEF Init, CallsSound
<1>5. StartsClean
  BY <1>2 DEF Init, StartsClean, Idle
<1> QED
  BY <1>4, <1>5 DEF Sound, Init, Held

\* The restore goes on to the next client, or ends.
LEMMA RestoreKeepsSound ==
  ASSUME Sound, NEW t \in Slots, tasks[t].job = "restore", NEW task, Restores(task),
         NEW kept \in Contents, RestoreRuns(t, task, kept), UNCHANGED <<file, changed, owed>>
  PROVE  Sound'
<1> USE DEF Sound
<1>1. phase \in {"loading", "restoring"} /\ ~watching /\ ~changed
      /\ \A u \in Slots : u # t => tasks[u].job # "restore"
  BY DEF StartsClean
<1>2. ASSUME NEW n \in task.todo, Create(t, Taken(task, n), TRUE, kept, FALSE),
             phase' = "restoring", restoring' = TRUE, UNCHANGED watching
      PROVE  Sound'
  <2>1. Creates(Taken(task, n)) /\ Taken(task, n).job = "restore"
    BY LoopsGoOn DEF Restores
  <2>2. Serving' => Serving
    BY <1>1 DEF Serving
  <2>3. CallsSound' /\ tasks'[t].job = "restore" /\ \A u \in Slots : u # t => tasks'[u] = tasks[u]
    <3> PICK made : made = Taken(task, n)
      OBVIOUS
    <3> QED
      BY <1>2, <2>1, <2>2, CreateKeepsSound
  <2>4. StartsClean'
    BY <1>1, <1>2, <2>3 DEF StartsClean
  <2> QED
    BY <1>2, <2>3, <2>4
<1>3. CASE /\ phase' = "running" /\ restoring' = FALSE /\ watching' \in BOOLEAN
           /\ Put(t, Idle) /\ persisted' = kept /\ Notes(FALSE)
           /\ UNCHANGED <<reg, disposers, running>>
  <2>1. CallsSound'
    BY <1>1, <1>3, IdleIsCall, PutKeepsSound DEF Notes, CallsSound, Serving, Idle
  <2>2. \A u \in Slots : tasks'[u].job # "restore"
    BY <1>1, <1>3, IdleIsCall, CallGoesOn DEF CallsSound, Idle
  <2>3. StartsClean'
    BY <1>3, <2>2 DEF StartsClean
  <2> QED
    BY <1>3, <2>1, <2>3
<1> QED
  BY <1>2, <1>3 DEF RestoreRuns, Taken

\* The sync goes on to the next client, or ends.
LEMMA SyncKeepsSound ==
  ASSUME Sound, NEW t \in Slots, tasks[t].job # "restore", phase # "down", NEW task, Syncs(task),
         NEW kept \in Contents, NEW bad \in BOOLEAN, SyncRuns(t, task, kept, bad),
         UNCHANGED <<phase, file, watching, owed>>, changed' \in BOOLEAN, changed' => changed
  PROVE  Sound'
<1> USE DEF Sound
<1>1. ASSUME CallsSound', restoring' \in BOOLEAN, tasks'[t].job # "restore",
             \A u \in Slots : u # t => tasks'[u] = tasks[u]
      PROVE  Sound'
  BY <1>1 DEF StartsClean
<1>2. ASSUME NEW n \in task.gone, Destroy(t, Dropped(task, n)), persisted' = kept, Notes(bad),
             UNCHANGED <<restoring, reg, disposers>>
      PROVE  Sound'
  <2>1. Destroys(Dropped(task, n)) /\ Dropped(task, n).job = "sync"
    BY LoopsGoOn DEF Syncs
  <2>2. CallsSound' /\ tasks'[t].job = "sync" /\ \A u \in Slots : u # t => tasks'[u] = tasks[u]
    <3> PICK made : made = Dropped(task, n)
      OBVIOUS
    <3> QED
      BY <1>2, <2>1, DestroyKeepsSound DEF Notes, CallsSound, Serving
  <2> QED
    BY <1>1, <1>2, <2>2
<1>3. ASSUME NEW n \in task.todo, task.gone = {}, restoring' = TRUE,
             Create(t, Taken(task, n), TRUE, kept, bad)
      PROVE  Sound'
  <2>1. Creates(Taken(task, n)) /\ Taken(task, n).job = "sync"
    BY <1>3, LoopsGoOn DEF Syncs
  <2>2. CallsSound' /\ tasks'[t].job = "sync" /\ \A u \in Slots : u # t => tasks'[u] = tasks[u]
    <3> PICK made : made = Taken(task, n)
      OBVIOUS
    <3> QED
      BY <1>3, <2>1, CreateKeepsSound DEF Serving
  <2> QED
    BY <1>1, <1>3, <2>2
<1>4. CASE /\ Put(t, Idle) /\ restoring' = (restoring /\ task.leg # "create")
           /\ persisted' = kept /\ Notes(bad) /\ UNCHANGED <<reg, disposers, running>>
  <2>1. CallsSound'
    BY <1>4, IdleIsCall, PutKeepsSound DEF Notes, CallsSound, Serving, Idle
  <2>2. tasks'[t].job # "restore" /\ \A u \in Slots : u # t => tasks'[u] = tasks[u]
    BY <1>4, IdleIsCall, CallGoesOn DEF CallsSound, Idle
  <2> QED
    BY <1>1, <1>4, <2>1, <2>2
<1> QED
  BY <1>2, <1>3, <1>4 DEF SyncRuns, Taken, Dropped

\* A call that goes on, and neither begins nor ends a restore.
LEMMA CallKeepsSound ==
  ASSUME Sound, NEW t \in Slots, NEW k \in Task, Put(t, k), WellFormed(k), k.at # "stop",
         k.job = "restore" => tasks[t].job = "restore", phase # "down",
         UNCHANGED <<phase, restoring, reg, disposers, running, watching>>, persisted' \in Contents,
         disturbed' \in BOOLEAN, disturbed => disturbed', file' \in Contents \cup {Torn},
         changed' \in BOOLEAN, changed' => watching \/ changed, owed' \subseteq Names
  PROVE  Sound'
<1> USE DEF Sound
<1>1. CallsSound'
  BY PutKeepsSound DEF Serving
<1>2. /\ tasks'[t] = k /\ \A u \in Slots : u # t => tasks'[u] = tasks[u]
  BY CallGoesOn DEF CallsSound
<1>3. StartsClean'
  BY <1>2 DEF StartsClean
<1> QED
  BY <1>1, <1>3
(* Where a call may be when it is saved, has initialized, or has returned. *)
LEMMA SavedIsCall ==
  ASSUME NEW task \in Task, WellFormed(task), task.at \in {"save", "write"}
  PROVE  /\ AfterSave(task) \in Task /\ WellFormed(AfterSave(task))
         /\ AfterSave(task).at = (IF task.leg = "create" THEN "init" ELSE "returned")
         /\ AfterSave(task).job = task.job /\ AfterSave(task).leg = task.leg
         /\ AfterSave(task).name = task.name /\ AfterSave(task).gone = task.gone
         /\ AfterSave(task).todo = task.todo /\ AfterSave(task).wanted = task.wanted
<1> PICK k : k = AfterSave(task)
  OBVIOUS
<1>1. /\ k \in Task /\ k.at = (IF task.leg = "create" THEN "init" ELSE "returned")
      /\ k.job = task.job /\ k.leg = task.leg /\ k.name = task.name /\ k.gone = task.gone
      /\ k.config = task.config /\ k.todo = task.todo /\ k.wanted = task.wanted
  BY NothingIsHeld DEF AfterSave, Task, At
<1>2. WellFormed(k)
  BY <1>1 DEF WellFormed
<1> QED
  BY <1>1, <1>2

\* Only a restore loads, and only a call inside destroyClient stops an adapter.
LEMMA CallsAreInside ==
  ASSUME NEW task \in Task, WellFormed(task)
  PROVE  /\ task.at = "load" => task.job = "restore" /\ task.gone = {}
         /\ task.at = "stop" => task.leg = "destroy" /\ task.name \in Names
BY DEF Task, WellFormed, Leg, Idle

\* A call whose await goes on by itself stays well-formed.
LEMMA AwaitedIsCall ==
  ASSUME NEW task \in Task, WellFormed(task), NEW at,
         \/ task.at = "save" /\ at = "write"
         \/ task.at = "init" /\ at = "returned"
  PROVE  LET k == [task EXCEPT !.at = at] IN
         /\ k \in Task /\ WellFormed(k) /\ k.at = at /\ k.job = task.job /\ k.leg = task.leg
         /\ k.name = task.name /\ k.gone = task.gone /\ k.todo = task.todo /\ k.snap = task.snap
         /\ k.wanted = task.wanted
BY DEF WellFormed, Task, At

\* What destroyClient makes of a call once the adapter has stopped.
Forgets(t, k) ==
  LET n == tasks[t].name IN
  /\ WellFormed(k) /\ Put(t, k) /\ persisted' \in Contents /\ n \in Names
  /\ tasks[t].leg = "destroy" /\ tasks[t].at = "stop"
  /\ k.leg = "destroy" /\ k.job = tasks[t].job /\ k.name = n
  /\ k.gone = tasks[t].gone /\ k.todo = tasks[t].todo /\ k.wanted = tasks[t].wanted
  /\ \/ /\ persisted[n] # Absent /\ k.at = "save"
        /\ persisted' = [persisted EXCEPT ![n] = Absent] /\ k.snap = persisted'
     \/ /\ persisted[n] = Absent /\ k.at = "returned" /\ UNCHANGED persisted

\* destroyClient once the adapter was stopped: the client was kept, and the map is saved, or not.
LEMMA DestroyEndsCases ==
  ASSUME tasks \in [Slots -> Task], NEW t \in Slots, WellFormed(tasks[t]), persisted \in Contents, DestroyEnds(t)
  PROVE  \E k \in Task : Forgets(t, k)
<1> DEFINE n == tasks[t].name
           call == [tasks[t] EXCEPT !.adapter = Absent]
<1>1. tasks[t] \in Task /\ n \in Names /\ tasks[t].leg = "destroy" /\ tasks[t].at = "stop"
  BY CallsAreInside DEF DestroyEnds
<1>2. CASE persisted[n] # Absent /\ Persist(t, call, [persisted EXCEPT ![n] = Absent])
  <2> DEFINE contents == [persisted EXCEPT ![n] = Absent]
             k == [call EXCEPT !.at = "save", !.snap = contents]
  <2>1. contents \in Contents
    BY DEF Contents
  <2>2. /\ k \in Task /\ k.at = "save" /\ k.job = tasks[t].job /\ WellFormed(k) /\ k.snap = contents
        /\ k.leg = "destroy" /\ k.name = n
        /\ k.gone = tasks[t].gone /\ k.todo = tasks[t].todo /\ k.wanted = tasks[t].wanted
    BY <1>1, <2>1 DEF Task, At, WellFormed
  <2>3. Put(t, k) /\ persisted' = contents
    BY <1>2 DEF Persist
  <2> HIDE DEF k, contents
  <2>4. persisted' = [persisted EXCEPT ![n] = Absent]
    BY <2>3 DEF contents
  <2> QED
    BY <1>1, <1>2, <2>1, <2>2, <2>3, <2>4 DEF Forgets
<1>3. CASE persisted[n] = Absent /\ Put(t, [call EXCEPT !.at = "returned"]) /\ UNCHANGED persisted
  <2> DEFINE k == [call EXCEPT !.at = "returned"]
  <2>1. /\ k \in Task /\ k.at = "returned" /\ k.job = tasks[t].job /\ WellFormed(k)
        /\ k.leg = "destroy" /\ k.name = n
        /\ k.gone = tasks[t].gone /\ k.todo = tasks[t].todo /\ k.wanted = tasks[t].wanted
    BY <1>1 DEF Task, At, WellFormed
  <2> HIDE DEF k
  <2>2. Put(t, k)
    BY <1>3 DEF k
  <2> QED
    BY <1>1, <1>3, <2>1, <2>2 DEF Forgets
<1> QED
  BY <1>2, <1>3 DEF DestroyEnds

\* A client is forgotten once its adapter has stopped: what is registered by then under
\* its name is that adapter, or the interleaving is noted.
LEMMA DestroyEndsKeepsSound ==
  ASSUME Sound, NEW t \in Slots, DestroyEnds(t)
  PROVE  Sound'
<1> USE DEF Sound
<1> DEFINE n == tasks[t].name
           call == [tasks[t] EXCEPT !.adapter = Absent]
<1>1. tasks[t] \in Task /\ WellFormed(tasks[t]) /\ n \in Names /\ tasks[t].leg = "destroy"
      /\ tasks[t].at = "stop"
  BY CallsAreInside DEF CallsSound, DestroyEnds
<1>2. \E k \in Task : Put(t, k) /\ WellFormed(k) /\ k.at # "stop" /\ k.job = tasks[t].job /\ persisted' \in Contents
  BY DestroyEndsCases DEF CallsSound, Forgets
<1>3. /\ tasks' \in [Slots -> Task] /\ \A u \in Slots : WellFormed(tasks'[u])
      /\ tasks'[t].job = tasks[t].job /\ tasks'[t].at # "stop"
      /\ \A u \in Slots : u # t => tasks'[u] = tasks[u]
  BY <1>2, CallGoesOn DEF CallsSound
<1>4. disturbed' \in BOOLEAN /\ (~disturbed' => ~disturbed /\ reg[n] = tasks[t].adapter)
      /\ persisted' \in Contents
      /\ reg' = [reg EXCEPT ![n] = Absent] /\ disposers' = [disposers EXCEPT ![n] = Absent]
      /\ UNCHANGED <<phase, restoring, running, file, watching, changed, owed>>
  BY <1>2 DEF DestroyEnds, Notes, CallsSound, store
<1>5. StoppedStays'
  BY <1>3, <1>4 DEF CallsSound, StoppedStays
<1>6. NoOrphans'
  BY <1>1, <1>4 DEF CallsSound, StoppedStays, NoOrphans, Serving
<1>7. CallsSound'
  BY <1>3, <1>4, <1>5, <1>6 DEF CallsSound
<1>8. phase # "down"
  BY <1>1 DEF StartsClean, Idle
<1>9. StartsClean'
  BY <1>3, <1>4, <1>8 DEF StartsClean
<1> QED
  BY <1>4, <1>7, <1>9

(* What was disturbed stays disturbed. *)
LEMMA DisturbedStays == [Next]_vars /\ disturbed => disturbed'
<1> SUFFICES ASSUME [Next]_vars, disturbed, ~disturbed' PROVE FALSE
  OBVIOUS
<1> USE DEF Notes
<1>1. ASSUME NEW t, NEW task, NEW quietly, NEW kept, NEW bad PROVE ~Create(t, task, quietly, kept, bad)
  BY DEF Create
<1>2. ASSUME NEW t, NEW task, NEW kept PROVE ~RestoreRuns(t, task, kept)
  BY <1>1 DEF RestoreRuns
<1>3. ASSUME NEW t, NEW task, NEW kept, NEW bad PROVE ~SyncRuns(t, task, kept, bad)
  BY <1>1 DEF SyncRuns
<1>4. ASSUME NEW t \in Slots
      PROVE  /\ ~Boot(t) /\ ~LoadFails(t) /\ ~LoadsNothing(t) /\ ~WriteBegins(t) /\ ~WriteEnds(t)
             /\ ~SaveFails(t) /\ ~InitializeEnds(t) /\ ~DestroyEnds(t) /\ ~CallReturns(t)
  BY DEF Boot, LoadFails, LoadsNothing, WriteBegins, WriteEnds, SaveFails, InitializeEnds, DestroyEnds,
         CallReturns
<1>5. ASSUME NEW t \in Slots PROVE ~Loads(t) /\ ~RestoreGoesOn(t)
  BY <1>2 DEF Loads, RestoreGoesOn
<1>6. ASSUME NEW t \in Slots PROVE ~SyncStarts(t) /\ ~SyncGoesOn(t)
  BY <1>3 DEF SyncStarts, SyncGoesOn
<1>7. ASSUME NEW t \in Slots PROVE ~UpdateGoesOn(t)
  BY <1>1 DEF UpdateGoesOn
<1>8. ASSUME NEW t \in Slots, NEW n \in Names, NEW c \in Configs
      PROVE  ~CreateCalled(t, n, c) /\ ~UpdateCalled(t, n, c) /\ ~PrefixCalled(t, n, c) /\ ~DestroyCalled(t, n)
  BY <1>1 DEF CreateCalled, UpdateCalled, PrefixCalled, DestroyCalled
<1>9. ASSUME NEW t \in Slots, NEW n \in Names PROVE ~DestroyCalled(t, n)
  BY DEF DestroyCalled
<1>10. ~Shutdown /\ ~ProcessEnds /\ ~UNCHANGED vars
  BY DEF Shutdown, ProcessEnds, vars
<1>11. \A contents \in Contents : ~Edit(contents)
  BY DEF Edit
<1>12. \A n \in Names : ~Unregisters(n)
  BY DEF Unregisters
<1> QED
  BY <1>4, <1>5, <1>6, <1>7, <1>8, <1>9, <1>10, <1>11, <1>12 DEF Next

\* No step of any call, edit, shutdown or crash leaves the manager unsound.
THEOREM StepKeepsSound == Sound /\ [Next]_vars => Sound'
<1> SUFFICES ASSUME Sound, [Next]_vars PROVE Sound'
  OBVIOUS
<1> USE DEF Sound
<1>1. ASSUME NEW t \in Slots
      PROVE  tasks[t] \in Task /\ WellFormed(tasks[t]) /\ (tasks[t] # Idle => phase # "down")
  BY DEF CallsSound, StartsClean
<1>2. /\ reg \in [Names -> Adapters \cup {Absent}] /\ disposers \in [Names -> Adapters \cup {Absent}]
      /\ running \subseteq Adapters /\ persisted \in Contents /\ disturbed \in BOOLEAN
  BY DEF CallsSound
<1>3. Idle.job = "none" /\ Idle.at = "none" /\ Idle.leg = "none"
  BY DEF Idle
<1>4. ASSUME NEW t \in Slots, Boot(t) PROVE Sound'
  <2> DEFINE k == [Idle EXCEPT !.job = "restore", !.at = "load"]
  <2>1. k \in Task /\ WellFormed(k) /\ k.at = "load" /\ k.job = "restore"
    BY IdleIsCall DEF Task, WellFormed, Job, At, Leg, Idle
  <2>2. tasks' \in [Slots -> Task] /\ tasks'[t] = k /\ \A u \in Slots : u # t => tasks'[u] = Idle
    BY <1>4, <2>1, CallGoesOn DEF Boot, CallsSound, StartsClean
  <2>3. /\ phase' = "loading" /\ running = {} /\ ~watching /\ ~changed
        /\ UNCHANGED <<restoring, reg, disposers, running, persisted, file, watching, changed, owed, disturbed>>
    BY <1>4 DEF Boot, StartsClean, memory, store
  <2>4. \A u \in Slots : WellFormed(tasks'[u]) /\ tasks'[u].at # "stop"
    BY <1>3, <2>1, <2>2, IdleIsCall
  <2>5. StoppedStays' /\ NoOrphans'
    BY <2>3, <2>4 DEF StoppedStays, NoOrphans
  <2>6. CallsSound'
    BY <1>2, <2>2, <2>3, <2>4, <2>5 DEF CallsSound
  <2>7. StartsClean'
    <3>1. phase' = "loading" /\ ~watching' /\ ~changed'
      BY <2>3
    <3>2. \A u \in Slots : tasks'[u].job = "restore" => u = t
      BY <1>3, <2>2
    <3> QED
      BY <3>1, <3>2 DEF StartsClean
  <2> QED
    BY <2>3, <2>6, <2>7
<1>5. ASSUME NEW t \in Slots, tasks[t].at = "load"
      PROVE  tasks[t].job = "restore" /\ tasks[t].gone = {} /\ phase \in {"loading", "restoring"}
  BY <1>1, <1>5, CallsAreInside DEF StartsClean
<1>6. ASSUME NEW t \in Slots, tasks[t].at = "load", phase' = "running", watching' \in BOOLEAN,
             Put(t, Idle), Notes(TRUE), UNCHANGED <<memory, file, changed, owed>>
      PROVE  Sound'
  <2>1. tasks[t].job = "restore" /\ phase \in {"loading", "restoring"}
    BY <1>5, <1>6
  <2>2. CallsSound'
    BY <1>2, <1>3, <1>6, <2>1, IdleIsCall, PutKeepsSound DEF Notes, Serving, memory
  <2>3. \A u \in Slots : tasks'[u].job # "restore"
    BY <1>3, <1>6, <2>1, IdleIsCall, CallGoesOn DEF CallsSound, StartsClean
  <2>4. StartsClean'
    BY <1>6, <2>3 DEF StartsClean
  <2> QED
    BY <1>6, <2>2, <2>4 DEF memory
<1>7. ASSUME NEW t \in Slots, LoadFails(t) PROVE Sound'
  BY <1>6, <1>7 DEF LoadFails, store
<1>8. ASSUME NEW t \in Slots, LoadsNothing(t) PROVE Sound'
  BY <1>6, <1>8 DEF LoadsNothing
<1>9. ASSUME NEW t \in Slots, Loads(t) PROVE Sound'
  <2> DEFINE task == [tasks[t] EXCEPT !.wanted = file, !.todo = Held(file)]
  <2>1. tasks[t] \in Task /\ tasks[t].job = "restore" /\ tasks[t].gone = {} /\ file \in Contents
    BY <1>1, <1>5, <1>9 DEF Loads
  <2>2. Restores(task)
    BY <2>1 DEF Restores, Task, Held
  <2> HIDE DEF task
  <2>3. RestoreRuns(t, task, persisted)
    BY <1>9 DEF Loads, task
  <2> QED
    BY <1>2, <1>9, <2>1, <2>2, <2>3, RestoreKeepsSound DEF Loads
<1>10. ASSUME NEW t \in Slots, RestoreGoesOn(t) PROVE Sound'
  <2>1. Restores(tasks[t]) /\ tasks[t].job = "restore"
    BY <1>1, <1>10 DEF RestoreGoesOn, Returned, Restores, WellFormed
  <2> QED
    BY <1>10, <2>1, KeptIsContents, RestoreKeepsSound DEF RestoreGoesOn
<1>11. ASSUME NEW t \in Slots, SyncStarts(t) PROVE Sound'
  <2>1. tasks[t] = Idle /\ changed /\ ~changed' /\ phase # "down"
        /\ UNCHANGED <<phase, file, watching, owed>>
    BY <1>11 DEF SyncStarts, StartsClean
  <2>2. CASE UNCHANGED <<memory, tasks, disturbed>>
    <3>1. CallsSound'
      BY <2>1, <2>2 DEF CallsSound, memory, StoppedStays, NoOrphans, Serving
    <3> QED
      BY <1>11, <2>1, <2>2, <3>1 DEF StartsClean, memory, SyncStarts
  <2>3. CASE file # Torn
             /\ SyncRuns(t, [Idle EXCEPT !.job = "sync", !.wanted = file,
                                         !.gone = Held(persisted) \ Held(file),
                                         !.todo = Held(file)], persisted, Stale(t))
    <3> DEFINE task == [Idle EXCEPT !.job = "sync", !.wanted = file,
                                    !.gone = Held(persisted) \ Held(file), !.todo = Held(file)]
    <3>1. Syncs(task)
      BY <2>3, IdleIsCall DEF Syncs, Idle, Task, Held, Job
    <3>2. Stale(t) \in BOOLEAN
      BY DEF Stale
    <3> HIDE DEF task
    <3>3. SyncRuns(t, task, persisted, Stale(t))
      BY <2>3 DEF task
    <3>4. changed' \in BOOLEAN /\ changed' => changed
      BY <2>1, <1>11 DEF SyncStarts
    <3>5. changed' \in BOOLEAN
      BY <1>11 DEF SyncStarts
    <3> QED
      BY <1>2, <1>3, <2>1, <3>1, <3>2, <3>3, <3>4, <3>5, SyncKeepsSound
  <2> QED
    BY <1>11, <2>2, <2>3 DEF SyncStarts
<1>12. ASSUME NEW t \in Slots, SyncGoesOn(t) PROVE Sound'
  <2>1. Syncs(tasks[t]) /\ tasks[t].job # "restore" /\ phase # "down"
    BY <1>1, <1>3, <1>12 DEF SyncGoesOn, Returned, Syncs, WellFormed
  <2> QED
    BY <1>12, <2>1, KeptIsContents, SyncKeepsSound DEF SyncGoesOn, store
<1>13. ASSUME NEW t \in Slots, WriteBegins(t) PROVE Sound'
  <2> PICK k : k = [tasks[t] EXCEPT !.at = "write"]
    OBVIOUS
  <2>1. k \in Task /\ WellFormed(k) /\ k.at = "write" /\ k.job = tasks[t].job /\ Put(t, k) /\ phase # "down"
    BY <1>1, <1>3, <1>13, AwaitedIsCall DEF WriteBegins
  <2> QED
    BY <1>2, <1>13, <2>1, CallKeepsSound DEF WriteBegins, memory
<1>14. ASSUME NEW t \in Slots, tasks[t].at \in {"save", "write"}
       PROVE  /\ AfterSave(tasks[t]) \in Task /\ WellFormed(AfterSave(tasks[t])) /\ phase # "down"
              /\ AfterSave(tasks[t]).at # "stop" /\ AfterSave(tasks[t]).job = tasks[t].job
  BY <1>1, <1>3, <1>14, SavedIsCall
<1>15. ASSUME NEW t \in Slots, WriteEnds(t) PROVE Sound'
  <2>1. /\ tasks[t].at \in {"save", "write"} /\ tasks[t].snap \in Contents
        /\ (tasks[t].job = "create" => tasks[t].name \in Names)
    BY <1>1, <1>15 DEF WriteEnds, Task, WellFormed
  <2> QED
    BY <1>2, <1>14, <1>15, <2>1, CallKeepsSound DEF WriteEnds, memory
<1>16. ASSUME NEW t \in Slots, SaveFails(t) PROVE Sound'
  BY <1>2, <1>14, <1>16, CallKeepsSound DEF SaveFails, memory, store, Notes
<1>17. ASSUME NEW t \in Slots, InitializeEnds(t) PROVE Sound'
  <2> PICK k : k = [tasks[t] EXCEPT !.at = "returned"]
    OBVIOUS
  <2>1. k \in Task /\ WellFormed(k) /\ k.at = "returned" /\ k.job = tasks[t].job /\ Put(t, k) /\ phase # "down"
    BY <1>1, <1>3, <1>17, AwaitedIsCall DEF InitializeEnds
  <2> QED
    BY <1>2, <1>17, <2>1, CallKeepsSound DEF InitializeEnds, memory, store
<1>18. ASSUME NEW t \in Slots, DestroyEnds(t) PROVE Sound'
  BY <1>18, DestroyEndsKeepsSound
<1>19. ASSUME CallsSound', NEW t \in Slots, tasks'[t].job # "restore",
             \A u \in Slots : u # t => tasks'[u] = tasks[u], phase # "down",
             UNCHANGED <<phase, restoring, store>>, owed' \subseteq Names
       PROVE  Sound'
  BY <1>19 DEF StartsClean, store
<1>20. ASSUME NEW t \in Slots, UpdateGoesOn(t) PROVE Sound'
  <2> PICK task : task = tasks[t]
    OBVIOUS
  <2>1. Creates(task) /\ task.job = "update"
    BY <1>1, <1>20 DEF UpdateGoesOn, Creates, WellFormed, Task
  <2>2. CallsSound' /\ tasks'[t].job = "update" /\ \A u \in Slots : u # t => tasks'[u] = tasks[u]
    BY <1>2, <1>20, <2>1, CreateKeepsSound DEF UpdateGoesOn, Serving
  <2> QED
    BY <1>1, <1>3, <1>19, <1>20, <2>1, <2>2 DEF UpdateGoesOn
<1>21. ASSUME NEW t \in Slots, CallReturns(t) PROVE Sound'
  BY <1>1, <1>2, <1>3, <1>21, IdleIsCall, CallKeepsSound DEF CallReturns, memory, store
<1>22. ASSUME NEW t \in Slots, NEW n \in Names, DestroyCalled(t, n) PROVE Sound'
  <2> PICK task : task = Call("destroy", n, Absent)
    OBVIOUS
  <2>1. Destroys(task) /\ task.job = "destroy" /\ Destroy(t, task)
    BY <1>22, DestroyIsMade DEF DestroyCalled
  <2>2. CallsSound' /\ tasks'[t].job = "destroy" /\ \A u \in Slots : u # t => tasks'[u] = tasks[u]
    BY <1>2, <1>22, <2>1, DestroyKeepsSound DEF DestroyCalled, Serving, Notes, Contended
  <2> QED
    BY <1>19, <1>22, <2>2 DEF DestroyCalled, Serving
<1>23. ASSUME NEW t \in Slots, NEW n \in Names, NEW c \in Configs, CreateCalled(t, n, c) PROVE Sound'
  <2> PICK task : task = Call("create", n, c)
    OBVIOUS
  <2>1. Creates(task) /\ task.job = "create" /\ Create(t, task, restoring, persisted, Contended(t, n))
    BY <1>23, CallsAreMade DEF CreateCalled
  <2>2. Contended(t, n) \in BOOLEAN
    BY DEF Contended
  <2>3. CallsSound' /\ tasks'[t].job = "create" /\ \A u \in Slots : u # t => tasks'[u] = tasks[u]
    BY <1>2, <1>23, <2>1, <2>2, CreateKeepsSound DEF CreateCalled, Serving
  <2> QED
    BY <1>19, <1>23, <2>3 DEF CreateCalled, Serving
<1>24. ASSUME NEW t \in Slots, NEW n \in Names, NEW c \in Configs, UpdateCalled(t, n, c) PROVE Sound'
  <2> PICK task : task = Call("update", n, c)
    OBVIOUS
  <2>1. Destroys(task) /\ task.job = "update" /\ Destroy(t, task)
    BY <1>24, CallsAreMade DEF UpdateCalled
  <2>2. CallsSound' /\ tasks'[t].job = "update" /\ \A u \in Slots : u # t => tasks'[u] = tasks[u]
    BY <1>2, <1>24, <2>1, DestroyKeepsSound DEF UpdateCalled, Serving, Notes, Contended
  <2> QED
    BY <1>19, <1>24, <2>2 DEF UpdateCalled, Serving
<1>25. ASSUME NEW t \in Slots, NEW n \in Names, NEW c \in Configs, PrefixCalled(t, n, c) PROVE Sound'
  <2>1. CASE UNCHANGED <<persisted, tasks, disturbed>>
    <3>1. CallsSound'
      BY <1>25, <2>1 DEF PrefixCalled, CallsSound, StoppedStays, NoOrphans, Serving
    <3> QED
      BY <1>25, <2>1, <3>1 DEF PrefixCalled, StartsClean, store
  <2>2. CASE /\ Persist(t, [Call("prefix", n, c) EXCEPT !.leg = "prefix"], [persisted EXCEPT ![n] = c])
             /\ Notes(PersistDisturbs(t))
    <3> DEFINE contents == [persisted EXCEPT ![n] = c]
               k == [Call("prefix", n, c) EXCEPT !.leg = "prefix", !.at = "save", !.snap = contents]
    <3>1. contents \in Contents
      BY <1>2 DEF Contents
    <3>2. k \in Task /\ k.job = "prefix" /\ k.leg = "prefix" /\ k.at = "save" /\ k.name = n /\ k.gone = {} /\ k.todo = {}
      BY <3>1, NothingIsHeld DEF Call, Idle, Task, Job, Leg, At
    <3>3. WellFormed(k)
      BY <3>2 DEF WellFormed
    <3>4. Put(t, k) /\ persisted' = contents
      BY <2>2 DEF Persist, Call, Idle
    <3> HIDE DEF k, contents
    <3>5. disturbed' \in BOOLEAN /\ (disturbed => disturbed') /\ phase # "down"
      BY <1>2, <1>25, <2>2 DEF Notes, PersistDisturbs, Saving, PrefixCalled, Serving
    <3> QED
      BY <1>2, <1>25, <3>1, <3>2, <3>3, <3>4, <3>5, CallKeepsSound DEF PrefixCalled, store
  <2> QED
    BY <1>25, <2>1, <2>2 DEF PrefixCalled
<1>26. ASSUME NEW contents \in Contents, Edit(contents) PROVE Sound'
  <2>1. CallsSound'
    BY <1>26 DEF Edit, CallsSound, StoppedStays, NoOrphans, Serving, memory, Notes
  <2> QED
    BY <1>26, <2>1 DEF Edit, StartsClean, memory, Held
<1>27. ASSUME NEW n \in Names, Unregisters(n) PROVE Sound'
  <2>1. CallsSound'
    BY <1>27 DEF Unregisters, CallsSound, StoppedStays, NoOrphans, Serving
  <2> QED
    BY <1>27, <2>1 DEF Unregisters, StartsClean, store
<1>28. CASE Shutdown
  <2>1. CallsSound'
    BY <1>28 DEF Shutdown, CallsSound, StoppedStays, NoOrphans, Serving
  <2> QED
    BY <1>28, <2>1 DEF Shutdown, StartsClean
<1>29. CASE ProcessEnds
  <2>1. tasks' \in [Slots -> Task] /\ \A u \in Slots : tasks'[u] = Idle /\ WellFormed(tasks'[u])
    BY <1>29, IdleIsCall DEF ProcessEnds
  <2>2. StoppedStays' /\ NoOrphans'
    BY <1>29 DEF ProcessEnds, StoppedStays, NoOrphans
  <2>3. CallsSound'
    BY <1>2, <1>29, <2>1, <2>2, NothingIsHeld DEF ProcessEnds, CallsSound, Notes, Nothing
  <2>4. StartsClean'
    BY <1>3, <1>29, <2>1 DEF ProcessEnds, StartsClean
  <2> QED
    BY <1>29, <2>3, <2>4 DEF ProcessEnds
<1>30. CASE UNCHANGED vars
  <2>1. CallsSound'
    BY <1>30 DEF vars, memory, CallsSound, StoppedStays, NoOrphans, Serving
  <2> QED
    BY <1>30, <2>1 DEF vars, memory, store, StartsClean
<1> QED
  BY <1>4, <1>7, <1>8, <1>9, <1>10, <1>11, <1>12, <1>13, <1>15, <1>16, <1>17, <1>18, <1>20, <1>21,
     <1>22, <1>23, <1>24, <1>25, <1>26, <1>27, <1>28, <1>29, <1>30 DEF Next

\* The registry is sound, and knows every adapter that runs.
THEOREM RegistryStaysSound == Spec => []RegistryIsSound
<1>1. Spec => []Sound
  BY InitSound, StepKeepsSound, PTL DEF Spec
<1> QED
  BY <1>1, SoundIsSound, PTL
-----------------------------------------------------------------------------
(* What is owed is kept.  Nothing the code is not written for has happened, so the calls
   in flight save one at a time, and are about different clients where it matters. *)

Saves(k)   == k.at \in {"save", "write"}
Loops(k)   == k.job \in {"restore", "sync"}
Stops(k)   == k.leg = "destroy" /\ k.at = "stop"
\* The clients a call is about to take out of the file for good.
Removes(k) == k.gone \cup {n \in {k.name} : k.job # "update" /\ Stops(k)}
\* An update whose client is not in the file again.
Remakes(k) == k.job = "update" /\ ~(k.leg = "create" /\ k.at \in {"init", "returned"})
Remade     == {tasks[t].name : t \in {u \in Slots : Remakes(tasks[u])}}

NobodySaves == \A t \in Slots : ~Saves(tasks[t])

\* Two calls are about different clients where it matters.
CallsApart ==
  /\ \A t, u \in Slots : Saves(tasks[t]) /\ Saves(tasks[u]) => t = u
  /\ \A t, u \in Slots : Loops(tasks[t]) /\ Loops(tasks[u]) => t = u
  /\ \A t \in Slots : tasks[t].at # "threw"
  /\ \A t, u \in Slots : t # u =>
       /\ tasks[u].job = "create" /\ Saves(tasks[u]) => tasks[u].name \notin Removes(tasks[t])
       /\ Remakes(tasks[u]) => tasks[u].name \notin tasks[t].todo
       /\ Remakes(tasks[u]) /\ Remakes(tasks[t]) => tasks[t].name # tasks[u].name

\* Until the restore is over nobody saves, and before it begins nothing is there.
StartsEmpty ==
  /\ \A t \in Slots : tasks[t].job = "restore" => (tasks[t].at = "load" <=> phase = "loading")
  /\ phase \in {"loading", "restoring"} => NobodySaves
  /\ phase \in {"down", "loading"} =>
       /\ reg = Nothing
       /\ \A t \in Slots : tasks[t].at \in {"none", "load", "returned"}
                           /\ tasks[t].job \in {"none", "restore", "destroy"}

RemadeIsGone ==
  \A t \in Slots :
    tasks[t].job = "update" /\ tasks[t].leg = "destroy" /\ tasks[t].at # "stop" => reg[tasks[t].name] = Absent

\* The file, or what is about to become it, has what is owed.
FileKeeps ==
  /\ file = Torn /\ phase \notin {"down", "loading"} => \E t \in Slots : tasks[t].at = "write"
  /\ file # Torn => owed \ Remade \subseteq Held(file)
  /\ \A t \in Slots : Saves(tasks[t]) =>
       /\ owed \ Remade \subseteq Held(tasks[t].snap)
       /\ tasks[t].leg = "create" => tasks[t].name \in Held(tasks[t].snap)
  /\ \A t \in Slots : Removes(tasks[t]) \cap owed = {}

Keeping == CallsApart /\ StartsEmpty /\ RemadeIsGone /\ FileKeeps

\* The call in slot t is k from here on.
Turns(t, k) ==
  /\ tasks' \in [Slots -> Task] /\ tasks'[t] = k
  /\ \A u \in Slots : u # t => tasks'[u] = tasks[u]

\* Call k does no more than call o was about to do.
Fades(k, o) ==
  /\ k.at # "threw" /\ (Loops(k) => Loops(o))
  /\ Removes(k) \subseteq Removes(o) /\ k.todo \subseteq o.todo
  /\ Remakes(k) => Remakes(o) /\ k.name = o.name
  /\ k.job = "create" /\ Saves(k) => o.job = "create" /\ Saves(o) /\ k.name = o.name

\* Call k begins, about a client no other call is about.
Begins(t, k) ==
  /\ k.at # "threw" /\ ~Loops(k) /\ k.gone = {} /\ k.todo = {}
  /\ \A u \in Slots \ {t} : k.name \notin {tasks[u].name} \cup tasks[u].gone \cup tasks[u].todo

\* Call k is a loop, and no other call is one, or is about to create a client.
Alone(t, k) ==
  /\ k.at # "threw" /\ Loops(k) /\ k.at \notin {"save", "write"}
  /\ \A u \in Slots \ {t} : tasks[u].job \in {"none", "destroy"}

\* When one call goes on, no two calls come to be about one client.
LEMMA TurnKeepsApart ==
  ASSUME CallsApart, tasks \in [Slots -> Task], NEW t \in Slots, NEW k \in Task, Turns(t, k),
         Fades(k, tasks[t]) \/ Begins(t, k) \/ Alone(t, k),
         Saves(k) => Saves(tasks[t]) \/ NobodySaves
  PROVE  CallsApart'
<1> USE DEF CallsApart, Turns
<1>1. \A u, v \in Slots : Saves(tasks'[v]) /\ Saves(tasks'[u]) => v = u
  BY DEF NobodySaves
<1>2. \A u, v \in Slots : Loops(tasks'[v]) /\ Loops(tasks'[u]) => v = u
  BY DEF Fades, Begins, Alone, Loops
<1>3. \A u \in Slots : tasks'[u].at # "threw"
  BY DEF Fades, Begins, Alone
<1>4. ASSUME NEW u \in Slots, u # t
      PROVE  /\ tasks[u].job = "create" /\ Saves(tasks[u]) => tasks[u].name \notin Removes(k)
             /\ Remakes(tasks[u]) => tasks[u].name \notin k.todo
             /\ Remakes(tasks[u]) /\ Remakes(k) => k.name # tasks[u].name
             /\ k.job = "create" /\ Saves(k) => k.name \notin Removes(tasks[u])
             /\ Remakes(k) => k.name \notin tasks[u].todo
  <2>1. CASE Fades(k, tasks[t])
    BY <1>4, <2>1 DEF Fades
  <2>2. CASE Begins(t, k)
    BY <1>4, <2>2 DEF Begins, Removes
  <2>3. CASE Alone(t, k)
    BY <1>4, <2>3 DEF Alone, Loops, Remakes
  <2> QED
    BY <2>1, <2>2, <2>3
<1> QED
  BY <1>1, <1>2, <1>3, <1>4

\* Which updates have their client in the file again, when one call goes on.
LEMMA RemadeTurns ==
  ASSUME tasks \in [Slots -> Task], NEW t \in Slots, NEW k \in Task, Turns(t, k)
  PROVE  /\ (Remakes(tasks[t]) => Remakes(k) /\ k.name = tasks[t].name) => Remade \subseteq Remade'
         /\ Remade \subseteq Remade' \cup {tasks[t].name}
BY DEF Turns, Remade

\* Nothing is written, nothing more is owed: what a call saves has to have what is owed.
LEMMA TurnKeepsFile ==
  ASSUME FileKeeps, tasks \in [Slots -> Task], NEW t \in Slots, NEW k \in Task, Turns(t, k),
         UNCHANGED file, owed' \subseteq owed,
         phase' \in {"down", "loading"} \/ (file = Torn => phase \notin {"down", "loading"}),
         tasks[t].at = "write" => k.at = "write",
         Remakes(tasks[t]) => Remakes(k) /\ k.name = tasks[t].name,
         Saves(k) => /\ owed \ Remade \subseteq Held(k.snap)
                     /\ k.leg = "create" => k.name \in Held(k.snap),
         Removes(k) \cap owed' = {}
  PROVE  FileKeeps'
<1>1. Remade \subseteq Remade'
  BY RemadeTurns
<1> QED
  BY <1>1 DEF FileKeeps, Turns, Held

\* What a save that disturbs nothing finds.
LEMMA SaveFinds ==
  ASSUME Sound, Keeping, NEW t \in Slots, ~PersistDisturbs(t), ~Saves(tasks[t]), phase # "down"
  PROVE  /\ NobodySaves /\ phase \notin {"loading", "restoring"} /\ file # Torn
         /\ Held(file) \subseteq Held(persisted) /\ owed \ Remade \subseteq Held(persisted)
<1>1. NobodySaves /\ phase \notin {"loading", "restoring"}
  BY DEF PersistDisturbs, Saving, Others, NobodySaves, Saves
<1>2. file # Torn
  BY <1>1 DEF Keeping, FileKeeps, NobodySaves, Saves
<1>3. Held(file) \subseteq Held(persisted)
  BY <1>2 DEF PersistDisturbs
<1> QED
  BY <1>1, <1>2, <1>3 DEF Keeping, FileKeeps

\* The calls that may be reported done while nothing is registered.
LEMMA TurnKeepsEmpty ==
  ASSUME StartsEmpty, tasks \in [Slots -> Task], NEW t \in Slots, NEW k \in Task, Turns(t, k),
         UNCHANGED phase, k.at # "load", k.job = "restore" => phase # "loading",
         Saves(k) => phase \notin {"loading", "restoring"},
         phase \in {"down", "loading"} => /\ UNCHANGED reg /\ k.at \in {"none", "returned"}
                                         /\ k.job \in {"none", "destroy"}
  PROVE  StartsEmpty'
BY DEF StartsEmpty, Turns, NobodySaves

\* Nobody registers a client that an update has destroyed and not created again.
LEMMA TurnKeepsGone ==
  ASSUME RemadeIsGone, tasks \in [Slots -> Task], \A u \in Slots : WellFormed(tasks[u]),
         NEW t \in Slots, NEW k \in Task, Turns(t, k),
         \A n \in Names : reg'[n] # Absent =>
           reg[n] # Absent \/ \A u \in Slots \ {t} : Remakes(tasks[u]) => tasks[u].name # n,
         k.job = "update" /\ k.leg = "destroy" /\ k.at # "stop" => reg'[k.name] = Absent
  PROVE  RemadeIsGone'
<1> SUFFICES ASSUME NEW u \in Slots, u # t,
                    tasks[u].job = "update", tasks[u].leg = "destroy", tasks[u].at # "stop"
             PROVE  reg'[tasks[u].name] = Absent
  BY DEF RemadeIsGone, Turns
<1>1. Remakes(tasks[u]) /\ tasks[u].name \in Names
  BY DEF Remakes, WellFormed
<1>2. reg[tasks[u].name] = Absent
  BY DEF RemadeIsGone
<1> QED
  BY <1>1, <1>2

\* createClient, of a call that is about its client alone.
LEMMA CreateKeeps ==
  ASSUME Sound, Keeping, NEW t \in Slots, ~Saves(tasks[t]), NEW k \in Task, NEW task,
         NEW quietly \in BOOLEAN, NEW kept \in Contents, NEW bad \in BOOLEAN,
         Created(t, k, task, quietly, kept, bad), ~disturbed', WellFormed(tasks[t]),
         Fades(k, tasks[t]) \/ Begins(t, k) \/ Alone(t, k), k.gone = {},
         Remakes(tasks[t]) => k.job = "update" /\ reg[k.name] = Absent /\ k.name = tasks[t].name,
         k.job = "update" => kept = persisted,
         Saves(k) => kept = persisted /\ phase # "down" /\ k.job \in {"create", "update"},
         UNCHANGED <<file, owed>>, phase' \in {phase, "restoring"},
         phase' # phase => phase = "loading" /\ tasks[t].job = "restore" /\ file # Torn,
         phase' \in {"down", "loading"} => k.job = "create" /\ phase # "down",
         \A u \in Slots \ {t} : Remakes(tasks[u]) => tasks[u].name # k.name
  PROVE  Keeping'
<1>1. Turns(t, k) /\ tasks \in [Slots -> Task] /\ \A u \in Slots : WellFormed(tasks[u])
  BY CallGoesOn DEF Sound, CallsSound, Turns, Created
<1>2. \/ k.at = "returned" /\ UNCHANGED reg /\ reg[k.name] # Absent
      \/ \E a \in Adapters :
           /\ reg[k.name] = Absent /\ reg' = [reg EXCEPT ![k.name] = a]
           /\ \/ /\ k.at = "save" /\ k.snap = [kept EXCEPT ![k.name] = k.config]
                 /\ ~PersistDisturbs(t)
              \/ k.at = "init" /\ k.job \in {"restore", "sync"}
  BY DEF Created, Notes
<1>3. k.leg = "create" /\ k.name \in Names /\ k.config \in Configs /\ WellFormed(k)
  BY DEF Created, WellFormed
<1>4. Saves(k) => /\ NobodySaves /\ phase \notin {"loading", "restoring"}
                  /\ owed \ Remade \subseteq Held(k.snap) /\ k.name \in Held(k.snap)
  <2> SUFFICES ASSUME Saves(k)
               PROVE  /\ NobodySaves /\ phase \notin {"loading", "restoring"}
                      /\ owed \ Remade \subseteq Held(k.snap) /\ k.name \in Held(k.snap)
    OBVIOUS
  <2>1. k.snap = [persisted EXCEPT ![k.name] = k.config] /\ ~PersistDisturbs(t)
    BY <1>2 DEF Saves
  <2>2. NobodySaves /\ phase \notin {"loading", "restoring"} /\ owed \ Remade \subseteq Held(persisted)
    BY <2>1, SaveFinds
  <2>3. Held(k.snap) = Held(persisted) \cup {k.name}
    BY <1>3, <2>1, ManagerAssumption DEF Held, Contents, Sound, CallsSound
  <2> QED
    BY <2>2, <2>3
<1>5. CallsApart'
  BY <1>1, <1>4, TurnKeepsApart DEF Keeping
<1>6. StartsEmpty'
  <2>1. CASE phase' = phase
    <3>1. phase \notin {"down", "loading"}
      BY <1>2, <1>3, <1>4, <2>1, NothingIsHeld DEF PersistDisturbs, Saves, Keeping, StartsEmpty
    <3>2. k.at # "load"
      BY <1>2
    <3> QED
      BY <1>1, <1>4, <2>1, <3>1, <3>2, TurnKeepsEmpty DEF Keeping
  <2>2. CASE phase' # phase
    <3>1. phase' = "restoring" /\ phase = "loading" /\ NobodySaves /\ ~Saves(k) /\ k.at # "load"
      BY <1>2, <1>4, <2>2 DEF Keeping, StartsEmpty, Saves
    <3>2. \A u \in Slots : tasks'[u].at # "load" /\ (u # t => tasks'[u].job # "restore")
      BY <1>1, <2>2, <3>1, CallsAreInside DEF Turns, Sound, StartsClean
    <3> QED
      BY <1>1, <3>1, <3>2 DEF StartsEmpty, NobodySaves, Turns
  <2> QED
    BY <2>1, <2>2
<1>7. RemadeIsGone'
  BY <1>1, <1>2, <1>3, TurnKeepsGone DEF Keeping, Sound, CallsSound
<1>8. Remakes(tasks[t]) => Remakes(k) /\ k.name = tasks[t].name
  BY <1>2 DEF Remakes
<1>9. Removes(k) = {}
  BY <1>3 DEF Removes, Stops
<1>10. FileKeeps'
  <2>1. phase' \in {"down", "loading"} \/ (file = Torn => phase \notin {"down", "loading"})
    OBVIOUS
  <2> QED
    BY <1>1, <1>4, <1>8, <1>9, <2>1, TurnKeepsFile DEF Keeping, Saves
<1> QED
  BY <1>5, <1>6, <1>7, <1>10 DEF Keeping

\* A call that goes on and saves nothing.
LEMMA FadingKeeps ==
  ASSUME Sound, Keeping, NEW t \in Slots, NEW k \in Task, Turns(t, k), ~Saves(k), tasks[t].at # "write",
         Fades(k, tasks[t]) \/ Begins(t, k) \/ Alone(t, k),
         Removes(k) \cap owed' = {}, Remakes(tasks[t]) => Remakes(k) /\ k.name = tasks[t].name,
         k.at # "load", k.job = "restore" => phase # "loading",
         phase \in {"down", "loading"} => k.at \in {"none", "returned"} /\ k.job \in {"none", "destroy"},
         k.job = "update" /\ k.leg = "destroy" /\ k.at # "stop" => reg'[k.name] = Absent,
         \A n \in Names : reg'[n] = reg[n] \/ reg'[n] = Absent, UNCHANGED <<phase, file>>, owed' \subseteq owed,
         phase \in {"down", "loading"} => UNCHANGED reg
  PROVE  Keeping'
<1> USE DEF Keeping
<1>1. tasks \in [Slots -> Task] /\ \A u \in Slots : WellFormed(tasks[u])
  BY DEF Sound, CallsSound
<1>2. CallsApart'
  BY <1>1, TurnKeepsApart
<1>3. StartsEmpty'
  BY <1>1, TurnKeepsEmpty
<1>4. RemadeIsGone'
  BY <1>1, TurnKeepsGone
<1>5. phase' \in {"down", "loading"} \/ (file = Torn => phase \notin {"down", "loading"})
  OBVIOUS
<1>6. FileKeeps'
  BY <1>1, <1>5, TurnKeepsFile
<1> QED
  BY <1>2, <1>3, <1>4, <1>6

\* The restore goes on to the next client, or ends.
LEMMA RestoreKeeps ==
  ASSUME Sound, Keeping, ~disturbed', NEW t \in Slots, tasks[t].job = "restore", NEW task, Restores(task),
         task.todo \subseteq tasks[t].todo \/ phase = "loading", phase = "loading" => file # Torn,
         NEW kept \in Contents, RestoreRuns(t, task, kept), UNCHANGED <<file, changed, owed>>
  PROVE  Keeping'
<1>1. phase \in {"loading", "restoring"} /\ NobodySaves /\ (phase = "loading" => \A u \in Slots \ {t} : tasks[u].job \in {"none", "destroy"})
  BY DEF Sound, StartsClean, Keeping, StartsEmpty
<1>2. tasks \in [Slots -> Task] /\ WellFormed(tasks[t])
  BY DEF Sound, CallsSound
<1>3. ~Saves(tasks[t]) /\ ~Remakes(tasks[t]) /\ Loops(tasks[t])
  BY <1>1 DEF NobodySaves, Remakes, Loops
<1>4. ASSUME NEW n \in task.todo, Create(t, Taken(task, n), TRUE, kept, FALSE), phase' = "restoring"
      PROVE  Keeping'
  <2>1. Creates(Taken(task, n)) /\ Taken(task, n).job = "restore" /\ Taken(task, n).name = n
        /\ Taken(task, n).todo = task.todo \ {n} /\ Taken(task, n).gone = {}
    BY LoopsGoOn DEF Restores
  <2> PICK made : made = Taken(task, n)
    OBVIOUS
  <2>2. PICK k \in Task : Created(t, k, made, TRUE, kept, FALSE)
    BY <1>4, <2>1, CreateCases
  <2>3. /\ k.job = "restore" /\ k.leg = "create" /\ k.name = n /\ k.todo = task.todo \ {n} /\ k.gone = {}
        /\ k.at \in {"init", "returned"}
    BY <2>1, <2>2 DEF Created, Notes
  <2>4. ~Saves(k) /\ Loops(k) /\ ~Remakes(k) /\ Removes(k) = {}
    BY <2>3 DEF Saves, Loops, Remakes, Removes, Stops
  <2>5. Fades(k, tasks[t]) \/ Alone(t, k)
    BY <1>1, <1>3, <2>3, <2>4 DEF Fades, Alone
  <2>6. \A u \in Slots \ {t} : Remakes(tasks[u]) => tasks[u].name # k.name
    BY <1>1, <1>4, <2>3 DEF Remakes, Keeping, CallsApart
  <2>7. phase' # phase => phase = "loading" /\ file # Torn
    BY <1>1, <1>4 DEF Keeping, StartsEmpty, FileKeeps, RestoreRuns
  <2> QED
    BY <1>2, <1>3, <1>4, <2>2, <2>3, <2>4, <2>5, <2>6, <2>7, CreateKeeps
<1>5. CASE phase' = "running" /\ Put(t, Idle) /\ Notes(FALSE) /\ UNCHANGED <<reg, disposers, running>>
  <2>1. Turns(t, Idle) /\ Idle \in Task
    BY <1>2, <1>5, IdleIsCall, CallGoesOn DEF Turns
  <2>2. ~Saves(Idle) /\ ~Loops(Idle) /\ ~Remakes(Idle) /\ Removes(Idle) = {} /\ Idle.at = "none" /\ Idle.todo = {}
        /\ Idle.job = "none"
    BY DEF Saves, Loops, Remakes, Removes, Stops, Idle
  <2>3. Fades(Idle, tasks[t])
    BY <2>2 DEF Fades
  <2>4. CallsApart'
    BY <1>2, <2>1, <2>2, <2>3, TurnKeepsApart DEF Keeping
  <2>5. StartsEmpty'
    BY <1>5, <2>1, <2>2 DEF StartsEmpty, Turns, Sound, StartsClean
  <2>6. RemadeIsGone'
    BY <1>5, <2>1, <2>2, TurnKeepsGone DEF Keeping, Sound, CallsSound
  <2>7. file = Torn => phase \notin {"down", "loading"}
    BY <1>1 DEF RestoreRuns, Keeping, StartsEmpty
  <2>8. FileKeeps'
    BY <1>2, <1>3, <2>1, <2>2, <2>7, TurnKeepsFile DEF Keeping, Saves
  <2> QED
    BY <2>4, <2>5, <2>6, <2>8 DEF Keeping
<1> QED
  BY <1>4, <1>5 DEF RestoreRuns, Taken

\* The sync goes on to the next client, or ends.
LEMMA SyncKeeps ==
  ASSUME Sound, Keeping, ~disturbed', NEW t \in Slots, ~Saves(tasks[t]), ~Remakes(tasks[t]),
         phase \notin {"down", "loading"}, NEW task, Syncs(task), NEW kept \in Contents, NEW bad \in BOOLEAN,
         \/ /\ Loops(tasks[t]) /\ task.todo \subseteq tasks[t].todo /\ task.gone \subseteq tasks[t].gone
         \/ task.gone = {} /\ \A n \in task.todo : kept[n] # Absent
         \/ \A u \in Slots \ {t} : tasks[u].job \in {"none", "destroy"},
         task.gone \cap owed = {}, SyncRuns(t, task, kept, bad), UNCHANGED <<phase, file, watching, owed>>
  PROVE  Keeping'
<1>1. tasks \in [Slots -> Task] /\ WellFormed(tasks[t])
  BY DEF Sound, CallsSound
<1>2. reg \in [Names -> Adapters \cup {Absent}]
  BY DEF Sound, CallsSound
<1>3. ASSUME NEW n \in task.gone, Destroy(t, Dropped(task, n)), UNCHANGED reg
      PROVE  Keeping'
  <2>1. Destroys(Dropped(task, n)) /\ Dropped(task, n).job = "sync" /\ Dropped(task, n).name = n
        /\ Dropped(task, n).todo = task.todo /\ Dropped(task, n).gone = task.gone \ {n}
    BY LoopsGoOn DEF Syncs
  <2> PICK made : made = Dropped(task, n)
    OBVIOUS
  <2>2. PICK k \in Task : Destroyed(t, k, made)
    BY <1>2, <1>3, <2>1, DestroyCases
  <2>3. /\ k.job = "sync" /\ k.leg = "destroy" /\ k.name = n /\ k.todo = task.todo /\ k.gone = task.gone \ {n}
        /\ k.at \in {"stop", "returned"} /\ Put(t, k)
    BY <2>1, <2>2 DEF Destroyed
  <2>4. ~Saves(k) /\ Loops(k) /\ ~Remakes(k) /\ Removes(k) \subseteq task.gone /\ task.gone # {}
    BY <1>3, <2>3 DEF Saves, Loops, Remakes, Removes, Stops
  <2>5. Turns(t, k)
    BY <1>1, <2>3, CallGoesOn DEF Turns
  <2>6. Fades(k, tasks[t]) \/ Alone(t, k)
    BY <2>3, <2>4 DEF Fades, Alone, Removes
  <2>7. tasks[t].at # "write" /\ Removes(k) \cap owed' = {}
    BY <2>4 DEF Saves
  <2> QED
    BY <1>3, <2>3, <2>4, <2>5, <2>6, <2>7, FadingKeeps
<1>4. ASSUME NEW n \in task.todo, kept[n] = Absent, task.gone = {}, Create(t, Taken(task, n), TRUE, kept, bad)
      PROVE  Keeping'
  <2>1. Creates(Taken(task, n)) /\ Taken(task, n).job = "sync" /\ Taken(task, n).name = n
        /\ Taken(task, n).todo = task.todo \ {n} /\ Taken(task, n).gone = {}
    BY <1>4, LoopsGoOn DEF Syncs
  <2> PICK made : made = Taken(task, n)
    OBVIOUS
  <2>2. PICK k \in Task : Created(t, k, made, TRUE, kept, bad)
    BY <1>4, <2>1, CreateCases
  <2>3. /\ k.job = "sync" /\ k.leg = "create" /\ k.name = n /\ k.todo = task.todo \ {n} /\ k.gone = {}
        /\ k.at \in {"init", "returned"}
    BY <2>1, <2>2 DEF Created, Notes
  <2>4. ~Saves(k) /\ Loops(k) /\ ~Remakes(k) /\ Removes(k) = {}
    BY <2>3 DEF Saves, Loops, Remakes, Removes, Stops
  <2>5. Fades(k, tasks[t]) \/ Alone(t, k)
    BY <1>4, <2>3, <2>4 DEF Fades, Alone
  <2>6. \A u \in Slots \ {t} : Remakes(tasks[u]) => tasks[u].name # k.name
    BY <1>4, <2>3 DEF Remakes, Keeping, CallsApart
  <2> QED
    <3>1. /\ Remakes(tasks[t]) => k.job = "update" /\ reg[k.name] = Absent /\ k.name = tasks[t].name
          /\ k.job = "update" => kept = persisted
          /\ Saves(k) => kept = persisted /\ phase # "down" /\ k.job \in {"create", "update"}
      BY <2>3, <2>4
    <3>2. /\ phase' \in {phase, "restoring"}
          /\ phase' # phase => phase = "loading" /\ tasks[t].job = "restore" /\ file # Torn
          /\ phase' \in {"down", "loading"} => k.job = "create" /\ phase # "down"
      OBVIOUS
    <3>3. UNCHANGED <<file, owed>>
      OBVIOUS
    <3>4. bad = FALSE
      BY <2>2 DEF Created, Notes
    <3>5. Created(t, k, made, TRUE, kept, FALSE)
      BY <2>2, <3>4
    <3> QED
      BY <1>1, <2>3, <2>5, <2>6, <3>1, <3>2, <3>3, <3>5, CreateKeeps
<1>5. CASE Put(t, Idle) /\ UNCHANGED reg
  <2>1. Turns(t, Idle) /\ Idle \in Task
    BY <1>1, <1>5, IdleIsCall, CallGoesOn DEF Turns
  <2>2. ~Saves(Idle) /\ ~Loops(Idle) /\ ~Remakes(Idle) /\ Removes(Idle) = {} /\ Idle.at = "none" /\ Idle.todo = {}
        /\ Idle.job = "none"
    BY DEF Saves, Loops, Remakes, Removes, Stops, Idle
  <2>3. Fades(Idle, tasks[t]) /\ tasks[t].at # "write"
    BY <2>2 DEF Fades, Saves
  <2> QED
    BY <1>5, <2>1, <2>2, <2>3, FadingKeeps
<1> QED
  BY <1>3, <1>4, <1>5 DEF SyncRuns, Taken, Dropped

\* A call begins to write, and has written.
LEMMA WriteBeginsKeeps ==
  ASSUME Sound, Keeping, NEW t \in Slots, WriteBegins(t)
  PROVE  Keeping'
<1> PICK k : k = [tasks[t] EXCEPT !.at = "write"]
  OBVIOUS
<1>1. tasks \in [Slots -> Task] /\ WellFormed(tasks[t]) /\ tasks[t].at = "save"
  BY DEF Sound, CallsSound, WriteBegins
<1>2. /\ k \in Task /\ k.at = "write" /\ k.job = tasks[t].job /\ k.leg = tasks[t].leg /\ k.name = tasks[t].name
      /\ k.gone = tasks[t].gone /\ k.todo = tasks[t].todo /\ k.snap = tasks[t].snap /\ Put(t, k)
  BY <1>1, AwaitedIsCall DEF WriteBegins
<1>3. Turns(t, k) /\ file' = Torn /\ UNCHANGED <<phase, reg, owed>>
  BY <1>1, <1>2, CallGoesOn DEF Turns, WriteBegins, memory
<1>4. Saves(tasks[t]) /\ Saves(k) /\ Removes(k) = Removes(tasks[t]) /\ (Remakes(k) <=> Remakes(tasks[t]))
      /\ ~NobodySaves
  BY <1>1, <1>2 DEF Saves, Removes, Stops, Remakes, NobodySaves
<1>5. CallsApart'
  BY <1>1, <1>2, <1>3, <1>4, TurnKeepsApart DEF Keeping, Fades, Loops
<1>6. StartsEmpty'
  BY <1>1, <1>2, <1>3, <1>4, TurnKeepsEmpty DEF Keeping, StartsEmpty
<1>7. RemadeIsGone'
  <2>1. tasks[t].job = "update" /\ tasks[t].leg = "destroy" => reg[tasks[t].name] = Absent
    BY <1>1 DEF Keeping, RemadeIsGone
  <2>2. k.job = "update" /\ k.leg = "destroy" => reg'[k.name] = Absent
    BY <1>2, <1>3, <2>1
  <2>3. \A u \in Slots : WellFormed(tasks[u])
    BY DEF Sound, CallsSound
  <2> QED
    BY <1>1, <1>2, <1>3, <2>2, <2>3, TurnKeepsGone DEF Keeping
<1>8. Remade \subseteq Remade'
  BY <1>1, <1>2, <1>3, <1>4, RemadeTurns
<1>9. ASSUME NEW u \in Slots
      PROVE  /\ Saves(tasks'[u]) => /\ owed' \ Remade' \subseteq Held(tasks'[u].snap)
                                    /\ tasks'[u].leg = "create" => tasks'[u].name \in Held(tasks'[u].snap)
             /\ Removes(tasks'[u]) \cap owed' = {}
  <2>1. CASE u = t
    BY <1>2, <1>3, <1>4, <1>8, <2>1 DEF Keeping, FileKeeps, Turns
  <2>2. CASE u # t
    BY <1>3, <1>8, <2>2 DEF Keeping, FileKeeps, Turns
  <2> QED
    BY <2>1, <2>2
<1>10. FileKeeps'
  BY <1>2, <1>3, <1>9 DEF FileKeeps, Turns, Held
<1> QED
  BY <1>5, <1>6, <1>7, <1>10 DEF Keeping

\* A save that was written has what is owed, with the client just created.
LEMMA WriteEndsKeeps ==
  ASSUME Sound, Keeping, NEW t \in Slots, WriteEnds(t)
  PROVE  Keeping'
<1> PICK k : k = AfterSave(tasks[t])
  OBVIOUS
<1>1. tasks \in [Slots -> Task] /\ WellFormed(tasks[t]) /\ tasks[t].at = "write" /\ tasks[t].snap \in Contents
  BY DEF Sound, CallsSound, WriteEnds, Task
<1>2. /\ k \in Task /\ k.at = (IF tasks[t].leg = "create" THEN "init" ELSE "returned")
      /\ k.job = tasks[t].job /\ k.leg = tasks[t].leg /\ k.name = tasks[t].name
      /\ k.gone = tasks[t].gone /\ k.todo = tasks[t].todo /\ Put(t, k)
  BY <1>1, SavedIsCall DEF WriteEnds
<1>3. Turns(t, k) /\ file' = tasks[t].snap /\ file' # Torn /\ UNCHANGED <<phase, reg>>
  BY <1>1, <1>2, CallGoesOn, ManagerAssumption DEF Turns, WriteEnds, memory, Contents
<1>4. Saves(tasks[t]) /\ ~Saves(k) /\ Removes(k) = Removes(tasks[t]) /\ (Remakes(k) => Remakes(tasks[t]))
      /\ (Remakes(tasks[t]) => Remakes(k) \/ tasks[t].leg = "create") /\ ~NobodySaves
  BY <1>1, <1>2 DEF Saves, Removes, Stops, Remakes, NobodySaves
<1>5. CallsApart'
  BY <1>1, <1>2, <1>3, <1>4, TurnKeepsApart DEF Keeping, Fades, Loops
<1>6. StartsEmpty'
  BY <1>1, <1>2, <1>3, <1>4, TurnKeepsEmpty DEF Keeping, StartsEmpty
<1>7. RemadeIsGone'
  BY <1>1, <1>2, <1>3, <1>4 DEF Keeping, RemadeIsGone, Turns
<1>8. Remade \subseteq Remade' \cup (IF tasks[t].leg = "create" THEN {tasks[t].name} ELSE {})
  BY <1>1, <1>2, <1>3, <1>4, RemadeTurns
<1>9. owed' = owed \cup (IF tasks[t].job = "create" THEN {tasks[t].name} ELSE {})
  BY DEF WriteEnds
<1>10. tasks[t].job = "create" => tasks[t].leg = "create" /\ tasks[t].gone = {}
  BY <1>1 DEF WellFormed, Task, Leg
<1>11. owed \ Remade \subseteq Held(tasks[t].snap)
       /\ (tasks[t].leg = "create" => tasks[t].name \in Held(tasks[t].snap))
  BY <1>4 DEF Keeping, FileKeeps
<1>12. owed' \ Remade' \subseteq Held(file')
  BY <1>3, <1>8, <1>9, <1>10, <1>11
<1>13. \A u \in Slots : ~Saves(tasks'[u])
  BY <1>3, <1>4 DEF Keeping, CallsApart, Turns
<1>14. ASSUME NEW u \in Slots PROVE Removes(tasks'[u]) \cap owed' = {}
  <2>1. Removes(tasks[u]) \cap owed = {}
    BY DEF Keeping, FileKeeps
  <2>2. CASE u = t
    BY <1>3, <1>4, <1>9, <1>10, <2>1, <2>2 DEF Turns, Removes, Stops
  <2>3. CASE u # t
    BY <1>3, <1>4, <1>9, <2>1, <2>3 DEF Turns, Keeping, CallsApart
  <2> QED
    BY <2>2, <2>3
<1>15. FileKeeps'
  BY <1>3, <1>12, <1>13, <1>14 DEF FileKeeps, Held
<1> QED
  BY <1>5, <1>6, <1>7, <1>15 DEF Keeping

\* A client is forgotten.
LEMMA DestroyEndsKeeps ==
  ASSUME Sound, Keeping, ~disturbed', NEW t \in Slots, DestroyEnds(t)
  PROVE  Keeping'
<1> DEFINE n == tasks[t].name
<1>1. tasks \in [Slots -> Task] /\ WellFormed(tasks[t]) /\ persisted \in Contents
      /\ \A u \in Slots : WellFormed(tasks[u])
  BY DEF Sound, CallsSound
<1>2. PICK k \in Task : Forgets(t, k)
  BY <1>1, DestroyEndsCases
<1>3. /\ tasks[t].leg = "destroy" /\ tasks[t].at = "stop" /\ n \in Names
      /\ k.leg = "destroy" /\ k.job = tasks[t].job /\ k.name = n
      /\ k.gone = tasks[t].gone /\ k.todo = tasks[t].todo
      /\ \/ /\ persisted[n] # Absent /\ k.at = "save" /\ k.snap = [persisted EXCEPT ![n] = Absent]
         \/ /\ persisted[n] = Absent /\ k.at = "returned"
  BY <1>2 DEF Forgets
<1>4. Turns(t, k) /\ UNCHANGED <<phase, file, owed>> /\ reg' = [reg EXCEPT ![n] = Absent]
  BY <1>1, <1>2, CallGoesOn DEF Turns, Forgets, DestroyEnds, store
<1>5. /\ Removes(k) \subseteq Removes(tasks[t]) /\ (n \in Removes(tasks[t]) \/ Remakes(tasks[t]))
      /\ (Remakes(k) <=> Remakes(tasks[t])) /\ ~Saves(tasks[t]) /\ Fades(k, tasks[t])
  <2>1. Removes(k) = tasks[t].gone /\ tasks[t].gone \subseteq Removes(tasks[t])
    BY <1>3 DEF Removes, Stops
  <2>2. n \in Removes(tasks[t]) \/ Remakes(tasks[t])
    BY <1>3 DEF Removes, Stops, Remakes
  <2>3. (Remakes(k) <=> Remakes(tasks[t])) /\ ~Saves(tasks[t]) /\ (Loops(k) <=> Loops(tasks[t]))
    BY <1>3 DEF Remakes, Saves, Loops
  <2>4. k.job # "create"
    BY <1>1, <1>3 DEF WellFormed
  <2> QED
    BY <1>3, <2>1, <2>2, <2>3, <2>4 DEF Fades
<1>6. phase \notin {"down", "loading"}
  BY <1>3 DEF Keeping, StartsEmpty
<1>7. reg \in [Names -> Adapters \cup {Absent}]
  BY DEF Sound, CallsSound
<1>8. Saves(k) => /\ NobodySaves /\ phase \notin {"loading", "restoring"}
                  /\ owed \ Remade \subseteq Held(k.snap)
  <2> SUFFICES ASSUME Saves(k)
               PROVE  /\ NobodySaves /\ phase \notin {"loading", "restoring"}
                      /\ owed \ Remade \subseteq Held(k.snap)
    OBVIOUS
  <2>1. persisted[n] # Absent /\ k.snap = [persisted EXCEPT ![n] = Absent] /\ ~PersistDisturbs(t)
    BY <1>3 DEF Saves, DestroyEnds, Notes
  <2>2. NobodySaves /\ phase \notin {"loading", "restoring"} /\ owed \ Remade \subseteq Held(persisted)
    BY <1>5, <1>6, <2>1, SaveFinds
  <2>3. Held(k.snap) = Held(persisted) \ {n}
    BY <1>1, <1>3, <2>1 DEF Held, Contents
  <2>4. n \notin owed \ Remade
    BY <1>5 DEF Keeping, FileKeeps, Remade
  <2> QED
    BY <2>2, <2>3, <2>4
<1>9. CallsApart'
  BY <1>1, <1>4, <1>5, <1>8, TurnKeepsApart DEF Keeping
<1>10. StartsEmpty'
  <2>1. k.at # "load" /\ (k.job = "restore" => phase # "loading")
    BY <1>3, <1>6
  <2> QED
    BY <1>1, <1>4, <1>6, <1>8, <2>1, TurnKeepsEmpty DEF Keeping
<1>11. RemadeIsGone'
  <2>1. \A m \in Names : reg'[m] = reg[m] \/ reg'[m] = Absent
    BY <1>4, <1>7
  <2>2. reg'[k.name] = Absent
    BY <1>3, <1>4, <1>7
  <2> QED
    BY <1>1, <1>4, <2>1, <2>2, TurnKeepsGone DEF Keeping
<1>12. FileKeeps'
  <2>1. Removes(k) \cap owed' = {}
    BY <1>4, <1>5 DEF Keeping, FileKeeps
  <2>2. (Remakes(tasks[t]) => Remakes(k) /\ k.name = tasks[t].name) /\ tasks[t].at # "write" /\ k.leg # "create"
    BY <1>3, <1>5
  <2> QED
    BY <1>1, <1>4, <1>6, <1>8, <2>1, <2>2, TurnKeepsFile DEF Keeping
<1> QED
  BY <1>9, <1>10, <1>11, <1>12 DEF Keeping

\* A call users make to destroy a client, or to update it.
Called(t, n, k) ==
  /\ Put(t, k) /\ WellFormed(k) /\ k.leg = "destroy" /\ k.name = n /\ k.gone = {} /\ k.todo = {}
  /\ tasks[t] = Idle /\ ~Contended(t, n) /\ UNCHANGED <<phase, persisted, file, changed, reg>> /\ phase # "down"
  /\ \/ reg[n] = Absent /\ k.at = "returned"
     \/ reg[n] # Absent /\ k.at = "stop"
  /\ \/ owed' = owed \ {n} /\ k.job = "destroy"
     \/ reg[n] # Absent /\ owed' = owed /\ k.job = "update"

\* destroyClient and updateClient up to their first await.
LEMMA DestroyCalledCases ==
  ASSUME Sound, ~disturbed', NEW t \in Slots, NEW n \in Names,
         DestroyCalled(t, n) \/ \E c \in Configs : UpdateCalled(t, n, c)
  PROVE  \E k \in Task : Called(t, n, k)
<1>1. tasks \in [Slots -> Task] /\ reg \in [Names -> Adapters \cup {Absent}]
  BY DEF Sound, CallsSound
<1>2. /\ tasks[t] = Idle /\ ~Contended(t, n) /\ UNCHANGED <<phase, persisted, file, changed, reg>> /\ phase # "down"
      /\ \/ owed' = owed \ {n} /\ Destroy(t, Call("destroy", n, Absent))
         \/ reg[n] # Absent /\ owed' = owed /\ \E c \in Configs : Destroy(t, Call("update", n, c))
  BY DEF DestroyCalled, UpdateCalled, Notes, store, Serving
<1>3. CASE owed' = owed \ {n} /\ Destroy(t, Call("destroy", n, Absent))
  <2> PICK made : made = Call("destroy", n, Absent)
    OBVIOUS
  <2>1. Destroys(made) /\ made.job = "destroy" /\ made.name = n /\ made.todo = {} /\ made.gone = {}
    BY DestroyIsMade
  <2>2. PICK k \in Task : Destroyed(t, k, made)
    BY <1>1, <1>3, <2>1, DestroyCases
  <2> QED
    BY <1>2, <1>3, <2>1, <2>2 DEF Destroyed, Called
<1>4. CASE reg[n] # Absent /\ owed' = owed /\ \E c \in Configs : Destroy(t, Call("update", n, c))
  <2> PICK c \in Configs : Destroy(t, Call("update", n, c))
    BY <1>4
  <2> PICK made : made = Call("update", n, c)
    OBVIOUS
  <2>1. Destroys(made) /\ made.job = "update" /\ made.name = n /\ made.todo = {} /\ made.gone = {}
    BY CallsAreMade
  <2>2. PICK k \in Task : Destroyed(t, k, made)
    BY <1>1, <2>1, DestroyCases
  <2> QED
    BY <1>2, <1>4, <2>1, <2>2 DEF Destroyed, Called
<1> QED
  BY <1>2, <1>3, <1>4

\* A call users make.
LEMMA DestroyCalledKeeps ==
  ASSUME Sound, Keeping, ~disturbed', NEW t \in Slots, NEW n \in Names,
         DestroyCalled(t, n) \/ \E c \in Configs : UpdateCalled(t, n, c)
  PROVE  Keeping'
<1>1. tasks \in [Slots -> Task] /\ reg \in [Names -> Adapters \cup {Absent}]
  BY DEF Sound, CallsSound
<1>2. PICK k \in Task : Called(t, n, k)
  BY DestroyCalledCases
<1>3. tasks[t] = Idle /\ ~Contended(t, n) /\ UNCHANGED <<phase, file, reg>> /\ phase # "down"
  BY <1>2 DEF Called
<1>4. /\ Put(t, k) /\ k.leg = "destroy" /\ k.name = n /\ k.gone = {} /\ k.todo = {}
      /\ \/ reg[n] = Absent /\ k.at = "returned"
         \/ reg[n] # Absent /\ k.at = "stop"
      /\ \/ owed' = owed \ {n} /\ k.job = "destroy"
         \/ reg[n] # Absent /\ owed' = owed /\ k.job = "update"
  BY <1>2 DEF Called
<1>5. Turns(t, k)
  BY <1>1, <1>4, CallGoesOn DEF Turns
<1>6. \A u \in Slots \ {t} : n \notin {tasks[u].name} \cup tasks[u].gone \cup tasks[u].todo
  BY <1>3 DEF Contended, Others
<1>7. Begins(t, k)
  BY <1>4, <1>6 DEF Begins, Loops
<1>8. ~Saves(k) /\ tasks[t].at # "write" /\ ~Remakes(tasks[t])
  BY <1>3, <1>4 DEF Saves, Idle, Remakes
<1>9. Removes(k) \cap owed' = {} /\ owed' \subseteq owed
  BY <1>4 DEF Removes
<1>10. phase \in {"down", "loading"} => k.at \in {"none", "returned"} /\ k.job \in {"none", "destroy"}
  BY <1>3, <1>4, NothingIsHeld DEF Keeping, StartsEmpty
<1>11. k.at # "load" /\ k.job # "restore" /\ ~(k.job = "update" /\ k.leg = "destroy" /\ k.at # "stop")
  BY <1>4
<1>12. \A m \in Names : reg'[m] = reg[m] \/ reg'[m] = Absent
  BY <1>3
<1>13. UNCHANGED <<phase, file>> /\ UNCHANGED reg
  BY <1>3
<1> QED
  BY <1>5, <1>7, <1>8, <1>9, <1>10, <1>11, <1>12, <1>13, FadingKeeps

\* A client the users create.
LEMMA CreateCalledKeeps ==
  ASSUME Sound, Keeping, ~disturbed', NEW t \in Slots, NEW n \in Names, NEW c \in Configs, CreateCalled(t, n, c)
  PROVE  Keeping'
<1> PICK made : made = Call("create", n, c)
  OBVIOUS
<1>1. /\ Creates(made) /\ made.job = "create" /\ made.name = n /\ made.todo = {} /\ made.gone = {}
      /\ tasks[t] = Idle /\ Create(t, made, restoring, persisted, Contended(t, n)) /\ phase # "down"
      /\ UNCHANGED <<phase, file, owed>>
  BY CallsAreMade DEF CreateCalled, Serving, store
<1>2. restoring \in BOOLEAN /\ persisted \in Contents /\ Contended(t, n) \in BOOLEAN
  BY DEF Sound, CallsSound, Contended
<1>3. PICK k \in Task : Created(t, k, made, restoring, persisted, Contended(t, n))
  BY <1>1, <1>2, CreateCases
<1>4. Contended(t, n) = FALSE
  BY <1>3, <1>2 DEF Created, Notes
<1>5. Created(t, k, made, restoring, persisted, FALSE)
  BY <1>3, <1>4
<1>6. k.job = "create" /\ k.leg = "create" /\ k.name = n /\ k.gone = {} /\ k.todo = {} /\ k.at # "threw"
  BY <1>1, <1>3 DEF Created, Notes
<1>7. \A u \in Slots \ {t} : n \notin {tasks[u].name} \cup tasks[u].gone \cup tasks[u].todo
  BY <1>4 DEF Contended, Others
<1>8. Begins(t, k)
  BY <1>6, <1>7 DEF Begins, Loops
<1>9. ~Saves(tasks[t]) /\ ~Remakes(tasks[t]) /\ WellFormed(tasks[t])
  BY <1>1, IdleIsCall DEF Saves, Remakes, Idle
<1> QED
  BY <1>1, <1>2, <1>5, <1>6, <1>7, <1>8, <1>9, CreateKeeps

\* An update creates its client again.
LEMMA UpdateGoesOnKeeps ==
  ASSUME Sound, Keeping, ~disturbed', NEW t \in Slots, UpdateGoesOn(t)
  PROVE  Keeping'
<1> PICK made : made = tasks[t]
  OBVIOUS
<1>1. made \in Task /\ WellFormed(made) /\ restoring \in BOOLEAN /\ persisted \in Contents
      /\ (made # Idle => phase # "down")
  BY DEF Sound, CallsSound, StartsClean
<1>2. /\ Creates(made) /\ made.job = "update" /\ made.leg = "destroy" /\ made.at = "returned"
      /\ made.gone = {} /\ made.todo = {} /\ Create(t, made, restoring, persisted, FALSE)
      /\ UNCHANGED <<phase, file, owed>> /\ phase # "down"
  <2>1. /\ made.job = "update" /\ made.leg = "destroy" /\ made.at = "returned" /\ made # Idle
        /\ UNCHANGED <<phase, file, owed>>
    BY DEF UpdateGoesOn, store, Idle
  <2>2. Create(t, made, restoring, persisted, FALSE)
    BY DEF UpdateGoesOn
  <2>3. made.gone = {} /\ made.todo = {}
    BY <1>1, <2>1 DEF WellFormed
  <2>4. Creates(made)
    BY <1>1, <2>1 DEF Creates, WellFormed, Task
  <2> QED
    BY <1>1, <2>1, <2>2, <2>3, <2>4
<1>3. PICK k \in Task : Created(t, k, made, restoring, persisted, FALSE)
  BY <1>1, <1>2, CreateCases
<1>4. k.job = "update" /\ k.leg = "create" /\ k.name = made.name /\ k.gone = {} /\ k.todo = {} /\ k.at # "threw"
  BY <1>2, <1>3 DEF Created, Notes
<1>5. ~Saves(tasks[t]) /\ Remakes(tasks[t]) /\ reg[made.name] = Absent
  BY <1>2 DEF Saves, Remakes, Keeping, RemadeIsGone
<1>6. Fades(k, tasks[t])
  <2>1. Removes(k) = {} /\ ~Loops(k)
    BY <1>4 DEF Removes, Loops
  <2> QED
    BY <1>4, <1>5, <2>1 DEF Fades
<1>7. \A u \in Slots \ {t} : Remakes(tasks[u]) => tasks[u].name # k.name
  BY <1>4, <1>5 DEF Keeping, CallsApart
<1>8. phase' \in {"down", "loading"} => k.job = "create" /\ phase # "down"
  BY <1>2 DEF Keeping, StartsEmpty
<1> QED
  BY <1>1, <1>2, <1>3, <1>4, <1>5, <1>6, <1>7, <1>8, CreateKeeps

\* A call users make to update a client's prefix, which is saved.
Prefixed(t, n, k) ==
  /\ Put(t, k) /\ WellFormed(k) /\ k.job = "prefix" /\ k.leg = "prefix" /\ k.at = "save" /\ k.name = n
  /\ k.gone = {} /\ k.todo = {} /\ k.snap = persisted' /\ persisted' \in Contents
  /\ persisted[n] # Absent /\ persisted'[n] # Absent
  /\ \A m \in Names : m # n => persisted'[m] = persisted[m]
  /\ ~PersistDisturbs(t) /\ tasks[t] = Idle /\ UNCHANGED <<phase, reg, file, changed, owed>> /\ phase # "down"
  /\ reg[n] # Absent

\* updateClient with a prefix alone saves it, of a client that is kept.
LEMMA PrefixCalledCases ==
  ASSUME Sound, ~disturbed', NEW t \in Slots, NEW n \in Names, NEW c \in Configs, PrefixCalled(t, n, c)
  PROVE  UNCHANGED <<phase, reg, file, changed, owed, persisted, tasks>> \/ \E k \in Task : Prefixed(t, n, k)
<1> DEFINE contents == [persisted EXCEPT ![n] = c]
           k == [Call("prefix", n, c) EXCEPT !.leg = "prefix", !.at = "save", !.snap = contents]
<1>1. CASE UNCHANGED <<persisted, tasks, disturbed>>
  BY <1>1 DEF PrefixCalled, store
<1>2. CASE /\ persisted[n] # Absent
           /\ Persist(t, [Call("prefix", n, c) EXCEPT !.leg = "prefix"], [persisted EXCEPT ![n] = c])
           /\ Notes(PersistDisturbs(t))
  <2>1. persisted \in Contents
    BY DEF Sound, CallsSound
  <2>2. contents \in Contents /\ contents[n] # Absent /\ \A m \in Names : m # n => contents[m] = persisted[m]
    BY <2>1, ManagerAssumption DEF Contents
  <2>3. k \in Task /\ k.job = "prefix" /\ k.leg = "prefix" /\ k.at = "save" /\ k.name = n /\ k.gone = {}
        /\ k.todo = {} /\ k.snap = contents
    BY <2>2, NothingIsHeld DEF Call, Idle, Task, Job, Leg, At
  <2>4. WellFormed(k)
    BY <2>3 DEF WellFormed
  <2>5. Put(t, k) /\ ~PersistDisturbs(t) /\ persisted' = contents
    BY <1>2 DEF Persist, Call, Idle, Notes
  <2>6. tasks[t] = Idle /\ UNCHANGED <<phase, reg, file, changed, owed>> /\ phase # "down" /\ reg[n] # Absent
    BY DEF PrefixCalled, store, Serving
  <2> HIDE DEF k, contents
  <2> QED
    BY <1>2, <2>2, <2>3, <2>4, <2>5, <2>6 DEF Prefixed
<1> QED
  BY <1>1, <1>2 DEF PrefixCalled

\* A prefix is saved with everything that is owed.
LEMMA PrefixCalledKeeps ==
  ASSUME Sound, Keeping, NEW t \in Slots, NEW n \in Names, NEW k \in Task, Prefixed(t, n, k)
  PROVE  Keeping'
<1>1. persisted \in Contents /\ tasks \in [Slots -> Task] /\ \A u \in Slots : WellFormed(tasks[u])
  BY DEF Sound, CallsSound
<1>2. Held(persisted) \subseteq Held(persisted')
  BY DEF Prefixed, Held
<1>3. k.job = "prefix" /\ k.leg = "prefix" /\ k.at = "save" /\ k.name = n /\ k.gone = {} /\ k.todo = {}
      /\ k.snap = persisted'
  BY DEF Prefixed
<1>4. Put(t, k) /\ ~PersistDisturbs(t) /\ tasks[t] = Idle /\ UNCHANGED <<phase, reg, file, owed>> /\ phase # "down"
  BY DEF Prefixed
<1>5. Turns(t, k)
  BY <1>1, <1>3, <1>4, CallGoesOn DEF Turns
<1>6. ~Saves(tasks[t]) /\ ~Remakes(tasks[t]) /\ tasks[t].at = "none"
  BY <1>4 DEF Saves, Remakes, Idle
<1>7. NobodySaves /\ phase \notin {"loading", "restoring"} /\ owed \ Remade \subseteq Held(k.snap)
  BY <1>2, <1>3, <1>4, <1>6, SaveFinds
<1>8. Removes(k) = {} /\ ~Loops(k) /\ ~Remakes(k)
  BY <1>3 DEF Removes, Stops, Loops, Remakes
<1>9. Fades(k, tasks[t])
  BY <1>3, <1>8 DEF Fades
<1>10. CallsApart'
  BY <1>1, <1>3, <1>5, <1>7, <1>9, TurnKeepsApart DEF Keeping
<1>11. StartsEmpty'
  BY <1>1, <1>3, <1>4, <1>5, <1>7, TurnKeepsEmpty DEF Keeping
<1>12. RemadeIsGone'
  BY <1>1, <1>3, <1>4, <1>5, TurnKeepsGone DEF Keeping
<1>13. FileKeeps'
  BY <1>1, <1>3, <1>4, <1>5, <1>6, <1>7, <1>8, TurnKeepsFile DEF Keeping
<1> QED
  BY <1>10, <1>11, <1>12, <1>13 DEF Keeping

\* At first what is owed is what the file holds.
THEOREM InitKeeps == Init => Keeping
<1> SUFFICES ASSUME Init PROVE Keeping
  OBVIOUS
<1>1. /\ Idle.job = "none" /\ Idle.at = "none" /\ Idle.leg = "none" /\ Idle.gone = {} /\ Idle.todo = {}
      /\ \A t \in Slots : tasks[t] = Idle
  BY DEF Init, Idle
<1>2. \A t \in Slots : ~Saves(tasks[t]) /\ ~Loops(tasks[t]) /\ ~Remakes(tasks[t]) /\ Removes(tasks[t]) = {}
  BY <1>1 DEF Saves, Loops, Remakes, Removes, Stops
<1>3. CallsApart
  BY <1>1, <1>2 DEF CallsApart
<1>4. StartsEmpty /\ RemadeIsGone
  BY <1>1 DEF Init, StartsEmpty, RemadeIsGone
<1>5. FileKeeps
  BY <1>2 DEF Init, FileKeeps
<1> QED
  BY <1>3, <1>4, <1>5 DEF Keeping

\* What is owed stays in the file in every step of an undisturbed run.
THEOREM StepKeeps == Sound /\ Keeping /\ ~disturbed' /\ [Next]_vars => Keeping'
<1> SUFFICES ASSUME Sound, Keeping, ~disturbed', [Next]_vars PROVE Keeping'
  OBVIOUS
<1>1. ASSUME NEW t \in Slots
      PROVE  /\ tasks[t] \in Task /\ WellFormed(tasks[t]) /\ (tasks[t] # Idle => phase # "down")
             /\ tasks[t].at = "load" => tasks[t].job = "restore"
  BY CallsAreInside DEF Sound, CallsSound, StartsClean
<1>2. /\ Idle \in Task /\ Idle.job = "none" /\ Idle.at = "none" /\ Idle.leg = "none" /\ Idle.gone = {}
      /\ Idle.todo = {} /\ ~Saves(Idle) /\ ~Loops(Idle) /\ ~Remakes(Idle) /\ Removes(Idle) = {}
  BY IdleIsCall DEF Idle, Saves, Loops, Remakes, Removes, Stops
<1>3. tasks \in [Slots -> Task] /\ persisted \in Contents
  BY DEF Sound, CallsSound
<1>4. ASSUME NEW t \in Slots, Boot(t) PROVE Keeping'
  <2> DEFINE k == [Idle EXCEPT !.job = "restore", !.at = "load"]
  <2>1. k \in Task /\ k.at = "load" /\ k.job = "restore" /\ k.leg = "none" /\ k.gone = {} /\ k.todo = {}
    BY IdleIsCall DEF Task, Job, At, Idle
  <2>2. Put(t, k) /\ UNCHANGED <<reg, file, owed>> /\ phase = "down" /\ phase' = "loading"
        /\ \A u \in Slots : tasks[u] = Idle
    BY <1>4 DEF Boot, memory, store, Sound, StartsClean
  <2> HIDE DEF k
  <2>3. Turns(t, k)
    BY <1>3, <2>1, <2>2, CallGoesOn DEF Turns
  <2>4. ~Saves(k) /\ Loops(k) /\ ~Remakes(k) /\ Removes(k) = {}
    BY <2>1 DEF Saves, Loops, Remakes, Removes, Stops
  <2>5. CallsApart'
    BY <1>2, <1>3, <2>1, <2>2, <2>3, <2>4, TurnKeepsApart DEF Keeping, Alone
  <2>6. StartsEmpty'
    BY <1>2, <2>1, <2>2, <2>3, <2>4 DEF Keeping, StartsEmpty, Turns, NobodySaves
  <2>7. RemadeIsGone'
    BY <1>2, <2>1, <2>2, <2>3 DEF RemadeIsGone, Turns
  <2>8. FileKeeps'
    BY <1>2, <1>3, <2>1, <2>2, <2>3, <2>4, TurnKeepsFile DEF Keeping
  <2> QED
    BY <2>5, <2>6, <2>7, <2>8 DEF Keeping
<1>5. ASSUME NEW t \in Slots, LoadFails(t) \/ LoadsNothing(t) \/ SaveFails(t) PROVE Keeping'
  BY <1>5 DEF LoadFails, LoadsNothing, SaveFails, Notes
<1>6. ASSUME NEW t \in Slots, Loads(t) PROVE Keeping'
  <2> DEFINE task == [tasks[t] EXCEPT !.wanted = file, !.todo = Held(file)]
  <2>1. /\ tasks[t].job = "restore" /\ phase = "loading" /\ file # Torn /\ file \in Contents
        /\ UNCHANGED <<file, changed, owed>>
    BY <1>1, <1>6 DEF Loads, Keeping, StartsEmpty, Sound
  <2>2. Restores(task)
    BY <1>1, <2>1 DEF Restores, Task, Held, WellFormed
  <2> HIDE DEF task
  <2>3. RestoreRuns(t, task, persisted)
    BY <1>6 DEF Loads, task
  <2> QED
    BY <1>3, <2>1, <2>2, <2>3, RestoreKeeps
<1>7. ASSUME NEW t \in Slots, RestoreGoesOn(t) PROVE Keeping'
  <2> PICK task : task = tasks[t]
    OBVIOUS
  <2>1. /\ Restores(task) /\ task.todo \subseteq tasks[t].todo /\ tasks[t].job = "restore"
        /\ RestoreRuns(t, task, Kept(tasks[t]))
        /\ UNCHANGED <<file, changed, owed>>
    BY <1>1, <1>7 DEF RestoreGoesOn, Returned, Restores, WellFormed
  <2> PICK kept : kept = Kept(tasks[t])
    OBVIOUS
  <2>2. kept \in Contents /\ RestoreRuns(t, task, kept)
    BY <2>1, KeptIsContents DEF Sound
  <2>3. phase # "loading"
    BY <1>7 DEF RestoreGoesOn, Returned, Keeping, StartsEmpty
  <2> QED
    BY <2>1, <2>2, <2>3, RestoreKeeps
<1>8. ASSUME NEW t \in Slots, SyncStarts(t) PROVE Keeping'
  <2>1. tasks[t] = Idle /\ phase \notin {"down", "loading"} /\ UNCHANGED <<phase, file, watching, owed>>
    BY <1>8 DEF SyncStarts, Sound, StartsClean
  <2>2. CASE UNCHANGED <<memory, tasks, disturbed>>
    <3>1. CallsApart' /\ StartsEmpty' /\ RemadeIsGone'
      BY <2>1, <2>2 DEF memory, Keeping, CallsApart, StartsEmpty, RemadeIsGone, NobodySaves
    <3>2. FileKeeps'
      BY <2>1, <2>2 DEF memory, Keeping, FileKeeps, Remade, Held
    <3> QED
      BY <3>1, <3>2 DEF Keeping
  <2>3. CASE file # Torn
             /\ SyncRuns(t, [Idle EXCEPT !.job = "sync", !.wanted = file,
                                         !.gone = Held(persisted) \ Held(file),
                                         !.todo = Held(file)], persisted, Stale(t))
    <3> DEFINE task == [Idle EXCEPT !.job = "sync", !.wanted = file,
                                    !.gone = Held(persisted) \ Held(file), !.todo = Held(file)]
    <3>1. Syncs(task)
      BY <2>3, IdleIsCall DEF Syncs, Idle, Task, Held, Job, Sound
    <3>2. Stale(t) \in BOOLEAN
      BY DEF Stale
    <3>3. task.gone = Held(persisted) \ Held(file) /\ task.todo = Held(file)
      BY DEF Idle
    <3> HIDE DEF task
    <3>4. SyncRuns(t, task, persisted, Stale(t))
      BY <2>3 DEF task
    <3>5. ~Stale(t)
      BY <3>4 DEF SyncRuns, Create, Notes
    <3>6. \/ task.gone = {} /\ \A n \in task.todo : persisted[n] # Absent
          \/ Others(t) = {Idle}
      BY <3>3, <3>5 DEF Stale, Held
    <3>7. Others(t) = {Idle} => \A u \in Slots : tasks[u] = Idle
      BY <2>1 DEF Others
    <3>8. task.gone \cap owed = {}
      <4>1. owed \ Remade \subseteq Held(file)
        BY <2>3 DEF Keeping, FileKeeps
      <4>2. CASE \A u \in Slots : tasks[u] = Idle
        BY <1>2, <3>3, <4>1, <4>2 DEF Remade
      <4> QED
        BY <3>6, <3>7, <4>2
    <3>9. ~Saves(tasks[t]) /\ ~Remakes(tasks[t])
      BY <1>2, <2>1
    <3>10. \/ task.gone = {} /\ \A n \in task.todo : persisted[n] # Absent
           \/ \A u \in Slots \ {t} : tasks[u].job \in {"none", "destroy"}
      BY <1>2, <3>6, <3>7
    <3> QED
      BY <1>3, <2>1, <3>1, <3>2, <3>4, <3>8, <3>9, <3>10, SyncKeeps
  <2> QED
    BY <1>8, <2>2, <2>3 DEF SyncStarts
<1>9. ASSUME NEW t \in Slots, SyncGoesOn(t) PROVE Keeping'
  <2>1. /\ Syncs(tasks[t]) /\ tasks[t].job = "sync" /\ tasks[t].at \in {"returned", "threw"}
        /\ SyncRuns(t, tasks[t], Kept(tasks[t]), FALSE) /\ UNCHANGED <<phase, file, watching, owed>>
    BY <1>1, <1>9 DEF SyncGoesOn, Returned, Syncs, WellFormed, store
  <2>2. Kept(tasks[t]) \in Contents
    BY KeptIsContents DEF Sound
  <2>3. ~Saves(tasks[t]) /\ ~Remakes(tasks[t]) /\ Loops(tasks[t])
    BY <2>1 DEF Saves, Remakes, Loops
  <2>4. phase \notin {"down", "loading"}
    BY <2>1 DEF Keeping, StartsEmpty
  <2>5. tasks[t].gone \cap owed = {}
    BY DEF Keeping, FileKeeps, Removes
  <2> QED
    BY <2>1, <2>2, <2>3, <2>4, <2>5, SyncKeeps
<1>10. ASSUME NEW t \in Slots, WriteBegins(t) \/ WriteEnds(t) PROVE Keeping'
  BY <1>10, WriteBeginsKeeps, WriteEndsKeeps
<1>11. ASSUME NEW t \in Slots, InitializeEnds(t) PROVE Keeping'
  <2> PICK k : k = [tasks[t] EXCEPT !.at = "returned"]
    OBVIOUS
  <2>1. /\ k \in Task /\ k.at = "returned" /\ k.job = tasks[t].job /\ k.leg = tasks[t].leg /\ k.name = tasks[t].name
        /\ k.gone = tasks[t].gone /\ k.todo = tasks[t].todo /\ tasks[t].at = "init" /\ tasks[t].leg \in {"create", "none"}
        /\ Put(t, k) /\ UNCHANGED <<phase, reg, file, owed>> /\ k.leg = "create"
    BY <1>1, <1>11, AwaitedIsCall DEF InitializeEnds, memory, store, WellFormed, Task, Leg
  <2>2. Turns(t, k)
    BY <1>3, <2>1, CallGoesOn DEF Turns
  <2>3. ~Saves(k) /\ Removes(k) \subseteq Removes(tasks[t]) /\ (Remakes(k) <=> Remakes(tasks[t]))
        /\ (Loops(k) <=> Loops(tasks[t]))
    BY <2>1 DEF Saves, Removes, Stops, Remakes, Loops
  <2>4. Fades(k, tasks[t])
    BY <2>1, <2>3 DEF Fades
  <2>5. phase \notin {"down", "loading"}
    BY <2>1 DEF Keeping, StartsEmpty
  <2>6. Removes(k) \cap owed' = {}
    BY <2>1, <2>3 DEF Keeping, FileKeeps
  <2> QED
    BY <2>1, <2>2, <2>3, <2>4, <2>5, <2>6, FadingKeeps
<1>12. ASSUME NEW t \in Slots, DestroyEnds(t) PROVE Keeping'
  BY <1>12, DestroyEndsKeeps
<1>13. ASSUME NEW t \in Slots, UpdateGoesOn(t) PROVE Keeping'
  BY <1>13, UpdateGoesOnKeeps
<1>14. ASSUME NEW t \in Slots, CallReturns(t) PROVE Keeping'
  <2>1. /\ tasks[t].at = "returned" /\ ~Loops(tasks[t]) /\ Put(t, Idle) /\ UNCHANGED <<phase, reg, file, owed>>
        /\ ~(tasks[t].job = "update" /\ tasks[t].leg = "destroy")
    BY <1>14 DEF CallReturns, memory, store, Keeping, CallsApart, Loops
  <2>2. ~Remakes(tasks[t])
    BY <1>1, <2>1 DEF Remakes, WellFormed, Task, Leg
  <2>3. Turns(t, Idle)
    BY <1>2, <1>3, <2>1, CallGoesOn DEF Turns
  <2>4. Fades(Idle, tasks[t])
    BY <1>2 DEF Fades
  <2> QED
    BY <1>2, <2>1, <2>2, <2>3, <2>4, FadingKeeps
<1>15. ASSUME NEW t \in Slots, NEW n \in Names, DestroyCalled(t, n) PROVE Keeping'
  BY <1>15, DestroyCalledKeeps
<1>16. ASSUME NEW t \in Slots, NEW n \in Names, NEW c \in Configs, CreateCalled(t, n, c) PROVE Keeping'
  BY <1>16, CreateCalledKeeps
<1>17. ASSUME NEW t \in Slots, NEW n \in Names, NEW c \in Configs, UpdateCalled(t, n, c) PROVE Keeping'
  BY <1>17, DestroyCalledKeeps
<1>18. ASSUME UNCHANGED <<phase, reg, file, owed, tasks>> PROVE Keeping'
  <2>1. CallsApart' /\ StartsEmpty' /\ RemadeIsGone'
    BY <1>18 DEF Keeping, CallsApart, StartsEmpty, RemadeIsGone, NobodySaves
  <2>2. FileKeeps'
    BY <1>18 DEF Keeping, FileKeeps, Remade, Held
  <2> QED
    BY <2>1, <2>2 DEF Keeping
<1>19. ASSUME NEW t \in Slots, NEW n \in Names, NEW c \in Configs, PrefixCalled(t, n, c) PROVE Keeping'
  BY <1>18, <1>19, PrefixCalledCases, PrefixCalledKeeps
<1>20. ASSUME NEW contents \in Contents, Edit(contents) PROVE Keeping'
  <2>1. /\ \A t \in Slots : tasks[t] = Idle
        /\ UNCHANGED <<phase, reg, tasks>> /\ file' = contents /\ owed' = Held(contents) /\ contents # Torn
    BY <1>20, ManagerAssumption DEF Edit, Notes, memory, Contents
  <2>2. CallsApart' /\ StartsEmpty' /\ RemadeIsGone'
    BY <2>1 DEF Keeping, CallsApart, StartsEmpty, RemadeIsGone, NobodySaves
  <2>3. FileKeeps'
    BY <1>2, <2>1 DEF FileKeeps, Held
  <2> QED
    BY <2>2, <2>3 DEF Keeping
<1>21. ASSUME NEW n \in Names, Unregisters(n) PROVE Keeping'
  <2>1. phase = "stopping" /\ reg' = [reg EXCEPT ![n] = Absent] /\ UNCHANGED <<phase, file, owed, tasks>>
    BY <1>21 DEF Unregisters, store
  <2>2. CallsApart' /\ StartsEmpty'
    BY <2>1 DEF Keeping, CallsApart, StartsEmpty, NobodySaves
  <2>3. RemadeIsGone'
    BY <1>1, <2>1 DEF Keeping, RemadeIsGone, WellFormed, Sound, CallsSound
  <2>4. FileKeeps'
    BY <2>1 DEF Keeping, FileKeeps, Remade, Held
  <2> QED
    BY <2>2, <2>3, <2>4 DEF Keeping
<1>22. CASE Shutdown
  <2>1. phase = "running" /\ phase' = "stopping" /\ UNCHANGED <<reg, file, owed, tasks>>
    BY <1>22 DEF Shutdown
  <2>2. CallsApart' /\ StartsEmpty' /\ RemadeIsGone'
    BY <2>1 DEF Keeping, CallsApart, StartsEmpty, RemadeIsGone, Sound, StartsClean
  <2>3. FileKeeps'
    BY <2>1 DEF Keeping, FileKeeps, Remade, Held
  <2> QED
    BY <2>2, <2>3 DEF Keeping
<1>23. CASE ProcessEnds
  <2>1. /\ phase' = "down" /\ reg' = Nothing /\ UNCHANGED <<file, owed>> /\ Updating = {}
        /\ \A t \in Slots : tasks'[t] = Idle
    BY <1>23 DEF ProcessEnds, Notes
  <2>2. CallsApart' /\ StartsEmpty' /\ RemadeIsGone'
    BY <1>2, <2>1 DEF CallsApart, StartsEmpty, RemadeIsGone
  <2>3. Remade = {}
    BY <2>1 DEF Remade, Updating, Remakes
  <2>4. FileKeeps'
    BY <1>2, <2>1, <2>3 DEF Keeping, FileKeeps, Held
  <2> QED
    BY <2>2, <2>4 DEF Keeping
<1>24. CASE UNCHANGED vars
  BY <1>18, <1>24 DEF vars, memory, store
<1> QED
  BY <1>4, <1>5, <1>6, <1>7, <1>8, <1>9, <1>10, <1>11, <1>12, <1>13, <1>14, <1>15, <1>16, <1>17,
     <1>19, <1>20, <1>21, <1>22, <1>23, <1>24 DEF Next

\* What is asked for is in the file at every moment the process could die.
THEOREM ClientsAreKept == Spec => []KeptAcrossCrashes
<1> DEFINE KInv == Sound /\ (~disturbed => Keeping)
<1>1. Init => KInv
  BY InitSound, InitKeeps
<1>2. KInv /\ [Next]_vars => KInv'
  <2> SUFFICES ASSUME KInv, [Next]_vars, ~disturbed' PROVE Keeping'
    BY StepKeepsSound
  <2>1. ~disturbed
    BY DisturbedStays
  <2> QED
    BY <2>1, StepKeeps
<1>3. KInv => KeptAcrossCrashes
  <2> SUFFICES ASSUME Keeping PROVE KeptAcrossCrashes
    BY DEF KeptAcrossCrashes
  <2>1. Remade \subseteq Updating
    BY DEF Remade, Updating, Remakes
  <2> QED
    BY <2>1 DEF Keeping, FileKeeps, KeptAcrossCrashes
<1> QED
  BY <1>1, <1>2, <1>3, PTL DEF Spec

-----------------------------------------------------------------------------
(* What is registered is what is kept, and the file follows: up to what a loop is about to
   add or a call is about to remove, an edit that waits, and the save in flight. *)

\* A loop has created this client and not put it among the kept ones yet.
Adds(k) == Loops(k) /\ k.leg = "create" /\ k.at \in {"init", "returned"}

\* Nobody adds a client that another call is stopping.
StopsApart ==
  \A t, u \in Slots : Stops(tasks[u]) =>
    /\ tasks[u].name \notin tasks[t].todo
    /\ Adds(tasks[t]) => tasks[t].name # tasks[u].name

RegisteredIsKept ==
  \A n \in Names : reg[n] # Absent <=>
    persisted[n] # Absent \/ \E t \in Slots : Adds(tasks[t]) /\ tasks[t].name = n

SavesTheMap == \A t \in Slots : Saves(tasks[t]) => Held(tasks[t].snap) = Held(persisted)

\* What a loop is about to add is in the file, and nobody saves meanwhile.
AddsFromFile ==
  \A t \in Slots : Loops(tasks[t]) =>
    /\ Adds(tasks[t]) =>
         /\ NobodySaves /\ tasks[t].name \in Held(file)
         /\ tasks[t].job = "sync" => persisted[tasks[t].name] = Absent
    /\ \A n \in tasks[t].todo : persisted[n] = Absent => NobodySaves /\ n \in Held(file)
    /\ tasks[t].leg = "destroy" => \A n \in tasks[t].todo : persisted[n] # Absent
    /\ tasks[t].job = "restore" => tasks[t].todo \subseteq Held(file)

FileAgrees ==
  ~changed /\ NobodySaves =>
    /\ \A n \in Held(file) \ Held(persisted) : \E t \in Slots :
         n \in tasks[t].todo \/ (Adds(tasks[t]) /\ tasks[t].name = n)
    /\ \A n \in Held(persisted) \ Held(file) : \E t \in Slots : n \in Removes(tasks[t])

\* An edit that waits for the sync removes or adds.
EditIsPlain ==
  changed /\ NobodySaves => Held(file) \subseteq Held(persisted) \/ Held(persisted) \subseteq Held(file)

Agreeing ==
  /\ phase \in {"down", "loading"} => persisted = Nothing
  /\ StopsApart
  /\ phase # "stopping" => RegisteredIsKept
  /\ phase \in {"restoring", "running"} => SavesTheMap /\ AddsFromFile /\ FileAgrees
  /\ phase = "running" => EditIsPlain

(* What changes for these properties when one call goes on. *)

\* A call that goes on, and neither saves, adds nor registers anything.
LEMMA FadingAgrees ==
  ASSUME Sound, Agreeing, NEW t \in Slots, NEW k \in Task, Turns(t, k), WellFormed(k),
         UNCHANGED <<phase, persisted, file, changed>>, phase # "stopping" => UNCHANGED reg,
         ~Saves(k), ~Saves(tasks[t]), k.todo = tasks[t].todo,
         Loops(k) => Loops(tasks[t]) /\ k.leg = tasks[t].leg, k.job = tasks[t].job \/ ~Loops(k),
         Adds(tasks[t]) \/ Adds(k) => Adds(k) /\ Adds(tasks[t]) /\ k.name = tasks[t].name,
         Removes(tasks[t]) \cap Held(persisted) \subseteq Removes(k),
         Stops(k) => \A u \in Slots : /\ k.name \notin tasks[u].todo
                                      /\ u # t /\ Adds(tasks[u]) => tasks[u].name # k.name
  PROVE  Agreeing'
<1> USE DEF Turns
<1>1. NobodySaves' <=> NobodySaves
  BY DEF NobodySaves
<1>2. \A u \in Slots : /\ Adds(tasks'[u]) <=> Adds(tasks[u])
                       /\ Adds(tasks[u]) => tasks'[u].name = tasks[u].name
                       /\ tasks'[u].todo = tasks[u].todo
                       /\ Loops(tasks'[u]) => Loops(tasks[u]) /\ tasks'[u].leg = tasks[u].leg
                                              /\ tasks'[u].job = tasks[u].job
  OBVIOUS
<1>3. Held(persisted)' = Held(persisted) /\ Held(file)' = Held(file)
  BY DEF Held
<1>4. StopsApart'
  <2> SUFFICES ASSUME NEW v \in Slots, NEW u \in Slots, Stops(tasks'[u])
               PROVE  /\ tasks'[u].name \notin tasks'[v].todo
                      /\ Adds(tasks'[v]) => tasks'[v].name # tasks'[u].name
    BY DEF StopsApart
  <2>1. CASE u # t
    BY <1>2, <2>1 DEF Agreeing, StopsApart
  <2>2. CASE u = t
    <3>1. ~Adds(k)
      BY <2>2 DEF Adds, Stops
    <3> QED
      BY <1>2, <2>2, <3>1
  <2> QED
    BY <2>1, <2>2
<1>5. phase # "stopping" => RegisteredIsKept'
  BY <1>2 DEF Agreeing, RegisteredIsKept
<1>6. SavesTheMap => SavesTheMap'
  BY <1>3 DEF SavesTheMap, Held
<1>7. AddsFromFile => AddsFromFile'
  BY <1>1, <1>2, <1>3 DEF AddsFromFile
<1>8. FileAgrees => FileAgrees'
  <2> SUFFICES ASSUME FileAgrees, ~changed, NobodySaves
               PROVE  /\ \A n \in Held(file) \ Held(persisted) : \E v \in Slots :
                            n \in tasks'[v].todo \/ (Adds(tasks'[v]) /\ tasks'[v].name = n)
                      /\ \A n \in Held(persisted) \ Held(file) : \E v \in Slots : n \in Removes(tasks'[v])
    BY <1>1, <1>3 DEF FileAgrees
  <2>1. ASSUME NEW n \in Held(file) \ Held(persisted)
        PROVE  \E v \in Slots : n \in tasks'[v].todo \/ (Adds(tasks'[v]) /\ tasks'[v].name = n)
    BY <1>2 DEF FileAgrees
  <2>2. ASSUME NEW n \in Held(persisted) \ Held(file)
        PROVE  \E v \in Slots : n \in Removes(tasks'[v])
    <3> PICK v \in Slots : n \in Removes(tasks[v])
      BY DEF FileAgrees
    <3> QED
      BY <2>2
  <2> QED
    BY <2>1, <2>2
<1>9. EditIsPlain => EditIsPlain'
  BY <1>1, <1>3 DEF EditIsPlain
<1> QED
  BY <1>4, <1>5, <1>6, <1>7, <1>8, <1>9 DEF Agreeing

\* A call that saves the map with its client put in or taken out.
LEMMA SavingAgrees ==
  ASSUME Sound, Agreeing, NEW t \in Slots, NEW k \in Task, Turns(t, k), WellFormed(k),
         UNCHANGED <<phase, file, changed>>, phase \notin {"down", "loading", "restoring"}, NobodySaves,
         Held(file) \subseteq Held(persisted), Saves(k), k.snap = persisted',
         k.todo = tasks[t].todo, Loops(k) => Loops(tasks[t]) /\ k.leg = tasks[t].leg,
         ~Adds(tasks[t]),
         \A n \in Names : n # k.name => (reg'[n] = reg[n] /\ persisted'[n] = persisted[n]),
         reg'[k.name] # Absent <=> persisted'[k.name] # Absent,
         persisted'[k.name] = Absent => Stops(tasks[t]) /\ tasks[t].name = k.name
  PROVE  Agreeing'
<1> USE DEF Turns
<1>1. ~NobodySaves' /\ ~Adds(k) /\ ~Stops(k)
  BY DEF NobodySaves, Adds, Stops, Saves
<1>2. \A u \in Slots : tasks[u].job # "restore"
  BY DEF Sound, StartsClean
<1>3. \A u \in Slots : Loops(tasks[u]) => tasks[u].todo \subseteq Names /\ (tasks[u].leg # "none" => tasks[u].name \in Names)
  BY DEF Sound, CallsSound, Task, WellFormed
<1>4. phase = "running" => \A u \in Slots : ~Adds(tasks[u])
  <2> SUFFICES ASSUME phase = "running", NEW u \in Slots, Adds(tasks[u]) PROVE FALSE
    OBVIOUS
  <2>1. tasks[u].name \in Held(file) /\ persisted[tasks[u].name] = Absent
    BY <1>2 DEF Agreeing, AddsFromFile, Adds, Loops
  <2> QED
    BY <2>1 DEF Held
<1>5. StopsApart'
  BY <1>1 DEF Agreeing, StopsApart
<1>6. phase = "running" => RegisteredIsKept'
  <2> SUFFICES ASSUME phase = "running", NEW n \in Names
               PROVE  reg'[n] # Absent <=> persisted'[n] # Absent
    BY <1>1, <1>4 DEF RegisteredIsKept
  <2>1. reg[n] # Absent <=> persisted[n] # Absent
    BY <1>4 DEF Agreeing, RegisteredIsKept
  <2> QED
    BY <2>1
<1>7. SavesTheMap'
  BY DEF SavesTheMap, NobodySaves, Held
<1>8. phase = "running" => AddsFromFile'
  <2> SUFFICES ASSUME phase = "running", NEW u \in Slots, Loops(tasks'[u])
               PROVE  /\ ~Adds(tasks'[u]) /\ tasks'[u].job # "restore"
                      /\ \A n \in tasks'[u].todo : persisted'[n] # Absent
    BY <1>1 DEF AddsFromFile
  <2>1. Loops(tasks[u]) /\ ~Adds(tasks'[u]) /\ tasks'[u].todo = tasks[u].todo
    BY <1>1, <1>4
  <2>2. ASSUME NEW n \in tasks[u].todo PROVE persisted'[n] # Absent
    <3>1. n \in Names /\ persisted[n] # Absent
      BY <1>3, <2>1 DEF Agreeing, AddsFromFile, Held
    <3>2. persisted'[n] = Absent => n = k.name
      BY <3>1
    <3> QED
      BY <3>2 DEF Agreeing, StopsApart
  <2>3. tasks'[u].job # "restore"
    BY <1>2 DEF WellFormed, Task, Leg, Saves
  <2> QED
    BY <2>1, <2>2, <2>3
<1>9. FileAgrees' /\ EditIsPlain'
  BY <1>1 DEF FileAgrees, EditIsPlain
<1> QED
  BY <1>5, <1>6, <1>7, <1>8, <1>9, <1>2 DEF Agreeing, Sound

(* The loops.  By then kept is the map with what the loop has added, and no other call is a loop. *)
GoesOn(t, task, kept) ==
  /\ \A u \in Slots \ {t} : ~Loops(tasks[u])
  /\ ~Saves(tasks[t]) /\ ~Stops(tasks[t]) /\ kept \in Contents
  /\ \A u \in Slots \ {t} : Stops(tasks[u]) => tasks[u].name \notin task.todo
  /\ task.gone # {} => ~Adds(tasks[t])
  /\ \A n \in Names : kept[n] # Absent <=> persisted[n] # Absent \/ (Adds(tasks[t]) /\ tasks[t].name = n)
  /\ Adds(tasks[t]) /\ phase' # "stopping" => NobodySaves
  /\ phase' \in {"restoring", "running"} =>
       /\ \A n \in task.todo : kept[n] = Absent => NobodySaves /\ n \in Held(file)
       /\ task.gone # {} => \A n \in task.todo : kept[n] # Absent
       /\ ~changed' /\ NobodySaves =>
            /\ \A n \in Held(file) \ Held(kept) : n \in task.todo
            /\ \A n \in Held(kept) \ Held(file) : n \in task.gone \/ \E u \in Slots \ {t} : n \in Removes(tasks[u])
       /\ changed' /\ NobodySaves =>
            Held(file) \subseteq Held(kept) \/ Held(kept) \subseteq Held(file)

\* What is registered after a loop went on, when it leaves call k.
LEMMA OthersDoNotAdd ==
  ASSUME NEW t \in Slots, NEW k, NEW task, NEW kept, Turns(t, k), GoesOn(t, task, kept)
  PROVE  /\ \A u \in Slots : u # t => ~Adds(tasks[u]) /\ ~Adds(tasks'[u]) /\ ~Loops(tasks'[u])
         /\ ~Saves(k) => (NobodySaves' <=> NobodySaves)
BY DEF GoesOn, Turns, Adds, NobodySaves

\* A save in flight saves the map.
LEMMA LoopSaves ==
  ASSUME NEW t \in Slots, NEW k, NEW task, NEW kept, Turns(t, k), GoesOn(t, task, kept), ~Saves(k),
         persisted' = kept, SavesTheMap \/ NobodySaves, phase' # "stopping"
  PROVE  SavesTheMap'
<1> SUFFICES ASSUME NEW u \in Slots, Saves(tasks'[u]) PROVE Held(tasks'[u].snap) = Held(kept)
  BY DEF SavesTheMap, Held
<1>1. u # t /\ tasks'[u] = tasks[u] /\ ~NobodySaves
  BY DEF Turns, NobodySaves
<1>2. ~Adds(tasks[t])
  BY <1>1 DEF GoesOn
<1>3. Held(kept) = Held(persisted)
  BY <1>2 DEF GoesOn, Held
<1> QED
  BY <1>1, <1>3 DEF SavesTheMap, Held

\* The loop takes the next client out.
LEMMA LoopRemoves ==
  ASSUME Sound, Keeping, Agreeing, NEW t \in Slots, NEW task, Syncs(task), NEW kept, GoesOn(t, task, kept),
         NEW n \in task.gone, NEW k \in Task, Destroyed(t, k, Dropped(task, n)), persisted' = kept,
         UNCHANGED <<phase, file, reg>>, phase \notin {"down", "loading"}
  PROVE  Agreeing'
<1>1. /\ Dropped(task, n).job = "sync" /\ Dropped(task, n).name = n
      /\ Dropped(task, n).todo = task.todo /\ Dropped(task, n).gone = task.gone \ {n}
  BY LoopsGoOn DEF Syncs
<1>2. /\ k.job = "sync" /\ k.leg = "destroy" /\ k.name = n /\ k.todo = task.todo /\ k.gone = task.gone \ {n}
      /\ \/ reg[n] = Absent /\ k.at = "returned"
         \/ reg[n] # Absent /\ k.at = "stop"
      /\ Put(t, k)
  BY <1>1 DEF Destroyed
<1>3. Turns(t, k) /\ n \in Names /\ n \notin task.todo
  BY <1>2, CallGoesOn DEF Turns, Sound, CallsSound, Syncs, Task
<1>4. ~Saves(k) /\ ~Adds(k) /\ ~Adds(tasks[t]) /\ (reg[n] # Absent => n \in Removes(k)) /\ k.gone \subseteq Removes(k)
  BY <1>2 DEF Saves, Adds, Removes, Stops, GoesOn
<1>5. /\ \A u \in Slots : u # t => ~Adds(tasks[u]) /\ ~Loops(tasks'[u])
      /\ \A u \in Slots : ~Adds(tasks'[u]) /\ ~Adds(tasks[u])
      /\ NobodySaves' <=> NobodySaves
  BY <1>3, <1>4, OthersDoNotAdd DEF Turns
<1>6. \A m \in Names : kept[m] # Absent <=> persisted[m] # Absent
  BY <1>4 DEF GoesOn
<1>7. \A u \in Slots : u # t => tasks[u].todo = {}
  BY DEF GoesOn, Sound, CallsSound, WellFormed, Loops, Task, Job, Idle
<1>8. StopsApart'
  <2> SUFFICES ASSUME NEW v \in Slots, NEW u \in Slots, Stops(tasks'[u]) PROVE tasks'[u].name \notin tasks'[v].todo
    BY <1>5 DEF StopsApart
  <2> QED
    BY <1>2, <1>3, <1>7 DEF Turns, GoesOn
<1>9. phase # "stopping" => RegisteredIsKept'
  BY <1>5, <1>6 DEF Agreeing, RegisteredIsKept
<1>10. phase # "stopping" => SavesTheMap'
  BY <1>3, <1>4, LoopSaves DEF Agreeing, Sound
<1>11. phase \in {"restoring", "running"} => AddsFromFile'
  <2> SUFFICES ASSUME phase \in {"restoring", "running"}, NEW u \in Slots, Loops(tasks'[u])
               PROVE  /\ ~Adds(tasks'[u]) /\ tasks'[u].job # "restore"
                      /\ \A m \in tasks'[u].todo : persisted'[m] # Absent
    BY DEF AddsFromFile
  <2>1. u = t
    BY <1>5
  <2> QED
    BY <1>2, <1>3, <1>4, <2>1 DEF Turns, GoesOn
<1>12. phase \in {"restoring", "running"} => FileAgrees'
  <2> SUFFICES ASSUME phase \in {"restoring", "running"}, ~changed', NobodySaves
               PROVE  /\ \A m \in Held(file) \ Held(kept) : \E v \in Slots : m \in tasks'[v].todo
                      /\ \A m \in Held(kept) \ Held(file) : \E v \in Slots : m \in Removes(tasks'[v])
    BY <1>5 DEF FileAgrees, Held
  <2>1. \A m \in Held(file) \ Held(kept) : m \in k.todo
    BY <1>2 DEF GoesOn
  <2>2. ASSUME NEW m \in Held(kept) \ Held(file) PROVE \E v \in Slots : m \in Removes(tasks'[v])
    <3>1. CASE m \in task.gone
      <4>1. reg[m] # Absent
        BY <1>6 DEF Agreeing, RegisteredIsKept, Held
      <4>2. m \in Removes(k)
        BY <1>2, <1>4, <3>1, <4>1
      <4> QED
        BY <1>3, <4>2 DEF Turns
    <3>2. CASE \E u \in Slots \ {t} : m \in Removes(tasks[u])
      BY <1>3, <3>2 DEF Turns
    <3> QED
      BY <3>1, <3>2 DEF GoesOn
  <2> QED
    BY <1>3, <2>1, <2>2 DEF Turns
<1>13. phase = "running" => EditIsPlain'
  BY <1>5 DEF GoesOn, EditIsPlain, Held
<1> QED
  BY <1>8, <1>9, <1>10, <1>11, <1>12, <1>13 DEF Agreeing

\* The loop ends.
LEMMA LoopEnds ==
  ASSUME Sound, Agreeing, NEW t \in Slots, NEW task, NEW kept, GoesOn(t, task, kept), Put(t, Idle),
         task.gone = {}, \A n \in task.todo : kept[n] # Absent, persisted' = kept, UNCHANGED <<file, reg>>,
         phase' = phase \/ phase' = "running", phase \in {"loading", "restoring"} => NobodySaves,
         phase \in {"down", "stopping"} => phase' = phase,
         phase' \in {"down", "loading"} => kept = persisted
  PROVE  Agreeing'
<1>1. Turns(t, Idle) /\ ~Saves(Idle) /\ ~Loops(Idle) /\ ~Adds(Idle) /\ ~Stops(Idle) /\ Idle.todo = {}
  BY IdleIsCall, CallGoesOn DEF Sound, CallsSound, Turns, Saves, Loops, Adds, Stops, Idle
<1>2. /\ \A u \in Slots : ~Adds(tasks'[u]) /\ ~Loops(tasks'[u])
      /\ NobodySaves' <=> NobodySaves
      /\ \A u \in Slots : u # t => ~Adds(tasks[u])
  BY <1>1, OthersDoNotAdd DEF Turns
<1>3. StopsApart'
  BY <1>1, <1>2 DEF Agreeing, StopsApart, Turns
<1>4. phase' # "stopping" => RegisteredIsKept'
  BY <1>2 DEF Agreeing, RegisteredIsKept, GoesOn
<1>5. phase' \in {"restoring", "running"} => SavesTheMap'
  BY <1>1, LoopSaves DEF Agreeing, Sound
<1>6. AddsFromFile'
  BY <1>2 DEF AddsFromFile
<1>7. phase' \in {"restoring", "running"} => FileAgrees'
  <2> SUFFICES ASSUME phase' \in {"restoring", "running"}, ~changed', NobodySaves
               PROVE  /\ Held(file) \subseteq Held(kept)
                      /\ \A m \in Held(kept) \ Held(file) : \E v \in Slots : m \in Removes(tasks'[v])
    BY <1>2 DEF FileAgrees, Held
  <2>1. Held(file) \subseteq Held(kept)
    BY DEF GoesOn, Held
  <2>2. ASSUME NEW m \in Held(kept) \ Held(file) PROVE \E v \in Slots : m \in Removes(tasks'[v])
    BY <1>1 DEF GoesOn, Turns
  <2> QED
    BY <2>1, <2>2
<1>8. phase' = "running" => EditIsPlain'
  BY <1>2 DEF GoesOn, EditIsPlain, Held
<1> QED
  BY <1>3, <1>4, <1>5, <1>6, <1>7, <1>8 DEF Agreeing

\* The loop adds the next client.
LEMMA LoopAdds ==
  ASSUME Sound, Agreeing, NEW t \in Slots, NEW task, NEW kept, GoesOn(t, task, kept), task.gone = {},
         NEW n \in task.todo, n \in Names, NEW k \in Task, Turns(t, k), persisted' = kept, UNCHANGED file,
         Adds(k), k.name = n, k.todo = task.todo \ {n}, k.gone = {},
         k.job = "sync" => kept[n] = Absent, k.job = "restore" => NobodySaves /\ task.todo \subseteq Held(file),
         phase' = phase \/ phase' = "restoring", phase \notin {"down", "stopping"} \/ phase' = phase,
         phase' \notin {"down", "loading"}, phase = "loading" => NobodySaves,
         reg'[n] # Absent, \A m \in Names : m # n => reg'[m] = reg[m]
  PROVE  Agreeing'
<1>1. ~Saves(k) /\ ~Stops(k) /\ Loops(k) /\ k.leg = "create" /\ k.job \in {"restore", "sync"}
  BY DEF Adds, Saves, Stops, Loops
<1>2. /\ \A u \in Slots : u # t => ~Adds(tasks'[u]) /\ ~Loops(tasks'[u]) /\ ~Adds(tasks[u])
      /\ NobodySaves' <=> NobodySaves
  BY <1>1, OthersDoNotAdd DEF Turns
<1>3. StopsApart'
  <2> SUFFICES ASSUME NEW v \in Slots, NEW u \in Slots, Stops(tasks'[u])
               PROVE  /\ tasks'[u].name \notin tasks'[v].todo
                      /\ Adds(tasks'[v]) => tasks'[v].name # tasks'[u].name
    BY DEF StopsApart
  <2>1. u # t /\ Stops(tasks[u]) /\ tasks'[u] = tasks[u] /\ tasks[u].name \notin task.todo
    BY <1>1 DEF Turns, GoesOn
  <2>2. CASE v = t
    BY <2>1, <2>2 DEF Turns
  <2>3. CASE v # t
    BY <1>2, <2>1, <2>3 DEF Turns, Agreeing, StopsApart
  <2> QED
    BY <2>2, <2>3
<1>4. phase' # "stopping" => RegisteredIsKept'
  <2> SUFFICES ASSUME phase' # "stopping", NEW m \in Names
               PROVE  reg'[m] # Absent <=> kept[m] # Absent \/ m = n
    BY <1>2 DEF RegisteredIsKept, Turns
  <2>1. reg[m] # Absent <=> persisted[m] # Absent \/ (Adds(tasks[t]) /\ tasks[t].name = m)
    BY <1>2 DEF Agreeing, RegisteredIsKept
  <2> QED
    BY <2>1 DEF GoesOn
<1>5. phase' \in {"restoring", "running"} => SavesTheMap'
  BY <1>1, LoopSaves DEF Agreeing, Sound
<1>6. phase' \in {"restoring", "running"} => AddsFromFile'
  <2> SUFFICES ASSUME phase' \in {"restoring", "running"}
               PROVE  /\ NobodySaves /\ n \in Held(file) /\ (k.job = "sync" => persisted'[n] = Absent)
                      /\ k.job = "restore" => k.todo \subseteq Held(file)
                      /\ \A m \in k.todo : persisted'[m] = Absent => NobodySaves /\ m \in Held(file)
    BY <1>1, <1>2 DEF AddsFromFile, Turns, Held
  <2> QED
    BY <1>1 DEF GoesOn
<1>7. phase' \in {"restoring", "running"} => FileAgrees'
  <2> SUFFICES ASSUME phase' \in {"restoring", "running"}, ~changed', NobodySaves
               PROVE  /\ \A m \in Held(file) \ Held(kept) : m \in k.todo \/ m = n
                      /\ \A m \in Held(kept) \ Held(file) : \E v \in Slots : m \in Removes(tasks'[v])
    BY <1>2 DEF FileAgrees, Held, Turns
  <2>1. \A m \in Held(file) \ Held(kept) : m \in task.todo
    BY DEF GoesOn
  <2>2. ASSUME NEW m \in Held(kept) \ Held(file) PROVE \E v \in Slots : m \in Removes(tasks'[v])
    BY DEF GoesOn, Turns
  <2> QED
    BY <2>1, <2>2
<1>8. phase' = "running" => EditIsPlain'
  BY <1>2 DEF GoesOn, EditIsPlain, Held
<1> QED
  BY <1>3, <1>4, <1>5, <1>6, <1>7, <1>8 DEF Agreeing

\* Where a loop that has returned goes on from.
LEMMA LoopGoesOn ==
  ASSUME Sound, Keeping, Agreeing, NEW t \in Slots, tasks[t].job \in {"restore", "sync"},
         tasks[t].at = "returned", UNCHANGED <<file, changed>>,
         phase' = phase \/ (phase = "restoring" /\ phase' = "running")
  PROVE  GoesOn(t, tasks[t], Kept(tasks[t])) /\ phase \notin {"down", "loading"}
<1> DEFINE o == tasks[t]
           kept == Kept(o)
<1>1. /\ o \in Task /\ WellFormed(o) /\ o.leg \in {"create", "destroy"} /\ o.name \in Names
      /\ persisted \in Contents
  BY DEF Sound, CallsSound, WellFormed, Task, Leg
<1>2. phase \notin {"down", "loading"}
  BY DEF Keeping, StartsEmpty, Sound, StartsClean, Idle
<1>3. \A u \in Slots \ {t} : ~Loops(tasks[u]) /\ ~Adds(tasks[u]) /\ tasks[u].todo = {}
  BY DEF Keeping, CallsApart, Loops, Adds, Sound, CallsSound, WellFormed, Task, Job, Idle
<1>4. ~Saves(o) /\ ~Stops(o) /\ Loops(o) /\ (Adds(o) <=> o.leg = "create") /\ Removes(o) = o.gone
      /\ (o.leg = "create" => o.gone = {} /\ o.config \in Configs)
  BY <1>1 DEF Saves, Stops, Loops, Adds, Removes, WellFormed
<1>5. kept \in Contents /\ \A n \in Names : kept[n] # Absent <=> persisted[n] # Absent \/ (Adds(o) /\ o.name = n)
  <2>1. kept = IF o.leg = "create" THEN [persisted EXCEPT ![o.name] = o.config] ELSE persisted
    BY DEF Kept
  <2> QED
    BY <1>1, <1>4, <2>1, ManagerAssumption DEF Contents
<1>6. Adds(o) /\ phase' # "stopping" => NobodySaves /\ o.name \in Held(file)
  BY <1>2, <1>4 DEF Sound, Agreeing, AddsFromFile
<1>7. \A u \in Slots \ {t} : Stops(tasks[u]) => tasks[u].name \notin o.todo
  BY DEF Agreeing, StopsApart
<1>8. ASSUME phase' \in {"restoring", "running"}
      PROVE  /\ \A n \in o.todo : kept[n] = Absent => NobodySaves /\ n \in Held(file)
             /\ o.gone # {} => \A n \in o.todo : kept[n] # Absent
             /\ ~changed' /\ NobodySaves =>
                  /\ \A n \in Held(file) \ Held(kept) : n \in o.todo
                  /\ \A n \in Held(kept) \ Held(file) : n \in o.gone \/ \E u \in Slots \ {t} : n \in Removes(tasks[u])
             /\ changed' /\ NobodySaves =>
                  Held(file) \subseteq Held(kept) \/ Held(kept) \subseteq Held(file)
  <2>1. AddsFromFile /\ FileAgrees /\ (phase = "running" => EditIsPlain)
    BY <1>2, <1>8 DEF Agreeing, Sound
  <2>2. o.todo \subseteq Names
    BY <1>1 DEF Task
  <2>3. \A n \in o.todo : kept[n] = Absent => NobodySaves /\ n \in Held(file)
    BY <1>4, <1>5, <2>1, <2>2 DEF AddsFromFile
  <2>4. o.gone # {} => \A n \in o.todo : kept[n] # Absent
    BY <1>1, <1>4, <1>5, <2>1, <2>2 DEF AddsFromFile
  <2>5. ASSUME ~changed', NobodySaves, NEW n \in Held(file) \ Held(kept) PROVE n \in o.todo
    <3>1. n \in Names /\ n \in Held(file) \ Held(persisted) /\ ~(Adds(o) /\ o.name = n)
      BY <1>5, <2>5 DEF Held
    <3>2. PICK v \in Slots : n \in tasks[v].todo \/ (Adds(tasks[v]) /\ tasks[v].name = n)
      BY <2>1, <2>5, <3>1 DEF FileAgrees
    <3> QED
      BY <1>3, <3>1, <3>2
  <2>6. ASSUME ~changed', NobodySaves, NEW n \in Held(kept) \ Held(file)
        PROVE  n \in o.gone \/ \E u \in Slots \ {t} : n \in Removes(tasks[u])
    <3>1. n \in Held(persisted) \ Held(file)
      BY <1>5, <1>6, <1>8, <2>6 DEF Held
    <3>2. PICK v \in Slots : n \in Removes(tasks[v])
      BY <2>1, <2>6, <3>1 DEF FileAgrees
    <3> QED
      BY <1>4, <3>2
  <2>7. ASSUME changed', NobodySaves PROVE Held(file) \subseteq Held(kept) \/ Held(kept) \subseteq Held(file)
    <3>1. phase = "running"
      BY <1>2, <1>8, <2>7 DEF Sound, StartsClean
    <3>2. Held(file) \subseteq Held(persisted) \/ Held(persisted) \subseteq Held(file)
      BY <2>1, <2>7, <3>1 DEF EditIsPlain
    <3>3. Held(kept) = Held(persisted) \cup (IF Adds(o) THEN {o.name} ELSE {})
      BY <1>1, <1>5 DEF Held
    <3> QED
      BY <1>6, <1>8, <3>2, <3>3
  <2> QED
    BY <2>3, <2>4, <2>5, <2>6, <2>7
<1> QED
  BY <1>2, <1>3, <1>4, <1>5, <1>6, <1>7, <1>8 DEF GoesOn

\* The sync goes on to the next client, or ends.
LEMMA SyncAgrees ==
  ASSUME Sound, Keeping, Agreeing, ~disturbed', NEW t \in Slots, NEW task, Syncs(task),
         NEW kept, NEW bad \in BOOLEAN, GoesOn(t, task, kept), SyncRuns(t, task, kept, bad),
         UNCHANGED <<phase, file>>, phase \notin {"down", "loading"}
  PROVE  Agreeing'
<1>1. reg \in [Names -> Adapters \cup {Absent}] /\ kept \in Contents /\ tasks \in [Slots -> Task]
  BY DEF Sound, CallsSound, GoesOn
<1>2. ASSUME NEW n \in task.gone, Destroy(t, Dropped(task, n)), persisted' = kept, UNCHANGED reg
      PROVE  Agreeing'
  <2>1. Destroys(Dropped(task, n))
    BY LoopsGoOn
  <2>2. PICK k \in Task : Destroyed(t, k, Dropped(task, n))
    BY <1>1, <1>2, <2>1, DestroyCases
  <2> QED
    BY <1>2, <2>2, LoopRemoves
<1>3. ASSUME NEW n \in task.todo, kept[n] = Absent, task.gone = {}, Create(t, Taken(task, n), TRUE, kept, bad)
      PROVE  Agreeing'
  <2>1. Creates(Taken(task, n)) /\ Taken(task, n).job = "sync" /\ Taken(task, n).name = n
        /\ Taken(task, n).todo = task.todo \ {n} /\ Taken(task, n).gone = {}
    BY <1>3, LoopsGoOn DEF Syncs
  <2> PICK made : made = Taken(task, n)
    OBVIOUS
  <2>2. PICK k \in Task : Created(t, k, made, TRUE, kept, bad)
    BY <1>1, <1>3, <2>1, CreateCases
  <2>3. /\ k.job = "sync" /\ k.leg = "create" /\ k.name = n /\ k.todo = task.todo \ {n} /\ k.gone = {}
        /\ k.at \in {"init", "returned"} /\ Put(t, k) /\ n \in Names /\ persisted' = kept
        /\ \/ UNCHANGED reg /\ reg[n] # Absent
           \/ \E a \in Adapters : reg' = [reg EXCEPT ![n] = a]
    BY <2>1, <2>2 DEF Created, Notes, WellFormed
  <2>4. Turns(t, k) /\ Adds(k)
    BY <1>1, <2>3, CallGoesOn DEF Turns, Adds, Loops
  <2>5. reg'[n] # Absent /\ \A m \in Names : m # n => reg'[m] = reg[m]
    BY <1>1, <2>3, ManagerAssumption
  <2>6. phase = "restoring" => phase' = "restoring"
    OBVIOUS
  <2> QED
    BY <1>3, <2>3, <2>4, <2>5, LoopAdds
<1>4. CASE Put(t, Idle) /\ task.gone = {} /\ (\A m \in task.todo : kept[m] # Absent) /\ persisted' = kept /\ UNCHANGED reg
  BY <1>4, LoopEnds DEF Keeping, StartsEmpty
<1> QED
  BY <1>2, <1>3, <1>4 DEF SyncRuns, Taken, Dropped

\* The restore goes on to the next client, or ends.
LEMMA RestoreAgrees ==
  ASSUME Sound, Keeping, Agreeing, ~disturbed', NEW t \in Slots, NEW task, Restores(task),
         NEW kept, GoesOn(t, task, kept), RestoreRuns(t, task, kept), UNCHANGED file,
         phase \in {"loading", "restoring"}, task.todo \subseteq Held(file)
  PROVE  Agreeing'
<1>1. reg \in [Names -> Adapters \cup {Absent}] /\ kept \in Contents /\ tasks \in [Slots -> Task] /\ NobodySaves
      /\ task.gone = {}
  BY DEF Sound, CallsSound, GoesOn, Keeping, StartsEmpty, Restores
<1>2. ASSUME NEW n \in task.todo, Create(t, Taken(task, n), TRUE, kept, FALSE), phase' = "restoring"
      PROVE  Agreeing'
  <2>1. Creates(Taken(task, n)) /\ Taken(task, n).job = "restore" /\ Taken(task, n).name = n
        /\ Taken(task, n).todo = task.todo \ {n} /\ Taken(task, n).gone = {}
    BY <1>1, LoopsGoOn DEF Restores
  <2> PICK made : made = Taken(task, n)
    OBVIOUS
  <2>2. PICK k \in Task : Created(t, k, made, TRUE, kept, FALSE)
    BY <1>1, <1>2, <2>1, CreateCases
  <2>3. /\ k.job = "restore" /\ k.leg = "create" /\ k.name = n /\ k.todo = task.todo \ {n} /\ k.gone = {}
        /\ k.at \in {"init", "returned"} /\ Put(t, k) /\ n \in Names /\ persisted' = kept
        /\ \/ UNCHANGED reg /\ reg[n] # Absent
           \/ \E a \in Adapters : reg' = [reg EXCEPT ![n] = a]
    BY <2>1, <2>2 DEF Created, Notes, WellFormed
  <2>4. Turns(t, k) /\ Adds(k)
    BY <1>1, <2>3, CallGoesOn DEF Turns, Adds, Loops
  <2>5. reg'[n] # Absent /\ \A m \in Names : m # n => reg'[m] = reg[m]
    BY <1>1, <2>3, ManagerAssumption
  <2> QED
    BY <1>1, <1>2, <2>3, <2>4, <2>5, LoopAdds
<1>3. CASE task.todo = {} /\ phase' = "running" /\ Put(t, Idle) /\ persisted' = kept /\ UNCHANGED reg
  BY <1>1, <1>3, LoopEnds
<1> QED
  BY <1>2, <1>3 DEF RestoreRuns, Taken

\* The file is emptied by the only save in flight.
LEMMA WriteBeginsAgrees ==
  ASSUME Sound, Keeping, Agreeing, NEW t \in Slots, WriteBegins(t)
  PROVE  Agreeing'
<1> PICK k : k = [tasks[t] EXCEPT !.at = "write"]
  OBVIOUS
<1>1. tasks \in [Slots -> Task] /\ WellFormed(tasks[t]) /\ tasks[t].at = "save"
  BY DEF Sound, CallsSound, WriteBegins
<1>2. /\ k \in Task /\ k.at = "write" /\ k.job = tasks[t].job /\ k.leg = tasks[t].leg /\ k.name = tasks[t].name
      /\ k.gone = tasks[t].gone /\ k.todo = tasks[t].todo /\ k.snap = tasks[t].snap /\ Put(t, k)
  BY <1>1, AwaitedIsCall DEF WriteBegins
<1>3. Turns(t, k) /\ UNCHANGED <<phase, reg, persisted, changed>>
  BY <1>1, <1>2, CallGoesOn DEF Turns, WriteBegins, memory
<1>4. /\ ~NobodySaves /\ ~NobodySaves' /\ ~Adds(k) /\ ~Adds(tasks[t]) /\ ~Stops(k) /\ Saves(k) /\ Saves(tasks[t])
  BY <1>1, <1>2, <1>3 DEF NobodySaves, Saves, Adds, Stops, Turns
<1>5. \A u \in Slots : (Adds(tasks'[u]) <=> Adds(tasks[u])) /\ (Adds(tasks[u]) => tasks'[u].name = tasks[u].name)
  BY <1>3, <1>4 DEF Turns
<1>6. phase \notin {"loading", "restoring"} /\ \A u \in Slots : tasks[u].job # "restore"
  BY <1>4 DEF Keeping, StartsEmpty, Sound, StartsClean
<1>7. StopsApart'
  <2> SUFFICES ASSUME NEW v \in Slots, NEW u \in Slots, Stops(tasks'[u])
               PROVE  /\ tasks'[u].name \notin tasks'[v].todo
                      /\ Adds(tasks'[v]) => tasks'[v].name # tasks'[u].name
    BY DEF StopsApart
  <2>1. u # t /\ tasks'[u] = tasks[u] /\ tasks'[v].todo = tasks[v].todo
    BY <1>2, <1>3, <1>4 DEF Turns
  <2> QED
    BY <1>5, <2>1 DEF Agreeing, StopsApart
<1>8. RegisteredIsKept => RegisteredIsKept'
  BY <1>3, <1>5 DEF RegisteredIsKept
<1>9. SavesTheMap => SavesTheMap'
  <2> SUFFICES ASSUME SavesTheMap, NEW u \in Slots, Saves(tasks'[u])
               PROVE  Held(tasks'[u].snap) = Held(persisted)
    BY <1>3 DEF SavesTheMap, Held
  <2>1. Saves(tasks[u]) /\ tasks'[u].snap = tasks[u].snap
    BY <1>2, <1>3, <1>4 DEF Turns
  <2>2. Held(tasks[u].snap) = Held(persisted)
    BY <2>1 DEF SavesTheMap
  <2> QED
    BY <2>1, <2>2
<1>10. AddsFromFile => AddsFromFile'
  <2> SUFFICES ASSUME AddsFromFile, NEW u \in Slots, Loops(tasks'[u])
               PROVE  /\ ~Adds(tasks'[u]) /\ tasks'[u].job # "restore"
                      /\ \A n \in tasks'[u].todo : persisted'[n] # Absent
    BY <1>4 DEF AddsFromFile
  <2>1. Loops(tasks[u]) /\ tasks'[u].todo = tasks[u].todo /\ tasks'[u].job = tasks[u].job
    BY <1>2, <1>3 DEF Turns, Loops
  <2> QED
    BY <1>3, <1>4, <1>5, <1>6, <2>1 DEF AddsFromFile
<1>11. FileAgrees' /\ EditIsPlain'
  BY <1>4 DEF FileAgrees, EditIsPlain
<1> QED
  BY <1>3, <1>7, <1>8, <1>9, <1>10, <1>11 DEF Agreeing

\* The file is written, and is the map that is kept.
LEMMA WriteEndsAgrees ==
  ASSUME Sound, Keeping, Agreeing, NEW t \in Slots, WriteEnds(t)
  PROVE  Agreeing'
<1> PICK k : k = AfterSave(tasks[t])
  OBVIOUS
<1>1. tasks \in [Slots -> Task] /\ WellFormed(tasks[t]) /\ tasks[t].at = "write"
  BY DEF Sound, CallsSound, WriteEnds
<1>2. /\ k \in Task /\ k.at = (IF tasks[t].leg = "create" THEN "init" ELSE "returned")
      /\ k.job = tasks[t].job /\ k.leg = tasks[t].leg /\ k.name = tasks[t].name
      /\ k.gone = tasks[t].gone /\ k.todo = tasks[t].todo /\ Put(t, k)
  BY <1>1, SavedIsCall DEF WriteEnds
<1>3. Turns(t, k) /\ file' = tasks[t].snap /\ UNCHANGED <<phase, reg, persisted>>
  BY <1>1, <1>2, CallGoesOn DEF Turns, WriteEnds, memory
<1>4. /\ ~NobodySaves /\ ~Adds(k) /\ ~Adds(tasks[t]) /\ ~Stops(k) /\ Saves(tasks[t]) /\ ~Saves(k)
  BY <1>1, <1>2 DEF NobodySaves, Saves, Adds, Loops, Stops, WellFormed
<1>5. /\ \A u \in Slots : (Adds(tasks'[u]) <=> Adds(tasks[u])) /\ (Adds(tasks[u]) => tasks'[u].name = tasks[u].name)
      /\ \A u \in Slots : ~Saves(tasks'[u])
  BY <1>3, <1>4 DEF Turns, Keeping, CallsApart
<1>6. phase \notin {"loading", "restoring"} /\ \A u \in Slots : tasks[u].job # "restore"
  BY <1>4 DEF Keeping, StartsEmpty, Sound, StartsClean
<1>7. StopsApart'
  <2> SUFFICES ASSUME NEW v \in Slots, NEW u \in Slots, Stops(tasks'[u])
               PROVE  /\ tasks'[u].name \notin tasks'[v].todo
                      /\ Adds(tasks'[v]) => tasks'[v].name # tasks'[u].name
    BY DEF StopsApart
  <2>1. u # t /\ tasks'[u] = tasks[u] /\ tasks'[v].todo = tasks[v].todo
    BY <1>2, <1>3, <1>4 DEF Turns
  <2> QED
    BY <1>5, <2>1 DEF Agreeing, StopsApart
<1>8. RegisteredIsKept => RegisteredIsKept'
  BY <1>3, <1>5 DEF RegisteredIsKept
<1>9. SavesTheMap'
  BY <1>5 DEF SavesTheMap
<1>10. AddsFromFile => AddsFromFile'
  <2> SUFFICES ASSUME AddsFromFile, NEW u \in Slots, Loops(tasks'[u])
               PROVE  /\ ~Adds(tasks'[u]) /\ tasks'[u].job # "restore"
                      /\ \A n \in tasks'[u].todo : persisted'[n] # Absent
    BY DEF AddsFromFile
  <2>1. Loops(tasks[u]) /\ tasks'[u].todo = tasks[u].todo /\ tasks'[u].job = tasks[u].job
    BY <1>2, <1>3 DEF Turns, Loops
  <2> QED
    BY <1>3, <1>4, <1>5, <1>6, <2>1 DEF AddsFromFile
<1>11. phase = "running" => FileAgrees' /\ EditIsPlain'
  <2> SUFFICES ASSUME phase = "running" PROVE FileAgrees' /\ EditIsPlain'
    OBVIOUS
  <2>1. Held(file') = Held(persisted')
    BY <1>3, <1>4 DEF Agreeing, SavesTheMap
  <2> QED
    BY <2>1 DEF FileAgrees, EditIsPlain, Held
<1> QED
  BY <1>3, <1>6, <1>7, <1>8, <1>9, <1>10, <1>11 DEF Agreeing, Sound

\* A client is forgotten in the registry and in the map, which is saved.
LEMMA DestroyEndsAgrees ==
  ASSUME Sound, Keeping, Agreeing, ~disturbed', NEW t \in Slots, DestroyEnds(t)
  PROVE  Agreeing'
<1> DEFINE n == tasks[t].name
<1>1. tasks \in [Slots -> Task] /\ WellFormed(tasks[t]) /\ persisted \in Contents
      /\ reg \in [Names -> Adapters \cup {Absent}]
  BY DEF Sound, CallsSound
<1>2. PICK k \in Task : Forgets(t, k)
  BY <1>1, DestroyEndsCases
<1>3. /\ tasks[t].leg = "destroy" /\ tasks[t].at = "stop" /\ n \in Names /\ WellFormed(k)
      /\ k.leg = "destroy" /\ k.job = tasks[t].job /\ k.name = n
      /\ k.gone = tasks[t].gone /\ k.todo = tasks[t].todo
      /\ \/ /\ persisted[n] # Absent /\ k.at = "save" /\ k.snap = persisted'
            /\ persisted' = [persisted EXCEPT ![n] = Absent]
         \/ /\ persisted[n] = Absent /\ k.at = "returned" /\ UNCHANGED persisted
  BY <1>2 DEF Forgets
<1>4. Turns(t, k) /\ UNCHANGED <<phase, file, changed, owed>> /\ reg' = [reg EXCEPT ![n] = Absent]
  BY <1>1, <1>2, CallGoesOn DEF Turns, Forgets, DestroyEnds, store
<1>5. phase \notin {"down", "loading"} /\ Stops(tasks[t]) /\ ~Saves(tasks[t]) /\ ~Adds(tasks[t])
      /\ ~Adds(k) /\ ~Stops(k)
  BY <1>3 DEF Keeping, StartsEmpty, Stops, Saves, Adds
<1>6. CASE k.at = "save"
  <2>1. persisted' = [persisted EXCEPT ![n] = Absent] /\ k.snap = persisted' /\ ~PersistDisturbs(t) /\ Saves(k)
    BY <1>3, <1>6 DEF DestroyEnds, Notes, Saves
  <2>2. NobodySaves /\ phase \notin {"loading", "restoring"} /\ Held(file) \subseteq Held(persisted)
    BY <1>5, <2>1, SaveFinds
  <2>3. \A m \in Names : m # k.name => (reg'[m] = reg[m] /\ persisted'[m] = persisted[m])
    BY <1>1, <1>3, <1>4, <2>1 DEF Contents
  <2>4. reg'[k.name] = Absent /\ persisted'[k.name] = Absent
    BY <1>1, <1>3, <1>4, <2>1 DEF Contents
  <2>5. phase \notin {"down", "loading", "restoring"}
    BY <1>5, <2>2
  <2>6. Loops(k) => Loops(tasks[t]) /\ k.leg = tasks[t].leg
    BY <1>3 DEF Loops
  <2>7. UNCHANGED <<phase, file, changed>>
    BY <1>4
  <2> QED
    BY <1>3, <1>4, <1>5, <2>1, <2>2, <2>3, <2>4, <2>5, <2>6, <2>7, SavingAgrees
<1>7. CASE k.at = "returned"
  <2>1. persisted[n] = Absent /\ UNCHANGED persisted
    BY <1>3, <1>7
  <2>2. phase # "stopping" => UNCHANGED reg
    <3> SUFFICES ASSUME phase # "stopping" PROVE reg[n] = Absent
      BY <1>1, <1>3, <1>4
    <3>1. \A u \in Slots : Adds(tasks[u]) => tasks[u].name # n
      BY <1>5 DEF Agreeing, StopsApart
    <3> QED
      BY <1>3, <2>1, <3>1 DEF Agreeing, RegisteredIsKept
  <2>3. ~Saves(k) /\ Removes(k) = tasks[t].gone
    BY <1>3, <1>7 DEF Saves, Removes, Stops
  <2>4. Removes(tasks[t]) \cap Held(persisted) \subseteq Removes(k)
    BY <2>1, <2>3 DEF Removes, Held
  <2>5. Loops(k) => Loops(tasks[t]) /\ k.leg = tasks[t].leg
    BY <1>3 DEF Loops
  <2>6. UNCHANGED <<phase, persisted, file, changed>>
    BY <1>4, <2>1
  <2> QED
    BY <1>3, <1>4, <1>5, <2>2, <2>3, <2>4, <2>5, <2>6, FadingAgrees
<1> QED
  BY <1>3, <1>6, <1>7

\* Nobody is adding the client that a call begins to stop.
LEMMA DestroyCalledAgrees ==
  ASSUME Sound, Agreeing, ~disturbed', NEW t \in Slots, NEW n \in Names,
         DestroyCalled(t, n) \/ \E c \in Configs : UpdateCalled(t, n, c)
  PROVE  Agreeing'
<1>1. PICK k \in Task : Called(t, n, k)
  BY DestroyCalledCases
<1>2. /\ Put(t, k) /\ WellFormed(k) /\ k.leg = "destroy" /\ k.name = n /\ k.gone = {} /\ k.todo = {}
      /\ tasks[t] = Idle /\ ~Contended(t, n) /\ UNCHANGED <<phase, persisted, file, changed, reg>>
      /\ k.at \in {"returned", "stop"} /\ k.job \in {"destroy", "update"}
  BY <1>1 DEF Called
<1>3. Turns(t, k)
  BY <1>2, CallGoesOn DEF Turns, Sound, CallsSound
<1>4. ~Saves(k) /\ ~Saves(tasks[t]) /\ ~Loops(k) /\ ~Adds(k) /\ ~Adds(tasks[t]) /\ Removes(tasks[t]) = {}
      /\ k.todo = tasks[t].todo
  BY <1>2 DEF Saves, Loops, Adds, Removes, Stops, Idle
<1>5. \A u \in Slots : /\ k.name \notin tasks[u].todo
                       /\ u # t /\ Adds(tasks[u]) => tasks[u].name # k.name
  BY <1>2, <1>4 DEF Contended, Others
<1>6. UNCHANGED <<phase, persisted, file, changed>> /\ UNCHANGED reg
  BY <1>2
<1> QED
  BY <1>2, <1>3, <1>4, <1>5, <1>6, FadingAgrees

\* createClient, of a call users made.
LEMMA CreateAgrees ==
  ASSUME Sound, Keeping, Agreeing, ~disturbed', NEW t \in Slots, ~Saves(tasks[t]), ~Adds(tasks[t]),
         NEW k \in Task, NEW task, NEW quietly \in BOOLEAN, NEW bad \in BOOLEAN,
         Created(t, k, task, quietly, persisted, bad), k.job \in {"create", "update"}, phase # "down",
         k.gone = {}, k.todo = {}, tasks[t].todo = {}, Removes(tasks[t]) = {},
         UNCHANGED <<phase, file, changed>>
  PROVE  Agreeing'
<1>1. /\ WellFormed(k) /\ Put(t, k) /\ k.leg = "create"
      /\ \/ k.at = "returned" /\ persisted' = persisted /\ UNCHANGED reg
         \/ \E a \in Adapters :
              /\ reg' = [reg EXCEPT ![k.name] = a] /\ k.at = "save" /\ k.snap = persisted'
              /\ persisted' = [persisted EXCEPT ![k.name] = k.config] /\ ~PersistDisturbs(t)
  BY DEF Created, Notes
<1>2. /\ Turns(t, k) /\ k.name \in Names /\ k.config \in Configs /\ ~Loops(k) /\ ~Adds(k) /\ ~Stops(k)
      /\ reg \in [Names -> Adapters \cup {Absent}] /\ persisted \in Contents
  BY <1>1, CallGoesOn DEF Turns, Sound, CallsSound, WellFormed, Loops, Adds, Stops
<1>3. CASE k.at = "returned" /\ persisted' = persisted /\ UNCHANGED reg
  <2>1. ~Saves(k)
    BY <1>3 DEF Saves
  <2>2. UNCHANGED <<phase, persisted, file, changed>>
    BY <1>3
  <2> QED
    BY <1>1, <1>2, <1>3, <2>1, <2>2, FadingAgrees
<1>4. ASSUME NEW a \in Adapters, reg' = [reg EXCEPT ![k.name] = a], k.at = "save", k.snap = persisted',
             persisted' = [persisted EXCEPT ![k.name] = k.config], ~PersistDisturbs(t)
      PROVE  Agreeing'
  <2>1. NobodySaves /\ phase \notin {"loading", "restoring"} /\ Held(file) \subseteq Held(persisted)
    BY <1>4, SaveFinds
  <2>2. \A m \in Names : m # k.name => (reg'[m] = reg[m] /\ persisted'[m] = persisted[m])
    BY <1>2, <1>4 DEF Contents
  <2>3. reg'[k.name] # Absent /\ persisted'[k.name] # Absent
    BY <1>2, <1>4, ManagerAssumption DEF Contents
  <2>4. Saves(k) /\ phase \notin {"down", "loading", "restoring"}
    BY <1>4, <2>1 DEF Saves
  <2> QED
    BY <1>1, <1>2, <1>4, <2>1, <2>2, <2>3, <2>4, SavingAgrees
<1> QED
  BY <1>1, <1>3, <1>4

\* The prefix is saved of a client that is kept anyway.
LEMMA PrefixCalledAgrees ==
  ASSUME Sound, Keeping, Agreeing, NEW t \in Slots, NEW n \in Names, NEW k \in Task, Prefixed(t, n, k)
  PROVE  Agreeing'
<1>1. k.job = "prefix" /\ k.leg = "prefix" /\ k.at = "save" /\ k.name = n /\ k.todo = {}
      /\ k.snap = persisted' /\ Put(t, k) /\ WellFormed(k) /\ ~PersistDisturbs(t) /\ tasks[t] = Idle
      /\ UNCHANGED <<phase, reg, file, changed>> /\ phase # "down" /\ reg[n] # Absent
      /\ persisted[n] # Absent /\ persisted'[n] # Absent
      /\ \A m \in Names : m # n => persisted'[m] = persisted[m]
  BY DEF Prefixed
<1>2. Turns(t, k)
  BY <1>1, CallGoesOn DEF Turns, Sound, CallsSound
<1>3. ~Saves(tasks[t]) /\ ~Adds(tasks[t]) /\ Saves(k) /\ ~Loops(k) /\ tasks[t].todo = {}
  BY <1>1 DEF Saves, Adds, Loops, Idle
<1>4. NobodySaves /\ phase \notin {"loading", "restoring"} /\ Held(file) \subseteq Held(persisted)
  BY <1>1, <1>3, SaveFinds
<1>5. \A m \in Names : m # k.name => (reg'[m] = reg[m] /\ persisted'[m] = persisted[m])
  BY <1>1
<1>6. reg'[k.name] # Absent /\ persisted'[k.name] # Absent /\ UNCHANGED <<phase, file, changed>>
      /\ phase \notin {"down", "loading", "restoring"}
  BY <1>1, <1>4
<1> QED
  BY <1>1, <1>2, <1>3, <1>4, <1>5, <1>6, SavingAgrees

\* A client the users create is registered, kept and saved.
LEMMA CreateCalledAgrees ==
  ASSUME Sound, Keeping, Agreeing, ~disturbed', NEW t \in Slots, NEW n \in Names, NEW c \in Configs,
         CreateCalled(t, n, c)
  PROVE  Agreeing'
<1> PICK made : made = Call("create", n, c)
  OBVIOUS
<1>1. /\ Creates(made) /\ made.job = "create" /\ made.todo = {} /\ made.gone = {}
      /\ tasks[t] = Idle /\ Create(t, made, restoring, persisted, Contended(t, n)) /\ phase # "down"
      /\ UNCHANGED <<phase, file, changed>>
  BY CallsAreMade DEF CreateCalled, Serving, store
<1>2. restoring \in BOOLEAN /\ persisted \in Contents /\ Contended(t, n) \in BOOLEAN
  BY DEF Sound, CallsSound, Contended
<1>3. PICK k \in Task : Created(t, k, made, restoring, persisted, Contended(t, n))
  BY <1>1, <1>2, CreateCases
<1>4. k.job \in {"create", "update"} /\ k.gone = {} /\ k.todo = {}
  BY <1>1, <1>3 DEF Created
<1>5. ~Saves(tasks[t]) /\ ~Adds(tasks[t]) /\ tasks[t].todo = {} /\ Removes(tasks[t]) = {}
  BY <1>1 DEF Saves, Adds, Loops, Removes, Stops, Idle
<1> QED
  BY <1>1, <1>2, <1>3, <1>4, <1>5, CreateAgrees

\* An updated client is registered, kept and saved again.
LEMMA UpdateGoesOnAgrees ==
  ASSUME Sound, Keeping, Agreeing, ~disturbed', NEW t \in Slots, UpdateGoesOn(t)
  PROVE  Agreeing'
<1> PICK made : made = tasks[t]
  OBVIOUS
<1>1. made \in Task /\ WellFormed(made) /\ restoring \in BOOLEAN /\ persisted \in Contents
      /\ (made # Idle => phase # "down")
  BY DEF Sound, CallsSound, StartsClean
<1>2. /\ made.job = "update" /\ made.leg = "destroy" /\ made.at = "returned" /\ made # Idle
      /\ UNCHANGED <<phase, file, changed>> /\ Create(t, made, restoring, persisted, FALSE)
  <2>1. /\ made.job = "update" /\ made.leg = "destroy" /\ made.at = "returned" /\ made # Idle
        /\ UNCHANGED <<phase, file, changed>>
    BY DEF UpdateGoesOn, store, Idle
  <2>2. Create(t, made, restoring, persisted, FALSE)
    BY DEF UpdateGoesOn
  <2> QED
    BY <2>1, <2>2
<1>3. made.gone = {} /\ made.todo = {} /\ Creates(made)
  BY <1>1, <1>2 DEF Creates, WellFormed, Task
<1>4. PICK k \in Task : Created(t, k, made, restoring, persisted, FALSE)
  BY <1>1, <1>2, <1>3, CreateCases
<1>5. k.job \in {"create", "update"} /\ k.gone = {} /\ k.todo = {}
  BY <1>2, <1>3, <1>4 DEF Created
<1>6. ~Saves(tasks[t]) /\ ~Adds(tasks[t]) /\ tasks[t].todo = {} /\ Removes(tasks[t]) = {}
  BY <1>2, <1>3 DEF Saves, Adds, Loops, Removes, Stops
<1> QED
  BY <1>1, <1>2, <1>4, <1>5, <1>6, CreateAgrees

\* The sync starts on a map that agrees with the file, or alone.
LEMMA SyncStartsAgrees ==
  ASSUME Sound, Keeping, Agreeing, ~disturbed', NEW t \in Slots, SyncStarts(t)
  PROVE  Agreeing'
<1> DEFINE task == [Idle EXCEPT !.job = "sync", !.wanted = file,
                                !.gone = Held(persisted) \ Held(file), !.todo = Held(file)]
<1>1. tasks[t] = Idle /\ phase \in {"running", "stopping"} /\ UNCHANGED <<phase, file>> /\ ~changed'
  BY DEF SyncStarts, Sound, StartsClean
<1>2. /\ Idle.todo = {} /\ ~Saves(Idle) /\ ~Loops(Idle) /\ ~Adds(Idle) /\ ~Stops(Idle)
  BY DEF Idle, Saves, Loops, Adds, Stops
<1>3. ASSUME UNCHANGED <<reg, persisted, tasks>>, NobodySaves => Held(file) = Held(persisted)
      PROVE  Agreeing'
  <2>1. StopsApart' /\ (phase # "stopping" => RegisteredIsKept')
    BY <1>1, <1>3 DEF Agreeing, StopsApart, RegisteredIsKept
  <2>2. phase = "running" => SavesTheMap' /\ AddsFromFile'
    BY <1>1, <1>3 DEF Agreeing, SavesTheMap, AddsFromFile, NobodySaves, Held
  <2>3. FileAgrees' /\ EditIsPlain'
    BY <1>1, <1>3 DEF FileAgrees, EditIsPlain, NobodySaves, Held
  <2> QED
    BY <1>1, <2>1, <2>2, <2>3 DEF Agreeing
<1>4. CASE file = Torn /\ UNCHANGED <<memory, tasks, disturbed>>
  <2>1. ~NobodySaves
    BY <1>1, <1>4 DEF Keeping, FileKeeps, NobodySaves, Saves
  <2>2. UNCHANGED <<reg, persisted, tasks>>
    BY <1>4 DEF memory
  <2> QED
    BY <1>3, <2>1, <2>2
<1>5. CASE file # Torn /\ SyncRuns(t, task, persisted, Stale(t))
  <2>1. Syncs(task)
    BY <1>5, IdleIsCall DEF Syncs, Idle, Task, Held, Job, Sound
  <2>2. task.gone = Held(persisted) \ Held(file) /\ task.todo = Held(file)
    BY DEF Idle
  <2> HIDE DEF task
  <2>3. Stale(t) = FALSE
    BY <1>5 DEF SyncRuns, Create, Notes, Stale
  <2>4. SyncRuns(t, task, persisted, FALSE)
    BY <1>5, <2>3
  <2>5. Held(persisted) = Held(file) \/ Others(t) = {Idle}
    BY <2>3 DEF Stale
  <2>6. CASE Held(persisted) = Held(file)
    <3>1. task.gone = {} /\ \A n \in task.todo : persisted[n] # Absent
      BY <2>2, <2>6 DEF Held
    <3>2. Put(t, Idle) /\ persisted' = persisted /\ UNCHANGED reg
      BY <2>4, <3>1 DEF SyncRuns
    <3>3. UNCHANGED tasks
      BY <1>1, <3>2 DEF Put, Sound, CallsSound
    <3> QED
      BY <1>3, <2>6, <3>2, <3>3
  <2>7. CASE Others(t) = {Idle}
    <3>1. \A u \in Slots : tasks[u] = Idle
      BY <1>1, <2>7 DEF Others
    <3>2. phase = "running" => Held(file) \subseteq Held(persisted) \/ Held(persisted) \subseteq Held(file)
      BY <1>2, <3>1 DEF Agreeing, EditIsPlain, NobodySaves, SyncStarts
    <3>3. persisted \in Contents /\ NobodySaves
      BY <1>2, <3>1 DEF Sound, CallsSound, NobodySaves
    <3>4. phase = "running" => /\ task.gone # {} => \A n \in task.todo : persisted[n] # Absent
                               /\ \A n \in Held(file) \ Held(persisted) : n \in task.todo
                               /\ \A n \in Held(persisted) \ Held(file) : n \in task.gone
      BY <2>2, <3>2 DEF Held
    <3>5. GoesOn(t, task, persisted)
      BY <1>1, <1>2, <2>2, <3>1, <3>3, <3>4 DEF GoesOn
    <3> PICK bad \in BOOLEAN : bad = FALSE
      OBVIOUS
    <3>6. SyncRuns(t, task, persisted, bad)
      BY <2>4
    <3>7. phase \notin {"down", "loading"}
      BY <1>1
    <3> QED
      BY <1>1, <2>1, <3>5, <3>6, <3>7, SyncAgrees
  <2> QED
    BY <2>5, <2>6, <2>7
<1> QED
  BY <1>4, <1>5 DEF SyncStarts

\* The sync goes on from a client it has created or destroyed.
LEMMA SyncGoesOnAgrees ==
  ASSUME Sound, Keeping, Agreeing, ~disturbed', NEW t \in Slots, SyncGoesOn(t)
  PROVE  Agreeing'
<1> PICK task : task = tasks[t]
  OBVIOUS
<1> PICK kept : kept = Kept(tasks[t])
  OBVIOUS
<1> PICK bad \in BOOLEAN : bad = FALSE
  OBVIOUS
<1>1. /\ task \in Task /\ WellFormed(task) /\ task.job = "sync" /\ task.at = "returned"
      /\ SyncRuns(t, task, kept, bad) /\ UNCHANGED <<phase, file, changed>>
  BY DEF SyncGoesOn, Returned, store, Sound, CallsSound, Keeping, CallsApart
<1>2. Syncs(task)
  BY <1>1 DEF Syncs, WellFormed
<1>3. GoesOn(t, task, kept) /\ phase \notin {"down", "loading"}
  BY <1>1, LoopGoesOn
<1> QED
  BY <1>1, <1>2, <1>3, SyncAgrees

\* The restore begins with an empty map and the whole file before it.
LEMMA LoadsAgrees ==
  ASSUME Sound, Keeping, Agreeing, ~disturbed', NEW t \in Slots, Loads(t)
  PROVE  Agreeing'
<1> DEFINE task == [tasks[t] EXCEPT !.wanted = file, !.todo = Held(file)]
<1>1. /\ tasks[t] \in Task /\ WellFormed(tasks[t]) /\ tasks[t].job = "restore" /\ tasks[t].at = "load"
      /\ tasks[t].gone = {} /\ phase = "loading" /\ file # Torn /\ file \in Contents
      /\ UNCHANGED <<file, changed>> /\ persisted \in Contents /\ tasks[t].leg = "none"
  BY CallsAreInside DEF Loads, Keeping, StartsEmpty, Sound, CallsSound, WellFormed, Task, Leg
<1>2. Restores(task) /\ task.todo = Held(file) /\ task.gone = {}
  BY <1>1 DEF Restores, Task, Held
<1> HIDE DEF task
<1>3. RestoreRuns(t, task, persisted)
  BY DEF Loads, task
<1>4. NobodySaves /\ persisted = Nothing /\ ~changed
  BY <1>1 DEF Keeping, StartsEmpty, Agreeing, Sound, StartsClean
<1>5. \A u \in Slots \ {t} : ~Loops(tasks[u]) /\ ~Stops(tasks[u])
  BY <1>1 DEF Keeping, StartsEmpty, CallsApart, Loops, Stops
<1>6. ~Saves(tasks[t]) /\ ~Stops(tasks[t]) /\ ~Adds(tasks[t])
  BY <1>1 DEF Saves, Stops, Adds
<1>7. Held(persisted) = {}
  BY <1>4, NothingIsHeld DEF Held
<1>8. GoesOn(t, task, persisted)
  BY <1>1, <1>2, <1>4, <1>5, <1>6, <1>7 DEF GoesOn
<1> QED
  BY <1>1, <1>2, <1>3, <1>8, RestoreAgrees

\* The restore goes on from a client it has created.
LEMMA RestoreGoesOnAgrees ==
  ASSUME Sound, Keeping, Agreeing, ~disturbed', NEW t \in Slots, RestoreGoesOn(t)
  PROVE  Agreeing'
<1> PICK task : task = tasks[t]
  OBVIOUS
<1> PICK kept : kept = Kept(tasks[t])
  OBVIOUS
<1>1. /\ task \in Task /\ WellFormed(task) /\ task.job = "restore" /\ task.at = "returned"
      /\ RestoreRuns(t, task, kept) /\ UNCHANGED <<file, changed>>
  BY DEF RestoreGoesOn, Returned, Sound, CallsSound, Keeping, CallsApart
<1>2. Restores(task)
  BY <1>1 DEF Restores, WellFormed
<1>3. phase = "restoring"
  BY <1>1 DEF Keeping, StartsEmpty, Sound, StartsClean
<1>4. phase' = phase \/ (phase = "restoring" /\ phase' = "running")
  BY <1>1, <1>3 DEF RestoreRuns
<1>5. GoesOn(t, task, kept)
  BY <1>1, <1>4, LoopGoesOn
<1>6. task.todo \subseteq Held(file)
  BY <1>1, <1>3 DEF Agreeing, AddsFromFile, Loops
<1> QED
  BY <1>1, <1>2, <1>3, <1>5, <1>6, RestoreAgrees

\* At first nothing is registered or kept.
LEMMA InitAgrees == Init => Agreeing
<1> SUFFICES ASSUME Init PROVE Agreeing
  OBVIOUS
<1>1. \A t \in Slots : ~Stops(tasks[t])
  BY DEF Init, Idle, Stops
<1> QED
  BY <1>1 DEF Init, Agreeing, StopsApart, RegisteredIsKept, Adds, Loops, Idle, Nothing

\* What is kept, registered and in the file go on agreeing in every step of an undisturbed run.
THEOREM StepAgrees == Sound /\ Keeping /\ Agreeing /\ ~disturbed' /\ [Next]_vars => Agreeing'
<1> SUFFICES ASSUME Sound, Keeping, Agreeing, ~disturbed', [Next]_vars PROVE Agreeing'
  OBVIOUS
<1>1. ASSUME NEW t \in Slots PROVE tasks[t] \in Task /\ WellFormed(tasks[t])
  BY DEF Sound, CallsSound
<1>2. /\ Idle \in Task /\ Idle.todo = {} /\ ~Saves(Idle) /\ ~Loops(Idle) /\ ~Adds(Idle) /\ ~Stops(Idle)
      /\ Removes(Idle) = {}
  BY IdleIsCall DEF Idle, Saves, Loops, Adds, Stops, Removes
<1>3. tasks \in [Slots -> Task] /\ reg \in [Names -> Adapters \cup {Absent}]
  BY DEF Sound, CallsSound
<1>4. ASSUME NEW t \in Slots, Boot(t) PROVE Agreeing'
  <2> PICK k : k = [Idle EXCEPT !.job = "restore", !.at = "load"]
    OBVIOUS
  <2>1. k \in Task /\ k.at = "load" /\ k.leg = "none" /\ k.todo = {}
    BY IdleIsCall DEF Task, Job, At, Idle
  <2>2. Put(t, k) /\ UNCHANGED <<reg, persisted>> /\ phase' = "loading" /\ phase = "down"
        /\ \A u \in Slots : tasks[u] = Idle
    BY <1>4 DEF Boot, memory, Sound, StartsClean
  <2>3. Turns(t, k) /\ ~Adds(k) /\ ~Stops(k)
    BY <1>3, <2>1, <2>2, CallGoesOn DEF Turns, Adds, Stops
  <2>4. StopsApart' /\ RegisteredIsKept'
    BY <1>2, <2>2, <2>3 DEF Agreeing, StopsApart, RegisteredIsKept, Turns
  <2> QED
    BY <2>2, <2>4 DEF Agreeing
<1>5. ASSUME NEW t \in Slots, LoadFails(t) \/ LoadsNothing(t) \/ SaveFails(t) PROVE Agreeing'
  BY <1>5 DEF LoadFails, LoadsNothing, SaveFails, Notes
<1>6. ASSUME NEW t \in Slots, Loads(t) \/ RestoreGoesOn(t) \/ SyncStarts(t) \/ SyncGoesOn(t) PROVE Agreeing'
  BY <1>6, LoadsAgrees, RestoreGoesOnAgrees, SyncStartsAgrees, SyncGoesOnAgrees
<1>7. ASSUME NEW t \in Slots, WriteBegins(t) \/ WriteEnds(t) \/ DestroyEnds(t) \/ UpdateGoesOn(t) PROVE Agreeing'
  BY <1>7, WriteBeginsAgrees, WriteEndsAgrees, DestroyEndsAgrees, UpdateGoesOnAgrees
<1>8. ASSUME NEW t \in Slots, InitializeEnds(t) PROVE Agreeing'
  <2> PICK k : k = [tasks[t] EXCEPT !.at = "returned"]
    OBVIOUS
  <2>1. /\ k \in Task /\ k.at = "returned" /\ k.job = tasks[t].job /\ k.leg = tasks[t].leg /\ k.name = tasks[t].name
        /\ k.gone = tasks[t].gone /\ k.todo = tasks[t].todo /\ tasks[t].at = "init" /\ k.leg = "create"
        /\ Put(t, k) /\ UNCHANGED <<phase, persisted, file, changed>> /\ WellFormed(k) /\ UNCHANGED reg
    BY <1>1, <1>8, AwaitedIsCall DEF InitializeEnds, memory, store, WellFormed, Task, Leg
  <2>2. Turns(t, k)
    BY <1>3, <2>1, CallGoesOn DEF Turns
  <2>3. /\ ~Saves(k) /\ ~Saves(tasks[t]) /\ ~Stops(k) /\ Removes(tasks[t]) \subseteq Removes(k)
        /\ (Adds(k) <=> Adds(tasks[t])) /\ (Loops(k) <=> Loops(tasks[t]))
    BY <2>1 DEF Saves, Stops, Removes, Adds, Loops
  <2>4. Adds(tasks[t]) \/ Adds(k) => Adds(k) /\ Adds(tasks[t]) /\ k.name = tasks[t].name
    BY <2>1, <2>3
  <2> QED
    BY <2>1, <2>2, <2>3, <2>4, FadingAgrees
<1>9. ASSUME NEW t \in Slots, CallReturns(t) PROVE Agreeing'
  <2>1. /\ tasks[t].at = "returned" /\ ~Loops(tasks[t]) /\ Put(t, Idle)
        /\ UNCHANGED <<phase, persisted, file, changed>> /\ UNCHANGED reg
        /\ tasks[t].job \in {"create", "destroy", "prefix", "update"}
    BY <1>9 DEF CallReturns, memory, store, Keeping, CallsApart, Loops
  <2>2. tasks[t].todo = {} /\ Removes(tasks[t]) = {} /\ ~Saves(tasks[t]) /\ ~Adds(tasks[t])
    BY <1>1, <2>1 DEF WellFormed, Removes, Stops, Saves, Adds
  <2>3. Turns(t, Idle)
    BY <1>2, <1>3, <2>1, CallGoesOn DEF Turns
  <2> QED
    BY <1>2, <2>1, <2>2, <2>3, IdleIsCall, FadingAgrees
<1>10. ASSUME NEW t \in Slots, NEW n \in Names, DestroyCalled(t, n) PROVE Agreeing'
  BY <1>10, DestroyCalledAgrees
<1>11. ASSUME NEW t \in Slots, NEW n \in Names, NEW c \in Configs, CreateCalled(t, n, c) \/ UpdateCalled(t, n, c)
       PROVE  Agreeing'
  BY <1>11, CreateCalledAgrees, DestroyCalledAgrees
<1>12. ASSUME UNCHANGED <<phase, reg, persisted, file, changed, tasks>> PROVE Agreeing'
  <2>1. StopsApart' /\ (phase # "stopping" => RegisteredIsKept')
    BY <1>12 DEF Agreeing, StopsApart, RegisteredIsKept
  <2>2. (SavesTheMap => SavesTheMap') /\ (AddsFromFile => AddsFromFile')
    BY <1>12 DEF SavesTheMap, AddsFromFile, NobodySaves, Held
  <2>3. (FileAgrees => FileAgrees') /\ (EditIsPlain => EditIsPlain')
    BY <1>12 DEF FileAgrees, EditIsPlain, NobodySaves, Held
  <2> QED
    BY <1>12, <2>1, <2>2, <2>3 DEF Agreeing
<1>13. ASSUME NEW t \in Slots, NEW n \in Names, NEW c \in Configs, PrefixCalled(t, n, c) PROVE Agreeing'
  BY <1>12, <1>13, PrefixCalledCases, PrefixCalledAgrees
<1>14. ASSUME NEW contents \in Contents, Edit(contents) PROVE Agreeing'
  <2>1. /\ \A t \in Slots : tasks[t] = Idle
        /\ UNCHANGED <<phase, reg, persisted, tasks>> /\ file' = contents /\ watching /\ changed' /\ ~changed
        /\ Held(file) \subseteq Held(contents) \/ Held(contents) \subseteq Held(file)
    BY <1>14 DEF Edit, Notes, memory, Sound
  <2>2. \A t \in Slots : /\ ~Adds(tasks[t]) /\ ~Adds(tasks'[t]) /\ ~Saves(tasks'[t]) /\ ~Saves(tasks[t])
                         /\ ~Stops(tasks'[t]) /\ ~Loops(tasks'[t]) /\ tasks[t].todo = {} /\ Removes(tasks[t]) = {}
    BY <1>2, <2>1
  <2>3. StopsApart' /\ SavesTheMap' /\ AddsFromFile' /\ FileAgrees'
    BY <2>1, <2>2 DEF StopsApart, SavesTheMap, AddsFromFile, FileAgrees
  <2>4. phase # "stopping" => RegisteredIsKept'
    BY <2>1, <2>2 DEF Agreeing, RegisteredIsKept
  <2>5. phase = "running" => EditIsPlain'
    <3> SUFFICES ASSUME phase = "running"
                 PROVE  Held(contents) \subseteq Held(persisted) \/ Held(persisted) \subseteq Held(contents)
      BY <2>1 DEF EditIsPlain, Held
    <3>1. FileAgrees /\ NobodySaves
      BY <2>2 DEF Agreeing, NobodySaves
    <3>2. Held(file) = Held(persisted)
      BY <2>1, <2>2, <3>1 DEF FileAgrees, Held
    <3> QED
      BY <2>1, <3>2
  <2> QED
    BY <2>1, <2>3, <2>4, <2>5 DEF Agreeing
<1>15. ASSUME NEW n \in Names, Unregisters(n) PROVE Agreeing'
  BY <1>15 DEF Unregisters, store, Agreeing, StopsApart
<1>16. CASE Shutdown
  BY <1>16 DEF Shutdown, Agreeing, StopsApart
<1>17. CASE ProcessEnds
  <2>1. phase' = "down" /\ reg' = Nothing /\ persisted' = Nothing /\ \A t \in Slots : tasks'[t] = Idle
    BY <1>17 DEF ProcessEnds
  <2>2. StopsApart' /\ RegisteredIsKept'
    BY <1>2, <2>1, NothingIsHeld DEF StopsApart, RegisteredIsKept
  <2> QED
    BY <2>1, <2>2 DEF Agreeing
<1>18. CASE UNCHANGED vars
  BY <1>12, <1>18 DEF vars, memory, store
<1> QED
  BY <1>4, <1>5, <1>6, <1>7, <1>8, <1>9, <1>10, <1>11, <1>13, <1>14, <1>15, <1>16, <1>17, <1>18 DEF Next

\* When nothing is going on, what is registered, kept and in the file is the same.
THEOREM QuietAgrees == Spec => []QuietMeansAgreed
<1> DEFINE AInv == Sound /\ (~disturbed => Keeping /\ Agreeing)
<1>1. Init => AInv
  BY InitSound, InitKeeps, InitAgrees
<1>2. AInv /\ [Next]_vars => AInv'
  <2> SUFFICES ASSUME AInv, [Next]_vars, ~disturbed' PROVE Keeping' /\ Agreeing'
    BY StepKeepsSound
  <2>1. ~disturbed
    BY DisturbedStays
  <2> QED
    BY <2>1, StepKeeps, StepAgrees
<1>3. AInv => QuietMeansAgreed
  <2> SUFFICES ASSUME Agreeing, phase = "running", ~changed, \A t \in Slots : tasks[t] = Idle
               PROVE  Held(persisted) = Registered /\ Held(file) = Registered
    BY DEF QuietMeansAgreed
  <2>1. \A t \in Slots : ~Adds(tasks[t]) /\ ~Saves(tasks[t]) /\ tasks[t].todo = {} /\ Removes(tasks[t]) = {}
    BY DEF Idle, Adds, Loops, Saves, Removes, Stops
  <2>2. Held(persisted) = Registered
    BY <2>1 DEF Agreeing, RegisteredIsKept, Held, Registered
  <2>3. Held(file) = Held(persisted)
    BY <2>1 DEF Agreeing, FileAgrees, NobodySaves, Held
  <2> QED
    BY <2>2, <2>3
<1> QED
  BY <1>1, <1>2, <1>3, PTL DEF Spec
=============================================================================
