---------------------------- MODULE ClientManager ----------------------------
(***************************************************************************)
(* NestWhatsClientManagerService over a JsonFileVirtualClientStorage: the  *)
(* virtual clients in the registry, the map of the ones to keep, the file  *)
(* they are kept in, and every call in flight on them, across crashes and  *)
(* restarts of the process.                                                *)
(*                                                                         *)
(* A call (task) runs alone up to its next await.  A call another one      *)
(* awaits ends "returned" or "threw", and its caller takes over from there *)
(* in a step of its own.                                                   *)
(***************************************************************************)
EXTENDS FiniteSets, Naturals

CONSTANTS
  Names,     \* names of virtual clients
  Configs,   \* adapter, options and prefix of a client, as one value
  Adapters,  \* what factory.create may return; reused once forgotten
  Slots,     \* bounds the calls in flight together
  Faults,    \* the storage and the factories may fail
  Absent,    \* no entry
  Torn       \* the content of the file while it is written

ASSUME ManagerAssumption ==
  /\ IsFiniteSet(Names) /\ Faults \in BOOLEAN
  /\ Absent \notin Configs \cup Adapters
  /\ Torn \notin [Names -> Configs \cup {Absent}]

VARIABLES
  phase,      \* of the process: "down", "loading" the file, "restoring" from it,
              \* "running", "stopping"
  restoring,  \* this.restoring
  reg,        \* the adapter in the registry entry of each name
  disposers,  \* the adapter each function in this.disposers cleans up after
  running,    \* adapters on which destroy() was not called
  persisted,  \* this.persisted
  file,       \* what the storage file holds
  watching,   \* this.stopWatcher is set, on a file that exists
  changed,    \* the watcher's debounce timer is armed
  tasks,      \* the call in each slot
  owed,       \* history: the clients created or put into the file, and not removed
  disturbed   \* history: an interleaving or a fault the code is not written for

memory == <<restoring, reg, disposers, running, persisted>>
store  == <<file, watching, changed>>
vars   == <<phase, memory, store, tasks, owed, disturbed>>

Contents == [Names -> Configs \cup {Absent}]
Nothing  == [n \in Names |-> Absent]
Held(contents) == {n \in Names : contents[n] # Absent}

\* A call: job is the method, leg the method it is inside of, at the await it
\* stands at, snap what it saves; gone and todo are what is left of a loop over
\* the clients in wanted.
Idle == [job |-> "none", leg |-> "none", at |-> "none", name |-> Absent,
         config |-> Absent, adapter |-> Absent, snap |-> Nothing,
         gone |-> {}, wanted |-> Nothing, todo |-> {}]

Job == {"none", "create", "destroy", "prefix", "update", "restore", "sync"}
Leg == {"none", "create", "destroy", "prefix"}
At  == {"none", "load", "save", "write", "init", "stop", "returned", "threw"}

Init ==
  /\ phase = "down" /\ restoring = FALSE
  /\ reg = Nothing /\ disposers = Nothing /\ running = {}
  /\ persisted = Nothing
  /\ file \in Contents /\ watching = FALSE /\ changed = FALSE
  /\ tasks = [t \in Slots |-> Idle]
  /\ owed = Held(file) /\ disturbed = FALSE

Put(t, task) == tasks' = [tasks EXCEPT ![t] = task]
Notes(bad)   == disturbed' = (disturbed \/ bad)

Others(t) == {tasks[u] : u \in Slots \ {t}}
Saving(t) == \E task \in Others(t) : task.at \in {"save", "write"}
Serving   == phase \in {"loading", "restoring", "running"}
-----------------------------------------------------------------------------
(***************************************************************************)
(* persist(): the map is read when it is called; the file is emptied, then *)
(* written.  Two saves in flight can end in either order, one before the   *)
(* restore is over holds only what is restored so far, and any of them     *)
(* writes over an edit of the file that was not applied yet.               *)
(***************************************************************************)

\* Mutant of Persist: the map is read before it is changed.
PersistStale(t, task, contents) ==
  /\ persisted' = contents
  /\ Put(t, [task EXCEPT !.at = "save", !.snap = persisted])

Persist(t, task, contents) ==
  /\ persisted' = contents
  /\ Put(t, [task EXCEPT !.at = "save", !.snap = contents])

PersistDisturbs(t) ==
  \/ Saving(t) \/ phase \in {"loading", "restoring"}
  \/ file # Torn /\ Held(file) \ Held(persisted) # {}

AfterSave(task) ==
  [task EXCEPT !.at = IF task.leg = "create" THEN "init" ELSE "returned",
               !.snap = Nothing]

WriteBegins(t) ==
  /\ tasks[t].at = "save"
  /\ file' = Torn
  /\ Put(t, [tasks[t] EXCEPT !.at = "write"])
  /\ UNCHANGED <<phase, memory, watching, changed, owed, disturbed>>

\* A client that was created is owed from here on.
WriteEnds(t) ==
  /\ tasks[t].at = "write"
  /\ file' = tasks[t].snap /\ changed' = watching
  /\ owed' = owed \cup (IF tasks[t].job = "create" THEN {tasks[t].name} ELSE {})
  /\ Put(t, AfterSave(tasks[t]))
  /\ UNCHANGED <<phase, memory, watching, disturbed>>

\* save() rejects: only logged.
SaveFails(t) ==
  /\ Faults /\ tasks[t].at = "save"
  /\ Put(t, AfterSave(tasks[t]))
  /\ Notes(TRUE)
  /\ UNCHANGED <<phase, memory, store, owed>>
-----------------------------------------------------------------------------
(***************************************************************************)
(* createClient and destroyClient                                          *)
(***************************************************************************)
Forgotten(a) ==
  /\ a \notin running
  /\ \A n \in Names : a # reg[n] /\ a # disposers[n]
  /\ \A t \in Slots : a # tasks[t].adapter

\* createClient(task.config) up to its first await, quietly while restoring is
\* set.  A name that is taken is skipped; resolving or building can throw.
\* kept is the map of the clients to keep by then, bad what the caller notes.
Create(t, task, quietly, kept, bad) ==
  LET n == task.name
      call == [task EXCEPT !.leg = "create"]
  IN  \/ /\ reg[n] # Absent
         /\ Put(t, [call EXCEPT !.at = "returned"])
         /\ Notes(bad)
         /\ persisted' = kept /\ UNCHANGED <<reg, disposers, running>>
      \/ /\ Faults /\ reg[n] = Absent
         /\ Put(t, [call EXCEPT !.at = "threw"])
         /\ Notes(TRUE)
         /\ persisted' = kept /\ UNCHANGED <<reg, disposers, running>>
      \/ \E a \in Adapters :
           /\ Forgotten(a) /\ reg[n] = Absent
           /\ reg' = [reg EXCEPT ![n] = a]
           /\ disposers' = [disposers EXCEPT ![n] = a]
           /\ running' = running \cup {a}
           /\ \/ /\ ~quietly
                 /\ Persist(t, call, [kept EXCEPT ![n] = task.config])
                 /\ Notes(bad \/ PersistDisturbs(t))
              \/ /\ quietly
                 /\ Put(t, [call EXCEPT !.at = "init"])
                 /\ Notes(bad \/ task.job \notin {"restore", "sync"})
                 /\ persisted' = kept

\* adapter.initialize() resolves, or rejects, which is logged.
InitializeEnds(t) ==
  /\ tasks[t].at = "init"
  /\ Put(t, [tasks[t] EXCEPT !.at = "returned"])
  /\ UNCHANGED <<phase, memory, store, owed, disturbed>>

\* Mutant of Destroy: adapter.destroy() is not called.
DestroyNotStopped(t, task) ==
  /\ Put(t, [task EXCEPT !.leg = "destroy", !.adapter = reg[task.name],
                         !.at = IF reg[task.name] = Absent THEN "returned" ELSE "stop"])
  /\ UNCHANGED running

\* destroyClient(task.name) up to its first await.
Destroy(t, task) ==
  LET n == task.name
      call == [task EXCEPT !.leg = "destroy"]
  IN  \/ /\ reg[n] = Absent
         /\ Put(t, [call EXCEPT !.at = "returned"])
         /\ UNCHANGED running
      \/ /\ reg[n] # Absent
         /\ Put(t, [call EXCEPT !.at = "stop", !.adapter = reg[n]])
         /\ running' = running \ {reg[n]}

\* Mutant of DestroyEnds: the map is not saved.
DestroyEndsUnsaved(t) ==
  /\ tasks[t].at = "stop"
  /\ disposers' = [disposers EXCEPT ![tasks[t].name] = Absent]
  /\ reg' = [reg EXCEPT ![tasks[t].name] = Absent]
  /\ persisted' = [persisted EXCEPT ![tasks[t].name] = Absent]
  /\ Put(t, [tasks[t] EXCEPT !.adapter = Absent, !.at = "returned"])
  /\ UNCHANGED <<phase, restoring, running, store, owed, disturbed>>

\* The rest of it, once adapter.destroy() has ended: by name, whatever entry the
\* name has by now.
DestroyEnds(t) ==
  LET n == tasks[t].name
      call == [tasks[t] EXCEPT !.adapter = Absent]
  IN  /\ tasks[t].at = "stop"
      /\ disposers' = [disposers EXCEPT ![n] = Absent]
      /\ reg' = [reg EXCEPT ![n] = Absent]
      /\ \/ /\ persisted[n] # Absent
            /\ Persist(t, call, [persisted EXCEPT ![n] = Absent])
         \/ /\ persisted[n] = Absent
            /\ Put(t, [call EXCEPT !.at = "returned"]) /\ UNCHANGED persisted
      /\ Notes(reg[n] # tasks[t].adapter
                 \/ (persisted[n] # Absent /\ PersistDisturbs(t)))
      /\ UNCHANGED <<phase, restoring, running, store, owed>>
-----------------------------------------------------------------------------
(***************************************************************************)
(* The calls users make                                                    *)
(***************************************************************************)
Call(job, n, c) == [Idle EXCEPT !.job = job, !.name = n, !.config = c]

\* Another call is about to create or destroy n, whatever this one does to it.
Contended(t, n) ==
  \E task \in Others(t) : n \in {task.name} \cup task.gone \cup task.todo

CreateCalled(t, n, c) ==
  /\ Serving /\ tasks[t] = Idle
  /\ Create(t, Call("create", n, c), restoring, persisted, Contended(t, n))
  /\ UNCHANGED <<phase, restoring, store, owed>>

DestroyCalled(t, n) ==
  /\ Serving /\ tasks[t] = Idle
  /\ Destroy(t, Call("destroy", n, Absent))
  /\ owed' = owed \ {n}
  /\ Notes(Contended(t, n))
  /\ UNCHANGED <<phase, restoring, reg, disposers, persisted, store>>

\* updateClient with options: the client is destroyed and created again.
UpdateCalled(t, n, c) ==
  /\ Serving /\ tasks[t] = Idle /\ reg[n] # Absent
  /\ Destroy(t, Call("update", n, c))
  /\ Notes(Contended(t, n))
  /\ UNCHANGED <<phase, restoring, reg, disposers, persisted, store, owed>>

\* updateClient with a prefix alone.
PrefixCalled(t, n, c) ==
  /\ Serving /\ tasks[t] = Idle /\ reg[n] # Absent
  /\ \/ /\ persisted[n] # Absent
        /\ Persist(t, [Call("prefix", n, c) EXCEPT !.leg = "prefix"],
                   [persisted EXCEPT ![n] = c])
        /\ Notes(PersistDisturbs(t))
     \/ /\ persisted[n] = Absent
        /\ UNCHANGED <<persisted, tasks, disturbed>>
  /\ UNCHANGED <<phase, restoring, reg, disposers, running, store, owed>>

\* updateClient goes on to createClient once destroyClient has returned.
UpdateGoesOn(t) ==
  /\ tasks[t].job = "update" /\ tasks[t].leg = "destroy" /\ tasks[t].at = "returned"
  /\ Create(t, tasks[t], restoring, persisted, FALSE)
  /\ UNCHANGED <<phase, restoring, store, owed>>

\* The promise the caller holds settles.
CallReturns(t) ==
  /\ tasks[t].job \in {"create", "destroy", "prefix", "update"}
  /\ \/ tasks[t].at = "threw"
     \/ tasks[t].at = "returned" /\ ~(tasks[t].job = "update" /\ tasks[t].leg = "destroy")
  /\ Put(t, Idle)
  /\ UNCHANGED <<phase, memory, store, owed, disturbed>>
-----------------------------------------------------------------------------
(***************************************************************************)
(* onApplicationBootstrap                                                  *)
(***************************************************************************)

Boot(t) ==
  /\ phase = "down" /\ tasks[t] = Idle
  /\ phase' = "loading"
  /\ Put(t, [Idle EXCEPT !.job = "restore", !.at = "load"])
  /\ UNCHANGED <<memory, store, owed, disturbed>>

\* Mutant of Kept: the adapter is kept instead of what it was made from.
KeptAdapter(task) ==
  IF task.leg = "create" /\ task.at = "returned"
  THEN [persisted EXCEPT ![task.name] = reg[task.name]] ELSE persisted

\* What a client of a loop leaves behind: it is kept, unless creating it threw.
Kept(task) ==
  IF task.leg = "create" /\ task.at = "returned"
  THEN [persisted EXCEPT ![task.name] = task.config] ELSE persisted

\* The loop of the restore up to its next await, or its end.  Only a file that
\* exists by then can be watched.
RestoreRuns(t, task, kept) ==
  \/ \E n \in task.todo :
       /\ Create(t, [task EXCEPT !.name = n, !.config = task.wanted[n], !.todo = @ \ {n}],
                 TRUE, kept, FALSE)
       /\ phase' = "restoring" /\ restoring' = TRUE
       /\ UNCHANGED watching
  \/ /\ task.todo = {}
     /\ phase' = "running" /\ restoring' = FALSE
     /\ watching' \in BOOLEAN
     /\ Put(t, Idle) /\ persisted' = kept /\ Notes(FALSE)
     /\ UNCHANGED <<reg, disposers, running>>

\* storage.load() rejects on a file that is no JSON: nothing is restored and
\* nothing is watched.
LoadFails(t) ==
  /\ tasks[t].at = "load" /\ file = Torn
  /\ phase' = "running"
  /\ Put(t, Idle) /\ Notes(TRUE)
  /\ UNCHANGED <<memory, store, owed>>

Loads(t) ==
  /\ tasks[t].at = "load" /\ file # Torn
  /\ RestoreRuns(t, [tasks[t] EXCEPT !.wanted = file, !.todo = Held(file)], persisted)
  /\ UNCHANGED <<file, changed, owed>>

\* A file that cannot be read is taken for an empty one.
LoadsNothing(t) ==
  /\ Faults /\ tasks[t].at = "load"
  /\ phase' = "running" /\ watching' \in BOOLEAN
  /\ Put(t, Idle) /\ Notes(TRUE)
  /\ UNCHANGED <<memory, file, changed, owed>>

Returned(t, job) ==
  tasks[t].job = job /\ tasks[t].at \in {"returned", "threw"}

RestoreGoesOn(t) ==
  /\ Returned(t, "restore")
  /\ RestoreRuns(t, tasks[t], Kept(tasks[t]))
  /\ UNCHANGED <<file, changed, owed>>
-----------------------------------------------------------------------------
(***************************************************************************)
(* The watcher and syncWithStorage                                         *)
(***************************************************************************)

\* Somebody edits the file.  The code copes with an edit that is noticed, made
\* while nothing else happens, and does not both remove and add.
Edit(contents) ==
  /\ file # Torn /\ contents # file /\ phase # "down"
  /\ file' = contents /\ changed' = watching
  /\ owed' = Held(contents)
  /\ Notes(\/ ~watching \/ changed \/ \E t \in Slots : tasks[t] # Idle
           \/ Held(file) \ Held(contents) # {} /\ Held(contents) \ Held(file) # {})
  /\ UNCHANGED <<phase, memory, watching, tasks>>

\* The loops of the sync up to their next await, or their end.  First the clients
\* the file no longer has are destroyed, saving each time; then the ones that are
\* not kept yet are created, without saving.
SyncRuns(t, task, kept, bad) ==
  \/ \E n \in task.gone :
       /\ Destroy(t, [task EXCEPT !.name = n, !.gone = @ \ {n}])
       /\ persisted' = kept /\ Notes(bad)
       /\ UNCHANGED <<restoring, reg, disposers>>
  \/ \E n \in {m \in task.todo : kept[m] = Absent} :
       /\ task.gone = {}
       /\ restoring' = TRUE
       /\ Create(t, [task EXCEPT !.name = n, !.config = task.wanted[n], !.todo = @ \ {n}],
                 TRUE, kept, bad)
  \/ /\ task.gone = {} /\ \A m \in task.todo : kept[m] # Absent
     /\ Put(t, Idle)
     /\ restoring' = (restoring /\ task.leg # "create")
     /\ persisted' = kept /\ Notes(bad)
     /\ UNCHANGED <<reg, disposers, running>>

\* What is read may be older than what is being created or destroyed meanwhile.
Stale(t) == Held(persisted) # Held(file) /\ Others(t) # {Idle}

\* The debounce timer fires and the file is read, by then possibly torn again.
SyncStarts(t) ==
  /\ changed /\ changed' = FALSE /\ tasks[t] = Idle
  /\ \/ file = Torn /\ UNCHANGED <<memory, tasks, disturbed>>
     \/ /\ file # Torn
        /\ SyncRuns(t, [Idle EXCEPT !.job = "sync", !.wanted = file,
                                    !.gone = Held(persisted) \ Held(file),
                                    !.todo = Held(file)], persisted, Stale(t))
  /\ UNCHANGED <<phase, file, watching, owed>>

SyncGoesOn(t) ==
  /\ Returned(t, "sync")
  /\ SyncRuns(t, tasks[t], Kept(tasks[t]), FALSE)
  /\ UNCHANGED <<phase, store, owed>>
-----------------------------------------------------------------------------
(***************************************************************************)
(* onApplicationShutdown, and the end of the process                       *)
(***************************************************************************)
Registered == {n \in Names : reg[n] # Absent}

Shutdown ==
  /\ phase = "running" /\ phase' = "stopping"
  /\ watching' = FALSE /\ changed' = FALSE
  /\ disposers' = [n \in Names |-> IF n \in Registered THEN Absent ELSE disposers[n]]
  /\ running' = running \ {reg[n] : n \in Registered}
  /\ UNCHANGED <<restoring, reg, persisted, file, tasks, owed, disturbed>>

\* The adapter's destroy() has ended.
Unregisters(n) ==
  /\ phase = "stopping" /\ reg[n] # Absent
  /\ reg' = [reg EXCEPT ![n] = Absent]
  /\ UNCHANGED <<phase, restoring, disposers, running, persisted, store, tasks, owed,
                 disturbed>>

\* The clients an update has destroyed or is about to, and not created again.
Updating == {tasks[t].name : t \in {u \in Slots : tasks[u].job = "update"}}

\* At any moment, or after the shutdown: all that is left is the file.  A client
\* that is being updated may be in it or not.
ProcessEnds ==
  /\ phase # "down" /\ phase' = "down"
  /\ restoring' = FALSE /\ reg' = Nothing /\ disposers' = Nothing /\ running' = {}
  /\ persisted' = Nothing /\ watching' = FALSE /\ changed' = FALSE
  /\ tasks' = [t \in Slots |-> Idle]
  /\ Notes(Updating # {})
  /\ UNCHANGED <<file, owed>>

Next ==
  \/ \E t \in Slots :
       \/ Boot(t) \/ LoadFails(t) \/ Loads(t) \/ LoadsNothing(t) \/ RestoreGoesOn(t)
       \/ SyncStarts(t) \/ SyncGoesOn(t)
       \/ WriteBegins(t) \/ WriteEnds(t) \/ SaveFails(t)
       \/ InitializeEnds(t) \/ DestroyEnds(t) \/ UpdateGoesOn(t) \/ CallReturns(t)
       \/ \E n \in Names :
            \/ DestroyCalled(t, n)
            \/ \E c \in Configs : \/ CreateCalled(t, n, c) \/ UpdateCalled(t, n, c)
                                  \/ PrefixCalled(t, n, c)
  \/ \E contents \in Contents : Edit(contents)
  \/ \E n \in Names : Unregisters(n)
  \/ Shutdown \/ ProcessEnds

Spec == Init /\ [][Next]_vars
-----------------------------------------------------------------------------
(***************************************************************************)
(* Properties                                                              *)
(***************************************************************************)
TypeOK ==
  /\ phase \in {"down", "loading", "restoring", "running", "stopping"}
  /\ restoring \in BOOLEAN
  /\ reg \in [Names -> Adapters \cup {Absent}]
  /\ disposers \in [Names -> Adapters \cup {Absent}]
  /\ running \subseteq Adapters
  /\ persisted \in Contents /\ file \in Contents \cup {Torn}
  /\ watching \in BOOLEAN /\ changed \in BOOLEAN
  /\ tasks \in [Slots -> [job : Job, leg : Leg, at : At,
                          name : Names \cup {Absent}, config : Configs \cup {Absent},
                          adapter : Adapters \cup {Absent}, snap : Contents,
                          gone : SUBSET Names, wanted : Contents, todo : SUBSET Names]]
  /\ owed \subseteq Names /\ disturbed \in BOOLEAN

\* "Stops a virtual client and forgets it": no adapter is left running that the
\* registry does not know, where nothing could ever stop it.
NoOrphans == Serving /\ ~disturbed => running \subseteq {reg[n] : n \in Names}

\* The registry is sound: of well-formed calls, and without orphans.
RegistryIsSound == TypeOK /\ NoOrphans

\* "They come back after a restart": in a file that can be read are all the
\* clients asked for, at every moment the process could die, but the ones that are
\* being updated.
KeptAcrossCrashes ==
  ~disturbed /\ file # Torn => owed \ Updating \subseteq Held(file)

\* When nothing is going on, what is registered is what is kept, and the file
\* holds the same clients.
QuietMeansAgreed ==
  phase = "running" /\ ~disturbed /\ ~changed /\ (\A t \in Slots : tasks[t] = Idle) =>
    /\ Held(persisted) = Registered
    /\ Held(file) = Registered

\* "Applies an externally edited storage file to the running clients": a sync
\* that starts destroys no client that was created or put into the file, and not
\* removed since.
SyncDestroysOnlyRemoved ==
  [][ \A t \in Slots :
        tasks[t] = Idle /\ tasks'[t].job = "sync" /\ tasks'[t].at = "stop" =>
          tasks'[t].name \notin owed ]_vars
=============================================================================
