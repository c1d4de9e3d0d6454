------------------------------- MODULE Daemon -------------------------------
(***************************************************************************)
(* One run of the daemon (event_loop.rs, dbus_service.rs), from its start  *)
(* to its end: the main thread serves D-Bus calls and emits signals, the   *)
(* config-monitor thread runs a pass after every change of a file, the     *)
(* state-sync thread runs one at the start and then periodically. They     *)
(* share the configuration manager and the state manager, each under a     *)
(* lock, a channel of events to the main thread, the shutdown flag, and    *)
(* the host, which is under no lock: DeleteNamespace and RestartNamespace  *)
(* go to the host between their short critical sections.                   *)
(*                                                                         *)
(* A critical section that takes one lock and releases it is one step that *)
(* waits for the lock; the locks of a pass are taken one after the other   *)
(* and held to its end.                                                    *)
(***************************************************************************)
EXTENDS StateManager

CONSTANTS
  CleanupOnShutdown,   \* cleanup_on_shutdown of the daemon's configuration
  Methods,             \* the D-Bus methods that are called
  MaxDisturbances      \* bound on the edits of files and D-Bus calls

Method == {"delete", "restart", "reload"}

ASSUME DaemonAssumption ==
  /\ CleanupOnShutdown \in BOOLEAN
  /\ Methods \subseteq Method
  /\ MaxDisturbances \in Nat

VARIABLES
  pc,            \* where each thread is
  configLock,    \* who holds the lock of the configuration manager
  stateLock,     \* who holds the lock of the state manager
  started,       \* the state-sync thread has run its initial pass
  shutdown,      \* shutdown_signal
  call,          \* the D-Bus call that the main thread serves
  events,        \* the channel to the main thread: what each pass sent
  signalled,     \* the last signal emitted about each name
  cleaning,      \* names the graceful shutdown still has to delete
  disturbances   \* edits and calls so far

daemonVars == <<configLock, stateLock, started, shutdown, call, events, signalled,
                cleaning, disturbances>>
vars == <<kernel, configs, disk, states, pass, due, pc, configLock, stateLock, started,
          shutdown, call, events, signalled, cleaning, disturbances>>

Thread == {"main", "config", "sync"}
Free == "nobody"
Signal == {"none", "created", "deleted", "updated"}
Batch == [created : SUBSET Name, deleted : SUBSET Name, updated : SUBSET Name]

MainLabel == {"loop", "reload", "lookup", "name", "find", "unmount", "unlink", "forget",
              "create", "exists", "file", "mount", "path", "enter",
              "cleanup", "cleaning", "join", "done"}
WorkerLabel == {"check", "receive", "handle", "needs", "sleep", "lockConfig", "lockState",
                "pass", "done"}

TypeOK ==
  /\ ManagerTypeOK
  /\ pc \in [Thread -> MainLabel \cup WorkerLabel]
  /\ pc["main"] \in MainLabel /\ pc["config"] \in WorkerLabel /\ pc["sync"] \in WorkerLabel
  /\ configLock \in Thread \cup {Free} /\ stateLock \in Thread \cup {Free}
  /\ started \in BOOLEAN /\ shutdown \in BOOLEAN
  /\ call \in [method : Method \cup {"none"}, name : Name \cup {NoName}]
  /\ events \in Seq(Batch)
  /\ signalled \in [Name -> Signal]
  /\ cleaning \subseteq Name
  /\ disturbances \in 0 .. MaxDisturbances

(* run() up to the spawning of the threads: the directory was scanned.     *)
Init ==
  /\ kernel = [n \in Name |-> [file |-> FALSE, stack |-> <<>>, dns |-> NoVersion]]
  /\ disk \in [Name -> [ver : Version \cup {NoVersion}, newer : {FALSE}]]
  /\ configs = Scan(disk)
  /\ states = [n \in Name |-> Untracked]
  /\ pass = NoPass
  /\ due = TRUE
  /\ pc = [main |-> "loop", config |-> "check", sync |-> "lockConfig"]
  /\ configLock = Free /\ stateLock = Free
  /\ started = FALSE /\ shutdown = FALSE
  /\ call = [method |-> "none", name |-> NoName]
  /\ events = <<>>
  /\ signalled = [n \in Name |-> "none"]
  /\ cleaning = {}
  /\ disturbances = 0

At(t, label) == pc[t] = label
Goto(t, label) == pc' = [pc EXCEPT ![t] = label]

-----------------------------------------------------------------------------
(* A pass, by the config-monitor or the state-sync thread.                 *)
Source(t) ==
  IF t = "config" THEN "config_change" ELSE IF started THEN "sync" ELSE "initial_sync"

Kind(t) == IF Source(t) = "sync" THEN "periodic" ELSE "forced"

LockConfig(t) ==
  /\ At(t, "lockConfig") /\ configLock = Free
  /\ configLock' = t
  /\ Goto(t, "lockState")
  /\ UNCHANGED <<managerVars, stateLock, started, shutdown, call, events, signalled,
                 cleaning, disturbances>>

LockState(t) ==
  /\ At(t, "lockState") /\ stateLock = Free
  /\ SynchronizeState(Kind(t))
  /\ stateLock' = t
  /\ Goto(t, "pass")
  /\ UNCHANGED <<configLock, started, shutdown, call, events, signalled, cleaning, disturbances>>

\* Where a thread goes after its pass: the state-sync thread sleeps after a periodic one.
AfterPass(t) ==
  /\ Goto(t, IF Source(t) = "sync" THEN "sleep" ELSE "check")
  /\ started' = (started \/ t = "sync")

ListingFails(t) ==
  /\ At(t, "lockState") /\ stateLock = Free
  /\ SynchronizeStateFails(Kind(t))
  /\ configLock' = Free
  /\ AfterPass(t)
  /\ UNCHANGED <<stateLock, shutdown, call, events, signalled, cleaning, disturbances>>

RunPass(t) ==
  /\ At(t, "pass")
  /\ ProcessConfiguredNamespace
  /\ UNCHANGED <<pc, daemonVars>>

\* Faulty: the initial pass reports nothing.
ResultsOfLaterPasses(t) ==
  [created |-> IF Source(t) = "initial_sync" THEN {} ELSE pass.created,
   deleted |-> IF Source(t) = "initial_sync" THEN {} ELSE {n \in Name : Vanished(n)},
   updated |-> IF Source(t) = "initial_sync" THEN {} ELSE pass.updated]

\* What the thread sends: the initial pass reports creations only.
Results(t) ==
  [created |-> pass.created,
   deleted |-> IF Source(t) = "initial_sync" THEN {} ELSE {n \in Name : Vanished(n)},
   updated |-> IF Source(t) = "initial_sync" THEN {} ELSE pass.updated]

Send(batch) ==
  events' = IF batch = [created |-> {}, deleted |-> {}, updated |-> {}]
            THEN events ELSE Append(events, batch)

EndPass(t) ==
  /\ At(t, "pass")
  /\ EndSynchronizeState
  /\ Send(Results(t))
  /\ configLock' = Free /\ stateLock' = Free
  /\ AfterPass(t)
  /\ UNCHANGED <<shutdown, call, signalled, cleaning, disturbances>>

Worker(t) == LockConfig(t) \/ LockState(t) \/ ListingFails(t) \/ RunPass(t) \/ EndPass(t)

-----------------------------------------------------------------------------
(* The config-monitor thread outside its passes. A file whose content is   *)
(* not the loaded one stands for the event in its channel, which is        *)
(* disconnected when the watcher could not be set up.                      *)
\* Faulty: the thread does not look at the flag.
CheckNothing(t, next) ==
  /\ At(t, "check")
  /\ Goto(t, next)
  /\ UNCHANGED <<managerVars, daemonVars>>

CheckShutdown(t, next) ==
  /\ At(t, "check")
  /\ Goto(t, IF shutdown THEN "done" ELSE next)
  /\ UNCHANGED <<managerVars, daemonVars>>

Receive ==
  /\ At("config", "receive")
  /\ \/ (\E n \in Name : configs[n] # disk[n]) /\ Goto("config", "handle")
     \/ Goto("config", "check")
     \/ Goto("config", "done")
  /\ UNCHANGED <<managerVars, daemonVars>>

\* Faulty: the configuration manager is not locked.
HandleUnlocked ==
  /\ At("config", "handle")
  /\ \/ /\ \E n \in Name : configs[n] # disk[n] /\ HandleFileEvent(n)
        /\ Goto("config", "lockConfig")
     \/ UNCHANGED managerVars /\ Goto("config", "check")
  /\ UNCHANGED daemonVars

\* A file that cannot be loaded triggers no pass.
Handle ==
  /\ At("config", "handle") /\ configLock = Free
  /\ \/ /\ \E n \in Name : configs[n] # disk[n] /\ HandleFileEvent(n)
        /\ Goto("config", "lockConfig")
     \/ UNCHANGED managerVars /\ Goto("config", "check")
  /\ UNCHANGED daemonVars

ConfigThread == Worker("config") \/ CheckShutdown("config", "receive") \/ Receive \/ Handle

-----------------------------------------------------------------------------
(* The state-sync thread outside its passes: needs_sync is read under the  *)
(* state lock, which is released before the locks of the pass are taken.   *)
NeedsSync ==
  /\ At("sync", "needs") /\ stateLock = Free
  /\ Goto("sync", IF due THEN "lockConfig" ELSE "sleep")
  /\ UNCHANGED <<managerVars, daemonVars>>

Sleep ==
  /\ At("sync", "sleep")
  /\ Goto("sync", "check")
  /\ UNCHANGED <<managerVars, daemonVars>>

SyncThread == Worker("sync") \/ CheckShutdown("sync", "needs") \/ NeedsSync \/ Sleep

-----------------------------------------------------------------------------
(* The main thread: events of the workers become signals, and one call is  *)
(* served at a time. A call for n goes from label to label; what fails     *)
(* returns an error to the caller and goes back to the loop.               *)
MainBreak ==
  /\ At("main", "loop") /\ shutdown
  /\ Goto("main", "cleanup")
  /\ UNCHANGED <<managerVars, daemonVars>>

Drain ==
  /\ At("main", "loop") /\ events # <<>>
  /\ LET batch == Head(events) IN
       signalled' = [n \in Name |-> IF n \in batch.updated THEN "updated"
                                 ELSE IF n \in batch.deleted THEN "deleted"
                                 ELSE IF n \in batch.created THEN "created"
                                 ELSE signalled[n]]
  /\ events' = Tail(events)
  /\ UNCHANGED <<managerVars, pc, configLock, stateLock, started, shutdown, call, cleaning,
                 disturbances>>

ServeCall(m, n) ==
  /\ At("main", "loop") /\ disturbances < MaxDisturbances
  /\ call' = [method |-> m, name |-> n]
  /\ Goto("main", CASE m = "delete" -> "name" [] m = "restart" -> "lookup"
                   [] m = "reload" -> "reload")
  /\ disturbances' = disturbances + 1
  /\ UNCHANGED <<managerVars, configLock, stateLock, started, shutdown, events, signalled,
                 cleaning>>

\* A step of the call for n that leaves the locks, the events and the flags alone.
Serve(n, from) ==
  /\ At("main", from) /\ call.name = n
  /\ UNCHANGED daemonVars

HostOnly == UNCHANGED <<disk, configs, states, pass, due>>

\* reload_all_configurations parses every file, counts, and keeps nothing.
Reload(n) ==
  /\ Serve(n, "reload") /\ configLock = Free
  /\ Goto("main", "loop")
  /\ UNCHANGED managerVars

LookupConfig(n) ==
  /\ Serve(n, "lookup") /\ configLock = Free
  /\ Goto("main", IF Configured(n) THEN "name" ELSE "loop")
  /\ UNCHANGED managerVars

\* delete_namespace_by_name: the full name, the state, the host, the state again.
FullName(n, from, next) ==
  /\ Serve(n, from) /\ configLock = Free
  /\ Goto("main", next)
  /\ UNCHANGED managerVars

FindState(n) ==
  /\ Serve(n, "find") /\ stateLock = Free
  /\ Goto("main", IF Tracked(n) THEN "unmount" ELSE "loop")
  /\ UNCHANGED managerVars

UnmountNamespace(n) ==
  /\ Serve(n, "unmount")
  /\ \/ Unmount(n) /\ Goto("main", "unlink")
     \/ UNCHANGED kernel /\ Goto("main", "loop")
  /\ HostOnly

UnlinkNamespace(n) ==
  /\ Serve(n, "unlink")
  /\ RemoveFile(n)
  /\ Goto("main", IF Exists(n) /\ ~Mounted(n) THEN "forget" ELSE "loop")
  /\ HostOnly

\* Faulty: the state manager is not locked.
ForgetStateUnlocked(n) ==
  /\ Serve(n, "forget")
  /\ Forget({n})
  /\ Goto("main", IF call.method = "restart" THEN "create" ELSE "loop")
  /\ UNCHANGED <<kernel, disk, configs, pass, due>>

ForgetState(n) ==
  /\ Serve(n, "forget") /\ stateLock = Free
  /\ Forget({n})
  /\ Goto("main", IF call.method = "restart" THEN "create" ELSE "loop")
  /\ UNCHANGED <<kernel, disk, configs, pass, due>>

\* create_namespace_from_config: the host, then the state, which stays "creating".
CheckAbsent(n) ==
  /\ Serve(n, "exists")
  /\ Goto("main", IF Exists(n) THEN "loop" ELSE "file")
  /\ UNCHANGED managerVars

CreateFile(n) ==
  /\ Serve(n, "file")
  /\ \/ CreatePlaceholder(n) /\ Goto("main", "mount")
     \/ UNCHANGED kernel /\ Goto("main", "loop")
  /\ HostOnly

CreateMount(n) ==
  /\ Serve(n, "mount")
  /\ \/ BindMount(n) /\ Goto("main", "path")
     \/ RemoveFile(n) /\ Goto("main", "loop")
  /\ HostOnly

\* Faulty: the state manager is not locked.
EnterStateUnlocked(n) ==
  /\ Serve(n, "enter")
  /\ Touch(n, "creating")
  /\ Goto("main", "loop")
  /\ UNCHANGED <<kernel, pass, due>>

EnterState(n) ==
  /\ Serve(n, "enter") /\ stateLock = Free
  /\ Touch(n, "creating")
  /\ Goto("main", "loop")
  /\ UNCHANGED <<kernel, pass, due>>

DeleteNamespace(n) ==
  FullName(n, "name", "find") \/ FindState(n) \/ UnmountNamespace(n) \/ UnlinkNamespace(n)
  \/ ForgetState(n)

CreateNamespace(n) ==
  FullName(n, "create", "exists") \/ CheckAbsent(n) \/ CreateFile(n) \/ CreateMount(n)
  \/ FullName(n, "path", "enter") \/ EnterState(n)

-----------------------------------------------------------------------------
(* graceful_shutdown and the end of run().                                 *)
Cleanup ==
  /\ At("main", "cleanup") /\ configLock = Free
  /\ shutdown' = TRUE
  /\ cleaning' = {n \in Name : CleanupOnShutdown /\ Configured(n)}
  /\ Goto("main", "cleaning")
  /\ UNCHANGED <<managerVars, configLock, stateLock, started, call, events, signalled,
                 disturbances>>

\* The deletion of one namespace, under the lock of the configuration manager.
CleanNamespace(n) ==
  /\ At("main", "cleaning") /\ n \in cleaning /\ configLock = Free
  /\ signalled' = [signalled EXCEPT ![n] = "deleted"]
  /\ \/ /\ Mounted(n)
        /\ kernel' = [kernel EXCEPT ![n].stack = Tail(@), ![n].file = Len(kernel[n].stack) > 1]
     \/ UNCHANGED kernel
  /\ cleaning' = cleaning \ {n}
  /\ HostOnly
  /\ UNCHANGED <<pc, configLock, stateLock, started, shutdown, call, events, disturbances>>

EndCleanup ==
  /\ At("main", "cleaning") /\ cleaning = {}
  /\ Goto("main", "join")
  /\ UNCHANGED <<managerVars, daemonVars>>

Join ==
  /\ At("main", "join") /\ At("config", "done") /\ At("sync", "done")
  /\ Goto("main", "done")
  /\ UNCHANGED <<managerVars, daemonVars>>

MainThread ==
  \/ MainBreak \/ Drain
  \/ \E n \in Name : Reload(n) \/ LookupConfig(n) \/ DeleteNamespace(n) \/ CreateNamespace(n)
                     \/ CleanNamespace(n)
  \/ Cleanup \/ EndCleanup \/ Join

-----------------------------------------------------------------------------
(* The environment: SIGTERM, edits of files, time.                         *)
Terminate ==
  /\ ~shutdown /\ shutdown' = TRUE
  /\ UNCHANGED <<managerVars, pc, configLock, stateLock, started, call, events, signalled,
                 cleaning, disturbances>>

Edit ==
  /\ disturbances < MaxDisturbances /\ disturbances' = disturbances + 1
  /\ \E n \in Name, v \in Version \cup {NoVersion} : EditFile(n, v)
  /\ UNCHANGED <<pc, configLock, stateLock, started, shutdown, call, events, signalled,
                 cleaning>>

Time ==
  /\ TimePasses /\ managerVars' # managerVars
  /\ UNCHANGED <<pc, daemonVars>>

Ended ==
  /\ At("main", "done")
  /\ UNCHANGED vars

Next ==
  \/ ConfigThread \/ SyncThread \/ MainThread
  \/ \E m \in Methods, n \in Managed : ServeCall(m, n)
  \/ Terminate \/ Edit \/ Time \/ Ended

Spec == Init /\ [][Next]_vars

(* Every thread keeps running and the interval of the periodic pass keeps  *)
(* elapsing; nobody has to call, edit or terminate. The state-sync thread  *)
(* sleeps 30 seconds between its passes and holds no lock meanwhile, so a  *)
(* thread that waits for a lock gets it (strong fairness). The listing of  *)
(* the directory may fail, but not whenever it is tried.                   *)
Fairness ==
  /\ SF_vars(ConfigThread) /\ SF_vars(MainThread) /\ WF_vars(SyncThread)
  /\ SF_vars(LockState("sync"))
  /\ WF_vars(IntervalPasses /\ due' # due /\ UNCHANGED <<pc, daemonVars>>)

FairSpec == Spec /\ Fairness

-----------------------------------------------------------------------------
(* Safety.                                                                 *)

(* The namespace a pass is creating is reported as "creating" until the    *)
(* pass itself says otherwise: no D-Bus call forgets or overwrites it in   *)
(* between, although calls and passes go to the host at the same time      *)
(* (create_new_namespace; the state lock in delete_namespace_by_name and   *)
(* create_namespace_from_config).                                          *)
UnderWayIsCreating ==
  pass.cur # NoName => states[pass.cur].status = "creating"

(* While a pass is under way, only its own steps change what is loaded and *)
(* the status of any namespace: force_sync and synchronize_state run under *)
(* both locks (docs/architecture.md:40), and the calls that go to the host *)
(* without a lock take one for the state.                                  *)
PassIsolated ==
  [][~Idle /\ pass' = pass =>
       /\ configs' = configs
       /\ \A n \in Name : states'[n].status = states[n].status]_vars

-----------------------------------------------------------------------------
(* Liveness, under FairSpec.                                               *)

(* Once the shutdown flag is set the process ends, wherever each of the    *)
(* three threads and the call in progress are: nobody waits for a lock or  *)
(* for a thread that never finishes (run, graceful_shutdown).              *)
ShutdownTerminates == shutdown ~> At("main", "done")

(* A creation by a pass is announced on the bus, unless the daemon is told *)
(* to stop before its main thread has drained the channel.                 *)
CreatedIsSignalled ==
  \A n \in Name : n \in pass.created ~> signalled[n] = "created" \/ shutdown

(* A loaded configuration becomes a tracked namespace again and again,     *)
(* whatever D-Bus calls delete in between (synchronize_state).             *)
ConfiguredIsTracked ==
  \A n \in Name : Configured(n) ~> Tracked(n) \/ ~Configured(n) \/ shutdown

-----------------------------------------------------------------------------
(* Statements of the documentation that the code does not meet.            *)

(* Requirement 4.2: the restart command recreates the namespace. Said of   *)
(* its status: a creation, by whomever, comes to an end.                   *)
RestartCompletes ==
  \A n \in Name : states[n].status = "creating" ~> states[n].status # "creating" \/ shutdown

(* docs/configuration.md: with cleanup_on_shutdown the managed namespaces  *)
(* are deleted on shutdown. Said of the time after the cleanup, whether or *)
(* not its deletions succeeded: no namespace comes into being any more.    *)
ShutdownCleans ==
  [][At("main", "join") /\ CleanupOnShutdown =>
       \A n \in Name : Mounted(n)' => Mounted(n)]_vars
=============================================================================
