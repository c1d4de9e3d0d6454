--------------------------- MODULE Daemon_proofs ---------------------------
(***************************************************************************)
(* Proofs about Daemon, for every set of names and versions, whatever      *)
(* methods are called and however often, with or without cleanup.          *)
(***************************************************************************)
EXTENDS Daemon, StateManager_proofs

USE VersionAssumption, NameAssumption, DaemonAssumption

-----------------------------------------------------------------------------
(* The inductive invariant.                                                *)

(* Who holds which lock: a worker that waits for the state lock holds the  *)
(* other one, a worker in its pass holds both, and a lock that is held is  *)
(* held by such a worker. The state manager is in a pass exactly while     *)
(* somebody holds its lock across steps.                                   *)
LockShape ==
  /\ \A t \in {"config", "sync"} :
       /\ At(t, "lockState") => configLock = t
       /\ At(t, "pass") => configLock = t /\ stateLock = t
  /\ configLock # Free => configLock \in {"config", "sync"} /\ pc[configLock] \in {"lockState", "pass"}
  /\ stateLock # Free => stateLock \in {"config", "sync"} /\ At(stateLock, "pass")
  /\ Idle <=> stateLock = Free

Inv == TypeOK /\ PassShape /\ LockShape

(* The lemmas of StateManager_proofs ask for the types of the manager only. *)
LEMMA InvTypes == Inv => ManagerTypeOK /\ PassShape
BY DEF Inv, TypeOK

(* With the configuration lock free no pass is under way either: a pass    *)
(* takes that lock first and releases both together.                       *)
LEMMA FreeIsIdle ==
  ASSUME Inv, configLock = Free \/ stateLock = Free
  PROVE  Idle
BY DEF Inv, LockShape, Free, At

(* Moving one thread to one of its labels.                                 *)
LEMMA GotoType ==
  ASSUME TypeOK, NEW t \in Thread,
         NEW label \in IF t = "main" THEN MainLabel ELSE WorkerLabel, Goto(t, label)
  PROVE  /\ pc' \in [Thread -> MainLabel \cup WorkerLabel]
         /\ pc'["main"] \in MainLabel /\ pc'["config"] \in WorkerLabel /\ pc'["sync"] \in WorkerLabel
         /\ pc'[t] = label /\ \A u \in Thread : u # t => pc'[u] = pc[u]
BY DEF TypeOK, Goto, Thread

(* The main thread never waits for a lock and never has one.               *)
LEMMA MainLocks ==
  ASSUME Inv, NEW label \in MainLabel, Goto("main", label),
         UNCHANGED <<configLock, stateLock, pass>>
  PROVE  LockShape'
<1>1. pc'["config"] = pc["config"] /\ pc'["sync"] = pc["sync"]
  BY GotoType DEF Inv, Thread
<1>2. UNCHANGED Idle
  BY DEF Idle
<1> QED BY <1>1, <1>2 DEF Inv, LockShape, At

(* The first state of a run.                                               *)
LEMMA InitInv == Init => Inv
<1> SUFFICES ASSUME Init PROVE Inv
  OBVIOUS
<1>1. KernelTypeOK
  <2>1. <<>> \in Seq(Content)
    OBVIOUS
  <2> QED BY <2>1 DEF Init, KernelTypeOK, Entry
<1>2. disk \in [Name -> File] /\ configs \in [Name -> File]
  BY DEF Init, Scan, File
<1>3. states \in [Name -> State] /\ pass \in Pass /\ due \in BOOLEAN
  BY DEF Init, Untracked, State, Status, Age, NoPass, Pass, Stages, Kinds
<1>4. /\ pc \in [Thread -> MainLabel \cup WorkerLabel]
      /\ pc["main"] \in MainLabel /\ pc["config"] \in WorkerLabel /\ pc["sync"] \in WorkerLabel
  BY DEF Init, Thread, MainLabel, WorkerLabel
<1>5. TypeOK
  <2>1. events \in Seq(Batch) /\ signalled \in [Name -> Signal]
    BY DEF Init, Signal
  <2>2. call \in [method : Method \cup {"none"}, name : Name \cup {NoName}]
    BY DEF Init
  <2>3. /\ configLock \in Thread \cup {Free} /\ stateLock \in Thread \cup {Free}
        /\ cleaning \subseteq Name
    BY DEF Init
  <2>5. started \in BOOLEAN /\ shutdown \in BOOLEAN
    BY DEF Init
  <2>6. disturbances \in 0 .. MaxDisturbances
    <3>1. disturbances = 0
      BY DEF Init
    <3> QED BY <3>1
  <2>4. ManagerTypeOK
    BY <1>1, <1>2, <1>3 DEF ManagerTypeOK
  <2> QED BY <1>4, <2>1, <2>2, <2>3, <2>4, <2>5, <2>6 DEF TypeOK
<1>6. PassShape
  BY DEF Init, PassShape, NoPass, Idle
<1>7. LockShape
  BY DEF Init, LockShape, NoPass, Idle, At, Free
<1> QED BY <1>5, <1>6, <1>7 DEF Inv

-----------------------------------------------------------------------------
(* The two worker threads.                                                 *)

(* The manager keeps its types and shape when nobody touches it.           *)
LEMMA ManagerStays ==
  ASSUME Inv, UNCHANGED managerVars
  PROVE  ManagerTypeOK' /\ PassShape' /\ (Idle' <=> Idle)
BY InvTypes DEF managerVars, ManagerTypeOK, KernelTypeOK, PassShape, Idle, Configured

(* A batch of results goes into the channel.                               *)
LEMMA SendType ==
  ASSUME TypeOK, NEW batch \in Batch, Send(batch)
  PROVE  events' \in Seq(Batch)
BY DEF TypeOK, Send

(* What a pass has to report are sets of names.                            *)
LEMMA ResultsType ==
  ASSUME TypeOK, NEW t
  PROVE  Results(t) \in Batch
<1>1. pass.created \in SUBSET Name /\ pass.updated \in SUBSET Name
  BY DEF TypeOK, ManagerTypeOK, Pass
<1> QED BY <1>1 DEF Results, Batch

(* A step of a pass that does not end it leaves it under way.              *)
LEMMA ProcessGoesOn ==
  ASSUME ManagerTypeOK, ProcessConfiguredNamespace
  PROVE  ~Idle /\ ~Idle'
BY ProcessKinds DEF Examines, Begins, Advances, Finishes, Idle

(* Where a thread goes after its pass.                                     *)
LEMMA AfterPassType ==
  ASSUME TypeOK, NEW t \in {"config", "sync"}, AfterPass(t)
  PROVE  /\ pc' \in [Thread -> MainLabel \cup WorkerLabel]
         /\ pc'["main"] \in MainLabel /\ pc'["config"] \in WorkerLabel /\ pc'["sync"] \in WorkerLabel
         /\ pc'[t] \in {"sleep", "check"} /\ \A u \in Thread : u # t => pc'[u] = pc[u]
         /\ started' \in BOOLEAN
<1>1. PICK label \in {"sleep", "check"} : Goto(t, label)
  BY DEF AfterPass
<1>2. label \in IF t = "main" THEN MainLabel ELSE WorkerLabel
  BY DEF WorkerLabel
<1> QED BY <1>1, <1>2, GotoType DEF AfterPass, Thread, TypeOK

(* The steps of a pass, from its first lock to the release of both.        *)
LEMMA WorkerInv ==
  ASSUME Inv, NEW t \in {"config", "sync"}, Worker(t)
  PROVE  Inv'
<1>t. TypeOK /\ ManagerTypeOK /\ PassShape /\ LockShape /\ t # Free /\ t # "main" /\ t \in Thread
  BY DEF Inv, TypeOK, Free, Thread
<1>k. Kind(t) \in Kinds
  BY DEF Kind, Kinds
<1>1. CASE LockConfig(t)
  <2>1. /\ pc'[t] = "lockState" /\ \A u \in Thread : u # t => pc'[u] = pc[u]
        /\ pc' \in [Thread -> MainLabel \cup WorkerLabel]
        /\ pc'["main"] \in MainLabel /\ pc'["config"] \in WorkerLabel /\ pc'["sync"] \in WorkerLabel
    BY <1>1, <1>t, GotoType DEF LockConfig, WorkerLabel
  <2>2. ManagerTypeOK' /\ PassShape' /\ (Idle' <=> Idle)
    BY <1>1, ManagerStays DEF LockConfig
  <2>3. TypeOK'
    BY <1>1, <1>t, <2>1, <2>2 DEF LockConfig, TypeOK
  <2>4. LockShape'
    <3>1. configLock = Free /\ stateLock = Free
      BY <1>1, <1>t DEF LockConfig, LockShape, At
    <3>2. \A u \in {"config", "sync"} : u # t => pc[u] \notin {"lockState", "pass"}
      BY <1>t, <3>1 DEF LockShape, At, Free
    <3> QED BY <1>1, <1>t, <2>1, <2>2, <3>1, <3>2 DEF LockConfig, LockShape, At, Thread
  <2> QED BY <2>2, <2>3, <2>4 DEF Inv
<1>2. CASE LockState(t)
  <2>1. /\ pc'[t] = "pass" /\ \A u \in Thread : u # t => pc'[u] = pc[u]
        /\ pc' \in [Thread -> MainLabel \cup WorkerLabel]
        /\ pc'["main"] \in MainLabel /\ pc'["config"] \in WorkerLabel /\ pc'["sync"] \in WorkerLabel
    BY <1>2, <1>t, GotoType DEF LockState, WorkerLabel
  <2>2. ManagerTypeOK' /\ PassShape' /\ ~Idle'
    BY <1>2, <1>t, <1>k, BeginPassInv DEF LockState, SynchronizeState, NoPass, Idle
  <2>3. TypeOK'
    BY <1>2, <1>t, <2>1, <2>2 DEF LockState, TypeOK
  <2>4. LockShape'
    BY <1>2, <1>t, <2>1, <2>2 DEF LockState, LockShape, At, Thread
  <2> QED BY <2>2, <2>3, <2>4 DEF Inv
<1>3. CASE ListingFails(t)
  <2>1. /\ pc' \in [Thread -> MainLabel \cup WorkerLabel]
        /\ pc'["main"] \in MainLabel /\ pc'["config"] \in WorkerLabel /\ pc'["sync"] \in WorkerLabel
        /\ pc'[t] \in {"sleep", "check"} /\ \A u \in Thread : u # t => pc'[u] = pc[u]
        /\ started' \in BOOLEAN
    BY <1>3, <1>t, AfterPassType DEF ListingFails
  <2>2. ManagerTypeOK' /\ PassShape' /\ (Idle' <=> Idle)
    BY <1>3, <1>t, <1>k, ListingFailsInv DEF ListingFails, SynchronizeStateFails, Idle
  <2>3. TypeOK'
    BY <1>3, <1>t, <2>1, <2>2 DEF ListingFails, TypeOK
  <2>4. LockShape'
    BY <1>3, <1>t, <2>1, <2>2 DEF ListingFails, LockShape, At, Thread
  <2> QED BY <2>2, <2>3, <2>4 DEF Inv
<1>4. CASE RunPass(t)
  <2>1. ManagerTypeOK' /\ PassShape' /\ ~Idle /\ ~Idle'
    BY <1>4, <1>t, PassStepInv, ProcessGoesOn DEF RunPass, PassStep
  <2>2. TypeOK'
    BY <1>4, <1>t, <2>1 DEF RunPass, TypeOK, daemonVars
  <2>3. LockShape'
    BY <1>4, <1>t, <2>1 DEF RunPass, LockShape, At, daemonVars
  <2> QED BY <2>1, <2>2, <2>3 DEF Inv
<1>5. CASE EndPass(t)
  <2>1. /\ pc' \in [Thread -> MainLabel \cup WorkerLabel]
        /\ pc'["main"] \in MainLabel /\ pc'["config"] \in WorkerLabel /\ pc'["sync"] \in WorkerLabel
        /\ pc'[t] \in {"sleep", "check"} /\ \A u \in Thread : u # t => pc'[u] = pc[u]
        /\ started' \in BOOLEAN
    BY <1>5, <1>t, AfterPassType DEF EndPass
  <2>2. ManagerTypeOK' /\ PassShape' /\ Idle'
    BY <1>5, <1>t, PassStepInv DEF EndPass, PassStep, EndSynchronizeState, NoPass, Idle
  <2>3. events' \in Seq(Batch)
    BY <1>5, <1>t, SendType, ResultsType DEF EndPass
  <2>4. TypeOK'
    BY <1>5, <1>t, <2>1, <2>2, <2>3 DEF EndPass, TypeOK
  <2>5. LockShape'
    BY <1>5, <1>t, <2>1, <2>2 DEF EndPass, LockShape, At, Thread
  <2> QED BY <2>2, <2>4, <2>5 DEF Inv
<1> QED BY <1>1, <1>2, <1>3, <1>4, <1>5 DEF Worker

(* A worker that moves between labels outside its passes.                  *)
LEMMA MoveInv ==
  ASSUME Inv, NEW t \in {"config", "sync"}, ~At(t, "lockState"), ~At(t, "pass"),
         NEW label \in WorkerLabel \ {"lockState", "pass"}, Goto(t, label),
         UNCHANGED daemonVars, ManagerTypeOK', PassShape', Idle' <=> Idle
  PROVE  Inv'
<1>t. TypeOK /\ LockShape /\ t # "main" /\ t \in Thread
  BY DEF Inv, Thread
<1>1. /\ pc'[t] = label /\ \A u \in Thread : u # t => pc'[u] = pc[u]
      /\ pc' \in [Thread -> MainLabel \cup WorkerLabel]
      /\ pc'["main"] \in MainLabel /\ pc'["config"] \in WorkerLabel /\ pc'["sync"] \in WorkerLabel
  BY <1>t, GotoType
<1>2. TypeOK'
  BY <1>t, <1>1 DEF TypeOK, daemonVars
<1>3. LockShape'
  BY <1>t, <1>1 DEF LockShape, At, Thread, daemonVars
<1> QED BY <1>2, <1>3 DEF Inv

(* The two threads outside their passes.                                   *)
LEMMA ThreadInv ==
  ASSUME Inv, \/ CheckShutdown("config", "receive") \/ Receive \/ Handle
              \/ CheckShutdown("sync", "needs") \/ NeedsSync \/ Sleep
  PROVE  Inv'
<1> USE DEF WorkerLabel, At
<1>1. CASE \/ CheckShutdown("config", "receive") \/ Receive
           \/ CheckShutdown("sync", "needs") \/ NeedsSync \/ Sleep
  <2>1. UNCHANGED <<managerVars, daemonVars>>
    BY <1>1 DEF CheckShutdown, Receive, NeedsSync, Sleep
  <2>2. ManagerTypeOK' /\ PassShape' /\ (Idle' <=> Idle)
    BY <2>1, ManagerStays
  <2>3. PICK t \in {"config", "sync"}, label \in WorkerLabel \ {"lockState", "pass"} :
          ~At(t, "lockState") /\ ~At(t, "pass") /\ Goto(t, label)
    BY <1>1 DEF CheckShutdown, Receive, NeedsSync, Sleep
  <2> QED BY <2>1, <2>2, <2>3, MoveInv
<1>2. CASE Handle
  <2>1. PICK label \in WorkerLabel \ {"lockState", "pass"} : Goto("config", label)
    BY <1>2 DEF Handle
  <2>2. ManagerTypeOK' /\ PassShape' /\ (Idle' <=> Idle)
    <3>1. CASE UNCHANGED managerVars
      BY <3>1, ManagerStays
    <3>2. CASE \E n \in Name : HandleFileEvent(n)
      <4>1. Idle
        BY <1>2, FreeIsIdle DEF Handle
      <4>2. pass' = pass
        BY <3>2 DEF HandleFileEvent
      <4> QED BY <3>2, <4>1, <4>2, InvTypes, LoadInv DEF Idle
    <3> QED BY <1>2, <3>1, <3>2 DEF Handle
  <2> QED BY <1>2, <2>1, <2>2, MoveInv DEF Handle
<1> QED BY <1>1, <1>2

-----------------------------------------------------------------------------
(* The main thread and the environment.                                    *)

(* A step of the main thread that leaves the locks and the pass alone.     *)
LEMMA MainInv ==
  ASSUME Inv, NEW label \in MainLabel, Goto("main", label),
         ManagerTypeOK', PassShape', UNCHANGED <<pass, daemonVars>>
  PROVE  Inv'
<1>1. LockShape'
  BY MainLocks DEF daemonVars
<1>2. /\ pc' \in [Thread -> MainLabel \cup WorkerLabel]
      /\ pc'["main"] \in MainLabel /\ pc'["config"] \in WorkerLabel /\ pc'["sync"] \in WorkerLabel
  BY GotoType DEF Inv, Thread
<1>3. TypeOK'
  BY <1>2 DEF Inv, TypeOK, daemonVars
<1> QED BY <1>1, <1>3 DEF Inv

(* The steps of a call that go from label to label and change nothing.     *)
LEMMA TalkInv ==
  ASSUME Inv, NEW n \in Name,
         \/ Reload(n) \/ LookupConfig(n) \/ FindState(n) \/ CheckAbsent(n)
         \/ FullName(n, "name", "find") \/ FullName(n, "create", "exists")
         \/ FullName(n, "path", "enter")
  PROVE  Inv'
<1>1. UNCHANGED <<managerVars, daemonVars>>
  BY DEF Reload, LookupConfig, FindState, CheckAbsent, FullName, Serve
<1>2. PICK label \in MainLabel : Goto("main", label)
  BY DEF Reload, LookupConfig, FindState, CheckAbsent, FullName, MainLabel
<1>3. ManagerTypeOK' /\ PassShape' /\ UNCHANGED pass
  BY <1>1, ManagerStays DEF managerVars
<1> QED BY <1>1, <1>2, <1>3, MainInv

(* The steps of a call on the host, under no lock.                         *)
LEMMA HostCallInv ==
  ASSUME Inv, NEW n \in Name,
         UnmountNamespace(n) \/ UnlinkNamespace(n) \/ CreateFile(n) \/ CreateMount(n)
  PROVE  Inv'
<1>1. KernelTypeOK /\ ManagerTypeOK /\ PassShape
  BY InvTypes DEF ManagerTypeOK
<1>2. UNCHANGED <<configs, disk, states, pass, due, daemonVars>>
  BY DEF UnmountNamespace, UnlinkNamespace, CreateFile, CreateMount, HostOnly, Serve
<1>3. PICK label \in MainLabel : Goto("main", label)
  BY DEF UnmountNamespace, UnlinkNamespace, CreateFile, CreateMount, MainLabel
<1>4. \/ Unmount(n) \/ RemoveFile(n) \/ CreatePlaceholder(n) \/ BindMount(n)
      \/ UNCHANGED kernel
  BY DEF UnmountNamespace, UnlinkNamespace, CreateFile, CreateMount
<1>5. KernelTypeOK'
  BY <1>1, <1>4, LifeType DEF KernelTypeOK
<1>6. ManagerTypeOK' /\ PassShape'
  BY <1>1, <1>2, <1>5, HostInv
<1> QED BY <1>2, <1>3, <1>6, MainInv

(* The steps of a call that change the state of its name, under the lock.  *)
LEMMA StateCallInv ==
  ASSUME Inv, NEW n \in Name, ForgetState(n) \/ EnterState(n)
  PROVE  Inv'
<1>1. ManagerTypeOK /\ PassShape /\ UNCHANGED <<pass, daemonVars>>
  BY InvTypes DEF ForgetState, EnterState, Serve
<1>2. PICK label \in MainLabel : Goto("main", label)
  BY DEF ForgetState, EnterState, MainLabel
<1>3. ManagerTypeOK' /\ PassShape'
  <2>1. CASE ForgetState(n)
    <3>1. Forget({n}) /\ UNCHANGED <<kernel, disk, configs, pass, due>>
      BY <2>1 DEF ForgetState
    <3>2. states' \in [Name -> State]
      BY <1>1, <3>1, ForgetType
    <3> QED BY <1>1, <3>1, <3>2 DEF ManagerTypeOK, KernelTypeOK, PassShape, Idle, Configured
  <2>2. CASE EnterState(n)
    <3>1. Touch(n, "creating") /\ UNCHANGED <<kernel, pass, due>> /\ "creating" \in Status
      BY <2>2 DEF EnterState, Status
    <3>2. /\ states' \in [Name -> State] /\ configs' \in [Name -> File] /\ disk' \in [Name -> File]
          /\ \A m \in Name : configs'[m].ver = configs[m].ver
      BY <1>1, <3>1, TouchType
    <3>3. ManagerTypeOK'
      BY <1>1, <3>1, <3>2 DEF ManagerTypeOK, KernelTypeOK
    <3>4. pass.cur \in Name => (Configured(pass.cur) <=> Configured(pass.cur)')
      BY <3>1, <3>2 DEF Configured
    <3>5. pass \in Pass
      BY <1>1 DEF ManagerTypeOK
    <3> QED BY <1>1, <3>1, <3>2, <3>3, <3>4, <3>5 DEF PassShape, Idle, Configured, Pass
  <2> QED BY <2>1, <2>2
<1> QED BY <1>1, <1>2, <1>3, MainInv

(* The deletion of a namespace by the graceful shutdown.                   *)
LEMMA CleanInv ==
  ASSUME Inv, NEW n \in Name, CleanNamespace(n)
  PROVE  Inv'
<1>1. KernelTypeOK /\ ManagerTypeOK /\ PassShape /\ TypeOK
  BY InvTypes DEF ManagerTypeOK, Inv
<1>2. UNCHANGED <<configs, disk, states, pass, due, pc, configLock, stateLock>>
  BY DEF CleanNamespace, HostOnly
<1>3. KernelTypeOK'
  <2> DEFINE k == kernel[n]
  <2>1. CASE Mounted(n) /\ kernel' = [kernel EXCEPT ![n].stack = Tail(@), ![n].file = Len(kernel[n].stack) > 1]
    <3>1. k \in Entry /\ k.stack \in Seq(Content) /\ Tail(k.stack) \in Seq(Content)
      BY <1>1, <2>1, EntryFields, PushType DEF KernelTypeOK, Mounted
    <3>2. (Len(k.stack) > 1) \in BOOLEAN
      OBVIOUS
    <3>3. [k EXCEPT !.stack = Tail(k.stack), !.file = Len(k.stack) > 1] \in Entry
      BY <3>1, <3>2 DEF Entry
    <3>4. kernel' = [kernel EXCEPT ![n] = [k EXCEPT !.stack = Tail(k.stack), !.file = Len(k.stack) > 1]]
      BY <1>1, <2>1 DEF KernelTypeOK
    <3> QED BY <1>1, <3>3, <3>4 DEF KernelTypeOK
  <2>2. CASE UNCHANGED kernel
    BY <1>1, <2>2 DEF KernelTypeOK
  <2> QED BY <2>1, <2>2 DEF CleanNamespace
<1>4. ManagerTypeOK' /\ PassShape'
  BY <1>1, <1>2, <1>3, HostInv
<1>5. TypeOK'
  <2>1. signalled' \in [Name -> Signal] /\ cleaning' \subseteq Name
    BY <1>1 DEF CleanNamespace, TypeOK, Signal
  <2> QED BY <1>1, <1>4, <2>1 DEF CleanNamespace, TypeOK
<1>6. LockShape'
  BY <1>2 DEF Inv, LockShape, At, Idle
<1> QED BY <1>4, <1>5, <1>6 DEF Inv

(* The inductive invariant is kept by every step of every thread and of    *)
(* the environment.                                                        *)
LEMMA StepInv == Inv /\ [Next]_vars => Inv'
<1> SUFFICES ASSUME Inv, [Next]_vars PROVE Inv'
  OBVIOUS
<1>t. TypeOK /\ ManagerTypeOK /\ PassShape
  BY InvTypes DEF Inv
<1>1. CASE ConfigThread \/ SyncThread
  BY <1>1, WorkerInv, ThreadInv DEF ConfigThread, SyncThread
<1>2. ASSUME NEW n \in Name,
             Reload(n) \/ LookupConfig(n) \/ DeleteNamespace(n) \/ CreateNamespace(n)
             \/ CleanNamespace(n)
      PROVE  Inv'
  BY <1>2, TalkInv, HostCallInv, StateCallInv, CleanInv DEF DeleteNamespace, CreateNamespace
<1>3. CASE MainBreak \/ EndCleanup \/ Join
  <2>1. UNCHANGED <<managerVars, daemonVars>>
    BY <1>3 DEF MainBreak, EndCleanup, Join
  <2>2. PICK label \in MainLabel : Goto("main", label)
    BY <1>3 DEF MainBreak, EndCleanup, Join, MainLabel
  <2>3. ManagerTypeOK' /\ PassShape' /\ UNCHANGED pass
    BY <2>1, ManagerStays DEF managerVars
  <2> QED BY <2>1, <2>2, <2>3, MainInv
<1>4. CASE Cleanup \/ \E m \in Methods, n \in Managed : ServeCall(m, n)
  <2>1. ManagerTypeOK' /\ PassShape' /\ UNCHANGED <<pass, configLock, stateLock>>
    BY <1>4, ManagerStays DEF Cleanup, ServeCall, managerVars
  <2>2. PICK label \in MainLabel : Goto("main", label)
    BY <1>4 DEF Cleanup, ServeCall, MainLabel, Method
  <2>3. LockShape'
    BY <2>1, <2>2, MainLocks
  <2>4. /\ pc' \in [Thread -> MainLabel \cup WorkerLabel]
        /\ pc'["main"] \in MainLabel /\ pc'["config"] \in WorkerLabel /\ pc'["sync"] \in WorkerLabel
    BY <1>t, <2>2, GotoType DEF Thread
  <2>5. CASE Cleanup
    <3>1. shutdown' \in BOOLEAN /\ cleaning' \subseteq Name
      BY <2>5 DEF Cleanup
    <3> QED BY <1>t, <2>1, <2>3, <2>4, <2>5, <3>1 DEF Cleanup, TypeOK, Inv
  <2>6. ASSUME NEW m \in Methods, NEW n \in Managed, ServeCall(m, n) PROVE Inv'
    <3>1. call' \in [method : Method \cup {"none"}, name : Name \cup {NoName}]
      BY <2>6 DEF ServeCall
    <3>2. disturbances' \in 0 .. MaxDisturbances
      BY <1>t, <2>6 DEF ServeCall, TypeOK
    <3> QED BY <1>t, <2>1, <2>3, <2>4, <2>6, <3>1, <3>2 DEF ServeCall, TypeOK, Inv
  <2> QED BY <1>4, <2>5, <2>6
<1>5. CASE Drain \/ Terminate \/ Edit \/ Time \/ UNCHANGED vars
  <2>1. UNCHANGED <<pc, configLock, stateLock, started, call, cleaning>>
    BY <1>5 DEF Drain, Terminate, Edit, Time, vars, daemonVars
  <2>2. ManagerTypeOK' /\ PassShape' /\ (Idle' <=> Idle)
    <3>1. CASE UNCHANGED managerVars
      BY <3>1, ManagerStays
    <3>2. CASE Edit
      BY <3>2, <1>t, EditInv DEF Edit, EditFile, Idle
    <3>3. CASE Time
      BY <3>3, <1>t, TimeInv DEF Time, TimePasses, SecondPasses, IntervalPasses, HourPasses, Idle
    <3> QED BY <1>5, <3>1, <3>2, <3>3 DEF Drain, Terminate, vars, managerVars
  <2>3. shutdown' \in BOOLEAN
    BY <1>5, <1>t DEF Drain, Terminate, Edit, Time, vars, daemonVars, TypeOK
  <2>4. events' \in Seq(Batch) /\ signalled' \in [Name -> Signal]
    <3>1. CASE Drain
      BY <1>t, <3>1 DEF Drain, TypeOK, Signal
    <3> QED BY <1>5, <1>t, <3>1 DEF Terminate, Edit, Time, vars, daemonVars, TypeOK
  <2>5. disturbances' \in 0 .. MaxDisturbances
    BY <1>5, <1>t DEF Drain, Terminate, Edit, Time, vars, daemonVars, TypeOK
  <2>6. TypeOK'
    BY <1>t, <2>1, <2>2, <2>3, <2>4, <2>5 DEF TypeOK
  <2>7. LockShape'
    BY <2>1, <2>2 DEF Inv, LockShape, At
  <2> QED BY <2>2, <2>6, <2>7 DEF Inv
<1> QED BY <1>1, <1>2, <1>3, <1>4, <1>5 DEF Next, MainThread, Ended

(* Every state of every run is well formed, and the locks exclude what     *)
(* they are for: whoever steps through a pass holds both.                  *)
THEOREM Invariance == Spec => []Inv
BY InitInv, StepInv, PTL DEF Spec

(* Every variable keeps its type, whatever is called, edited or terminated. *)
THEOREM TypeCorrect == Spec => []TypeOK
<1>1. Inv => TypeOK
  BY DEF Inv
<1> QED BY <1>1, Invariance, PTL

(* At most one thread is in a pass, and the state manager is in a pass     *)
(* exactly while one is: what Reconciler takes for granted when it lets    *)
(* passes begin, and changes be loaded, only in an idle manager.           *)
THEOREM PassesExclusive ==
  Spec => [](/\ ~(At("config", "pass") /\ At("sync", "pass"))
             /\ ~Idle <=> At("config", "pass") \/ At("sync", "pass"))
<1>1. Inv => /\ ~(At("config", "pass") /\ At("sync", "pass"))
             /\ ~Idle <=> At("config", "pass") \/ At("sync", "pass")
  BY DEF Inv, LockShape, Free
<1> QED BY <1>1, Invariance, PTL

-----------------------------------------------------------------------------
(* What the calls, the files and time do to a pass that is under way.      *)

(* The steps in which a worker takes the state lock, runs or ends a pass.  *)
PassOf(t) == LockState(t) \/ ListingFails(t) \/ RunPass(t) \/ EndPass(t)

(* No other step changes the pass, and none changes what is loaded or the  *)
(* status of a namespace unless the manager is idle.                       *)
LEMMA OtherSteps ==
  ASSUME Inv, [Next]_vars, ~PassOf("config"), ~PassOf("sync")
  PROVE  /\ pass' = pass
         /\ \/ Idle
            \/ /\ configs' = configs
               /\ \A m \in Name : states'[m].status = states[m].status
<1>1. CASE LockConfig("config") \/ LockConfig("sync") \/ CheckShutdown("config", "receive")
           \/ CheckShutdown("sync", "needs") \/ NeedsSync \/ Sleep \/ Receive
  BY <1>1 DEF LockConfig, CheckShutdown, NeedsSync, Sleep, Receive, managerVars
<1>2. CASE Handle
  BY <1>2, FreeIsIdle DEF Handle, HandleFileEvent, managerVars
<1>3. ASSUME NEW n \in Name, ForgetState(n) \/ EnterState(n)
      PROVE  pass' = pass /\ Idle
  BY <1>3, FreeIsIdle DEF ForgetState, EnterState
<1>4. ASSUME NEW n \in Name,
             \/ Reload(n) \/ LookupConfig(n) \/ FindState(n) \/ CheckAbsent(n) \/ CleanNamespace(n)
             \/ FullName(n, "name", "find") \/ FullName(n, "create", "exists")
             \/ FullName(n, "path", "enter") \/ UnmountNamespace(n) \/ UnlinkNamespace(n)
             \/ CreateFile(n) \/ CreateMount(n)
      PROVE  UNCHANGED <<pass, configs, states>>
  BY <1>4 DEF Reload, LookupConfig, FindState, CheckAbsent, CleanNamespace, FullName,
       UnmountNamespace, UnlinkNamespace, CreateFile, CreateMount, HostOnly, managerVars
<1>5. CASE MainBreak \/ Drain \/ Cleanup \/ EndCleanup \/ Join \/ Terminate \/ UNCHANGED vars
           \/ \E m \in Methods, n \in Managed : ServeCall(m, n)
  BY <1>5 DEF MainBreak, Drain, Cleanup, EndCleanup, Join, Terminate, ServeCall, vars, managerVars
<1>6. CASE Edit \/ Time
  BY <1>6, InvTypes, QuietEffect DEF Edit, Time
<1> QED BY <1>1, <1>2, <1>3, <1>4, <1>5, <1>6
   DEF Next, ConfigThread, SyncThread, Worker, PassOf, MainThread, DeleteNamespace,
       CreateNamespace, Ended

(* What the steps of a pass begin with.                                    *)
LEMMA PassSteps ==
  ASSUME Inv, NEW t \in {"config", "sync"}, PassOf(t)
  PROVE  \/ /\ Idle /\ UNCHANGED <<configs, states>>
            /\ pass'.stage = "process" /\ pass'.cur = NoName
            /\ pass'.todo = {n \in Name : Configured(n)}
         \/ Idle /\ UNCHANGED <<pass, configs>>
         \/ PassStep
<1>1. CASE LockState(t)
  BY <1>1, FreeIsIdle DEF LockState, SynchronizeState, NoPass
<1>2. CASE ListingFails(t)
  BY <1>2, FreeIsIdle DEF ListingFails, SynchronizeStateFails
<1>3. CASE RunPass(t) \/ EndPass(t)
  BY <1>3 DEF RunPass, EndPass, PassStep
<1> QED BY <1>1, <1>2, <1>3 DEF PassOf

(* The namespace a pass is creating stays reported as "creating" to the    *)
(* end of its creation: no call, which may go to the host at any time,     *)
(* forgets or overwrites its state in between.                             *)
THEOREM UnderWay == Spec => []UnderWayIsCreating
<1>1. Init => UnderWayIsCreating
  BY DEF Init, UnderWayIsCreating, NoPass
<1>2. Inv /\ UnderWayIsCreating /\ [Next]_vars => UnderWayIsCreating'
  <2> SUFFICES ASSUME Inv, UnderWayIsCreating, [Next]_vars, pass'.cur # NoName
               PROVE  states'[pass'.cur].status = "creating"
    BY DEF UnderWayIsCreating
  <2>s. PassShape /\ pass.cur \in Name \cup {NoName} /\ (Idle => pass.cur = NoName)
    BY InvTypes DEF ManagerTypeOK, Pass, PassShape, Idle
  <2>1. CASE ~PassOf("config") /\ ~PassOf("sync")
    BY <2>1, <2>s, OtherSteps DEF UnderWayIsCreating
  <2>2. CASE PassStep
    <3>1. ASSUME NEW n \in Name, Begins(n) PROVE states'[pass'.cur].status = "creating"
      BY <3>1, InvTypes, TouchEffect DEF Begins
    <3>2. ASSUME NEW n \in Name, Examines(n) \/ Finishes(n) PROVE FALSE
      BY <2>s, <3>2 DEF Examines, Finishes, PassShape
    <3>3. CASE Advances
      BY <3>3 DEF Advances, UnderWayIsCreating
    <3>4. ~EndSynchronizeState
      BY DEF EndSynchronizeState, NoPass
    <3> QED BY <2>2, <3>1, <3>2, <3>3, <3>4, InvTypes, PassStepKinds
  <2> QED BY <2>1, <2>2, <2>s, PassSteps
<1> QED BY <1>1, <1>2, Invariance, PTL DEF Spec

(* A pass covers every configured namespace, although calls delete and     *)
(* recreate namespaces while it runs: whatever is neither still to do nor  *)
(* in creation is tracked.                                                 *)
THEOREM PassesCover == Spec => []PassCovers
<1>1. Init => PassCovers
  BY DEF Init, PassCovers, NoPass, Idle
<1>2. Inv /\ PassCovers /\ [Next]_vars => PassCovers'
  <2> SUFFICES ASSUME Inv, PassCovers, [Next]_vars PROVE PassCovers'
    OBVIOUS
  <2>1. CASE ~PassOf("config") /\ ~PassOf("sync")
    BY <2>1, OtherSteps DEF PassCovers, Idle, Configured, Tracked
  <2>2. CASE PassStep
    BY <2>2, InvTypes, PassStepCovers
  <2>3. CASE Idle /\ UNCHANGED <<pass, configs>>
    BY <2>3 DEF PassCovers, Idle
  <2>4. CASE UNCHANGED <<configs, states>> /\ pass'.todo = {n \in Name : Configured(n)}
    BY <2>4 DEF PassCovers, Configured
  <2> QED BY <2>1, <2>2, <2>3, <2>4, PassSteps
<1> QED BY <1>1, <1>2, Invariance, PTL DEF Spec

(* While a pass is under way only its own steps change what is loaded and  *)
(* the status of a namespace.                                              *)
THEOREM PassesIsolated == Spec => PassIsolated
<1> DEFINE A == ~Idle /\ pass' = pass =>
                  /\ configs' = configs
                  /\ \A n \in Name : states'[n].status = states[n].status
<1>1. Inv /\ [Next]_vars => [A]_vars
  <2> SUFFICES ASSUME Inv, [Next]_vars, ~Idle, pass' = pass
               PROVE  /\ configs' = configs
                      /\ \A n \in Name : states'[n].status = states[n].status
    OBVIOUS
  <2>1. CASE ~PassOf("config") /\ ~PassOf("sync")
    BY <2>1, OtherSteps
  <2>2. CASE PassStep
    <3>1. ASSUME NEW n \in Name, Examines(n) \/ Begins(n) \/ Finishes(n) PROVE FALSE
      BY <3>1 DEF Examines, Begins, Finishes
    <3>2. ~EndSynchronizeState
      BY DEF EndSynchronizeState, NoPass, Idle
    <3> QED BY <2>2, <3>1, <3>2, InvTypes, PassStepKinds DEF Advances
  <2> QED BY <2>1, <2>2, PassSteps
<1> QED BY <1>1, Invariance, PTL DEF Spec, PassIsolated
=============================================================================
