------------------------- MODULE Reconciler_proofs -------------------------
(***************************************************************************)
(* Proofs about Reconciler, for every set of names, versions and managed   *)
(* names, every kind of disturbance and every bound on their number.       *)
(***************************************************************************)
EXTENDS Reconciler, StateManager_proofs

USE VersionAssumption, NameAssumption, DisturbancesAssumption

-----------------------------------------------------------------------------
(* The inductive invariant: types, and the shape of a pass in progress, on *)
(* which the type of the kernel depends.                                   *)
Inv == TypeOK /\ PassShape

(* The lemmas of StateManager_proofs ask for the types of the manager only. *)
LEMMA InvTypes == Inv => ManagerTypeOK
BY DEF Inv, TypeOK

(* The first state of a daemon.                                            *)
LEMMA InitInv == Init => Inv
<1> SUFFICES ASSUME Init PROVE Inv
  OBVIOUS
<1>1. KernelTypeOK
  <2>1. PICK present \in SUBSET Present :
          kernel = [n \in Name |-> [file |-> n \in present,
                                   stack |-> IF n \in present THEN <<Bare>> ELSE <<>>,
                                   dns |-> NoVersion]]
    BY DEF Init
  <2>2. <<Bare>> \in Seq(Content) /\ <<>> \in Seq(Content)
    BY DEF Bare, Content
  <2>3. \A n \in Name : (n \in present) \in BOOLEAN
    OBVIOUS
  <2> QED BY <2>1, <2>2, <2>3 DEF KernelTypeOK, Entry
<1>2. disk \in [Name -> File] /\ configs \in [Name -> File]
  BY DEF Init, Scan, File
<1>3. states \in [Name -> State] /\ pass \in Pass /\ due \in BOOLEAN
  BY DEF Init, Untracked, State, Status, Age, NoPass, Pass, Stages, Kinds
<1>4. pending \in BOOLEAN /\ disturbances \in 0 .. MaxDisturbances
  BY DEF Init
<1>5. PassShape
  BY DEF Init, PassShape, NoPass, Idle
<1> QED BY <1>1, <1>2, <1>3, <1>4, <1>5 DEF Inv, TypeOK, ManagerTypeOK

(* The inductive invariant is kept by every step of the daemon, of its     *)
(* environment and of its restarts.                                        *)
LEMMA StepInv == Inv /\ [Next]_vars => Inv'
<1> SUFFICES ASSUME Inv, [Next]_vars PROVE Inv'
  OBVIOUS
<1> USE DEF Inv, TypeOK
<1>1. CASE RunPass
  BY <1>1, PassStepInv DEF RunPass
<1>2. CASE ForcedPass \/ PeriodicPass
  BY <1>2, BeginPassInv DEF ForcedPass, PeriodicPass, Kinds
<1>3. CASE ListingFails
  BY <1>3, ListingFailsInv DEF ListingFails, Kinds
<1>4. CASE LoadChange
  BY <1>4, LoadInv DEF LoadChange
<1>5. CASE Time
  BY <1>5, TimeInv DEF Time
<1>d. ASSUME NEW kind, Disturb(kind) PROVE disturbances' \in 0 .. MaxDisturbances
  BY <1>d DEF Disturb
<1>6. CASE Edit
  BY <1>6, <1>d, EditInv DEF Edit
<1>7. CASE External
  <2>1. KernelTypeOK'
    BY <1>7, LifeType DEF External, ManagerTypeOK
  <2> QED BY <1>7, <2>1, <1>d, HostInv DEF External
<1>8. CASE CrashAndRestart
  <2>1. \A f \in File : [f EXCEPT !.newer = FALSE] \in File
    BY DEF File
  <2>2. disk' \in [Name -> File]
    BY <1>8, <2>1 DEF CrashAndRestart, StartWith, ManagerTypeOK
  <2>3. configs' \in [Name -> File]
    BY <1>8, <2>2 DEF CrashAndRestart, StartWith, Scan, File
  <2>4. /\ states' \in [Name -> State] /\ pass' = NoPass /\ pass' \in Pass /\ due' = TRUE
        /\ pending' = TRUE /\ kernel' = kernel
    BY <1>8 DEF CrashAndRestart, StartWith, NoPass, Pass, Stages, Kinds, Untracked, State,
                Status, Age
  <2>5. PassShape'
    BY <2>4 DEF PassShape, NoPass, Idle
  <2> QED BY <1>8, <2>2, <2>3, <2>4, <2>5, <1>d
     DEF CrashAndRestart, ManagerTypeOK, KernelTypeOK
<1>9. CASE UNCHANGED vars
  BY <1>9 DEF vars, ManagerTypeOK, KernelTypeOK, PassShape, Idle, Configured
<1> QED BY <1>1, <1>2, <1>3, <1>4, <1>5, <1>6, <1>7, <1>8, <1>9 DEF Next

(* Every state of every run is well formed: in particular a creation is    *)
(* under way only for a name whose configuration is loaded, although the   *)
(* host and the files change between its system calls.                     *)
THEOREM Invariance == Spec => []Inv
BY InitInv, StepInv, PTL DEF Spec

(* Every variable keeps its type, whatever the environment does.           *)
THEOREM TypeCorrect == Spec => []TypeOK
<1>1. Inv => TypeOK
  BY DEF Inv
<1> QED BY <1>1, Invariance, PTL

(* Time, edits and other people's namespaces leave the pass, what is loaded *)
(* and the status of every name alone.                                     *)
LEMMA QuietSteps ==
  ASSUME Inv, Time \/ Edit \/ External \/ UNCHANGED vars
  PROVE  /\ pass' = pass /\ configs' = configs
         /\ \A m \in Name : states'[m].status = states[m].status
<1>1. CASE Time \/ Edit
  BY <1>1, InvTypes, QuietEffect DEF Time, Edit
<1>2. CASE External
  BY <1>2 DEF External
<1>3. CASE UNCHANGED vars
  BY <1>3 DEF vars
<1> QED BY <1>1, <1>2, <1>3

(* Only an idle manager starts a pass, fails to list or loads a change.    *)
LEMMA IdleSteps ==
  ASSUME ForcedPass \/ PeriodicPass \/ ListingFails \/ LoadChange
  PROVE  /\ Idle
         /\ \/ /\ pass'.stage = "process" /\ pass'.cur = NoName
               /\ pass'.todo = {n \in Name : Configured(n)}
               /\ UNCHANGED <<configs, states>>
            \/ /\ UNCHANGED <<pass, configs>>
               /\ \E D \in SUBSET {n \in Name : states[n].status = "failed"} : Forget(D)
            \/ UNCHANGED <<pass, states>>
<1>1. CASE ForcedPass \/ PeriodicPass
  BY <1>1 DEF ForcedPass, PeriodicPass, SynchronizeState, NoPass
<1>2. CASE ListingFails
  <2>1. PICK kind \in Kinds : SynchronizeStateFails(kind)
    BY <1>2 DEF ListingFails, Kinds
  <2>2. {n \in Name : kind = "periodic" /\ Expired(n)}
          \in SUBSET {n \in Name : states[n].status = "failed"}
    BY DEF Expired
  <2> QED BY <1>2, <2>1, <2>2 DEF ListingFails, SynchronizeStateFails
<1>3. CASE LoadChange
  BY <1>3 DEF LoadChange, HandleFileEvent
<1> QED BY <1>1, <1>2, <1>3

-----------------------------------------------------------------------------
(* A pass covers every configured namespace: those it has examined are     *)
(* tracked, whatever failed, and a creation never loses the rest.          *)
THEOREM PassesCover == Spec => []PassCovers
<1>1. Init => PassCovers
  BY DEF Init, PassCovers, NoPass, Idle
<1>2. Inv /\ PassCovers /\ [Next]_vars => PassCovers'
  <2> SUFFICES ASSUME Inv, PassCovers, [Next]_vars, ~Idle', NEW m \in Name,
                      Configured(m)', m \notin pass'.todo
               PROVE  Tracked(m)'
    BY DEF PassCovers
  <2> USE DEF Tracked
  <2>4. CASE RunPass
    BY <2>4, InvTypes, PassStepCovers DEF RunPass, PassCovers, Tracked
  <2>5. CASE Time \/ Edit \/ External \/ UNCHANGED vars
    BY <2>5, QuietSteps DEF PassCovers, Idle, Configured
  <2>6. CASE ForcedPass \/ PeriodicPass \/ ListingFails \/ LoadChange
    BY <2>6, IdleSteps DEF Idle, Configured
  <2>7. CASE CrashAndRestart
    BY <2>7 DEF CrashAndRestart, StartWith, NoPass, Idle
  <2> QED BY <2>4, <2>5, <2>6, <2>7 DEF Next
<1> QED BY <1>1, <1>2, Invariance, PTL DEF Spec

(* A namespace is reported as being created exactly while its creation is  *)
(* under way: neither a failure nor a pass that goes on leaves it behind.  *)
THEOREM CreatingUnderWay == Spec => []CreatingIsUnderWay
<1>1. Init => CreatingIsUnderWay
  <2> SUFFICES ASSUME pass = NoPass, states = [n \in Name |-> Untracked]
               PROVE  CreatingIsUnderWay
    BY DEF Init
  <2> QED BY DEF CreatingIsUnderWay, NoPass, Untracked
<1>2. Inv /\ CreatingIsUnderWay /\ [Next]_vars => CreatingIsUnderWay'
  <2> SUFFICES ASSUME Inv, CreatingIsUnderWay, [Next]_vars PROVE CreatingIsUnderWay'
    OBVIOUS
  <2> USE DEF CreatingIsUnderWay
  <2>s. PassShape
    BY DEF Inv
  <2>1. ASSUME NEW n \in Name, Examines(n) PROVE CreatingIsUnderWay'
    <3>1. \A m \in Name : states[m].status # "creating"
      BY <2>1 DEF Examines
    <3>2. CASE UNCHANGED <<states, configs>>
      BY <2>1, <3>1, <3>2 DEF Examines
    <3>3. CASE \E s : s # "creating" /\ Touch(n, s)
      <4>1. \A m \in Name : states'[m].status # "creating"
        BY <3>1, <3>3, InvTypes, TouchEffect
      <4> QED BY <2>1, <4>1 DEF Examines
    <3> QED BY <2>1, <3>1, <3>2, <3>3 DEF Examines
  <2>2. ASSUME NEW n \in Name, Begins(n) PROVE CreatingIsUnderWay'
    <3>1. states'[n].status = "creating" /\ \A m \in Name : m # n => states'[m] = states[m]
      BY <2>2, InvTypes, TouchEffect DEF Begins
    <3>2. \A m \in Name : states[m].status # "creating"
      BY <2>2 DEF Begins
    <3> QED BY <2>2, <3>1, <3>2 DEF Begins
  <2>3. ASSUME NEW n \in Name, Finishes(n) PROVE CreatingIsUnderWay'
    <3>1. /\ states'[n].status \in {"active", "failed"}
          /\ \A m \in Name : m # n => states'[m] = states[m]
      BY <2>3, InvTypes, TouchEffect DEF Finishes
    <3>2. \A m \in Name : m # n => states[m].status # "creating"
      BY <2>3 DEF Finishes
    <3> QED BY <2>3, <3>1, <3>2 DEF Finishes
  <2>4. CASE Advances
    BY <2>4 DEF Advances
  <2>5. CASE EndSynchronizeState
    <3>1. PICK D : Forget(D)
      BY <2>5 DEF EndSynchronizeState
    <3> QED BY <2>5, <3>1, ForgetEffect DEF EndSynchronizeState, NoPass
  <2>6. CASE RunPass
    BY <2>1, <2>2, <2>3, <2>4, <2>5, <2>6, InvTypes, PassStepKinds DEF RunPass
  <2>7. CASE Time \/ Edit \/ External \/ UNCHANGED vars
    BY <2>7, QuietSteps
  <2>8. CASE ForcedPass \/ PeriodicPass \/ ListingFails \/ LoadChange
    BY <2>8, IdleSteps, ForgetEffect DEF Idle
  <2>9. CASE CrashAndRestart
    BY <2>9 DEF CrashAndRestart, StartWith, NoPass, Untracked
  <2> QED BY <2>6, <2>7, <2>8, <2>9 DEF Next
<1> QED BY <1>1, <1>2, Invariance, PTL DEF Spec

(* Names of another prefix stay out of the configuration, of the tracked   *)
(* states and of every pass.                                               *)
THEOREM ForeignStayIgnored == Spec => []ForeignIgnored
<1>1. Init => ForeignIgnored
  <2> SUFFICES ASSUME pass = NoPass, states = [n \in Name |-> Untracked],
                      configs = Scan(disk)
               PROVE  ForeignIgnored
    BY DEF Init
  <2> QED BY DEF ForeignIgnored, Scan, MatchesNamespacePrefix, Tracked, Configured, NoPass,
                 Untracked
<1>2. Inv /\ ForeignIgnored /\ [Next]_vars => ForeignIgnored'
  <2> SUFFICES ASSUME Inv, ForeignIgnored, [Next]_vars, NEW m \in Name \ Managed
               PROVE  ~Tracked(m)' /\ ~Configured(m)' /\ m \notin pass'.todo /\ pass'.cur # m
    BY DEF ForeignIgnored
  <2>f. ~Tracked(m) /\ ~Configured(m) /\ m \notin pass.todo /\ pass.cur # m /\ NoName # m
    BY DEF ForeignIgnored
  <2> USE <2>f DEF Tracked
  <2>1. ASSUME NEW n \in Name, Examines(n) \/ Begins(n) \/ Finishes(n)
        PROVE  ~Tracked(m)' /\ ~Configured(m)' /\ m \notin pass'.todo /\ pass'.cur # m
    <3>1. n # m
      <4>1. CASE n \in pass.todo \/ pass.cur = n
        BY <4>1
      <4> QED BY <2>1, <4>1 DEF Examines, Begins, Finishes
    <3>2. states'[m] = states[m] /\ ~Configured(m)'
      <4>1. CASE UNCHANGED <<states, configs>>
        BY <4>1 DEF Configured
      <4>2. CASE \E s : Touch(n, s)
        BY <3>1, <4>2, InvTypes, TouchEffect DEF Configured
      <4> QED BY <2>1, <4>1, <4>2 DEF Examines, Begins, Finishes
    <3> QED BY <2>1, <3>1, <3>2 DEF Examines, Begins, Finishes
  <2>2. CASE Advances
    BY <2>2 DEF Advances, Configured
  <2>3. CASE EndSynchronizeState
    <3>1. PICK D : Forget(D)
      BY <2>3 DEF EndSynchronizeState
    <3> QED BY <2>3, <3>1, ForgetEffect DEF EndSynchronizeState, NoPass, Configured
  <2>4. CASE RunPass
    BY <2>1, <2>2, <2>3, <2>4, InvTypes, PassStepKinds DEF RunPass
  <2>5. CASE Time \/ Edit \/ External \/ UNCHANGED vars
    BY <2>5, QuietSteps DEF Configured
  <2>6. CASE ForcedPass \/ PeriodicPass \/ ListingFails
    BY <2>6, IdleSteps, ForgetEffect
       DEF ForcedPass, PeriodicPass, ListingFails, SynchronizeState, SynchronizeStateFails,
           Configured
  <2>7. CASE LoadChange
    <3>1. PICK n \in Name : HandleFileEvent(n)
      BY <2>7 DEF LoadChange
    <3>2. n # m
      BY <3>1 DEF HandleFileEvent, MatchesNamespacePrefix
    <3>3. configs' = [configs EXCEPT ![n] = disk[n]] /\ UNCHANGED <<states, pass>>
      BY <3>1 DEF HandleFileEvent
    <3>4. configs \in [Name -> File]
      BY DEF Inv, TypeOK, ManagerTypeOK
    <3> QED BY <3>2, <3>3, <3>4 DEF Configured
  <2>8. CASE CrashAndRestart
    BY <2>8 DEF CrashAndRestart, StartWith, Scan, MatchesNamespacePrefix, NoPass, Untracked,
                Configured
  <2> QED BY <2>4, <2>5, <2>6, <2>7, <2>8 DEF Next
<1> QED BY <1>1, <1>2, Invariance, PTL DEF Spec

-----------------------------------------------------------------------------
(* The manager implements the life cycle it promises.                      *)

(* A touch changes one status and keeps what is wanted.                    *)
LEMMA TouchRefines ==
  ASSUME Inv, NEW n \in Name, NEW s, Touch(n, s)
  PROVE  /\ [m \in Name |-> states'[m].status]
              = [[m \in Name |-> states[m].status] EXCEPT ![n] = s]
         /\ {m \in Name : configs'[m].ver # NoVersion}
              = {m \in Name : configs[m].ver # NoVersion}
BY InvTypes, TouchEffect

(* A forgetting forgets the same names in the life cycle.                  *)
LEMMA ForgetRefines ==
  ASSUME NEW D \in SUBSET {n \in Name : ~Configured(n) \/ states[n].status = "failed"},
         Forget(D), UNCHANGED configs, \A n \in Name : states[n].status # "creating"
  PROVE  L!Forget
<1>1. [m \in Name |-> states'[m].status]
        = [m \in Name |-> IF m \in D THEN "untracked" ELSE states[m].status]
  BY ForgetEffect
<1>2. {m \in Name : Configured(m)}' = {m \in Name : Configured(m)}
  BY DEF Configured
<1> QED BY <1>1, <1>2 DEF L!Forget, L!Resting

(* Every step of a pass is a step of the life cycle or changes nothing it  *)
(* shows.                                                                  *)
LEMMA PassRefines ==
  ASSUME Inv, CreatingIsUnderWay, PassStep
  PROVE  [L!Next]_(L!lifecycleVars)
<1> DEFINE st == [m \in Name |-> states[m].status]
           wa == {m \in Name : Configured(m)}
<1>s. PassShape
  BY DEF Inv
<1>r. pass.stage = "process" => \A m \in Name : states[m].status # "creating"
  BY DEF CreatingIsUnderWay
<1>y. \A m \in Name : states[m].status \in Status
  BY DEF Inv, TypeOK, ManagerTypeOK, State
<1>t. ASSUME NEW n \in Name, NEW s, Touch(n, s)
      PROVE  st' = [st EXCEPT ![n] = s] /\ wa' = wa
  BY <1>t, TouchRefines DEF Configured
<1>1. ASSUME NEW n \in Name, Examines(n) PROVE [L!Next]_(L!lifecycleVars)
  <2>1. n \in wa /\ \A m \in Name : st[m] # "creating"
    BY <1>1, <1>s, <1>r DEF Examines, PassShape
  <2>2. CASE Tracked(n) /\ Touch(n, states[n].status)
    <3>1. st' = [st EXCEPT ![n] = states[n].status] /\ wa' = wa
      BY <1>t, <2>2, Zenon
    <3>2. [st EXCEPT ![n] = states[n].status] = st
      OBVIOUS
    <3> QED BY <3>1, <3>2 DEF L!lifecycleVars
  <2>3. CASE Tracked(n) /\ UNCHANGED <<states, configs>>
    BY <2>3 DEF L!lifecycleVars, Configured
  <2>4. CASE Touch(n, "active")
    <3>1. st' = [st EXCEPT ![n] = "active"] /\ wa' = wa
      BY <2>4, <1>t
    <3>2. CASE st[n] = "active"
      <4>1. st' = st
        BY <3>1, <3>2
      <4> QED BY <3>1, <4>1 DEF L!lifecycleVars
    <3>3. CASE st[n] = "failed"
      BY <2>1, <3>1, <3>3 DEF L!Next, L!Revive, L!Resting, L!Become
    <3>4. CASE st[n] = "untracked"
      BY <2>1, <3>1, <3>4 DEF L!Next, L!TakeUp, L!Resting, L!Become
    <3> QED BY <2>1, <3>2, <3>3, <3>4, <1>y DEF Status
  <2>5. CASE ~Tracked(n) /\ Touch(n, "failed")
    <3>1. st' = [st EXCEPT ![n] = "failed"] /\ wa' = wa /\ st[n] = "untracked"
      BY <2>5, <1>t DEF Tracked
    <3> QED BY <2>1, <3>1 DEF L!Next, L!TakeUp, L!Resting, L!Become
  <2> QED BY <1>1, <2>2, <2>3, <2>4, <2>5 DEF Examines
<1>2. ASSUME NEW n \in Name, Begins(n) PROVE [L!Next]_(L!lifecycleVars)
  <2>1. n \in wa /\ st[n] = "untracked" /\ \A m \in Name : st[m] # "creating"
    BY <1>2, <1>s, <1>r DEF Begins, PassShape, Tracked
  <2>2. st' = [st EXCEPT ![n] = "creating"] /\ wa' = wa
    BY <1>2, <1>t DEF Begins
  <2> QED BY <2>1, <2>2 DEF L!Next, L!TakeUp, L!Resting, L!Become
<1>3. ASSUME NEW n \in Name, Finishes(n) PROVE [L!Next]_(L!lifecycleVars)
  <2>1. st[n] = "creating"
    BY <1>3 DEF Finishes, CreatingIsUnderWay
  <2>2. PICK s \in {"failed", "active"} : st' = [st EXCEPT ![n] = s] /\ wa' = wa
    BY <1>3, <1>t DEF Finishes
  <2> QED BY <2>1, <2>2 DEF L!Next, L!Finish, L!Become
<1>4. CASE Advances
  BY <1>4 DEF Advances, L!lifecycleVars, Configured
<1>5. CASE EndSynchronizeState
  <2> DEFINE D == {n \in Name : \/ Vanished(n)
                                \/ pass.kind = "periodic" /\ Expired(n)}
  <2>1. D \subseteq {n \in Name : ~Configured(n) \/ states[n].status = "failed"}
    BY DEF Vanished, Expired
  <2>2. Forget(D)
    BY <1>5 DEF EndSynchronizeState
  <2>4. UNCHANGED configs /\ pass.stage = "process"
    BY <1>5 DEF EndSynchronizeState
  <2>3. L!Forget
    BY <2>1, <2>2, <2>4, <1>r, ForgetRefines
  <2> QED BY <2>3 DEF L!Next
<1> QED BY <1>1, <1>2, <1>3, <1>4, <1>5, InvTypes, PassStepKinds

(* Whatever the environment does and whenever the daemon dies, the status  *)
(* of every namespace goes through the life cycle: one creation at a time, *)
(* which ends as active or failed; only the failed and the unwanted ones   *)
(* are forgotten; an active namespace does not become failed.              *)
THEOREM Refinement == Spec => FollowsLifecycle
<1>1. Init => L!Init
  BY DEF Init, L!Init, Untracked
<1>2. Inv /\ CreatingIsUnderWay /\ [Next]_vars => [L!Next]_(L!lifecycleVars)
  <2> SUFFICES ASSUME Inv, CreatingIsUnderWay, [Next]_vars PROVE [L!Next]_(L!lifecycleVars)
    OBVIOUS
  <2>r. Idle => \A n \in Name : states[n].status # "creating"
    BY DEF CreatingIsUnderWay, Idle
  <2>1. CASE RunPass
    BY <2>1, PassRefines DEF RunPass
  <2>2. CASE Time \/ Edit \/ External \/ UNCHANGED vars
    BY <2>2, QuietSteps DEF L!lifecycleVars, Configured
  <2>3. CASE ForcedPass \/ PeriodicPass
    BY <2>3 DEF ForcedPass, PeriodicPass, SynchronizeState, L!lifecycleVars, Configured
  <2>4. CASE ListingFails
    <3>1. Idle /\ UNCHANGED configs
      BY <2>4 DEF ListingFails, SynchronizeStateFails
    <3>2. PICK kind \in Kinds : Forget({n \in Name : kind = "periodic" /\ Expired(n)})
      BY <2>4 DEF ListingFails, SynchronizeStateFails, Kinds
    <3>3. {n \in Name : kind = "periodic" /\ Expired(n)}
            \subseteq {n \in Name : ~Configured(n) \/ states[n].status = "failed"}
      BY DEF Expired
    <3>4. L!Forget
      BY <3>1, <3>2, <3>3, <2>r, ForgetRefines
    <3> QED BY <3>4 DEF L!Next
  <2>5. CASE LoadChange
    <3>1. Idle /\ UNCHANGED states
      BY <2>5 DEF LoadChange, HandleFileEvent
    <3> QED BY <3>1, <2>r DEF L!Next, L!ChangeOfMind, L!Resting
  <2>6. CASE CrashAndRestart
    <3>1. states' = [n \in Name |-> Untracked]
      BY <2>6 DEF CrashAndRestart, StartWith
    <3> QED BY <3>1 DEF L!Next, L!Start, Untracked
  <2> QED BY <2>1, <2>2, <2>3, <2>4, <2>5, <2>6 DEF Next
<1> QED BY <1>1, <1>2, Invariance, CreatingUnderWay, PTL
        DEF Spec, FollowsLifecycle, L!Spec

-----------------------------------------------------------------------------
(* Why a pending modification cannot be swallowed: its timestamp is after  *)
(* a last_updated that is not of the current second, the file keeps it     *)
(* pending or is gone, and no creation is under way for it.                *)
PendingShape ==
  \A n \in Name :
    /\ configs[n].newer => configs[n].ver # NoVersion
    /\ disk[n].newer => disk[n].ver # NoVersion
    /\ Tracked(n) /\ (configs[n].newer \/ disk[n].newer) => states[n].at \in {"recent", "aged"}
    /\ Tracked(n) /\ configs[n].newer => disk[n].newer \/ disk[n].ver = NoVersion
    /\ states[n].status = "creating" => ~configs[n].newer

(* What touching a state does to the timestamps compared with it.          *)
LEMMA TouchNewer ==
  ASSUME Inv, NEW n \in Name, NEW s, Touch(n, s)
  PROVE  /\ ~configs'[n].newer /\ ~disk'[n].newer
         /\ configs'[n].ver = configs[n].ver /\ disk'[n].ver = disk[n].ver
         /\ \A m \in Name : m # n => /\ configs'[m] = configs[m] /\ disk'[m] = disk[m]
                                  /\ states'[m] = states[m]
<1>1. configs \in [Name -> File] /\ disk \in [Name -> File] /\ states \in [Name -> State]
  BY DEF Inv, TypeOK, ManagerTypeOK
<1>2. \A f \in File : [f EXCEPT !.newer = FALSE].ver = f.ver
                   /\ [f EXCEPT !.newer = FALSE].newer = FALSE
  BY DEF File
<1>3. /\ configs' = [configs EXCEPT ![n] = [configs[n] EXCEPT !.newer = FALSE]]
      /\ disk' = [disk EXCEPT ![n] = [disk[n] EXCEPT !.newer = FALSE]]
      /\ states' = [states EXCEPT ![n] = Now(s)]
  BY DEF Touch
<1> QED BY <1>1, <1>2, <1>3

(* The shape of pending modifications is invariant.                        *)
LEMMA PendingInvariant == Spec => []PendingShape
<1>1. Init => PendingShape
  <2> SUFFICES ASSUME configs = Scan(disk), states = [n \in Name |-> Untracked],
                      disk \in [Name -> [ver : Version \cup {NoVersion}, newer : {FALSE}]]
               PROVE  PendingShape
    BY DEF Init
  <2> QED BY DEF PendingShape, Scan, Untracked, Tracked
<1>2. Inv /\ CreatingIsUnderWay /\ PendingShape /\ [Next]_vars => PendingShape'
  <2> SUFFICES ASSUME Inv, CreatingIsUnderWay, PendingShape, [Next]_vars, NEW m \in Name
               PROVE  /\ configs'[m].newer => configs'[m].ver # NoVersion
                      /\ disk'[m].newer => disk'[m].ver # NoVersion
                      /\ Tracked(m)' /\ (configs'[m].newer \/ disk'[m].newer)
                           => states'[m].at \in {"recent", "aged"}
                      /\ Tracked(m)' /\ configs'[m].newer
                           => disk'[m].newer \/ disk'[m].ver = NoVersion
                      /\ states'[m].status = "creating" => ~configs'[m].newer
    BY DEF PendingShape
  <2> USE DEF Tracked, PendingShape
  <2>t. /\ configs \in [Name -> File] /\ disk \in [Name -> File]
        /\ states \in [Name -> State]
    BY DEF Inv, TypeOK, ManagerTypeOK
  <2>1. ASSUME NEW n \in Name, NEW s, Touch(n, s) PROVE PendingShape'
    BY <2>1, TouchNewer
  <2>2. CASE UNCHANGED <<configs, disk, states>>
    BY <2>2
  <2>3. ASSUME NEW D, Forget(D), UNCHANGED <<configs, disk>> PROVE PendingShape'
    BY <2>3, ForgetEffect
  <2>4. CASE RunPass
    <3>1. ASSUME NEW n \in Name, RecordMissing(n) PROVE UNCHANGED <<configs, disk, states>>
      BY <3>1 DEF RecordMissing
    <3>2. ASSUME NEW n \in Name, ~RecordMissing(n),
                 \/ RefreshState(n) \/ UpdateExistingNamespace(n) \/ CreateStateFromActual(n)
                 \/ CreateNewNamespace(n) \/ CreatePlaceholderFile(n) \/ MountNamespace(n)
                 \/ ProvisionNamespace(n)
          PROVE  UNCHANGED <<configs, disk, states>> \/ \E s : Touch(n, s)
      BY <3>2 DEF RefreshState, UpdateExistingNamespace, CreateStateFromActual,
                  CreateNewNamespace, CreatePlaceholderFile, MountNamespace,
                  ProvisionNamespace, CreationFailed
    <3>3. CASE EndSynchronizeState
      BY <3>3, <2>3 DEF EndSynchronizeState
    <3> QED BY <2>4, <3>1, <3>2, <3>3, <2>1, <2>2 DEF RunPass, PassStep, ProcessConfiguredNamespace
  <2>5. CASE ForcedPass \/ PeriodicPass
    BY <2>5, <2>2 DEF ForcedPass, PeriodicPass, SynchronizeState
  <2>6. CASE ListingFails
    BY <2>6, <2>3 DEF ListingFails, SynchronizeStateFails
  <2>7. CASE LoadChange
    <3>1. PICK n \in Name : HandleFileEvent(n)
      BY <2>7 DEF LoadChange
    <3>2. /\ configs' = [configs EXCEPT ![n] = disk[n]] /\ UNCHANGED <<disk, states>>
          /\ states[n].status # "creating"
      BY <2>7, <3>1 DEF LoadChange, HandleFileEvent, CreatingIsUnderWay, Idle
    <3> QED BY <3>2, <2>t
  <2>8. CASE Time
    <3>1. /\ UNCHANGED <<configs, disk>>
          /\ Older({"now"}, "recent") \/ Older({"now", "recent"}, "aged")
      BY <2>8 DEF Time, TimePasses, SecondPasses, IntervalPasses, HourPasses
    <3>2. \A s \in State : \A to : /\ [s EXCEPT !.at = to].status = s.status
                                   /\ [s EXCEPT !.at = to].at = to
      BY DEF State
    <3>3. ASSUME NEW from, NEW to \in {"recent", "aged"}, Older(from, to)
          PROVE  \/ states'[m] = states[m]
                 \/ states'[m].status = states[m].status /\ states'[m].at = to
      BY <3>2, <3>3, <2>t DEF Older
    <3> QED BY <3>1, <3>3
  <2>9. CASE Edit
    <3>1. PICK n \in Name, v \in Version \cup {NoVersion} : EditFile(n, v)
      BY <2>9 DEF Edit
    <3>2. /\ disk' = [disk EXCEPT ![n] =
               [ver |-> v, newer |-> v # NoVersion /\ states[n].at \in {"recent", "aged"}]]
          /\ UNCHANGED <<configs, states>>
      BY <3>1 DEF EditFile
    <3> QED BY <3>2, <2>t
  <2>10. CASE External \/ UNCHANGED vars
    BY <2>10, <2>2 DEF External, vars
  <2>11. CASE CrashAndRestart
    <3>1. /\ disk' = [n \in Name |-> [disk[n] EXCEPT !.newer = FALSE]]
          /\ configs' = Scan(disk') /\ states' = [n \in Name |-> Untracked]
      BY <2>11 DEF CrashAndRestart, StartWith
    <3>2. \A f \in File : [f EXCEPT !.newer = FALSE].newer = FALSE
      BY DEF File
    <3> QED BY <3>1, <3>2, <2>t DEF Scan, Untracked
  <2> QED BY <2>4, <2>5, <2>6, <2>7, <2>8, <2>9, <2>10, <2>11 DEF Next
<1> QED BY <1>1, <1>2, Invariance, CreatingUnderWay, PTL DEF Spec

(* What an update re-applies is applied, as far as the host lets it.       *)
LEMMA ReApplyApplies ==
  ASSUME KernelTypeOK, NEW n \in Name, NEW v \in Version, ReApply(n, v)
  PROVE  Applied(n, v)'
<1> DEFINE c == [ifaces |-> Top(n).ifaces, routes |-> Top(n).routes \cup {v}]
           st == IF Mounted(n) THEN <<c>> \o Tail(kernel[n].stack) ELSE kernel[n].stack
           dn == IF Exists(n) THEN v ELSE kernel[n].dns
<1>1. kernel[n] \in Entry /\ (Mounted(n) => c \in Content)
  BY TopType DEF KernelTypeOK, Content
<1>2. kernel'[n] = [kernel[n] EXCEPT !.stack = st, !.dns = dn]
  BY DEF ReApply, Write, KernelTypeOK
<1>3. kernel'[n].stack = st /\ kernel'[n].dns = dn /\ kernel'[n].file = kernel[n].file
  BY <1>1, <1>2 DEF Entry
<1>4. Exists(n)' => kernel'[n].dns = v
  BY <1>3 DEF Exists
<1>5. CASE Mounted(n)
  <2>1. Tail(kernel[n].stack) \in Seq(Content)
    BY <1>1, <1>5, EntryFields, PushType DEF Mounted
  <2>2. Head(kernel'[n].stack) = c
    BY <1>1, <1>3, <1>5, <2>1
  <2> QED BY <1>4, <2>2 DEF Applied, Top
<1>6. CASE ~Mounted(n)
  BY <1>3, <1>4, <1>6 DEF Applied, Mounted
<1> QED BY <1>5, <1>6

(* A pending modification of a tracked namespace stops being pending only  *)
(* by being applied: neither a refresh, a maintenance, a failed or a       *)
(* successful creation nor the loading of a file event swallows it.        *)
THEOREM PendingApplied == Spec => PendingUpdateApplied
<1> DEFINE A == \A n \in Name :
                  /\ Tracked(n) /\ configs[n].newer
                  /\ Tracked(n)' /\ configs'[n] = [configs[n] EXCEPT !.newer = FALSE]
                  => Applied(n, configs[n].ver)'
<1>1. Inv /\ CreatingIsUnderWay /\ PendingShape /\ [Next]_vars => [A]_vars
  <2> SUFFICES ASSUME Inv, CreatingIsUnderWay, PendingShape, Next, NEW n \in Name,
                      Tracked(n), configs[n].newer, Tracked(n)',
                      configs'[n] = [configs[n] EXCEPT !.newer = FALSE]
               PROVE  Applied(n, configs[n].ver)'
    OBVIOUS
  <2>t. /\ KernelTypeOK /\ configs \in [Name -> File] /\ PassShape
    BY DEF Inv, TypeOK, ManagerTypeOK
  <2>f. /\ configs'[n].newer = FALSE /\ configs'[n].ver = configs[n].ver
        /\ configs'[n] # configs[n]
    BY <2>t DEF File
  <2>1. ASSUME NEW m \in Name, NEW s, Touch(m, s) PROVE m = n
    BY <2>1, <2>f, TouchNewer
  <2>2. ASSUME NEW m \in Name, RefreshState(m) PROVE FALSE
    <3>1. Touch(m, states[m].status) /\ ~configs[m].newer
      BY <2>2 DEF RefreshState, NeedsNamespaceUpdate
    <3> QED BY <3>1, <2>1
  <2>3. ASSUME NEW m \in Name, UpdateExistingNamespace(m)
        PROVE  Applied(n, configs[n].ver)'
    <3>1. Touch(m, "active") /\ ReApply(m, configs[m].ver) /\ m \in pass.todo
      BY <2>3 DEF UpdateExistingNamespace, Processing
    <3>2. m = n
      BY <3>1, <2>1
    <3>3. PICK v \in Version : v = configs[n].ver
      BY <3>1, <3>2, ConfiguredVersion DEF PassShape, Inv, TypeOK
    <3>4. ReApply(n, v)
      BY <3>1, <3>2, <3>3
    <3>5. Applied(n, v)'
      BY <3>4, <2>t, ReApplyApplies
    <3> QED BY <3>3, <3>5, <2>f DEF Applied
  <2>4. ASSUME NEW m \in Name, CreateStateFromActual(m) \/ CreateNewNamespace(m) PROVE FALSE
    <3>1. ~Tracked(m) /\ \E s : Touch(m, s)
      BY <2>4 DEF CreateStateFromActual, CreateNewNamespace
    <3> QED BY <3>1, <2>1
  <2>5. ASSUME NEW m \in Name,
               CreatePlaceholderFile(m) \/ MountNamespace(m) \/ ProvisionNamespace(m)
        PROVE  FALSE
    <3>1. pass.cur = m /\ pass.stage \in {"placeholder", "mount", "provision"}
      BY <2>5 DEF CreatePlaceholderFile, MountNamespace, ProvisionNamespace
    <3>2. ~configs[m].newer
      BY <3>1 DEF CreatingIsUnderWay, PendingShape
    <3>3. UNCHANGED configs \/ \E s : Touch(m, s)
      BY <2>5 DEF CreatePlaceholderFile, MountNamespace, ProvisionNamespace, CreationFailed
    <3> QED BY <3>2, <3>3, <2>1, <2>f
  <2>6. CASE RunPass
    <3>1. ASSUME NEW m \in Name, RecordMissing(m) PROVE FALSE
      BY <3>1, <2>f DEF RecordMissing
    <3>2. CASE EndSynchronizeState
      BY <3>2, <2>f DEF EndSynchronizeState
    <3> QED BY <2>6, <2>2, <2>3, <2>4, <2>5, <3>1, <3>2 DEF RunPass, PassStep, ProcessConfiguredNamespace
  <2>7. CASE ForcedPass \/ PeriodicPass \/ ListingFails \/ Time \/ Edit \/ External
    BY <2>7, <2>f, QuietSteps
       DEF ForcedPass, PeriodicPass, SynchronizeState, ListingFails, SynchronizeStateFails
  <2>8. CASE LoadChange
    <3>1. PICK m \in Name : HandleFileEvent(m)
      BY <2>8 DEF LoadChange
    <3>2. configs' = [configs EXCEPT ![m] = disk[m]]
      BY <3>1 DEF HandleFileEvent
    <3>3. m = n /\ configs'[n] = disk[n]
      BY <3>2, <2>t, <2>f
    <3> QED BY <3>3, <2>f DEF PendingShape
  <2>9. CASE CrashAndRestart
    BY <2>9 DEF CrashAndRestart, StartWith, Untracked, Tracked
  <2> QED BY <2>6, <2>7, <2>8, <2>9 DEF Next
<1> QED BY <1>1, Invariance, CreatingUnderWay, PendingInvariant, PTL
        DEF Spec, PendingUpdateApplied

-----------------------------------------------------------------------------
(* Files and mounts.                                                       *)

(* What is written into a namespace changes neither its file nor its mount. *)
LEMMA WriteKeeps ==
  ASSUME KernelTypeOK, NEW n \in Name, NEW v \in Version, SetUp(n, v) \/ ReApply(n, v)
  PROVE  \A m \in Name : (Exists(m)' <=> Exists(m)) /\ (Mounted(m)' <=> Mounted(m))
<1>1. PICK c : Write(n, c, v) /\ (Mounted(n) => c \in Content)
  BY TopType DEF SetUp, ReApply, Content
<1> DEFINE st == IF Mounted(n) THEN <<c>> \o Tail(kernel[n].stack) ELSE kernel[n].stack
           dn == IF Exists(n) THEN v ELSE kernel[n].dns
<1>2. kernel[n] \in Entry /\ kernel[n].stack \in Seq(Content)
  BY EntryFields DEF KernelTypeOK
<1>3. st # <<>> <=> kernel[n].stack # <<>>
  <2>1. CASE Mounted(n)
    <3>1. \A s \in Seq(Content) : \A x \in Content : s # <<>> => <<x>> \o Tail(s) # <<>>
      OBVIOUS
    <3> QED BY <1>1, <1>2, <2>1, <3>1 DEF Mounted
  <2>2. CASE ~Mounted(n)
    BY <2>2
  <2> QED BY <2>1, <2>2
<1>4. kernel' = [kernel EXCEPT ![n] = [kernel[n] EXCEPT !.stack = st, !.dns = dn]]
  BY <1>1 DEF Write, KernelTypeOK
<1> HIDE DEF st, dn
<1>5. [kernel[n] EXCEPT !.stack = st, !.dns = dn].file = kernel[n].file
      /\ [kernel[n] EXCEPT !.stack = st, !.dns = dn].stack = st
  BY <1>2 DEF Entry
<1>6. \A m \in Name : /\ kernel'[m].file = kernel[m].file
                      /\ kernel'[m].stack # <<>> <=> kernel[m].stack # <<>>
  BY <1>3, <1>4, <1>5 DEF KernelTypeOK
<1> QED BY <1>6 DEF Exists, Mounted

(* A step of a pass that leaves no mount under way from one in which none  *)
(* was: no file without a namespace is new.                                *)
LEMMA KeepsStrays ==
  ASSUME pass.stage # "mount",
         \A m \in Name : Exists(m)' /\ ~Mounted(m)' => Exists(m) /\ ~Mounted(m)
  PROVE  \A m \in Name : Stray(m)' => Stray(m)
BY DEF Stray

(* No step of a pass leaves a placeholder that was not there before it.    *)
LEMMA PassLeavesNoStray ==
  ASSUME Inv, PassStep
  PROVE  \A m \in Name : Stray(m)' => Stray(m)
<1>t. KernelTypeOK /\ pass \in Pass
  BY DEF Inv, TypeOK, ManagerTypeOK
<1>q. \A m \in Name : kernel' = kernel => (Exists(m)' <=> Exists(m)) /\ (Mounted(m)' <=> Mounted(m))
  BY DEF Exists, Mounted
<1>1. ASSUME NEW n \in Name, RefreshState(n) \/ RecordMissing(n) \/ CreateStateFromActual(n)
                             \/ CreateNewNamespace(n)
      PROVE  \A m \in Name : Stray(m)' => Stray(m)
  BY <1>1, <1>q, KeepsStrays
     DEF RefreshState, RecordMissing, CreateStateFromActual, CreateNewNamespace, Processing
<1>2. ASSUME NEW n \in Name, UpdateExistingNamespace(n)
      PROVE  \A m \in Name : Stray(m)' => Stray(m)
  <2>1. Configured(n) /\ pass.stage = "process" /\ ReApply(n, configs[n].ver)
    BY <1>2 DEF UpdateExistingNamespace, Processing, Inv, PassShape
  <2>2. configs[n].ver \in Version
    BY <2>1, ConfiguredVersion, InvTypes
  <2> QED BY <1>t, <2>1, <2>2, WriteKeeps, KeepsStrays
<1>3. ASSUME NEW n \in Name, ProvisionNamespace(n)
      PROVE  \A m \in Name : Stray(m)' => Stray(m)
  <2>1. Configured(n) /\ pass.stage = "provision" /\ SetUp(n, configs[n].ver)
    BY <1>3 DEF ProvisionNamespace, Inv, PassShape
  <2>2. configs[n].ver \in Version
    BY <2>1, ConfiguredVersion, InvTypes
  <2> QED BY <1>t, <2>1, <2>2, WriteKeeps, KeepsStrays
<1>4. ASSUME NEW n \in Name, CreatePlaceholderFile(n)
      PROVE  \A m \in Name : Stray(m)' => Stray(m)
  <2>1. CASE kernel' = kernel
    BY <1>4, <1>q, <2>1, KeepsStrays DEF CreatePlaceholderFile
  <2>2. CASE CreatePlaceholder(n) /\ pass' = [pass EXCEPT !.stage = "mount"]
    <3>1. pass'.stage = "mount" /\ pass'.cur = n /\ pass.stage = "placeholder"
      BY <1>t, <1>4, <2>2 DEF CreatePlaceholderFile, Pass
    <3>2. \A m \in Name \ {n} : kernel'[m] = kernel[m]
      BY <1>t, <2>2 DEF CreatePlaceholder, KernelTypeOK
    <3> QED BY <3>1, <3>2 DEF Stray, Exists, Mounted
  <2> QED BY <1>4, <2>1, <2>2 DEF CreatePlaceholderFile
<1>5. ASSUME NEW n \in Name, MountNamespace(n)
      PROVE  \A m \in Name : Stray(m)' => Stray(m)
  <2>1. pass.stage = "mount" /\ pass.cur = n
    BY <1>5 DEF MountNamespace
  <2>2. kernel[n] \in Entry /\ kernel[n].stack \in Seq(Content) /\ Bare \in Content
    BY <1>t, EntryFields DEF KernelTypeOK, Bare, Content
  <2>3. CASE BindMount(n)
    <3>1. kernel' = [kernel EXCEPT ![n].stack = <<Bare>> \o kernel[n].stack]
      BY <1>t, <2>3 DEF BindMount, KernelTypeOK
    <3>2. <<Bare>> \o kernel[n].stack # <<>>
      <4>1. \A s \in Seq(Content) : \A x \in Content : <<x>> \o s # <<>>
        OBVIOUS
      <4> QED BY <2>2, <4>1
    <3>3. kernel'[n].stack # <<>> /\ \A m \in Name \ {n} : kernel'[m] = kernel[m]
      BY <1>t, <2>2, <3>1, <3>2 DEF KernelTypeOK, Entry
    <3> QED BY <2>1, <3>3 DEF Stray, Exists, Mounted
  <2>4. CASE RemoveFile(n)
    <3>1. /\ kernel'[n].file <=> kernel[n].stack # <<>>
          /\ kernel'[n].stack = kernel[n].stack
          /\ \A m \in Name \ {n} : kernel'[m] = kernel[m]
      BY <1>t, <2>2, <2>4 DEF RemoveFile, Mounted, KernelTypeOK, Entry
    <3> QED BY <2>1, <3>1 DEF Stray, Exists, Mounted
  <2> QED BY <1>5, <2>3, <2>4 DEF MountNamespace
<1>6. CASE EndSynchronizeState
  BY <1>6, <1>q, KeepsStrays DEF EndSynchronizeState
<1> QED BY <1>1, <1>2, <1>3, <1>4, <1>5, <1>6 DEF PassStep, ProcessConfiguredNamespace

(* However a creation ends, the daemon leaves no file behind that no       *)
(* namespace is mounted on, whatever others do between its system calls    *)
(* (create_namespace removes its placeholder when the mount fails).        *)
THEOREM NoPlaceholder == Spec => NoPlaceholderLeft
<1> DEFINE Clean == disturbances' = disturbances => \A n \in Name : Stray(n)' => Stray(n)
<1>1. Inv /\ [Next]_vars => Clean
  <2> SUFFICES ASSUME Inv, [Next]_vars, disturbances' = disturbances, NEW m \in Name, Stray(m)'
               PROVE  Stray(m)
    OBVIOUS
  <2>1. CASE RunPass
    BY <2>1, PassLeavesNoStray DEF RunPass
  <2>2. CASE ForcedPass \/ PeriodicPass
    BY <2>2 DEF ForcedPass, PeriodicPass, SynchronizeState, Idle, Stray, Exists, Mounted
  <2>3. CASE ListingFails \/ LoadChange \/ Time \/ UNCHANGED vars
    BY <2>3 DEF ListingFails, SynchronizeStateFails, LoadChange, HandleFileEvent, Time, TimePasses,
                SecondPasses, IntervalPasses, HourPasses, vars, Stray, Exists, Mounted
  <2>4. CASE Edit \/ External \/ CrashAndRestart
    BY <2>4 DEF Edit, External, CrashAndRestart, Disturb, Inv, TypeOK
  <2> QED BY <2>1, <2>2, <2>3, <2>4 DEF Next
<1>2. Spec => [][Clean]_vars
  BY <1>1, Invariance, PTL DEF Spec
<1> QED BY <1>2 DEF NoPlaceholderLeft
=============================================================================
