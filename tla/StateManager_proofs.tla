------------------------ MODULE StateManager_proofs ------------------------
(***************************************************************************)
(* Lemmas about the state manager and the host, for every set of names and *)
(* versions: types, the shape of a pass, and what a step of a pass does.    *)
(* They hold whoever runs the passes; Reconciler_proofs and Daemon_proofs  *)
(* build on them.                                                          *)
(***************************************************************************)
EXTENDS StateManager, TLAPS

USE VersionAssumption, NameAssumption

-----------------------------------------------------------------------------
(* What the operations of Netns yield is again a kernel.                   *)

(* The three fields of a namespace's entry.                                *)
LEMMA EntryFields ==
  ASSUME NEW k \in Entry
  PROVE  k.file \in BOOLEAN /\ k.stack \in Seq(Content) /\ k.dns \in Version \cup {NoVersion}
BY DEF Entry

(* Mounting on top of a stack and unmounting its top.                      *)
LEMMA PushType ==
  ASSUME NEW s \in Seq(Content), NEW c \in Content
  PROVE  /\ <<c>> \o s \in Seq(Content)
         /\ s # <<>> => Tail(s) \in Seq(Content) /\ Head(s) \in Content
OBVIOUS

(* Writing into a namespace: add_route_to_namespace, configure_namespace_dns. *)
LEMMA WriteType ==
  ASSUME KernelTypeOK, NEW n \in Name, NEW v \in Version,
         NEW c, Mounted(n) => c \in Content, Write(n, c, v)
  PROVE  KernelTypeOK'
<1> DEFINE st == IF Mounted(n) THEN <<c>> \o Tail(kernel[n].stack) ELSE kernel[n].stack
           dn == IF Exists(n) THEN v ELSE kernel[n].dns
<1>1. kernel[n] \in Entry
  BY DEF KernelTypeOK
<1>2. st \in Seq(Content)
  BY <1>1, EntryFields, PushType DEF Mounted
<1>3. dn \in Version \cup {NoVersion}
  BY <1>1, EntryFields
<1>4. [kernel[n] EXCEPT !.stack = st, !.dns = dn] \in Entry
  BY <1>1, <1>2, <1>3 DEF Entry
<1>5. kernel' = [kernel EXCEPT ![n] = [kernel[n] EXCEPT !.stack = st, !.dns = dn]]
  BY DEF Write, KernelTypeOK
<1> QED BY <1>4, <1>5 DEF KernelTypeOK

(* The namespace a path lookup reaches.                                    *)
LEMMA TopType ==
  ASSUME KernelTypeOK, NEW n \in Name, Mounted(n)
  PROVE  Top(n) \in Content
<1>1. kernel[n].stack \in Seq(Content)
  BY EntryFields DEF KernelTypeOK
<1> QED BY <1>1 DEF Mounted, Top

(* What a creation or an update puts into a namespace.                     *)
LEMMA ProvisionType ==
  ASSUME KernelTypeOK, NEW n \in Name, NEW v \in Version, SetUp(n, v) \/ ReApply(n, v)
  PROVE  KernelTypeOK'
<1>1. Mounted(n) => /\ [ifaces |-> v, routes |-> Top(n).routes \cup {v}] \in Content
                    /\ [ifaces |-> Top(n).ifaces, routes |-> Top(n).routes \cup {v}] \in Content
  BY TopType DEF Content
<1> QED BY <1>1, WriteType DEF SetUp, ReApply

(* The system calls that make and remove a namespace, whoever runs them.   *)
LEMMA LifeType ==
  ASSUME KernelTypeOK, NEW n \in Name,
         \/ CreatePlaceholder(n) \/ BindMount(n) \/ RemoveFile(n) \/ Unmount(n)
         \/ IpNetnsAdd(n) \/ IpNetnsDelete(n)
  PROVE  KernelTypeOK'
<1> DEFINE k == kernel[n]
<1>k. k \in Entry /\ k.stack \in Seq(Content) /\ Bare \in Content
  BY EntryFields DEF KernelTypeOK, Bare, Content
<1>m. Mounted(n) \in BOOLEAN /\ (Len(k.stack) > 1) \in BOOLEAN
  BY DEF Mounted
<1>1. CASE CreatePlaceholder(n)
  BY <1>1, <1>k DEF CreatePlaceholder, KernelTypeOK, Entry
<1>2. CASE BindMount(n)
  <2>1. <<Bare>> \o k.stack \in Seq(Content)
    BY <1>k, PushType
  <2> QED BY <2>1, <1>2, <1>k DEF BindMount, KernelTypeOK, Entry
<1>3. CASE RemoveFile(n)
  BY <1>3, <1>k, <1>m DEF RemoveFile, KernelTypeOK, Entry
<1>4. CASE IpNetnsAdd(n)
  <2>1. <<Bare>> \in Seq(Content)
    BY <1>k
  <2> QED BY <2>1, <1>4, <1>k DEF IpNetnsAdd, KernelTypeOK, Entry
<1>5. CASE IpNetnsDelete(n)
  <2> DEFINE st == IF Mounted(n) THEN Tail(k.stack) ELSE k.stack
  <2>1. st \in Seq(Content)
    BY <1>k, PushType DEF Mounted
  <2>2. [k EXCEPT !.stack = st, !.file = Len(k.stack) > 1] \in Entry
    BY <1>k, <1>m, <2>1 DEF Entry
  <2>3. kernel' = [kernel EXCEPT ![n] = [k EXCEPT !.stack = st, !.file = Len(k.stack) > 1]]
    BY <1>5 DEF IpNetnsDelete, KernelTypeOK
  <2> QED BY <2>2, <2>3 DEF KernelTypeOK
<1>6. CASE Unmount(n)
  <2>1. Tail(k.stack) \in Seq(Content)
    BY <1>6, <1>k, PushType DEF Unmount, Mounted
  <2> QED BY <2>1, <1>6, <1>k DEF Unmount, KernelTypeOK, Entry
<1> QED
  BY <1>1, <1>2, <1>3, <1>4, <1>5, <1>6

-----------------------------------------------------------------------------
(* The shape of a pass: names to do are configured, and the name whose     *)
(* creation is under way is a configured one that is no longer to do. The  *)
(* type of the kernel depends on it: a creation sets up configs[cur].ver.  *)
PassShape ==
  /\ \A n \in pass.todo : Configured(n)
  /\ Idle => pass.todo = {}
  /\ pass.stage \in {"idle", "process"} => pass.cur = NoName
  /\ pass.stage \in {"placeholder", "mount", "provision"} =>
       pass.cur \in Name \ pass.todo /\ Configured(pass.cur)

(* Touching a state keeps the types of what it changes and every version.  *)
LEMMA TouchType ==
  ASSUME ManagerTypeOK, NEW n \in Name, NEW s \in Status, Touch(n, s)
  PROVE  /\ states' \in [Name -> State] /\ configs' \in [Name -> File]
         /\ disk' \in [Name -> File]
         /\ \A m \in Name : configs'[m].ver = configs[m].ver
<1>1. Now(s) \in State
  BY DEF Now, State, Status, Age
<1>2. \A f \in File : [f EXCEPT !.newer = FALSE] \in File
                   /\ [f EXCEPT !.newer = FALSE].ver = f.ver
  BY DEF File
<1>3. /\ states' = [states EXCEPT ![n] = Now(s)]
      /\ configs' = [configs EXCEPT ![n] = [configs[n] EXCEPT !.newer = FALSE]]
      /\ disk' = [disk EXCEPT ![n] = [disk[n] EXCEPT !.newer = FALSE]]
  BY DEF Touch
<1>4. /\ states \in [Name -> State] /\ configs \in [Name -> File]
      /\ disk \in [Name -> File]
  BY DEF ManagerTypeOK
<1> QED BY <1>1, <1>2, <1>3, <1>4

(* Forgetting states keeps their type.                                     *)
LEMMA ForgetType ==
  ASSUME ManagerTypeOK, NEW D \in SUBSET Name, Forget(D)
  PROVE  states' \in [Name -> State]
BY DEF ManagerTypeOK, Forget, Untracked, State, Status, Age

(* A configured name has a version that can be applied.                    *)
LEMMA ConfiguredVersion ==
  ASSUME ManagerTypeOK, NEW n \in Name, Configured(n)
  PROVE  configs[n].ver \in Version
BY DEF ManagerTypeOK, Configured, File

(* A step of a pass keeps the types and the shape of the pass.             *)
LEMMA PassStepInv ==
  ASSUME ManagerTypeOK, PassShape, PassStep
  PROVE  ManagerTypeOK' /\ PassShape'
<1> USE DEF Pass, Stages, Kinds
<1>t. /\ KernelTypeOK /\ pass \in Pass /\ due \in BOOLEAN
      /\ states \in [Name -> State] /\ configs \in [Name -> File]
      /\ disk \in [Name -> File]
  BY DEF ManagerTypeOK
<1>v. \A m \in Name : (configs'[m].ver = configs[m].ver) => (Configured(m) <=> Configured(m)')
  BY DEF Configured
<1>p. /\ \A n \in Name : Processed(n) \in Pass /\ Processed(n).todo = pass.todo \ {n}
      /\ \A n \in Name : /\ Processed(n).stage = pass.stage
                        /\ Processed(n).cur = pass.cur
                        /\ Processed(n).updated = pass.updated
  BY <1>t DEF Processed
<1>s. \A n \in Name : states[n].status \in Status
  BY <1>t DEF State
<1>1. ASSUME NEW n \in Name, RefreshState(n)
      PROVE  ManagerTypeOK' /\ PassShape'
  <2>1. Touch(n, states[n].status) /\ pass' = Processed(n) /\ UNCHANGED <<kernel, due>>
    BY <1>1 DEF RefreshState
  <2>2. ManagerTypeOK'
    BY <2>1, <1>t, <1>p, <1>s, TouchType DEF ManagerTypeOK, KernelTypeOK
  <2>3. PassShape'
    BY <2>1, <1>1, <1>p, <1>v, <1>s, <1>t, TouchType
       DEF PassShape, RefreshState, Processing, Idle
  <2> QED BY <2>2, <2>3
<1>2. ASSUME NEW n \in Name, UpdateExistingNamespace(n)
      PROVE  ManagerTypeOK' /\ PassShape'
  <2>1. /\ Touch(n, "active") /\ UNCHANGED due
        /\ pass' = [Processed(n) EXCEPT !.updated = @ \cup {n}]
        /\ ReApply(n, configs[n].ver) /\ n \in pass.todo /\ pass.stage = "process"
    BY <1>2 DEF UpdateExistingNamespace, Processing
  <2>2. "active" \in Status
    BY DEF Status
  <2>3. pass' \in Pass /\ pass'.stage = "process" /\ pass'.cur = pass.cur
        /\ pass'.todo \subseteq pass.todo
    BY <2>1, <1>t, <1>p
  <2>4. KernelTypeOK'
    BY <2>1, <1>t, ConfiguredVersion, ProvisionType DEF PassShape
  <2>5. ManagerTypeOK'
    BY <2>1, <2>2, <2>3, <2>4, <1>t, TouchType DEF ManagerTypeOK
  <2>6. PassShape'
    BY <2>1, <2>2, <2>3, <1>v, <1>t, TouchType DEF PassShape, Idle
  <2> QED BY <2>5, <2>6
<1>3. ASSUME NEW n \in Name, RecordMissing(n)
      PROVE  ManagerTypeOK' /\ PassShape'
  BY <1>3, <1>t, <1>p DEF RecordMissing, ManagerTypeOK, KernelTypeOK, PassShape, Processing,
       Idle, Configured
<1>4. ASSUME NEW n \in Name, CreateStateFromActual(n)
      PROVE  ManagerTypeOK' /\ PassShape'
  <2>1. /\ Touch(n, "active") /\ UNCHANGED <<kernel, due>>
        /\ pass' = [Processed(n) EXCEPT !.updated = @ \cup {n}]
        /\ pass.stage = "process"
    BY <1>4 DEF CreateStateFromActual, Processing
  <2>2. "active" \in Status
    BY DEF Status
  <2>3. pass' \in Pass /\ pass'.stage = "process" /\ pass'.cur = pass.cur
        /\ pass'.todo \subseteq pass.todo
    BY <2>1, <1>t, <1>p
  <2>5. ManagerTypeOK'
    BY <2>1, <2>2, <2>3, <1>t, TouchType DEF ManagerTypeOK, KernelTypeOK
  <2>6. PassShape'
    BY <2>1, <2>2, <2>3, <1>v, <1>t, TouchType DEF PassShape, Idle
  <2> QED BY <2>5, <2>6
<1>5. ASSUME NEW n \in Name, CreateNewNamespace(n)
      PROVE  ManagerTypeOK' /\ PassShape'
  <2>1. /\ UNCHANGED <<kernel, due>> /\ n \in pass.todo /\ pass.stage = "process"
        /\ \/ Touch(n, "failed") /\ pass' = Processed(n)
           \/ /\ Touch(n, "creating")
              /\ pass' = [Processed(n) EXCEPT !.stage = "placeholder", !.cur = n]
    BY <1>5 DEF CreateNewNamespace, Processing
  <2>2. "failed" \in Status /\ "creating" \in Status
    BY DEF Status
  <2>3. /\ pass' \in Pass /\ pass'.todo = pass.todo \ {n}
        /\ \/ pass'.stage = "process" /\ pass'.cur = pass.cur
           \/ pass'.stage = "placeholder" /\ pass'.cur = n
    <3>1. CASE pass' = Processed(n)
      BY <3>1, <2>1, <1>t, <1>p
    <3>2. CASE pass' = [Processed(n) EXCEPT !.stage = "placeholder", !.cur = n]
      <4>1. \A q \in Pass : LET r == [q EXCEPT !.stage = "placeholder", !.cur = n]
                          IN  /\ r \in Pass /\ r.todo = q.todo
                              /\ r.stage = "placeholder" /\ r.cur = n
        OBVIOUS
      <4> QED BY <3>2, <4>1, <1>p
    <3> QED BY <2>1, <3>1, <3>2
  <2>5. ManagerTypeOK'
    BY <2>1, <2>2, <2>3, <1>t, TouchType DEF ManagerTypeOK, KernelTypeOK
  <2>v. \A m \in Name : configs'[m].ver = configs[m].ver
    BY <2>1, <2>2, TouchType
  <2>6. PassShape'
    BY <2>1, <2>3, <2>v, <1>v, <1>t DEF PassShape, Idle
  <2> QED BY <2>5, <2>6
<1>f. ASSUME NEW n \in Name, pass.cur = n, CreationFailed(n), KernelTypeOK', UNCHANGED due,
             pass.stage \in {"placeholder", "mount"}
      PROVE  ManagerTypeOK' /\ PassShape'
  <2>1. Touch(n, "failed") /\ pass' = [pass EXCEPT !.stage = "process", !.cur = NoName]
    BY <1>f DEF CreationFailed
  <2>2. "failed" \in Status
    BY DEF Status
  <2>3. pass' \in Pass /\ pass'.stage = "process" /\ pass'.cur = NoName /\ pass'.todo = pass.todo
    BY <2>1, <1>t
  <2>5. ManagerTypeOK'
    BY <2>1, <2>2, <2>3, <1>f, <1>t, TouchType DEF ManagerTypeOK
  <2>6. PassShape'
    BY <2>1, <2>2, <2>3, <1>v, <1>t, TouchType DEF PassShape, Idle
  <2> QED BY <2>5, <2>6
<1>6. ASSUME NEW n \in Name, CreatePlaceholderFile(n)
      PROVE  ManagerTypeOK' /\ PassShape'
  <2>1. CASE CreationFailed(n) /\ UNCHANGED kernel
    BY <2>1, <1>6, <1>f, <1>t DEF CreatePlaceholderFile, KernelTypeOK
  <2>2. CASE /\ CreatePlaceholder(n) /\ pass' = [pass EXCEPT !.stage = "mount"]
             /\ UNCHANGED <<states, configs, disk>>
    BY <2>2, <1>6, <1>t, LifeType
       DEF CreatePlaceholderFile, ManagerTypeOK, PassShape, Idle, Configured
  <2> QED BY <2>1, <2>2, <1>6 DEF CreatePlaceholderFile
<1>7. ASSUME NEW n \in Name, MountNamespace(n)
      PROVE  ManagerTypeOK' /\ PassShape'
  <2>1. CASE CreationFailed(n) /\ RemoveFile(n)
    BY <2>1, <1>7, <1>f, <1>t, LifeType DEF MountNamespace
  <2>2. CASE /\ BindMount(n) /\ pass' = [pass EXCEPT !.stage = "provision"]
             /\ UNCHANGED <<states, configs, disk>>
    BY <2>2, <1>7, <1>t, LifeType
       DEF MountNamespace, ManagerTypeOK, PassShape, Idle, Configured
  <2> QED BY <2>1, <2>2, <1>7 DEF MountNamespace
<1>8. ASSUME NEW n \in Name, ProvisionNamespace(n)
      PROVE  ManagerTypeOK' /\ PassShape'
  <2>1. /\ pass.stage = "provision" /\ pass.cur = n /\ SetUp(n, configs[n].ver)
        /\ Touch(n, "active") /\ UNCHANGED due
        /\ pass' = [pass EXCEPT !.stage = "process", !.cur = NoName,
                                !.created = @ \cup {n}]
    BY <1>8 DEF ProvisionNamespace
  <2>2. "active" \in Status
    BY DEF Status
  <2>3. pass' \in Pass /\ pass'.stage = "process" /\ pass'.cur = NoName /\ pass'.todo = pass.todo
    BY <2>1, <1>t
  <2>4. KernelTypeOK'
    BY <2>1, <1>t, ConfiguredVersion, ProvisionType DEF PassShape
  <2>5. ManagerTypeOK'
    BY <2>1, <2>2, <2>3, <2>4, <1>t, TouchType DEF ManagerTypeOK
  <2>6. PassShape'
    BY <2>1, <2>2, <2>3, <1>v, <1>t, TouchType DEF PassShape, Idle
  <2> QED BY <2>5, <2>6
<1>9. ASSUME EndSynchronizeState
      PROVE  ManagerTypeOK' /\ PassShape'
  <2>1. PICK D \in SUBSET Name : Forget(D)
    BY <1>9 DEF EndSynchronizeState
  <2>2. NoPass \in Pass
    BY DEF NoPass
  <2> QED BY <1>9, <2>1, <2>2, <1>t, ForgetType
     DEF EndSynchronizeState, ManagerTypeOK, KernelTypeOK, PassShape, NoPass, Idle
<1> QED BY <1>1, <1>2, <1>3, <1>4, <1>5, <1>6, <1>7, <1>8, <1>9 DEF PassStep, ProcessConfiguredNamespace

-----------------------------------------------------------------------------
(* The other operations keep the types and the shape of a pass.            *)

(* The listing that a pass begins with.                                    *)
LEMMA BeginPassInv ==
  ASSUME ManagerTypeOK, NEW kind \in Kinds, SynchronizeState(kind)
  PROVE  ManagerTypeOK' /\ PassShape'
<1>1. /\ pass' \in Pass /\ pass'.stage = "process" /\ pass'.cur = NoName
      /\ pass'.todo = {n \in Name : Configured(n)}
  BY DEF SynchronizeState, NoPass, Pass, Stages, Kinds, ListNamespaces
<1> QED BY <1>1
   DEF SynchronizeState, ManagerTypeOK, KernelTypeOK, PassShape, Idle, Configured

(* A listing that fails, and the maintenance that follows it.              *)
LEMMA ListingFailsInv ==
  ASSUME ManagerTypeOK, PassShape, NEW kind \in Kinds, SynchronizeStateFails(kind)
  PROVE  ManagerTypeOK' /\ PassShape'
<1>1. PICK D \in SUBSET Name : Forget(D)
  BY DEF SynchronizeStateFails
<1> QED BY <1>1, ForgetType
   DEF SynchronizeStateFails, ManagerTypeOK, KernelTypeOK, PassShape, Idle, Configured

(* A file is loaded or removed while no pass is under way.                 *)
LEMMA LoadInv ==
  ASSUME ManagerTypeOK, PassShape, Idle, NEW n \in Name, HandleFileEvent(n)
  PROVE  ManagerTypeOK' /\ PassShape'
BY DEF HandleFileEvent, ManagerTypeOK, KernelTypeOK, PassShape, Idle

(* Time changes ages only.                                                 *)
LEMMA TimeInv ==
  ASSUME ManagerTypeOK, PassShape, TimePasses
  PROVE  ManagerTypeOK' /\ PassShape'
<1>1. states' \in [Name -> State]
  <2>1. \A s \in State, to \in Age : [s EXCEPT !.at = to] \in State
    BY DEF State
  <2>2. "recent" \in Age /\ "aged" \in Age
    BY DEF Age
  <2> QED BY <2>1, <2>2
     DEF TimePasses, SecondPasses, IntervalPasses, HourPasses, Older, ManagerTypeOK
<1> QED BY <1>1
   DEF TimePasses, SecondPasses, IntervalPasses, HourPasses, ManagerTypeOK, KernelTypeOK,
       PassShape, Idle, Configured

(* Somebody edits a file.                                                  *)
LEMMA EditInv ==
  ASSUME ManagerTypeOK, PassShape, NEW n \in Name, NEW v \in Version \cup {NoVersion},
         EditFile(n, v)
  PROVE  ManagerTypeOK' /\ PassShape'
<1>1. disk' \in [Name -> File]
  BY DEF EditFile, File, ManagerTypeOK
<1> QED BY <1>1 DEF EditFile, ManagerTypeOK, KernelTypeOK, PassShape, Idle, Configured

(* Somebody changes the host.                                              *)
LEMMA HostInv ==
  ASSUME ManagerTypeOK, PassShape, KernelTypeOK',
         UNCHANGED <<configs, disk, states, pass, due>>
  PROVE  ManagerTypeOK' /\ PassShape'
BY DEF ManagerTypeOK, PassShape, Idle, Configured

-----------------------------------------------------------------------------
(* What a step of a pass does to the status and to the pass itself, with   *)
(* the host left out: it examines a name, or begins, advances or finishes  *)
(* the creation of one, or ends the pass.                                  *)
Examines(n) ==
  /\ pass.stage = "process" /\ pass'.stage = "process" /\ pass'.cur = pass.cur
  /\ n \in pass.todo /\ pass'.todo = pass.todo \ {n}
  /\ \/ Tracked(n) /\ Touch(n, states[n].status)
     \/ Tracked(n) /\ UNCHANGED <<states, configs>>
     \/ Touch(n, "active")
     \/ ~Tracked(n) /\ Touch(n, "failed")

Begins(n) ==
  /\ pass.stage = "process" /\ pass'.stage = "placeholder" /\ pass'.cur = n
  /\ n \in pass.todo /\ pass'.todo = pass.todo \ {n}
  /\ ~Tracked(n) /\ Touch(n, "creating")

Advances ==
  /\ pass.stage \in {"placeholder", "mount"} /\ pass'.stage \in {"mount", "provision"}
  /\ pass'.cur = pass.cur /\ pass'.todo = pass.todo
  /\ UNCHANGED <<states, configs>>

Finishes(n) ==
  /\ pass.stage \in {"placeholder", "mount", "provision"} /\ pass'.stage = "process"
  /\ pass.cur = n /\ pass'.cur = NoName /\ pass'.todo = pass.todo
  /\ Touch(n, "active") \/ Touch(n, "failed")

(* Every step of a pass but the last is of one of four kinds.              *)
LEMMA ProcessKinds ==
  ASSUME ManagerTypeOK, ProcessConfiguredNamespace
  PROVE  \/ \E n \in Name : Examines(n) \/ Begins(n) \/ Finishes(n)
         \/ Advances
<1> USE DEF Pass, Stages, Kinds
<1>t. pass \in Pass
  BY DEF ManagerTypeOK
<1>p. \A n \in Name : /\ Processed(n) \in Pass /\ Processed(n).todo = pass.todo \ {n}
                     /\ Processed(n).stage = pass.stage /\ Processed(n).cur = pass.cur
  BY <1>t DEF Processed
<1>u. \A q \in Pass : \A S \in SUBSET Name :
         /\ [q EXCEPT !.updated = S].stage = q.stage
         /\ [q EXCEPT !.updated = S].cur = q.cur
         /\ [q EXCEPT !.updated = S].todo = q.todo
  OBVIOUS
<1>1. ASSUME NEW n \in Name, RefreshState(n) PROVE Examines(n)
  BY <1>1, <1>p DEF RefreshState, Processing, Examines
<1>2. ASSUME NEW n \in Name, UpdateExistingNamespace(n) PROVE Examines(n)
  <2>1. PICK S \in SUBSET Name : pass' = [Processed(n) EXCEPT !.updated = S]
    BY <1>2, <1>p, <1>t DEF UpdateExistingNamespace
  <2> QED BY <1>2, <2>1, <1>p, <1>u DEF UpdateExistingNamespace, Processing, Examines
<1>3. ASSUME NEW n \in Name, RecordMissing(n) PROVE Examines(n)
  BY <1>3, <1>p DEF RecordMissing, Processing, Examines
<1>4. ASSUME NEW n \in Name, CreateStateFromActual(n) PROVE Examines(n)
  <2>1. PICK S \in SUBSET Name : pass' = [Processed(n) EXCEPT !.updated = S]
    BY <1>4, <1>p, <1>t DEF CreateStateFromActual
  <2> QED BY <1>4, <2>1, <1>p, <1>u DEF CreateStateFromActual, Processing, Examines
<1>5. ASSUME NEW n \in Name, CreateNewNamespace(n) PROVE Examines(n) \/ Begins(n)
  <2>1. CASE Exists(n)
    BY <1>5, <2>1, <1>p DEF CreateNewNamespace, Processing, Examines
  <2>2. CASE ~Exists(n)
    <3>1. \A q \in Pass : LET r == [q EXCEPT !.stage = "placeholder", !.cur = n]
                        IN  r.todo = q.todo /\ r.stage = "placeholder" /\ r.cur = n
      OBVIOUS
    <3>2. /\ pass' = [Processed(n) EXCEPT !.stage = "placeholder", !.cur = n]
          /\ Processing(n) /\ ~Tracked(n) /\ Touch(n, "creating")
      BY <1>5, <2>2 DEF CreateNewNamespace
    <3> QED BY <3>1, <3>2, <1>p DEF Processing, Begins
  <2> QED BY <2>1, <2>2
<1>6. ASSUME NEW n \in Name, CreatePlaceholderFile(n) PROVE Finishes(n) \/ Advances
  BY <1>6, <1>t DEF CreatePlaceholderFile, CreationFailed, Finishes, Advances
<1>7. ASSUME NEW n \in Name, MountNamespace(n) PROVE Finishes(n) \/ Advances
  BY <1>7, <1>t DEF MountNamespace, CreationFailed, Finishes, Advances
<1>8. ASSUME NEW n \in Name, ProvisionNamespace(n) PROVE Finishes(n)
  BY <1>8, <1>t DEF ProvisionNamespace, Finishes
<1> QED BY <1>1, <1>2, <1>3, <1>4, <1>5, <1>6, <1>7, <1>8 DEF ProcessConfiguredNamespace

(* Every step of a pass is of one of these kinds or ends it.               *)
LEMMA PassStepKinds ==
  ASSUME ManagerTypeOK, PassStep
  PROVE  \/ \E n \in Name : Examines(n) \/ Begins(n) \/ Finishes(n)
         \/ Advances
         \/ EndSynchronizeState
BY ProcessKinds DEF PassStep

(* What touching a state does to every name.                               *)
LEMMA TouchEffect ==
  ASSUME ManagerTypeOK, NEW n \in Name, NEW s, Touch(n, s)
  PROVE  /\ states'[n].status = s /\ states'[n].at = "now"
         /\ \A m \in Name : /\ m # n => states'[m] = states[m]
                           /\ configs'[m].ver = configs[m].ver
<1>1. configs \in [Name -> File] /\ states \in [Name -> State]
  BY DEF ManagerTypeOK
<1>2. \A m \in Name : configs'[m].ver = configs[m].ver
  <2>1. \A f \in File : [f EXCEPT !.newer = FALSE].ver = f.ver
    BY DEF File
  <2>2. configs' = [configs EXCEPT ![n] = [configs[n] EXCEPT !.newer = FALSE]]
    BY DEF Touch
  <2> QED BY <2>1, <2>2, <1>1
<1> QED BY <1>1, <1>2 DEF Touch, Now

(* What forgetting does to every name.                                     *)
LEMMA ForgetEffect ==
  ASSUME NEW D, Forget(D)
  PROVE  \A m \in Name : IF m \in D THEN states'[m].status = "untracked"
                                   ELSE states'[m] = states[m]
BY DEF Forget, Untracked

(* Time and edits leave the pass, what is loaded and every status alone.   *)
LEMMA QuietEffect ==
  ASSUME ManagerTypeOK,
         TimePasses \/ \E n \in Name, v \in Version \cup {NoVersion} : EditFile(n, v)
  PROVE  /\ pass' = pass /\ configs' = configs
         /\ \A m \in Name : states'[m].status = states[m].status
<1>t. states \in [Name -> State]
  BY DEF ManagerTypeOK
<1>1. CASE TimePasses
  <2>1. \A s \in State : \A to : [s EXCEPT !.at = to].status = s.status
    BY DEF State
  <2>2. \A from, to : Older(from, to) => \A m \in Name : states'[m].status = states[m].status
    BY <2>1, <1>t DEF Older
  <2>3. Older({"now"}, "recent") \/ Older({"now", "recent"}, "aged")
    BY <1>1 DEF TimePasses, SecondPasses, IntervalPasses, HourPasses
  <2>4. pass' = pass /\ configs' = configs
    BY <1>1 DEF TimePasses, SecondPasses, IntervalPasses, HourPasses
  <2> QED BY <2>2, <2>3, <2>4
<1>2. CASE \E n \in Name, v \in Version \cup {NoVersion} : EditFile(n, v)
  BY <1>2 DEF EditFile
<1> QED BY <1>1, <1>2

(* A step of a pass leaves every configured name examined, to do or in     *)
(* creation.                                                               *)
LEMMA PassStepCovers ==
  ASSUME ManagerTypeOK, PassCovers, PassStep
  PROVE  PassCovers'
<1> SUFFICES ASSUME ~Idle', NEW m \in Name, Configured(m)', m \notin pass'.todo
             PROVE  Tracked(m)'
  BY DEF PassCovers
<1> USE DEF Tracked
<1>1. ASSUME NEW n \in Name, Examines(n) \/ Begins(n) \/ Finishes(n) PROVE Tracked(m)'
  <2>1. CASE m = n
    BY <1>1, <2>1, TouchEffect DEF Examines, Begins, Finishes
  <2>2. CASE m # n
    <3>1. Configured(m) /\ states'[m] = states[m] /\ m \notin pass.todo /\ ~Idle
      <4>1. CASE UNCHANGED <<states, configs>>
        BY <1>1, <2>2, <4>1 DEF Examines, Begins, Finishes, Idle, Configured
      <4>2. CASE \E s : Touch(n, s)
        <5>1. Configured(m) /\ states'[m] = states[m]
          BY <4>2, <2>2, TouchEffect DEF Configured
        <5> QED BY <1>1, <2>2, <5>1 DEF Examines, Begins, Finishes, Idle
      <4> QED BY <1>1, <4>1, <4>2 DEF Examines, Begins, Finishes
    <3> QED BY <3>1 DEF PassCovers
  <2> QED BY <2>1, <2>2
<1>2. CASE Advances
  BY <1>2 DEF Advances, PassCovers, Idle, Configured
<1>3. CASE EndSynchronizeState
  BY <1>3 DEF EndSynchronizeState, NoPass, Idle
<1> QED BY <1>1, <1>2, <1>3, PassStepKinds
=============================================================================
