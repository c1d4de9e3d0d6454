----------------------------- MODULE Reconciler -----------------------------
(***************************************************************************)
(* The state manager in an environment that edits configuration files, runs *)
(* `ip netns`, lets time pass and kills the daemon. A loaded change owes a *)
(* forced pass; an elapsed interval is due a periodic one; the start of the *)
(* daemon owes the initial pass.                                           *)
(***************************************************************************)
EXTENDS StateManager

CONSTANTS
  Present,          \* names that may exist on the host when the daemon starts
  Disturbances,     \* kinds of environment steps: "edit", "external", "crash"
  MaxDisturbances   \* bound on the number of environment steps

ASSUME DisturbancesAssumption == Present \subseteq Name /\ MaxDisturbances \in Nat

VARIABLES
  pending,       \* a change was loaded and its forced pass is owed
  disturbances   \* environment steps taken

vars == <<kernel, configs, disk, states, pass, due, pending, disturbances>>

TypeOK ==
  /\ ManagerTypeOK
  /\ pending \in BOOLEAN
  /\ disturbances \in 0 .. MaxDisturbances

(* What the host holds at the start was made by somebody else.             *)
Init ==
  /\ \E present \in SUBSET Present :
       kernel = [n \in Name |-> [file |-> n \in present,
                                stack |-> IF n \in present THEN <<Bare>> ELSE <<>>,
                                dns |-> NoVersion]]
  /\ disk \in [Name -> [ver : Version \cup {NoVersion}, newer : {FALSE}]]
  /\ configs = Scan(disk)
  /\ states = [n \in Name |-> Untracked]
  /\ pass = NoPass
  /\ due = TRUE
  /\ pending = TRUE
  /\ disturbances = 0

-----------------------------------------------------------------------------
RunPass == PassStep /\ UNCHANGED <<pending, disturbances>>

ForcedPass ==
  /\ Idle /\ pending
  /\ SynchronizeState("forced")
  /\ pending' = FALSE
  /\ UNCHANGED disturbances

PeriodicPass ==
  /\ Idle /\ due
  /\ SynchronizeState("periodic")
  /\ UNCHANGED <<pending, disturbances>>

ListingFails ==
  /\ Idle
  /\ \/ pending /\ SynchronizeStateFails("forced") /\ pending' = FALSE
     \/ due /\ SynchronizeStateFails("periodic") /\ UNCHANGED pending
  /\ UNCHANGED disturbances

\* Faulty: does not wait for the pass that holds the locks.
LoadChangeUnlocked ==
  /\ ~pending
  /\ \E n \in Name : configs[n] # disk[n] /\ HandleFileEvent(n)
  /\ pending' = TRUE
  /\ UNCHANGED disturbances

LoadChange ==
  /\ Idle /\ ~pending
  /\ \E n \in Name : configs[n] # disk[n] /\ HandleFileEvent(n)
  /\ pending' = TRUE
  /\ UNCHANGED disturbances

Time == TimePasses /\ UNCHANGED <<pending, disturbances>>

Disturb(kind) ==
  /\ kind \in Disturbances
  /\ disturbances < MaxDisturbances
  /\ disturbances' = disturbances + 1

Edit ==
  /\ Disturb("edit")
  /\ \E n \in Name, v \in Version \cup {NoVersion} : EditFile(n, v)
  /\ UNCHANGED pending

External ==
  /\ Disturb("external")
  /\ \E n \in Name : IpNetnsAdd(n) \/ IpNetnsDelete(n)
  /\ UNCHANGED <<configs, disk, states, pass, due, pending>>

CrashAndRestart ==
  /\ Disturb("crash")
  /\ StartWith(disk)
  /\ pending' = TRUE
  /\ UNCHANGED kernel

Next ==
  \/ RunPass \/ ForcedPass \/ PeriodicPass \/ ListingFails \/ LoadChange
  \/ Time \/ Edit \/ External \/ CrashAndRestart

Spec == Init /\ [][Next]_vars

(* A thread that holds the locks runs; a pass that is owed or due starts   *)
(* once the locks are free; time passes. The state-sync thread sleeps 30   *)
(* seconds between its passes and holds no lock meanwhile, so the          *)
(* config-monitor thread gets its lock again and again (strong fairness).  *)
Fairness ==
  /\ WF_vars(RunPass) /\ WF_vars(PeriodicPass)
  /\ SF_vars(ForcedPass) /\ SF_vars(LoadChange)
  /\ WF_vars(IntervalPasses /\ UNCHANGED <<pending, disturbances>>)
  /\ WF_vars(HourPasses /\ UNCHANGED <<pending, disturbances>>)

FairSpec == Spec /\ Fairness

-----------------------------------------------------------------------------
(* The status the manager reports follows the life cycle it promises.      *)
L == INSTANCE Lifecycle WITH
       status <- [n \in Name |-> states[n].status],
       wanted <- {n \in Name : Configured(n)}

(* Every step of the daemon, of its environment and of its restarts is a   *)
(* step of Lifecycle or changes nothing it shows (synchronize_state,       *)
(* create_new_namespace and perform_maintenance).                          *)
FollowsLifecycle == L!Spec

(* Under FairSpec, a creation that began also ends, as active or failed.   *)
ImplementsLifecycle == L!FairSpec

-----------------------------------------------------------------------------
(* Safety.                                                                 *)

(* "creating" is the status of the namespace whose creation is under way   *)
(* and of no other: every way out of create_new_namespace sets another one. *)
CreatingIsUnderWay ==
  \A n \in Name : states[n].status = "creating" <=>
                    pass.cur = n /\ pass.stage \in {"placeholder", "mount", "provision"}

(* Names of another prefix are never tracked, configured or given to a     *)
(* creation, whatever the directory and the host hold (requirement 2.3).   *)
ForeignIgnored ==
  \A n \in Name \ Managed :
    ~Tracked(n) /\ ~Configured(n) /\ n \notin pass.todo /\ pass.cur # n

Stray(n) == Exists(n) /\ ~Mounted(n) /\ ~(pass.cur = n /\ pass.stage = "mount")

(* No step of the daemon adds a file without a namespace mounted on it to  *)
(* those a crash or somebody else left, however a mount ends               *)
(* (create_namespace removes its placeholder when the mount fails).        *)
NoPlaceholderLeft ==
  [][disturbances' = disturbances => \A n \in Name : Stray(n)' => Stray(n)]_vars

(* What is applied to n is version v, as far as the host lets it.          *)
Applied(n, v) ==
  /\ Exists(n) => kernel[n].dns = v
  /\ Mounted(n) => v \in Top(n).routes

(* A pending modification of a tracked namespace stops being pending only  *)
(* by being applied: no refresh of the timestamp, no other case of         *)
(* process_configured_namespace and no maintenance swallows it.            *)
PendingUpdateApplied ==
  [][\A n \in Name :
       /\ Tracked(n) /\ configs[n].newer
       /\ Tracked(n)' /\ configs'[n] = [configs[n] EXCEPT !.newer = FALSE]
       => Applied(n, configs[n].ver)']_vars

-----------------------------------------------------------------------------
(* Liveness, under FairSpec.                                               *)

(* A configuration file of this daemon's prefix leads to a tracked          *)
(* namespace, active or failed, or goes away again.                        *)
ConfigurationSettles ==
  \A n \in Managed :
    disk[n].ver # NoVersion ~> \/ states[n].status \in {"active", "failed"}
                               \/ disk[n].ver = NoVersion

(* A failed creation is tried again: the state of a namespace that is not   *)
(* on the host is not touched, so it ages, perform_maintenance forgets it   *)
(* and the next pass creates it, unless the configuration goes away, the   *)
(* namespace appears by other means, or an update that still relied on an  *)
(* old listing has declared it active.                                     *)
FailedIsRetried ==
  \A n \in Managed :
    states[n].status = "failed" /\ ~Exists(n)
      ~> states[n].status \in {"creating", "active"} \/ Exists(n) \/ ~Configured(n)
=============================================================================
