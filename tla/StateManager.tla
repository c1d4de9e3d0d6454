---------------------------- MODULE StateManager ----------------------------
(***************************************************************************)
(* NamespaceStateManager (namespace_state.rs): the pass that brings the    *)
(* tracked states, the configuration entries and the namespaces of the host*)
(* together. The modules that extend this one say who runs passes and when.*)
(*                                                                         *)
(* A pass holds the locks of both managers from its listing to its end (the *)
(* modules that extend this one say so in their guards), but the host is   *)
(* nobody's: every system call of a creation is a step.                    *)
(*                                                                         *)
(* Times are compared, never used, so a time is kept as what comparisons   *)
(* tell apart. The last_updated of a state is "now" (in the current        *)
(* second), "recent" or "aged" (over an hour ago), and a file or an entry  *)
(* is "newer" when its modification second is after the last_updated of    *)
(* the state of the same name. A clock read yields a time no earlier than  *)
(* any modification, so a state just touched has nothing newer.            *)
(***************************************************************************)
EXTENDS Netns, FiniteSets

CONSTANTS
  Managed,   \* names that match the prefix of this daemon
  NoName     \* stands for a name when no namespace is being created

ASSUME NameAssumption == Managed \subseteq Name /\ NoName \notin Name

VARIABLES
  disk,          \* per name: the version in its file and whether it is newer
  configs,       \* per name: what ConfigManager loaded last
  states,        \* namespace_states: per name a status and the age of last_updated
  pass,          \* the pass in progress
  due            \* needs_sync(): the last pass ended at least an interval ago

managerVars == <<kernel, configs, disk, states, pass, due>>

Status == {"untracked", "creating", "active", "failed"}
Age == {"none", "now", "recent", "aged"}

File == [ver : Version \cup {NoVersion}, newer : BOOLEAN]
State == [status : Status, at : Age]
Untracked == [status |-> "untracked", at |-> "none"]
Now(status) == [status |-> status, at |-> "now"]

Stages == {"idle", "process", "placeholder", "mount", "provision"}
Kinds == {"forced", "periodic"}

Pass == [stage : Stages, kind : Kinds, todo : SUBSET Name, snap : SUBSET Name,
         cur : Name \cup {NoName}, created : SUBSET Name, updated : SUBSET Name]

NoPass == [stage |-> "idle", kind |-> "forced", todo |-> {}, snap |-> {},
           cur |-> NoName, created |-> {}, updated |-> {}]

ManagerTypeOK ==
  /\ KernelTypeOK
  /\ disk \in [Name -> File]
  /\ configs \in [Name -> File]
  /\ states \in [Name -> State]
  /\ pass \in Pass
  /\ due \in BOOLEAN

Configured(n) == configs[n].ver # NoVersion
Tracked(n) == states[n].status # "untracked"
Idle == pass.stage = "idle"

-----------------------------------------------------------------------------
(* NamespaceState::touch, and every assignment of a status: last_updated   *)
(* becomes the current second, so nothing is newer any more.               *)
Touch(n, status) ==
  /\ states' = [states EXCEPT ![n] = Now(status)]
  /\ configs' = [configs EXCEPT ![n].newer = FALSE]
  /\ disk' = [disk EXCEPT ![n].newer = FALSE]

\* matches_namespace_prefix, applied to what the directory holds.
MatchesNamespacePrefix(n) == n \in Managed

-----------------------------------------------------------------------------
\* Faulty: only what the host lists is processed.
SynchronizeListed(kind) ==
  /\ pass' = [NoPass EXCEPT !.stage = "process", !.kind = kind,
                !.todo = {n \in ListNamespaces : Configured(n)},
                !.snap = {n \in ListNamespaces : MatchesNamespacePrefix(n)}]
  /\ UNCHANGED <<kernel, configs, disk, states, due>>

(* synchronize_state up to the loop: the listing, filtered by prefix.      *)
SynchronizeState(kind) ==
  /\ pass' = [NoPass EXCEPT !.stage = "process", !.kind = kind,
                !.todo = {n \in Name : Configured(n)},
                !.snap = {n \in ListNamespaces : MatchesNamespacePrefix(n)}]
  /\ UNCHANGED <<kernel, configs, disk, states, due>>

\* Faulty: a failure is forgotten only once its configuration is gone.
ExpiredUnwanted(n) ==
  states[n].status = "failed" /\ states[n].at = "aged" /\ ~Configured(n)

\* perform_maintenance forgets what failed more than an hour ago.
Expired(n) == states[n].status = "failed" /\ states[n].at = "aged"

\* Faulty: whatever is not on the host is forgotten.
VanishedFromHost(n) == Tracked(n) /\ n \notin pass.snap

\* What synchronize_state forgets: in neither the configuration nor the listing.
Vanished(n) == Tracked(n) /\ ~Configured(n) /\ n \notin pass.snap

Forget(dropped) ==
  states' = [n \in Name |-> IF n \in dropped THEN Untracked ELSE states[n]]

(* The directory could not be read: nothing else is done, last_sync stays. *)
(* The periodic caller performs its maintenance all the same.              *)
SynchronizeStateFails(kind) ==
  /\ Forget({n \in Name : kind = "periodic" /\ Expired(n)})
  /\ UNCHANGED <<kernel, configs, disk, pass, due>>

(* The end of synchronize_state, and the maintenance of the periodic caller. *)
EndSynchronizeState ==
  /\ pass.stage = "process" /\ pass.todo = {}
  /\ Forget({n \in Name : \/ Vanished(n)
                          \/ pass.kind = "periodic" /\ Expired(n)})
  /\ pass' = NoPass
  /\ due' = FALSE
  /\ UNCHANGED <<kernel, configs, disk>>

-----------------------------------------------------------------------------
(* process_configured_namespace: the four cases of (tracked, listed), for  *)
(* the configured names in the order a HashMap happens to yield.           *)
Processing(n) == pass.stage = "process" /\ n \in pass.todo

Processed(n) == [pass EXCEPT !.todo = @ \ {n}]

\* Faulty: only active namespaces are compared with their file.
DriftOfActive(n) == configs[n].newer /\ states[n].status = "active"

NeedsNamespaceUpdate(n) == configs[n].newer

RefreshState(n) ==
  /\ Processing(n) /\ Tracked(n) /\ n \in pass.snap
  /\ ~NeedsNamespaceUpdate(n)
  /\ Touch(n, states[n].status)
  /\ pass' = Processed(n)
  /\ UNCHANGED <<kernel, due>>

UpdateExistingNamespace(n) ==
  /\ Processing(n) /\ Tracked(n) /\ n \in pass.snap
  /\ NeedsNamespaceUpdate(n)
  /\ ReApply(n, configs[n].ver)
  /\ Touch(n, "active")
  /\ pass' = [Processed(n) EXCEPT !.updated = @ \cup {n}]
  /\ UNCHANGED due

\* Tracked but not listed: a conflict is recorded, and no caller resolves it.
RecordMissing(n) ==
  /\ Processing(n) /\ Tracked(n) /\ n \notin pass.snap
  /\ pass' = Processed(n)
  /\ UNCHANGED <<kernel, configs, disk, states, due>>

CreateStateFromActual(n) ==
  /\ Processing(n) /\ ~Tracked(n) /\ n \in pass.snap
  /\ Touch(n, "active")
  /\ pass' = [Processed(n) EXCEPT !.updated = @ \cup {n}]
  /\ UNCHANGED <<kernel, due>>

(* create_new_namespace enters the state first and asks the host second.   *)
CreateNewNamespace(n) ==
  /\ Processing(n) /\ ~Tracked(n) /\ n \notin pass.snap
  /\ IF Exists(n)
     THEN Touch(n, "failed") /\ pass' = Processed(n)
     ELSE /\ Touch(n, "creating")
          /\ pass' = [Processed(n) EXCEPT !.stage = "placeholder", !.cur = n]
  /\ UNCHANGED <<kernel, due>>

\* Faulty: an error ends the loop over the configured namespaces.
CreationFailedAborts(n) ==
  /\ Touch(n, "failed")
  /\ pass' = [pass EXCEPT !.stage = "process", !.cur = NoName, !.todo = {}]

\* Faulty: the error is returned before the status is set.
CreationFailedQuietly(n) ==
  /\ pass' = [pass EXCEPT !.stage = "process", !.cur = NoName]
  /\ UNCHANGED <<states, configs, disk>>

CreationFailed(n) ==
  /\ Touch(n, "failed")
  /\ pass' = [pass EXCEPT !.stage = "process", !.cur = NoName]

\* NetlinkManager::create_namespace, system call by system call.
CreatePlaceholderFile(n) ==
  /\ pass.stage = "placeholder" /\ pass.cur = n
  /\ \/ /\ CreatePlaceholder(n)
        /\ pass' = [pass EXCEPT !.stage = "mount"]
        /\ UNCHANGED <<states, configs, disk>>
     \/ CreationFailed(n) /\ UNCHANGED kernel
  /\ UNCHANGED due

\* Faulty: a failed mount leaves the placeholder behind.
MountKeepingPlaceholder(n) ==
  /\ pass.stage = "mount" /\ pass.cur = n
  /\ \/ /\ BindMount(n)
        /\ pass' = [pass EXCEPT !.stage = "provision"]
        /\ UNCHANGED <<states, configs, disk>>
     \/ CreationFailed(n) /\ UNCHANGED kernel
  /\ UNCHANGED due

MountNamespace(n) ==
  /\ pass.stage = "mount" /\ pass.cur = n
  /\ \/ /\ BindMount(n)
        /\ pass' = [pass EXCEPT !.stage = "provision"]
        /\ UNCHANGED <<states, configs, disk>>
     \/ CreationFailed(n) /\ RemoveFile(n)
  /\ UNCHANGED due

\* Faulty: waits for a namespace that somebody may have removed.
ProvisionMounted(n) ==
  /\ pass.stage = "provision" /\ pass.cur = n /\ Mounted(n)
  /\ SetUp(n, configs[n].ver)
  /\ Touch(n, "active")
  /\ pass' = [pass EXCEPT !.stage = "process", !.cur = NoName,
                          !.created = @ \cup {n}]
  /\ UNCHANGED due

(* Interfaces, routes and DNS; whatever fails is a warning, and the state  *)
(* becomes Active.                                                         *)
ProvisionNamespace(n) ==
  /\ pass.stage = "provision" /\ pass.cur = n
  /\ SetUp(n, configs[n].ver)
  /\ Touch(n, "active")
  /\ pass' = [pass EXCEPT !.stage = "process", !.cur = NoName,
                          !.created = @ \cup {n}]
  /\ UNCHANGED due

ProcessConfiguredNamespace ==
  \E n \in Name :
    \/ RefreshState(n) \/ UpdateExistingNamespace(n) \/ RecordMissing(n)
    \/ CreateStateFromActual(n) \/ CreateNewNamespace(n)
    \/ CreatePlaceholderFile(n) \/ MountNamespace(n) \/ ProvisionNamespace(n)

PassStep == ProcessConfiguredNamespace \/ EndSynchronizeState

(* A pass examines every configured namespace whatever happened to the     *)
(* others: one that is neither still to do nor in creation is tracked, if  *)
(* only as failed. An error of one namespace does not end the loop         *)
(* (synchronize_state collects it and goes on; requirement 5.5), and       *)
(* nobody else changes what is tracked or loaded meanwhile.                *)
PassCovers ==
  ~Idle => \A n \in Name :
             Configured(n) /\ n \notin pass.todo => Tracked(n)

-----------------------------------------------------------------------------
(* Time. Comparing with last_sync and last_updated is all the code does.   *)
Older(from, to) ==
  states' = [n \in Name |-> IF states[n].at \in from
                            THEN [states[n] EXCEPT !.at = to] ELSE states[n]]

SecondPasses ==
  /\ Older({"now"}, "recent")
  /\ UNCHANGED <<kernel, configs, disk, pass, due>>

IntervalPasses ==
  /\ Older({"now"}, "recent")
  /\ due' = TRUE
  /\ UNCHANGED <<kernel, configs, disk, pass>>

HourPasses ==
  /\ Older({"now", "recent"}, "aged")
  /\ due' = TRUE
  /\ UNCHANGED <<kernel, configs, disk, pass>>

TimePasses == SecondPasses \/ IntervalPasses \/ HourPasses

-----------------------------------------------------------------------------
(* Files. Somebody writes version v into the file of n, or deletes it.     *)
EditFile(n, v) ==
  /\ disk[n].ver # v
  /\ disk' = [disk EXCEPT ![n] =
               [ver |-> v, newer |-> v # NoVersion /\ states[n].at \in {"recent", "aged"}]]
  /\ UNCHANGED <<kernel, configs, states, pass, due>>

\* Faulty: loads whatever name the file holds.
HandleAnyFileEvent(n) ==
  /\ configs' = [configs EXCEPT ![n] = disk[n]]
  /\ UNCHANGED <<kernel, disk, states, pass, due>>

\* handle_file_event for the file of n: it is loaded, or removed when it is gone.
HandleFileEvent(n) ==
  /\ MatchesNamespacePrefix(n)
  /\ configs' = [configs EXCEPT ![n] = disk[n]]
  /\ UNCHANGED <<kernel, disk, states, pass, due>>

\* scan_namespace_configs: what a start of the daemon loads.
Scan(files) ==
  [n \in Name |-> IF MatchesNamespacePrefix(n) THEN files[n]
                  ELSE [ver |-> NoVersion, newer |-> FALSE]]

(* A start of the daemon: nothing is tracked, so no file is newer.         *)
StartWith(files) ==
  /\ disk' = [n \in Name |-> [files[n] EXCEPT !.newer = FALSE]]
  /\ configs' = Scan(disk')
  /\ states' = [n \in Name |-> Untracked]
  /\ pass' = NoPass
  /\ due' = TRUE
=============================================================================
