--------------------------- MODULE ConfigWatcher ---------------------------
(***************************************************************************)
(* ConfigManager and ConfigFileWatcher (config.rs): the scan at the start, *)
(* the config-watcher thread that reads inotify events and debounces them   *)
(* per file, the channel, and the config-monitor thread (event_loop.rs)    *)
(* that loads a file again or forgets it.                                  *)
(*                                                                         *)
(* A namespace name is a pair: the prefix it is written with, or NoPrefix  *)
(* when it holds no separator, and the rest. A content is tagged by its    *)
(* kind; "ver" tells the contents of one name apart. The contents a file   *)
(* has while it is written in place are "broken", as an empty file is.     *)
(***************************************************************************)
EXTENDS Naturals, Sequences

CONSTANTS
  Path,          \* files of the watched directory
  Master,        \* the path of the master configuration, in Path or not
  Prefix,        \* prefixes of daemons
  NoPrefix,      \* stands for the prefix of a name without separator
  Base,          \* the rest of a name
  NameOf,        \* the name each file has in its usual contents
  Disturbances,  \* kinds of edits: "replace", "hasty", "delete", "move",
                 \* "rewrite", "names", "gap", "master", "failure"
  MaxEdits       \* bound on the number of edits

ConfigName == (Prefix \cup {NoPrefix}) \X Base

ASSUME WatcherAssumption ==
  /\ NoPrefix \notin Prefix /\ "none" \notin Path
  /\ NameOf \in [Path -> ConfigName]
  /\ MaxEdits \in Nat

VARIABLES
  files,      \* what every path holds
  writing,    \* paths that somebody is writing in place
  phase,      \* of the daemon's start, up to "watching" or "failed"
  prefix,     \* namespace_prefix of the loaded master configuration
  configs,    \* namespace_configs: per full name the file and the version
  inotify,    \* events the kernel queued, not read yet
  recent,     \* last_events: paths with an event sent within the debounce window
  channel,    \* events sent to the config-monitor thread
  monitor,    \* where that thread is
  edits       \* edits so far

vars == <<files, writing, phase, prefix, configs, inotify, recent, channel, monitor, edits>>
daemonVars == <<phase, prefix, configs, recent, channel, monitor>>

Version == 1 .. MaxEdits + 2
FullName == Prefix \X Base

Config(n, v) == [kind |-> "config", name |-> n, ver |-> v]
Plain(kind) == [kind |-> kind, name |-> CHOOSE n \in ConfigName : TRUE, ver |-> 0]
Absent == Plain("absent")
Broken == Plain("broken")
MasterOf(pre) == [Plain("master") EXCEPT !.name = <<pre, @[2]>>]

Content == {Absent, Broken} \cup {Config(n, v) : n \in ConfigName, v \in Version}
                            \cup {MasterOf(pre) : pre \in Prefix}

NoEntry == [path |-> "none", ver |-> 0]
Entry == [path : Path, ver : Version]

Mask == {"create", "modify", "close_write", "delete", "moved_from", "moved_to"}
RawEvent == [path : Path, mask : Mask]
FileEvent == [path : Path, change : {"created", "modified", "deleted"}]

TypeOK ==
  /\ files \in [Path -> Content]
  /\ writing \subseteq Path
  /\ phase \in {"scan", "spawn", "watching", "failed"}
  /\ prefix \in Prefix
  /\ configs \in [FullName -> Entry \cup {NoEntry}]
  /\ inotify \in Seq(RawEvent)
  /\ recent \subseteq Path
  /\ channel \in Seq(FileEvent)
  /\ monitor \in {"receive", "pass", "done"}
  /\ edits \in 0 .. MaxEdits

-----------------------------------------------------------------------------
(* Names: the prefix is added unless it is there, and a name with another  *)
(* prefix is not ours.                                                     *)
MatchesPrefix(n, pre) == n[1] = pre

ShouldManage(n, pre) == n[1] = NoPrefix \/ MatchesPrefix(n, pre)

FullNameOf(n, pre) == IF MatchesPrefix(n, pre) THEN n ELSE <<pre, n[2]>>

\* load_namespace_config: an error, "not ours", or an entry.
Unreadable(p) == files[p].kind # "config"
Ours(p, pre) == ~Unreadable(p) /\ ShouldManage(files[p].name, pre)
Loads(p, n, pre) == Ours(p, pre) /\ FullNameOf(files[p].name, pre) = n
EntryOf(p) == [path |-> p, ver |-> files[p].ver]

\* scan_namespace_configs: of two files with one name, the one read last.
ScanNamespaceConfigs(pre) ==
  \E last \in [FullName -> Path] :
    /\ \A n \in FullName : (\E p \in Path : Loads(p, n, pre)) => Loads(last[n], n, pre)
    /\ configs' = [n \in FullName |-> IF Loads(last[n], n, pre) THEN EntryOf(last[n]) ELSE NoEntry]

Init ==
  /\ prefix \in Prefix
  /\ files \in [Path -> Content]
  /\ \A p \in Path : \/ p # Master /\ files[p] \in {Absent, Broken, Config(NameOf[p], 1)}
                     \/ p = Master /\ files[p] = MasterOf(prefix)
  /\ writing = {}
  /\ phase = "scan"
  /\ configs = [n \in FullName |-> NoEntry]
  /\ inotify = <<>> /\ channel = <<>>
  /\ recent = {}
  /\ monitor = "receive"
  /\ edits = 0

-----------------------------------------------------------------------------
(* The start: the scan, then a thread that sets up the watch at its leisure. *)
Scan ==
  /\ phase = "scan"
  /\ ScanNamespaceConfigs(prefix)
  /\ phase' = "spawn"
  /\ UNCHANGED <<files, writing, prefix, inotify, recent, channel, monitor, edits>>

Watch ==
  /\ phase = "spawn"
  /\ phase' = "watching"
  /\ UNCHANGED <<files, writing, prefix, configs, inotify, recent, channel, monitor, edits>>

\* Without a watch the sender is dropped, and the config-monitor thread ends.
WatchFails ==
  /\ phase = "spawn" /\ "failure" \in Disturbances
  /\ phase' = "failed" /\ monitor' = "done"
  /\ UNCHANGED <<files, writing, prefix, configs, inotify, recent, channel, edits>>

-----------------------------------------------------------------------------
(* The config-watcher thread. The time of an event is when it is read.     *)
\* Faulty: a file renamed into the directory passes for one that left it.
MovedIsDeleted(raw) ==
  [path |-> raw.path,
   change |-> CASE raw.mask = "create" -> "created"
                [] raw.mask \in {"modify", "close_write"} -> "modified"
                [] raw.mask \in {"delete", "moved_from", "moved_to"} -> "deleted"]

FileEventOf(raw) ==
  [path |-> raw.path,
   change |-> CASE raw.mask \in {"create", "moved_to"} -> "created"
                [] raw.mask \in {"modify", "close_write"} -> "modified"
                [] raw.mask \in {"delete", "moved_from"} -> "deleted"]

\* Faulty: one debounce window for all files.
ReadEventGlobally ==
  /\ inotify # <<>>
  /\ inotify' = Tail(inotify)
  /\ LET raw == Head(inotify) IN
       IF recent # {}
       THEN UNCHANGED <<recent, channel>>
       ELSE /\ recent' = recent \cup {raw.path}
            /\ channel' = Append(channel, FileEventOf(raw))
  /\ UNCHANGED <<files, writing, phase, prefix, configs, monitor, edits>>

ReadEvent ==
  /\ inotify # <<>>
  /\ inotify' = Tail(inotify)
  /\ LET raw == Head(inotify) IN
       IF raw.path \in recent
       THEN UNCHANGED <<recent, channel>>
       ELSE /\ recent' = recent \cup {raw.path}
            /\ channel' = Append(channel, FileEventOf(raw))
  /\ UNCHANGED <<files, writing, phase, prefix, configs, monitor, edits>>

WindowPasses(p) ==
  /\ p \in recent
  /\ recent' = recent \ {p}
  /\ UNCHANGED <<files, writing, phase, prefix, configs, inotify, channel, monitor, edits>>

-----------------------------------------------------------------------------
(* The config-monitor thread: handle_file_event, then a pass if any        *)
(* namespace is affected.                                                  *)
Affected(changed) == monitor' = IF changed THEN "pass" ELSE "receive"

\* Faulty: the entry is replaced by nothing when the file cannot be loaded.
ReloadOrDrop(p) ==
  \/ /\ Ours(p, prefix)
     /\ configs' = [configs EXCEPT ![FullNameOf(files[p].name, prefix)] = EntryOf(p)]
     /\ Affected(TRUE)
  \/ /\ ~Ours(p, prefix)
     /\ configs' = [n \in FullName |-> IF configs[n].path = p THEN NoEntry ELSE configs[n]]
     /\ Affected(TRUE)

\* Faulty: what the file holds is taken without a look at it.
LoadUnchecked(p) ==
  /\ configs' = [configs EXCEPT ![FullNameOf(files[p].name, prefix)] = EntryOf(p)]
  /\ Affected(TRUE)

\* A file that cannot be loaded, or is not ours, leaves the entries as they are.
ReloadNamespaceConfig(p) ==
  \/ /\ Ours(p, prefix)
     /\ configs' = [configs EXCEPT ![FullNameOf(files[p].name, prefix)] = EntryOf(p)]
     /\ Affected(TRUE)
  \/ /\ ~Ours(p, prefix)
     /\ UNCHANGED configs
     /\ Affected(FALSE)

RemoveNamespaceConfig(p) ==
  /\ configs' = [n \in FullName |-> IF configs[n].path = p THEN NoEntry ELSE configs[n]]
  /\ Affected(\E n \in FullName : configs[n].path = p)

\* Faulty: the directory is not read again under the new prefix.
ReloadMasterOnly ==
  \/ /\ files[Master].kind = "master"
     /\ prefix' = files[Master].name[1]
     /\ UNCHANGED configs
     /\ Affected(TRUE)
  \/ /\ files[Master].kind # "master"
     /\ UNCHANGED <<prefix, configs>>
     /\ Affected(FALSE)

\* A new prefix, and everything is scanned under it.
ReloadMasterConfig ==
  \/ /\ files[Master].kind = "master"
     /\ prefix' = files[Master].name[1]
     /\ ScanNamespaceConfigs(prefix')
     /\ Affected(\E n \in FullName : configs'[n] # NoEntry)
  \/ /\ files[Master].kind # "master"
     /\ UNCHANGED <<prefix, configs>>
     /\ Affected(FALSE)

HandleFileEvent ==
  /\ monitor = "receive" /\ channel # <<>>
  /\ channel' = Tail(channel)
  /\ LET event == Head(channel) IN
       \/ /\ event.change = "deleted"
          /\ RemoveNamespaceConfig(event.path) /\ UNCHANGED prefix
       \/ /\ event.change = "modified" /\ event.path = Master
          /\ ReloadMasterConfig
       \/ /\ event.change # "deleted"
          /\ event.change = "modified" => event.path # Master
          /\ ReloadNamespaceConfig(event.path) /\ UNCHANGED prefix
  /\ UNCHANGED <<files, writing, phase, inotify, recent, edits>>

Pass ==
  /\ monitor = "pass"
  /\ monitor' = "receive"
  /\ UNCHANGED <<files, writing, phase, prefix, configs, inotify, recent, channel, edits>>

-----------------------------------------------------------------------------
(* People and programs that edit the directory. The kernel queues events   *)
(* once the watch is there and drops one that equals its predecessor.      *)
Queue(events) ==
  inotify' = IF phase # "watching" THEN inotify
             ELSE IF inotify # <<>> /\ inotify[Len(inotify)] = Head(events)
                  THEN inotify \o Tail(events) ELSE inotify \o events

Raw(p, mask) == [path |-> p, mask |-> mask]
NextVersion == edits + 2

\* At a distance in time from the last edit of the file.
Spaced(p) ==
  /\ p \notin recent
  /\ \A i \in 1 .. Len(inotify) : inotify[i].path # p

\* An edit of these files, before the watch, in haste, or neither.
MayEdit(touched) ==
  /\ edits < MaxEdits /\ edits' = edits + 1
  /\ phase = "watching" \/ "gap" \in Disturbances
  /\ (\A p \in touched : Spaced(p)) \/ "hasty" \in Disturbances
  /\ touched \cap writing = {}
  /\ UNCHANGED daemonVars

NewContent(p) ==
  IF p = Master THEN {Broken} \cup {MasterOf(pre) : pre \in Prefix}
  ELSE {Broken} \cup {Config(n, NextVersion) :
                        n \in IF "names" \in Disturbances THEN ConfigName ELSE {NameOf[p]}}

\* A finished file is renamed into place.
Replace(p) ==
  /\ "replace" \in Disturbances /\ MayEdit({p})
  /\ \E c \in NewContent(p) : files' = [files EXCEPT ![p] = c]
  /\ Queue(<<Raw(p, "moved_to")>>)
  /\ UNCHANGED writing

Delete(p) ==
  /\ "delete" \in Disturbances /\ MayEdit({p})
  /\ files[p] # Absent
  /\ files' = [files EXCEPT ![p] = Absent]
  /\ Queue(<<Raw(p, "delete")>>)
  /\ UNCHANGED writing

Move(p, q) ==
  /\ "move" \in Disturbances /\ MayEdit({p, q})
  /\ p # q /\ Master \notin {p, q} /\ files[p] # Absent
  /\ files[q] = Absent \/ "names" \in Disturbances
  /\ files' = [files EXCEPT ![p] = Absent, ![q] = files[p]]
  /\ Queue(<<Raw(p, "moved_from"), Raw(q, "moved_to")>>)
  /\ UNCHANGED writing

\* Writing in place: opened and emptied, filled, closed.
BeginWrite(p) ==
  /\ "rewrite" \in Disturbances \/ (p = Master /\ "master" \in Disturbances)
  /\ MayEdit({p})
  /\ files' = [files EXCEPT ![p] = Broken]
  /\ Queue(<<Raw(p, IF files[p] = Absent THEN "create" ELSE "modify")>>)
  /\ writing' = writing \cup {p}

EndWrite(p) ==
  /\ p \in writing
  /\ \E c \in NewContent(p) : files' = [files EXCEPT ![p] = c]
  /\ Queue(<<Raw(p, "modify"), Raw(p, "close_write")>>)
  /\ writing' = writing \ {p}
  /\ UNCHANGED <<daemonVars, edits>>

Edit == \E p, q \in Path : Replace(p) \/ Delete(p) \/ Move(p, q) \/ BeginWrite(p) \/ EndWrite(p)

Next ==
  \/ Scan \/ Watch \/ WatchFails
  \/ ReadEvent \/ (\E p \in Path : WindowPasses(p))
  \/ HandleFileEvent \/ Pass \/ Edit

Spec == Init /\ [][Next]_vars

(* The threads run: a read, a received event and a pass do not wait for    *)
(* anything that does not come. Nobody has to edit.                        *)
FairSpec ==
  Spec /\ WF_vars(Scan) /\ WF_vars(Watch \/ WatchFails) /\ WF_vars(ReadEvent)
       /\ WF_vars(HandleFileEvent) /\ WF_vars(Pass)

-----------------------------------------------------------------------------
Quiet ==
  /\ phase = "watching" /\ writing = {}
  /\ inotify = <<>> /\ channel = <<>> /\ monitor = "receive"

(* When nothing is under way, every file that can be loaded is loaded, and *)
(* nothing is left of a file that is gone (ReadEvent, HandleFileEvent).     *)
QuietAgrees ==
  Quiet => \A p \in Path \ {Master} :
             /\ Ours(p, prefix) => configs[FullNameOf(files[p].name, prefix)] = EntryOf(p)
             /\ files[p] = Absent => \A n \in FullName : configs[n].path # p

(* No entry outlives the prefix it was loaded under, whatever the          *)
(* directory and the master configuration go through (reload_master_config, *)
(* load_namespace_config; requirement 2.3).                                *)
OnlyOwnPrefix ==
  \A n \in FullName : configs[n] # NoEntry => n[1] = prefix

(* What was loaded stays loaded until a file of that name is loaded, its   *)
(* own file was deleted or the prefix changed: a file that breaks, or is    *)
(* renamed away from the prefix, takes nothing down (requirement 2.7).     *)
BrokenKeepsLoaded ==
  [][\A n \in FullName :
       configs[n] # NoEntry /\ configs'[n] = NoEntry
         => prefix' # prefix \/ Head(channel) \in
              {[path |-> configs[n].path, change |-> "deleted"],
               [path |-> Master, change |-> "modified"]}]_vars

(* Scan and watcher together show what Mirror promises. Until the scan is  *)
(* done, what it will load stands for what is loaded.                      *)
Loadable == {Absent} \cup {Config(NameOf[p], v) : p \in Path, v \in Version}

View == [p \in Path |->
          LET from == {n \in FullName : configs[n].path = p}
          IN IF phase = "scan"
             THEN IF Ours(p, prefix) THEN files[p] ELSE Absent
             ELSE IF from = {} THEN Absent
             ELSE Config(NameOf[p], configs[CHOOSE n \in from : TRUE].ver)]

M == INSTANCE Mirror WITH dir <- files, view <- View

(* Files that are replaced or deleted with a second in between, each with a *)
(* name of its own, are mirrored: what is loaded is what the file holds    *)
(* when it is read, and every content is loaded in the end.                *)
Mirrors == M!FairSpec

(* docs/configuration.md: adding, modifying or removing a .toml file        *)
(* triggers reconciliation. Said of the moments when nothing is under way. *)
EditIsLoaded ==
  Quiet => \A p \in Path :
             Ours(p, prefix) => \E n \in FullName : configs[n] = EntryOf(p)
=============================================================================
