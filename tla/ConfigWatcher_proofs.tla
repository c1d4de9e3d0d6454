----------------------- MODULE ConfigWatcher_proofs -----------------------
(***************************************************************************)
(* Proofs about ConfigWatcher, for every directory, every set of prefixes, *)
(* every kind of edit and every bound on their number.                     *)
(***************************************************************************)
EXTENDS ConfigWatcher, TLAPS

USE WatcherAssumption

-----------------------------------------------------------------------------
(* What can be loaded.                                                     *)

(* The contents of a file, by kind: a configuration has a version, a master *)
(* configuration a prefix.                                                 *)
LEMMA Contents ==
  ASSUME NEW c \in Content
  PROVE  /\ c.kind = "config" => c.ver \in Version
         /\ c.kind = "master" => c.name[1] \in Prefix
<1>1. CASE c \in {Absent, Broken}
  BY <1>1 DEF Absent, Broken, Plain
<1>2. CASE \E n \in ConfigName, v \in Version : c = Config(n, v)
  BY <1>2 DEF Config
<1>3. CASE \E pre \in Prefix : c = MasterOf(pre)
  <2>1. PICK pre \in Prefix : c = MasterOf(pre)
    BY <1>3
  <2> DEFINE any == CHOOSE n \in ConfigName : TRUE
  <2>2. c = [kind |-> "master", name |-> <<pre, any[2]>>, ver |-> 0]
    BY <2>1 DEF MasterOf, Plain
  <2> HIDE DEF any
  <2> QED BY <2>2
<1> QED BY <1>1, <1>2, <1>3 DEF Content

(* What load_namespace_config yields for a file of ours is an entry, never *)
(* the absence of one.                                                     *)
LEMMA LoadedIsEntry ==
  ASSUME TypeOK, NEW p \in Path, ~Unreadable(p)
  PROVE  EntryOf(p) \in Entry /\ EntryOf(p) # NoEntry
<1>1. files[p].ver \in Version
  BY Contents DEF TypeOK, Unreadable
<1> QED BY <1>1 DEF EntryOf, Entry, NoEntry, Version

(* An entry is loaded under a name with the prefix it is loaded for.       *)
LEMMA NamesArePrefixed ==
  ASSUME NEW n, NEW pre
  PROVE  FullNameOf(n, pre)[1] = pre
BY DEF FullNameOf, MatchesPrefix

(* A scan yields entries, all with the prefix it looks for.                *)
LEMMA ScanYields ==
  ASSUME TypeOK, NEW pre, ScanNamespaceConfigs(pre)
  PROVE  /\ configs' \in [FullName -> Entry \cup {NoEntry}]
         /\ \A n \in FullName : configs'[n] # NoEntry => n[1] = pre
<1>1. PICK last \in [FullName -> Path] :
        configs' = [n \in FullName |-> IF Loads(last[n], n, pre) THEN EntryOf(last[n]) ELSE NoEntry]
  BY DEF ScanNamespaceConfigs
<1>2. ASSUME NEW n \in FullName
      PROVE  /\ configs'[n] \in Entry \cup {NoEntry}
             /\ configs'[n] # NoEntry => n[1] = pre
  <2>1. CASE Loads(last[n], n, pre)
    <3>1. EntryOf(last[n]) \in Entry
      BY <2>1, LoadedIsEntry DEF Loads, Ours
    <3>2. n[1] = pre
      BY <2>1, NamesArePrefixed DEF Loads
    <3> QED BY <1>1, <2>1, <3>1, <3>2
  <2>2. CASE ~Loads(last[n], n, pre)
    BY <1>1, <2>2
  <2> QED BY <2>1, <2>2
<1> QED BY <1>1, <1>2

(* What a writer or a copier puts into a file is a content.                *)
LEMMA NewContentType ==
  ASSUME TypeOK, NEW p \in Path, NEW c \in NewContent(p)
  PROVE  c \in Content
<1>1. NextVersion \in Version
  BY DEF TypeOK, NextVersion, Version
<1> QED BY <1>1 DEF NewContent, Content

(* Events the kernel queues leave a queue of events.                       *)
LEMMA QueueType ==
  ASSUME TypeOK, NEW events \in Seq(RawEvent), events # <<>>, Queue(events)
  PROVE  inotify' \in Seq(RawEvent)
<1>1. inotify \in Seq(RawEvent) /\ Tail(events) \in Seq(RawEvent)
  BY DEF TypeOK
<1>2. inotify \o events \in Seq(RawEvent) /\ inotify \o Tail(events) \in Seq(RawEvent)
  BY <1>1
<1> QED BY <1>1, <1>2 DEF Queue

(* One event, and what it is made into.                                    *)
LEMMA RawType ==
  ASSUME NEW p \in Path, NEW mask \in Mask
  PROVE  Raw(p, mask) \in RawEvent /\ <<Raw(p, mask)>> \in Seq(RawEvent)
BY DEF Raw, RawEvent

(* What the watcher makes of an inotify event is an event of a file.       *)
LEMMA EventType ==
  ASSUME NEW raw \in RawEvent
  PROVE  FileEventOf(raw) \in FileEvent
BY DEF FileEventOf, FileEvent, RawEvent, Mask

-----------------------------------------------------------------------------
(* The type invariant is kept by every step.                               *)

(* Every edit is one of these, and all of them leave the daemon alone.     *)
LEMMA EditType ==
  ASSUME TypeOK, Edit
  PROVE  TypeOK' /\ UNCHANGED daemonVars
<1> USE DEF TypeOK, MayEdit, daemonVars
<1>1. PICK p \in Path, q \in Path :
        Replace(p) \/ Delete(p) \/ Move(p, q) \/ BeginWrite(p) \/ EndWrite(p)
  BY DEF Edit
<1>2. CASE Replace(p)
  <2>1. files' \in [Path -> Content]
    BY <1>2, NewContentType DEF Replace
  <2>2. inotify' \in Seq(RawEvent)
    BY <1>2, QueueType, RawType DEF Replace, Mask
  <2> QED BY <1>2, <2>1, <2>2 DEF Replace
<1>3. CASE Delete(p)
  <2>1. files' \in [Path -> Content]
    BY <1>3 DEF Delete, Content
  <2>2. inotify' \in Seq(RawEvent)
    BY <1>3, QueueType, RawType DEF Delete, Mask
  <2> QED BY <1>3, <2>1, <2>2 DEF Delete
<1>4. CASE Move(p, q)
  <2>1. files' \in [Path -> Content]
    BY <1>4 DEF Move, Content
  <2>2. inotify' \in Seq(RawEvent)
    <3>1. <<Raw(p, "moved_from"), Raw(q, "moved_to")>> \in Seq(RawEvent)
      BY RawType DEF Mask
    <3> QED BY <1>4, <3>1, QueueType DEF Move
  <2> QED BY <1>4, <2>1, <2>2 DEF Move
<1>5. CASE BeginWrite(p)
  <2>1. files' \in [Path -> Content]
    BY <1>5 DEF BeginWrite, Content
  <2>2. inotify' \in Seq(RawEvent)
    <3>1. <<Raw(p, IF files[p] = Absent THEN "create" ELSE "modify")>> \in Seq(RawEvent)
      BY RawType DEF Mask
    <3> QED BY <1>5, <3>1, QueueType DEF BeginWrite
  <2> QED BY <1>5, <2>1, <2>2 DEF BeginWrite
<1>6. CASE EndWrite(p)
  <2>1. files' \in [Path -> Content]
    BY <1>6, NewContentType DEF EndWrite
  <2>2. inotify' \in Seq(RawEvent)
    <3>1. <<Raw(p, "modify"), Raw(p, "close_write")>> \in Seq(RawEvent)
      BY RawType DEF Mask
    <3> QED BY <1>6, <3>1, QueueType DEF EndWrite
  <2> QED BY <1>6, <2>1, <2>2 DEF EndWrite
<1> QED BY <1>1, <1>2, <1>3, <1>4, <1>5, <1>6

(* What the config-monitor thread does with an event.                      *)
LEMMA HandleType ==
  ASSUME TypeOK, HandleFileEvent
  PROVE  /\ prefix' \in Prefix
         /\ configs' \in [FullName -> Entry \cup {NoEntry}]
         /\ monitor' \in {"receive", "pass"}
<1> DEFINE event == Head(channel)
<1>1. event \in FileEvent
  BY DEF TypeOK, HandleFileEvent
<1>2. event.path \in Path
  BY <1>1 DEF FileEvent
<1> HIDE DEF event
<1>3. CASE RemoveNamespaceConfig(event.path) /\ UNCHANGED prefix
  BY <1>3 DEF RemoveNamespaceConfig, Affected, TypeOK
<1>4. CASE event.path = Master /\ ReloadMasterConfig
  <2>1. CASE files[Master].kind = "master"
    <3>1. prefix' \in Prefix
      BY <1>2, <1>4, <2>1, Contents DEF ReloadMasterConfig, TypeOK
    <3>2. ScanNamespaceConfigs(prefix')
      BY <1>4, <2>1 DEF ReloadMasterConfig
    <3> QED BY <1>4, <3>1, <3>2, ScanYields DEF ReloadMasterConfig, Affected
  <2>2. CASE files[Master].kind # "master"
    BY <1>4, <2>2 DEF ReloadMasterConfig, Affected, TypeOK
  <2> QED BY <2>1, <2>2
<1>5. CASE ReloadNamespaceConfig(event.path) /\ UNCHANGED prefix
  <2>1. CASE Ours(event.path, prefix)
    <3>1. EntryOf(event.path) \in Entry
      BY <1>2, <2>1, LoadedIsEntry DEF Ours
    <3> QED BY <1>5, <2>1, <3>1 DEF ReloadNamespaceConfig, Affected, TypeOK
  <2>2. CASE ~Ours(event.path, prefix)
    BY <1>5, <2>2 DEF ReloadNamespaceConfig, Affected, TypeOK
  <2> QED BY <2>1, <2>2
<1> QED BY <1>3, <1>4, <1>5 DEF HandleFileEvent, event

(* Types at the start.                                                     *)
LEMMA TypeInit == Init => TypeOK
<1> SUFFICES ASSUME Init PROVE TypeOK
  OBVIOUS
<1>1. NoEntry \in Entry \cup {NoEntry}
  OBVIOUS
<1> QED BY <1>1 DEF Init, TypeOK

(* Every step keeps the types.                                             *)
LEMMA TypeStep == TypeOK /\ [Next]_vars => TypeOK'
<1> SUFFICES ASSUME TypeOK, [Next]_vars PROVE TypeOK'
  OBVIOUS
<1> USE DEF TypeOK
<1>1. CASE Scan
  BY <1>1, ScanYields DEF Scan
<1>2. CASE Watch \/ WatchFails
  BY <1>2 DEF Watch, WatchFails
<1>3. CASE ReadEvent
  <2>1. Head(inotify) \in RawEvent /\ Tail(inotify) \in Seq(RawEvent)
    BY <1>3 DEF ReadEvent
  <2>2. FileEventOf(Head(inotify)) \in FileEvent /\ Head(inotify).path \in Path
    BY <2>1, EventType DEF RawEvent
  <2>3. Append(channel, FileEventOf(Head(inotify))) \in Seq(FileEvent)
    BY <2>2
  <2> QED BY <1>3, <2>1, <2>2, <2>3 DEF ReadEvent
<1>4. CASE \E p \in Path : WindowPasses(p)
  BY <1>4 DEF WindowPasses
<1>5. CASE HandleFileEvent
  <2>1. channel' \in Seq(FileEvent)
    BY <1>5 DEF HandleFileEvent
  <2> QED BY <1>5, <2>1, HandleType DEF HandleFileEvent
<1>6. CASE Pass
  BY <1>6 DEF Pass
<1>7. CASE Edit
  BY <1>7, EditType
<1>8. CASE UNCHANGED vars
  BY <1>8 DEF vars
<1> QED BY <1>1, <1>2, <1>3, <1>4, <1>5, <1>6, <1>7, <1>8 DEF Next

(* The state is well typed (the data of config.rs and its channels).       *)
THEOREM WatcherTypeCorrect == Spec => []TypeOK
BY TypeInit, TypeStep, PTL DEF Spec

-----------------------------------------------------------------------------
(* Entries and prefixes.                                                   *)

(* The entry of a file and of a name go in one step, and a new prefix comes *)
(* with a new scan.                                                        *)
LEMMA OwnPrefixStep ==
  ASSUME TypeOK, OnlyOwnPrefix, [Next]_vars
  PROVE  OnlyOwnPrefix'
<1> USE DEF OnlyOwnPrefix
<1>1. CASE Scan
  BY <1>1, ScanYields DEF Scan
<1>2. CASE HandleFileEvent
  <2> DEFINE p == Head(channel).path
  <2> HIDE DEF p
  <2>1. CASE RemoveNamespaceConfig(p) /\ UNCHANGED prefix
    BY <2>1 DEF RemoveNamespaceConfig
  <2>2. CASE p = Master /\ ReloadMasterConfig
    BY <2>2, ScanYields DEF ReloadMasterConfig
  <2>3. CASE ReloadNamespaceConfig(p) /\ UNCHANGED prefix
    <3>1. \A n \in FullName :
            n = FullNameOf(files[p].name, prefix) \/ configs'[n] = configs[n]
      BY <2>3 DEF ReloadNamespaceConfig, TypeOK
    <3> QED BY <2>3, <3>1, NamesArePrefixed
  <2> QED BY <1>2, <2>1, <2>2, <2>3 DEF HandleFileEvent, p
<1>3. CASE Edit
  BY <1>3, EditType DEF daemonVars
<1>4. CASE UNCHANGED <<prefix, configs>>
  BY <1>4
<1>5. QED
  BY <1>1, <1>2, <1>3, <1>4
     DEF Next, Watch, WatchFails, ReadEvent, WindowPasses, Pass, vars

(* No entry outlives the prefix it was loaded under, for every directory   *)
(* and whatever happens to it (reload_master_config, add_namespace_prefix). *)
THEOREM OwnPrefix == Spec => []OnlyOwnPrefix
<1>1. Init => OnlyOwnPrefix
  BY DEF Init, OnlyOwnPrefix
<1> QED BY <1>1, OwnPrefixStep, WatcherTypeCorrect, PTL DEF Spec

-----------------------------------------------------------------------------
(* What is loaded stays loaded.                                            *)

(* Before the scan nothing is loaded: the scan itself takes nothing down.  *)
NothingBeforeScan == phase = "scan" => \A n \in FullName : configs[n] = NoEntry

(* Before the watch is there the config-monitor thread has nothing to do.  *)
NothingBeforeWatch == phase # "watching" => inotify = <<>> /\ channel = <<>>

Loading == TypeOK /\ NothingBeforeScan /\ NothingBeforeWatch

(* Nothing is loaded before the scan and nothing queued before the watch.  *)
LEMMA LoadingStep ==
  ASSUME Loading, [Next]_vars
  PROVE  NothingBeforeScan' /\ NothingBeforeWatch'
<1> USE DEF Loading, NothingBeforeScan, NothingBeforeWatch
<1>1. CASE Scan \/ Watch \/ WatchFails
  BY <1>1 DEF Scan, Watch, WatchFails
<1>2. CASE ReadEvent
  BY <1>2 DEF ReadEvent
<1>3. CASE HandleFileEvent
  BY <1>3 DEF HandleFileEvent
<1>4. CASE Edit
  <2>1. UNCHANGED daemonVars
    BY <1>4, EditType
  <2>2. phase # "watching" => UNCHANGED inotify
    BY <1>4 DEF Edit, Replace, Delete, Move, BeginWrite, EndWrite, Queue
  <2> QED BY <2>1, <2>2 DEF daemonVars
<1>5. CASE UNCHANGED <<phase, configs, inotify, channel>>
  BY <1>5
<1> QED BY <1>1, <1>2, <1>3, <1>4, <1>5 DEF Next, WindowPasses, Pass, vars

(* So it is at all times.                                                  *)
LEMMA LoadingInvariant == Spec => []Loading
<1>1. Init => Loading
  BY TypeInit DEF Init, Loading, NothingBeforeScan, NothingBeforeWatch
<1>2. Loading /\ [Next]_vars => Loading'
  BY TypeStep, LoadingStep DEF Loading
<1> QED BY <1>1, <1>2, PTL DEF Spec

(* A name loses its entry only to the deletion of the entry's own file or  *)
(* to an edit of the master configuration: a file that breaks, or is       *)
(* renamed away from the prefix, takes nothing down, whatever the order in *)
(* which the events come (reload_namespace_config, requirement 2.7).       *)
THEOREM BrokenKeeps == Spec => BrokenKeepsLoaded
<1> DEFINE Lost(n) == configs[n] # NoEntry /\ configs'[n] = NoEntry
           Allowed(n) == prefix' # prefix \/ Head(channel) \in
                           {[path |-> configs[n].path, change |-> "deleted"],
                            [path |-> Master, change |-> "modified"]}
           Keeps == \A n \in FullName : Lost(n) => Allowed(n)
<1>1. ASSUME Loading, [Next]_vars, NEW n \in FullName, Lost(n)
      PROVE  Allowed(n)
  <2> USE <1>1
  <2>1. CASE Scan
    BY <2>1 DEF Scan, Loading, NothingBeforeScan
  <2>2. CASE HandleFileEvent
    <3> DEFINE event == Head(channel)
    <3>1. event \in FileEvent
      BY <2>2 DEF HandleFileEvent, Loading, TypeOK
    <3>2. event = [path |-> event.path, change |-> event.change] /\ event.path \in Path
      BY <3>1 DEF FileEvent
    <3>3. CASE event.change = "deleted" /\ RemoveNamespaceConfig(event.path)
      <4>1. configs[n].path = event.path
        BY <3>3 DEF RemoveNamespaceConfig
      <4> QED BY <3>2, <3>3, <4>1
    <3>4. CASE event.change = "modified" /\ event.path = Master
      BY <3>2, <3>4
    <3>5. CASE ReloadNamespaceConfig(event.path)
      <4>1. CASE Ours(event.path, prefix)
        <5>1. EntryOf(event.path) # NoEntry
          BY <3>2, <4>1, LoadedIsEntry DEF Ours, Loading
        <5> QED BY <3>5, <4>1, <5>1 DEF ReloadNamespaceConfig, Loading, TypeOK
      <4>2. CASE ~Ours(event.path, prefix)
        BY <3>5, <4>2 DEF ReloadNamespaceConfig
      <4> QED BY <4>1, <4>2
    <3> QED BY <2>2, <3>3, <3>4, <3>5 DEF HandleFileEvent
  <2>3. CASE Edit
    BY <2>3, EditType DEF Loading, daemonVars
  <2>4. CASE UNCHANGED configs
    BY <2>4
  <2> QED BY <2>1, <2>2, <2>3, <2>4
          DEF Next, Watch, WatchFails, ReadEvent, WindowPasses, Pass, vars
<1>2. Loading /\ [Next]_vars => [Keeps]_vars
  BY <1>1
<1> QED BY <1>2, LoadingInvariant, PTL DEF Spec, BrokenKeepsLoaded

-----------------------------------------------------------------------------
(* Edits with a second in between, each file with a name of its own: the   *)
(* watcher loses nothing.                                                  *)

(* Finished files are renamed into place or deleted, once the watch is     *)
(* there and not in haste, and no two of them have one full name. Whether  *)
(* the watch can be set up is left open.                                   *)
CalmEdits ==
  /\ Disturbances \subseteq {"replace", "delete", "failure"}
  /\ \A p, q \in Path \ {Master}, pre \in Prefix :
       /\ ShouldManage(NameOf[p], pre) /\ ShouldManage(NameOf[q], pre)
       /\ FullNameOf(NameOf[p], pre) = FullNameOf(NameOf[q], pre)
       => p = q

Usually(p) == files[p] \in {Absent, Broken} \cup {Config(NameOf[p], v) : v \in Version}

\* An event about p is on its way, unread or unhandled.
Queued(p) == \E i \in 1 .. Len(inotify) : inotify[i].path = p
Sent(p) == \E i \in 1 .. Len(channel) : channel[i].path = p

\* The last event about p has to say what became of the file.
Tells(change, p) ==
  /\ files[p] = Absent => change = "deleted"
  /\ Ours(p, prefix) => change = "created"

Agrees(p) ==
  /\ Ours(p, prefix) => configs[FullNameOf(files[p].name, prefix)] = EntryOf(p)
  /\ files[p] = Absent => \A n \in FullName : configs[n].path # p

(* A file holds what it usually holds; at most one unread event is about   *)
(* it, which is not going to be debounced away; the last event on its way  *)
(* tells what became of it; and when none is, its entry agrees with it.    *)
FilesUsual ==
  /\ \A p \in Path \ {Master} : Usually(p)
  /\ Master \in Path => Unreadable(Master)
  /\ writing = {}

UnreadOnce ==
  \A i \in 1 .. Len(inotify) :
    /\ inotify[i].mask \in {"moved_to", "delete"}
    /\ inotify[i].path \notin recent
    /\ \A j \in 1 .. Len(inotify) : inotify[i].path = inotify[j].path => i = j
    /\ Tells(FileEventOf(inotify[i]).change, inotify[i].path)

LastTells ==
  \A i \in 1 .. Len(channel) :
    /\ channel[i].change \in {"created", "deleted"}
    /\ /\ ~Queued(channel[i].path)
       /\ \A j \in 1 .. Len(channel) : channel[j].path = channel[i].path => j <= i
       => Tells(channel[i].change, channel[i].path)

SettledAgree ==
  phase # "scan" => \A p \in Path : ~Queued(p) /\ ~Sent(p) => Agrees(p)

CalmInv == FilesUsual /\ UnreadOnce /\ LastTells /\ SettledAgree

(* The kinds of contents exclude each other.                               *)
LEMMA KindsDiffer ==
  /\ Absent.kind = "absent" /\ Broken.kind = "broken"
  /\ \A n, v : Config(n, v).kind = "config" /\ Config(n, v).name = n /\ Config(n, v).ver = v
  /\ \A pre : MasterOf(pre).kind = "master"
BY DEF Absent, Broken, Plain, Config, MasterOf

(* A file that is loaded has its own name and is there.                    *)
LEMMA OursUsual ==
  ASSUME FilesUsual, NEW p \in Path, NEW pre, Ours(p, pre)
  PROVE  /\ p # Master /\ files[p].name = NameOf[p] /\ files[p] # Absent
         /\ ShouldManage(NameOf[p], pre)
BY KindsDiffer DEF FilesUsual, Usually, Ours, Unreadable

(* Two files that are loaded have two names.                               *)
LEMMA NamesApart ==
  ASSUME CalmEdits, FilesUsual, NEW p \in Path, NEW q \in Path, NEW pre \in Prefix,
         Ours(p, pre), Ours(q, pre),
         FullNameOf(files[p].name, pre) = FullNameOf(files[q].name, pre)
  PROVE  p = q
BY OursUsual DEF CalmEdits

(* The name an entry is loaded under is a full name.                       *)
LEMMA FullNameType ==
  ASSUME FilesUsual, NEW p \in Path, NEW pre \in Prefix, Ours(p, pre)
  PROVE  FullNameOf(files[p].name, pre) \in FullName
<1>1. files[p].name \in ConfigName /\ files[p].name = NameOf[p]
  BY OursUsual
<1> QED BY <1>1 DEF FullNameOf, MatchesPrefix, FullName, ConfigName

(* The scan loads every file of ours and nothing of a file that is not.    *)
LEMMA ScanAgrees ==
  ASSUME CalmEdits, TypeOK, FilesUsual, ScanNamespaceConfigs(prefix), UNCHANGED <<files, prefix>>,
         NEW p \in Path
  PROVE  Agrees(p)'
<1>1. PICK last \in [FullName -> Path] :
        /\ \A n \in FullName : (\E q \in Path : Loads(q, n, prefix)) => Loads(last[n], n, prefix)
        /\ configs' = [n \in FullName |-> IF Loads(last[n], n, prefix) THEN EntryOf(last[n]) ELSE NoEntry]
  BY DEF ScanNamespaceConfigs
<1>p. prefix \in Prefix
  BY DEF TypeOK
<1>2. ASSUME Ours(p, prefix) PROVE configs'[FullNameOf(files[p].name, prefix)] = EntryOf(p)
  <2> DEFINE n == FullNameOf(files[p].name, prefix)
  <2>1. n \in FullName
    BY <1>2, <1>p, FullNameType
  <2>2. Loads(p, n, prefix)
    BY <1>2 DEF Loads
  <2> HIDE DEF n
  <2>3. Loads(last[n], n, prefix) /\ last[n] \in Path
    BY <1>1, <2>1, <2>2
  <2>4. last[n] = p
    BY <1>p, <1>2, <2>2, <2>3, NamesApart DEF Loads
  <2> QED BY <1>1, <2>1, <2>3, <2>4 DEF n
<1>3. ASSUME files[p] = Absent, NEW n \in FullName PROVE configs'[n].path # p
  <2>1. CASE Loads(last[n], n, prefix)
    <3>1. last[n] # p
      BY <1>3, <2>1, KindsDiffer DEF Loads, Ours, Unreadable
    <3> QED BY <1>1, <2>1, <3>1 DEF EntryOf
  <2>2. CASE ~Loads(last[n], n, prefix)
    BY <1>1, <2>2 DEF NoEntry
  <2> QED BY <2>1, <2>2
<1> QED BY <1>2, <1>3 DEF Agrees, Ours, Unreadable, EntryOf

(* A new event at the end of a queue.                                      *)
LEMMA AppendOne ==
  ASSUME NEW S, NEW s \in Seq(S), NEW e \in S
  PROVE  /\ Len(s \o <<e>>) = Len(s) + 1 /\ (s \o <<e>>)[Len(s) + 1] = e
         /\ \A i \in 1 .. Len(s) : (s \o <<e>>)[i] = s[i]
         /\ Len(Append(s, e)) = Len(s) + 1 /\ Append(s, e)[Len(s) + 1] = e
         /\ \A i \in 1 .. Len(s) : Append(s, e)[i] = s[i]
OBVIOUS

(* A calm edit: one file becomes something it usually is, and one event    *)
(* that tells it is queued behind the others.                              *)
LEMMA CalmEdit ==
  ASSUME CalmEdits, TypeOK, CalmInv, Edit
  PROVE  \E p \in Path, c \in Content, mask \in {"moved_to", "delete"} :
           /\ Spaced(p) /\ phase = "watching" /\ writing' = {}
           /\ files' = [files EXCEPT ![p] = c]
           /\ inotify' = inotify \o <<Raw(p, mask)>>
           /\ (mask = "delete") <=> (c = Absent)
           /\ p # Master => c \in {Absent, Broken} \cup {Config(NameOf[p], v) : v \in Version}
           /\ p = Master => c.kind # "config"
<1>1. PICK p \in Path, q \in Path :
        Replace(p) \/ Delete(p) \/ Move(p, q) \/ BeginWrite(p) \/ EndWrite(p)
  BY DEF Edit
<1>2. writing = {} /\ "gap" \notin Disturbances /\ "hasty" \notin Disturbances
      /\ "names" \notin Disturbances
  BY DEF CalmEdits, CalmInv, FilesUsual
<1>3. ~Move(p, q) /\ ~BeginWrite(p) /\ ~EndWrite(p)
  BY <1>2 DEF CalmEdits, Move, BeginWrite, EndWrite
<1>4. Spaced(p) /\ phase = "watching" /\ writing' = {}
  BY <1>1, <1>2, <1>3 DEF Replace, Delete, MayEdit
<1>5. ASSUME NEW mask \in Mask, Queue(<<Raw(p, mask)>>)
      PROVE  inotify' = inotify \o <<Raw(p, mask)>>
  <2>1. Head(<<Raw(p, mask)>>) = Raw(p, mask) /\ Raw(p, mask).path = p
    BY DEF Raw
  <2>2. inotify # <<>> => Len(inotify) \in 1 .. Len(inotify)
    BY DEF TypeOK
  <2>3. ~(inotify # <<>> /\ inotify[Len(inotify)] = Raw(p, mask))
    BY <1>4, <2>1, <2>2 DEF Spaced
  <2> QED BY <1>4, <1>5, <2>1, <2>3 DEF Queue
<1>6. CASE Replace(p)
  <2>1. PICK c \in NewContent(p) : files' = [files EXCEPT ![p] = c]
    BY <1>6 DEF Replace
  <2>2. NextVersion \in Version
    BY <1>6 DEF Replace, MayEdit, TypeOK, NextVersion, Version
  <2>3. c \in Content
    BY <2>1, NewContentType
  <2>4. /\ p # Master => c \in {Broken, Config(NameOf[p], NextVersion)}
        /\ p = Master => c \in {Broken} \cup {MasterOf(pre) : pre \in Prefix}
    BY <1>2 DEF NewContent
  <2>5. c # Absent /\ (p = Master => c.kind # "config")
    BY <2>4, KindsDiffer
  <2>6. p # Master => c \in {Absent, Broken} \cup {Config(NameOf[p], v) : v \in Version}
    BY <2>2, <2>4
  <2>7. inotify' = inotify \o <<Raw(p, "moved_to")>>
    BY <1>5, <1>6 DEF Replace, Mask
  <2>8. ("moved_to" = "delete") <=> (c = Absent)
    BY <2>5
  <2> WITNESS p \in Path, c \in Content, "moved_to" \in {"moved_to", "delete"}
  <2> QED BY <1>4, <2>1, <2>5, <2>6, <2>7, <2>8
<1>7. CASE Delete(p)
  <2>1. inotify' = inotify \o <<Raw(p, "delete")>> /\ files' = [files EXCEPT ![p] = Absent]
    BY <1>5, <1>7 DEF Delete, Mask
  <2>2. Absent \in Content /\ Absent.kind # "config"
    BY KindsDiffer DEF Content
  <2> QED BY <1>4, <2>1, <2>2
<1> QED BY <1>1, <1>3, <1>6, <1>7

(* An edit leaves the agreement of the other files alone, and the event it *)
(* queues is neither merged with another nor going to be debounced away.   *)
LEMMA CalmEditInv ==
  ASSUME CalmEdits, TypeOK, CalmInv, Edit
  PROVE  CalmInv'
<1>1. PICK p \in Path, c \in Content, mask \in {"moved_to", "delete"} :
           /\ Spaced(p) /\ phase = "watching" /\ writing' = {}
           /\ files' = [files EXCEPT ![p] = c]
           /\ inotify' = inotify \o <<Raw(p, mask)>>
           /\ (mask = "delete") <=> (c = Absent)
           /\ p # Master => c \in {Absent, Broken} \cup {Config(NameOf[p], v) : v \in Version}
           /\ p = Master => c.kind # "config"
  BY CalmEdit
<1>2. UNCHANGED <<phase, prefix, configs, recent, channel, monitor>>
  BY EditType DEF daemonVars
<1>t. /\ files \in [Path -> Content] /\ inotify \in Seq(RawEvent) /\ channel \in Seq(FileEvent)
      /\ files'[p] = c /\ \A q \in Path : q # p => files'[q] = files[q]
  BY <1>1 DEF TypeOK
<1>3. /\ Len(inotify') = Len(inotify) + 1 /\ Len(inotify) \in Nat
      /\ inotify'[Len(inotify) + 1] = Raw(p, mask)
      /\ \A i \in 1 .. Len(inotify) : inotify'[i] = inotify[i] /\ inotify[i] \in RawEvent
  BY <1>1, <1>t, RawType, AppendOne DEF Mask
<1>5. FileEventOf(Raw(p, mask)).change = (IF mask = "delete" THEN "deleted" ELSE "created")
      /\ Raw(p, mask).path = p /\ Raw(p, mask).mask = mask
  BY DEF FileEventOf, Raw
<1>6. Tells(FileEventOf(Raw(p, mask)).change, p)'
  <2>1. Ours(p, prefix)' => c # Absent
    BY <1>t, KindsDiffer DEF Ours, Unreadable
  <2> QED BY <1>1, <1>5, <1>t, <2>1 DEF Tells
<1>7. FilesUsual'
  BY <1>1, <1>t DEF CalmInv, FilesUsual, Usually, Unreadable
<1>8. UnreadOnce'
  <2> SUFFICES ASSUME NEW i \in 1 .. Len(inotify')
               PROVE  /\ inotify'[i].mask \in {"moved_to", "delete"}
                      /\ inotify'[i].path \notin recent'
                      /\ \A j \in 1 .. Len(inotify') : inotify'[i].path = inotify'[j].path => i = j
                      /\ Tells(FileEventOf(inotify[i]).change, inotify[i].path)'
    BY DEF UnreadOnce
  <2>1. CASE i = Len(inotify) + 1
    <3>1. inotify'[i] = Raw(p, mask)
      BY <1>3, <2>1
    <3>2. \A j \in 1 .. Len(inotify') : inotify'[i].path = inotify'[j].path => i = j
      <4>1. \A j \in 1 .. Len(inotify) : inotify[j].path # p
        BY <1>1 DEF Spaced
      <4>2. inotify'[i].path = p
        BY <1>5, <3>1
      <4>3. ASSUME NEW j \in 1 .. Len(inotify'), j # i PROVE inotify'[j].path # p
        BY <1>3, <2>1, <4>1, <4>3
      <4> QED BY <4>2, <4>3
    <3>3. inotify'[i].mask \in {"moved_to", "delete"} /\ inotify'[i].path \notin recent'
      BY <1>1, <1>2, <1>5, <3>1 DEF Spaced
    <3>4. Tells(FileEventOf(inotify[i]).change, inotify[i].path)'
      BY <1>5, <1>6, <3>1 DEF Tells
    <3> QED BY <3>2, <3>3, <3>4
  <2>2. CASE i \in 1 .. Len(inotify)
    <3>1. inotify'[i] = inotify[i] /\ inotify[i].path \in Path /\ inotify[i].path # p
      BY <1>1, <1>3, <2>2 DEF Spaced, RawEvent
    <3>2. Tells(FileEventOf(inotify[i]).change, inotify[i].path)'
      <4>1. Tells(FileEventOf(inotify[i]).change, inotify[i].path)
        BY <2>2 DEF CalmInv, UnreadOnce
      <4> QED BY <1>2, <1>t, <3>1, <4>1 DEF Tells, Ours, Unreadable
    <3>3. \A j \in 1 .. Len(inotify') : inotify'[i].path = inotify'[j].path => i = j
      BY <1>3, <1>5, <2>2, <3>1 DEF CalmInv, UnreadOnce
    <3> QED BY <1>2, <2>2, <3>1, <3>2, <3>3 DEF CalmInv, UnreadOnce
  <2> QED BY <1>3, <2>1, <2>2
<1>9. Queued(p)' /\ \A q \in Path : q # p => (Queued(q)' <=> Queued(q))
  <2>1. Len(inotify') \in 1 .. Len(inotify') /\ inotify'[Len(inotify')].path = p
    BY <1>3, <1>5
  <2>2. ASSUME NEW q \in Path, q # p PROVE Queued(q)' <=> Queued(q)
    BY <1>3, <1>5, <2>2 DEF Queued
  <2> QED BY <2>1, <2>2 DEF Queued
<1>10. LastTells'
  <2> SUFFICES ASSUME NEW i \in 1 .. Len(channel), ~Queued(channel[i].path)',
                      \A j \in 1 .. Len(channel) : channel[j].path = channel[i].path => j <= i
               PROVE  Tells(channel[i].change, channel[i].path)'
    BY <1>2 DEF CalmInv, LastTells
  <2>1. channel[i].path \in Path
    <3>1. channel[i] \in FileEvent
      BY <1>t
    <3> QED BY <3>1 DEF FileEvent
  <2>2. channel[i].path # p
    BY <1>2, <1>9 DEF Queued
  <2>3. ~Queued(channel[i].path)
    BY <1>2, <1>9, <2>1, <2>2 DEF Queued
  <2>4. Tells(channel[i].change, channel[i].path)
    BY <2>3 DEF CalmInv, LastTells
  <2> QED BY <1>2, <1>t, <2>1, <2>2, <2>4 DEF Tells, Ours, Unreadable
<1>11. SettledAgree'
  <2> SUFFICES ASSUME NEW q \in Path, ~Queued(q)', ~Sent(q)' PROVE Agrees(q)'
    BY DEF SettledAgree
  <2>1. q # p /\ ~Queued(q) /\ ~Sent(q)
    BY <1>2, <1>9 DEF Sent
  <2>2. Agrees(q)
    BY <1>1, <2>1 DEF CalmInv, SettledAgree
  <2> QED BY <1>2, <1>t, <2>1, <2>2 DEF Agrees, Ours, Unreadable, EntryOf
<1> QED BY <1>7, <1>8, <1>10, <1>11 DEF CalmInv

(* What is left of a queue without its first event.                        *)
LEMMA TailElements ==
  ASSUME NEW S, NEW s \in Seq(S), s # <<>>
  PROVE  /\ Len(s) \in Nat /\ Len(s) > 0 /\ Len(Tail(s)) = Len(s) - 1
         /\ Head(s) = s[1] /\ s[1] \in S
         /\ \A i \in 1 .. Len(s) - 1 : Tail(s)[i] = s[i + 1]
OBVIOUS

(* The watcher reads an event: it is not debounced away.                   *)
LEMMA CalmRead ==
  ASSUME TypeOK, CalmInv, ReadEvent
  PROVE  CalmInv'
<1> DEFINE raw == Head(inotify)
           p == raw.path
           e == FileEventOf(raw)
<1>t. inotify \in Seq(RawEvent) /\ channel \in Seq(FileEvent) /\ inotify # <<>>
      /\ inotify' = Tail(inotify)
  BY DEF TypeOK, ReadEvent
<1>1. /\ Len(inotify) \in Nat /\ Len(inotify) > 0 /\ Len(inotify') = Len(inotify) - 1
      /\ raw = inotify[1] /\ raw \in RawEvent
      /\ \A i \in 1 .. Len(inotify) - 1 : inotify'[i] = inotify[i + 1]
  BY <1>t, TailElements
<1>2. e \in FileEvent /\ e.path = p /\ p \in Path
      /\ (raw.mask \in {"moved_to", "delete"} => e.change \in {"created", "deleted"})
  <2>1. e \in FileEvent
    BY <1>1, EventType
  <2> QED BY <1>1, <2>1 DEF RawEvent, FileEventOf
<1>3. /\ raw.mask \in {"moved_to", "delete"} /\ p \notin recent /\ Tells(e.change, p)
      /\ \A j \in 1 .. Len(inotify) : inotify[j].path = p => j = 1
  BY <1>1 DEF CalmInv, UnreadOnce
<1>4. /\ recent' = recent \cup {p} /\ channel' = Append(channel, e)
      /\ UNCHANGED <<files, writing, phase, prefix, configs>>
  BY <1>3 DEF ReadEvent
<1> HIDE DEF raw, p, e
<1>5. /\ Len(channel') = Len(channel) + 1 /\ Len(channel) \in Nat /\ channel'[Len(channel) + 1] = e
      /\ \A i \in 1 .. Len(channel) : channel'[i] = channel[i]
  BY <1>t, <1>2, <1>4, AppendOne
<1>6. \A q \in Path : q # p /\ ~Queued(q)' => ~Queued(q)
  <2> SUFFICES ASSUME NEW q \in Path, q # p, NEW i \in 1 .. Len(inotify), inotify[i].path = q
               PROVE  Queued(q)'
    BY DEF Queued
  <2>1. i # 1
    BY <1>1 DEF p
  <2>2. i - 1 \in 1 .. Len(inotify') /\ inotify'[i - 1] = inotify[i]
    BY <1>1, <2>1
  <2> QED BY <2>2 DEF Queued
<1>7. FilesUsual'
  BY <1>4 DEF CalmInv, FilesUsual, Usually, Unreadable
<1>8. UnreadOnce'
  <2> SUFFICES ASSUME NEW i \in 1 .. Len(inotify')
               PROVE  /\ inotify'[i].mask \in {"moved_to", "delete"}
                      /\ inotify'[i].path \notin recent'
                      /\ \A j \in 1 .. Len(inotify') : inotify'[i].path = inotify'[j].path => i = j
                      /\ Tells(FileEventOf(inotify[i]).change, inotify[i].path)'
    BY DEF UnreadOnce
  <2>1. /\ i + 1 \in 1 .. Len(inotify) /\ inotify'[i] = inotify[i + 1]
        /\ \A j \in 1 .. Len(inotify') : j + 1 \in 1 .. Len(inotify) /\ inotify'[j] = inotify[j + 1]
    BY <1>1
  <2>2. inotify[i + 1].path # p
    BY <1>3, <2>1
  <2>3. \A j \in 1 .. Len(inotify') : inotify[i + 1].path = inotify[j + 1].path => i + 1 = j + 1
    BY <2>1 DEF CalmInv, UnreadOnce
  <2>4. Tells(FileEventOf(inotify[i + 1]).change, inotify[i + 1].path)
    BY <2>1 DEF CalmInv, UnreadOnce
  <2>5. Tells(FileEventOf(inotify[i]).change, inotify[i].path)'
    BY <1>4, <2>1, <2>4 DEF Tells, Ours, Unreadable
  <2>6. inotify[i + 1].mask \in {"moved_to", "delete"} /\ inotify[i + 1].path \notin recent
    BY <2>1 DEF CalmInv, UnreadOnce
  <2>7. inotify'[i].mask \in {"moved_to", "delete"} /\ inotify'[i].path \notin recent'
    BY <1>4, <2>1, <2>2, <2>6
  <2>8. \A j \in 1 .. Len(inotify') : inotify'[i].path = inotify'[j].path => i = j
    <3> SUFFICES ASSUME NEW j \in 1 .. Len(inotify'), inotify'[i].path = inotify'[j].path
                 PROVE  i + 1 = j + 1
      OBVIOUS
    <3>1. inotify'[i] = inotify[i + 1] /\ inotify'[j] = inotify[j + 1]
      BY <2>1
    <3> QED BY <2>3, <3>1
  <2> QED BY <2>5, <2>7, <2>8
<1>9. LastTells'
  <2> SUFFICES ASSUME NEW i \in 1 .. Len(channel')
               PROVE  /\ channel'[i].change \in {"created", "deleted"}
                      /\ /\ ~Queued(channel[i].path)'
                         /\ \A j \in 1 .. Len(channel') : channel'[j].path = channel'[i].path => j <= i
                         => Tells(channel[i].change, channel[i].path)'
    BY DEF LastTells
  <2>1. CASE i = Len(channel) + 1
    BY <1>2, <1>3, <1>4, <1>5, <2>1 DEF Tells, Ours, Unreadable
  <2>2. CASE i \in 1 .. Len(channel)
    <3>1. channel'[i] = channel[i] /\ channel[i] \in FileEvent
      BY <1>t, <1>5, <2>2
    <3>2. channel[i].path \in Path /\ channel[i].change \in {"created", "deleted"}
      BY <2>2, <3>1 DEF CalmInv, LastTells, FileEvent
    <3>3. ASSUME ~Queued(channel[i].path)',
                 \A j \in 1 .. Len(channel') : channel'[j].path = channel'[i].path => j <= i
          PROVE  Tells(channel[i].change, channel[i].path)'
      <4>1. channel[i].path # p
        BY <1>2, <1>5, <2>2, <3>1, <3>3
      <4>2. ~Queued(channel[i].path)
        BY <1>6, <3>1, <3>2, <3>3, <4>1 DEF Queued
      <4>3. \A j \in 1 .. Len(channel) : channel[j].path = channel[i].path => j <= i
        BY <1>5, <2>2, <3>3
      <4>4. Tells(channel[i].change, channel[i].path)
        BY <2>2, <4>2, <4>3 DEF CalmInv, LastTells
      <4> QED BY <1>4, <3>1, <4>4 DEF Tells, Ours, Unreadable
    <3> QED BY <3>1, <3>2, <3>3
  <2> QED BY <1>5, <2>1, <2>2
<1>10. SettledAgree'
  <2> SUFFICES ASSUME phase # "scan", NEW q \in Path, ~Queued(q)', ~Sent(q)' PROVE Agrees(q)'
    BY <1>4 DEF SettledAgree
  <2>1. q # p /\ ~Sent(q)
    BY <1>2, <1>5 DEF Sent
  <2>2. ~Queued(q)
    BY <1>6, <2>1
  <2>3. Agrees(q)
    BY <2>1, <2>2 DEF CalmInv, SettledAgree
  <2> QED BY <1>4, <2>3 DEF Agrees, Ours, Unreadable, EntryOf
<1> QED BY <1>7, <1>8, <1>9, <1>10 DEF CalmInv

(* What the config-monitor thread does with an event, seen from any file.  *)
LEMMA CalmHandle ==
  ASSUME CalmEdits, TypeOK, CalmInv, HandleFileEvent
  PROVE  /\ Head(channel) \in FileEvent /\ UNCHANGED <<files, prefix>>
         /\ \/ /\ Head(channel).change = "deleted"
               /\ configs' = [n \in FullName |->
                    IF configs[n].path = Head(channel).path THEN NoEntry ELSE configs[n]]
            \/ /\ Head(channel).change = "created" /\ Ours(Head(channel).path, prefix)
               /\ configs' = [configs EXCEPT
                    ![FullNameOf(files[Head(channel).path].name, prefix)] = EntryOf(Head(channel).path)]
            \/ /\ Head(channel).change = "created" /\ ~Ours(Head(channel).path, prefix)
               /\ UNCHANGED configs
<1> DEFINE event == Head(channel)
<1>1. channel \in Seq(FileEvent) /\ channel # <<>>
  BY DEF TypeOK, HandleFileEvent
<1>2. event \in FileEvent /\ event = channel[1] /\ 1 \in 1 .. Len(channel)
  BY <1>1
<1>3. event.change \in {"created", "deleted"}
  BY <1>2 DEF CalmInv, LastTells
<1> QED BY <1>2, <1>3
   DEF HandleFileEvent, RemoveNamespaceConfig, ReloadNamespaceConfig

(* The last event about a file makes its entry agree with it, and no event *)
(* disturbs the agreement of another file.                                 *)
LEMMA CalmHandleInv ==
  ASSUME CalmEdits, TypeOK, CalmInv, HandleFileEvent
  PROVE  CalmInv'
<1> DEFINE event == Head(channel)
           p == event.path
<1>t. /\ channel \in Seq(FileEvent) /\ channel # <<>> /\ channel' = Tail(channel)
      /\ UNCHANGED <<files, writing, phase, prefix, inotify, recent>>
  BY CalmHandle DEF TypeOK, HandleFileEvent
<1>1. /\ Len(channel) \in Nat /\ Len(channel) > 0 /\ Len(channel') = Len(channel) - 1
      /\ event = channel[1] /\ event \in FileEvent
      /\ \A i \in 1 .. Len(channel) - 1 : channel'[i] = channel[i + 1]
  BY <1>t, TailElements
<1>2. p \in Path /\ prefix \in Prefix
  BY <1>1 DEF FileEvent, TypeOK
<1>3. \/ /\ event.change = "deleted"
         /\ configs' = [n \in FullName |-> IF configs[n].path = p THEN NoEntry ELSE configs[n]]
      \/ /\ event.change = "created" /\ Ours(p, prefix)
         /\ configs' = [configs EXCEPT ![FullNameOf(files[p].name, prefix)] = EntryOf(p)]
      \/ /\ event.change = "created" /\ ~Ours(p, prefix) /\ UNCHANGED configs
  BY CalmHandle
<1> HIDE DEF event, p
<1>4. configs \in [FullName -> Entry \cup {NoEntry}] /\ FilesUsual
  BY DEF TypeOK, CalmInv
<1>5. \A q \in Path : q # p /\ ~Sent(q)' => ~Sent(q)
  <2> SUFFICES ASSUME NEW q \in Path, q # p, NEW i \in 1 .. Len(channel), channel[i].path = q
               PROVE  Sent(q)'
    BY DEF Sent
  <2>1. i # 1
    BY <1>1 DEF p
  <2>2. i - 1 \in 1 .. Len(channel') /\ channel'[i - 1] = channel[i]
    BY <1>1, <2>1
  <2> QED BY <2>2 DEF Sent
<1>6. ASSUME NEW q \in Path, q # p, Agrees(q) PROVE Agrees(q)'
  <2>1. ASSUME Ours(q, prefix) PROVE configs'[FullNameOf(files[q].name, prefix)] = EntryOf(q)
    <3>1. FullNameOf(files[q].name, prefix) \in FullName
      BY <1>2, <1>4, <2>1, FullNameType
    <3>2. configs[FullNameOf(files[q].name, prefix)] = EntryOf(q) /\ EntryOf(q).path = q
      BY <1>6, <2>1 DEF Agrees, EntryOf
    <3>3. Ours(p, prefix) => FullNameOf(files[p].name, prefix) # FullNameOf(files[q].name, prefix)
      BY <1>2, <1>4, <1>6, <2>1, NamesApart
    <3> QED BY <1>3, <1>4, <1>6, <3>1, <3>2, <3>3
  <2>2. ASSUME files[q] = Absent, NEW n \in FullName PROVE configs'[n].path # q
    <3>1. configs[n].path # q /\ EntryOf(p).path = p /\ NoEntry.path # q
      BY <1>6, <2>2 DEF Agrees, EntryOf, NoEntry
    <3> QED BY <1>3, <1>4, <1>6, <3>1
  <2> QED BY <1>t, <2>1, <2>2 DEF Agrees, Ours, Unreadable, EntryOf
<1>7. ASSUME NEW q \in Path, q = p, Tells(event.change, q) PROVE Agrees(q)'
  <2>1. ASSUME Ours(q, prefix) PROVE configs'[FullNameOf(files[q].name, prefix)] = EntryOf(q)
    <3>1. FullNameOf(files[q].name, prefix) \in FullName
      BY <1>2, <1>4, <2>1, FullNameType
    <3> QED BY <1>3, <1>4, <1>7, <2>1, <3>1 DEF Tells
  <2>2. ASSUME files[q] = Absent, NEW n \in FullName PROVE configs'[n].path # q
    <3>1. NoEntry.path # q
      BY <1>7 DEF NoEntry
    <3> QED BY <1>3, <1>4, <1>7, <2>2, <3>1 DEF Tells
  <2> QED BY <1>t, <2>1, <2>2 DEF Agrees, Ours, Unreadable, EntryOf
<1>8. FilesUsual' /\ UnreadOnce' /\ \A q \in Path : Queued(q)' <=> Queued(q)
  BY <1>t DEF CalmInv, FilesUsual, UnreadOnce, Usually, Queued, Tells, Ours, Unreadable
<1>9. LastTells'
  <2> SUFFICES ASSUME NEW i \in 1 .. Len(channel')
               PROVE  /\ channel'[i].change \in {"created", "deleted"}
                      /\ /\ ~Queued(channel[i].path)'
                         /\ \A j \in 1 .. Len(channel') : channel'[j].path = channel'[i].path => j <= i
                         => Tells(channel[i].change, channel[i].path)'
    BY DEF LastTells
  <2>1. i + 1 \in 1 .. Len(channel) /\ channel'[i] = channel[i + 1]
    BY <1>1
  <2>2. channel[i + 1].change \in {"created", "deleted"}
    BY <2>1 DEF CalmInv, LastTells
  <2>3. ASSUME ~Queued(channel[i].path)',
               \A j \in 1 .. Len(channel') : channel'[j].path = channel'[i].path => j <= i
        PROVE  Tells(channel[i].change, channel[i].path)'
    <3>1. ~Queued(channel[i + 1].path)
      BY <1>t, <2>1, <2>3 DEF Queued
    <3>2. \A j \in 1 .. Len(channel) : channel[j].path = channel[i + 1].path => j <= i + 1
      <4> SUFFICES ASSUME NEW j \in 1 .. Len(channel), channel[j].path = channel[i + 1].path, j # 1
                   PROVE  j <= i + 1
        BY <2>1
      <4>1. j - 1 \in 1 .. Len(channel') /\ channel'[j - 1] = channel[j]
        BY <1>1
      <4> QED BY <2>1, <2>3, <4>1
    <3>3. Tells(channel[i + 1].change, channel[i + 1].path)
      BY <2>1, <3>1, <3>2 DEF CalmInv, LastTells
    <3> QED BY <1>t, <2>1, <3>3 DEF Tells, Ours, Unreadable
  <2> QED BY <2>1, <2>2, <2>3
<1>10. SettledAgree'
  <2> SUFFICES ASSUME phase # "scan", NEW q \in Path, ~Queued(q)', ~Sent(q)' PROVE Agrees(q)'
    BY <1>t DEF SettledAgree
  <2>1. ~Queued(q)
    BY <1>8
  <2>2. CASE q # p
    <3>1. Agrees(q)
      BY <1>5, <2>1, <2>2 DEF CalmInv, SettledAgree
    <3> QED BY <1>6, <2>2, <3>1
  <2>3. CASE q = p
    <3>1. \A j \in 1 .. Len(channel) : channel[j].path = p => j <= 1
      <4> SUFFICES ASSUME NEW j \in 1 .. Len(channel), channel[j].path = p, j # 1 PROVE FALSE
        BY <1>1
      <4>1. j - 1 \in 1 .. Len(channel') /\ channel'[j - 1] = channel[j]
        BY <1>1
      <4> QED BY <2>3, <4>1 DEF Sent
    <3>2. Tells(event.change, p)
      BY <1>1, <2>1, <2>3, <3>1 DEF CalmInv, LastTells, p
    <3> QED BY <1>7, <2>3, <3>2
  <2> QED BY <2>2, <2>3
<1> QED BY <1>8, <1>9, <1>10 DEF CalmInv

(* Calm edits are noticed: the first state, and every step.                *)
LEMMA CalmInit == Init => CalmInv
<1> SUFFICES ASSUME Init PROVE CalmInv
  OBVIOUS
<1>1. FilesUsual
  BY KindsDiffer DEF Init, FilesUsual, Usually, Unreadable, Version
<1>2. UnreadOnce /\ LastTells /\ SettledAgree
  BY DEF Init, UnreadOnce, LastTells, SettledAgree
<1> QED BY <1>1, <1>2 DEF CalmInv

(* With edits a second apart every step leaves each file on its way to     *)
(* being loaded or loaded as it is.                                        *)
LEMMA CalmStep ==
  ASSUME CalmEdits, Loading, CalmInv, [Next]_vars
  PROVE  CalmInv'
<1>t. TypeOK
  BY DEF Loading
<1>1. CASE Scan
  <2>1. inotify = <<>> /\ channel = <<>> /\ UNCHANGED <<files, writing, prefix, inotify, recent, channel>>
    BY <1>1 DEF Scan, Loading, NothingBeforeWatch
  <2>2. \A p \in Path : Agrees(p)'
    BY <1>1, <1>t, <2>1, ScanAgrees DEF Scan, CalmInv
  <2>3. FilesUsual' /\ UnreadOnce' /\ LastTells'
    BY <2>1 DEF CalmInv, FilesUsual, Usually, Unreadable, UnreadOnce, LastTells
  <2> QED BY <2>2, <2>3 DEF CalmInv, SettledAgree
<1>2. ASSUME UNCHANGED <<files, writing, prefix, configs, inotify, channel>>, recent' \subseteq recent,
             phase # "scan" \/ phase' = phase
      PROVE  CalmInv'
  <2>1. FilesUsual' /\ SettledAgree'
    BY <1>2 DEF CalmInv, FilesUsual, Usually, SettledAgree, Queued, Sent, Agrees, Ours, Unreadable,
               EntryOf
  <2>2. UnreadOnce'
    BY <1>2 DEF CalmInv, UnreadOnce, Tells, Ours, Unreadable
  <2>3. LastTells'
    BY <1>2 DEF CalmInv, LastTells, Queued, Tells, Ours, Unreadable
  <2> QED BY <2>1, <2>2, <2>3 DEF CalmInv
<1>3. CASE Watch \/ WatchFails \/ (\E p \in Path : WindowPasses(p)) \/ Pass \/ UNCHANGED vars
  BY <1>2, <1>3 DEF Watch, WatchFails, WindowPasses, Pass, vars
<1> QED BY <1>t, <1>1, <1>3, CalmRead, CalmHandleInv, CalmEditInv DEF Next

(* With calm edits, whenever nothing is under way what is loaded is what   *)
(* the files hold: no event is lost in the kernel's queue, in the debounce *)
(* or in the channel, and none is handled out of turn.                     *)
THEOREM QuietAgreement ==
  ASSUME CalmEdits
  PROVE  Spec => []QuietAgrees
<1>1. CalmInv => QuietAgrees
  <2> SUFFICES ASSUME CalmInv, Quiet, NEW p \in Path PROVE Agrees(p)
    BY DEF QuietAgrees, Agrees
  <2>1. ~Queued(p) /\ ~Sent(p)
    BY DEF Quiet, Queued, Sent
  <2> QED BY <2>1 DEF CalmInv, SettledAgree, Quiet
<1>2. Loading /\ CalmInv /\ [Next]_vars => CalmInv'
  BY CalmStep
<1> QED BY <1>1, <1>2, CalmInit, LoadingInvariant, PTL DEF Spec

-----------------------------------------------------------------------------
(* The scan and the watcher together implement Mirror.                     *)

(* Every file is one of this daemon, whatever its prefix.                  *)
AllOurs == \A p \in Path \ {Master}, pre \in Prefix : ShouldManage(NameOf[p], pre)

(* An entry is under the one name its file has.                            *)
EntriesOwn ==
  \A p \in Path, n \in FullName :
    configs[n].path = p => p # Master /\ n = FullNameOf(NameOf[p], prefix)

MirrorInv == Loading /\ CalmInv /\ EntriesOwn

(* Every step leaves each entry under the name its file has.               *)
LEMMA EntriesOwnStep ==
  ASSUME CalmEdits, MirrorInv, [Next]_vars
  PROVE  EntriesOwn'
<1> USE DEF EntriesOwn
<1>t. TypeOK /\ FilesUsual /\ prefix \in Prefix /\ \A p \in Path : NoEntry.path # p
  BY DEF MirrorInv, Loading, CalmInv, TypeOK, NoEntry
<1>1. CASE Scan
  <2>1. PICK last \in [FullName -> Path] :
          configs' = [n \in FullName |-> IF Loads(last[n], n, prefix) THEN EntryOf(last[n]) ELSE NoEntry]
    BY <1>1 DEF Scan, ScanNamespaceConfigs
  <2>2. ASSUME NEW p \in Path, NEW n \in FullName, configs'[n].path = p
        PROVE  p # Master /\ n = FullNameOf(NameOf[p], prefix)
    <3>1. Loads(last[n], n, prefix) /\ last[n] = p
      BY <1>t, <2>1, <2>2 DEF EntryOf
    <3> QED BY <1>t, <3>1, OursUsual DEF Loads
  <2> QED BY <1>1, <2>2 DEF Scan
<1>2. CASE HandleFileEvent
  <2> DEFINE e == Head(channel)
  <2>1. /\ e.path \in Path /\ UNCHANGED prefix
        /\ configs \in [FullName -> Entry \cup {NoEntry}]
        /\ \/ configs' = [n \in FullName |-> IF configs[n].path = e.path THEN NoEntry ELSE configs[n]]
           \/ /\ Ours(e.path, prefix)
              /\ configs' = [configs EXCEPT ![FullNameOf(files[e.path].name, prefix)] = EntryOf(e.path)]
           \/ UNCHANGED configs
    BY <1>2, <1>t, CalmHandle DEF MirrorInv, FileEvent, TypeOK
  <2> HIDE DEF e
  <2>2. Ours(e.path, prefix) => e.path # Master /\ files[e.path].name = NameOf[e.path]
    BY <1>t, <2>1, OursUsual
  <2>3. EntryOf(e.path).path = e.path
    BY DEF EntryOf
  <2> QED BY <1>t, <2>1, <2>2, <2>3 DEF MirrorInv
<1>3. CASE Edit
  BY <1>3, <1>t, EditType DEF MirrorInv, daemonVars
<1>4. CASE UNCHANGED <<prefix, configs>>
  BY <1>4 DEF MirrorInv
<1> QED BY <1>1, <1>2, <1>3, <1>4
   DEF Next, Watch, WatchFails, ReadEvent, WindowPasses, Pass, vars

(* The invariant of the refinement, at all times.                          *)
LEMMA MirrorInvariant ==
  ASSUME CalmEdits
  PROVE  Spec => []MirrorInv
<1>1. Init => EntriesOwn
  BY DEF Init, EntriesOwn, NoEntry
<1>2. Loading /\ CalmInv /\ [Next]_vars => CalmInv'
  BY CalmStep
<1>3. MirrorInv /\ [Next]_vars => EntriesOwn'
  BY EntriesOwnStep
<1> QED BY <1>1, <1>2, <1>3, CalmInit, LoadingInvariant, PTL DEF Spec, MirrorInv

(* What View is of a file once the scan is done.                           *)
ShownOf(entries, pre, p) ==
  LET n == FullNameOf(NameOf[p], pre) IN
  IF p # Master /\ entries[n].path = p THEN Config(NameOf[p], entries[n].ver) ELSE Absent

Shown(p) == ShownOf(configs, prefix, p)

(* The view of a file is what is loaded from it: it has one entry at       *)
(* most.                                                                   *)
LEMMA OneEntry ==
  ASSUME AllOurs, NEW entries, NEW pre \in Prefix, NEW p \in Path,
         \A n \in FullName :
           entries[n].path = p => p # Master /\ n = FullNameOf(NameOf[p], pre)
  PROVE  LET from == {n \in FullName : entries[n].path = p}
         IN (IF from = {} THEN Absent
             ELSE Config(NameOf[p], entries[CHOOSE n \in from : TRUE].ver))
            = ShownOf(entries, pre, p)
<1> DEFINE from == {n \in FullName : entries[n].path = p}
           own == FullNameOf(NameOf[p], pre)
<1>1. \A n \in from : p # Master /\ n = own
  OBVIOUS
<1>2. CASE from = {}
  <2>1. p # Master => own \in FullName
    BY DEF AllOurs, FullNameOf, ShouldManage, MatchesPrefix, FullName, ConfigName
  <2> QED BY <1>2, <2>1 DEF ShownOf
<1>3. CASE from # {}
  <2>1. PICK n \in from : TRUE
    BY <1>3
  <2>2. (CHOOSE m \in from : TRUE) \in from
    BY <2>1
  <2>3. own \in from /\ (CHOOSE m \in from : TRUE) = own
    BY <1>1, <2>1, <2>2
  <2> QED BY <1>1, <1>3, <2>3 DEF ShownOf
<1> QED BY <1>2, <1>3

(* The view Mirror is mapped to, before and after a step.                  *)
LEMMA ViewShows ==
  ASSUME AllOurs
  PROVE  /\ MirrorInv /\ phase # "scan" => View = [p \in Path |-> Shown(p)]
         /\ MirrorInv' /\ phase' # "scan" => View' = [p \in Path |-> Shown(p)']
<1>1. ASSUME MirrorInv, phase # "scan", NEW p \in Path PROVE View[p] = Shown(p)
  <2>1. prefix \in Prefix
    BY <1>1 DEF MirrorInv, Loading, TypeOK
  <2>2. \A n \in FullName : configs[n].path = p => p # Master /\ n = FullNameOf(NameOf[p], prefix)
    BY <1>1 DEF MirrorInv, EntriesOwn
  <2>3. View[p] = LET from == {n \in FullName : configs[n].path = p}
                  IN IF from = {} THEN Absent
                     ELSE Config(NameOf[p], configs[CHOOSE n \in from : TRUE].ver)
    BY <1>1 DEF View
  <2>4. View[p] = ShownOf(configs, prefix, p)
    BY ONLY <2>1, <2>2, <2>3, OneEntry, AllOurs
  <2> QED BY <2>4 DEF Shown
<1>2. ASSUME MirrorInv', phase' # "scan", NEW p \in Path PROVE View'[p] = Shown(p)'
  <2>1. prefix' \in Prefix
    BY <1>2 DEF MirrorInv, Loading, TypeOK
  <2>2. \A n \in FullName : configs'[n].path = p => p # Master /\ n = FullNameOf(NameOf[p], prefix')
    BY <1>2 DEF MirrorInv, EntriesOwn
  <2>3. View'[p] = LET from == {n \in FullName : configs'[n].path = p}
                   IN IF from = {} THEN Absent
                      ELSE Config(NameOf[p], configs'[CHOOSE n \in from : TRUE].ver)
    BY <1>2 DEF View
  <2>4. View'[p] = ShownOf(configs', prefix', p)
    BY ONLY <2>1, <2>2, <2>3, OneEntry, AllOurs
  <2> QED BY <2>4 DEF Shown, ShownOf
<1>3. View = [p \in Path |-> View[p]] /\ View' = [p \in Path |-> View'[p]]
  BY DEF View
<1> QED BY <1>1, <1>2, <1>3

(* Handling an event loads a file, notices its deletion, or shows nothing. *)
LEMMA HandleRefines ==
  ASSUME CalmEdits, AllOurs, MirrorInv, MirrorInv', HandleFileEvent
  PROVE  M!Next \/ UNCHANGED <<files, View>>
<1> DEFINE e == Head(channel)
<1>t. TypeOK /\ CalmInv /\ FilesUsual /\ prefix \in Prefix /\ files \in [Path -> Content]
  BY DEF MirrorInv, Loading, CalmInv, TypeOK
<1>1. /\ e.path \in Path /\ UNCHANGED <<prefix, files, phase>>
      /\ configs \in [FullName -> Entry \cup {NoEntry}]
      /\ \/ configs' = [n \in FullName |-> IF configs[n].path = e.path THEN NoEntry ELSE configs[n]]
         \/ /\ Ours(e.path, prefix)
            /\ configs' = [configs EXCEPT ![FullNameOf(files[e.path].name, prefix)] = EntryOf(e.path)]
         \/ UNCHANGED configs
  BY <1>t, CalmHandle DEF FileEvent, TypeOK, HandleFileEvent
<1>2. PICK p \in Path : p = e.path
  BY <1>1
<1> HIDE DEF e
<1>3. phase # "scan"
  <2>1. channel # <<>>
    BY DEF HandleFileEvent
  <2> QED BY <2>1 DEF MirrorInv, Loading, NothingBeforeWatch
<1>4. View = [q \in Path |-> Shown(q)] /\ View' = [q \in Path |-> Shown(q)']
  BY <1>1, <1>3, ViewShows
<1>5. NoEntry.path \notin Path /\ EntryOf(p).path = p /\ EntryOf(p).ver = files[p].ver
  BY DEF NoEntry, EntryOf
<1>n. \A q \in Path : q # Master => FullNameOf(NameOf[q], prefix) \in FullName
  BY <1>t DEF AllOurs, FullNameOf, ShouldManage, MatchesPrefix, FullName, ConfigName
<1>6. CASE configs' = [n \in FullName |-> IF configs[n].path = p THEN NoEntry ELSE configs[n]]
  <2>1. Shown(p)' = Absent
    BY <1>1, <1>5, <1>6, <1>n DEF Shown, ShownOf
  <2>2. ASSUME NEW q \in Path, q # p PROVE Shown(q)' = Shown(q)
    BY <1>1, <1>5, <1>6, <1>n, <2>2 DEF Shown, ShownOf
  <2>3. View' = [View EXCEPT ![p] = Absent]
    BY <1>4, <2>1, <2>2
  <2> QED BY <1>1, <2>3 DEF M!Next, M!Drop
<1>7. CASE /\ Ours(p, prefix)
           /\ configs' = [configs EXCEPT ![FullNameOf(files[p].name, prefix)] = EntryOf(p)]
  <2>1. p # Master /\ files[p].name = NameOf[p] /\ files[p] # Absent
    BY <1>t, <1>7, OursUsual
  <2>2. PICK v \in Version : files[p] = Config(NameOf[p], v)
    BY <1>t, <1>7, <2>1, KindsDiffer DEF FilesUsual, Usually, Ours, Unreadable
  <2>3. Shown(p)' = files[p]
    BY <1>1, <1>5, <1>7, <1>n, <2>1, <2>2, KindsDiffer DEF Shown, ShownOf
  <2>4. ASSUME NEW q \in Path, q # p PROVE Shown(q)' = Shown(q)
    <3>1. q # Master => FullNameOf(NameOf[q], prefix) # FullNameOf(NameOf[p], prefix)
      BY <1>t, <2>1, <2>4 DEF CalmEdits, AllOurs
    <3> QED BY <1>1, <1>7, <1>n, <2>1, <3>1 DEF Shown, ShownOf
  <2>5. View' = [View EXCEPT ![p] = files[p]]
    BY <1>4, <2>3, <2>4
  <2>6. files[p] \in Loadable
    BY <2>2 DEF Loadable
  <2> QED BY <1>1, <2>5, <2>6 DEF M!Next, M!Load
<1>8. CASE UNCHANGED configs
  <2>1. \A q \in Path : Shown(q)' = Shown(q)
    BY <1>1, <1>8 DEF Shown, ShownOf
  <2> QED BY <1>1, <1>4, <2>1
<1> QED BY <1>1, <1>2, <1>6, <1>7, <1>8

(* With calm edits of files that are all ours, what is loaded from a file  *)
(* is what it holds at some moment when it is read, never an earlier       *)
(* content, and a file that cannot be loaded leaves what was loaded.       *)
THEOREM MirrorsSafely ==
  ASSUME CalmEdits, AllOurs
  PROVE  Spec => M!Spec
<1>1. Init => M!Init
  <2> SUFFICES ASSUME Init PROVE M!Init
    OBVIOUS
  <2>1. FilesUsual /\ prefix \in Prefix
    BY CalmInit DEF Init, CalmInv
  <2>2. ASSUME NEW p \in Path
        PROVE  (IF Ours(p, prefix) THEN files[p] ELSE Absent)
                 = IF files[p] \in Loadable THEN files[p] ELSE Absent
    <3>1. CASE Ours(p, prefix)
      <4>1. PICK v \in Version : files[p] = Config(NameOf[p], v)
        BY <2>1, <3>1, OursUsual, KindsDiffer DEF FilesUsual, Usually, Ours, Unreadable
      <4> QED BY <3>1, <4>1 DEF Loadable
    <3>2. CASE ~Ours(p, prefix)
      <4>1. files[p].kind # "config"
        BY <2>1, <3>2, KindsDiffer DEF AllOurs, FilesUsual, Usually, Ours, Unreadable
      <4> QED BY <3>2, <4>1, KindsDiffer DEF Loadable
    <3> QED BY <3>1, <3>2
  <2>3. View = [p \in Path |-> IF Ours(p, prefix) THEN files[p] ELSE Absent]
    BY DEF View, Init
  <2> QED BY <2>2, <2>3 DEF M!Init, Init
<1>2. MirrorInv /\ MirrorInv' /\ [Next]_vars => [M!Next]_(M!mirrorVars)
  <2> SUFFICES ASSUME MirrorInv, MirrorInv', [Next]_vars PROVE [M!Next]_(M!mirrorVars)
    OBVIOUS
  <2>t. TypeOK /\ CalmInv
    BY DEF MirrorInv, Loading
  <2>1. CASE HandleFileEvent
    BY <2>1, HandleRefines DEF M!mirrorVars
  <2>2. CASE Edit
    <3>1. PICK p \in Path, c \in Content : files' = [files EXCEPT ![p] = c] /\ phase = "watching"
      BY <2>2, <2>t, CalmEdit
    <3>2. files' = [files EXCEPT ![p] = c, ![p] = c]
      BY <3>1, <2>t DEF TypeOK
    <3>3. UNCHANGED View
      BY <2>2, <2>t, <3>1, EditType DEF View, daemonVars
    <3> QED BY <3>2, <3>3 DEF M!Next, M!Change
  <2>3. CASE Scan
    <3>1. UNCHANGED <<files, prefix>> /\ phase = "scan" /\ phase' = "spawn"
      BY <2>3 DEF Scan
    <3>2. \A p \in Path : Agrees(p)'
      BY <2>3, <2>t, <3>1, ScanAgrees DEF Scan, CalmInv
    <3>3. ASSUME NEW p \in Path PROVE Shown(p)' = IF Ours(p, prefix) THEN files[p] ELSE Absent
      <4>1. CASE Ours(p, prefix)
        <5>1. p # Master /\ files[p].name = NameOf[p]
          BY <2>t, <4>1, OursUsual DEF CalmInv
        <5>2. PICK v \in Version : files[p] = Config(NameOf[p], v)
          BY <2>t, <4>1, <5>1, OursUsual, KindsDiffer DEF CalmInv, FilesUsual, Usually, Ours, Unreadable
        <5>3. configs'[FullNameOf(NameOf[p], prefix)] = EntryOf(p)
          BY <3>1, <3>2, <4>1, <5>1 DEF Agrees, Ours, Unreadable, EntryOf
        <5> QED BY <3>1, <4>1, <5>1, <5>2, <5>3, KindsDiffer DEF Shown, ShownOf, EntryOf
      <4>2. CASE ~Ours(p, prefix)
        <5>1. PICK last \in [FullName -> Path] :
                configs' = [n \in FullName |-> IF Loads(last[n], n, prefix) THEN EntryOf(last[n]) ELSE NoEntry]
          BY <2>3 DEF Scan, ScanNamespaceConfigs
        <5>2. \A n \in FullName : configs'[n].path # p
          BY <4>2, <5>1 DEF Loads, EntryOf, NoEntry
        <5>3. p # Master => FullNameOf(NameOf[p], prefix) \in FullName
          BY <2>t DEF AllOurs, FullNameOf, ShouldManage, MatchesPrefix, FullName, ConfigName, TypeOK
        <5> QED BY <3>1, <4>2, <5>2, <5>3 DEF Shown, ShownOf
      <4> QED BY <4>1, <4>2
    <3>4. View' = [p \in Path |-> Shown(p)']
      BY <3>1, ViewShows
    <3>5. View = [p \in Path |-> IF Ours(p, prefix) THEN files[p] ELSE Absent]
      BY <3>1 DEF View
    <3> QED BY <3>1, <3>3, <3>4, <3>5 DEF M!mirrorVars
  <2>4. CASE Watch \/ WatchFails
    <3>1. UNCHANGED <<files, prefix, configs>> /\ phase # "scan" /\ phase' # "scan"
      BY <2>4 DEF Watch, WatchFails
    <3>2. \A p \in Path : Shown(p)' = Shown(p)
      BY <3>1 DEF Shown, ShownOf
    <3>3. UNCHANGED View
      BY <3>1, <3>2, ViewShows
    <3> QED BY <3>1, <3>3 DEF M!mirrorVars
  <2>5. CASE UNCHANGED <<files, phase, prefix, configs>>
    BY <2>5 DEF M!mirrorVars, View, Ours, Unreadable
  <2> QED BY <2>1, <2>2, <2>3, <2>4, <2>5
     DEF Next, ReadEvent, WindowPasses, Pass, vars
<1> QED BY <1>1, <1>2, MirrorInvariant, PTL DEF Spec, M!Spec
=============================================================================
