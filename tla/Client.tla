------------------------------ MODULE Client ------------------------------
(***************************************************************************)
(* Commands of the segwire command line and the daemon's answers:          *)
(* connection with retries and the time limits of calls (dbus_client.rs),  *)
(* authorization (policykit.rs), the methods as the single main thread of  *)
(* the daemon serves them (dbus_service.rs), and segwire-ns-enter, which   *)
(* takes a command into a namespace that may come and go meanwhile.        *)
(*                                                                         *)
(* The passes of the other threads are reduced to what a method can see of *)
(* them: locks that are held, and namespaces made step by step.            *)
(***************************************************************************)
EXTENDS Integers, Sequences, SequencesExt, FiniteSets

CONSTANTS
  Client,         \* invocations of the command line
  Superuser,      \* those made by root
  Name,           \* names of namespaces, with and without the prefix
  FullName,       \* generate_full_namespace_name
  Configured,     \* full names with a loaded configuration
  WellFormed,     \* names that pass both checks of names
  Scene,          \* what the clients ask for, the clients that stay away, the
                  \* rules of PolicyKit, the helpers, whether the bus is there
                  \* and the daemon has an authorizer, and the events to come
  MaxTries        \* MAX_RETRY_ATTEMPTS

VARIABLES
  wish,      \* the command of each client and the name as it was typed
  client,    \* where each client is, what it was answered, what it holds
  daemon,    \* the service: its queue, the call it serves, the locks
  tracked,   \* status by full name in the state manager
  host,      \* /run/netns: nothing, a file without a namespace, or the number of one
  made,      \* namespaces made so far
  around,    \* the system bus, PolicyKit, its rules and the installed helpers
  events,    \* crashes, removals and additions by others and changes of
             \* PolicyKit still to come, the bound on all of them
  grant,     \* history: path granted to a client, and what was at it since
  done       \* history: what the daemon did for whom

vars == <<wish, client, daemon, tracked, host, made, around, events, grant, done>>
served == <<client, daemon, tracked, host, made, grant, done>>

None == "none"
Absent == -1
Placeholder == 0
TheHosts == Absent
IsNs(thing) == thing > 0
NoCall == [from |-> None, step |-> None, late |-> FALSE]
NoReply == [verdict |-> None, path |-> None]
Places == <<"environment", "sibling", "standard", "search path">>

Method == [exec |-> "exec", restart |-> "delete", status |-> "status",
           list |-> "status", reload |-> "manage"]
Command == DOMAIN Method

ASSUME ClientAssumption ==
  /\ Superuser \subseteq Client /\ WellFormed \subseteq Name
  /\ "none" \notin Client \cup Name
  /\ FullName \in [Name -> Name] /\ \A n \in Name : FullName[FullName[n]] = FullName[n]
  /\ Configured \subseteq {FullName[n] : n \in Name}
  /\ MaxTries \in Nat \ {0}
  /\ Scene \subseteq
       [wish : [Client -> [command : Command, name : Name]], away : SUBSET Client,
        rules : SUBSET (Client \X {Method[m] : m \in Command}),
        helpers : [{Places[i] : i \in DOMAIN Places} -> {"absent", "plain", "setuid"}],
        bus : BOOLEAN, authorizer : BOOLEAN, events : Nat]

ActionOf(c) == Method[wish[c].command]
Typed(c) == wish[c].name
Full(c) == FullName[Typed(c)]
Waiting == {"verify", "probe", "method"}

Caller(c) == IF c \in Superuser THEN "root" ELSE "user"
Ids(real, effective) == [real |-> real, effective |-> effective, saved |-> effective]

TypeOK ==
  /\ wish \in [Client -> [command : Command, name : Name]]
  /\ \A c \in Client :
       /\ client[c].at \in Waiting \cup {"connect", "confirm", "stat", "open", "enter", "drop",
                                         "command", "running", "failing", "exited"}
       /\ client[c].tries \in 0 .. MaxTries
       /\ client[c].path \in Name \cup {None}
       /\ Cardinality({i \in DOMAIN daemon.queue : daemon.queue[i].from = c}) <= 1
       /\ c \in {m.from : m \in ToSet(daemon.queue)} => daemon.serving.from # c
  /\ tracked \in [Name -> {None, "creating", "active"}]
  /\ host \in [Name -> Absent .. made]
  /\ \A m, n \in Name : host[m] = host[n] /\ IsNs(host[m]) => m = n
  /\ ~daemon.up => daemon.queue = <<>> /\ daemon.serving = NoCall /\ ~daemon.busy

Init ==
  \E s \in Scene :
    /\ wish = s.wish
    /\ client = [c \in Client |->
                   [at |-> IF c \in s.away THEN "exited" ELSE "connect", tries |-> 0,
                    reply |-> NoReply, path |-> None, says |-> None, fd |-> Absent,
                    net |-> TheHosts, ids |-> Ids(Caller(c), Caller(c))]]
    /\ daemon = [up |-> s.bus, authorizer |-> s.authorizer, queue |-> <<>>, serving |-> NoCall,
                 busy |-> FALSE, making |-> None]
    /\ around = [bus |-> s.bus, polkit |-> TRUE, rules |-> s.rules, helpers |-> s.helpers]
    /\ tracked = [n \in Name |-> None]
    /\ host = [n \in Name |-> Absent]
    /\ made = 0 /\ events = s.events
    /\ grant = [c \in Client |-> [path |-> None, seen |-> {}]]
    /\ done = {}

-----------------------------------------------------------------------------
(* The command line up to the answer.                                      *)
Exit(c, says) == client' = [client EXCEPT ![c].at = "exited", ![c].says = says]

\* A call to a service that is not there is an error at once.
Ask(c, stage, what) ==
  /\ client' = [client EXCEPT ![c].at = stage,
                  ![c].reply = IF daemon.up THEN NoReply ELSE [NoReply EXCEPT !.verdict = "lost"]]
  /\ daemon' = IF daemon.up THEN [daemon EXCEPT !.queue = Append(@, [from |-> c, what |-> what])]
               ELSE daemon

\* Faulty: the attempts are not counted.
ConnectForever(c) ==
  /\ client[c].at = "connect" /\ around.bus
  /\ Ask(c, "verify", "introspect")
  /\ UNCHANGED <<wish, tracked, host, made, around, events, grant, done>>

Connect(c) ==
  /\ client[c].at = "connect"
  /\ IF around.bus THEN Ask(c, "verify", "introspect")
     ELSE /\ client' = [client EXCEPT ![c].tries = @ + 1,
                          ![c].at = IF client[c].tries + 1 = MaxTries THEN "exited" ELSE @]
          /\ UNCHANGED daemon
  /\ UNCHANGED <<wish, tracked, host, made, around, events, grant, done>>

AskMethod(c) == Ask(c, "method", wish[c].command)

\* is_service_available has answered: each command has its checks.
Proceed(c) ==
  CASE wish[c].command \in {"restart", "status"} /\ Typed(c) \notin WellFormed ->
         Exit(c, "malformed") /\ UNCHANGED daemon
    [] wish[c].command = "restart" /\ Typed(c) \in WellFormed ->
         \/ AskMethod(c)
         \/ client' = [client EXCEPT ![c].at = "confirm"] /\ UNCHANGED daemon
    [] OTHER -> AskMethod(c)

\* Where find_helper_binary looks, in its order.
FindHelper == SelectSeq(Places, LAMBDA p : around.helpers[p] # "absent")

\* exec replaces the process by the helper, which has the ids of its file.
StartHelper(c) ==
  LET found == FindHelper
      setuid == found # <<>> /\ around.helpers[Head(found)] = "setuid" IN
  IF found = <<>> THEN Exit(c, "no helper")
  ELSE client' = [client EXCEPT ![c].at = "stat", ![c].path = client[c].reply.path,
                    ![c].ids = Ids(Caller(c), IF setuid THEN "root" ELSE Caller(c))]

Conclude(c) ==
  /\ IF wish[c].command = "exec" /\ client[c].reply.verdict = "ok" THEN StartHelper(c)
     ELSE Exit(c, client[c].reply.verdict)
  /\ UNCHANGED daemon

Answered(c) ==
  /\ client[c].at \in Waiting /\ client[c].reply # NoReply
  /\ IF client[c].at = "method" THEN Conclude(c)
     ELSE IF client[c].reply.verdict # "ok" THEN Exit(c, "unavailable") /\ UNCHANGED daemon
     ELSE IF client[c].at = "verify" THEN Ask(c, "probe", "introspect")
     ELSE Proceed(c)
  /\ UNCHANGED <<wish, tracked, host, made, around, events, grant, done>>

Confirm(c) ==
  /\ client[c].at = "confirm"
  /\ AskMethod(c) \/ (Exit(c, "cancelled") /\ UNCHANGED daemon)
  /\ UNCHANGED <<wish, tracked, host, made, around, events, grant, done>>

\* METHOD_TIMEOUT or the shorter one of the verification has passed. The
\* call stays where it is, and the bus knows the client until it exits.
Timeout(c) ==
  /\ client[c].at \in Waiting /\ client[c].reply = NoReply
  /\ client' = [client EXCEPT ![c].at = "failing", ![c].says = "timeout"]
  /\ UNCHANGED <<wish, daemon, tracked, host, made, around, events, grant, done>>

GiveUp(c) ==
  /\ client[c].at = "failing"
  /\ client' = [client EXCEPT ![c].at = "exited"]
  /\ UNCHANGED <<wish, daemon, tracked, host, made, around, events, grant, done>>

-----------------------------------------------------------------------------
(* segwire-ns-enter. Any failure ends it with nothing run.                 *)
HelperStep(c, at, next(_)) ==
  /\ client[c].at = at
  /\ client' = [client EXCEPT ![c] = next(@)]
  /\ UNCHANGED <<wish, daemon, tracked, host, made, around, events, grant, done>>

Failing(p) == [p EXCEPT !.at = "exited", !.says = "not run"]

ValidateNsPath(p) == IF host[p.path] = Absent THEN Failing(p) ELSE [p EXCEPT !.at = "open"]

OpenNs(p) ==
  IF host[p.path] = Absent THEN Failing(p)
  ELSE [p EXCEPT !.at = "enter", !.fd = host[p.path]]

\* Faulty: a failure of setns is not noticed.
SetnsAnyhow(p) == [p EXCEPT !.at = "drop", !.net = IF IsNs(p.fd) THEN p.fd ELSE @]

\* A file that no namespace is mounted on is refused; an open one that has
\* been unmounted since is not.
Setns(p) ==
  IF ~IsNs(p.fd) \/ p.ids.effective # "root" THEN Failing(p)
  ELSE [p EXCEPT !.at = "drop", !.net = p.fd]

DropIds(p) == [p EXCEPT !.at = "command", !.ids = Ids(p.ids.real, p.ids.real)]

Enter(c) ==
  \/ HelperStep(c, "stat", ValidateNsPath)
  \/ HelperStep(c, "open", OpenNs)
  \/ HelperStep(c, "enter", Setns)
  \/ HelperStep(c, "drop", DropIds)
  \/ HelperStep(c, "command", LAMBDA p : [p EXCEPT !.at = "running"])
  \/ HelperStep(c, "command", Failing)

-----------------------------------------------------------------------------
(* The daemon's main thread: one call at a time.                           *)
Respond(c, verdict, path) ==
  /\ client' = [client EXCEPT ![c].reply = [verdict |-> verdict, path |-> path]]
  /\ daemon' = [daemon EXCEPT !.serving = NoCall]

Refuse == Respond(daemon.serving.from, "refused", None) /\ UNCHANGED <<tracked, host, made, grant, done>>
Fail == Respond(daemon.serving.from, "failed", None) /\ UNCHANGED <<tracked, host, made, grant, done>>
Succeed(path) == Respond(daemon.serving.from, "ok", path)

Goto(step) ==
  /\ daemon' = [daemon EXCEPT !.serving.step = step]
  /\ UNCHANGED client

Did(what) ==
  done' = done \cup {[from |-> daemon.serving.from, what |-> what, late |-> daemon.serving.late]}

\* What is at a granted path is noted whenever it changes.
Note(n, thing) ==
  /\ host' = [host EXCEPT ![n] = thing]
  /\ grant' = [c \in Client |-> IF grant[c].path = n
                                THEN [grant[c] EXCEPT !.seen = @ \cup {thing}] ELSE grant[c]]

\* Faulty: the call stays in the queue while it is served.
TakeUpAndKeep ==
  LET call == Head(daemon.queue) IN
  /\ daemon.serving = NoCall /\ daemon.queue # <<>>
  /\ IF call.what = "introspect" THEN Respond(call.from, "ok", None)
     ELSE /\ daemon' = [daemon EXCEPT
               !.serving = [from |-> call.from, step |-> "subject", late |-> FALSE]]
          /\ UNCHANGED client
  /\ UNCHANGED <<tracked, host, made, grant, done>>

TakeUp ==
  LET call == Head(daemon.queue) IN
  /\ daemon.serving = NoCall /\ daemon.queue # <<>>
  /\ IF call.what = "introspect" \/ (call.what \in {"exec", "restart", "status"} /\ Typed(call.from) \notin WellFormed)
     THEN /\ client' = [client EXCEPT ![call.from].reply.verdict =
                          IF call.what = "introspect" THEN "ok" ELSE "refused"]
          /\ daemon' = [daemon EXCEPT !.queue = Tail(@)]
     ELSE /\ daemon' = [daemon EXCEPT !.queue = Tail(@),
                          !.serving = [from |-> call.from, step |-> "subject",
                                       late |-> client[call.from].at = "exited"]]
          /\ UNCHANGED client
  /\ UNCHANGED <<tracked, host, made, grant, done>>

\* Faulty: a sender whose process is not known is taken for any other.
UnknownSubject ==
  /\ daemon.serving.step = "subject"
  /\ Goto(IF daemon.authorizer THEN "policy" ELSE "act")
  /\ UNCHANGED <<tracked, host, made, grant, done>>

\* check_authorization without an authorizer accepts; with one it asks the
\* bus for the sender's process, which fails for one that has gone.
Subject ==
  /\ daemon.serving.step = "subject"
  /\ IF ~daemon.authorizer THEN Goto("act") /\ UNCHANGED <<tracked, host, made, grant, done>>
     ELSE IF client[daemon.serving.from].at = "exited" THEN Refuse
     ELSE Goto("policy") /\ UNCHANGED <<tracked, host, made, grant, done>>

\* Faulty: without PolicyKit every caller is authorized.
FallbackToAll(c) == TRUE

UidFallback(c) == c \in Superuser

Policy ==
  LET c == daemon.serving.from IN
  /\ daemon.serving.step = "policy"
  /\ IF (around.polkit /\ <<c, ActionOf(c)>> \in around.rules) \/ (~around.polkit /\ UidFallback(c))
     THEN Goto("act") /\ UNCHANGED <<tracked, host, made, grant, done>> ELSE Refuse

Serving(command, step) ==
  /\ daemon.serving.step = step
  /\ wish[daemon.serving.from].command = command
\* A step under the lock of the configuration or of the state.
Locked(command, step) == Serving(command, step) /\ ~daemon.busy

\* The state by full name, or else by the name as it was typed.
StateOf(c) == IF tracked[Full(c)] # None THEN tracked[Full(c)] ELSE tracked[Typed(c)]

Query ==
  /\ \/ Locked("list", "act") \/ Locked("reload", "act")
     \/ Locked("status", "act") /\ StateOf(daemon.serving.from) # None
  /\ Succeed(None)
  /\ UNCHANGED <<tracked, host, made, grant, done>>

StatusUnknown ==
  Locked("status", "act") /\ StateOf(daemon.serving.from) = None /\ Refuse

\* The directory of the files is not there.
ReloadFails == Locked("reload", "act") /\ Fail

ExecIsActive ==
  /\ Locked("exec", "act")
  /\ IF StateOf(daemon.serving.from) = "active"
     THEN Goto("path") /\ UNCHANGED <<tracked, host, made, grant, done>>
     ELSE Refuse

ExecPath ==
  LET c == daemon.serving.from IN
  /\ Serving("exec", "path")
  /\ IF host[Full(c)] = Absent THEN Refuse
     ELSE /\ Succeed(Full(c)) /\ Did("granted")
          /\ grant' = [grant EXCEPT ![c] = [path |-> Full(c), seen |-> {host[Full(c)]}]]
          /\ UNCHANGED <<tracked, host, made>>

RestartFind ==
  LET c == daemon.serving.from IN
  \/ /\ Locked("restart", "act")
     /\ IF {Full(c), Typed(c)} \cap Configured = {} THEN Fail
        ELSE Goto("find") /\ UNCHANGED <<tracked, host, made, grant, done>>
  \/ /\ Locked("restart", "find")
     /\ IF StateOf(c) = None THEN Fail
        ELSE Goto("delete") /\ UNCHANGED <<tracked, host, made, grant, done>>

RestartDelete ==
  LET c == daemon.serving.from IN
  \/ /\ Serving("restart", "delete") /\ host[Full(c)] # Absent
     /\ Note(Full(c), Absent) /\ Did("deleted") /\ Goto("forget")
     /\ UNCHANGED <<tracked, made>>
  \/ Serving("restart", "delete") /\ Fail
  \/ /\ Locked("restart", "forget")
     /\ tracked' = [tracked EXCEPT ![Full(c)] = None, ![Typed(c)] = None]
     /\ Goto("create")
     /\ UNCHANGED <<host, made, grant, done>>

\* Faulty: a failure to create the namespace anew is only logged.
RestartCreateAnyhow ==
  \/ /\ Serving("restart", "create") /\ host[Full(daemon.serving.from)] = Absent
     /\ Note(Full(daemon.serving.from), Placeholder) /\ Goto("mount")
     /\ UNCHANGED <<tracked, made, done>>
  \/ /\ Serving("restart", "create") /\ Succeed(None)
     /\ UNCHANGED <<tracked, host, made, grant, done>>

RestartCreate ==
  \/ /\ Serving("restart", "create") /\ host[Full(daemon.serving.from)] = Absent
     /\ Note(Full(daemon.serving.from), Placeholder) /\ Goto("mount")
     /\ UNCHANGED <<tracked, made, done>>
  \/ Serving("restart", "create") /\ Fail

RestartMount ==
  LET n == Full(daemon.serving.from) IN
  \/ /\ Serving("restart", "mount")
     /\ made' = made + 1 /\ Note(n, made + 1) /\ Goto("enter")
     /\ UNCHANGED <<tracked, done>>
  \/ /\ Serving("restart", "mount")
     /\ Note(n, Absent) /\ Respond(daemon.serving.from, "failed", None)
     /\ UNCHANGED <<tracked, made, done>>

RestartEnter ==
  /\ Locked("restart", "enter")
  /\ tracked' = [tracked EXCEPT ![Full(daemon.serving.from)] = "creating"]
  /\ Did("recreated") /\ Succeed(None)
  /\ UNCHANGED <<host, made, grant>>

Serve ==
  /\ \/ TakeUp \/ Subject \/ Policy \/ Query \/ StatusUnknown \/ ReloadFails \/ ExecIsActive \/ ExecPath
     \/ RestartFind \/ RestartDelete \/ RestartCreate \/ RestartMount \/ RestartEnter
  /\ UNCHANGED <<wish, around, events>>

-----------------------------------------------------------------------------
(* The passes of the other threads, as far as a method can tell.           *)
BeginPass ==
  /\ daemon.up /\ ~daemon.busy
  /\ daemon' = [daemon EXCEPT !.busy = TRUE]
  /\ UNCHANGED <<client, tracked, host, made, grant, done>>

Adopt(n) ==
  /\ daemon.busy /\ daemon.making = None /\ n \in Configured
  /\ tracked[n] = None /\ host[n] # Absent
  /\ tracked' = [tracked EXCEPT ![n] = "active"]
  /\ UNCHANGED <<client, daemon, host, made, grant, done>>

BeginCreation(n) ==
  /\ daemon.busy /\ daemon.making = None /\ n \in Configured
  /\ tracked[n] = None /\ host[n] = Absent
  /\ tracked' = [tracked EXCEPT ![n] = "creating"]
  /\ daemon' = [daemon EXCEPT !.making = n]
  /\ Note(n, Placeholder)
  /\ UNCHANGED <<client, made, done>>

Mount ==
  /\ daemon.making # None /\ host[daemon.making] = Placeholder
  /\ made' = made + 1 /\ Note(daemon.making, made + 1)
  /\ UNCHANGED <<client, daemon, tracked, done>>

EndCreation ==
  /\ daemon.making # None /\ host[daemon.making] # Placeholder
  /\ tracked' = [tracked EXCEPT ![daemon.making] = "active"]
  /\ daemon' = [daemon EXCEPT !.making = None]
  /\ UNCHANGED <<client, host, made, grant, done>>

EndPass ==
  /\ daemon.busy /\ daemon.making = None
  /\ daemon' = [daemon EXCEPT !.busy = FALSE]
  /\ UNCHANGED <<client, tracked, host, made, grant, done>>

Pass ==
  /\ BeginPass \/ Mount \/ EndCreation \/ EndPass \/ \E n \in Name : Adopt(n) \/ BeginCreation(n)
  /\ UNCHANGED <<wish, around, events>>

-----------------------------------------------------------------------------
(* The system around them.                                                 *)
\* The bus tells those who wait for an answer that there will be none.
Crash ==
  /\ daemon.up
  /\ daemon' = [daemon EXCEPT !.up = FALSE, !.queue = <<>>, !.serving = NoCall,
                              !.busy = FALSE, !.making = None]
  /\ client' = [c \in Client |->
                  IF client[c].at \in Waiting /\ client[c].reply = NoReply
                  THEN [client[c] EXCEPT !.reply.verdict = "lost"] ELSE client[c]]
  /\ tracked' = [n \in Name |-> None]
  /\ UNCHANGED <<host, made, around, grant, done>>

PolicyKit ==
  /\ around' = [around EXCEPT !.polkit = ~@]
  /\ UNCHANGED served

IpNetnsDelete(n) ==
  /\ IsNs(host[n]) /\ Note(n, Absent)
  /\ UNCHANGED <<client, daemon, tracked, made, around, done>>

IpNetnsAdd(n) ==
  /\ host[n] = Absent /\ made' = made + 1 /\ Note(n, made + 1)
  /\ UNCHANGED <<client, daemon, tracked, around, done>>

Event ==
  /\ events > 0 /\ events' = events - 1
  /\ Crash \/ PolicyKit \/ \E n \in Name : IpNetnsDelete(n) \/ IpNetnsAdd(n)
  /\ UNCHANGED wish

Start ==
  /\ ~daemon.up
  /\ around' = [around EXCEPT !.bus = TRUE]
  /\ daemon' = [daemon EXCEPT !.up = around.bus]
  /\ UNCHANGED <<wish, client, tracked, host, made, events, grant, done>>

RunCommand(c) == Connect(c) \/ Answered(c) \/ Timeout(c) \/ GiveUp(c) \/ Enter(c)

Next ==
  \/ \E c \in Client : RunCommand(c) \/ Confirm(c)
  \/ Serve \/ Pass \/ Event \/ Start

Spec == Init /\ [][Next]_vars

\* The client runs and its time limits pass, whatever the daemon does.
FairSpec == Spec /\ \A c \in Client : WF_vars(RunCommand(c))

-----------------------------------------------------------------------------
(* A command runs only in a namespace that was at the granted path at some *)
(* moment since the grant, never in the host's, and with the caller's ids  *)
(* alone, though the namespace may go at any step (segwire-ns-enter).      *)
RunsWhereGranted ==
  \A c \in Client : client[c].at = "running" =>
    /\ IsNs(client[c].net) /\ client[c].net \in grant[c].seen
    /\ client[c].path = grant[c].path
    /\ client[c].ids = Ids(Caller(c), Caller(c))

(* With an authorizer, nothing is granted, deleted or made for a caller    *)
(* other than root whom the rules do not allow the action, PolicyKit there *)
(* or not (check_authorization, uid_fallback).                             *)
OnlyPermitted ==
  daemon.authorizer =>
    \A d \in done : d.from \in Superuser \/ <<d.from, ActionOf(d.from)>> \in around.rules

(* With an authorizer, a call that is taken up only when its client has    *)
(* timed out and exited changes nothing (get_sender_process_info).         *)
OverdueChangesNothing ==
  daemon.authorizer => \A d \in done : ~d.late

(* What a restart reports is what happened: success only when the          *)
(* namespace was deleted and made anew, a refusal only when nothing was    *)
(* done, failure only when it was not made anew (RestartNamespace).        *)
VerdictIsTrue ==
  \A c \in Client :
    LET did == {d.what : d \in {d \in done : d.from = c}} IN
    wish[c].command = "restart" =>
      /\ client[c].says = "ok" => did = {"deleted", "recreated"}
      /\ client[c].says = "refused" => did = {}
      /\ client[c].says = "failed" => "recreated" \notin did

(* Every command ends, or runs what it was asked to run, unless it waits   *)
(* for the user: three attempts, and time limits on calls                  *)
(* (connect_with_retry, METHOD_TIMEOUT).                                   *)
CommandEnds ==
  \A c \in Client : client[c].at # "confirm" ~> client[c].at \in {"exited", "running", "confirm"}
=============================================================================
