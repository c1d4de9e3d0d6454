---------------------------- MODULE Client_proofs ----------------------------
(***************************************************************************)
(* Proofs about Client: commands run only in namespaces that were granted, *)
(* only permitted and timely calls change anything, and verdicts are true, *)
(* for any number of clients, names, scenes and events.                    *)
(***************************************************************************)
EXTENDS Client, FiniteSetTheorems, TLAPS

Entering == {"stat", "open", "enter", "drop", "command", "running"}
User == {"root", "user"}
Verdict == {None, "ok", "refused", "failed", "lost"}
Process ==
  [at : Waiting \cup {"connect", "confirm", "failing", "exited"} \cup Entering,
   tries : 0 .. MaxTries, reply : [verdict : Verdict, path : Name \cup {None}],
   path : Name \cup {None},
   says : Verdict \cup {"unavailable", "malformed", "cancelled", "no helper", "timeout", "not run"},
   fd : Int, net : Int, ids : [real : User, effective : User, saved : User]]

Early == {"subject", "policy", "act", "path", "find", "delete"}
Late == {"forget", "create", "mount", "enter"}
Call == [from : Client, what : Command \cup {"introspect"}]
Served == [from : Client \cup {None}, step : Early \cup Late \cup {None}, late : BOOLEAN]
Deed == [from : Client, what : {"granted", "deleted", "recreated"}, late : BOOLEAN]

Rules == SUBSET (Client \X {Method[m] : m \in Command})
Helpers == [{Places[i] : i \in DOMAIN Places} -> {"absent", "plain", "setuid"}]

(* What is in each variable.                                               *)
Shape ==
  /\ wish \in [Client -> [command : Command, name : Name]]
  /\ client \in [Client -> Process]
  /\ daemon \in [up : BOOLEAN, authorizer : BOOLEAN, queue : Seq(Call), serving : Served,
                 busy : BOOLEAN, making : Name \cup {None}]
  /\ tracked \in [Name -> {None, "creating", "active"}]
  /\ made \in Nat /\ host \in [Name -> Absent .. made]
  /\ around \in [bus : BOOLEAN, polkit : BOOLEAN, rules : Rules, helpers : Helpers]
  /\ grant \in [Client -> [path : Name \cup {None}, seen : SUBSET Int]]
  /\ done \in SUBSET Deed

(* A namespace is at one path, and a daemon that is down does nothing.     *)
OnePath == \A m, n \in Name : host[m] = host[n] /\ IsNs(host[m]) => m = n

DownIsIdle ==
  (daemon.serving.step = None <=> daemon.serving = NoCall)
  /\ (~daemon.up => daemon.queue = <<>> /\ daemon.serving = NoCall /\ ~daemon.busy)

(* A client has one call at a time.                                        *)
OneCall(queue, from) ==
  /\ \A i, j \in DOMAIN queue : queue[i].from = queue[j].from => i = j
  /\ \A i \in DOMAIN queue : queue[i].from # from

Calls(queue, from) == {queue[i].from : i \in DOMAIN queue} \cup {from}

(* What was done for a client.                                             *)
Mine(deeds, c) == {d.what : d \in {d \in deeds : d.from = c}}

TellsOf(verdict, did) ==
  /\ verdict = "ok" => did = {"deleted", "recreated"}
  /\ verdict = "refused" => did = {}
  /\ verdict = "failed" => "recreated" \notin did

(* A client: w is its wish, p its process, g what it was granted, did what *)
(* was done for it, and calls the clients whose calls are under way.        *)
ClientOk(c, w, p, g, did, calls, things) ==
  /\ p.at = "connect" => p.tries < MaxTries
  /\ p.ids.real = Caller(c)
  /\ c \in calls => \/ p.at \in Waiting /\ p.reply = NoReply
                    \/ p.at \in {"failing", "exited"} /\ p.says = "timeout"
  /\ p.at \in {"connect", "verify", "probe", "confirm"} => did = {}
  /\ p.at # "exited" => p.says \in {None, "timeout"}
  /\ w.command = "restart" => /\ TellsOf(p.says, did)
                              /\ p.at = "method" => TellsOf(p.reply.verdict, did)
  /\ g.path # None => things[g.path] \in g.seen
  /\ w.command = "exec" /\ p.at = "method" /\ p.reply.verdict = "ok" => g.path # None /\ p.reply.path = g.path
  /\ p.at \in Entering => g.path # None /\ p.path = g.path
  /\ p.at = "enter" => p.fd \in g.seen
  /\ p.at \in {"drop", "command", "running"} => IsNs(p.net) /\ p.net \in g.seen
  /\ p.at \in {"command", "running"} => p.ids = Ids(Caller(c), Caller(c))

(* A call in the queue is the one its client waits for, or no longer does. *)
QueuedOk(m, w, p, did) ==
  /\ did = {}
  /\ m.what = "introspect" => p.at \in {"verify", "probe", "failing", "exited"}
  /\ m.what # "introspect" => m.what = w.command /\ p.at \in {"method", "failing", "exited"}

(* The call that is served: checked before it acts, and what it has done.  *)
ServedOk(s, w, p, did) ==
  /\ p.at \in {"method", "failing", "exited"}
  /\ s.late => p.at = "exited"
  /\ s.step = "path" => w.command = "exec"
  /\ s.step \in {"find", "delete"} \cup Late => w.command = "restart"
  /\ s.step \in Early => did = {}
  /\ s.step \in Late => did = {"deleted"}

Permitted(c) == c \in Superuser \/ <<c, ActionOf(c)>> \in around.rules

CheckedOk ==
  daemon.authorizer =>
    /\ daemon.serving.step \notin {None, "subject"} => ~daemon.serving.late
    /\ daemon.serving.step \notin {None, "subject", "policy"} => Permitted(daemon.serving.from)
    /\ \A d \in done : ~d.late /\ Permitted(d.from)

ClientsOk ==
  \A c \in Client :
    ClientOk(c, wish[c], client[c], grant[c], Mine(done, c),
             Calls(daemon.queue, daemon.serving.from), host)

CallsOk ==
  /\ OneCall(daemon.queue, daemon.serving.from)
  /\ \A i \in DOMAIN daemon.queue :
       LET m == daemon.queue[i] IN QueuedOk(m, wish[m.from], client[m.from], Mine(done, m.from))
  /\ daemon.serving.step # None =>
       LET c == daemon.serving.from IN
       c \in Client /\ ServedOk(daemon.serving, wish[c], client[c], Mine(done, c))

Inv == Shape /\ OnePath /\ DownIsIdle /\ ClientsOk /\ CallsOk /\ CheckedOk

-----------------------------------------------------------------------------
(* Facts about commands, queues and deeds.                                 *)

\* The commands are known, and no method is called "introspect".
(* The commands of a client, listed.                                       *)
LEMMA Commands == Command = {"exec", "restart", "status", "list", "reload"}
BY DEF Command, Method

\* The queue after a call was added to it.
(* A call joins the queue at its end.                                      *)
LEMMA Added ==
  ASSUME NEW q \in Seq(Call), NEW m \in Call
  PROVE  /\ Append(q, m) \in Seq(Call)
         /\ DOMAIN Append(q, m) = DOMAIN q \cup {Len(q) + 1}
         /\ Len(q) + 1 \notin DOMAIN q
         /\ \A i \in DOMAIN q : Append(q, m)[i] = q[i]
         /\ Append(q, m)[Len(q) + 1] = m
OBVIOUS

\* The queue without its head.
(* A call leaves the queue at its head; the others move up.                *)
LEMMA Dequeued ==
  ASSUME NEW q \in Seq(Call), q # <<>>
  PROVE  /\ Head(q) = q[1] /\ Head(q) \in Call /\ 1 \in DOMAIN q
         /\ Tail(q) \in Seq(Call)
         /\ \A i \in DOMAIN Tail(q) : i + 1 \in DOMAIN q /\ i + 1 # 1 /\ Tail(q)[i] = q[i + 1]
         /\ \A i, j \in DOMAIN Tail(q) : i + 1 = j + 1 => i = j
OBVIOUS

\* What was done for a client after one more deed.
(* A deed counts for the client it was done for.                           *)
LEMMA MineGrows ==
  ASSUME NEW deeds, NEW deed, NEW c
  PROVE  Mine(deeds \cup {deed}, c) = IF deed.from = c THEN Mine(deeds, c) \cup {deed.what} ELSE Mine(deeds, c)
BY DEF Mine

-----------------------------------------------------------------------------
(* Facts about one client, whatever the state around it.                   *)

\* What is at a granted path may change, if it is noted.
(* What a client has behind it stays true when its grant is only added to  *)
(* and no call of its own appears.                                         *)
LEMMA ClientKept ==
  ASSUME NEW c, NEW w, NEW p, NEW g, NEW did, NEW calls, NEW things,
         NEW g2, NEW calls2, NEW things2,
         ClientOk(c, w, p, g, did, calls, things),
         g2.path = g.path, g.seen \subseteq g2.seen,
         g2.path # None => things2[g2.path] \in g2.seen,
         c \in calls2 => c \in calls
  PROVE  ClientOk(c, w, p, g2, did, calls2, things2)
BY DEF ClientOk

\* One whose call is served does not see what is done for it, nor its grant.
(* A client whose call is under way waits for it or has timed out: what    *)
(* the call does changes nothing else it has behind it.                    *)
LEMMA ClientServed ==
  ASSUME NEW c, NEW w, NEW p, NEW g, NEW did, NEW calls, NEW things,
         NEW g2, NEW did2, NEW calls2, NEW things2,
         ClientOk(c, w, p, g, did, calls, things), c \in calls,
         p.at \in {"method", "failing", "exited"},
         g2.path # None => things2[g2.path] \in g2.seen
  PROVE  ClientOk(c, w, p, g2, did2, calls2, things2)
BY DEF ClientOk, Entering, TellsOf, NoReply, None, Waiting

\* One that is answered is told the truth.
(* An answer that tells what was done, and a grant of the path it names,   *)
(* leaves its client as it should be.                                      *)
LEMMA ClientAnswered ==
  ASSUME NEW c, NEW w, NEW p \in Process, NEW g, NEW did, NEW calls, NEW things,
         NEW r, NEW g2, NEW did2, NEW calls2, NEW things2,
         ClientOk(c, w, p, g, did, calls, things), c \in calls, c \notin calls2,
         p.at \in {"method", "failing", "exited"},
         g2.path # None => things2[g2.path] \in g2.seen,
         w.command = "restart" => TellsOf(r.verdict, did2),
         w.command = "exec" /\ r.verdict = "ok" => g2.path # None /\ r.path = g2.path
  PROVE  ClientOk(c, w, [p EXCEPT !.reply = r], g2, did2, calls2, things2)
<1> DEFINE q == [p EXCEPT !.reply = r]
<1>1. q.at = p.at /\ q.tries = p.tries /\ q.says = p.says /\ q.reply = r /\ q.ids = p.ids
  BY DEF Process
<1>2. p.says = "timeout" \/ p.says = None
  BY DEF ClientOk, None, Waiting
<1> HIDE DEF q
<1>3. ClientOk(c, w, q, g2, did2, calls2, things2)
  BY <1>1, <1>2 DEF ClientOk, Entering, TellsOf, None
<1> QED BY <1>3 DEF q

-----------------------------------------------------------------------------
(* The parts of the invariant after a step, from what each of them says.   *)

(* The three parts of the invariant, from what they say of each client,    *)
(* each call and each deed.                                                *)
LEMMA ClientsRebuilt ==
  ASSUME \A d \in Client :
           ClientOk(d, wish'[d], client'[d], grant'[d], Mine(done', d),
                    Calls(daemon'.queue, daemon'.serving.from), host')
  PROVE  ClientsOk'
BY DEF ClientsOk, ClientOk, TellsOf, Mine, Calls

(* Each client has one call at most, and each call has its client behind   *)
(* it.                                                                     *)
LEMMA CallsRebuilt ==
  ASSUME OneCall(daemon'.queue, daemon'.serving.from),
         \A i \in DOMAIN daemon'.queue :
           QueuedOk(daemon'.queue[i], wish'[daemon'.queue[i].from], client'[daemon'.queue[i].from],
                    Mine(done', daemon'.queue[i].from)),
         daemon'.serving.step # None =>
           /\ daemon'.serving.from \in Client
           /\ ServedOk(daemon'.serving, wish'[daemon'.serving.from], client'[daemon'.serving.from],
                       Mine(done', daemon'.serving.from))
  PROVE  CallsOk'
BY DEF CallsOk, OneCall, QueuedOk, ServedOk, Mine

\* A check holds while neither the commands nor the rules change.
(* What is past the checks has passed them.                                *)
LEMMA CheckedRebuilt ==
  ASSUME wish' = wish, around'.rules = around.rules,
         daemon'.authorizer =>
           /\ daemon'.serving.step \notin {None, "subject"} => ~daemon'.serving.late
           /\ daemon'.serving.step \notin {None, "subject", "policy"} => Permitted(daemon'.serving.from)
           /\ \A d \in done' : ~d.late /\ Permitted(d.from)
  PROVE  CheckedOk'
BY DEF CheckedOk, Permitted, ActionOf

(* What is at a granted path is among what was seen there.                 *)
Kept(g, g2, things) ==
  /\ g2.path = g.path /\ g.seen \subseteq g2.seen
  /\ g2.path # None => things[g2.path] \in g2.seen

GrantsKept == \A c \in Client : Kept(grant[c], grant'[c], host')

(* Nothing new at any path leaves every grant as it is.                    *)
LEMMA StillKept ==
  ASSUME ClientsOk, grant' = grant, host' = host
  PROVE  GrantsKept
BY DEF ClientsOk, ClientOk, GrantsKept, Kept

(* What becomes of a path is noted in every grant of it; a namespace       *)
(* stays at one path.                                                      *)
LEMMA NoteKeeps ==
  ASSUME Shape, OnePath, ClientsOk, NEW n \in Name, NEW thing, Note(n, thing),
         \/ made' = made /\ thing \in {Absent, Placeholder}
         \/ made' = made + 1 /\ thing = made + 1
  PROVE  /\ GrantsKept /\ OnePath'
         /\ made' \in Nat /\ host' \in [Name -> Absent .. made']
         /\ grant' \in [Client -> [path : Name \cup {None}, seen : SUBSET Int]]
<1>1. made \in Nat /\ host \in [Name -> Absent .. made]
  BY DEF Shape
<1>2. made' \in Nat /\ made <= made' /\ thing \in Absent .. made' /\ thing \in Int
  BY <1>1 DEF Absent, Placeholder
<1>3. host' = [host EXCEPT ![n] = thing]
  BY DEF Note
<1>4. host' \in [Name -> Absent .. made']
  BY <1>1, <1>2, <1>3 DEF Absent
<1>5. grant \in [Client -> [path : Name \cup {None}, seen : SUBSET Int]]
  BY DEF Shape
<1>6. grant' = [c \in Client |-> IF grant[c].path = n
                                 THEN [grant[c] EXCEPT !.seen = @ \cup {thing}] ELSE grant[c]]
  BY DEF Note
<1>7. \A c \in Client :
        /\ grant'[c] \in [path : Name \cup {None}, seen : SUBSET Int]
        /\ Kept(grant[c], grant'[c], host')
  <2> SUFFICES ASSUME NEW c \in Client
               PROVE  /\ grant'[c] \in [path : Name \cup {None}, seen : SUBSET Int]
                      /\ Kept(grant[c], grant'[c], host')
    OBVIOUS
  <2>1. grant[c] \in [path : Name \cup {None}, seen : SUBSET Int]
    BY <1>5
  <2>2. grant[c].path # None => host[grant[c].path] \in grant[c].seen
    BY DEF ClientsOk, ClientOk
  <2>3. CASE grant[c].path = n
    <3>1. grant'[c] = [grant[c] EXCEPT !.seen = @ \cup {thing}]
      BY <1>6, <2>3
    <3>2. grant'[c].path = n /\ grant'[c].seen = grant[c].seen \cup {thing}
      BY <3>1, <2>1, <2>3
    <3>3. host'[n] = thing
      BY <1>3, <1>1
    <3>4. grant'[c] \in [path : Name \cup {None}, seen : SUBSET Int]
      BY <3>1, <2>1, <1>2
    <3> QED BY <3>2, <3>3, <3>4, <2>3 DEF Kept
  <2>4. CASE grant[c].path # n
    <3>1. grant'[c] = grant[c]
      BY <1>6, <2>4
    <3>2. grant[c].path # None => host'[grant[c].path] = host[grant[c].path]
      BY <1>3, <1>1, <2>1, <2>4
    <3> QED BY <3>1, <3>2, <2>1, <2>2 DEF Kept
  <2> QED BY <2>3, <2>4
<1>8. GrantsKept
  BY <1>7 DEF GrantsKept
<1>9. grant' \in [Client -> [path : Name \cup {None}, seen : SUBSET Int]]
  <2>1. \A c \in Client : grant'[c] \in [path : Name \cup {None}, seen : SUBSET Int]
    BY <1>7
  <2> QED BY ONLY <2>1, <1>6
<1>10. OnePath'
  <2> SUFFICES ASSUME NEW k \in Name, NEW l \in Name, host'[k] = host'[l], IsNs(host'[k])
               PROVE  k = l
    BY DEF OnePath, IsNs
  <2>1. \A x \in Name : host[x] \in Int /\ host[x] <= made /\ host'[x] = IF x = n THEN thing ELSE host[x]
    BY <1>1, <1>3 DEF Absent
  <2>2. thing > 0 => thing = made + 1
    BY DEF Absent, Placeholder
  <2>3. host[k] = host[l] /\ host[k] > 0 => k = l
    BY DEF OnePath, IsNs
  <2>4. host'[k] > 0
    BY DEF IsNs
  <2> QED BY <2>1, <2>2, <2>3, <2>4, <1>1
<1> QED BY <1>2, <1>4, <1>8, <1>9, <1>10

-----------------------------------------------------------------------------
(* A step of the world around the clients and their calls.                 *)
LEMMA WorldStep ==
  ASSUME Inv, Shape', OnePath', DownIsIdle', GrantsKept,
         wish' = wish, client' = client, done' = done, around'.rules = around.rules,
         daemon'.queue = daemon.queue, daemon'.serving = daemon.serving,
         daemon'.authorizer = daemon.authorizer
  PROVE  Inv'
<1>1. ClientsOk'
  <2> SUFFICES ASSUME NEW d \in Client
               PROVE  ClientOk(d, wish[d], client[d], grant'[d], Mine(done, d),
                               Calls(daemon.queue, daemon.serving.from), host')
    BY ClientsRebuilt
  <2>1. ClientOk(d, wish[d], client[d], grant[d], Mine(done, d),
                 Calls(daemon.queue, daemon.serving.from), host)
    BY DEF Inv, ClientsOk
  <2>2. /\ grant'[d].path = grant[d].path /\ grant[d].seen \subseteq grant'[d].seen
        /\ grant'[d].path # None => host'[grant'[d].path] \in grant'[d].seen
    BY DEF GrantsKept, Kept
  <2> QED BY ONLY <2>1, <2>2, ClientKept
<1>2. CallsOk'
  BY CallsRebuilt DEF Inv, CallsOk
<1>3. CheckedOk'
  BY CheckedRebuilt DEF Inv, CheckedOk
<1> QED BY <1>1, <1>2, <1>3 DEF Inv

-----------------------------------------------------------------------------
(* The steps of a call that is served.                                     *)

\* Who calls is a client.
(* Who is in the queue is a client.                                        *)
LEMMA Callers ==
  ASSUME Shape
  PROVE  /\ daemon.queue \in Seq(Call)
         /\ \A i \in DOMAIN daemon.queue : daemon.queue[i] \in Call /\ daemon.queue[i].from \in Client
<1>1. daemon.queue \in Seq(Call)
  BY DEF Shape
<1>2. ASSUME NEW q \in Seq(Call), NEW i \in DOMAIN q
      PROVE  q[i] \in Call /\ q[i].from \in Client
  <2>1. q[i] \in Call
    OBVIOUS
  <2> QED BY <2>1 DEF Call
<1> QED BY <1>1, <1>2

\* What is done, is done by a call that has been checked.
DeedsGrow ==
  \/ done' = done
  \/ /\ daemon.serving.step \notin {"subject", "policy"}
     /\ \E what \in {"granted", "deleted", "recreated"} : Did(what)

(* Who is served is a client that waits for its answer or has timed out.   *)
LEMMA ServedCaller ==
  ASSUME Inv, daemon.serving.step # None
  PROVE  /\ daemon.serving.from \in Client /\ daemon.serving.from # None
         /\ daemon.up /\ daemon.serving \in Served /\ daemon.serving.step \in Early \cup Late
         /\ client[daemon.serving.from] \in Process
         /\ daemon.serving.from \in Calls(daemon.queue, daemon.serving.from)
         /\ client[daemon.serving.from].at \in {"method", "failing", "exited"}
BY ClientAssumption DEF Inv, CallsOk, ServedOk, DownIsIdle, Shape, Served, Calls, None, NoCall

(* Deeds are done for the client that is served, and only if it was        *)
(* permitted and in time.                                                  *)
LEMMA DeedsOk ==
  ASSUME Inv, daemon.serving.step # None, DeedsGrow
  PROVE  /\ done' \in SUBSET Deed
         /\ \A d \in Client \ {daemon.serving.from} : Mine(done', d) = Mine(done, d)
         /\ daemon.authorizer => \A e \in done' : ~e.late /\ Permitted(e.from)
<1>1. daemon.serving.from \in Client /\ daemon.serving \in Served
  BY ServedCaller
<1>2. done \in SUBSET Deed
  BY DEF Inv, Shape
<1>3. CASE done' = done
  BY <1>2, <1>3 DEF Inv, CheckedOk
<1>4. ASSUME daemon.serving.step \notin {"subject", "policy"},
             NEW what \in {"granted", "deleted", "recreated"}, Did(what)
      PROVE  /\ done' \in SUBSET Deed
             /\ \A d \in Client \ {daemon.serving.from} : Mine(done', d) = Mine(done, d)
             /\ daemon.authorizer => \A e \in done' : ~e.late /\ Permitted(e.from)
  <2> DEFINE deed == [from |-> daemon.serving.from, what |-> what, late |-> daemon.serving.late]
  <2>1. done' = done \cup {deed}
    BY <1>4 DEF Did
  <2>2. deed \in Deed /\ deed.from = daemon.serving.from /\ deed.late = daemon.serving.late
    BY <1>1 DEF Deed, Served
  <2>3. daemon.authorizer => ~daemon.serving.late /\ Permitted(daemon.serving.from)
                             /\ \A e \in done : ~e.late /\ Permitted(e.from)
    BY <1>4 DEF Inv, CheckedOk
  <2> HIDE DEF deed
  <2>4. \A d \in Client \ {daemon.serving.from} : Mine(done \cup {deed}, d) = Mine(done, d)
    <3> SUFFICES ASSUME NEW d \in Client \ {daemon.serving.from}
                 PROVE  Mine(done \cup {deed}, d) = Mine(done, d)
      OBVIOUS
    <3>1. Mine(done \cup {deed}, d) = IF deed.from = d THEN Mine(done, d) \cup {deed.what} ELSE Mine(done, d)
      BY MineGrows
    <3> QED BY <3>1, <2>2
  <2> QED BY <1>2, <2>1, <2>2, <2>3, <2>4
<1> QED BY <1>3, <1>4 DEF DeedsGrow

\* The other clients and their calls do not notice.
(* What is done for the client that is served changes nothing for the      *)
(* others and their calls.                                                 *)
LEMMA ServeOthers ==
  ASSUME Inv, daemon.serving.step # None, DeedsGrow, wish' = wish,
         daemon'.queue = daemon.queue,
         daemon'.serving.from \in {daemon.serving.from, None},
         \A d \in Client \ {daemon.serving.from} :
           client'[d] = client[d] /\ Kept(grant[d], grant'[d], host')
  PROVE  /\ \A d \in Client \ {daemon.serving.from} :
              ClientOk(d, wish'[d], client'[d], grant'[d], Mine(done', d),
                       Calls(daemon'.queue, daemon'.serving.from), host')
         /\ OneCall(daemon'.queue, daemon'.serving.from)
         /\ \A i \in DOMAIN daemon'.queue :
              QueuedOk(daemon'.queue[i], wish'[daemon'.queue[i].from], client'[daemon'.queue[i].from],
                       Mine(done', daemon'.queue[i].from))
<1>1. \A i \in DOMAIN daemon.queue : daemon.queue[i].from \in Client
  BY Callers DEF Inv
<1>2. None \notin Client
  BY ClientAssumption DEF None
<1>3. OneCall(daemon.queue, daemon.serving.from)
  BY DEF Inv, CallsOk
<1>4. OneCall(daemon'.queue, daemon'.serving.from)
  BY <1>1, <1>2, <1>3 DEF OneCall
<1>5. ASSUME NEW d \in Client \ {daemon.serving.from}
      PROVE  ClientOk(d, wish'[d], client'[d], grant'[d], Mine(done', d),
                      Calls(daemon'.queue, daemon'.serving.from), host')
  <2>1. ClientOk(d, wish[d], client[d], grant[d], Mine(done, d),
                 Calls(daemon.queue, daemon.serving.from), host)
    BY DEF Inv, ClientsOk
  <2>2. /\ grant'[d].path = grant[d].path /\ grant[d].seen \subseteq grant'[d].seen
        /\ grant'[d].path # None => host'[grant'[d].path] \in grant'[d].seen
    BY DEF Kept
  <2>3. d \in Calls(daemon'.queue, daemon'.serving.from) => d \in Calls(daemon.queue, daemon.serving.from)
    BY <1>2 DEF Calls
  <2>4. ClientOk(d, wish[d], client[d], grant'[d], Mine(done, d),
                 Calls(daemon'.queue, daemon'.serving.from), host')
    BY ONLY <2>1, <2>2, <2>3, ClientKept
  <2> QED BY <2>4, DeedsOk
<1>6. ASSUME NEW i \in DOMAIN daemon.queue
      PROVE  QueuedOk(daemon.queue[i], wish'[daemon.queue[i].from], client'[daemon.queue[i].from],
                      Mine(done', daemon.queue[i].from))
  <2>1. daemon.queue[i].from \in Client \ {daemon.serving.from}
    BY <1>1, <1>3 DEF OneCall
  <2>2. QueuedOk(daemon.queue[i], wish[daemon.queue[i].from], client[daemon.queue[i].from],
                 Mine(done, daemon.queue[i].from))
    BY DEF Inv, CallsOk
  <2> QED BY <2>1, <2>2, DeedsOk
<1> QED BY <1>4, <1>5, <1>6

\* The call goes on.
(* A call that goes on to its next step in the daemon.                     *)
LEMMA GotoStep ==
  ASSUME Inv, daemon.serving.step # None, DeedsGrow, GrantsKept, OnePath',
         tracked' \in [Name -> {None, "creating", "active"}],
         made' \in Nat, host' \in [Name -> Absent .. made'],
         grant' \in [Client -> [path : Name \cup {None}, seen : SUBSET Int]],
         UNCHANGED <<wish, around>>, NEW step \in Early \cup Late, Goto(step),
         ServedOk(daemon'.serving, wish[daemon.serving.from], client[daemon.serving.from],
                  Mine(done', daemon.serving.from)),
         daemon.authorizer =>
           /\ step # "subject" => ~daemon.serving.late
           /\ step \notin {"subject", "policy"} => Permitted(daemon.serving.from)
  PROVE  Inv'
<1> DEFINE c == daemon.serving.from
<1>1. /\ c \in Client /\ c # None /\ daemon.up /\ daemon.serving \in Served
      /\ client[c] \in Process /\ c \in Calls(daemon.queue, c)
      /\ client[c].at \in {"method", "failing", "exited"}
  BY ServedCaller
<1>2. daemon \in [up : BOOLEAN, authorizer : BOOLEAN, queue : Seq(Call), serving : Served,
                  busy : BOOLEAN, making : Name \cup {None}]
  BY DEF Inv, Shape
<1>3. /\ daemon' = [daemon EXCEPT !.serving.step = step] /\ client' = client
  BY DEF Goto
<1>4. /\ daemon'.queue = daemon.queue /\ daemon'.serving.from = c /\ daemon'.serving.step = step
      /\ daemon'.serving.late = daemon.serving.late /\ daemon'.up = daemon.up
      /\ daemon'.authorizer = daemon.authorizer
  BY <1>1, <1>2, <1>3 DEF Served
<1>5. daemon' \in [up : BOOLEAN, authorizer : BOOLEAN, queue : Seq(Call), serving : Served,
                   busy : BOOLEAN, making : Name \cup {None}]
  BY <1>1, <1>2, <1>3 DEF Served
<1>6. Shape'
  BY <1>3, <1>5, DeedsOk DEF Shape, Inv
<1>7. DownIsIdle'
  BY <1>1, <1>4 DEF DownIsIdle, NoCall, Early, Late, None
<1>8. \A d \in Client : Kept(grant[d], grant'[d], host')
  BY DEF GrantsKept
<1>9. /\ \A d \in Client \ {c} :
           ClientOk(d, wish'[d], client'[d], grant'[d], Mine(done', d),
                    Calls(daemon'.queue, daemon'.serving.from), host')
      /\ OneCall(daemon'.queue, daemon'.serving.from)
      /\ \A i \in DOMAIN daemon'.queue :
           QueuedOk(daemon'.queue[i], wish'[daemon'.queue[i].from], client'[daemon'.queue[i].from],
                    Mine(done', daemon'.queue[i].from))
  BY <1>3, <1>4, <1>8, ServeOthers
<1>10. ClientOk(c, wish'[c], client'[c], grant'[c], Mine(done', c),
                Calls(daemon'.queue, daemon'.serving.from), host')
  <2>1. ClientOk(c, wish[c], client[c], grant[c], Mine(done, c), Calls(daemon.queue, c), host)
    BY <1>1 DEF Inv, ClientsOk
  <2>2. grant'[c].path # None => host'[grant'[c].path] \in grant'[c].seen
    BY <1>1, <1>8 DEF Kept
  <2>3. wish' = wish /\ client' = client /\ daemon'.queue = daemon.queue /\ daemon'.serving.from = c
    BY <1>3, <1>4
  <2>4. ClientOk(c, wish[c], client[c], grant'[c], Mine(done', c), Calls(daemon.queue, c), host')
    BY ONLY <2>1, <2>2, <1>1, ClientServed
  <2> QED BY ONLY <2>3, <2>4
<1>11. ClientsOk'
  BY <1>9, <1>10, ClientsRebuilt
<1>12. CallsOk'
  BY <1>1, <1>3, <1>4, <1>9, CallsRebuilt
<1>13. CheckedOk'
  BY <1>4, DeedsOk, CheckedRebuilt
<1> QED BY <1>6, <1>7, <1>11, <1>12, <1>13 DEF Inv

\* The call is answered, truly.
(* A call that ends with an answer.                                        *)
LEMMA RespondStep ==
  ASSUME Inv, daemon.serving.step # None, DeedsGrow, OnePath',
         tracked' \in [Name -> {None, "creating", "active"}],
         made' \in Nat, host' \in [Name -> Absent .. made'],
         grant' \in [Client -> [path : Name \cup {None}, seen : SUBSET Int]],
         UNCHANGED <<wish, around>>,
         NEW verdict \in Verdict, NEW path \in Name \cup {None},
         Respond(daemon.serving.from, verdict, path),
         \A d \in Client \ {daemon.serving.from} : Kept(grant[d], grant'[d], host'),
         LET c == daemon.serving.from IN
           /\ grant'[c].path # None => host'[grant'[c].path] \in grant'[c].seen
           /\ wish[c].command = "restart" => TellsOf(verdict, Mine(done', c))
           /\ wish[c].command = "exec" /\ verdict = "ok" => grant'[c].path # None /\ path = grant'[c].path
  PROVE  Inv'
<1> DEFINE c == daemon.serving.from
           r == [verdict |-> verdict, path |-> path]
<1>1. /\ c \in Client /\ c # None /\ daemon.up /\ daemon.serving \in Served
      /\ client[c] \in Process /\ c \in Calls(daemon.queue, c)
      /\ client[c].at \in {"method", "failing", "exited"}
  BY ServedCaller
<1>2. /\ daemon \in [up : BOOLEAN, authorizer : BOOLEAN, queue : Seq(Call), serving : Served,
                     busy : BOOLEAN, making : Name \cup {None}]
      /\ client \in [Client -> Process]
  BY DEF Inv, Shape
<1>3. /\ daemon' = [daemon EXCEPT !.serving = NoCall]
      /\ client' = [client EXCEPT ![c].reply = r]
  BY DEF Respond
<1>4. /\ daemon'.queue = daemon.queue /\ daemon'.serving = NoCall /\ daemon'.serving.from = None
      /\ daemon'.serving.step = None /\ daemon'.up = daemon.up
      /\ daemon'.authorizer = daemon.authorizer
  BY <1>2, <1>3 DEF NoCall
<1>5. daemon' \in [up : BOOLEAN, authorizer : BOOLEAN, queue : Seq(Call), serving : Served,
                   busy : BOOLEAN, making : Name \cup {None}]
  BY <1>2, <1>3 DEF Served, NoCall, None
<1>6. /\ client'[c] = [client[c] EXCEPT !.reply = r]
      /\ \A d \in Client \ {c} : client'[d] = client[d]
  BY <1>1, <1>2, <1>3
<1>7. client' \in [Client -> Process]
  <2>1. [client[c] EXCEPT !.reply = r] \in Process
    BY <1>1 DEF Process
  <2>2. client' = [client EXCEPT ![c] = [client[c] EXCEPT !.reply = r]]
    BY <1>1, <1>2, <1>3
  <2> QED BY ONLY <2>1, <2>2, <1>2
<1>8. Shape'
  BY <1>5, <1>7, DeedsOk DEF Shape, Inv
<1>9. DownIsIdle'
  BY <1>1, <1>4 DEF DownIsIdle, NoCall, None
<1>10. /\ \A d \in Client \ {c} :
            ClientOk(d, wish'[d], client'[d], grant'[d], Mine(done', d),
                     Calls(daemon'.queue, daemon'.serving.from), host')
       /\ OneCall(daemon'.queue, daemon'.serving.from)
       /\ \A i \in DOMAIN daemon'.queue :
            QueuedOk(daemon'.queue[i], wish'[daemon'.queue[i].from], client'[daemon'.queue[i].from],
                     Mine(done', daemon'.queue[i].from))
  BY <1>4, <1>6, ServeOthers
<1>11. ClientOk(c, wish'[c], client'[c], grant'[c], Mine(done', c),
                Calls(daemon'.queue, daemon'.serving.from), host')
  <2>1. ClientOk(c, wish[c], client[c], grant[c], Mine(done, c), Calls(daemon.queue, c), host)
    BY <1>1 DEF Inv, ClientsOk
  <2>2. c \notin Calls(daemon.queue, None)
    BY <1>1 DEF Calls, Inv, CallsOk, OneCall
  <2>3. /\ grant'[c].path # None => host'[grant'[c].path] \in grant'[c].seen
        /\ wish[c].command = "restart" => TellsOf(r.verdict, Mine(done', c))
        /\ wish[c].command = "exec" /\ r.verdict = "ok" => grant'[c].path # None /\ r.path = grant'[c].path
    OBVIOUS
  <2>4. wish' = wish /\ daemon'.queue = daemon.queue /\ daemon'.serving.from = None
    BY <1>4
  <2> HIDE DEF r
  <2>5. ClientOk(c, wish[c], [client[c] EXCEPT !.reply = r], grant'[c], Mine(done', c),
                 Calls(daemon.queue, None), host')
    BY ONLY <2>1, <2>2, <2>3, <1>1, ClientAnswered
  <2> QED BY ONLY <2>4, <2>5, <1>6
<1>12. ClientsOk'
  BY <1>10, <1>11, ClientsRebuilt
<1>13. CallsOk'
  BY <1>4, <1>10, CallsRebuilt
<1>14. CheckedOk'
  BY <1>4, DeedsOk, CheckedRebuilt
<1> QED BY <1>8, <1>9, <1>12, <1>13, <1>14 DEF Inv

-----------------------------------------------------------------------------
(* Serve, action by action.                                                *)

(* A client's names and command.                                           *)
LEMMA Named ==
  ASSUME Shape, NEW c \in Client
  PROVE  Full(c) \in Name /\ Typed(c) \in Name /\ wish[c].command \in Command
<1>1. wish[c] \in [command : Command, name : Name]
  BY DEF Shape
<1> QED BY <1>1, ClientAssumption DEF Full, Typed

(* Where nothing but the daemon and the clients changes, the world is as   *)
(* it was.                                                                 *)
LEMMA StillWorld ==
  ASSUME Inv, UNCHANGED <<tracked, host, made, grant, done>>
  PROVE  /\ DeedsGrow /\ GrantsKept /\ OnePath'
         /\ tracked' \in [Name -> {None, "creating", "active"}]
         /\ made' \in Nat /\ host' \in [Name -> Absent .. made']
         /\ grant' \in [Client -> [path : Name \cup {None}, seen : SUBSET Int]]
BY StillKept DEF Inv, Shape, OnePath, IsNs, DeedsGrow

\* A step forward that leaves everything else alone.
(* A call that goes on without having changed anything.                    *)
LEMMA StillGoto ==
  ASSUME Inv, UNCHANGED <<tracked, host, made, grant, done>>, UNCHANGED <<wish, around>>,
         daemon.serving.step \in Early, NEW step \in Early \ {"subject"}, Goto(step),
         step = "path" => wish[daemon.serving.from].command = "exec",
         step \in {"find", "delete"} => wish[daemon.serving.from].command = "restart",
         daemon.authorizer =>
           /\ ~daemon.serving.late
           /\ step # "policy" => Permitted(daemon.serving.from)
  PROVE  Inv'
<1> DEFINE c == daemon.serving.from
<1>1. daemon.serving.step # None
  BY DEF Early, None
<1>2. ServedOk(daemon.serving, wish[c], client[c], Mine(done, c))
  BY <1>1 DEF Inv, CallsOk
<1>3. daemon'.serving.step = step /\ daemon'.serving.late = daemon.serving.late /\ done' = done
  BY DEF Goto, Inv, Shape, Served
<1>4. ServedOk(daemon'.serving, wish[c], client[c], Mine(done', c))
  BY <1>2, <1>3 DEF ServedOk, Early, Late
<1>5. daemon.authorizer => /\ step # "subject" => ~daemon.serving.late
                           /\ step \notin {"subject", "policy"} => Permitted(c)
  OBVIOUS
<1> QED BY <1>1, <1>4, <1>5, StillWorld, GotoStep

\* An answer that leaves everything else alone.
(* A call that is answered without having changed anything.                *)
LEMMA StillRespond ==
  ASSUME Inv, UNCHANGED <<tracked, host, made, grant, done>>, UNCHANGED <<wish, around>>,
         daemon.serving.step # None, NEW verdict \in Verdict, Respond(daemon.serving.from, verdict, None),
         wish[daemon.serving.from].command = "restart" => TellsOf(verdict, Mine(done, daemon.serving.from)),
         verdict = "ok" => wish[daemon.serving.from].command # "exec"
  PROVE  Inv'
<1> DEFINE c == daemon.serving.from
<1>1. \A d \in Client \ {c} : Kept(grant[d], grant'[d], host')
  BY StillWorld DEF GrantsKept
<1>2. c \in Client
  BY ServedCaller
<1>3. grant'[c].path # None => host'[grant'[c].path] \in grant'[c].seen
  BY <1>2, StillWorld DEF GrantsKept, Kept
<1> QED BY <1>1, <1>3, StillWorld, RespondStep

(* A refusal comes before anything is done.                                *)
LEMMA RefuseStep ==
  ASSUME Inv, daemon.serving.step \in Early, Refuse, UNCHANGED <<wish, around>>
  PROVE  Inv'
<1>1. daemon.serving.step # None
  BY DEF Early, None
<1>2. Mine(done, daemon.serving.from) = {}
  BY <1>1 DEF Inv, CallsOk, ServedOk
<1>3. TellsOf("refused", Mine(done, daemon.serving.from))
  BY <1>2 DEF TellsOf
<1> QED BY <1>1, <1>3, StillRespond DEF Refuse, Verdict

(* A failure is answered as one, whatever was done.                        *)
LEMMA FailStep ==
  ASSUME Inv, daemon.serving.step \in Early \cup Late, Fail, UNCHANGED <<wish, around>>
  PROVE  Inv'
<1>1. daemon.serving.step # None
  BY DEF Early, Late, None
<1>2. Mine(done, daemon.serving.from) \in {{}, {"deleted"}}
  BY <1>1 DEF Inv, CallsOk, ServedOk
<1>3. TellsOf("failed", Mine(done, daemon.serving.from))
  BY <1>2 DEF TellsOf
<1> QED BY <1>1, <1>3, StillRespond DEF Fail, Verdict

(* The identification of the caller (policykit.rs).                        *)
LEMMA SubjectStep ==
  ASSUME Inv, Subject, UNCHANGED <<wish, around>>
  PROVE  Inv'
<1>1. daemon.serving.step \in Early /\ daemon.serving.step # None
  BY DEF Subject, Early, None
<1>2. daemon.serving.late => client[daemon.serving.from].at = "exited"
  BY <1>1 DEF Inv, CallsOk, ServedOk
<1>3. CASE Refuse
  BY <1>1, <1>3, RefuseStep
<1>4. CASE /\ ~daemon.authorizer /\ Goto("act")
           /\ UNCHANGED <<tracked, host, made, grant, done>>
  BY <1>1, <1>4, StillGoto DEF Early
<1>5. CASE /\ client[daemon.serving.from].at # "exited" /\ Goto("policy")
           /\ UNCHANGED <<tracked, host, made, grant, done>>
  BY <1>1, <1>2, <1>5, StillGoto DEF Early
<1> QED BY <1>3, <1>4, <1>5 DEF Subject

(* The question to PolicyKit, or its fallback to the uid.                  *)
LEMMA PolicyStep ==
  ASSUME Inv, Policy, UNCHANGED <<wish, around>>
  PROVE  Inv'
<1>1. daemon.serving.step = "policy" /\ daemon.serving.step \in Early
  BY DEF Policy, Early
<1>2. daemon.authorizer => ~daemon.serving.late
  BY <1>1 DEF Inv, CheckedOk, None
<1>3. CASE Refuse
  BY <1>1, <1>3, RefuseStep
<1>4. CASE /\ Permitted(daemon.serving.from) /\ Goto("act")
           /\ UNCHANGED <<tracked, host, made, grant, done>>
  BY <1>1, <1>2, <1>4, StillGoto DEF Early
<1> QED BY <1>3, <1>4 DEF Policy, Permitted, UidFallback

\* What a call that acts was asked for, and that it was checked.
(* What is past the checks acts for a caller that passed them.             *)
LEMMA Acting ==
  ASSUME Inv, daemon.serving.step \in (Early \cup Late) \ {"subject", "policy"}
  PROVE  /\ daemon.serving.step # None
         /\ daemon.authorizer => ~daemon.serving.late /\ Permitted(daemon.serving.from)
         /\ ServedOk(daemon.serving, wish[daemon.serving.from], client[daemon.serving.from],
                     Mine(done, daemon.serving.from))
BY DEF Inv, CheckedOk, CallsOk, Early, Late, None

(* A query changes nothing.                                                *)
LEMMA QueryStep ==
  ASSUME Inv, Query, UNCHANGED <<wish, around>>
  PROVE  Inv'
<1>1. /\ daemon.serving.step = "act" /\ Respond(daemon.serving.from, "ok", None)
      /\ UNCHANGED <<tracked, host, made, grant, done>>
      /\ wish[daemon.serving.from].command \in {"list", "reload", "status"}
  BY DEF Query, Locked, Serving, Succeed
<1> QED BY <1>1, StillRespond DEF Verdict, None

(* A status of an unknown namespace and a reload that fails.               *)
LEMMA RefusingSteps ==
  ASSUME Inv, StatusUnknown \/ ReloadFails, UNCHANGED <<wish, around>>
  PROVE  Inv'
BY RefuseStep, FailStep DEF StatusUnknown, ReloadFails, Locked, Serving, Early

(* The checks and the grant of exec: what is at the path is noted with     *)
(* the grant.                                                              *)
LEMMA ExecSteps ==
  ASSUME Inv, ExecIsActive \/ ExecPath, UNCHANGED <<wish, around>>
  PROVE  Inv'
<1> DEFINE c == daemon.serving.from
<1>1. CASE ExecIsActive
  <2>1. daemon.serving.step = "act" /\ daemon.serving.step \in Early /\ wish[c].command = "exec"
    BY <1>1 DEF ExecIsActive, Locked, Serving, Early
  <2>2. CASE Refuse
    BY <2>1, <2>2, RefuseStep
  <2>3. CASE Goto("path") /\ UNCHANGED <<tracked, host, made, grant, done>>
    BY <2>1, <2>3, Acting, StillGoto DEF Early
  <2> QED BY <1>1, <2>2, <2>3 DEF ExecIsActive
<1>2. CASE ExecPath
  <2>1. daemon.serving.step = "path" /\ daemon.serving.step \in Early /\ wish[c].command = "exec"
        /\ daemon.serving.step # None
    BY <1>2 DEF ExecPath, Serving, Early, None
  <2>2. CASE Refuse
    BY <2>1, <2>2, RefuseStep
  <2>3. CASE /\ Respond(c, "ok", Full(c)) /\ Did("granted")
             /\ grant' = [grant EXCEPT ![c] = [path |-> Full(c), seen |-> {host[Full(c)]}]]
             /\ UNCHANGED <<tracked, host, made>>
    <3>1. c \in Client /\ Full(c) \in Name
      BY <2>1, ServedCaller, Named DEF Inv
    <3>2. /\ tracked' \in [Name -> {None, "creating", "active"}] /\ OnePath'
          /\ made' \in Nat /\ host' \in [Name -> Absent .. made'] /\ DeedsGrow
      BY <2>1, <2>3 DEF Inv, Shape, OnePath, IsNs, DeedsGrow
    <3>3. host[Full(c)] \in Int
      BY <3>1 DEF Inv, Shape, Absent
    <3>4. grant \in [Client -> [path : Name \cup {None}, seen : SUBSET Int]]
      BY DEF Inv, Shape
    <3>5. [path |-> Full(c), seen |-> {host[Full(c)]}] \in [path : Name \cup {None}, seen : SUBSET Int]
      BY <3>1, <3>3
    <3>6. grant' \in [Client -> [path : Name \cup {None}, seen : SUBSET Int]]
      BY <2>3, <3>4, <3>5
    <3>7. grant'[c].path = Full(c) /\ grant'[c].seen = {host[Full(c)]} /\ host' = host
      BY <2>3, <3>1, <3>4
    <3>8. \A d \in Client \ {c} : Kept(grant[d], grant'[d], host')
      BY <2>3, <3>4 DEF Kept, Inv, ClientsOk, ClientOk
    <3>9. Full(c) # None
      BY <3>1, ClientAssumption DEF None
    <3>10. "ok" \in Verdict /\ Full(c) \in Name \cup {None}
      BY <3>1 DEF Verdict
    <3>11. /\ grant'[c].path # None => host'[grant'[c].path] \in grant'[c].seen
           /\ wish[c].command = "restart" => TellsOf("ok", Mine(done', c))
           /\ wish[c].command = "exec" /\ "ok" = "ok" => grant'[c].path # None /\ Full(c) = grant'[c].path
      BY <2>1, <3>7, <3>9
    <3> QED BY <2>1, <2>3, <3>2, <3>6, <3>8, <3>10, <3>11, RespondStep
  <2> QED BY <1>2, <2>2, <2>3 DEF ExecPath, Succeed
<1> QED BY <1>1, <1>2

(* A restart looks up the state.                                           *)
LEMMA RestartFindStep ==
  ASSUME Inv, RestartFind, UNCHANGED <<wish, around>>
  PROVE  Inv'
<1>1. /\ daemon.serving.step \in {"act", "find"} /\ daemon.serving.step \in Early
      /\ wish[daemon.serving.from].command = "restart"
  BY DEF RestartFind, Locked, Serving, Early
<1>2. CASE Fail
  BY <1>1, <1>2, FailStep
<1>3. ASSUME NEW step \in {"find", "delete"}, Goto(step), UNCHANGED <<tracked, host, made, grant, done>>
      PROVE  Inv'
  BY <1>1, <1>3, Acting, StillGoto DEF Early
<1> QED BY <1>2, <1>3 DEF RestartFind

\* A restart that goes on after it has deleted the namespace.
(* A restart that has deleted goes on.                                     *)
LEMMA LateGoto ==
  ASSUME Inv, daemon.serving.step \in {"delete"} \cup Late,
         wish[daemon.serving.from].command = "restart", DeedsGrow, GrantsKept, OnePath',
         tracked' \in [Name -> {None, "creating", "active"}],
         made' \in Nat, host' \in [Name -> Absent .. made'],
         grant' \in [Client -> [path : Name \cup {None}, seen : SUBSET Int]],
         UNCHANGED <<wish, around>>, NEW step \in Late, Goto(step),
         Mine(done', daemon.serving.from) = {"deleted"}
  PROVE  Inv'
<1> DEFINE c == daemon.serving.from
<1>1. daemon.serving.step \in (Early \cup Late) \ {"subject", "policy"}
  BY DEF Early, Late
<1>2. /\ daemon.serving.step # None
      /\ daemon.authorizer => ~daemon.serving.late /\ Permitted(c)
      /\ ServedOk(daemon.serving, wish[c], client[c], Mine(done, c))
  BY <1>1, Acting
<1>3. daemon'.serving.step = step /\ daemon'.serving.late = daemon.serving.late
  BY DEF Goto, Inv, Shape, Served
<1>4. ServedOk(daemon'.serving, wish[c], client[c], Mine(done', c))
  BY <1>2, <1>3 DEF ServedOk, Early, Late
<1>5. daemon.authorizer => /\ step # "subject" => ~daemon.serving.late
                           /\ step \notin {"subject", "policy"} => Permitted(c)
  BY <1>2
<1> QED BY <1>2, <1>4, <1>5, GotoStep

\* A restart that acts: its client, the name it acts on, and what it has done.
(* What a restart has done at each of its steps.                           *)
LEMMA Restarting ==
  ASSUME Inv, daemon.serving.step \in {"delete"} \cup Late
  PROVE  /\ daemon.serving.from \in Client /\ daemon.serving.step # None
         /\ Full(daemon.serving.from) \in Name /\ Typed(daemon.serving.from) \in Name
         /\ daemon.serving.step \in Late => Mine(done, daemon.serving.from) = {"deleted"}
         /\ daemon.serving.step = "delete" => Mine(done, daemon.serving.from) = {}
         /\ tracked \in [Name -> {None, "creating", "active"}]
<1>1. daemon.serving.step # None
  BY DEF Late, None
<1>2. daemon.serving.from \in Client
  BY <1>1, ServedCaller
<1>3. ServedOk(daemon.serving, wish[daemon.serving.from], client[daemon.serving.from],
               Mine(done, daemon.serving.from))
  BY <1>1 DEF Inv, CallsOk
<1> QED BY <1>1, <1>2, <1>3, Named DEF ServedOk, Early, Inv, Shape

(* A deed for the client that is served.                                   *)
LEMMA MineDid ==
  ASSUME Inv, daemon.serving.step # None, NEW what, Did(what)
  PROVE  Mine(done', daemon.serving.from) = Mine(done, daemon.serving.from) \cup {what}
<1> DEFINE deed == [from |-> daemon.serving.from, what |-> what, late |-> daemon.serving.late]
<1>1. done' = done \cup {deed} /\ deed.from = daemon.serving.from /\ deed.what = what
  BY DEF Did
<1> HIDE DEF deed
<1>2. Mine(done \cup {deed}, daemon.serving.from) =
        IF deed.from = daemon.serving.from THEN Mine(done, daemon.serving.from) \cup {deed.what}
        ELSE Mine(done, daemon.serving.from)
  BY DEF Mine
<1> QED BY <1>1, <1>2

(* A restart deletes the namespace.                                        *)
LEMMA RestartDeleteStep ==
  ASSUME Inv, RestartDelete, UNCHANGED <<wish, around>>
  PROVE  Inv'
<1> DEFINE c == daemon.serving.from
<1>1. CASE /\ Serving("restart", "delete") /\ Note(Full(c), Absent) /\ Did("deleted")
           /\ Goto("forget") /\ UNCHANGED <<tracked, made>>
  <2>1. /\ daemon.serving.step = "delete" /\ wish[c].command = "restart"
        /\ daemon.serving.step \in {"delete"} \cup Late /\ "forget" \in Late
    BY <1>1 DEF Serving, Late
  <2>2. Full(c) \in Name /\ Mine(done, c) = {} /\ daemon.serving.step # None
        /\ tracked' \in [Name -> {None, "creating", "active"}]
    BY <1>1, <2>1, Restarting
  <2>3. Mine(done', c) = {"deleted"}
    BY <1>1, <2>2, MineDid
  <2>4. /\ GrantsKept /\ OnePath' /\ made' \in Nat /\ host' \in [Name -> Absent .. made']
        /\ grant' \in [Client -> [path : Name \cup {None}, seen : SUBSET Int]]
    BY <1>1, <2>2, NoteKeeps DEF Inv
  <2>5. DeedsGrow
    BY <1>1, <2>1 DEF DeedsGrow
  <2> QED BY <1>1, <2>1, <2>2, <2>3, <2>4, <2>5, LateGoto
<1>2. CASE Serving("restart", "delete") /\ Fail
  BY <1>2, FailStep DEF Serving, Early
<1>3. CASE /\ Locked("restart", "forget") /\ Goto("create")
           /\ tracked' = [tracked EXCEPT ![Full(c)] = None, ![Typed(c)] = None]
           /\ UNCHANGED <<host, made, grant, done>>
  <2>1. /\ daemon.serving.step = "forget" /\ wish[c].command = "restart"
        /\ daemon.serving.step \in {"delete"} \cup Late /\ daemon.serving.step \in Late /\ "create" \in Late
    BY <1>3 DEF Locked, Serving, Late
  <2>2. Mine(done', c) = {"deleted"} /\ tracked' \in [Name -> {None, "creating", "active"}]
    BY <1>3, <2>1, Restarting
  <2>3. /\ GrantsKept /\ OnePath' /\ made' \in Nat /\ host' \in [Name -> Absent .. made'] /\ DeedsGrow
        /\ grant' \in [Client -> [path : Name \cup {None}, seen : SUBSET Int]]
    BY <1>3, StillKept DEF Inv, Shape, OnePath, IsNs, DeedsGrow
  <2> QED BY <1>3, <2>1, <2>2, <2>3, LateGoto
<1> QED BY <1>1, <1>2, <1>3 DEF RestartDelete

(* A restart creates the file of the namespace.                            *)
LEMMA RestartCreateStep ==
  ASSUME Inv, RestartCreate, UNCHANGED <<wish, around>>
  PROVE  Inv'
<1> DEFINE c == daemon.serving.from
<1>1. /\ daemon.serving.step = "create" /\ wish[c].command = "restart"
      /\ daemon.serving.step \in {"delete"} \cup Late /\ daemon.serving.step \in Late /\ "mount" \in Late
  BY DEF RestartCreate, Serving, Late
<1>2. CASE Fail
  BY <1>1, <1>2, FailStep
<1>3. CASE Note(Full(c), Placeholder) /\ Goto("mount") /\ UNCHANGED <<tracked, made, done>>
  <2>1. /\ Full(c) \in Name /\ Mine(done', c) = {"deleted"} /\ DeedsGrow
        /\ tracked' \in [Name -> {None, "creating", "active"}]
    BY <1>1, <1>3, Restarting DEF DeedsGrow
  <2>2. /\ GrantsKept /\ OnePath' /\ made' \in Nat /\ host' \in [Name -> Absent .. made']
        /\ grant' \in [Client -> [path : Name \cup {None}, seen : SUBSET Int]]
    BY <1>3, <2>1, NoteKeeps DEF Inv
  <2> QED BY <1>1, <1>3, <2>1, <2>2, LateGoto
<1> QED BY <1>2, <1>3 DEF RestartCreate

(* A restart mounts the new namespace.                                     *)
LEMMA RestartMountStep ==
  ASSUME Inv, RestartMount, UNCHANGED <<wish, around>>
  PROVE  Inv'
<1> DEFINE c == daemon.serving.from
<1>1. /\ daemon.serving.step = "mount" /\ wish[c].command = "restart"
      /\ daemon.serving.step \in {"delete"} \cup Late /\ daemon.serving.step \in Late /\ "enter" \in Late
  BY DEF RestartMount, Serving, Late
<1>2. c \in Client /\ Full(c) \in Name /\ Mine(done, c) = {"deleted"} /\ daemon.serving.step # None
      /\ tracked \in [Name -> {None, "creating", "active"}]
  BY <1>1, Restarting
<1>3. CASE made' = made + 1 /\ Note(Full(c), made + 1) /\ Goto("enter") /\ UNCHANGED <<tracked, done>>
  <2>1. /\ Mine(done', c) = {"deleted"} /\ DeedsGrow
        /\ tracked' \in [Name -> {None, "creating", "active"}]
    BY <1>2, <1>3 DEF DeedsGrow
  <2>2. /\ GrantsKept /\ OnePath' /\ made' \in Nat /\ host' \in [Name -> Absent .. made']
        /\ grant' \in [Client -> [path : Name \cup {None}, seen : SUBSET Int]]
    BY <1>2, <1>3, NoteKeeps DEF Inv
  <2> QED BY <1>1, <1>3, <2>1, <2>2, LateGoto
<1>4. CASE Note(Full(c), Absent) /\ Respond(c, "failed", None) /\ UNCHANGED <<tracked, made, done>>
  <2>1. /\ DeedsGrow /\ tracked' \in [Name -> {None, "creating", "active"}]
        /\ TellsOf("failed", Mine(done', c)) /\ "failed" \in Verdict
    BY <1>2, <1>4 DEF DeedsGrow, TellsOf, Verdict
  <2>2. /\ GrantsKept /\ OnePath' /\ made' \in Nat /\ host' \in [Name -> Absent .. made']
        /\ grant' \in [Client -> [path : Name \cup {None}, seen : SUBSET Int]]
    BY <1>2, <1>4, NoteKeeps DEF Inv
  <2>3. /\ \A d \in Client \ {c} : Kept(grant[d], grant'[d], host')
        /\ grant'[c].path # None => host'[grant'[c].path] \in grant'[c].seen
    BY <1>2, <2>2 DEF GrantsKept, Kept
  <2>4. wish[c].command # "exec"
    BY <1>1
  <2> QED BY <1>2, <1>4, <2>1, <2>2, <2>3, <2>4, RespondStep
<1> QED BY <1>3, <1>4 DEF RestartMount

(* A restart writes the new state.                                         *)
LEMMA RestartEnterStep ==
  ASSUME Inv, RestartEnter, UNCHANGED <<wish, around>>
  PROVE  Inv'
<1> DEFINE c == daemon.serving.from
<1>1. /\ daemon.serving.step = "enter" /\ wish[c].command = "restart"
      /\ daemon.serving.step \in {"delete"} \cup Late /\ daemon.serving.step \in Late
  BY DEF RestartEnter, Locked, Serving, Late
<1>2. c \in Client /\ Full(c) \in Name /\ Mine(done, c) = {"deleted"} /\ daemon.serving.step # None
      /\ tracked \in [Name -> {None, "creating", "active"}]
  BY <1>1, Restarting
<1>3. Did("recreated") /\ Respond(c, "ok", None) /\ tracked' = [tracked EXCEPT ![Full(c)] = "creating"]
      /\ UNCHANGED <<host, made, grant>>
  BY DEF RestartEnter, Succeed
<1>4. Mine(done', c) = {"deleted", "recreated"}
  BY <1>2, <1>3, MineDid
<1>5. TellsOf("ok", Mine(done', c)) /\ "ok" \in Verdict
  BY <1>4 DEF TellsOf, Verdict
<1>6. tracked' \in [Name -> {None, "creating", "active"}]
  BY <1>2, <1>3
<1>7. /\ GrantsKept /\ OnePath' /\ made' \in Nat /\ host' \in [Name -> Absent .. made'] /\ DeedsGrow
      /\ grant' \in [Client -> [path : Name \cup {None}, seen : SUBSET Int]]
  BY <1>1, <1>3, StillKept DEF Inv, Shape, OnePath, IsNs, DeedsGrow
<1>8. /\ \A d \in Client \ {c} : Kept(grant[d], grant'[d], host')
      /\ grant'[c].path # None => host'[grant'[c].path] \in grant'[c].seen
  BY <1>2, <1>7 DEF GrantsKept, Kept
<1>9. wish[c].command # "exec"
  BY <1>1
<1> QED BY <1>2, <1>3, <1>5, <1>6, <1>7, <1>8, <1>9, RespondStep

\* A call is taken from the queue: answered at once, or served.
(* The main thread takes up the next call.                                 *)
LEMMA TakeUpStep ==
  ASSUME Inv, TakeUp, UNCHANGED <<wish, around>>
  PROVE  Inv'
<1> DEFINE call == Head(daemon.queue)
           c == call.from
<1>1. /\ daemon.serving = NoCall /\ daemon.queue # <<>>
      /\ UNCHANGED <<tracked, host, made, grant, done>>
  BY DEF TakeUp
<1>2. /\ daemon \in [up : BOOLEAN, authorizer : BOOLEAN, queue : Seq(Call), serving : Served,
                     busy : BOOLEAN, making : Name \cup {None}]
      /\ client \in [Client -> Process] /\ daemon.queue \in Seq(Call)
  BY Callers DEF Inv, Shape
<1>3. /\ call = daemon.queue[1] /\ call \in Call /\ 1 \in DOMAIN daemon.queue
      /\ Tail(daemon.queue) \in Seq(Call)
      /\ \A i \in DOMAIN Tail(daemon.queue) :
           i + 1 \in DOMAIN daemon.queue /\ i + 1 # 1 /\ Tail(daemon.queue)[i] = daemon.queue[i + 1]
      /\ \A i, j \in DOMAIN Tail(daemon.queue) : i + 1 = j + 1 => i = j
  BY <1>1, <1>2, Dequeued
<1>4. c \in Client /\ c # None /\ client[c] \in Process /\ daemon.up
  BY <1>1, <1>2, <1>3, ClientAssumption DEF Call, None, Inv, DownIsIdle
<1>5. /\ QueuedOk(call, wish[c], client[c], Mine(done, c))
      /\ OneCall(daemon.queue, None) /\ c \in Calls(daemon.queue, None)
      /\ \A i \in DOMAIN daemon.queue :
           QueuedOk(daemon.queue[i], wish[daemon.queue[i].from], client[daemon.queue[i].from],
                    Mine(done, daemon.queue[i].from))
      /\ daemon.serving.from = None
  BY <1>1, <1>3 DEF Inv, CallsOk, Calls, NoCall
<1> DEFINE queue == Tail(daemon.queue)
<1>6. /\ \A i \in DOMAIN queue : \E j \in DOMAIN daemon.queue :
           /\ queue[i] = daemon.queue[j] /\ queue[i].from # c /\ queue[i].from \in Client
           /\ QueuedOk(queue[i], wish[queue[i].from], client[queue[i].from], Mine(done, queue[i].from))
      /\ OneCall(queue, None) /\ OneCall(queue, c)
      /\ c \notin Calls(queue, None)
      /\ \A d \in Client : d \in Calls(queue, c) => d \in Calls(daemon.queue, None)
  <2>1. ASSUME NEW i \in DOMAIN queue
        PROVE  /\ i + 1 \in DOMAIN daemon.queue /\ queue[i] = daemon.queue[i + 1]
               /\ queue[i].from # c /\ queue[i].from \in Client
    BY <1>3, <1>5, Callers DEF OneCall, Inv
  <2>2. \A i \in DOMAIN queue : \E j \in DOMAIN daemon.queue :
           /\ queue[i] = daemon.queue[j] /\ queue[i].from # c /\ queue[i].from \in Client
           /\ QueuedOk(queue[i], wish[queue[i].from], client[queue[i].from], Mine(done, queue[i].from))
    BY <2>1, <1>5
  <2>3. \A i, j \in DOMAIN queue : queue[i].from = queue[j].from => i = j
    <3> SUFFICES ASSUME NEW i \in DOMAIN queue, NEW j \in DOMAIN queue, queue[i].from = queue[j].from
                 PROVE  i = j
      OBVIOUS
    <3>1. i + 1 = j + 1
      BY <2>1, <1>5 DEF OneCall
    <3> QED BY ONLY <3>1, <1>3
  <2>4. None \notin Client
    BY ClientAssumption DEF None
  <2> HIDE DEF queue, call
  <2>5. OneCall(queue, None) /\ OneCall(queue, c)
    BY <2>1, <2>3, <2>4 DEF OneCall
  <2>6. c \notin Calls(queue, None)
    BY <2>1, <2>4, <1>4 DEF Calls
  <2>7. \A d \in Client : d \in Calls(queue, c) => d \in Calls(daemon.queue, None)
    BY <2>1, <1>5 DEF Calls
  <2> QED BY <2>2, <2>5, <2>6, <2>7
<1>7. \A d \in Client : ClientOk(d, wish[d], client[d], grant[d], Mine(done, d),
                                 Calls(daemon.queue, None), host)
  BY <1>5 DEF Inv, ClientsOk
<1>8. \A d \in Client : grant[d].path # None => host[grant[d].path] \in grant[d].seen
  BY DEF Inv, ClientsOk, ClientOk
<1>9. OnePath'
  BY <1>1 DEF Inv, OnePath, IsNs
<1>10. ASSUME NEW verdict \in Verdict, verdict \in {"ok", "refused"},
              verdict = "ok" => call.what = "introspect",
              client' = [client EXCEPT ![c].reply.verdict = verdict],
              daemon' = [daemon EXCEPT !.queue = queue]
       PROVE  Inv'
  <2> DEFINE r == [client[c].reply EXCEPT !.verdict = verdict]
             p == [client[c] EXCEPT !.reply = r]
  <2> HIDE DEF queue, call
  <2>1. /\ daemon'.queue = queue /\ daemon'.serving = NoCall /\ daemon'.serving.from = None
        /\ daemon'.serving.step = None /\ daemon'.up /\ daemon'.authorizer = daemon.authorizer
    BY <1>1, <1>2, <1>4, <1>10 DEF NoCall
  <2>2. r \in [verdict : Verdict, path : Name \cup {None}] /\ r.verdict = verdict
    BY <1>4 DEF Process
  <2>3. client' = [client EXCEPT ![c] = p] /\ p \in Process
    BY <1>2, <1>4, <1>10, <2>2 DEF Process
  <2>4. /\ client'[c] = p /\ \A d \in Client \ {c} : client'[d] = client[d]
        /\ client' \in [Client -> Process]
    BY <1>2, <1>4, <2>3
  <2>5. daemon' \in [up : BOOLEAN, authorizer : BOOLEAN, queue : Seq(Call), serving : Served,
                     busy : BOOLEAN, making : Name \cup {None}]
    BY <1>2, <1>3, <1>10 DEF queue
  <2>6. Shape'
    BY <1>1, <2>4, <2>5 DEF Shape, Inv
  <2>7. DownIsIdle'
    BY <2>1 DEF DownIsIdle
  <2>8. ClientOk(c, wish[c], p, grant[c], Mine(done, c), Calls(queue, None), host)
    <3>1. /\ p.at = client[c].at /\ p.tries = client[c].tries /\ p.says = client[c].says
          /\ p.reply.verdict = verdict /\ p.ids = client[c].ids
      BY <1>4, <2>2 DEF Process
    <3>2. Mine(done, c) = {} /\ client[c].at \in {"verify", "probe", "method", "failing", "exited"}
          /\ (call.what # "introspect" \/ client[c].at # "method")
      BY <1>5 DEF QueuedOk
    <3>3. ClientOk(c, wish[c], client[c], grant[c], Mine(done, c), Calls(daemon.queue, None), host)
      BY <1>4, <1>7
    <3>4. c \in Calls(daemon.queue, None) /\ c \notin Calls(queue, None)
      BY <1>5, <1>6
    <3> HIDE DEF p
    <3> QED BY <3>1, <3>2, <3>3, <3>4, <1>10 DEF ClientOk, Entering, TellsOf, None, Waiting
  <2>9. \A d \in Client \ {c} :
          ClientOk(d, wish[d], client[d], grant[d], Mine(done, d), Calls(queue, None), host)
    <3> SUFFICES ASSUME NEW d \in Client \ {c}
                 PROVE  ClientOk(d, wish[d], client[d], grant[d], Mine(done, d), Calls(queue, None), host)
      OBVIOUS
    <3>1. /\ ClientOk(d, wish[d], client[d], grant[d], Mine(done, d), Calls(daemon.queue, None), host)
          /\ grant[d].path # None => host[grant[d].path] \in grant[d].seen
      BY <1>7, <1>8
    <3>2. d \in Calls(queue, None) => d \in Calls(daemon.queue, None)
      BY <1>6 DEF Calls
    <3> QED BY ONLY <3>1, <3>2, ClientKept
  <2>10. ClientsOk'
    BY <1>1, <2>1, <2>4, <2>8, <2>9, ClientsRebuilt
  <2>11. CallsOk'
    BY <1>1, <1>6, <2>1, <2>4, CallsRebuilt
  <2>12. CheckedOk'
    BY <1>1, <2>1, CheckedRebuilt DEF Inv, CheckedOk
  <2> QED BY <1>9, <2>6, <2>7, <2>10, <2>11, <2>12 DEF Inv
<1>11. ASSUME client' = client, call.what # "introspect",
              daemon' = [daemon EXCEPT !.queue = queue,
                           !.serving = [from |-> c, step |-> "subject", late |-> client[c].at = "exited"]]
       PROVE  Inv'
  <2> DEFINE s == [from |-> c, step |-> "subject", late |-> client[c].at = "exited"]
  <2>1. s \in Served /\ s.from = c /\ s.step = "subject" /\ (s.late <=> client[c].at = "exited")
    BY <1>4 DEF Served, Early
  <2>2. daemon' = [daemon EXCEPT !.queue = queue, !.serving = s]
    BY <1>11
  <2> HIDE DEF queue, call, s
  <2>3. /\ daemon'.queue = queue /\ daemon'.serving = s
        /\ daemon'.up /\ daemon'.authorizer = daemon.authorizer
    BY <1>2, <1>4, <2>2
  <2>4. daemon' \in [up : BOOLEAN, authorizer : BOOLEAN, queue : Seq(Call), serving : Served,
                     busy : BOOLEAN, making : Name \cup {None}]
    BY <1>2, <1>3, <2>1, <2>2 DEF queue
  <2>5. Shape'
    BY <1>1, <1>11, <2>4 DEF Shape, Inv
  <2>6. DownIsIdle'
    BY <2>1, <2>3 DEF DownIsIdle, None, NoCall
  <2>7. \A d \in Client :
          ClientOk(d, wish[d], client[d], grant[d], Mine(done, d), Calls(queue, c), host)
    <3> SUFFICES ASSUME NEW d \in Client
                 PROVE  ClientOk(d, wish[d], client[d], grant[d], Mine(done, d), Calls(queue, c), host)
      OBVIOUS
    <3>1. /\ ClientOk(d, wish[d], client[d], grant[d], Mine(done, d), Calls(daemon.queue, None), host)
          /\ grant[d].path # None => host[grant[d].path] \in grant[d].seen
      BY <1>7, <1>8
    <3>2. d \in Calls(queue, c) => d \in Calls(daemon.queue, None)
      BY <1>6
    <3> QED BY ONLY <3>1, <3>2, ClientKept
  <2>8. ClientsOk'
    BY <1>1, <1>11, <2>1, <2>3, <2>7, ClientsRebuilt
  <2>9. ServedOk(s, wish[c], client[c], Mine(done, c))
    BY <1>5, <1>11, <2>1 DEF ServedOk, QueuedOk, Early, Late
  <2>10. CallsOk'
    BY <1>1, <1>4, <1>6, <1>11, <2>1, <2>3, <2>9, CallsRebuilt
  <2>11. CheckedOk'
    BY <1>1, <2>1, <2>3, CheckedRebuilt DEF Inv, CheckedOk
  <2> QED BY <1>9, <2>5, <2>6, <2>8, <2>10, <2>11 DEF Inv
<1>12. "ok" \in Verdict /\ "refused" \in Verdict
  BY DEF Verdict
<1>13. \/ /\ client' = [client EXCEPT ![c].reply.verdict = IF call.what = "introspect" THEN "ok" ELSE "refused"]
          /\ daemon' = [daemon EXCEPT !.queue = queue]
       \/ /\ call.what # "introspect" /\ client' = client
          /\ daemon' = [daemon EXCEPT !.queue = queue,
                          !.serving = [from |-> c, step |-> "subject", late |-> client[c].at = "exited"]]
  BY DEF TakeUp
<1>14. CASE call.what = "introspect"
  BY <1>10, <1>12, <1>13, <1>14
<1>15. CASE call.what # "introspect"
  BY <1>10, <1>11, <1>12, <1>13, <1>15
<1> QED BY <1>14, <1>15

(* The step of the call that is served, one case per stage.                *)
LEMMA ServeStep ==
  ASSUME Inv, Serve
  PROVE  Inv'
BY TakeUpStep, SubjectStep, PolicyStep, QueryStep, RefusingSteps, ExecSteps, RestartFindStep,
   RestartDeleteStep, RestartCreateStep, RestartMountStep, RestartEnterStep DEF Serve

-----------------------------------------------------------------------------
(* The passes of the other threads, and the system around.                 *)

\* A step that leaves the paths and the grants alone.
(* A step of the daemon or its surroundings that touches no client, call,  *)
(* path or deed.                                                           *)
LEMMA StillStep ==
  ASSUME Inv, UNCHANGED <<wish, client, host, made, grant, done>>,
         around'.rules = around.rules,
         tracked' \in [Name -> {None, "creating", "active"}],
         around' \in [bus : BOOLEAN, polkit : BOOLEAN, rules : Rules, helpers : Helpers],
         daemon' \in [up : BOOLEAN, authorizer : BOOLEAN, queue : Seq(Call), serving : Served,
                      busy : BOOLEAN, making : Name \cup {None}],
         daemon'.queue = daemon.queue, daemon'.serving = daemon.serving,
         daemon'.authorizer = daemon.authorizer, DownIsIdle'
  PROVE  Inv'
<1>1. Shape'
  BY DEF Inv, Shape
<1>2. OnePath'
  BY DEF Inv, OnePath, IsNs
<1>3. GrantsKept
  BY StillKept DEF Inv
<1> QED BY <1>1, <1>2, <1>3, WorldStep

\* A step that changes what is at a path.
(* A step of a pass or of ip netns that changes what is at a path.         *)
LEMMA PathStep ==
  ASSUME Inv, UNCHANGED <<wish, client, around, done>>,
         NEW n \in Name, NEW thing, Note(n, thing),
         \/ made' = made /\ thing \in {Absent, Placeholder}
         \/ made' = made + 1 /\ thing = made + 1,
         tracked' \in [Name -> {None, "creating", "active"}],
         daemon' \in [up : BOOLEAN, authorizer : BOOLEAN, queue : Seq(Call), serving : Served,
                      busy : BOOLEAN, making : Name \cup {None}],
         daemon'.queue = daemon.queue, daemon'.serving = daemon.serving,
         daemon'.authorizer = daemon.authorizer, DownIsIdle'
  PROVE  Inv'
<1>1. /\ GrantsKept /\ OnePath' /\ made' \in Nat /\ host' \in [Name -> Absent .. made']
      /\ grant' \in [Client -> [path : Name \cup {None}, seen : SUBSET Int]]
  BY NoteKeeps DEF Inv
<1>2. Shape'
  BY <1>1 DEF Inv, Shape
<1> QED BY <1>1, <1>2, WorldStep

(* The steps of a pass.                                                    *)
LEMMA PassStep ==
  ASSUME Inv, Pass
  PROVE  Inv'
<1>1. /\ daemon \in [up : BOOLEAN, authorizer : BOOLEAN, queue : Seq(Call), serving : Served,
                     busy : BOOLEAN, making : Name \cup {None}]
      /\ tracked \in [Name -> {None, "creating", "active"}]
      /\ around \in [bus : BOOLEAN, polkit : BOOLEAN, rules : Rules, helpers : Helpers]
      /\ UNCHANGED <<wish, around>>
  BY DEF Inv, Shape, Pass
<1>2. DownIsIdle
  BY DEF Inv
<1>3. CASE BeginPass
  <2>1. daemon' = [daemon EXCEPT !.busy = TRUE] /\ daemon.up
    BY <1>3 DEF BeginPass
  <2>2. /\ daemon' \in [up : BOOLEAN, authorizer : BOOLEAN, queue : Seq(Call), serving : Served,
                        busy : BOOLEAN, making : Name \cup {None}]
        /\ daemon'.queue = daemon.queue /\ daemon'.serving = daemon.serving
        /\ daemon'.authorizer = daemon.authorizer /\ daemon'.up
    BY <1>1, <2>1
  <2>3. DownIsIdle'
    BY <1>2, <2>2 DEF DownIsIdle
  <2> QED BY <1>1, <1>3, <2>2, <2>3, StillStep DEF BeginPass
<1>4. CASE EndPass
  <2>1. daemon' = [daemon EXCEPT !.busy = FALSE]
    BY <1>4 DEF EndPass
  <2>2. /\ daemon' \in [up : BOOLEAN, authorizer : BOOLEAN, queue : Seq(Call), serving : Served,
                        busy : BOOLEAN, making : Name \cup {None}]
        /\ daemon'.queue = daemon.queue /\ daemon'.serving = daemon.serving
        /\ daemon'.authorizer = daemon.authorizer /\ daemon'.up = daemon.up /\ ~daemon'.busy
    BY <1>1, <2>1
  <2>3. DownIsIdle'
    BY <1>2, <2>2 DEF DownIsIdle
  <2> QED BY <1>1, <1>4, <2>2, <2>3, StillStep DEF EndPass
<1>5. CASE EndCreation
  <2>1. daemon' = [daemon EXCEPT !.making = None] /\ daemon.making \in Name
    BY <1>1, <1>5 DEF EndCreation
  <2>2. /\ daemon' \in [up : BOOLEAN, authorizer : BOOLEAN, queue : Seq(Call), serving : Served,
                        busy : BOOLEAN, making : Name \cup {None}]
        /\ daemon'.queue = daemon.queue /\ daemon'.serving = daemon.serving
        /\ daemon'.authorizer = daemon.authorizer /\ daemon'.up = daemon.up /\ daemon'.busy = daemon.busy
    BY <1>1, <2>1
  <2>3. DownIsIdle'
    BY <1>2, <2>2 DEF DownIsIdle
  <2>4. tracked' \in [Name -> {None, "creating", "active"}]
    BY <1>1, <1>5, <2>1 DEF EndCreation
  <2> QED BY <1>1, <1>5, <2>2, <2>3, <2>4, StillStep DEF EndCreation
<1>6. CASE Mount
  <2>1. /\ daemon.making \in Name /\ daemon' = daemon /\ made' = made + 1
        /\ Note(daemon.making, made + 1) /\ UNCHANGED <<client, tracked, done>>
    BY <1>1, <1>6 DEF Mount
  <2>2. DownIsIdle'
    BY <1>2, <2>1 DEF DownIsIdle
  <2> QED BY <1>1, <2>1, <2>2, PathStep
<1>7. ASSUME NEW n \in Name, Adopt(n)
      PROVE  Inv'
  <2>1. tracked' \in [Name -> {None, "creating", "active"}] /\ daemon' = daemon
    BY <1>1, <1>7 DEF Adopt
  <2>2. DownIsIdle'
    BY <1>2, <2>1 DEF DownIsIdle
  <2> QED BY <1>1, <1>7, <2>1, <2>2, StillStep DEF Adopt
<1>8. ASSUME NEW n \in Name, BeginCreation(n)
      PROVE  Inv'
  <2>1. /\ daemon' = [daemon EXCEPT !.making = n] /\ tracked' = [tracked EXCEPT ![n] = "creating"]
        /\ Note(n, Placeholder) /\ UNCHANGED <<client, made, done>>
    BY <1>8 DEF BeginCreation
  <2>2. /\ daemon' \in [up : BOOLEAN, authorizer : BOOLEAN, queue : Seq(Call), serving : Served,
                        busy : BOOLEAN, making : Name \cup {None}]
        /\ daemon'.queue = daemon.queue /\ daemon'.serving = daemon.serving
        /\ daemon'.authorizer = daemon.authorizer /\ daemon'.up = daemon.up /\ daemon'.busy = daemon.busy
        /\ tracked' \in [Name -> {None, "creating", "active"}]
    BY <1>1, <2>1
  <2>3. DownIsIdle'
    BY <1>2, <2>2 DEF DownIsIdle
  <2> QED BY <1>1, <2>1, <2>2, <2>3, PathStep
<1> QED BY <1>3, <1>4, <1>5, <1>6, <1>7, <1>8 DEF Pass

(* The start of the daemon.                                                *)
LEMMA StartStep ==
  ASSUME Inv, Start
  PROVE  Inv'
<1>1. /\ around' = [around EXCEPT !.bus = TRUE] /\ daemon' = [daemon EXCEPT !.up = around.bus]
      /\ ~daemon.up /\ UNCHANGED <<wish, client, tracked, host, made, grant, done>>
  BY DEF Start
<1>2. /\ daemon \in [up : BOOLEAN, authorizer : BOOLEAN, queue : Seq(Call), serving : Served,
                     busy : BOOLEAN, making : Name \cup {None}]
      /\ tracked \in [Name -> {None, "creating", "active"}]
      /\ around \in [bus : BOOLEAN, polkit : BOOLEAN, rules : Rules, helpers : Helpers]
  BY DEF Inv, Shape
<1>3. /\ daemon' \in [up : BOOLEAN, authorizer : BOOLEAN, queue : Seq(Call), serving : Served,
                      busy : BOOLEAN, making : Name \cup {None}]
      /\ daemon'.queue = daemon.queue /\ daemon'.serving = daemon.serving
      /\ daemon'.authorizer = daemon.authorizer /\ daemon'.busy = daemon.busy
      /\ around' \in [bus : BOOLEAN, polkit : BOOLEAN, rules : Rules, helpers : Helpers]
      /\ around'.rules = around.rules
  BY <1>1, <1>2
<1>4. DownIsIdle'
  BY <1>1, <1>3 DEF Inv, DownIsIdle
<1> QED BY <1>1, <1>2, <1>3, <1>4, StillStep

\* A crash answers those who wait, and ends what was under way.
(* A crash loses the calls, and their clients wait until their time is     *)
(* up.                                                                     *)
LEMMA CrashStep ==
  ASSUME Inv, Crash, wish' = wish
  PROVE  Inv'
<1>1. /\ daemon' = [daemon EXCEPT !.up = FALSE, !.queue = <<>>, !.serving = NoCall,
                                  !.busy = FALSE, !.making = None]
      /\ client' = [c \in Client |->
                      IF client[c].at \in Waiting /\ client[c].reply = NoReply
                      THEN [client[c] EXCEPT !.reply.verdict = "lost"] ELSE client[c]]
      /\ tracked' = [n \in Name |-> None] /\ UNCHANGED <<host, made, around, grant, done>>
  BY DEF Crash
<1>2. /\ daemon \in [up : BOOLEAN, authorizer : BOOLEAN, queue : Seq(Call), serving : Served,
                     busy : BOOLEAN, making : Name \cup {None}]
      /\ client \in [Client -> Process]
  BY DEF Inv, Shape
<1>3. /\ daemon'.queue = <<>> /\ daemon'.serving = NoCall /\ daemon'.serving.from = None
      /\ daemon'.serving.step = None /\ ~daemon'.busy /\ daemon'.authorizer = daemon.authorizer
  BY <1>1, <1>2 DEF NoCall
<1>4. daemon' \in [up : BOOLEAN, authorizer : BOOLEAN, queue : Seq(Call), serving : Served,
                   busy : BOOLEAN, making : Name \cup {None}]
  <2>1. <<>> \in Seq(Call) /\ NoCall \in Served
    BY DEF NoCall, Served, None
  <2> QED BY <1>1, <1>2, <2>1
<1>5. ASSUME NEW d \in Client
      PROVE  /\ client'[d] \in Process
             /\ ClientOk(d, wish[d], client'[d], grant[d], Mine(done, d), {None}, host)
  <2>1. ClientOk(d, wish[d], client[d], grant[d], Mine(done, d),
                 Calls(daemon.queue, daemon.serving.from), host) /\ client[d] \in Process
    BY <1>2 DEF Inv, ClientsOk
  <2>2. d # None
    BY ClientAssumption DEF None
  <2>3. CASE client[d].at \in Waiting /\ client[d].reply = NoReply
    <3> DEFINE r == [client[d].reply EXCEPT !.verdict = "lost"]
               p == [client[d] EXCEPT !.reply = r]
    <3>1. client'[d] = p
      BY <1>1, <2>3
    <3>2. r.verdict = "lost" /\ r \in [verdict : Verdict, path : Name \cup {None}]
      BY <2>1 DEF Process, Verdict
    <3>3. /\ p.at = client[d].at /\ p.tries = client[d].tries /\ p.says = client[d].says
          /\ p.reply.verdict = "lost" /\ p.ids = client[d].ids /\ p \in Process
      BY <2>1, <3>2 DEF Process
    <3> HIDE DEF p
    <3>4. ClientOk(d, wish[d], p, grant[d], Mine(done, d), {None}, host)
      BY <2>1, <2>2, <2>3, <3>3 DEF ClientOk, Waiting, Entering, TellsOf
    <3> QED BY <3>1, <3>3, <3>4
  <2>4. CASE ~(client[d].at \in Waiting /\ client[d].reply = NoReply)
    <3>1. client'[d] = client[d]
      BY <1>1, <2>4
    <3>2. ClientOk(d, wish[d], client[d], grant[d], Mine(done, d), {None}, host)
      BY <2>1, <2>2 DEF ClientOk
    <3> QED BY <2>1, <3>1, <3>2
  <2> QED BY <2>3, <2>4
<1>6. client' \in [Client -> Process]
  <2>1. \A d \in Client : client'[d] \in Process
    BY <1>5
  <2> QED BY ONLY <2>1, <1>1
<1>7. Shape'
  BY <1>1, <1>4, <1>6 DEF Inv, Shape
<1>8. Calls(daemon'.queue, daemon'.serving.from) = {None}
  BY <1>3 DEF Calls
<1>9. ClientsOk'
  BY <1>1, <1>5, <1>8, ClientsRebuilt
<1>10. CallsOk'
  BY <1>3, CallsRebuilt DEF OneCall
<1>11. CheckedOk'
  BY <1>1, <1>3, CheckedRebuilt DEF Inv, CheckedOk
<1>12. OnePath' /\ DownIsIdle'
  BY <1>1, <1>3 DEF Inv, OnePath, IsNs, DownIsIdle
<1> QED BY <1>7, <1>9, <1>10, <1>11, <1>12 DEF Inv

(* The events of the surroundings: a crash, PolicyKit going or coming, ip  *)
(* netns.                                                                  *)
LEMMA EventStep ==
  ASSUME Inv, Event
  PROVE  Inv'
<1>1. wish' = wish
  BY DEF Event
<1>2. CASE Crash
  BY <1>1, <1>2, CrashStep
<1>3. CASE PolicyKit
  <2>1. /\ around' = [around EXCEPT !.polkit = ~@]
        /\ UNCHANGED <<client, daemon, tracked, host, made, grant, done>>
    BY <1>3 DEF PolicyKit, served
  <2>2. around \in [bus : BOOLEAN, polkit : BOOLEAN, rules : Rules, helpers : Helpers]
    BY DEF Inv, Shape
  <2>3. /\ around' \in [bus : BOOLEAN, polkit : BOOLEAN, rules : Rules, helpers : Helpers]
        /\ around'.rules = around.rules
    BY <2>1, <2>2
  <2>4. DownIsIdle'
    BY <2>1 DEF Inv, DownIsIdle
  <2> QED BY <1>1, <2>1, <2>3, <2>4, StillStep DEF Inv, Shape
<1>4. ASSUME NEW n \in Name, IpNetnsDelete(n) \/ IpNetnsAdd(n)
      PROVE  Inv'
  <2>1. UNCHANGED <<client, daemon, tracked, around, done>>
    BY <1>4 DEF IpNetnsDelete, IpNetnsAdd
  <2>2. DownIsIdle'
    BY <2>1 DEF Inv, DownIsIdle
  <2>3. /\ tracked' \in [Name -> {None, "creating", "active"}]
        /\ daemon' \in [up : BOOLEAN, authorizer : BOOLEAN, queue : Seq(Call), serving : Served,
                        busy : BOOLEAN, making : Name \cup {None}]
    BY <2>1 DEF Inv, Shape
  <2>4. CASE IpNetnsDelete(n)
    BY <1>1, <2>1, <2>2, <2>3, <2>4, PathStep DEF IpNetnsDelete
  <2>5. CASE IpNetnsAdd(n)
    BY <1>1, <2>1, <2>2, <2>3, <2>5, PathStep DEF IpNetnsAdd
  <2> QED BY <1>4, <2>4, <2>5
<1> QED BY <1>2, <1>3, <1>4 DEF Event

-----------------------------------------------------------------------------
(* The clients.                                                            *)

\* A client that has an answer, or is not waiting for one, has no call.
(* A client that has its answer, or has not asked, has no call under way.  *)
LEMMA NotCalling ==
  ASSUME Inv, NEW c \in Client,
         \/ client[c].at \in Waiting /\ client[c].reply # NoReply
         \/ client[c].at \in {"connect", "confirm"} \cup Entering
  PROVE  c \notin Calls(daemon.queue, daemon.serving.from)
<1>1. ClientOk(c, wish[c], client[c], grant[c], Mine(done, c),
               Calls(daemon.queue, daemon.serving.from), host)
  BY DEF Inv, ClientsOk
<1> QED BY <1>1 DEF ClientOk, Waiting, Entering

\* A step of a client alone.
(* A step of a client that changes only itself.                            *)
LEMMA OwnStep ==
  ASSUME Inv, UNCHANGED <<wish, daemon, tracked, host, made, around, grant, done>>,
         NEW c \in Client, NEW p \in Process, client' = [client EXCEPT ![c] = p],
         c \in Calls(daemon.queue, daemon.serving.from) => p.at \in {"failing", "exited"},
         client[c].at = "exited" => p.at = "exited",
         ClientOk(c, wish[c], p, grant[c], Mine(done, c),
                  Calls(daemon.queue, daemon.serving.from), host)
  PROVE  Inv'
<1>1. client \in [Client -> Process]
  BY DEF Inv, Shape
<1>2. client' \in [Client -> Process] /\ client'[c] = p /\ \A d \in Client \ {c} : client'[d] = client[d]
  BY <1>1
<1>3. Shape' /\ OnePath' /\ DownIsIdle'
  BY <1>2 DEF Inv, Shape, OnePath, IsNs, DownIsIdle
<1>4. ClientsOk'
  BY <1>2, ClientsRebuilt DEF Inv, ClientsOk
<1>5. ASSUME NEW i \in DOMAIN daemon.queue
      PROVE  QueuedOk(daemon.queue[i], wish[daemon.queue[i].from], client'[daemon.queue[i].from],
                      Mine(done, daemon.queue[i].from))
  <2>1. QueuedOk(daemon.queue[i], wish[daemon.queue[i].from], client[daemon.queue[i].from],
                 Mine(done, daemon.queue[i].from)) /\ daemon.queue[i].from \in Client
    BY Callers DEF Inv, CallsOk
  <2>2. daemon.queue[i].from = c => p.at \in {"failing", "exited"}
    BY DEF Calls
  <2> QED BY <1>2, <2>1, <2>2 DEF QueuedOk
<1>6. ASSUME daemon.serving.step # None
      PROVE  /\ daemon.serving.from \in Client
             /\ ServedOk(daemon.serving, wish[daemon.serving.from], client'[daemon.serving.from],
                         Mine(done, daemon.serving.from))
  <2>1. ServedOk(daemon.serving, wish[daemon.serving.from], client[daemon.serving.from],
                 Mine(done, daemon.serving.from)) /\ daemon.serving.from \in Client
    BY <1>6 DEF Inv, CallsOk
  <2>2. daemon.serving.from = c => p.at \in {"failing", "exited"}
    BY DEF Calls
  <2> QED BY <1>2, <2>1, <2>2 DEF ServedOk
<1>7. CallsOk'
  BY <1>5, <1>6, CallsRebuilt DEF Inv, CallsOk
<1>8. CheckedOk'
  BY CheckedRebuilt DEF Inv, CheckedOk
<1> QED BY <1>3, <1>4, <1>7, <1>8 DEF Inv

\* A client that calls, and had no call and nothing done for it before.
(* A client sends a call.                                                  *)
LEMMA AskStep ==
  ASSUME Inv, UNCHANGED <<wish, tracked, host, made, around, grant, done>>,
         NEW c \in Client, c \notin Calls(daemon.queue, daemon.serving.from),
         client[c].at \in {"connect", "verify", "probe", "confirm"},
         NEW stage, NEW what, Ask(c, stage, what),
         \/ what = "introspect" /\ stage \in {"verify", "probe"}
         \/ what = wish[c].command /\ stage = "method"
  PROVE  Inv'
<1> DEFINE reply == IF daemon.up THEN NoReply ELSE [NoReply EXCEPT !.verdict = "lost"]
           p == [client[c] EXCEPT !.at = stage, !.reply = reply]
           queue == IF daemon.up THEN Append(daemon.queue, [from |-> c, what |-> what]) ELSE daemon.queue
<1>1. /\ daemon \in [up : BOOLEAN, authorizer : BOOLEAN, queue : Seq(Call), serving : Served,
                     busy : BOOLEAN, making : Name \cup {None}]
      /\ client \in [Client -> Process] /\ client[c] \in Process
  BY DEF Inv, Shape
<1>2. [from |-> c, what |-> what] \in Call /\ stage \in Waiting
  BY Named DEF Call, Waiting, Inv
<1>3. \/ what = "introspect" /\ stage \in {"verify", "probe"}
      \/ what # "introspect" /\ what = wish[c].command /\ stage = "method"
  BY Named, Commands DEF Inv
<1>4. client' = [client EXCEPT ![c].at = stage, ![c].reply = reply]
  BY DEF Ask
<1>5. \/ daemon.up /\ daemon' = [daemon EXCEPT !.queue = Append(daemon.queue, [from |-> c, what |-> what])]
      \/ ~daemon.up /\ daemon' = daemon
  BY <1>1 DEF Ask
<1>6. reply \in [verdict : Verdict, path : Name \cup {None}] /\ (daemon.up => reply = NoReply)
      /\ reply.verdict \in {None, "lost"}
  BY DEF NoReply, Verdict
<1> HIDE DEF reply
<1>7. p \in Process /\ p.at = stage /\ p.reply = reply /\ p.says = client[c].says /\ p.ids = client[c].ids
  BY <1>1, <1>2, <1>6 DEF Process
<1>8. /\ client' \in [Client -> Process] /\ client'[c] = p
      /\ \A d \in Client \ {c} : client'[d] = client[d]
  BY <1>1, <1>4, <1>7
<1>9. /\ daemon'.queue = queue /\ daemon'.serving = daemon.serving /\ daemon'.up = daemon.up
      /\ daemon'.authorizer = daemon.authorizer /\ daemon'.busy = daemon.busy
  BY <1>1, <1>5
<1>10. queue \in Seq(Call)
  BY <1>1, <1>2, Added
<1>11. daemon' \in [up : BOOLEAN, authorizer : BOOLEAN, queue : Seq(Call), serving : Served,
                    busy : BOOLEAN, making : Name \cup {None}]
  BY <1>1, <1>5, <1>10
<1>12. \A i \in DOMAIN queue :
         \/ i \in DOMAIN daemon.queue /\ queue[i] = daemon.queue[i]
         \/ daemon.up /\ i = Len(daemon.queue) + 1 /\ queue[i] = [from |-> c, what |-> what]
  <2>1. CASE daemon.up
    <3>1. queue = Append(daemon.queue, [from |-> c, what |-> what])
      BY <2>1
    <3> QED BY <1>1, <1>2, <2>1, <3>1, Added
  <2>2. CASE ~daemon.up
    BY <2>2
  <2> QED BY <2>1, <2>2
<1>13. /\ \A i \in DOMAIN daemon.queue : daemon.queue[i].from # c
       /\ daemon.serving.from # c
  BY DEF Calls
<1>14. OneCall(daemon.queue, daemon.serving.from)
  BY DEF Inv, CallsOk
<1> HIDE DEF queue, p
<1>15. OneCall(queue, daemon.serving.from)
  <2>1. \A i, j \in DOMAIN queue : queue[i].from = queue[j].from => i = j
    BY <1>12, <1>13, <1>14 DEF OneCall
  <2>2. \A i \in DOMAIN queue : queue[i].from # daemon.serving.from
    BY <1>12, <1>13, <1>14 DEF OneCall
  <2> QED BY <2>1, <2>2 DEF OneCall
<1>16. /\ \A d \in Client \ {c} : d \in Calls(queue, daemon.serving.from)
                                  => d \in Calls(daemon.queue, daemon.serving.from)
       /\ c \in Calls(queue, daemon.serving.from) => daemon.up
  <2>1. ASSUME NEW d \in Client, d \in Calls(queue, daemon.serving.from), d # c
        PROVE  d \in Calls(daemon.queue, daemon.serving.from)
    <3>1. d = daemon.serving.from \/ \E i \in DOMAIN queue : d = queue[i].from
      BY <2>1 DEF Calls
    <3>2. d = daemon.serving.from \/ \E i \in DOMAIN daemon.queue : d = daemon.queue[i].from
      BY <2>1, <3>1, <1>12
    <3> QED BY <3>2 DEF Calls
  <2>2. ASSUME c \in Calls(queue, daemon.serving.from)
        PROVE  daemon.up
    <3>1. \E i \in DOMAIN queue : c = queue[i].from
      BY <2>2, <1>13 DEF Calls
    <3> QED BY <3>1, <1>12, <1>13
  <2> QED BY <2>1, <2>2
<1>17. \A d \in Client : /\ ClientOk(d, wish[d], client[d], grant[d], Mine(done, d),
                                     Calls(daemon.queue, daemon.serving.from), host)
                         /\ grant[d].path # None => host[grant[d].path] \in grant[d].seen
  BY DEF Inv, ClientsOk, ClientOk
<1>18. Mine(done, c) = {}
  BY <1>17 DEF ClientOk
<1>19. ClientOk(c, wish[c], p, grant[c], Mine(done, c), Calls(queue, daemon.serving.from), host)
  <2>1. p.says \in {None, "timeout"} /\ p.at \in Waiting /\ (p.at = "verify" \/ p.at = "probe" \/ p.at = "method")
    BY <1>2, <1>7, <1>17 DEF ClientOk, Waiting
  <2>2. /\ p.ids.real = Caller(c)
        /\ grant[c].path # None => host[grant[c].path] \in grant[c].seen
    BY <1>7, <1>17 DEF ClientOk
  <2>3. c \in Calls(queue, daemon.serving.from) => p.reply = NoReply
    BY <1>6, <1>7, <1>16
  <2>4. p.reply.verdict \in {None, "lost"}
    BY <1>6, <1>7
  <2> QED BY <1>18, <2>1, <2>2, <2>3, <2>4 DEF ClientOk, Entering, TellsOf, None
<1>20. ASSUME NEW d \in Client \ {c}
       PROVE  ClientOk(d, wish[d], client[d], grant[d], Mine(done, d), Calls(queue, daemon.serving.from), host)
  <2>1. /\ ClientOk(d, wish[d], client[d], grant[d], Mine(done, d),
                    Calls(daemon.queue, daemon.serving.from), host)
        /\ grant[d].path # None => host[grant[d].path] \in grant[d].seen
    BY <1>17
  <2>2. d \in Calls(queue, daemon.serving.from) => d \in Calls(daemon.queue, daemon.serving.from)
    BY <1>16
  <2> QED BY ONLY <2>1, <2>2, ClientKept
<1>21. ClientsOk'
  <2>1. \A d \in Client : ClientOk(d, wish'[d], client'[d], grant'[d], Mine(done', d),
                                   Calls(daemon'.queue, daemon'.serving.from), host')
    BY <1>8, <1>9, <1>19, <1>20
  <2> QED BY <2>1, ClientsRebuilt
<1>22. ASSUME NEW i \in DOMAIN queue
       PROVE  QueuedOk(queue[i], wish[queue[i].from], client'[queue[i].from], Mine(done, queue[i].from))
  <2>1. CASE i \in DOMAIN daemon.queue /\ queue[i] = daemon.queue[i]
    <3>1. queue[i].from \in Client \ {c}
      BY <2>1, <1>13, Callers DEF Inv
    <3>2. QueuedOk(queue[i], wish[queue[i].from], client[queue[i].from], Mine(done, queue[i].from))
      BY <2>1 DEF Inv, CallsOk
    <3> QED BY <3>1, <3>2, <1>8
  <2>2. CASE queue[i] = [from |-> c, what |-> what]
    <3>1. queue[i].from = c /\ queue[i].what = what
      BY <2>2
    <3> QED BY <3>1, <1>3, <1>7, <1>8, <1>18 DEF QueuedOk
  <2> QED BY <1>12, <2>1, <2>2
<1>23. ASSUME daemon.serving.step # None
       PROVE  /\ daemon.serving.from \in Client
              /\ ServedOk(daemon.serving, wish[daemon.serving.from], client'[daemon.serving.from],
                          Mine(done, daemon.serving.from))
  BY <1>8, <1>13, <1>23 DEF Inv, CallsOk
<1>24. CallsOk'
  BY <1>9, <1>15, <1>22, <1>23, CallsRebuilt
<1>25. CheckedOk'
  BY <1>9, CheckedRebuilt DEF Inv, CheckedOk
<1>26. Shape' /\ OnePath'
  BY <1>8, <1>11 DEF Inv, Shape, OnePath, IsNs
<1>27. DownIsIdle'
  <2>1. ~daemon.up => queue = daemon.queue
    BY DEF queue
  <2> QED BY <1>9, <2>1 DEF Inv, DownIsIdle
<1> QED BY <1>21, <1>24, <1>25, <1>26, <1>27 DEF Inv

\* The state of a client, and what holds of it.
(* What the invariant says of one client.                                  *)
LEMMA Own ==
  ASSUME Inv, NEW c \in Client
  PROVE  /\ client \in [Client -> Process] /\ client[c] \in Process
         /\ ClientOk(c, wish[c], client[c], grant[c], Mine(done, c),
                     Calls(daemon.queue, daemon.serving.from), host)
BY DEF Inv, Shape, ClientsOk

(* A client exits, and what it says of a restart is what was done.         *)
LEMMA ExitStep ==
  ASSUME Inv, UNCHANGED <<wish, daemon, tracked, host, made, around, grant, done>>,
         NEW c \in Client, c \notin Calls(daemon.queue, daemon.serving.from),
         NEW says, says \in Verdict \cup {"unavailable", "malformed", "cancelled", "no helper", "timeout", "not run"},
         Exit(c, says), wish[c].command = "restart" => TellsOf(says, Mine(done, c))
  PROVE  Inv'
<1> DEFINE p == [client[c] EXCEPT !.at = "exited", !.says = says]
<1>1. /\ client \in [Client -> Process] /\ client[c] \in Process
      /\ ClientOk(c, wish[c], client[c], grant[c], Mine(done, c),
                  Calls(daemon.queue, daemon.serving.from), host)
  BY Own
<1>2. client' = [client EXCEPT ![c] = p]
  BY <1>1 DEF Exit
<1>3. /\ p \in Process /\ p.at = "exited" /\ p.says = says /\ p.reply = client[c].reply
      /\ p.ids = client[c].ids
  BY <1>1 DEF Process
<1> HIDE DEF p
<1>4. ClientOk(c, wish[c], p, grant[c], Mine(done, c), Calls(daemon.queue, daemon.serving.from), host)
  BY <1>1, <1>3 DEF ClientOk, Entering
<1> QED BY <1>2, <1>3, <1>4, OwnStep

(* A client connects, or gives up after its retries.                       *)
LEMMA ConnectStep ==
  ASSUME Inv, NEW c \in Client, Connect(c)
  PROVE  Inv'
<1>1. client[c].at = "connect" /\ c \notin Calls(daemon.queue, daemon.serving.from)
  BY NotCalling DEF Connect
<1>2. UNCHANGED <<wish, tracked, host, made, around, grant, done>>
  BY DEF Connect
<1>3. CASE Ask(c, "verify", "introspect")
  BY <1>1, <1>2, <1>3, AskStep
<1>4. CASE /\ client' = [client EXCEPT ![c].tries = @ + 1,
                           ![c].at = IF client[c].tries + 1 = MaxTries THEN "exited" ELSE @]
           /\ UNCHANGED daemon
  <2> DEFINE p == [client[c] EXCEPT !.tries = @ + 1,
                                    !.at = IF client[c].tries + 1 = MaxTries THEN "exited" ELSE @]
  <2>1. /\ client \in [Client -> Process] /\ client[c] \in Process
        /\ ClientOk(c, wish[c], client[c], grant[c], Mine(done, c),
                    Calls(daemon.queue, daemon.serving.from), host)
    BY Own
  <2>2. client' = [client EXCEPT ![c] = p]
    BY <1>4, <2>1
  <2>3. client[c].tries \in Nat /\ client[c].tries < MaxTries /\ MaxTries \in Nat
    <3>1. MaxTries \in Nat
      BY ClientAssumption
    <3>2. client[c].tries \in 0 .. MaxTries
      BY <2>1 DEF Process
    <3>3. client[c].tries < MaxTries
      BY <1>1, <2>1 DEF ClientOk
    <3> QED BY ONLY <3>1, <3>2, <3>3
  <2>4. /\ p \in Process /\ p.at \in {"connect", "exited"} /\ p.says = client[c].says
        /\ p.reply = client[c].reply /\ p.ids = client[c].ids
        /\ p.at = "connect" => p.tries < MaxTries
    <3>1. client[c].tries + 1 \in 0 .. MaxTries /\ (client[c].tries + 1 # MaxTries => client[c].tries + 1 < MaxTries)
      BY ONLY <2>3
    <3>2. p.tries = client[c].tries + 1 /\ p.at = IF client[c].tries + 1 = MaxTries THEN "exited" ELSE "connect"
      BY <1>1, <2>1 DEF Process
    <3>3. p.says = client[c].says /\ p.reply = client[c].reply /\ p.ids = client[c].ids
      BY <2>1 DEF Process
    <3>4. p \in Process
      BY <1>1, <2>1, <3>1 DEF Process
    <3> QED BY <3>1, <3>2, <3>3, <3>4
  <2> HIDE DEF p
  <2>5. ClientOk(c, wish[c], p, grant[c], Mine(done, c), Calls(daemon.queue, daemon.serving.from), host)
    BY <1>1, <2>1, <2>4 DEF ClientOk, Entering, TellsOf, None
  <2> QED BY <1>1, <1>2, <1>4, <2>2, <2>4, <2>5, OwnStep
<1> QED BY <1>3, <1>4 DEF Connect

(* A client's time is up; its call goes on without it.                     *)
LEMMA TimeoutStep ==
  ASSUME Inv, NEW c \in Client, Timeout(c) \/ GiveUp(c)
  PROVE  Inv'
<1>1. UNCHANGED <<wish, daemon, tracked, host, made, around, grant, done>>
  BY DEF Timeout, GiveUp
<1>2. /\ client \in [Client -> Process] /\ client[c] \in Process
      /\ ClientOk(c, wish[c], client[c], grant[c], Mine(done, c),
                  Calls(daemon.queue, daemon.serving.from), host)
  BY Own
<1>3. CASE Timeout(c)
  <2> DEFINE p == [client[c] EXCEPT !.at = "failing", !.says = "timeout"]
  <2>1. client' = [client EXCEPT ![c] = p] /\ client[c].at \in Waiting
    BY <1>2, <1>3 DEF Timeout
  <2>2. /\ p \in Process /\ p.at = "failing" /\ p.says = "timeout" /\ p.reply = client[c].reply
        /\ p.ids = client[c].ids
    BY <1>2 DEF Process
  <2> HIDE DEF p
  <2>3. ClientOk(c, wish[c], p, grant[c], Mine(done, c), Calls(daemon.queue, daemon.serving.from), host)
    BY <1>2, <2>2 DEF ClientOk, Entering, TellsOf
  <2> QED BY <1>1, <2>1, <2>2, <2>3, OwnStep DEF Waiting
<1>4. CASE GiveUp(c)
  <2> DEFINE p == [client[c] EXCEPT !.at = "exited"]
  <2>1. client' = [client EXCEPT ![c] = p] /\ client[c].at = "failing"
    BY <1>2, <1>4 DEF GiveUp
  <2>2. /\ p \in Process /\ p.at = "exited" /\ p.says = client[c].says /\ p.reply = client[c].reply
        /\ p.ids = client[c].ids
    BY <1>2 DEF Process
  <2> HIDE DEF p
  <2>3. ClientOk(c, wish[c], p, grant[c], Mine(done, c), Calls(daemon.queue, daemon.serving.from), host)
    BY <1>2, <2>1, <2>2 DEF ClientOk, Entering, TellsOf, Waiting
  <2> QED BY <1>1, <2>1, <2>2, <2>3, OwnStep
<1> QED BY <1>3, <1>4

(* A restart or a reload is confirmed at the terminal, or cancelled.       *)
LEMMA ConfirmStep ==
  ASSUME Inv, NEW c \in Client, Confirm(c)
  PROVE  Inv'
<1>1. client[c].at = "confirm" /\ c \notin Calls(daemon.queue, daemon.serving.from)
  BY NotCalling DEF Confirm
<1>2. UNCHANGED <<wish, tracked, host, made, around, grant, done>>
  BY DEF Confirm
<1>3. CASE AskMethod(c)
  BY <1>1, <1>2, <1>3, AskStep DEF AskMethod
<1>4. CASE Exit(c, "cancelled") /\ UNCHANGED daemon
  BY <1>1, <1>2, <1>4, ExitStep DEF TellsOf
<1> QED BY <1>3, <1>4 DEF Confirm

\* exec replaces the client by the helper, if one is found.
(* exec hands over to the helper with the path it was granted.             *)
LEMMA StartHelperStep ==
  ASSUME Inv, UNCHANGED <<wish, daemon, tracked, host, made, around, grant, done>>,
         NEW c \in Client, c \notin Calls(daemon.queue, daemon.serving.from),
         client[c].at = "method", wish[c].command = "exec", client[c].reply.verdict = "ok",
         StartHelper(c)
  PROVE  Inv'
<1>1. CASE Exit(c, "no helper")
  BY <1>1, ExitStep
<1>2. ASSUME NEW effective \in User,
             client' = [client EXCEPT ![c].at = "stat", ![c].path = client[c].reply.path,
                                      ![c].ids = Ids(Caller(c), effective)]
      PROVE  Inv'
  <2> DEFINE ids == Ids(Caller(c), effective)
             p == [client[c] EXCEPT !.at = "stat", !.path = client[c].reply.path, !.ids = ids]
  <2>1. /\ client \in [Client -> Process] /\ client[c] \in Process
        /\ ClientOk(c, wish[c], client[c], grant[c], Mine(done, c),
                    Calls(daemon.queue, daemon.serving.from), host)
    BY Own
  <2>2. client' = [client EXCEPT ![c] = p]
    BY <1>2, <2>1
  <2>3. ids \in [real : User, effective : User, saved : User] /\ ids.real = Caller(c)
    BY DEF Ids, Caller, User
  <2> HIDE DEF ids
  <2>4. /\ p \in Process /\ p.at = "stat" /\ p.path = client[c].reply.path /\ p.ids = ids
        /\ p.says = client[c].says
    BY <2>1, <2>3 DEF Process, Entering
  <2>5. grant[c].path # None /\ client[c].reply.path = grant[c].path
    BY <2>1 DEF ClientOk
  <2> HIDE DEF p
  <2>6. ClientOk(c, wish[c], p, grant[c], Mine(done, c), Calls(daemon.queue, daemon.serving.from), host)
    BY <2>1, <2>3, <2>4, <2>5 DEF ClientOk, Entering, None
  <2> QED BY <2>2, <2>4, <2>6, OwnStep
<1>3. "root" \in User /\ Caller(c) \in User
  BY DEF User, Caller
<1>4. \/ Exit(c, "no helper")
      \/ \E effective \in {"root", Caller(c)} :
           client' = [client EXCEPT ![c].at = "stat", ![c].path = client[c].reply.path,
                                    ![c].ids = Ids(Caller(c), effective)]
  BY DEF StartHelper
<1> QED BY <1>1, <1>2, <1>3, <1>4

(* A client reads its answer.                                              *)
LEMMA AnsweredStep ==
  ASSUME Inv, NEW c \in Client, Answered(c)
  PROVE  Inv'
<1>1. /\ client[c].at \in Waiting /\ client[c].reply # NoReply
      /\ UNCHANGED <<wish, tracked, host, made, around, grant, done>>
  BY DEF Answered
<1>2. c \notin Calls(daemon.queue, daemon.serving.from)
  BY <1>1, NotCalling
<1>3. /\ client[c] \in Process
      /\ ClientOk(c, wish[c], client[c], grant[c], Mine(done, c),
                  Calls(daemon.queue, daemon.serving.from), host)
  BY Own
<1>4. CASE client[c].at = "method" /\ Conclude(c)
  <2>1. UNCHANGED daemon
    BY <1>4 DEF Conclude
  <2>2. CASE Exit(c, client[c].reply.verdict)
    <3>1. client[c].reply.verdict \in Verdict
      BY <1>3 DEF Process
    <3>2. wish[c].command = "restart" => TellsOf(client[c].reply.verdict, Mine(done, c))
      BY <1>3, <1>4 DEF ClientOk
    <3> QED BY <1>1, <1>2, <2>1, <2>2, <3>1, <3>2, ExitStep
  <2>3. CASE wish[c].command = "exec" /\ client[c].reply.verdict = "ok" /\ StartHelper(c)
    BY <1>1, <1>2, <1>4, <2>1, <2>3, StartHelperStep
  <2> QED BY <1>4, <2>2, <2>3 DEF Conclude
<1>5. ASSUME NEW says \in {"unavailable", "malformed"}, Exit(c, says), UNCHANGED daemon
      PROVE  Inv'
  <2>1. TellsOf(says, Mine(done, c))
    BY DEF TellsOf
  <2> QED BY <1>1, <1>2, <1>5, <2>1, ExitStep
<1>6. CASE client[c].at = "verify" /\ Ask(c, "probe", "introspect")
  BY <1>1, <1>2, <1>6, AskStep
<1>7. CASE client[c].at = "probe" /\ Proceed(c)
  <2>1. CASE AskMethod(c)
    BY <1>1, <1>2, <1>7, <2>1, AskStep DEF AskMethod
  <2>2. CASE client' = [client EXCEPT ![c].at = "confirm"] /\ UNCHANGED daemon
    <3> DEFINE p == [client[c] EXCEPT !.at = "confirm"]
    <3>1. client' = [client EXCEPT ![c] = p]
      BY <2>2, Own
    <3>2. /\ p \in Process /\ p.at = "confirm" /\ p.says = client[c].says
          /\ p.reply = client[c].reply /\ p.ids = client[c].ids
      BY <1>3 DEF Process
    <3> HIDE DEF p
    <3>3. ClientOk(c, wish[c], p, grant[c], Mine(done, c), Calls(daemon.queue, daemon.serving.from), host)
      BY <1>2, <1>3, <1>7, <3>2 DEF ClientOk, Entering, TellsOf, None
    <3>4. client[c].at # "exited"
      BY <1>7
    <3> QED BY <1>1, <1>2, <2>2, <3>1, <3>2, <3>3, <3>4, OwnStep
  <2>3. \/ AskMethod(c)
        \/ client' = [client EXCEPT ![c].at = "confirm"] /\ UNCHANGED daemon
        \/ Exit(c, "malformed") /\ UNCHANGED daemon
    BY <1>7 DEF Proceed
  <2> QED BY <1>5, <2>1, <2>2, <2>3
<1>8. \/ client[c].at = "method" /\ Conclude(c)
      \/ Exit(c, "unavailable") /\ UNCHANGED daemon
      \/ client[c].at = "verify" /\ Ask(c, "probe", "introspect")
      \/ client[c].at = "probe" /\ Proceed(c)
  BY <1>1 DEF Answered, Waiting
<1> QED BY <1>4, <1>5, <1>6, <1>7, <1>8

-----------------------------------------------------------------------------
(* The helper.                                                             *)

\* One of its steps is a step of the client alone.
(* The helper opens and enters what is at the path then.                   *)
LEMMA EnterStep ==
  ASSUME Inv, NEW c \in Client, Enter(c)
  PROVE  Inv'
<1> DEFINE q == client[c]
<1>1. /\ client \in [Client -> Process] /\ q \in Process
      /\ ClientOk(c, wish[c], q, grant[c], Mine(done, c),
                  Calls(daemon.queue, daemon.serving.from), host)
  BY Own
<1>2. /\ q.at \in {"stat", "open", "enter", "drop", "command"}
      /\ UNCHANGED <<wish, daemon, tracked, host, made, around, grant, done>>
  BY DEF Enter, HelperStep
<1>3. c \notin Calls(daemon.queue, daemon.serving.from)
  BY <1>2, NotCalling DEF Entering
<1>4. /\ q.path = grant[c].path /\ grant[c].path \in Name /\ host[q.path] \in grant[c].seen
      /\ host[q.path] \in Int /\ q.says \in {None, "timeout"}
  <2>1. grant[c].path # None /\ q.path = grant[c].path /\ host[grant[c].path] \in grant[c].seen
        /\ q.says \in {None, "timeout"}
    BY <1>1, <1>2 DEF ClientOk, Entering
  <2>2. grant[c].path \in Name
    BY <2>1 DEF Inv, Shape
  <2>3. host[grant[c].path] \in Int
    BY <2>2 DEF Inv, Shape, Absent
  <2> QED BY <2>1, <2>2, <2>3
<1> HIDE DEF q
<1>5. ASSUME NEW p \in Process, client' = [client EXCEPT ![c] = p],
             p.says = q.says, p.path = q.path, p.ids.real = q.ids.real,
             p.at \in Entering,
             p.at = "enter" => p.fd \in grant[c].seen,
             p.at \in {"drop", "command", "running"} => IsNs(p.net) /\ p.net \in grant[c].seen,
             p.at \in {"command", "running"} => p.ids = Ids(Caller(c), Caller(c))
      PROVE  Inv'
  <2>1. ClientOk(c, wish[c], p, grant[c], Mine(done, c), Calls(daemon.queue, daemon.serving.from), host)
    BY <1>1, <1>2, <1>3, <1>4, <1>5, ClientAssumption DEF ClientOk, Entering, TellsOf, None
  <2>2. client[c].at # "exited"
    BY <1>2 DEF q
  <2> QED BY <1>2, <1>3, <1>5, <2>1, <2>2, OwnStep
<1>6. ASSUME client' = [client EXCEPT ![c] = Failing(q)]
      PROVE  Inv'
  <2>1. Exit(c, "not run")
    BY <1>1, <1>6 DEF Exit, Failing, q
  <2>2. TellsOf("not run", Mine(done, c))
    BY DEF TellsOf
  <2> QED BY <1>2, <1>3, <2>1, <2>2, ExitStep
<1>7. CASE HelperStep(c, "stat", ValidateNsPath)
  <2>1. CASE client' = [client EXCEPT ![c] = [q EXCEPT !.at = "open"]]
    <3>1. [q EXCEPT !.at = "open"] \in Process
      BY <1>1 DEF Process, Entering
    <3>2. \A p : p = [q EXCEPT !.at = "open"] =>
            p.at = "open" /\ p.says = q.says /\ p.path = q.path /\ p.ids = q.ids
      BY <1>1 DEF Process
    <3> QED BY <2>1, <3>1, <3>2, <1>5 DEF Entering
  <2> QED BY <1>6, <1>7, <2>1 DEF HelperStep, ValidateNsPath, q
<1>8. CASE HelperStep(c, "open", OpenNs)
  <2>1. CASE client' = [client EXCEPT ![c] = [q EXCEPT !.at = "enter", !.fd = host[q.path]]]
    <3>1. [q EXCEPT !.at = "enter", !.fd = host[q.path]] \in Process
      BY <1>1, <1>4 DEF Process, Entering
    <3>2. \A p : p = [q EXCEPT !.at = "enter", !.fd = host[q.path]] =>
            p.at = "enter" /\ p.fd = host[q.path] /\ p.says = q.says /\ p.path = q.path /\ p.ids = q.ids
      BY <1>1 DEF Process
    <3> QED BY <2>1, <3>1, <3>2, <1>4, <1>5 DEF Entering
  <2> QED BY <1>6, <1>8, <2>1 DEF HelperStep, OpenNs, q
<1>9. CASE HelperStep(c, "enter", Setns)
  <2>1. q.at = "enter" /\ q.fd \in grant[c].seen
    BY <1>1, <1>9 DEF HelperStep, ClientOk, q
  <2>2. CASE IsNs(q.fd) /\ client' = [client EXCEPT ![c] = [q EXCEPT !.at = "drop", !.net = q.fd]]
    <3>1. [q EXCEPT !.at = "drop", !.net = q.fd] \in Process
      BY <1>1 DEF Process, Entering
    <3>2. \A p : p = [q EXCEPT !.at = "drop", !.net = q.fd] =>
            p.at = "drop" /\ p.net = q.fd /\ p.says = q.says /\ p.path = q.path /\ p.ids = q.ids
      BY <1>1 DEF Process
    <3> QED BY <2>1, <2>2, <3>1, <3>2, <1>5 DEF Entering
  <2> QED BY <1>6, <1>9, <2>2 DEF HelperStep, Setns, q
<1>10. CASE HelperStep(c, "drop", DropIds)
  <2>1. q.at = "drop" /\ IsNs(q.net) /\ q.net \in grant[c].seen /\ q.ids.real = Caller(c)
    BY <1>1, <1>10 DEF HelperStep, ClientOk, q
  <2>2. client' = [client EXCEPT ![c] = [q EXCEPT !.at = "command", !.ids = Ids(Caller(c), Caller(c))]]
    BY <1>10, <2>1 DEF HelperStep, DropIds, q
  <2>3. Ids(Caller(c), Caller(c)) \in [real : User, effective : User, saved : User]
        /\ Ids(Caller(c), Caller(c)).real = Caller(c)
    BY DEF Ids, Caller, User
  <2>4. [q EXCEPT !.at = "command", !.ids = Ids(Caller(c), Caller(c))] \in Process
    BY <1>1, <2>3 DEF Process, Entering
  <2>5. \A p : p = [q EXCEPT !.at = "command", !.ids = Ids(Caller(c), Caller(c))] =>
          /\ p.at = "command" /\ p.net = q.net /\ p.says = q.says /\ p.path = q.path
          /\ p.ids = Ids(Caller(c), Caller(c))
    BY <1>1 DEF Process
  <2> QED BY <2>1, <2>2, <2>3, <2>4, <2>5, <1>5 DEF Entering
<1>11. CASE HelperStep(c, "command", LAMBDA p : [p EXCEPT !.at = "running"])
  <2>1. /\ q.at = "command" /\ IsNs(q.net) /\ q.net \in grant[c].seen
        /\ q.ids = Ids(Caller(c), Caller(c))
    BY <1>1, <1>11 DEF HelperStep, ClientOk, q
  <2>2. client' = [client EXCEPT ![c] = [q EXCEPT !.at = "running"]]
    BY <1>11 DEF HelperStep, q
  <2>3. [q EXCEPT !.at = "running"] \in Process
    BY <1>1 DEF Process, Entering
  <2>4. \A p : p = [q EXCEPT !.at = "running"] =>
          /\ p.at = "running" /\ p.net = q.net /\ p.says = q.says /\ p.path = q.path /\ p.ids = q.ids
    BY <1>1 DEF Process
  <2> QED BY <2>1, <2>2, <2>3, <2>4, <1>5 DEF Entering
<1>12. CASE HelperStep(c, "command", Failing)
  BY <1>6, <1>12 DEF HelperStep, q
<1> QED BY <1>7, <1>8, <1>9, <1>10, <1>11, <1>12 DEF Enter

(* The helper runs the command where it is.                                *)
LEMMA RunCommandStep ==
  ASSUME Inv, NEW c \in Client, RunCommand(c)
  PROVE  Inv'
BY ConnectStep, AnsweredStep, TimeoutStep, EnterStep DEF RunCommand

-----------------------------------------------------------------------------
(* The invariant, and the properties it implies.                           *)

(* At the start nobody has asked for anything.                             *)
LEMMA InitInv == Init => Inv
<1> SUFFICES ASSUME Init PROVE Inv
  OBVIOUS
<1>1. PICK s \in Scene :
        /\ wish = s.wish
        /\ client = [c \in Client |->
                       [at |-> IF c \in s.away THEN "exited" ELSE "connect", tries |-> 0,
                        reply |-> NoReply, path |-> None, says |-> None, fd |-> Absent,
                        net |-> TheHosts, ids |-> Ids(Caller(c), Caller(c))]]
        /\ daemon = [up |-> s.bus, authorizer |-> s.authorizer, queue |-> <<>>, serving |-> NoCall,
                     busy |-> FALSE, making |-> None]
        /\ around = [bus |-> s.bus, polkit |-> TRUE, rules |-> s.rules, helpers |-> s.helpers]
  BY DEF Init
<1>2. /\ tracked = [n \in Name |-> None] /\ host = [n \in Name |-> Absent] /\ made = 0
      /\ grant = [c \in Client |-> [path |-> None, seen |-> {}]] /\ done = {}
  BY DEF Init
<1>3. /\ s.wish \in [Client -> [command : Command, name : Name]]
      /\ s.rules \in Rules /\ s.helpers \in Helpers /\ s.bus \in BOOLEAN /\ s.authorizer \in BOOLEAN
  BY ClientAssumption DEF Rules, Helpers
<1>4. client \in [Client -> Process]
  <2>1. ASSUME NEW c \in Client
        PROVE  [at |-> IF c \in s.away THEN "exited" ELSE "connect", tries |-> 0,
                reply |-> NoReply, path |-> None, says |-> None, fd |-> Absent,
                net |-> TheHosts, ids |-> Ids(Caller(c), Caller(c))] \in Process
    <3>1. 0 \in 0 .. MaxTries
      BY ClientAssumption
    <3>2. Ids(Caller(c), Caller(c)) \in [real : User, effective : User, saved : User]
      BY DEF Ids, Caller, User
    <3>3. NoReply \in [verdict : Verdict, path : Name \cup {None}] /\ Absent \in Int /\ TheHosts \in Int
      BY DEF NoReply, Verdict, Absent, TheHosts
    <3> QED BY <3>1, <3>2, <3>3 DEF Process, Verdict
  <2> QED BY <1>1, <2>1
<1>5. daemon \in [up : BOOLEAN, authorizer : BOOLEAN, queue : Seq(Call), serving : Served,
                  busy : BOOLEAN, making : Name \cup {None}]
  <2>1. <<>> \in Seq(Call) /\ NoCall \in Served
    BY DEF NoCall, Served, None
  <2> QED BY <1>1, <1>3, <2>1
<1>6. around \in [bus : BOOLEAN, polkit : BOOLEAN, rules : Rules, helpers : Helpers]
  BY <1>1, <1>3
<1>7. tracked \in [Name -> {None, "creating", "active"}] /\ made \in Nat
      /\ host \in [Name -> Absent .. made] /\ done \in SUBSET Deed
      /\ grant \in [Client -> [path : Name \cup {None}, seen : SUBSET Int]]
  BY <1>2 DEF Absent
<1>8. Shape
  BY <1>1, <1>3, <1>4, <1>5, <1>6, <1>7 DEF Shape
<1>9. /\ daemon.queue = <<>> /\ daemon.serving = NoCall /\ daemon.serving.step = None
      /\ daemon.serving.from = None /\ ~daemon.busy
  BY <1>1 DEF NoCall
<1>10. DownIsIdle
  BY <1>9 DEF DownIsIdle
<1>11. OnePath
  BY <1>2 DEF OnePath, IsNs, Absent
<1>12. CallsOk /\ CheckedOk
  BY <1>2, <1>9 DEF CallsOk, CheckedOk, OneCall
<1>13. ASSUME NEW c \in Client
       PROVE  ClientOk(c, wish[c], client[c], grant[c], Mine(done, c),
                       Calls(daemon.queue, daemon.serving.from), host)
  <2>1. /\ client[c].at \in {"connect", "exited"} /\ client[c].tries = 0 /\ client[c].says = None
        /\ client[c].ids.real = Caller(c)
    BY <1>1 DEF Ids
  <2>2. grant[c].path = None /\ Mine(done, c) = {}
    BY <1>2 DEF Mine
  <2>3. c \notin Calls(daemon.queue, daemon.serving.from)
    BY <1>9, ClientAssumption DEF Calls, None
  <2>4. 0 < MaxTries
    BY ClientAssumption
  <2> QED BY <2>1, <2>2, <2>3, <2>4 DEF ClientOk, Entering, TellsOf, None
<1> QED BY <1>8, <1>10, <1>11, <1>12, <1>13 DEF Inv, ClientsOk

(* Every step keeps the invariant.                                         *)
LEMMA NextInv == Inv /\ [Next]_vars => Inv'
<1> SUFFICES ASSUME Inv, [Next]_vars PROVE Inv'
  OBVIOUS
<1>1. CASE Next
  BY <1>1, RunCommandStep, ConfirmStep, ServeStep, PassStep, EventStep, StartStep DEF Next
<1>2. CASE UNCHANGED vars
  BY <1>2, StillStep DEF vars, Inv, Shape, DownIsIdle
<1> QED BY <1>1, <1>2

(* The inductive invariant holds throughout, for any clients, names and    *)
(* rules, and any number of crashes and changes by others.                 *)
THEOREM Invariance == Spec => []Inv
<1> QED BY InitInv, NextInv, PTL DEF Spec

(* Every client has at most one call, queued or served; a daemon that is   *)
(* down has none; a namespace is at one path (dbus_client.rs, netns.rs).   *)
THEOREM TypeCorrect == Spec => []TypeOK
<1>1. Inv => TypeOK
  <2> SUFFICES ASSUME Inv PROVE TypeOK
    OBVIOUS
  <2>1. ASSUME NEW c \in Client
        PROVE  /\ client[c].at \in Waiting \cup {"connect", "confirm", "stat", "open", "enter", "drop",
                                                 "command", "running", "failing", "exited"}
               /\ client[c].tries \in 0 .. MaxTries
               /\ client[c].path \in Name \cup {None}
    BY Own DEF Process, Entering
  <2>2. ASSUME NEW c \in Client
        PROVE  Cardinality({i \in DOMAIN daemon.queue : daemon.queue[i].from = c}) <= 1
    <3> DEFINE S == {i \in DOMAIN daemon.queue : daemon.queue[i].from = c}
    <3>1. \A i, j \in S : i = j
      BY DEF Inv, CallsOk, OneCall
    <3>2. CASE S = {}
      BY <3>2, FS_EmptySet
    <3>3. CASE S # {}
      <4>1. PICK i \in S : TRUE
        BY <3>3
      <4>2. S = {i}
        BY <3>1, <4>1
      <4>3. Cardinality({i}) = 1
        BY FS_Singleton
      <4> QED BY <4>2, <4>3
    <3> QED BY <3>2, <3>3
  <2>3. ASSUME NEW c \in Client, c \in {m.from : m \in ToSet(daemon.queue)}
        PROVE  daemon.serving.from # c
    <3>1. PICK i \in DOMAIN daemon.queue : daemon.queue[i].from = c
      BY <2>3 DEF ToSet
    <3> QED BY <3>1 DEF Inv, CallsOk, OneCall
  <2> QED BY <2>1, <2>2, <2>3 DEF TypeOK, Inv, Shape, OnePath, DownIsIdle
<1> QED BY <1>1, Invariance, PTL

(* A command runs only in a namespace that was at the granted path since   *)
(* the grant, never in the host's, and with its caller's ids alone         *)
(* (segwire-ns-enter).                                                     *)
THEOREM RunsInGrantedNamespace == Spec => []RunsWhereGranted
<1>1. Inv => RunsWhereGranted
  BY DEF Inv, ClientsOk, ClientOk, RunsWhereGranted, Entering
<1> QED BY <1>1, Invariance, PTL

(* With an authorizer, only a caller whom the rules allow it, or root, is  *)
(* granted anything, or has anything deleted or made for it, however       *)
(* PolicyKit comes and goes (check_authorization).                         *)
THEOREM PermittedAlone == Spec => []OnlyPermitted
<1>1. Inv => OnlyPermitted
  BY DEF Inv, CheckedOk, Permitted, OnlyPermitted
<1> QED BY <1>1, Invariance, PTL

(* With an authorizer, a call that outlived its client changes nothing     *)
(* (get_sender_process_info).                                              *)
THEOREM OverdueCallsAreVoid == Spec => []OverdueChangesNothing
<1>1. Inv => OverdueChangesNothing
  BY DEF Inv, CheckedOk, OverdueChangesNothing
<1> QED BY <1>1, Invariance, PTL

(* What a restart reports to its client is what happened, though the       *)
(* client may time out and the daemon crash on the way (RestartNamespace). *)
THEOREM VerdictsAreTrue == Spec => []VerdictIsTrue
<1>1. Inv => VerdictIsTrue
  BY DEF Inv, ClientsOk, ClientOk, TellsOf, Mine, VerdictIsTrue
<1> QED BY <1>1, Invariance, PTL
=============================================================================
