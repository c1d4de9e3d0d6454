--------------------------- MODULE Provisioning ---------------------------
(***************************************************************************)
(* From a file to a network: a file is loaded under ConfigRules, the state *)
(* manager (namespace_state.rs) makes the namespace and works through its  *)
(* links, addresses, routes and name servers, one request to the kernel at *)
(* a time (netlink.rs, netlink_raw.rs, wireguard_raw.rs), while the D-Bus  *)
(* service deletes namespaces, processes live in them and other programs   *)
(* make links. No failed request stops the work: each is only logged.      *)
(***************************************************************************)
EXTENDS ConfigRules

CONSTANTS
  Namespace,      \* the files, and the namespaces made from them
  Library,        \* what the files may hold at first, for each namespace a content
  Revision,       \* per namespace the contents an edit may give it
  Imports,        \* what import-wg is run with: the lines of a wg-quick file, the
                  \* name of the namespace and that of its link
  PrefixLength,   \* of the namespace prefix and its separator
  Physical,       \* names of the host's own interfaces
  MaxEvents       \* bound on edits, requests that fail for no reason of ours,
                  \* deletions over D-Bus and processes that enter, in all

ASSUME ProvisioningAssumption ==
  /\ DOMAIN Revision = Namespace /\ \A files \in Library : DOMAIN files = Namespace
  /\ {PrefixLength, MaxEvents} \subseteq Nat
  /\ Namespace \cap {"host", "detached", "none"} = {}
  /\ \A n \in Namespace : \A content \in {files[n] : files \in Library} \cup Revision[n] :
       IsOptional(content) /\ (content # <<>> => Shaped(content[1]))
  /\ \A w \in Imports : /\ IsList(w.lines) /\ \A line \in ToSet(w.lines) : IsWgLine(line)
                        /\ IsList(w.name) /\ IsList(w.ifname)

VARIABLES
  file,      \* content of each file
  loaded,    \* the manager's entry: an optional configuration
  status,    \* the state manager's status, "none" without a state
  built,     \* the configuration whose links were made
  applied,   \* the configuration whose routes and servers were set last
  mounted,   \* namespaces that exist under their name
  links,     \* the links of the host and of all namespaces
  routes,    \* per namespace the routes of the kernel
  servers,   \* per namespace the servers of /etc/netns/<name>/resolv.conf
  work,      \* namespace the pass works on, with the requests left to make
  call,      \* the DeleteNamespace call under way
  held,      \* namespaces, by name or "detached", that a process lives in
  cleaning,  \* namespaces the shutdown has still to clean up, or none
  spent,     \* what is used of the bounds
  spoiled    \* history: namespaces with a request that failed for no reason of
             \* ours, that were deleted while a pass or a process was in them, whose
             \* creation found the host without its interfaces or with its names
             \* taken, or whose pairs another configuration asked for

vars == <<file, loaded, status, built, applied, mounted, links, routes, servers,
          work, call, held, cleaning, spent, spoiled>>

None == "none"
Idle == [on |-> None, todo |-> <<>>]
NoCall == [on |-> None, stage |-> None]
Running == {None}

\* A link is known by who made it as what: a pair by its first end, the host's
\* own by their first name. The deletions so far tell apart what was made
\* before and after one.
Link(at, name, made, vif) ==
  [at |-> at, name |-> name, made |-> made, vif |-> vif, up |-> FALSE, addresses |-> {},
   key |-> <<>>, era |-> IF made = "host" THEN 0 ELSE spent.deletes]

LinkAt(place, name) == \E l \in links : l.at = place /\ l.name = name

TypeOK ==
  /\ \A n \in Namespace : file[n] \in {files[n] : files \in Library} \cup Revision[n] /\ Len(loaded[n]) <= 1
  /\ status \in [Namespace -> {None, "creating", "active", "failed"}]
  /\ mounted \subseteq Namespace
  /\ \A l \in links : l.at \in mounted \cup {"host", "detached"} /\ l.made \in Namespace \cup {"host"}
  /\ \A k, l \in links : k.at = l.at /\ k.name = l.name /\ k.name # <<>> => k = l
  /\ work.on \in Namespace \cup {None}
  /\ call.on \in Namespace \cup {None} /\ call.stage \in {None, "found", "unmounted"}
  /\ held \subseteq Namespace \cup {"detached"}
  /\ cleaning = Running \/ cleaning \subseteq Namespace
  /\ spoiled \subseteq Namespace

Init ==
  /\ file \in Library
  /\ loaded = [n \in Namespace |-> FromFile(file[n])]
  /\ status = [n \in Namespace |-> None]
  /\ built = [n \in Namespace |-> <<>>] /\ applied = built
  /\ mounted = {}
  /\ links = {Link("host", p, "host", p) : p \in Physical}
  /\ routes = [n \in Namespace |-> {}]
  /\ servers = [n \in Namespace |-> <<>>]
  /\ work = Idle /\ call = NoCall
  /\ held = {} /\ cleaning = Running
  /\ spent = [edits |-> 0, faults |-> 0, deletes |-> 0, visits |-> 0]
  /\ spoiled = {}

MayHappen == spent.edits + spent.faults + spent.deletes + spent.visits < MaxEvents

-----------------------------------------------------------------------------
(* The requests a configuration asks for, in the order they are made.      *)
Do(what, name, with) == [do |-> what, name |-> name, with |-> with]

VifRequest(v) ==
  CASE IsType(v.type, "veth") -> Do("pair", v.name, v)
    [] IsType(v.type, "wireguard") -> Do("wireguard", v.name, v)
    [] OTHER -> Do("create", v.name, v)

DefaultRoute(g) == [destination |-> <<Word("default", 7, "letters")>>, gateway |-> g,
                    metric |-> <<>>]

ReApply(c) ==
  [i \in DOMAIN c.routes |-> Do("route", c.name, c.routes[i])]
    \o [i \in DOMAIN c.gateway |-> Do("route", c.name, DefaultRoute(c.gateway[i]))]
    \o (IF c.servers = <<>> THEN <<>> ELSE <<Do("dns", c.name, c)>>)

Requests(c) ==
  [i \in DOMAIN c.vifs |-> VifRequest(c.vifs[i])]
    \o [i \in DOMAIN c.moves |-> Do("move", c.moves[i], <<>>)]
    \o ReApply(c)

Equip(v) == [i \in DOMAIN v.addresses |-> Do("address", v.name, v.addresses[i])]
              \o <<Do("up", v.name, v)>>

\* Faulty: the link is made ready before it is moved, which undoes it.
FollowInverted(r, c) ==
  CASE r.do = "pair" -> Equip(r.with) \o <<Do("move", r.name, <<>>), Do("hostUp", r.with.peer[1], <<>>)>>
    [] r.do = "create" -> Equip(r.with)
    [] r.do = "wireguard" -> Equip(r.with) \o [i \in DOMAIN c.wireguard |-> Do("configure", r.name, c.wireguard[i])]
    [] OTHER -> <<>>

\* What is asked for only once the request has succeeded.
Follow(r, c) ==
  CASE r.do = "pair" -> <<Do("moveVeth", r.name, r.with), Do("hostUp", r.with.peer[1], <<>>)>>
    [] r.do \in {"moveVeth", "create"} -> Equip(r.with)
    [] r.do = "wireguard" -> Equip(r.with) \o [i \in DOMAIN c.wireguard |-> Do("configure", r.name, c.wireguard[i])]
    [] OTHER -> <<>>

-----------------------------------------------------------------------------
(* What stands in the way of a request: checks of ours, values that only   *)
(* looked right to the rules, and the kernel's refusals.                   *)
Parses(t) == t[1].is # "word" => t[1].family # "lookalike"

\* Faulty: the links of all namespaces.
ListedAnywhere == links

\* The links a dump outside of all namespaces shows.
Listed == {l \in links : l.at = "host"}

IsListed(name) == \E l \in Listed : l.name = name

\* Faulty: the namespace is not looked for.
CanMoveAnywhere(n, name) == IsListed(name) /\ ~IsType(name, "lo") /\ ~LinkAt(n, name)

CanMove(n, name) ==
  n \in mounted /\ IsListed(name) /\ ~IsType(name, "lo") /\ ~LinkAt(n, name)

\* build_wireguard_peer takes an address and a port, no host name.
Builds(wg) ==
  \A p \in ToSet(wg.peers) : /\ \A e \in ToSet(p.endpoint) : e[1].host = "address"
                             /\ \A a \in ToSet(p.allowed) : Parses(a)

\* macvlan and ipvlan are refused for want of a parent link.
HasNoParent(v) == IsType(v.type, "macvlan") \/ IsType(v.type, "ipvlan")

Reachable(n) == \E l \in links : l.at = n /\ l.up /\ l.addresses # {}

Can(n, r) ==
  CASE r.do = "pair" -> ~IsListed(r.name) /\ ~IsListed(r.with.peer[1])
    [] r.do \in {"move", "moveVeth"} -> CanMove(n, r.name)
    [] r.do = "wireguard" -> n \in mounted /\ ~LinkAt(n, r.name)
    [] r.do = "create" -> n \in mounted /\ ~LinkAt(n, r.name) /\ ~HasNoParent(r.with)
    [] r.do = "up" -> n \in mounted /\ LinkAt(n, r.name)
    [] r.do = "address" -> n \in mounted /\ LinkAt(n, r.name) /\ Parses(r.with)
    [] r.do = "configure" -> n \in mounted /\ LinkAt(n, r.name) /\ Builds(r.with)
    [] r.do = "hostUp" -> LinkAt("host", r.name)
    [] r.do = "route" -> /\ n \in mounted /\ Reachable(n) /\ r.with \notin routes[n]
                         /\ Parses(r.with.destination) /\ Parses(r.with.gateway)
    [] r.do = "dns" -> n \in mounted

Change(place, name, NewLink(_)) ==
  links' = {IF l.at = place /\ l.name = name THEN NewLink(l) ELSE l : l \in links}

\* The kernel takes a moved link down and its addresses away.
MoveLink(n, name) ==
  links' = {IF l \in Listed /\ l.name = name
            THEN [l EXCEPT !.at = n, !.up = FALSE, !.addresses = {}] ELSE l : l \in links}

Effect(n, r) ==
  LET Up(l) == [l EXCEPT !.up = TRUE]
      WithAddress(l) == [l EXCEPT !.addresses = @ \cup {r.with}]
      WithKey(l) == [l EXCEPT !.key = r.with.key]
  IN CASE r.do = "pair" ->
            links' = links \cup {Link("host", name, n, r.name) : name \in {r.name, r.with.peer[1]}}
       [] r.do \in {"move", "moveVeth"} -> MoveLink(n, r.name)
       [] r.do \in {"wireguard", "create"} -> links' = links \cup {Link(n, r.name, n, r.name)}
       [] r.do = "address" -> Change(n, r.name, WithAddress)
       [] r.do = "up" -> Change(n, r.name, Up)
       [] r.do = "hostUp" -> Change("host", r.name, Up)
       [] r.do = "configure" -> Change(n, r.name, WithKey)
       [] OTHER -> UNCHANGED links

-----------------------------------------------------------------------------
(* A pass of the state manager.                                            *)
Load(n) ==
  /\ cleaning = Running
  /\ FromFile(file[n]) # <<>>
  /\ loaded' = [loaded EXCEPT ![n] = FromFile(file[n])]
  /\ UNCHANGED <<file, status, built, applied, mounted, links, routes, servers, work,
                 call, held, cleaning, spent, spoiled>>

\* Names of the pairs of a configuration.
PairNames(c) ==
  UNION {{v.name} \cup ToSet(v.peer) : v \in {v \in ToSet(c.vifs) : IsType(v.type, "veth")}}

Contended(c) ==
  \/ \E x \in ToSet(c.moves) : ~\E l \in Listed : l.name = x /\ l.made = "host"
  \/ \E x \in PairNames(c) : IsListed(x)

\* Who made the links on the host that a configuration asks for.
Robbed(c) == {l.made : l \in {l \in Listed : l.name \in ToSet(c.moves)}} \ {"host"}

FitsWithPrefix(c) == PrefixLength + Length(c.name) <= 63

BeginCreation(n) ==
  /\ cleaning = Running /\ work = Idle
  /\ status[n] = None /\ loaded[n] # <<>> /\ n \notin mounted
  /\ IF FitsWithPrefix(loaded[n][1])
     THEN /\ mounted' = mounted \cup {n}
          /\ status' = [status EXCEPT ![n] = "creating"]
          /\ work' = [on |-> n, todo |-> Requests(loaded[n][1])]
          /\ built' = [built EXCEPT ![n] = loaded[n]]
          /\ applied' = [applied EXCEPT ![n] = loaded[n]]
          /\ spoiled' = spoiled \cup Robbed(loaded[n][1]) \cup {m \in {n} : Contended(loaded[n][1])}
     ELSE /\ status' = [status EXCEPT ![n] = "failed"]
          /\ UNCHANGED <<mounted, work, built, applied, spoiled>>
  /\ UNCHANGED <<file, loaded, links, routes, servers, call, held, cleaning, spent>>

BeginUpdate(n) ==
  /\ cleaning = Running /\ work = Idle
  /\ status[n] = "active" /\ n \in mounted /\ loaded[n] # applied[n]
  /\ work' = [on |-> n, todo |-> ReApply(loaded[n][1])]
  /\ applied' = [applied EXCEPT ![n] = loaded[n]]
  /\ UNCHANGED <<file, loaded, status, built, mounted, links, routes, servers, call,
                 held, cleaning, spent, spoiled>>

Rest == Tail(work.todo)

Succeed ==
  LET n == work.on  r == Head(work.todo) IN
  /\ work.todo # <<>> /\ Can(n, r)
  /\ Effect(n, r)
  /\ routes' = IF r.do = "route" THEN [routes EXCEPT ![n] = @ \cup {r.with}] ELSE routes
  /\ servers' = IF r.do = "dns" THEN [servers EXCEPT ![n] = r.with.servers] ELSE servers
  /\ work' = [work EXCEPT !.todo = Follow(r, applied[n][1]) \o Rest]
  /\ UNCHANGED <<file, loaded, status, built, applied, mounted, call, held, cleaning,
                 spent, spoiled>>

\* Logged, and the requests that depended on it are not made.
Refused ==
  /\ work.todo # <<>> /\ ~Can(work.on, Head(work.todo))
  /\ work' = [work EXCEPT !.todo = Rest]
  /\ UNCHANGED <<file, loaded, status, built, applied, mounted, links, routes, servers,
                 call, held, cleaning, spent, spoiled>>

Fault ==
  /\ work.todo # <<>> /\ MayHappen
  /\ spent' = [spent EXCEPT !.faults = @ + 1]
  /\ spoiled' = spoiled \cup {work.on}
  /\ work' = [work EXCEPT !.todo = Rest]
  /\ UNCHANGED <<file, loaded, status, built, applied, mounted, links, routes, servers,
                 call, held, cleaning>>

EndWork ==
  /\ work.on # None /\ work.todo = <<>>
  /\ status' = [status EXCEPT ![work.on] = "active"]
  /\ work' = Idle
  /\ UNCHANGED <<file, loaded, built, applied, mounted, links, routes, servers, call,
                 held, cleaning, spent, spoiled>>

\* perform_maintenance: a failed state is dropped, and the next pass tries again.
Retry(n) ==
  /\ cleaning = Running /\ work = Idle
  /\ status[n] = "failed"
  /\ status' = [status EXCEPT ![n] = None]
  /\ UNCHANGED <<file, loaded, built, applied, mounted, links, routes, servers, work,
                 call, held, cleaning, spent, spoiled>>

-----------------------------------------------------------------------------
(* The end of a namespace. The kernel destroys it when no process is left: *)
(* links that were made go, with the other end of a pair, and the host's   *)
(* own return to it, under a name of the kernel's (<<>>, as no file has    *)
(* it) where their name is taken.                                          *)
Source(l) == <<l.made, l.vif, l.era>>

Destroyed(all, place) ==
  LET dying == {Source(l) : l \in {l \in all : l.at = place /\ l.made # "host"}}
      Free(name) == IF \E l \in all : l.at = "host" /\ l.name = name THEN <<>> ELSE name
  IN {IF l.at = place THEN Link("host", Free(l.name), "host", l.vif) ELSE l :
        l \in {l \in all : l.made = "host" \/ Source(l) \notin dying}}

\* umount2 with MNT_DETACH and unlink.
Unmount(n, all) ==
  /\ mounted' = mounted \ {n}
  /\ routes' = [routes EXCEPT ![n] = {}]
  /\ IF n \in held
     THEN /\ links' = {IF l.at = n THEN [l EXCEPT !.at = "detached"] ELSE l : l \in all}
          /\ held' = (held \ {n}) \cup {"detached"}
     ELSE /\ links' = Destroyed(all, n)
          /\ UNCHANGED held

\* delete_namespace_by_name: the state is looked up under the lock of the
\* pass, the namespace removed without it, the state removed under it.
BeginDelete(n) ==
  /\ cleaning = Running /\ work = Idle /\ call = NoCall
  /\ status[n] # None /\ MayHappen
  /\ spent' = [spent EXCEPT !.deletes = @ + 1]
  /\ call' = [on |-> n, stage |-> "found"]
  /\ UNCHANGED <<file, loaded, status, built, applied, mounted, links, routes, servers,
                 work, held, cleaning, spoiled>>

DeleteNetns ==
  /\ call.stage = "found" /\ "detached" \notin held
  /\ IF call.on \in mounted
     THEN Unmount(call.on, links) /\ call' = [call EXCEPT !.stage = "unmounted"]
     ELSE call' = NoCall /\ UNCHANGED <<mounted, routes, links, held>>
  /\ spoiled' = spoiled \cup ({call.on} \cap (held \cup {work.on}))
  /\ UNCHANGED <<file, loaded, status, built, applied, servers, work, cleaning, spent>>

EndDelete ==
  /\ call.stage = "unmounted" /\ work = Idle
  /\ status' = [status EXCEPT ![call.on] = None]
  /\ call' = NoCall
  /\ UNCHANGED <<file, loaded, built, applied, mounted, links, routes, servers, work,
                 held, cleaning, spent, spoiled>>

\* graceful_shutdown with cleanup_on_shutdown, between two passes.
Shutdown ==
  /\ cleaning = Running /\ work = Idle /\ call = NoCall
  /\ cleaning' = {n \in Namespace : loaded[n] # <<>>}
  /\ UNCHANGED <<file, loaded, status, built, applied, mounted, links, routes, servers,
                 work, call, held, spent, spoiled>>

\* Faulty: the namespace is deleted with the interfaces in it.
JustUnmount(n) ==
  /\ n \in cleaning /\ "detached" \notin held
  /\ cleaning' = cleaning \ {n}
  /\ IF n \in mounted THEN Unmount(n, links) ELSE UNCHANGED <<mounted, routes, links, held>>
  /\ UNCHANGED <<file, loaded, status, built, applied, servers, work, call, spent, spoiled>>

MovedBack(n) ==
  {IF l.at = n /\ l.name \in ToSet(loaded[n][1].moves) /\ ~LinkAt("host", l.name)
   THEN [l EXCEPT !.at = "host", !.up = FALSE, !.addresses = {}] ELSE l : l \in links}

CleanUp(n) ==
  /\ n \in cleaning /\ "detached" \notin held
  /\ cleaning' = cleaning \ {n}
  /\ IF n \in mounted THEN Unmount(n, MovedBack(n)) ELSE UNCHANGED <<mounted, routes, links, held>>
  /\ UNCHANGED <<file, loaded, status, built, applied, servers, work, call, spent, spoiled>>

-----------------------------------------------------------------------------
(* Around the daemon.                                                      *)
Edit(n) ==
  /\ MayHappen /\ spent' = [spent EXCEPT !.edits = @ + 1]
  /\ file' \in {[file EXCEPT ![n] = c] : c \in Revision[n]}
  /\ UNCHANGED <<loaded, status, built, applied, mounted, links, routes, servers, work,
                 call, held, cleaning, spoiled>>

Enter(n) ==
  /\ n \in mounted \ held /\ MayHappen
  /\ spent' = [spent EXCEPT !.visits = @ + 1]
  /\ held' = held \cup {n}
  /\ UNCHANGED <<file, loaded, status, built, applied, mounted, links, routes, servers,
                 work, call, cleaning, spoiled>>

Leave(place) ==
  /\ place \in held /\ held' = held \ {place}
  /\ links' = IF place = "detached" THEN Destroyed(links, place) ELSE links
  /\ UNCHANGED <<file, loaded, status, built, applied, mounted, routes, servers, work,
                 call, cleaning, spent, spoiled>>

Next ==
  \/ \E n \in Namespace :
       \/ Load(n) \/ BeginCreation(n) \/ BeginUpdate(n) \/ Retry(n)
       \/ BeginDelete(n) \/ CleanUp(n) \/ Edit(n) \/ Enter(n)
  \/ Succeed \/ Refused \/ Fault \/ EndWork
  \/ DeleteNetns \/ EndDelete \/ Shutdown
  \/ \E place \in Namespace \cup {"detached"} : Leave(place)

Spec == Init /\ [][Next]_vars
-----------------------------------------------------------------------------
(* What a reference stands for, one reference at a time instead of one     *)
(* round at a time.                                                        *)
Meanings(t, env) ==
  LET refs == UNION {{x[i] : i \in {i \in DOMAIN x : IsRef(x[i])}} :
                       x \in {t} \cup UNION {ToSet(env[v]) \cup ToSet(ProcessEnv[v]) : v \in Var}}
      depth[k \in 0 .. MaxIterations] ==
        IF k = 0 THEN [r \in refs |-> <<>>]
        ELSE [r \in refs |->
               LET value == ResolveVariableSpec(r, env) IN
               IF value = <<>> \/ \E i \in DOMAIN value[1] :
                                     IsRef(value[1][i]) /\ depth[k - 1][value[1][i]] = <<>>
               THEN <<>>
               ELSE << FlattenSeq([i \in DOMAIN value[1] |->
                         IF IsRef(value[1][i]) THEN depth[k - 1][value[1][i]][1]
                         ELSE <<value[1][i]>>]) >>]
  IN depth[MaxIterations - 2]

(* Rounds of replacement give each text the meaning its references have,   *)
(* and an error just when one is undefined, circular or nested deeper than *)
(* the rounds reach (substitute_env_vars).                                 *)
SubstitutionMeans ==
  \A n \in Namespace : \A c \in ToSet(file[n]) : \A t \in TextsOf(c) :
    LET means == Meanings(t, c.environment)
        Part(piece) == IF IsRef(piece) THEN means[piece] ELSE << <<piece>> >>
    IN SubstituteEnvVars(t, c.environment) =
         IF \E i \in DOMAIN t : Part(t[i]) = <<>> THEN <<>>
         ELSE << FlattenSeq([i \in DOMAIN t |-> Part(t[i])[1]]) >>

(* What a wg-quick file says, by the numbers of its lines.                 *)
Headers(lines, section) ==
  {i \in DOMAIN lines : lines[i].is = "header" /\ lines[i].key = section}

\* The lines after one of these headers and before the next header of any kind.
Under(lines, headers) ==
  {j \in DOMAIN lines : \E i \in headers : i < j /\ \A k \in i + 1 .. j : lines[k].is # "header"}

Values(lines, block, key) ==
  FlattenSeq([j \in DOMAIN lines |->
    IF j \in block /\ lines[j].is = "pair" /\ lines[j].key = key THEN lines[j].values ELSE <<>>])

LastText(texts) == IF texts = <<>> THEN <<>> ELSE Last(texts)
LastIfAny(texts) == IF texts = <<>> THEN <<>> ELSE <<Last(texts)>>

PeerUnder(lines, i) ==
  LET Of(key) == Values(lines, Under(lines, {i}), key)
  IN [key |-> LastText(Of("PublicKey")), psk |-> LastIfAny(Of("PresharedKey")),
      endpoint |-> LastIfAny(Of("Endpoint")), allowed |-> Of("AllowedIPs")]

PeersOf(lines) ==
  FlattenSeq([i \in DOMAIN lines |->
    IF i \in Headers(lines, "Peer") THEN <<PeerUnder(lines, i)>> ELSE <<>>])

(* What an import writes is what the wg-quick file says: each peer has the *)
(* attributes between its header and the next header and nothing of its    *)
(* neighbours', the link and the tunnel those of all interface sections,   *)
(* the last of each where one value counts; and the daemon loads it as it  *)
(* is (parse_wg_quick_raw, import_wg, from_file).                          *)
ImportIsFaithful ==
  \A n \in Namespace : \A c \in ToSet(file[n]) :
    \A w \in {w \in Imports : <<c>> = ImportWg(w.lines, w.name, w.ifname)} :
      LET Of(key) == Values(w.lines, Under(w.lines, Headers(w.lines, "Interface")), key)
      IN /\ FromFile(<<c>>) = <<c>>
         /\ c.wireguard = <<[key |-> LastText(Of("PrivateKey")), peers |-> PeersOf(w.lines)]>>
         /\ c.vifs[1].addresses = Of("Address") /\ c.servers = Of("DNS")

(* What is loaded holds no reference, and no two of its links are of one   *)
(* name, though the names may come from variables; the command line, the   *)
(* D-Bus call and a reload find no fault with it (from_file, validate,     *)
(* validate_single_file, validate_config_file, reload_all_configurations). *)
LoadedIsSound ==
  \A n \in Namespace : \A c \in ToSet(loaded[n]) :
    /\ \A t \in TextsOf(c) : Literal(t)
    /\ \A j, k \in LinkNames(c) : NameOfLink(c, j) = NameOfLink(c, k) => j = k
    /\ ValidateConfigFile(<<c>>) /\ ValidateSingleFile(<<c>>) /\ ReloadCounts(<<c>>)

-----------------------------------------------------------------------------
(* A configuration asks for nothing that only looks right and takes        *)
(* nothing that is not there.                                              *)
Sensible(c) ==
  /\ \A k \in LinkNames(c) : ~IsType(NameOfLink(c, k), "lo")
  /\ PairNames(c) \cap Physical = {}
  /\ \A v \in ToSet(c.vifs) : /\ ~HasNoParent(v)
                              /\ \A a \in ToSet(v.addresses) : Parses(a)
  /\ \A wg \in ToSet(c.wireguard) : Builds(wg)

RoutesIn(c) == ToSet(c.routes) \cup {DefaultRoute(g) : g \in ToSet(c.gateway)}

Ready(n, v) ==
  \E l \in links :
    /\ l.at = n /\ l.name = v.name /\ l.up /\ l.addresses = ToSet(v.addresses)
    /\ l.key = IF IsType(v.type, "wireguard") /\ built[n][1].wireguard # <<>>
               THEN built[n][1].wireguard[1].key ELSE <<>>

(* A namespace whose creation nothing disturbed is active only with every  *)
(* link up and addressed in it, its interfaces moved into it, the routes   *)
(* and servers of the configuration applied last set (create_new_namespace, *)
(* update_existing_namespace).                                             *)
FaultFreeIsComplete ==
  \A n \in Namespace :
    /\ status[n] = "active" /\ work.on # n /\ call.on # n /\ cleaning = Running
    /\ built[n] # <<>> /\ n \notin spoiled /\ Sensible(built[n][1])
    => /\ \A v \in ToSet(built[n][1].vifs) :
            /\ Ready(n, v)
            /\ \A peer \in ToSet(v.peer) : IsType(v.type, "veth") =>
                 \E l \in links : l.at = "host" /\ l.name = peer /\ l.up
       /\ \A m \in ToSet(built[n][1].moves) : LinkAt(n, m)
       /\ \A r \in RoutesIn(applied[n][1]) :
            Reachable(n) /\ Parses(r.destination) /\ Parses(r.gateway) => r \in routes[n]
       /\ applied[n][1].servers # <<>> => servers[n] = applied[n][1].servers

\* Another configuration has moved the other end of its pair.
TornApart(l) ==
  l.made # "host" /\ \E k \in links : Source(k) = Source(l) /\ k.at \notin {"host", l.at}

(* A link leaves a namespace only with the namespace, with the namespace   *)
(* that its other end was taken to, or in the cleanup of a shutdown: no    *)
(* configuration takes the interface another one has                       *)
(* (move_interface_to_namespace).                                          *)
NoneTaken ==
  [][cleaning = Running =>
       \A l \in links : l.at \in mounted /\ l.at \in mounted' /\ ~TornApart(l) =>
         \E k \in links' : k.at = l.at /\ k.name = l.name]_vars

(* The cleanup leaves no interface of the configuration in a namespace     *)
(* that lives on only through a process in it, unless the host has one of  *)
(* its name (graceful_shutdown).                                           *)
CleanupReturns ==
  [][\A l \in links :
       l.made = "host" /\ l.at \in cleaning /\ l.name \in ToSet(loaded[l.at][1].moves)
         /\ ~LinkAt("host", l.name)
       => ~\E k \in links' : k.at = "detached" /\ k.made = "host" /\ k.vif = l.vif]_vars
=============================================================================
