----------------------- MODULE Provisioning_proofs -----------------------
(***************************************************************************)
(* Proofs about Provisioning, for every library of files, every edit and   *)
(* any number of faults, deletions and processes: what is loaded is sound, *)
(* a text of it means what its references say, no namespace takes what     *)
(* another has, the cleanup returns what it should, and an import says     *)
(* what the wg-quick file says. Creation_proofs has what a creation leaves *)
(* behind.                                                                 *)
(***************************************************************************)
EXTENDS Provisioning, FiniteSetTheorems, SequenceTheorems, NaturalsInduction,
        WellFoundedInduction, TLAPS

-----------------------------------------------------------------------------
(* What a configuration that passed the rules is like.                     *)

(* No two links of one name, and no name is empty.                         *)
NamesApart(c) ==
  /\ \A v, w \in ToSet(c.vifs) : v.name = w.name => v = w
  /\ \A v, w \in ToSet(c.vifs) : w.peer # <<>> => v.name # w.peer[1]
  /\ \A v, w \in ToSet(c.vifs) : v.peer # <<>> /\ w.peer # <<>> /\ v.peer[1] = w.peer[1] => v = w
  /\ \A x \in ToSet(c.moves), v \in ToSet(c.vifs) :
       x # v.name /\ (v.peer # <<>> => x # v.peer[1])
  /\ \A x \in ToSet(c.moves) : x # <<>>
  /\ \A v \in ToSet(c.vifs) : v.name # <<>> /\ (v.peer # <<>> => v.peer[1] # <<>>)

Regular(c) ==
  /\ IsList(c.moves) /\ IsList(c.vifs) /\ IsList(c.routes)
  /\ IsOptional(c.gateway) /\ IsOptional(c.wireguard)
  /\ \A v \in ToSet(c.vifs) : /\ IsOptional(v.peer) /\ IsList(v.addresses)
                              /\ IsType(v.type, "veth") => v.peer # <<>>
  /\ NamesApart(c)

Contents == UNION {{files[n] : files \in Library} \cup Revision[n] : n \in Namespace}

(* What the loader makes of the files.                                     *)
Config == {FromFile(content)[1] : content \in {x \in Contents : FromFile(x) # <<>>}}
Loadable == {<<>>} \cup {<<c>> : c \in Config}

-----------------------------------------------------------------------------
(* The inductive invariant.                                                *)

IsVeth(v) == IsType(v.type, "veth")
IsWireguard(v) == IsType(v.type, "wireguard") /\ ~IsVeth(v)

(* The requests of a configuration: those that set routes and servers, and *)
(* those that make and move links.                                         *)
Settings(c) ==
  {Do("route", c.name, r) : r \in RoutesIn(c)} \cup {Do("dns", c.name, c)}

VifSteps(c, v) ==
  {VifRequest(v), Do("up", v.name, v)}
    \cup {Do("address", v.name, a) : a \in ToSet(v.addresses)}
    \cup (IF IsVeth(v) THEN {Do("moveVeth", v.name, v), Do("hostUp", v.peer[1], <<>>)} ELSE {})
    \cup (IF IsWireguard(v) THEN {Do("configure", v.name, w) : w \in ToSet(c.wireguard)} ELSE {})

Makings(c) ==
  (UNION {VifSteps(c, v) : v \in ToSet(c.vifs)}) \cup {Do("move", x, <<>>) : x \in ToSet(c.moves)}

IsSetting(r) == r.do \in {"route", "dns"}

(* Links come first, and are made only from the configuration that the     *)
(* namespace was made from.                                                *)
Ordered(s) == \A i, j \in DOMAIN s : i < j /\ IsSetting(s[i]) => IsSetting(s[j])

WorkOk ==
  /\ DOMAIN work = {"on", "todo"} /\ work.on \in Namespace \cup {None}
  /\ work.on = None => work = Idle
  /\ work.on # None =>
       /\ status[work.on] \in {"creating", "active"}
       /\ built[work.on] # <<>> /\ applied[work.on] # <<>>
       /\ Ordered(work.todo)
       /\ \/ work.todo \in Seq(Settings(applied[work.on][1]))
          \/ /\ applied[work.on] = built[work.on]
             /\ work.todo \in Seq(Settings(built[work.on][1]) \cup Makings(built[work.on][1]))

FilesOk ==
  /\ DOMAIN file = Namespace
  /\ \A n \in Namespace : file[n] \in {files[n] : files \in Library} \cup Revision[n]
  /\ loaded \in [Namespace -> Loadable]

Shape ==
  /\ FilesOk
  /\ built \in [Namespace -> Loadable] /\ applied \in [Namespace -> Loadable]
  /\ status \in [Namespace -> {None, "creating", "active", "failed"}]
  /\ mounted \in SUBSET Namespace
  /\ DOMAIN routes = Namespace /\ DOMAIN servers = Namespace
  /\ held \subseteq mounted \cup {"detached"}
  /\ cleaning = Running \/ cleaning \subseteq Namespace
  /\ spoiled \subseteq Namespace

IsLink(l, places) ==
  /\ DOMAIN l = {"at", "name", "made", "vif", "up", "addresses", "key", "era"}
  /\ l.at \in places \cup {"host", "detached"} /\ l.made \in Namespace \cup {"host"}
  /\ l.made = "host" => l.name \in Physical \cup {<<>>}

(* Names are unique where they are, the host's own links everywhere.       *)
LinksIn(all, places, here) ==
  /\ \A l \in all : IsLink(l, places)
  /\ \A k, l \in all : k.at = l.at /\ k.name = l.name /\ k.name # <<>> => k = l
  /\ \A k, l \in all : k.made = "host" /\ l.made = "host" /\ k.vif = l.vif => k = l
  /\ "detached" \notin here => \A l \in all : l.at # "detached"

LinksOk == LinksIn(links, mounted, held)

(* Who is mounted has a state, and who has one is mounted, until a call    *)
(* has unmounted it.                                                       *)
CallOk ==
  /\ DOMAIN call = {"on", "stage"}
  /\ call.on \in Namespace \cup {None} /\ call.stage \in {None, "found", "unmounted"}
  /\ call.stage = None <=> call.on = None
  /\ cleaning # Running => work = Idle /\ call = NoCall
  /\ call.stage = "unmounted" => call.on \notin mounted /\ status[call.on] \in {"creating", "active"}
  /\ \A n \in mounted : status[n] \in {"creating", "active"}
  /\ \A n \in Namespace \ mounted :
       cleaning = Running /\ status[n] \in {"creating", "active"} => call.on = n /\ call.stage = "unmounted"
  /\ \A n \in Namespace : /\ status[n] # None => loaded[n] # <<>>
                          /\ status[n] \in {"creating", "active"} => built[n] # <<>> /\ applied[n] # <<>>

Wellformed == Shape /\ LinksOk /\ WorkOk /\ CallOk

-----------------------------------------------------------------------------
(* What the loader lets through (from_file, InterfaceConfig::validate).    *)

(* Lists keep their length when each element is replaced.                  *)
LEMMA ListDomain ==
  ASSUME NEW s, IsList(s)
  PROVE  Len(s) \in Nat /\ DOMAIN s = 1 .. Len(s)
BY DEF IsList

(* A function over the positions of a list is a list of that length.       *)
LEMMA ListOf ==
  ASSUME NEW s, DOMAIN s = 1 .. Len(s), Len(s) \in Nat,
         NEW t, t = [i \in DOMAIN s |-> t[i]]
  PROVE  IsList(t) /\ Len(t) = Len(s) /\ ToSet(t) = {t[i] : i \in DOMAIN s}
<1>1. ToSet(t) = {t[i] : i \in DOMAIN s} /\ \A i \in DOMAIN s : t[i] \in ToSet(t)
  BY DEF ToSet
<1>2. t \in [1 .. Len(s) -> ToSet(t)]
  BY <1>1
<1> QED BY <1>1, <1>2 DEF IsList

(* As many names as links: no two links of one name.                       *)
LEMMA Counted ==
  ASSUME NEW c, IsList(c.moves), IsList(c.vifs),
         Cardinality({NameOfLink(c, k) : k \in LinkNames(c)}) = Cardinality(LinkNames(c))
  PROVE  \A j, k \in LinkNames(c) : NameOfLink(c, j) = NameOfLink(c, k) => j = k
<1> DEFINE all == LinkNames(c)
           names == {NameOfLink(c, k) : k \in all}
           f == [k \in all |-> NameOfLink(c, k)]
<1>1. IsFiniteSet(all)
  <2> DEFINE top == Len(c.moves) + Len(c.vifs)
             box == (1 .. top) \X {"move", "vif", "peer"}
  <2>1. top \in Nat /\ DOMAIN c.moves \subseteq 1 .. top /\ DOMAIN c.vifs \subseteq 1 .. top
    <3>1. /\ Len(c.moves) \in Nat /\ DOMAIN c.moves = 1 .. Len(c.moves)
          /\ Len(c.vifs) \in Nat /\ DOMAIN c.vifs = 1 .. Len(c.vifs)
      BY DEF IsList
    <3>2. \A m, k \in Nat : /\ m + k \in Nat
                            /\ (1 .. m) \subseteq (1 .. m + k) /\ (1 .. k) \subseteq (1 .. m + k)
      OBVIOUS
    <3> QED BY <3>1, <3>2
  <2>2. IsFiniteSet(1 .. top)
    <3> HIDE DEF top
    <3> QED BY <2>1, FS_Interval
  <2>3. IsFiniteSet({"move", "vif", "peer"})
    <3>1. IsFiniteSet({"move"}) /\ IsFiniteSet({"vif"}) /\ IsFiniteSet({"peer"})
      BY FS_Singleton
    <3>2. IsFiniteSet({"move"} \cup {"vif"})
      BY <3>1, FS_Union
    <3>3. IsFiniteSet(({"move"} \cup {"vif"}) \cup {"peer"})
      BY <3>1, <3>2, FS_Union
    <3>4. ({"move"} \cup {"vif"}) \cup {"peer"} = {"move", "vif", "peer"}
      OBVIOUS
    <3> QED BY <3>3, <3>4
  <2>4. IsFiniteSet(box)
    BY <2>2, <2>3, FS_Product
  <2>5. all \subseteq box
    <3> HIDE DEF top
    <3> QED BY <2>1 DEF LinkNames
  <2> QED BY <2>4, <2>5, FS_Subset
<1>2. f \in Surjection(all, names)
  BY DEF Surjection
<1>3. f \in Injection(all, names)
  BY <1>1, <1>2, FS_SurjSameCardinalityImpliesInj
<1>4. \A j, k \in all : f[j] = f[k] => j = k
  BY <1>3 DEF Injection, IsInjective
<1> QED BY <1>4

(* What validated names are: words, and not empty.                         *)
LEMMA NamesAreWords ==
  ASSUME NEW c, IsList(c.moves), IsList(c.vifs), ValidateInterfaces(c),
         \A i \in DOMAIN c.vifs : IsOptional(c.vifs[i].peer)
  PROVE  /\ \A x \in ToSet(c.moves) : Words(x)
         /\ \A v \in ToSet(c.vifs) : Words(v.name) /\ \A x \in ToSet(v.peer) : Words(x)
BY DEF ValidateInterfaces, ValidateVirtualInterface, ValidateInterfaceName

(* The rules make the names of a configuration unique.                     *)
LEMMA RulesKeepApart ==
  ASSUME NEW c, IsList(c.moves), IsList(c.vifs), ValidateInterfaces(c),
         \A i \in DOMAIN c.vifs : IsOptional(c.vifs[i].peer)
  PROVE  NamesApart(c)
<1>1. \A j, k \in LinkNames(c) : NameOfLink(c, j) = NameOfLink(c, k) => j = k
  BY Counted DEF ValidateInterfaces
<1>2. /\ \A i \in DOMAIN c.moves : <<i, "move">> \in LinkNames(c) /\ NameOfLink(c, <<i, "move">>) = c.moves[i]
      /\ \A i \in DOMAIN c.vifs : <<i, "vif">> \in LinkNames(c) /\ NameOfLink(c, <<i, "vif">>) = c.vifs[i].name
      /\ \A i \in DOMAIN c.vifs : c.vifs[i].peer # <<>> =>
           <<i, "peer">> \in LinkNames(c) /\ NameOfLink(c, <<i, "peer">>) = c.vifs[i].peer[1]
  BY DEF LinkNames, NameOfLink
<1>3. ASSUME NEW v \in ToSet(c.vifs), NEW w \in ToSet(c.vifs)
      PROVE  /\ v.name = w.name => v = w
             /\ w.peer # <<>> => v.name # w.peer[1]
             /\ v.peer # <<>> /\ w.peer # <<>> /\ v.peer[1] = w.peer[1] => v = w
  <2>1. PICK i \in DOMAIN c.vifs : v = c.vifs[i]
    BY DEF ToSet
  <2>2. PICK j \in DOMAIN c.vifs : w = c.vifs[j]
    BY DEF ToSet
  <2> DEFINE a == <<i, "vif">>
             b == <<j, "vif">>
             x == <<i, "peer">>
             y == <<j, "peer">>
  <2>3. /\ a \in LinkNames(c) /\ NameOfLink(c, a) = v.name
        /\ b \in LinkNames(c) /\ NameOfLink(c, b) = w.name
        /\ v.peer # <<>> => x \in LinkNames(c) /\ NameOfLink(c, x) = v.peer[1]
        /\ w.peer # <<>> => y \in LinkNames(c) /\ NameOfLink(c, y) = w.peer[1]
    BY <1>2, <2>1, <2>2
  <2>4. (a = b => i = j) /\ (x = y => i = j) /\ a # y
    OBVIOUS
  <2> HIDE DEF a, b, x, y
  <2> QED BY <1>1, <2>1, <2>2, <2>3, <2>4
<1>4. ASSUME NEW z \in ToSet(c.moves), NEW v \in ToSet(c.vifs)
      PROVE  z # v.name /\ (v.peer # <<>> => z # v.peer[1])
  <2>1. PICK i \in DOMAIN c.vifs : v = c.vifs[i]
    BY DEF ToSet
  <2>2. PICK j \in DOMAIN c.moves : z = c.moves[j]
    BY DEF ToSet
  <2> DEFINE a == <<i, "vif">>
             x == <<i, "peer">>
             m == <<j, "move">>
  <2>3. /\ a \in LinkNames(c) /\ NameOfLink(c, a) = v.name
        /\ v.peer # <<>> => x \in LinkNames(c) /\ NameOfLink(c, x) = v.peer[1]
        /\ m \in LinkNames(c) /\ NameOfLink(c, m) = z
    BY <1>2, <2>1, <2>2
  <2>4. m # a /\ m # x
    OBVIOUS
  <2> HIDE DEF a, x, m
  <2> QED BY <1>1, <2>3, <2>4
<1>5. \A x \in ToSet(c.moves) : x # <<>>
  BY NamesAreWords DEF Words
<1>6. ASSUME NEW v \in ToSet(c.vifs), v.peer # <<>>
      PROVE  v.peer[1] # <<>>
  <2>1. IsOptional(v.peer)
    BY DEF ToSet
  <2>2. v.peer[1] \in ToSet(v.peer)
    BY <1>6, <2>1 DEF ToSet, IsOptional, IsList
  <2> QED BY <2>2, NamesAreWords DEF Words
<1>7. \A v \in ToSet(c.vifs) : v.name # <<>>
  BY NamesAreWords DEF Words
<1> QED BY <1>3, <1>4, <1>5, <1>6, <1>7 DEF NamesApart

(* The substitution keeps the shape, and leaves no reference in the        *)
(* description, the one text no rule looks at.                             *)
LEMMA SubstitutedShape ==
  ASSUME NEW c, Shaped(c), SubstituteEnvironmentVariables(c) # <<>>
  PROVE  \E d : /\ SubstituteEnvironmentVariables(c) = <<d>> /\ Literal(d.description)
                /\ IsList(d.moves) /\ IsList(d.vifs) /\ IsList(d.routes)
                /\ IsOptional(d.gateway) /\ IsOptional(d.wireguard)
                /\ \A i \in DOMAIN d.vifs : IsOptional(d.vifs[i].peer) /\ IsList(d.vifs[i].addresses)
<1> DEFINE V(t) == SubstituteEnvVars(t, c.environment)[1]
           d == MapTexts(c, V)
<1>1. SubstituteEnvironmentVariables(c) = <<d>> /\ \A t \in TextsOf(c) : SubstituteEnvVars(t, c.environment) # <<>>
  BY DEF SubstituteEnvironmentVariables
<1>2. /\ d.moves = [i \in DOMAIN c.moves |-> V(c.moves[i])]
      /\ d.gateway = [i \in DOMAIN c.gateway |-> V(c.gateway[i])]
      /\ d.description = V(c.description)
      /\ d.vifs = [i \in DOMAIN c.vifs |-> d.vifs[i]]
      /\ d.routes = [i \in DOMAIN c.routes |-> d.routes[i]]
      /\ d.wireguard = [i \in DOMAIN c.wireguard |-> d.wireguard[i]]
  <2>1. DOMAIN c = {"name", "description", "moves", "vifs", "gateway", "routes", "servers",
                    "search", "wireguard", "environment"}
    BY DEF Shaped
  <2>2. /\ d.moves = [i \in DOMAIN c.moves |-> V(c.moves[i])]
        /\ d.gateway = [i \in DOMAIN c.gateway |-> V(c.gateway[i])]
        /\ d.description = V(c.description)
    BY <2>1 DEF MapTexts, Each
  <2>3. d.vifs = [i \in DOMAIN c.vifs |-> d.vifs[i]]
    BY <2>1 DEF MapTexts, Each
  <2>4. d.routes = [i \in DOMAIN c.routes |-> d.routes[i]]
    BY <2>1 DEF MapTexts, Each
  <2>5. d.wireguard = [i \in DOMAIN c.wireguard |-> d.wireguard[i]]
    BY <2>1 DEF MapTexts, Each
  <2> QED BY <2>2, <2>3, <2>4, <2>5
<1>3. \A i \in DOMAIN c.vifs :
        /\ d.vifs[i].peer = [j \in DOMAIN c.vifs[i].peer |-> V(c.vifs[i].peer[j])]
        /\ d.vifs[i].addresses = [j \in DOMAIN c.vifs[i].addresses |-> V(c.vifs[i].addresses[j])]
  <2>1. "vifs" \in DOMAIN c /\ \A i \in DOMAIN c.vifs : DOMAIN c.vifs[i] = {"name", "type", "peer", "addresses"}
    BY DEF Shaped
  <2> QED BY <2>1 DEF MapTexts, Each
<1>4. Literal(d.description)
  <2>1. c.description \in TextsOf(c)
    BY DEF TextsOf
  <2>2. SubstituteEnvVars(c.description, c.environment) # <<>>
    BY <1>1, <2>1
  <2>3. \A t, env : SubstituteEnvVars(t, env) # <<>> => Literal(SubstituteEnvVars(t, env)[1])
    BY DEF SubstituteEnvVars
  <2> QED BY <1>2, <2>2, <2>3 DEF V
<1> HIDE DEF d, V
<1>5. /\ IsList(d.moves) /\ IsList(d.vifs) /\ IsList(d.routes)
      /\ IsOptional(d.gateway) /\ IsOptional(d.wireguard)
  <2>1. /\ IsList(c.moves) /\ IsList(c.vifs) /\ IsList(c.routes)
        /\ IsOptional(c.gateway) /\ IsOptional(c.wireguard)
    BY DEF Shaped
  <2>2. IsList(d.moves) /\ IsList(d.vifs) /\ IsList(d.routes)
    BY <1>2, <2>1, ListDomain, ListOf
  <2>3. IsOptional(d.gateway) /\ IsOptional(d.wireguard)
    BY <1>2, <2>1, ListDomain, ListOf DEF IsOptional
  <2> QED BY <2>2, <2>3
<1>6. ASSUME NEW i \in DOMAIN d.vifs
      PROVE  IsOptional(d.vifs[i].peer) /\ IsList(d.vifs[i].addresses)
  <2>1. i \in DOMAIN c.vifs
    BY <1>2
  <2>2. IsOptional(c.vifs[i].peer) /\ IsList(c.vifs[i].addresses)
    BY <2>1 DEF Shaped
  <2>3. IsList(d.vifs[i].peer) /\ Len(d.vifs[i].peer) = Len(c.vifs[i].peer)
    BY <1>3, <2>1, <2>2, ListDomain, ListOf DEF IsOptional
  <2>4. IsList(d.vifs[i].addresses)
    BY <1>3, <2>1, <2>2, ListDomain, ListOf
  <2> QED BY <2>2, <2>3, <2>4 DEF IsOptional
<1> QED BY <1>1, <1>4, <1>5, <1>6

Sound(c) == Regular(c) /\ Validate(c) /\ Literal(c.description)

(* What comes out of a file is regular.                                    *)
LEMMA LoaderIsStrict ==
  ASSUME NEW content, IsOptional(content), content # <<>> => Shaped(content[1]),
         FromFile(content) # <<>>
  PROVE  \E c : FromFile(content) = <<c>> /\ Sound(c)
<1>1. /\ content # <<>> /\ Shaped(content[1])
      /\ SubstituteEnvironmentVariables(content[1]) # <<>>
      /\ FromFile(content) = SubstituteEnvironmentVariables(content[1])
      /\ Validate(SubstituteEnvironmentVariables(content[1])[1])
  BY DEF FromFile
<1>2. PICK c : /\ SubstituteEnvironmentVariables(content[1]) = <<c>> /\ Literal(c.description)
               /\ IsList(c.moves) /\ IsList(c.vifs) /\ IsList(c.routes)
               /\ IsOptional(c.gateway) /\ IsOptional(c.wireguard)
               /\ \A i \in DOMAIN c.vifs : IsOptional(c.vifs[i].peer) /\ IsList(c.vifs[i].addresses)
  BY <1>1, SubstitutedShape
<1>3. FromFile(content) = <<c>> /\ Validate(c)
  BY <1>1, <1>2
<1>4. ValidateInterfaces(c) /\ NamesApart(c)
  BY <1>2, <1>3, RulesKeepApart DEF Validate
<1>5. \A v \in ToSet(c.vifs) : /\ IsOptional(v.peer) /\ IsList(v.addresses)
                               /\ IsType(v.type, "veth") => v.peer # <<>>
  BY <1>2, <1>4 DEF ToSet, ValidateInterfaces, ValidateVirtualInterface
<1> QED BY <1>2, <1>3, <1>4, <1>5 DEF Sound, Regular

(* The entries of the configuration manager.                               *)
LEMMA LoadablesAreSound ==
  /\ \A content \in Contents : FromFile(content) \in Loadable
  /\ \A e \in Loadable : e # <<>> => e = <<e[1]>> /\ e[1] \in Config /\ Sound(e[1])
  /\ <<>> \in Loadable
<1>1. ASSUME NEW content \in Contents, FromFile(content) # <<>>
      PROVE  /\ FromFile(content)[1] \in Config /\ Sound(FromFile(content)[1])
             /\ FromFile(content) = <<FromFile(content)[1]>>
  <2>1. IsOptional(content) /\ (content # <<>> => Shaped(content[1]))
    BY ProvisioningAssumption DEF Contents
  <2>2. PICK c : FromFile(content) = <<c>> /\ Sound(c)
    BY <1>1, <2>1, LoaderIsStrict
  <2>3. FromFile(content)[1] \in Config
    BY <1>1 DEF Config
  <2> QED BY <2>2, <2>3
<1>2. \A c \in Config : Sound(c)
  <2> SUFFICES ASSUME NEW content \in Contents, FromFile(content) # <<>> PROVE Sound(FromFile(content)[1])
    BY DEF Config
  <2> QED BY <1>1
<1>3. \A content \in Contents : FromFile(content) \in Loadable
  BY <1>1 DEF Loadable
<1>4. ASSUME NEW e \in Loadable, e # <<>>
      PROVE  e = <<e[1]>> /\ e[1] \in Config /\ Sound(e[1])
  <2>1. PICK c \in Config : e = <<c>>
    BY <1>4 DEF Loadable
  <2> QED BY <1>2, <2>1
<1> QED BY <1>3, <1>4 DEF Loadable

(* A sound configuration holds no reference at all.                        *)
LEMMA SoundIsLiteral ==
  ASSUME NEW c, Sound(c)
  PROVE  \A t \in TextsOf(c) : Literal(t)
<1>1. \A t : Words(t) \/ (\E kind \in {"word", "address", "cidr", "domain", "key", "endpoint"} : Is(t, kind)) => Literal(t)
  <2> SUFFICES ASSUME NEW t, Words(t) \/ (\E kind \in {"word", "address", "cidr", "domain", "key", "endpoint"} : Is(t, kind))
               PROVE  Literal(t)
    OBVIOUS
  <2> QED BY DEF Words, Is, Literal, IsRef
<1>2. /\ \A t : ValidateInterfaceName(t) => Literal(t)
      /\ \A t : ValidateNamespaceName(t) => Literal(t)
  BY <1>1, Zenon DEF ValidateInterfaceName, ValidateNamespaceName
<1>a. /\ \A t : ValidateIpAddress(t) => Literal(t)
      /\ \A t : ValidateCidr(t) => Literal(t)
      /\ \A t : ValidateDomainName(t) => Literal(t)
      /\ \A t : ValidateWgKey(t) => Literal(t)
      /\ \A t : ValidateEndpoint(t) => Literal(t)
      /\ \A t, type : IsType(t, type) => Literal(t)
  <2>1. \A kind \in {"word", "address", "cidr", "domain", "key", "endpoint"} : \A t : Is(t, kind) => Literal(t)
    BY <1>1
  <2>2. /\ \A t : Is(t, "address") => Literal(t)
        /\ \A t : Is(t, "cidr") => Literal(t)
        /\ \A t : Is(t, "domain") => Literal(t)
        /\ \A t : Is(t, "key") => Literal(t)
        /\ \A t : Is(t, "endpoint") => Literal(t)
        /\ \A t : Is(t, "word") => Literal(t)
    BY <2>1
  <2>3. \A t : ValidateIpAddress(t) => Literal(t)
    BY <2>2, Zenon DEF ValidateIpAddress
  <2>4. \A t : ValidateCidr(t) => Is(t, "cidr")
    BY DEF ValidateCidr
  <2>5. \A t : ValidateDomainName(t) => Is(t, "domain")
    BY DEF ValidateDomainName
  <2>6. \A t : ValidateWgKey(t) => Is(t, "key")
    BY DEF ValidateWgKey
  <2>7. \A t : ValidateEndpoint(t) => Is(t, "endpoint")
    BY DEF ValidateEndpoint
  <2>8. \A t, type : IsType(t, type) => Literal(t)
    BY <2>2, Zenon DEF IsType
  <2> QED BY <2>2, <2>3, <2>4, <2>5, <2>6, <2>7, <2>8, Zenon
<1>3. /\ ValidateNamespaceName(c.name) /\ ValidateInterfaces(c) /\ ValidateRouting(c)
      /\ ValidateDns(c) /\ ValidateWireguard(c) /\ Literal(c.description)
  BY DEF Sound, Validate
<1>4. \A t \in {c.name, c.description} : Literal(t)
  BY <1>2, <1>3
<1>5. \A s \in {c.moves, c.gateway, c.servers, c.search} : \A t \in ToSet(s) : Literal(t)
  <2>1. \A t \in ToSet(c.moves) : Literal(t)
    BY <1>2, <1>3 DEF ValidateInterfaces
  <2>2. \A t \in ToSet(c.gateway) : Literal(t)
    BY <1>a, <1>3, Zenon DEF ValidateRouting
  <2>3. /\ \A t \in ToSet(c.servers) : Literal(t)
        /\ \A t \in ToSet(c.search) : Literal(t)
    BY <1>a, <1>3, Zenon DEF ValidateDns
  <2> QED BY <2>1, <2>2, <2>3
<1>6. \A v \in ToSet(c.vifs) : \A t \in {v.name, v.type} \cup ToSet(v.peer) \cup ToSet(v.addresses) : Literal(t)
  <2> SUFFICES ASSUME NEW v \in ToSet(c.vifs)
               PROVE  \A t \in {v.name, v.type} \cup ToSet(v.peer) \cup ToSet(v.addresses) : Literal(t)
    OBVIOUS
  <2>1. ValidateVirtualInterface(v)
    BY <1>3 DEF ValidateInterfaces
  <2>2. /\ Literal(v.name) /\ Literal(v.type)
        /\ \A t \in ToSet(v.peer) : Literal(t)
        /\ \A t \in ToSet(v.addresses) : Literal(t)
    BY <1>2, <1>a, <2>1 DEF ValidateVirtualInterface
  <2> QED BY <2>2
<1>7. \A r \in ToSet(c.routes) : \A t \in {r.destination, r.gateway} : Literal(t)
  <2>1. \A r \in ToSet(c.routes) : ValidateRoute(r)
    BY <1>3, Zenon DEF ValidateRouting
  <2> QED BY <1>a, <2>1 DEF ValidateRoute
<1>8. \A w \in ToSet(c.wireguard) :
        /\ Literal(w.key)
        /\ \A p \in ToSet(w.peers) :
             /\ Literal(p.key)
             /\ \A s \in {p.psk, p.endpoint, p.allowed} : \A t \in ToSet(s) : Literal(t)
  <2> SUFFICES ASSUME NEW w \in ToSet(c.wireguard)
               PROVE  /\ Literal(w.key)
                      /\ \A p \in ToSet(w.peers) :
                           /\ Literal(p.key)
                           /\ \A s \in {p.psk, p.endpoint, p.allowed} : \A t \in ToSet(s) : Literal(t)
    OBVIOUS
  <2>1. Literal(w.key) /\ \A p \in ToSet(w.peers) : ValidatePeer(p)
    BY <1>a, <1>3 DEF ValidateWireguard
  <2>2. \A p \in ToSet(w.peers) :
          /\ Literal(p.key)
          /\ \A t \in ToSet(p.psk) : Literal(t)
          /\ \A t \in ToSet(p.endpoint) : Literal(t)
          /\ \A t \in ToSet(p.allowed) : Literal(t)
    BY <1>a, <2>1 DEF ValidatePeer
  <2> QED BY <2>1, <2>2
<1> SUFFICES ASSUME NEW t \in TextsOf(c) PROVE Literal(t)
  OBVIOUS
<1>9. CASE t \in {c.name, c.description}
  BY <1>4, <1>9
<1>10. CASE t \in UNION {ToSet(s) : s \in {c.moves, c.gateway, c.servers, c.search}}
  BY <1>5, <1>10
<1>11. CASE t \in UNION {{v.name, v.type} \cup ToSet(v.peer) \cup ToSet(v.addresses) : v \in ToSet(c.vifs)}
  BY <1>6, <1>11
<1>12. CASE t \in UNION {{r.destination, r.gateway} : r \in ToSet(c.routes)}
  BY <1>7, <1>12
<1>13. CASE t \in UNION {{w.key} \cup UNION {{p.key} \cup UNION {ToSet(s) : s \in {p.psk, p.endpoint, p.allowed}}
                                       : p \in ToSet(w.peers)} : w \in ToSet(c.wireguard)}
  <2>1. PICK w \in ToSet(c.wireguard) :
          t \in {w.key} \cup UNION {{p.key} \cup UNION {ToSet(s) : s \in {p.psk, p.endpoint, p.allowed}}
                                       : p \in ToSet(w.peers)}
    BY <1>13
  <2>2. CASE t = w.key
    BY <1>8, <2>2
  <2>3. CASE t # w.key
    <3>1. PICK p \in ToSet(w.peers) : t \in {p.key} \cup UNION {ToSet(s) : s \in {p.psk, p.endpoint, p.allowed}}
      BY <2>1, <2>3
    <3>2. /\ Literal(p.key)
          /\ \A s \in {p.psk, p.endpoint, p.allowed} : \A u \in ToSet(s) : Literal(u)
      BY <1>8
    <3> QED BY <3>1, <3>2
  <2> QED BY <2>2, <2>3
<1> DEFINE plain == {c.name, c.description}
           lists == UNION {ToSet(s) : s \in {c.moves, c.gateway, c.servers, c.search}}
           ofVifs == UNION {{v.name, v.type} \cup ToSet(v.peer) \cup ToSet(v.addresses) : v \in ToSet(c.vifs)}
           ofRoutes == UNION {{r.destination, r.gateway} : r \in ToSet(c.routes)}
           ofTunnel == UNION {{w.key} \cup UNION {{p.key} \cup UNION {ToSet(s) : s \in {p.psk, p.endpoint, p.allowed}}
                                                      : p \in ToSet(w.peers)} : w \in ToSet(c.wireguard)}
<1>14. TextsOf(c) = plain \cup lists \cup ofVifs \cup ofRoutes \cup ofTunnel
  BY DEF TextsOf
<1>15. /\ t \in plain => Literal(t)
       /\ t \in lists => Literal(t)
       /\ t \in ofVifs => Literal(t)
       /\ t \in ofRoutes => Literal(t)
       /\ t \in ofTunnel => Literal(t)
  BY <1>9, <1>10, <1>11, <1>12, <1>13
<1> HIDE DEF plain, lists, ofVifs, ofRoutes, ofTunnel
<1> QED BY <1>14, <1>15

-----------------------------------------------------------------------------
(* What is in the files and what is loaded from them.                      *)

(* What a file can hold.                                                   *)
LEMMA FilesAreContents ==
  \A n \in Namespace : {files[n] : files \in Library} \cup Revision[n] \subseteq Contents
BY DEF Contents

(* Files and what is loaded from them stay so.                             *)
LEMMA FilesOkStep ==
  ASSUME FilesOk, [Next]_vars
  PROVE  FilesOk'
<1>1. ASSUME NEW n \in Namespace, Load(n) PROVE FilesOk'
  <2>1. loaded' = [loaded EXCEPT ![n] = FromFile(file[n])] /\ file' = file
    BY <1>1 DEF Load
  <2>2. FromFile(file[n]) \in Loadable
    BY FilesAreContents, LoadablesAreSound DEF FilesOk
  <2> QED BY <2>1, <2>2 DEF FilesOk
<1>2. ASSUME NEW n \in Namespace, Edit(n) PROVE FilesOk'
  <2>1. PICK c \in Revision[n] : file' = [file EXCEPT ![n] = c] /\ loaded' = loaded
    BY <1>2 DEF Edit
  <2> QED BY <2>1 DEF FilesOk
<1>3. CASE UNCHANGED <<file, loaded>>
  BY <1>3 DEF FilesOk
<1>4. ASSUME NEW n \in Namespace, BeginCreation(n) \/ BeginUpdate(n) \/ Retry(n) \/ BeginDelete(n) \/ CleanUp(n) \/ Enter(n)
      PROVE  UNCHANGED <<file, loaded>>
  BY <1>4 DEF BeginCreation, BeginUpdate, Retry, BeginDelete, CleanUp, Enter
<1>5. ASSUME Succeed \/ Refused \/ Fault \/ EndWork \/ DeleteNetns \/ EndDelete \/ Shutdown
      PROVE  UNCHANGED <<file, loaded>>
  BY <1>5 DEF Succeed, Refused, Fault, EndWork, DeleteNetns, EndDelete, Shutdown
<1>6. ASSUME NEW place, Leave(place) PROVE UNCHANGED <<file, loaded>>
  BY <1>6 DEF Leave
<1>7. CASE UNCHANGED vars
  BY <1>3, <1>7 DEF vars
<1> QED BY <1>1, <1>2, <1>3, <1>4, <1>5, <1>6, <1>7 DEF Next

(* At the start nothing is loaded.                                         *)
LEMMA FilesOkInit == Init => FilesOk
<1> SUFFICES ASSUME Init PROVE FilesOk
  OBVIOUS
<1>1. DOMAIN file = Namespace /\ \A n \in Namespace : file[n] \in {files[n] : files \in Library}
  BY ProvisioningAssumption DEF Init
<1>2. loaded = [n \in Namespace |-> FromFile(file[n])]
  BY DEF Init
<1>3. \A n \in Namespace : FromFile(file[n]) \in Loadable
  BY FilesAreContents, <1>1, LoadablesAreSound
<1> QED BY <1>1, <1>2, <1>3 DEF FilesOk

(* A file holds a content of the library, and what is loaded is what the   *)
(* loader makes of one, at all times.                                      *)
LEMMA FilesOkHolds == Spec => []FilesOk
BY FilesOkInit, FilesOkStep, PTL DEF Spec

(* Whatever the files hold, and through whatever variables: what is loaded *)
(* holds no reference, names no link twice, and passes the rules of all    *)
(* who validate (from_file, InterfaceConfig::validate).                    *)
THEOREM LoadedSound == Spec => []LoadedIsSound
<1>1. FilesOk => LoadedIsSound
  <2> SUFFICES ASSUME FilesOk, NEW n \in Namespace, NEW c \in ToSet(loaded[n])
               PROVE  /\ \A t \in TextsOf(c) : Literal(t)
                      /\ \A j, k \in LinkNames(c) : NameOfLink(c, j) = NameOfLink(c, k) => j = k
                      /\ ValidateConfigFile(<<c>>) /\ ValidateSingleFile(<<c>>) /\ ReloadCounts(<<c>>)
    BY DEF LoadedIsSound
  <2>1. loaded[n] \in Loadable
    BY DEF FilesOk
  <2>2. loaded[n] # <<>>
    BY DEF ToSet
  <2>3. loaded[n] = <<loaded[n][1]>> /\ Sound(loaded[n][1])
    BY <2>1, <2>2, LoadablesAreSound
  <2>4. c = loaded[n][1]
    BY <2>3 DEF ToSet
  <2>5. Sound(c)
    BY <2>3, <2>4
  <2>6. Validate(c) /\ ValidateInterfaces(c) /\ IsList(c.moves) /\ IsList(c.vifs)
    BY <2>5 DEF Sound, Validate, Regular
  <2>7. \A j, k \in LinkNames(c) : NameOfLink(c, j) = NameOfLink(c, k) => j = k
    BY <2>6, Counted DEF ValidateInterfaces
  <2>8. ValidateConfigFile(<<c>>) /\ ValidateSingleFile(<<c>>) /\ ReloadCounts(<<c>>)
    BY <2>6 DEF ValidateConfigFile, ValidateSingleFile, ReloadCounts
  <2> QED BY <2>5, <2>7, <2>8, SoundIsLiteral
<1> QED BY <1>1, FilesOkHolds, PTL

-----------------------------------------------------------------------------
(* What a text means: induction over numbers and over texts, by their      *)
(* least counterexample.                                                   *)

(* Induction over the natural numbers, as a property of a set: by its      *)
(* least counterexample.                                                   *)
LEMMA Induction ==
  ASSUME NEW S, 0 \in S, \A k \in Nat : k \in S => k + 1 \in S
  PROVE  \A k \in Nat : k \in S
<1> SUFFICES ASSUME Nat \ S # {} PROVE FALSE
  OBVIOUS
<1>1. IsWellFoundedOn({ss \in Nat \X Nat : ss[1] < ss[2]}, Nat)
  BY NatLessThanWellFounded, Zenon DEF OpToRel
<1>2. PICK m \in Nat \ S : \A k \in Nat \ S : ~(<<k, m>> \in {ss \in Nat \X Nat : ss[1] < ss[2]})
  BY <1>1, WFMin
<1>3. m # 0 /\ m - 1 \in Nat /\ m - 1 < m /\ (m - 1) + 1 = m
  BY <1>2
<1>4. m - 1 \in S
  BY <1>2, <1>3
<1> QED BY <1>2, <1>3, <1>4

(* A recursive function on an initial segment of the numbers exists.       *)
LEMMA FlattenRecursion ==
  ASSUME NEW s, NEW N \in Nat, N # 0, Len(s) = N
  PROVE  \E f : f = [i \in 1 .. N |-> IF i = 1 THEN s[i] ELSE f[i-1] \o s[i]]
<1> DEFINE S == {n \in Nat : n = 0 \/ \E f : f = [i \in 1 .. n |-> IF i = 1 THEN s[i] ELSE f[i-1] \o s[i]]}
<1>1. 0 \in S
  OBVIOUS
<1>2. ASSUME NEW n \in Nat, n \in S PROVE n + 1 \in S
  <2>1. CASE n = 0
    <3> DEFINE f == [i \in 1 .. 1 |-> s[1]]
    <3>1. f = [i \in 1 .. 1 |-> IF i = 1 THEN s[i] ELSE f[i-1] \o s[i]]
      OBVIOUS
    <3> HIDE DEF f
    <3>2. n + 1 = 1 /\ 1 \in Nat
      BY <2>1
    <3>3. 1 \in S
      BY <3>1, <3>2, Zenon
    <3> QED BY <3>2, <3>3
  <2>2. CASE n # 0
    <3>1. PICK f : f = [i \in 1 .. n |-> IF i = 1 THEN s[i] ELSE f[i-1] \o s[i]]
      BY <1>2, <2>2
    <3> DEFINE g == [i \in 1 .. n + 1 |-> IF i = n + 1 THEN f[n] \o s[n + 1] ELSE f[i]]
    <3>2. g = [i \in 1 .. n + 1 |-> IF i = 1 THEN s[i] ELSE g[i-1] \o s[i]]
      <4>1. ASSUME NEW i \in 1 .. n + 1 PROVE g[i] = IF i = 1 THEN s[i] ELSE g[i-1] \o s[i]
        <5>1. CASE i = n + 1
          <6>1. n \in 1 .. n + 1 /\ n # n + 1 /\ n + 1 \in 1 .. n + 1 /\ n + 1 # 1 /\ (n + 1) - 1 = n
            BY <2>2
          <6>2. g[n] = f[n] /\ g[n + 1] = f[n] \o s[n + 1]
            BY <6>1
          <6> HIDE DEF g
          <6> QED BY <5>1, <6>1, <6>2
        <5>2. CASE i # n + 1
          <6>1. i \in 1 .. n /\ (i # 1 => i - 1 \in 1 .. n /\ i - 1 # n + 1 /\ i - 1 \in 1 .. n + 1)
            BY <5>2
          <6>2. f[i] = IF i = 1 THEN s[i] ELSE f[i-1] \o s[i]
            BY <3>1, <6>1
          <6> QED BY <5>2, <6>1, <6>2
        <5> QED BY <5>1, <5>2
      <4>2. g = [i \in 1 .. n + 1 |-> g[i]]
        OBVIOUS
      <4> HIDE DEF g
      <4> QED BY <4>1, <4>2
    <3> HIDE DEF g
    <3>3. n + 1 \in Nat
      OBVIOUS
    <3> QED BY <3>2, <3>3, Zenon
  <2> QED BY <2>1, <2>2
<1> HIDE DEF S
<1>3. N \in S
  BY <1>1, <1>2, Induction
<1> QED BY <1>3 DEF S

(* The recursive function that joins texts unfolds.                        *)
LEMMA FlattenIs ==
  ASSUME NEW s, Len(s) \in Nat, Len(s) # 0
  PROVE  \E f : /\ f = [i \in 1 .. Len(s) |-> IF i = 1 THEN s[i] ELSE f[i-1] \o s[i]]
                /\ FlattenSeq(s) = f[Len(s)]
<1> DEFINE flatten[i \in 1 .. Len(s)] == IF i = 1 THEN s[i] ELSE flatten[i-1] \o s[i]
<1>1. \E f : f = [i \in 1 .. Len(s) |-> IF i = 1 THEN s[i] ELSE f[i-1] \o s[i]]
  BY FlattenRecursion
<1>2. flatten = [i \in 1 .. Len(s) |-> IF i = 1 THEN s[i] ELSE flatten[i-1] \o s[i]]
  BY <1>1, Zenon DEF flatten
<1>3. FlattenSeq(s) = flatten[Len(s)]
  BY Zenon DEF FlattenSeq
<1> HIDE DEF flatten
<1> QED BY <1>2, <1>3

(* Joining texts gives a text, and the last one comes last.                *)
LEMMA FlattenIsText ==
  ASSUME NEW P, NEW s \in Seq(Seq(P))
  PROVE  FlattenSeq(s) \in Seq(P)
<1>1. CASE Len(s) = 0
  <2>1. s = <<>> /\ <<>> \in Seq(P)
    BY <1>1
  <2> QED BY <1>1, <2>1, Zenon DEF FlattenSeq
<1>2. CASE Len(s) # 0
  <2>1. Len(s) \in Nat /\ \A i \in 1 .. Len(s) : s[i] \in Seq(P)
    OBVIOUS
  <2>2. PICK f : /\ f = [i \in 1 .. Len(s) |-> IF i = 1 THEN s[i] ELSE f[i-1] \o s[i]]
                 /\ FlattenSeq(s) = f[Len(s)]
    BY <1>2, <2>1, FlattenIs
  <2> DEFINE S == {n \in Nat : n \in 1 .. Len(s) => f[n] \in Seq(P)}
  <2>3. 0 \in S
    OBVIOUS
  <2>4. ASSUME NEW n \in Nat, n \in S PROVE n + 1 \in S
    <3> SUFFICES ASSUME n + 1 \in 1 .. Len(s) PROVE f[n + 1] \in Seq(P)
      OBVIOUS
    <3>1. f[n + 1] = IF n + 1 = 1 THEN s[n + 1] ELSE f[(n + 1) - 1] \o s[n + 1]
      BY <2>2, Zenon
    <3>2. (n + 1) - 1 = n /\ (n + 1 # 1 => n \in 1 .. Len(s))
      BY <2>1
    <3>3. s[n + 1] \in Seq(P)
      BY <2>1
    <3> QED BY <2>4, <3>1, <3>2, <3>3
  <2> HIDE DEF S
  <2>5. Len(s) \in S
    BY <2>1, <2>3, <2>4, Induction
  <2> QED BY <1>2, <2>1, <2>2, <2>5 DEF S
<1> QED BY <1>1, <1>2

(* The text joined last comes last.                                        *)
LEMMA FlattenAppend ==
  ASSUME NEW P, NEW s \in Seq(Seq(P)), NEW x \in Seq(P)
  PROVE  FlattenSeq(Append(s, x)) = FlattenSeq(s) \o x
<1> DEFINE t == Append(s, x)
           N == Len(s)
<1>1. /\ N \in Nat /\ Len(t) = N + 1 /\ N + 1 \in Nat /\ N + 1 # 0
      /\ \A i \in 1 .. N : i \in 1 .. N + 1 /\ t[i] = s[i]
      /\ t[N + 1] = x /\ N + 1 \in 1 .. N + 1
  OBVIOUS
<1> HIDE DEF t
<1>2. PICK g : /\ g = [i \in 1 .. Len(t) |-> IF i = 1 THEN t[i] ELSE g[i-1] \o t[i]]
               /\ FlattenSeq(t) = g[Len(t)]
  BY <1>1, FlattenIs
<1>3. g[N + 1] = IF N + 1 = 1 THEN t[N + 1] ELSE g[(N + 1) - 1] \o t[N + 1]
  BY <1>1, <1>2, Zenon
<1>4. CASE N = 0
  <2>1. FlattenSeq(s) = s
    BY <1>4, Zenon DEF FlattenSeq, N
  <2>2. s = <<>>
    BY <1>4
  <2>3. g[N + 1] = x /\ <<>> \o x = x
    BY <1>1, <1>3, <1>4
  <2> QED BY <1>1, <1>2, <2>1, <2>2, <2>3 DEF t
<1>5. CASE N # 0
  <2>2. PICK f : /\ f = [i \in 1 .. N |-> IF i = 1 THEN s[i] ELSE f[i-1] \o s[i]]
                 /\ FlattenSeq(s) = f[N]
    BY <1>1, <1>5, FlattenIs
  <2> DEFINE S == {n \in Nat : n \in 1 .. N => f[n] = g[n]}
  <2>3. 0 \in S
    OBVIOUS
  <2>4. ASSUME NEW n \in Nat, n \in S PROVE n + 1 \in S
    <3> SUFFICES ASSUME n + 1 \in 1 .. N PROVE f[n + 1] = g[n + 1]
      OBVIOUS
    <3>0. n + 1 \in 1 .. Len(t)
      BY <1>1
    <3>1. f[n + 1] = IF n + 1 = 1 THEN s[n + 1] ELSE f[(n + 1) - 1] \o s[n + 1]
      BY <2>2, Zenon
    <3>2. g[n + 1] = IF n + 1 = 1 THEN t[n + 1] ELSE g[(n + 1) - 1] \o t[n + 1]
      BY <1>2, <3>0, Zenon
    <3>3. (n + 1) - 1 = n /\ (n + 1 # 1 => n \in 1 .. N)
      BY <1>1
    <3>4. s[n + 1] = t[n + 1]
      BY <1>1, Zenon
    <3> QED BY <2>4, <3>1, <3>2, <3>3, <3>4
  <2> HIDE DEF S, N
  <2>5. N \in S
    BY <1>1, <2>3, <2>4, Induction
  <2>6. f[N] = g[N] /\ (N + 1) - 1 = N /\ N + 1 # 1
    BY <1>1, <1>5, <2>5 DEF S
  <2> QED BY <1>1, <1>2, <1>3, <2>2, <2>6 DEF t
<1> QED BY <1>4, <1>5

(* Induction over a text, piece by piece.                                  *)
LEMMA TextInduction ==
  ASSUME NEW P, NEW S, <<>> \in S, \A t \in Seq(P), p \in P : t \in S => Append(t, p) \in S
  PROVE  \A t \in Seq(P) : t \in S
<1> DEFINE Q == {n \in Nat : \A t \in Seq(P) : Len(t) = n => t \in S}
<1>1. 0 \in Q
  <2>1. \A t \in Seq(P) : Len(t) = 0 => t = <<>>
    OBVIOUS
  <2> QED BY <2>1
<1>2. ASSUME NEW n \in Nat, n \in Q PROVE n + 1 \in Q
  <2> SUFFICES ASSUME NEW t \in Seq(P), Len(t) = n + 1 PROVE t \in S
    OBVIOUS
  <2> DEFINE u == SubSeq(t, 1, n)
  <2>1. /\ u \in Seq(P) /\ Len(u) = n /\ t[n + 1] \in P
        /\ \A i \in 1 .. n : u[i] = t[i]
    OBVIOUS
  <2> HIDE DEF u
  <2>2. t = Append(u, t[n + 1])
    BY <2>1
  <2>3. u \in S
    BY <1>2, <2>1
  <2> QED BY <2>1, <2>2, <2>3
<1> HIDE DEF Q
<1>3. \A n \in Nat : n \in Q
  BY <1>1, <1>2, Induction
<1>4. \A t \in Seq(P) : Len(t) \in Nat
  OBVIOUS
<1> QED BY <1>3, <1>4 DEF Q

-----------------------------------------------------------------------------
(* Replacing each piece of a text by a text, where that may fail.          *)
Maybe(P) == {<<>>} \cup {<<t>> : t \in Seq(P)}

Mapped(h, t) ==
  IF \E i \in DOMAIN t : h[t[i]] = <<>> THEN <<>>
  ELSE << FlattenSeq([i \in DOMAIN t |-> h[t[i]][1]]) >>

Join(x, y) == IF x = <<>> \/ y = <<>> THEN <<>> ELSE <<x[1] \o y[1]>>
Bind(x, h) == IF x = <<>> THEN <<>> ELSE Mapped(h, x[1])

(* A text that is there.                                                   *)
LEMMA MaybeIs ==
  ASSUME NEW P, NEW x \in Maybe(P), x # <<>>
  PROVE  x[1] \in Seq(P) /\ x = <<x[1]>>
BY DEF Maybe

(* A text that is there is not an error.                                   *)
LEMMA Just ==
  ASSUME NEW t
  PROVE  <<t>> # <<>> /\ <<t>>[1] = t
OBVIOUS

(* Nothing is replaced in an empty text.                                   *)
LEMMA MappedEmpty ==
  ASSUME NEW h
  PROVE  Mapped(h, <<>>) = << <<>> >>
<1>1. DOMAIN <<>> = {}
  OBVIOUS
<1>2. [i \in DOMAIN <<>> |-> h[<<>>[i]][1]] = <<>>
  OBVIOUS
<1>3. FlattenSeq(<<>>) = <<>>
  <2>1. Len(<<>>) = 0
    OBVIOUS
  <2> QED BY <2>1, Zenon DEF FlattenSeq
<1> QED BY <1>1, <1>2, <1>3, Zenon DEF Mapped

(* What the pieces are replaced by, in order.                              *)
LEMMA PartsAreTexts ==
  ASSUME NEW P, NEW h \in [P -> Maybe(P)], NEW t \in Seq(P), \A i \in DOMAIN t : h[t[i]] # <<>>
  PROVE  [i \in DOMAIN t |-> h[t[i]][1]] \in Seq(Seq(P))
<1>1. \A i \in DOMAIN t : h[t[i]][1] \in Seq(P)
  BY MaybeIs
<1>2. DOMAIN t = 1 .. Len(t) /\ Len(t) \in Nat
  OBVIOUS
<1> QED BY <1>1, <1>2

(* The result is a text or an error.                                       *)
LEMMA MappedIsMaybe ==
  ASSUME NEW P, NEW h \in [P -> Maybe(P)], NEW t \in Seq(P)
  PROVE  Mapped(h, t) \in Maybe(P)
BY PartsAreTexts, FlattenIsText DEF Mapped, Maybe

(* A text with one more piece has the replacement of that piece at its     *)
(* end.                                                                    *)
LEMMA MappedAppend ==
  ASSUME NEW P, NEW h \in [P -> Maybe(P)], NEW t \in Seq(P), NEW p \in P
  PROVE  Mapped(h, Append(t, p)) = Join(Mapped(h, t), h[p])
<1> DEFINE u == Append(t, p)
<1>1. /\ DOMAIN u = DOMAIN t \cup {Len(t) + 1} /\ Len(t) + 1 \notin DOMAIN t
      /\ u[Len(t) + 1] = p /\ \A i \in DOMAIN t : u[i] = t[i]
  OBVIOUS
<1> HIDE DEF u
<1>2. CASE \E i \in DOMAIN u : h[u[i]] = <<>>
  <2>1. h[p] = <<>> \/ \E i \in DOMAIN t : h[t[i]] = <<>>
    BY <1>1, <1>2
  <2> QED BY <1>2, <2>1 DEF u, Mapped, Join
<1>3. CASE \A i \in DOMAIN u : h[u[i]] # <<>>
  <2>1. h[p] # <<>> /\ \A i \in DOMAIN t : h[t[i]] # <<>>
    BY <1>1, <1>3
  <2> DEFINE parts == [i \in DOMAIN t |-> h[t[i]][1]]
  <2>2. parts \in Seq(Seq(P)) /\ h[p][1] \in Seq(P)
    BY <2>1, PartsAreTexts, MaybeIs
  <2>3. [i \in DOMAIN u |-> h[u[i]][1]] = Append(parts, h[p][1])
    <3> DEFINE w == [i \in DOMAIN u |-> h[u[i]][1]]
               more == Append(parts, h[p][1])
    <3>1. /\ DOMAIN parts = DOMAIN t /\ DOMAIN t = 1 .. Len(t) /\ Len(t) \in Nat
          /\ \A i \in DOMAIN t : parts[i] = h[t[i]][1]
      OBVIOUS
    <3> HIDE DEF parts
    <3>2. /\ DOMAIN more = 1 .. Len(t) + 1 /\ more[Len(t) + 1] = h[p][1]
          /\ \A i \in 1 .. Len(t) : more[i] = parts[i]
      BY <2>2, <3>1
    <3>3. more = [i \in DOMAIN more |-> more[i]]
      BY <2>2
    <3>4. \A i \in DOMAIN u : w[i] = more[i]
      BY <1>1, <3>1, <3>2
    <3>5. DOMAIN more = DOMAIN u
      BY <1>1, <3>1, <3>2
    <3> HIDE DEF more
    <3> QED BY <3>3, <3>4, <3>5 DEF more
  <2>4. FlattenSeq(Append(parts, h[p][1])) = FlattenSeq(parts) \o h[p][1]
    BY <2>2, FlattenAppend
  <2>5. Mapped(h, t) = <<FlattenSeq(parts)>>
    BY <2>1 DEF Mapped
  <2>6. Mapped(h, u) = <<FlattenSeq(Append(parts, h[p][1]))>>
    BY <1>3, <2>3 DEF Mapped
  <2>7. Join(Mapped(h, t), h[p]) = <<FlattenSeq(parts) \o h[p][1]>>
    BY <2>1, <2>5, Just DEF Join
  <2> QED BY <2>4, <2>6, <2>7 DEF u
<1> QED BY <1>2, <1>3

(* Three texts joined from either side are one text.                       *)
LEMMA Associates ==
  ASSUME NEW P, NEW x \in Seq(P), NEW y \in Seq(P), NEW z \in Seq(P)
  PROVE  (x \o y) \o z = x \o (y \o z)
<1> DEFINE a == (x \o y) \o z
           b == x \o (y \o z)
<1>1. /\ x \o y \in Seq(P) /\ Len(x \o y) = Len(x) + Len(y)
      /\ \A i \in 1 .. Len(x) + Len(y) : (x \o y)[i] = IF i <= Len(x) THEN x[i] ELSE y[i - Len(x)]
  BY ConcatProperties
<1>2. /\ y \o z \in Seq(P) /\ Len(y \o z) = Len(y) + Len(z)
      /\ \A i \in 1 .. Len(y) + Len(z) : (y \o z)[i] = IF i <= Len(y) THEN y[i] ELSE z[i - Len(y)]
  BY ConcatProperties
<1>3. a \in Seq(P) /\ Len(a) = Len(x) + Len(y) + Len(z)
  BY <1>1
<1>4. b \in Seq(P) /\ Len(b) = Len(x) + Len(y) + Len(z)
  BY <1>2
<1>5. ASSUME NEW i \in 1 .. Len(x) + Len(y) + Len(z) PROVE a[i] = b[i]
  <2>1. a[i] = IF i <= Len(x) + Len(y) THEN (x \o y)[i] ELSE z[i - (Len(x) + Len(y))]
    BY <1>1
  <2>2. b[i] = IF i <= Len(x) THEN x[i] ELSE (y \o z)[i - Len(x)]
    BY <1>2
  <2> HIDE DEF a, b
  <2>3. CASE i <= Len(x)
    BY <1>1, <2>1, <2>2, <2>3
  <2>4. CASE i > Len(x)
    <3>1. i - Len(x) \in 1 .. Len(y) + Len(z)
      BY <2>4
    <3> QED BY <1>1, <1>2, <2>1, <2>2, <2>4, <3>1
  <2> QED BY <2>3, <2>4
<1> HIDE DEF a, b
<1>6. a = b
  BY <1>3, <1>4, <1>5, SeqEqual
<1> QED BY <1>6 DEF a, b

(* So are three texts of which any may be missing.                         *)
LEMMA JoinAssociates ==
  ASSUME NEW P, NEW a \in Maybe(P), NEW b \in Maybe(P), NEW c \in Maybe(P)
  PROVE  Join(Join(a, b), c) = Join(a, Join(b, c))
<1>1. CASE a = <<>> \/ b = <<>> \/ c = <<>>
  BY <1>1 DEF Join
<1>2. CASE a # <<>> /\ b # <<>> /\ c # <<>>
  <2>1. PICK x \in Seq(P), y \in Seq(P), z \in Seq(P) : a = <<x>> /\ b = <<y>> /\ c = <<z>>
    BY <1>2, MaybeIs
  <2>2. Join(a, b) = <<x \o y>> /\ Join(b, c) = <<y \o z>>
    BY <2>1, Just DEF Join
  <2>3. Join(<<x \o y>>, c) = <<(x \o y) \o z>> /\ Join(a, <<y \o z>>) = <<x \o (y \o z)>>
    BY <2>1, Just DEF Join
  <2>4. (x \o y) \o z = x \o (y \o z)
    BY Associates, SMTT(30)
  <2> QED BY <2>2, <2>3, <2>4
<1> QED BY <1>1, <1>2

(* The parts of a text are replaced one by one.                            *)
LEMMA MappedConcat ==
  ASSUME NEW P, NEW h \in [P -> Maybe(P)], NEW t \in Seq(P), NEW u \in Seq(P)
  PROVE  Mapped(h, t \o u) = Join(Mapped(h, t), Mapped(h, u))
<1> DEFINE S == {x \in Seq(P) : Mapped(h, t \o x) = Join(Mapped(h, t), Mapped(h, x))}
<1>0. Mapped(h, t) \in Maybe(P)
  BY MappedIsMaybe
<1>1. <<>> \in S
  <2>1. t \o <<>> = t /\ <<>> \in Seq(P)
    BY ConcatEmptySeq
  <2>2. CASE Mapped(h, t) = <<>>
    BY <2>1, <2>2 DEF Join
  <2>3. CASE Mapped(h, t) # <<>>
    <3>1. Mapped(h, t)[1] \in Seq(P) /\ Mapped(h, t) = <<Mapped(h, t)[1]>>
      BY <1>0, <2>3, MaybeIs
    <3>2. Mapped(h, t)[1] \o <<>> = Mapped(h, t)[1]
      BY <3>1, ConcatEmptySeq
    <3>3. Join(Mapped(h, t), << <<>> >>) = <<Mapped(h, t)[1] \o <<>> >>
      BY <2>3, Just DEF Join
    <3> QED BY <2>1, <3>1, <3>2, <3>3, MappedEmpty
  <2> QED BY <2>2, <2>3
<1>2. ASSUME NEW x \in Seq(P), NEW p \in P, x \in S PROVE Append(x, p) \in S
  <2>1. t \o Append(x, p) = Append(t \o x, p) /\ t \o x \in Seq(P) /\ Append(x, p) \in Seq(P)
    OBVIOUS
  <2>2. Mapped(h, t \o Append(x, p)) = Join(Join(Mapped(h, t), Mapped(h, x)), h[p])
    BY <1>2, <2>1, MappedAppend
  <2>3. Mapped(h, Append(x, p)) = Join(Mapped(h, x), h[p])
    BY MappedAppend
  <2>4. Mapped(h, x) \in Maybe(P) /\ h[p] \in Maybe(P)
    BY MappedIsMaybe
  <2>5. Join(Join(Mapped(h, t), Mapped(h, x)), h[p]) = Join(Mapped(h, t), Join(Mapped(h, x), h[p]))
    BY <1>0, <2>4, JoinAssociates
  <2> QED BY <2>1, <2>2, <2>3, <2>5, Zenon
<1> HIDE DEF S
<1>3. u \in S
  BY <1>1, <1>2, TextInduction
<1> QED BY <1>3 DEF S

(* Two rounds of replacement are one that replaces what is put in.         *)
LEMMA MappedTwice ==
  ASSUME NEW P, NEW g \in [P -> Maybe(P)], NEW h \in [P -> Maybe(P)],
         NEW both, both = [p \in P |-> Bind(g[p], h)], NEW t \in Seq(P)
  PROVE  both \in [P -> Maybe(P)] /\ Mapped(both, t) = Bind(Mapped(g, t), h)
<1>1. ASSUME NEW x \in Maybe(P) PROVE Bind(x, h) \in Maybe(P)
  BY MaybeIs, MappedIsMaybe DEF Bind, Maybe
<1>2. both \in [P -> Maybe(P)]
  BY <1>1
<1> DEFINE S == {x \in Seq(P) : Mapped(both, x) = Bind(Mapped(g, x), h)}
<1>3. <<>> \in S
  <2>1. Mapped(both, <<>>) = << <<>> >> /\ Mapped(g, <<>>) = << <<>> >> /\ Mapped(h, <<>>) = << <<>> >>
    BY MappedEmpty
  <2>2. Bind(<< <<>> >>, h) = Mapped(h, <<>>)
    BY Just DEF Bind
  <2>3. <<>> \in Seq(P)
    OBVIOUS
  <2> QED BY <2>1, <2>2, <2>3
<1>4. ASSUME NEW x \in Seq(P), NEW p \in P, x \in S PROVE Append(x, p) \in S
  <2>1. Append(x, p) \in Seq(P)
    OBVIOUS
  <2>2. Mapped(both, Append(x, p)) = Join(Bind(Mapped(g, x), h), Bind(g[p], h))
    BY <1>2, <1>4, MappedAppend
  <2>3. Mapped(g, Append(x, p)) = Join(Mapped(g, x), g[p])
    BY MappedAppend
  <2>4. Mapped(g, x) \in Maybe(P) /\ g[p] \in Maybe(P)
    BY MappedIsMaybe
  <2>5. ASSUME NEW a \in Maybe(P), NEW b \in Maybe(P)
        PROVE  Bind(Join(a, b), h) = Join(Bind(a, h), Bind(b, h))
    <3>1. CASE a = <<>> \/ b = <<>>
      BY <3>1 DEF Join, Bind
    <3>2. CASE a # <<>> /\ b # <<>>
      <4>1. a[1] \in Seq(P) /\ b[1] \in Seq(P)
        BY <3>2, MaybeIs
      <4>2. Join(a, b) = <<a[1] \o b[1]>>
        BY <3>2 DEF Join
      <4>3. Bind(<<a[1] \o b[1]>>, h) = Mapped(h, a[1] \o b[1])
        BY Just DEF Bind
      <4>4. Bind(a, h) = Mapped(h, a[1]) /\ Bind(b, h) = Mapped(h, b[1])
        BY <3>2 DEF Bind
      <4> QED BY <4>1, <4>2, <4>3, <4>4, MappedConcat
    <3> QED BY <3>1, <3>2
  <2> QED BY <2>1, <2>2, <2>3, <2>4, <2>5
<1> HIDE DEF S
<1>5. t \in S
  BY <1>3, <1>4, TextInduction
<1> QED BY <1>2, <1>5 DEF S

-----------------------------------------------------------------------------
(* A step can be repeated any number of times.                             *)
Repeats(f, g, N) == \A n \in 1 .. N : f[n] = g[f[n - 1]]

(* Any number of repetitions has a record.                                 *)
LEMMA Iterates ==
  ASSUME NEW S, NEW a \in S, NEW g \in [S -> S], NEW N \in Nat
  PROVE  \E f \in [0 .. N -> S] : f[0] = a /\ Repeats(f, g, N)
<1> DEFINE Q == {n \in Nat : \E f \in [0 .. n -> S] : f[0] = a /\ Repeats(f, g, n)}
<1>1. 0 \in Q
  <2> DEFINE f == [k \in 0 .. 0 |-> a]
  <2>1. f \in [0 .. 0 -> S] /\ f[0] = a /\ Repeats(f, g, 0)
    BY DEF Repeats
  <2> HIDE DEF f
  <2> QED BY <2>1
<1>2. ASSUME NEW n \in Nat, n \in Q PROVE n + 1 \in Q
  <2>1. PICK f \in [0 .. n -> S] : f[0] = a /\ Repeats(f, g, n)
    BY <1>2
  <2> DEFINE e == [k \in 0 .. n + 1 |-> IF k = n + 1 THEN g[f[n]] ELSE f[k]]
  <2>2. e \in [0 .. n + 1 -> S] /\ e[0] = a
    BY <2>1
  <2>3. ASSUME NEW k \in 1 .. n + 1 PROVE e[k] = g[e[k - 1]]
    <3>1. k \in 0 .. n + 1 /\ k - 1 \in 0 .. n + 1 /\ k - 1 # n + 1
      OBVIOUS
    <3>2. e[k - 1] = f[k - 1] /\ e[k] = IF k = n + 1 THEN g[f[n]] ELSE f[k]
      BY <3>1
    <3>3. k = n + 1 => k - 1 = n
      OBVIOUS
    <3>4. k # n + 1 => k \in 1 .. n
      OBVIOUS
    <3> HIDE DEF e
    <3> QED BY <2>1, <3>2, <3>3, <3>4 DEF Repeats
  <2> HIDE DEF e
  <2>4. n + 1 \in Nat /\ Repeats(e, g, n + 1)
    BY <2>3 DEF Repeats
  <2> QED BY <2>2, <2>4
<1> HIDE DEF Q
<1>3. N \in Q
  BY <1>1, <1>2, Induction
<1> QED BY <1>3 DEF Q

(* The pieces a text can come to have: every reference leads to others.    *)
Once(P, env) == [p \in P |-> IF IsRef(p) THEN ResolveVariableSpec(p, env) ELSE << <<p>> >>]
Closed(P, env) == Once(P, env) \in [P -> Maybe(P)]

(* A round of the code replaces each reference by its value                *)
(* (substitute_env_vars).                                                  *)
LEMMA RoundIs ==
  ASSUME NEW P, NEW env, NEW t \in Seq(P)
  PROVE  Round(t, env) = Mapped(Once(P, env), t)
<1> DEFINE parts == [i \in DOMAIN t |-> IF IsRef(t[i]) THEN ResolveVariableSpec(t[i], env)
                                                       ELSE << <<t[i]>> >>]
           h == Once(P, env)
<1>1. \A i \in DOMAIN t : t[i] \in P
  OBVIOUS
<1>2. \A i \in DOMAIN t : parts[i] = h[t[i]]
  BY <1>1 DEF Once
<1>3. Round(t, env) = IF \E i \in DOMAIN t : parts[i] = <<>> THEN <<>>
                      ELSE << FlattenSeq([i \in DOMAIN t |-> parts[i][1]]) >>
  BY Zenon DEF Round
<1> HIDE DEF parts, h
<1>4. [i \in DOMAIN t |-> parts[i][1]] = [i \in DOMAIN t |-> h[t[i]][1]]
  BY <1>2
<1> QED BY <1>2, <1>3, <1>4 DEF Mapped, h

(* The rounds of a substitution.                                           *)
LEMMA RoundsAre ==
  ASSUME NEW P, NEW env, Closed(P, env), NEW t \in Seq(P)
  PROVE  \E f : /\ f \in [0 .. MaxIterations -> Maybe(P)] /\ f[0] = <<t>>
                /\ \A n \in 1 .. MaxIterations : f[n] = Bind(f[n - 1], Once(P, env))
                /\ LET last == f[MaxIterations - 2] IN
                   SubstituteEnvVars(t, env) =
                     IF last # <<>> /\ Literal(last[1]) THEN last ELSE <<>>
<1> DEFINE rounds[n \in 0 .. MaxIterations] ==
             IF n = 0 THEN <<t>>
             ELSE IF rounds[n - 1] = <<>> THEN <<>> ELSE Round(rounds[n - 1][1], env)
           step == [x \in Maybe(P) |-> Bind(x, Once(P, env))]
<1>0. MaxIterations \in Nat
  BY RulesAssumption
<1>1. step \in [Maybe(P) -> Maybe(P)] /\ <<t>> \in Maybe(P)
  BY MaybeIs, MappedIsMaybe DEF Bind, Maybe, Closed
<1>2. ASSUME NEW x \in Maybe(P)
      PROVE  Bind(x, Once(P, env)) = IF x = <<>> THEN <<>> ELSE Round(x[1], env)
  BY MaybeIs, RoundIs DEF Bind
<1>3. \E f : f = [n \in 0 .. MaxIterations |->
                    IF n = 0 THEN <<t>>
                    ELSE IF f[n - 1] = <<>> THEN <<>> ELSE Round(f[n - 1][1], env)]
  <2> HIDE DEF step
  <2>1. PICK f \in [0 .. MaxIterations -> Maybe(P)] : f[0] = <<t>> /\ Repeats(f, step, MaxIterations)
    BY <1>0, <1>1, Iterates
  <2>2. ASSUME NEW n \in 0 .. MaxIterations
        PROVE  f[n] = IF n = 0 THEN <<t>>
                      ELSE IF f[n - 1] = <<>> THEN <<>> ELSE Round(f[n - 1][1], env)
    <3>1. n # 0 => n \in 1 .. MaxIterations /\ n - 1 \in 0 .. MaxIterations
      BY <1>0
    <3>2. n # 0 => f[n - 1] \in Maybe(P) /\ f[n] = Bind(f[n - 1], Once(P, env))
      BY <2>1, <3>1 DEF step, Repeats
    <3> QED BY <1>2, <2>1, <3>2
  <2> QED BY <2>1, <2>2
<1>4. rounds = [n \in 0 .. MaxIterations |->
                  IF n = 0 THEN <<t>>
                  ELSE IF rounds[n - 1] = <<>> THEN <<>> ELSE Round(rounds[n - 1][1], env)]
  BY <1>3, Zenon DEF rounds
<1>5. SubstituteEnvVars(t, env) =
        IF rounds[MaxIterations - 2] # <<>> /\ Literal(rounds[MaxIterations - 2][1])
        THEN rounds[MaxIterations - 2] ELSE <<>>
  BY Zenon DEF SubstituteEnvVars
<1> HIDE DEF rounds, step
<1>6. ASSUME NEW n \in Nat
      PROVE  n \in 0 .. MaxIterations => rounds[n] \in Maybe(P)
  <2> DEFINE S == {k \in Nat : k \in 0 .. MaxIterations => rounds[k] \in Maybe(P)}
  <2>1. 0 \in S
    BY <1>0, <1>1, <1>4
  <2>2. ASSUME NEW k \in Nat, k \in S PROVE k + 1 \in S
    <3> SUFFICES ASSUME k + 1 \in 0 .. MaxIterations PROVE rounds[k + 1] \in Maybe(P)
      OBVIOUS
    <3>1. k \in 0 .. MaxIterations /\ (k + 1) - 1 = k /\ k + 1 # 0
      BY <1>0
    <3>2. rounds[k + 1] = IF k + 1 = 0 THEN <<t>>
                          ELSE IF rounds[(k + 1) - 1] = <<>> THEN <<>> ELSE Round(rounds[(k + 1) - 1][1], env)
      BY <1>4, Zenon
    <3>3. rounds[k] \in Maybe(P)
      BY <2>2, <3>1
    <3>4. rounds[k + 1] = Bind(rounds[k], Once(P, env))
      BY <1>2, <3>1, <3>2, <3>3
    <3>5. step[rounds[k]] \in Maybe(P)
      BY <1>1, <3>3
    <3> QED BY <3>3, <3>4, <3>5 DEF step
  <2> HIDE DEF S
  <2>3. n \in S
    BY <2>1, <2>2, Induction
  <2> QED BY <2>3 DEF S
<1>7. ASSUME NEW n \in 1 .. MaxIterations PROVE rounds[n] = Bind(rounds[n - 1], Once(P, env))
  <2>1. n \in 0 .. MaxIterations /\ n - 1 \in 0 .. MaxIterations /\ n # 0 /\ n - 1 \in Nat
    BY <1>0
  <2>2. rounds[n - 1] \in Maybe(P)
    BY <1>6, <2>1
  <2> QED BY <1>2, <1>4, <2>1, <2>2
<1>8. rounds[0] = <<t>> /\ rounds \in [0 .. MaxIterations -> Maybe(P)]
  <2>1. DOMAIN rounds = 0 .. MaxIterations /\ 0 \in 0 .. MaxIterations /\ rounds = [n \in 0 .. MaxIterations |-> rounds[n]]
    BY <1>0, <1>4
  <2>2. \A n \in 0 .. MaxIterations : rounds[n] \in Maybe(P)
    BY <1>0, <1>6
  <2> QED BY <1>4, <2>1, <2>2
<1> QED BY <1>5, <1>7, <1>8

(* What a text means when the references in it mean what d says.           *)
Refs(P) == {p \in P : IsRef(p)}
Reading(P, d) == [p \in P |-> IF IsRef(p) THEN d[p] ELSE << <<p>> >>]

(* What a text reads when d gives the meanings of its references.          *)
Read(d, v) ==
  IF \E i \in DOMAIN v : IsRef(v[i]) /\ d[v[i]] = <<>> THEN <<>>
  ELSE << FlattenSeq([i \in DOMAIN v |-> IF IsRef(v[i]) THEN d[v[i]][1] ELSE <<v[i]>>]) >>

(* The meaning of a text is made of the meanings of its references.        *)
LEMMA ReadingIs ==
  ASSUME NEW P, NEW d, NEW v \in Seq(P)
  PROVE  Mapped(Reading(P, d), v) = Read(d, v)
<1> DEFINE h == Reading(P, d)
<1>1. \A i \in DOMAIN v : v[i] \in P
  OBVIOUS
<1>2. \A i \in DOMAIN v : h[v[i]] = IF IsRef(v[i]) THEN d[v[i]] ELSE << <<v[i]>> >>
  BY <1>1 DEF Reading
<1>3. \A i \in DOMAIN v : << <<v[i]>> >> # <<>> /\ << <<v[i]>> >>[1] = <<v[i]>>
  BY Just
<1> HIDE DEF h
<1>4. (\E i \in DOMAIN v : h[v[i]] = <<>>) <=> \E i \in DOMAIN v : IsRef(v[i]) /\ d[v[i]] = <<>>
  BY <1>2, <1>3
<1>5. [i \in DOMAIN v |-> h[v[i]][1]] = [i \in DOMAIN v |-> IF IsRef(v[i]) THEN d[v[i]][1] ELSE <<v[i]>>]
  BY <1>2, <1>3
<1> QED BY <1>4, <1>5, Zenon DEF Mapped, Read, h

(* The meanings of the references, from those one level below.             *)
Deeper(P, env, d) == [r \in Refs(P) |-> Bind(Once(P, env)[r], Reading(P, d))]

(* Meanings of references give each piece a text or an error.              *)
LEMMA ReadingIsMaybe ==
  ASSUME NEW P, NEW d \in [Refs(P) -> Maybe(P)]
  PROVE  Reading(P, d) \in [P -> Maybe(P)]
<1>1. \A p \in P : <<p>> \in Seq(P)
  OBVIOUS
<1> QED BY <1>1 DEF Reading, Refs, Maybe

(* So do the meanings of the next level.                                   *)
LEMMA DeeperIsMaybe ==
  ASSUME NEW P, NEW env, Closed(P, env), NEW d \in [Refs(P) -> Maybe(P)]
  PROVE  Deeper(P, env, d) \in [Refs(P) -> Maybe(P)]
<1>1. ASSUME NEW x \in Maybe(P) PROVE Bind(x, Reading(P, d)) \in Maybe(P)
  <2>1. CASE x = <<>>
    BY <2>1 DEF Bind, Maybe
  <2>2. CASE x # <<>>
    BY <2>2, MaybeIs, MappedIsMaybe, ReadingIsMaybe DEF Bind
  <2> QED BY <2>1, <2>2
<1> QED BY <1>1 DEF Deeper, Refs, Closed

Known(t, env) ==
  UNION {{x[i] : i \in {i \in DOMAIN x : IsRef(x[i])}} :
           x \in {t} \cup UNION {ToSet(env[v]) \cup ToSet(ProcessEnv[v]) : v \in Var}}

(* The recursive function of the meanings unfolds, level by level.         *)
LEMMA MeaningsAre ==
  ASSUME NEW P, NEW env, Closed(P, env), NEW t \in Seq(P), Known(t, env) = Refs(P)
  PROVE  \E f : /\ f \in [0 .. MaxIterations -> [Refs(P) -> Maybe(P)]]
                /\ f[0] = [r \in Refs(P) |-> <<>>]
                /\ \A k \in 1 .. MaxIterations : f[k] = Deeper(P, env, f[k - 1])
                /\ Meanings(t, env) = f[MaxIterations - 2]
<1> DEFINE refs == Known(t, env)
           Level(d) ==
             [r \in refs |->
                LET value == ResolveVariableSpec(r, env) IN
                IF value = <<>> \/ \E i \in DOMAIN value[1] :
                                      IsRef(value[1][i]) /\ d[value[1][i]] = <<>>
                THEN <<>>
                ELSE << FlattenSeq([i \in DOMAIN value[1] |->
                          IF IsRef(value[1][i]) THEN d[value[1][i]][1]
                          ELSE <<value[1][i]>>]) >>]
           depth[k \in 0 .. MaxIterations] ==
             IF k = 0 THEN [r \in refs |-> <<>>] ELSE Level(depth[k - 1])
           D == [Refs(P) -> Maybe(P)]
           step == [d \in D |-> Deeper(P, env, d)]
           nothing == [r \in Refs(P) |-> <<>>]
<1>0. MaxIterations \in Nat
  BY RulesAssumption
<1>1. step \in [D -> D] /\ nothing \in D
  BY DeeperIsMaybe DEF Maybe
<1>2. ASSUME NEW d PROVE Deeper(P, env, d) = Level(d)
  <2>1. ASSUME NEW r \in refs, NEW value, value = ResolveVariableSpec(r, env)
        PROVE  Bind(Once(P, env)[r], Reading(P, d)) =
                 IF value = <<>> \/ \E i \in DOMAIN value[1] :
                                       IsRef(value[1][i]) /\ d[value[1][i]] = <<>>
                 THEN <<>>
                 ELSE << FlattenSeq([i \in DOMAIN value[1] |->
                           IF IsRef(value[1][i]) THEN d[value[1][i]][1]
                           ELSE <<value[1][i]>>]) >>
    <3>1. Once(P, env)[r] = value /\ value \in Maybe(P)
      BY <2>1 DEF Once, Closed, Refs
    <3>2. CASE value = <<>>
      BY <3>1, <3>2 DEF Bind
    <3>3. CASE value # <<>>
      <4>1. value[1] \in Seq(P)
        BY <3>1, <3>3, MaybeIs
      <4>2. Bind(Once(P, env)[r], Reading(P, d)) = Mapped(Reading(P, d), value[1])
        BY <3>1, <3>3, Zenon DEF Bind
      <4>3. Mapped(Reading(P, d), value[1]) = Read(d, value[1])
        BY <4>1, ReadingIs, Zenon
      <4> QED BY <3>3, <4>2, <4>3, Zenon DEF Read
    <3> QED BY <3>2, <3>3
  <2> HIDE DEF refs
  <2> QED BY <2>1, Zenon DEF Deeper, refs
<1>3. \E f : f = [k \in 0 .. MaxIterations |-> IF k = 0 THEN nothing ELSE Deeper(P, env, f[k - 1])]
  <2> HIDE DEF step, D, nothing
  <2>1. PICK f \in [0 .. MaxIterations -> D] : f[0] = nothing /\ Repeats(f, step, MaxIterations)
    BY <1>0, <1>1, Iterates
  <2>2. ASSUME NEW k \in 0 .. MaxIterations
        PROVE  f[k] = IF k = 0 THEN nothing ELSE Deeper(P, env, f[k - 1])
    <3>1. k # 0 => k \in 1 .. MaxIterations /\ k - 1 \in 0 .. MaxIterations
      BY <1>0
    <3>2. k # 0 => f[k] = Deeper(P, env, f[k - 1])
      BY <2>1, <3>1 DEF step, Repeats
    <3> QED BY <2>1, <3>2
  <2> QED BY <2>1, <2>2
<1>4. depth = [k \in 0 .. MaxIterations |-> IF k = 0 THEN nothing ELSE Deeper(P, env, depth[k - 1])]
  <2> HIDE DEF Level
  <2>1. PICK f : f = [k \in 0 .. MaxIterations |-> IF k = 0 THEN nothing ELSE Deeper(P, env, f[k - 1])]
    BY <1>3
  <2>2. f = [k \in 0 .. MaxIterations |-> IF k = 0 THEN [r \in refs |-> <<>>] ELSE Level(f[k - 1])]
    BY <1>2, <2>1, Zenon
  <2>3. depth = [k \in 0 .. MaxIterations |-> IF k = 0 THEN [r \in refs |-> <<>>] ELSE Level(depth[k - 1])]
    BY <2>2, Zenon DEF depth
  <2> QED BY <1>2, <2>3, Zenon
<1>5. Meanings(t, env) = depth[MaxIterations - 2]
  BY Zenon DEF Meanings, Known
<1> HIDE DEF depth, step, nothing, D
<1>6. ASSUME NEW n \in Nat
      PROVE  n \in 0 .. MaxIterations => depth[n] \in D
  <2> DEFINE S == {k \in Nat : k \in 0 .. MaxIterations => depth[k] \in D}
  <2>1. 0 \in S
    BY <1>0, <1>1, <1>4
  <2>2. ASSUME NEW k \in Nat, k \in S PROVE k + 1 \in S
    <3> SUFFICES ASSUME k + 1 \in 0 .. MaxIterations PROVE depth[k + 1] \in D
      OBVIOUS
    <3>1. k \in 0 .. MaxIterations /\ (k + 1) - 1 = k /\ k + 1 # 0
      BY <1>0
    <3>2. depth[k + 1] = IF k + 1 = 0 THEN nothing ELSE Deeper(P, env, depth[(k + 1) - 1])
      BY <1>4, Zenon
    <3>3. depth[k] \in D
      BY <2>2, <3>1
    <3> QED BY <3>1, <3>2, <3>3, DeeperIsMaybe DEF D
  <2> HIDE DEF S
  <2>3. n \in S
    BY <2>1, <2>2, Induction
  <2> QED BY <2>3 DEF S
<1>7. ASSUME NEW k \in 1 .. MaxIterations PROVE depth[k] = Deeper(P, env, depth[k - 1])
  <2>1. k \in 0 .. MaxIterations /\ k # 0
    BY <1>0
  <2> QED BY <1>4, <2>1
<1>8. depth[0] = nothing /\ depth \in [0 .. MaxIterations -> D]
  <2>1. /\ DOMAIN depth = 0 .. MaxIterations /\ 0 \in 0 .. MaxIterations
        /\ depth = [k \in 0 .. MaxIterations |-> depth[k]]
    BY <1>0, <1>4
  <2>2. \A k \in 0 .. MaxIterations : depth[k] \in D
    BY <1>0, <1>6
  <2> QED BY <1>4, <2>1, <2>2
<1> QED BY <1>5, <1>7, <1>8 DEF nothing, D

(* The texts that references lead to, and the pieces of all of them.       *)
Sources(t, env) == {t} \cup UNION {ToSet(env[v]) \cup ToSet(ProcessEnv[v]) : v \in Var}
Alternatives(x) == UNION {ToSet(x[i].alt) : i \in {i \in DOMAIN x : IsRef(x[i])}}
Pieces(t, env) == UNION {ToSet(x) \cup Alternatives(x) : x \in Sources(t, env)}

(* Values and alternatives lead to no piece that is not known.             *)
LEMMA PiecesClosed ==
  ASSUME NEW t, IsText(t), NEW env, IsEnvironment(env)
  PROVE  /\ t \in Seq(Pieces(t, env)) /\ Closed(Pieces(t, env), env)
         /\ Known(t, env) = Refs(Pieces(t, env))
<1> DEFINE P == Pieces(t, env)
<1>1. \A x \in Sources(t, env) : IsText(x)
  BY RulesAssumption DEF Sources, IsEnvironment
<1>2. ASSUME NEW x, IsList(x), ToSet(x) \subseteq P PROVE x \in Seq(P)
  BY <1>2 DEF IsList
<1>3. \A x \in Sources(t, env) : ToSet(x) \subseteq P /\ Alternatives(x) \subseteq P
  BY DEF Pieces
<1>4. ASSUME NEW p \in P, IsRef(p)
      PROVE  \E x \in Sources(t, env) : \E i \in DOMAIN x : p = x[i]
  <2>1. PICK x \in Sources(t, env) : p \in ToSet(x) \cup Alternatives(x)
    BY DEF Pieces
  <2>2. p \notin Alternatives(x)
    BY <1>1, <1>4 DEF Alternatives, IsText, Literal, ToSet
  <2> QED BY <2>1, <2>2 DEF ToSet
<1>5. t \in Seq(P)
  <2>1. t \in Sources(t, env)
    BY DEF Sources
  <2> HIDE DEF P
  <2> QED BY <1>1, <1>2, <1>3, <2>1 DEF IsText
<1>6. Known(t, env) = Refs(P)
  <2>1. Known(t, env) = UNION {{x[i] : i \in {i \in DOMAIN x : IsRef(x[i])}} : x \in Sources(t, env)}
    BY DEF Known, Sources
  <2>2. \A x \in Sources(t, env) : \A i \in DOMAIN x : x[i] \in P
    BY <1>3 DEF ToSet
  <2> HIDE DEF P
  <2>3. \A r : r \in Known(t, env) <=> \E x \in Sources(t, env) : \E i \in DOMAIN x : IsRef(x[i]) /\ r = x[i]
    BY <2>1
  <2> QED BY <1>4, <2>2, <2>3 DEF Refs
<1>7. ASSUME NEW p \in P, IsRef(p) PROVE ResolveVariableSpec(p, env) \in Maybe(P)
  <2>1. PICK x \in Sources(t, env) : \E i \in DOMAIN x : p = x[i]
    BY <1>4, <1>7
  <2>2. /\ p.var \in Var /\ p.mode \in {"plain", "default", "alternate"}
        /\ IsList(p.alt) /\ ToSet(p.alt) \subseteq Alternatives(x)
    BY <1>1, <1>7, <2>1 DEF IsText, Alternatives
  <2>3. p.alt \in Seq(P)
    BY <1>2, <1>3, <2>2
  <2>4. ASSUME NEW e, IsEnvironment(e), \A y \in ToSet(e[p.var]) : y \in Sources(t, env)
        PROVE  e[p.var] \in Maybe(P)
    <3>1. IsOptional(e[p.var])
      BY <2>2, <2>4 DEF IsEnvironment
    <3>2. e[p.var] = <<>> \/ (e[p.var] = <<e[p.var][1]>> /\ e[p.var][1] \in ToSet(e[p.var]))
      BY <3>1 DEF IsOptional, IsList, ToSet
    <3>3. \A y \in Sources(t, env) : y \in Seq(P)
      BY <1>1, <1>2, <1>3 DEF IsText
    <3> HIDE DEF P
    <3> QED BY <2>4, <3>2, <3>3 DEF Maybe
  <2>5. env[p.var] \in Maybe(P) /\ ProcessEnv[p.var] \in Maybe(P)
    BY <2>2, <2>4, RulesAssumption DEF Sources
  <2>6. <<>> \in Seq(P) /\ <<p.alt>> \in Maybe(P) /\ << <<>> >> \in Maybe(P)
    <3> HIDE DEF P
    <3>1. <<>> \in Seq(P)
      OBVIOUS
    <3>2. \A y \in Seq(P) : <<y>> \in Maybe(P)
      BY DEF Maybe
    <3> QED BY <2>3, <3>1, <3>2
  <2> HIDE DEF P
  <2> QED BY <2>2, <2>5, <2>6 DEF ResolveVariableSpec, GetVariableValue
<1>8. \A p \in P : << <<p>> >> \in Maybe(P)
  <2> HIDE DEF P
  <2>1. \A p \in P : <<p>> \in Seq(P)
    OBVIOUS
  <2> QED BY <2>1 DEF Maybe
<1>9. Closed(P, env)
  BY <1>7, <1>8 DEF Closed, Once
<1> QED BY <1>5, <1>6, <1>9

(* A text without references means itself, where references mean nothing.  *)
LEMMA LiteralStays ==
  ASSUME NEW P, NEW h, h = Reading(P, [r \in Refs(P) |-> <<>>]), NEW x \in Maybe(P)
  PROVE  Bind(x, h) = IF x # <<>> /\ Literal(x[1]) THEN x ELSE <<>>
<1> DEFINE S == {t \in Seq(P) : Mapped(h, t) = IF Literal(t) THEN <<t>> ELSE <<>>}
<1>0. /\ h \in [P -> Maybe(P)]
      /\ \A p \in P : h[p] = IF IsRef(p) THEN <<>> ELSE << <<p>> >>
  <2>1. [r \in Refs(P) |-> <<>>] \in [Refs(P) -> Maybe(P)]
    BY DEF Maybe
  <2> QED BY <2>1, ReadingIsMaybe DEF Reading, Refs
<1>1. <<>> \in S
  <2>1. <<>> \in Seq(P) /\ Literal(<<>>)
    BY DEF Literal
  <2> QED BY <2>1, MappedEmpty
<1>2. ASSUME NEW t \in Seq(P), NEW p \in P, t \in S PROVE Append(t, p) \in S
  <2>1. Append(t, p) \in Seq(P) /\ Append(t, p) = t \o <<p>>
    BY AppendIsConcat
  <2>2. Literal(Append(t, p)) <=> Literal(t) /\ ~IsRef(p)
    <3> DEFINE u == Append(t, p)
    <3>1. /\ DOMAIN u = DOMAIN t \cup {Len(t) + 1}
          /\ u[Len(t) + 1] = p /\ \A i \in DOMAIN t : u[i] = t[i]
      OBVIOUS
    <3> HIDE DEF u
    <3>2. Literal(u) <=> Literal(t) /\ ~IsRef(p)
      BY <3>1 DEF Literal
    <3> QED BY <3>2 DEF u
  <2>3. Mapped(h, Append(t, p)) = Join(Mapped(h, t), h[p])
    BY <1>0, MappedAppend
  <2>4. CASE Literal(t) /\ ~IsRef(p)
    <3>1. Mapped(h, t) = <<t>> /\ h[p] = << <<p>> >>
      BY <1>0, <1>2, <2>4
    <3>2. Join(<<t>>, << <<p>> >>) = <<t \o <<p>> >>
      BY Just DEF Join
    <3> QED BY <2>1, <2>2, <2>3, <2>4, <3>1, <3>2
  <2>5. CASE ~(Literal(t) /\ ~IsRef(p))
    <3>1. Mapped(h, t) = <<>> \/ h[p] = <<>>
      BY <1>0, <1>2, <2>5
    <3> QED BY <2>1, <2>2, <2>3, <2>5, <3>1 DEF Join
  <2> QED BY <2>4, <2>5
<1> HIDE DEF S
<1>3. \A t \in Seq(P) : t \in S
  BY <1>1, <1>2, TextInduction
<1>4. CASE x = <<>>
  BY <1>4 DEF Bind
<1>5. CASE x # <<>>
  BY <1>3, <1>5, MaybeIs DEF Bind, S
<1> QED BY <1>4, <1>5

(* Rounds of replacement give what the references mean.                    *)
LEMMA SubstitutionIs ==
  ASSUME NEW t, IsText(t), NEW env, IsEnvironment(env)
  PROVE  SubstituteEnvVars(t, env) = Mapped(Reading(Pieces(t, env), Meanings(t, env)), t)
<1> DEFINE P == Pieces(t, env)
           K == MaxIterations - 2
           once == Once(P, env)
<1>0. t \in Seq(P) /\ Closed(P, env) /\ Known(t, env) = Refs(P) /\ once \in [P -> Maybe(P)]
  BY PiecesClosed DEF Closed
<1>1. MaxIterations \in Nat /\ K \in Nat /\ K \in 0 .. MaxIterations /\ 0 \in 0 .. MaxIterations
  BY RulesAssumption
<1> HIDE DEF P, K, once
<1>2. PICK R : /\ R \in [0 .. MaxIterations -> Maybe(P)] /\ R[0] = <<t>>
               /\ \A n \in 1 .. MaxIterations : R[n] = Bind(R[n - 1], once)
               /\ SubstituteEnvVars(t, env) =
                    IF R[K] # <<>> /\ Literal(R[K][1]) THEN R[K] ELSE <<>>
  BY <1>0, RoundsAre DEF once, K
<1>3. PICK d : /\ d \in [0 .. MaxIterations -> [Refs(P) -> Maybe(P)]]
               /\ d[0] = [r \in Refs(P) |-> <<>>]
               /\ \A k \in 1 .. MaxIterations : d[k] = Deeper(P, env, d[k - 1])
               /\ Meanings(t, env) = d[K]
  BY <1>0, MeaningsAre DEF K
<1> DEFINE H(k) == Reading(P, d[k])
<1>4. ASSUME NEW k \in 0 .. MaxIterations PROVE H(k) \in [P -> Maybe(P)]
  BY <1>3, ReadingIsMaybe
<1>5. ASSUME NEW k \in 1 .. MaxIterations
      PROVE  H(k) = [p \in P |-> Bind(once[p], H(k - 1))]
  <2>1. k - 1 \in 0 .. MaxIterations
    BY <1>1
  <2>2. ASSUME NEW p \in P PROVE H(k)[p] = Bind(once[p], H(k - 1))
    <3>1. CASE IsRef(p)
      <4>1. p \in Refs(P) /\ d[k] = Deeper(P, env, d[k - 1])
        BY <1>3, <3>1 DEF Refs
      <4>2. H(k)[p] = Deeper(P, env, d[k - 1])[p]
        BY <3>1, <4>1, Zenon DEF Reading
      <4> QED BY <4>1, <4>2, Zenon DEF Deeper, once
    <3>2. CASE ~IsRef(p)
      <4>1. H(k)[p] = << <<p>> >> /\ H(k - 1)[p] = << <<p>> >> /\ once[p] = << <<p>> >>
        BY <3>2 DEF Reading, once, Once
      <4>2. <<>> \in Seq(P) /\ Append(<<>>, p) = <<p>> /\ <<>> \o <<p>> = <<p>>
        OBVIOUS
      <4>3. Mapped(H(k - 1), <<p>>) = Join(<< <<>> >>, << <<p>> >>)
        <5>1. H(k - 1) \in [P -> Maybe(P)]
          BY <1>4, <2>1
        <5> HIDE DEF H
        <5>2. Mapped(H(k - 1), Append(<<>>, p)) = Join(Mapped(H(k - 1), <<>>), H(k - 1)[p])
          BY <4>2, <5>1, MappedAppend
        <5> QED BY <4>1, <4>2, <5>2, MappedEmpty
      <4>4. Join(<< <<>> >>, << <<p>> >>) = << <<p>> >>
        BY <4>2, Just DEF Join
      <4>5. Bind(<< <<p>> >>, H(k - 1)) = Mapped(H(k - 1), <<p>>)
        BY Just DEF Bind
      <4> QED BY <4>1, <4>3, <4>4, <4>5
    <3> QED BY <3>1, <3>2
  <2>3. H(k) = [p \in P |-> H(k)[p]]
    BY DEF Reading
  <2> HIDE DEF H
  <2> QED BY <2>2, <2>3
<1>6. ASSUME NEW x \in Maybe(P), NEW k \in 1 .. MaxIterations
      PROVE  Bind(Bind(x, once), H(k - 1)) = Bind(x, H(k))
  <2>1. k - 1 \in 0 .. MaxIterations
    BY <1>1
  <2>2. H(k - 1) \in [P -> Maybe(P)]
    BY <1>4, <2>1
  <2>3. CASE x = <<>>
    BY <2>3 DEF Bind
  <2>4. CASE x # <<>>
    <3>1. x[1] \in Seq(P)
      BY <2>4, MaybeIs
    <3>2. Mapped(H(k), x[1]) = Bind(Mapped(once, x[1]), H(k - 1))
      <4>1. H(k) = [p \in P |-> Bind(once[p], H(k - 1))]
        BY <1>5
      <4> HIDE DEF H
      <4> QED BY <1>0, <2>2, <3>1, <4>1, MappedTwice
    <3> HIDE DEF H
    <3> QED BY <2>4, <3>2 DEF Bind
  <2> QED BY <2>3, <2>4
<1> HIDE DEF H
<1> DEFINE S == {n \in Nat : n <= K => Bind(R[n], H(K - n)) = Mapped(H(K), t)}
<1>7. 0 \in S
  <2>1. K - 0 = K
    BY <1>1
  <2>2. Bind(<<t>>, H(K)) = Mapped(H(K), t)
    BY Just DEF Bind
  <2> QED BY <1>2, <2>1, <2>2
<1>8. ASSUME NEW n \in Nat, n \in S PROVE n + 1 \in S
  <2> SUFFICES ASSUME n + 1 <= K PROVE Bind(R[n + 1], H(K - (n + 1))) = Mapped(H(K), t)
    OBVIOUS
  <2>1. /\ n <= K /\ K - n \in 1 .. MaxIterations /\ K - (n + 1) = (K - n) - 1
        /\ n + 1 \in 1 .. MaxIterations /\ (n + 1) - 1 = n /\ n \in 0 .. MaxIterations
    BY <1>1 DEF K
  <2>2. R[n + 1] = Bind(R[(n + 1) - 1], once)
    BY <1>2, <2>1, Zenon
  <2>3. Bind(Bind(R[n], once), H((K - n) - 1)) = Bind(R[n], H(K - n))
    BY <1>2, <1>6, <2>1
  <2>4. Bind(R[n], H(K - n)) = Mapped(H(K), t)
    BY <1>8, <2>1
  <2> QED BY <2>1, <2>2, <2>3, <2>4
<1> HIDE DEF S
<1>9. K \in S
  BY <1>1, <1>7, <1>8, Induction
<1>10. K - K = 0 /\ K <= K
  BY <1>1
<1>11. Bind(R[K], H(0)) = Mapped(H(K), t)
  BY <1>9, <1>10 DEF S
<1>12. Bind(R[K], H(0)) = IF R[K] # <<>> /\ Literal(R[K][1]) THEN R[K] ELSE <<>>
  <2>1. R[K] \in Maybe(P) /\ H(0) = Reading(P, [r \in Refs(P) |-> <<>>])
    BY <1>1, <1>2, <1>3 DEF H
  <2> QED BY <2>1, LiteralStays
<1> QED BY <1>2, <1>3, <1>11, <1>12 DEF H, P

(* The same, as SubstitutionMeans states it.                               *)
LEMMA SubstitutionOfTexts ==
  ASSUME NEW t, IsText(t), NEW env, IsEnvironment(env), NEW means, means = Meanings(t, env)
  PROVE  LET Part(piece) == IF IsRef(piece) THEN means[piece] ELSE << <<piece>> >>
         IN SubstituteEnvVars(t, env) =
              IF \E i \in DOMAIN t : Part(t[i]) = <<>> THEN <<>>
              ELSE << FlattenSeq([i \in DOMAIN t |-> Part(t[i])[1]]) >>
<1> DEFINE h == Reading(Pieces(t, env), means)
<1>1. t \in Seq(Pieces(t, env))
  BY PiecesClosed
<1>2. \A i \in DOMAIN t : h[t[i]] = IF IsRef(t[i]) THEN means[t[i]] ELSE << <<t[i]>> >>
  BY <1>1 DEF Reading
<1>3. SubstituteEnvVars(t, env) = Mapped(h, t)
  BY SubstitutionIs
<1> HIDE DEF h
<1>4. [i \in DOMAIN t |-> h[t[i]][1]]
        = [i \in DOMAIN t |-> (IF IsRef(t[i]) THEN means[t[i]] ELSE << <<t[i]>> >>)[1]]
  BY <1>2
<1> QED BY <1>2, <1>3, <1>4 DEF Mapped

(* Whatever files refer to, however often and in whatever circles: rounds  *)
(* of replacement give each text the meaning its references have, or an    *)
(* error (substitute_env_vars).                                            *)
THEOREM SubstitutionHolds == Spec => []SubstitutionMeans
<1>1. FilesOk => SubstitutionMeans
  <2> SUFFICES ASSUME FilesOk, NEW n \in Namespace, NEW c \in ToSet(file[n]), NEW t \in TextsOf(c)
               PROVE  LET means == Meanings(t, c.environment)
                          Part(piece) == IF IsRef(piece) THEN means[piece] ELSE << <<piece>> >>
                      IN SubstituteEnvVars(t, c.environment) =
                           IF \E i \in DOMAIN t : Part(t[i]) = <<>> THEN <<>>
                           ELSE << FlattenSeq([i \in DOMAIN t |-> Part(t[i])[1]]) >>
    BY DEF SubstitutionMeans
  <2>1. file[n] \in {files[n] : files \in Library} \cup Revision[n]
    BY DEF FilesOk
  <2>2. IsOptional(file[n]) /\ (file[n] # <<>> => Shaped(file[n][1]))
    BY <2>1, ProvisioningAssumption
  <2>3. file[n] # <<>> /\ c = file[n][1]
    BY <2>2 DEF ToSet, IsOptional, IsList
  <2>4. IsText(t) /\ IsEnvironment(c.environment)
    BY <2>2, <2>3 DEF Shaped
  <2> QED BY <2>4, SubstitutionOfTexts
<1> QED BY <1>1, FilesOkHolds, PTL

-----------------------------------------------------------------------------
(* Requests.                                                               *)

(* A list whose elements are given one by one.                             *)
LEMMA ElementWise ==
  ASSUME NEW s, IsList(s), NEW S, NEW t \in [DOMAIN s -> S]
  PROVE  t \in Seq(S) /\ ToSet(t) = {t[i] : i \in DOMAIN s}
<1>1. IsList(t) /\ ToSet(t) = {t[i] : i \in DOMAIN s}
  <2>1. t = [i \in DOMAIN s |-> t[i]]
    OBVIOUS
  <2> QED BY <2>1, ListDomain, ListOf
<1>2. t \in Seq(ToSet(t)) /\ ToSet(t) \subseteq S
  BY <1>1 DEF IsList
<1> QED BY <1>1, <1>2, SeqMonotonic

(* Two lists, one after the other.                                         *)
LEMMA Concatenated ==
  ASSUME NEW S, NEW s \in Seq(S), NEW t \in Seq(S)
  PROVE  s \o t \in Seq(S) /\ ToSet(s \o t) = ToSet(s) \cup ToSet(t)
<1>1. /\ s \o t \in Seq(S) /\ Len(s \o t) = Len(s) + Len(t)
      /\ \A i \in 1 .. Len(s) + Len(t) : (s \o t)[i] = IF i <= Len(s) THEN s[i] ELSE t[i - Len(s)]
  BY ConcatProperties
<1>2. /\ DOMAIN s = 1 .. Len(s) /\ DOMAIN t = 1 .. Len(t) /\ DOMAIN (s \o t) = 1 .. Len(s) + Len(t)
      /\ Len(s) \in Nat /\ Len(t) \in Nat
  BY <1>1, LenProperties
<1>3. ASSUME NEW i \in DOMAIN (s \o t) PROVE (s \o t)[i] \in ToSet(s) \cup ToSet(t)
  <2>1. CASE i <= Len(s)
    BY <1>1, <1>2, <2>1 DEF ToSet
  <2>2. CASE ~(i <= Len(s))
    <3>1. i - Len(s) \in DOMAIN t
      BY <1>2, <2>2
    <3> QED BY <1>1, <1>2, <2>2, <3>1 DEF ToSet
  <2> QED BY <2>1, <2>2
<1>4. ASSUME NEW i \in DOMAIN s PROVE s[i] \in ToSet(s \o t)
  <2>1. i \in DOMAIN (s \o t) /\ (s \o t)[i] = s[i]
    BY <1>1, <1>2
  <2> QED BY <2>1 DEF ToSet
<1>5. ASSUME NEW i \in DOMAIN t PROVE t[i] \in ToSet(s \o t)
  <2>1. i + Len(s) \in DOMAIN (s \o t) /\ (s \o t)[i + Len(s)] = t[i]
    BY <1>1, <1>2
  <2> QED BY <2>1 DEF ToSet
<1> QED BY <1>1, <1>3, <1>4, <1>5 DEF ToSet

(* The first of a list and the others.                                     *)
LEMMA Dropped ==
  ASSUME NEW S, NEW s \in Seq(S), s # <<>>
  PROVE  /\ Head(s) \in S /\ Tail(s) \in Seq(S) /\ Head(s) \in ToSet(s)
         /\ ToSet(s) = {Head(s)} \cup ToSet(Tail(s))
<1>1. /\ Head(s) \in S /\ Tail(s) \in Seq(S) /\ Len(Tail(s)) = Len(s) - 1
      /\ \A i \in 1 .. Len(Tail(s)) : Tail(s)[i] = s[i + 1]
  BY HeadTailProperties
<1>2. Len(s) \in Nat \ {0} /\ DOMAIN s = 1 .. Len(s) /\ DOMAIN Tail(s) = 1 .. Len(s) - 1
  BY <1>1, LenProperties, EmptySeq
<1>3. Head(s) = s[1] /\ 1 \in DOMAIN s
  BY <1>2
<1>4. ASSUME NEW i \in DOMAIN s, i # 1 PROVE s[i] \in ToSet(Tail(s))
  <2>1. i - 1 \in DOMAIN Tail(s) /\ Tail(s)[i - 1] = s[i]
    BY <1>1, <1>2, <1>4
  <2> QED BY <2>1 DEF ToSet
<1>5. ASSUME NEW i \in DOMAIN Tail(s) PROVE Tail(s)[i] \in ToSet(s)
  <2>1. i + 1 \in DOMAIN s /\ Tail(s)[i] = s[i + 1]
    BY <1>1, <1>2
  <2> QED BY <2>1 DEF ToSet
<1> QED BY <1>1, <1>3, <1>4, <1>5 DEF ToSet

(* What is left after the first stays in order, and the first of a list    *)
(* in order is a setting only with all that follow it.                     *)
LEMMA TailOrdered ==
  ASSUME NEW S, NEW s \in Seq(S), s # <<>>, Ordered(s)
  PROVE  /\ Ordered(Tail(s))
         /\ IsSetting(Head(s)) => \A r \in ToSet(s) : IsSetting(r)
<1>1. /\ Len(Tail(s)) = Len(s) - 1 /\ Tail(s) \in Seq(S)
      /\ \A i \in 1 .. Len(Tail(s)) : Tail(s)[i] = s[i + 1]
  BY HeadTailProperties
<1>2. Len(s) \in Nat \ {0} /\ DOMAIN s = 1 .. Len(s) /\ DOMAIN Tail(s) = 1 .. Len(s) - 1
  BY <1>1, LenProperties, EmptySeq
<1>3. ASSUME NEW i \in DOMAIN Tail(s), NEW j \in DOMAIN Tail(s), i < j, IsSetting(Tail(s)[i])
      PROVE  IsSetting(Tail(s)[j])
  <2>1. i + 1 \in DOMAIN s /\ j + 1 \in DOMAIN s /\ i + 1 < j + 1
    BY <1>2, <1>3
  <2>2. Tail(s)[i] = s[i + 1] /\ Tail(s)[j] = s[j + 1]
    BY <1>1, <1>2
  <2> QED BY <1>3, <2>1, <2>2 DEF Ordered
<1>4. ASSUME IsSetting(Head(s)), NEW j \in DOMAIN s
      PROVE  IsSetting(s[j])
  <2>1. Head(s) = s[1] /\ 1 \in DOMAIN s /\ (j = 1 \/ 1 < j)
    BY <1>2
  <2> QED BY <1>4, <2>1 DEF Ordered
<1> QED BY <1>3, <1>4 DEF Ordered, ToSet

(* Requests for links before requests that are in order.                   *)
LEMMA ConcatOrdered ==
  ASSUME NEW S, NEW s \in Seq(S), NEW t \in Seq(S),
         \A r \in ToSet(s) : ~IsSetting(r), Ordered(t)
  PROVE  Ordered(s \o t)
<1>1. /\ s \o t \in Seq(S) /\ Len(s \o t) = Len(s) + Len(t)
      /\ \A i \in 1 .. Len(s) + Len(t) : (s \o t)[i] = IF i <= Len(s) THEN s[i] ELSE t[i - Len(s)]
  BY ConcatProperties
<1>2. /\ DOMAIN s = 1 .. Len(s) /\ DOMAIN t = 1 .. Len(t) /\ DOMAIN (s \o t) = 1 .. Len(s) + Len(t)
      /\ Len(s) \in Nat /\ Len(t) \in Nat
  BY <1>1, LenProperties
<1> SUFFICES ASSUME NEW i \in DOMAIN (s \o t), NEW j \in DOMAIN (s \o t), i < j, IsSetting((s \o t)[i])
             PROVE  IsSetting((s \o t)[j])
  BY DEF Ordered
<1>3. ~(i <= Len(s))
  <2>1. ASSUME i <= Len(s) PROVE FALSE
    <3>1. i \in DOMAIN s /\ (s \o t)[i] = s[i]
      BY <1>1, <1>2, <2>1
    <3> QED BY <3>1 DEF ToSet
  <2> QED BY <2>1
<1>4. /\ i - Len(s) \in DOMAIN t /\ j - Len(s) \in DOMAIN t /\ i - Len(s) < j - Len(s)
      /\ (s \o t)[i] = t[i - Len(s)] /\ (s \o t)[j] = t[j - Len(s)]
  BY <1>1, <1>2, <1>3
<1> QED BY <1>4 DEF Ordered

(* Requests for settings are in order.                                     *)
LEMMA SettingsOrdered ==
  ASSUME NEW s, \A i \in DOMAIN s : IsSetting(s[i])
  PROVE  Ordered(s)
BY DEF Ordered

(* A request says what, to what, with what.                                *)
LEMMA DoFields ==
  \A what, name, with : /\ Do(what, name, with).do = what
                        /\ Do(what, name, with).name = name
                        /\ Do(what, name, with).with = with
BY DEF Do

(* The first request for an interface, by its type.                        *)
LEMMA VifRequests ==
  ASSUME NEW v
  PROVE  /\ IsVeth(v) => VifRequest(v) = Do("pair", v.name, v)
         /\ IsWireguard(v) => VifRequest(v) = Do("wireguard", v.name, v)
         /\ ~IsVeth(v) /\ ~IsWireguard(v) => VifRequest(v) = Do("create", v.name, v)
<1>1. ~(IsType(v.type, "veth") /\ IsType(v.type, "wireguard"))
  BY DEF IsType
<1>2. CASE IsType(v.type, "veth")
  BY <1>1, <1>2 DEF VifRequest, IsVeth, IsWireguard
<1>3. CASE IsType(v.type, "wireguard")
  BY <1>1, <1>3 DEF VifRequest, IsVeth, IsWireguard
<1>4. CASE ~IsType(v.type, "veth") /\ ~IsType(v.type, "wireguard")
  BY <1>4 DEF VifRequest, IsVeth, IsWireguard
<1> QED BY <1>2, <1>3, <1>4

(* The requests that make links, one kind after the other.                 *)
LEMMA Kinds ==
  ASSUME NEW c, NEW r \in Makings(c)
  PROVE  \/ \E x \in ToSet(c.moves) : r = Do("move", x, <<>>)
         \/ \E v \in ToSet(c.vifs) :
              \/ r = Do("pair", v.name, v) /\ IsVeth(v)
              \/ r = Do("moveVeth", v.name, v) /\ IsVeth(v)
              \/ r = Do("hostUp", v.peer[1], <<>>) /\ IsVeth(v)
              \/ r = Do("create", v.name, v) /\ ~IsVeth(v) /\ ~IsWireguard(v)
              \/ r = Do("wireguard", v.name, v) /\ IsWireguard(v)
              \/ \E w \in ToSet(c.wireguard) : r = Do("configure", v.name, w) /\ IsWireguard(v)
              \/ r = Do("up", v.name, v)
              \/ \E a \in ToSet(v.addresses) : r = Do("address", v.name, a)
<1>1. CASE r \in {Do("move", x, <<>>) : x \in ToSet(c.moves)}
  BY <1>1
<1>2. ASSUME NEW v \in ToSet(c.vifs), r \in VifSteps(c, v)
      PROVE  \/ r = Do("pair", v.name, v) /\ IsVeth(v)
             \/ r = Do("moveVeth", v.name, v) /\ IsVeth(v)
             \/ r = Do("hostUp", v.peer[1], <<>>) /\ IsVeth(v)
             \/ r = Do("create", v.name, v) /\ ~IsVeth(v) /\ ~IsWireguard(v)
             \/ r = Do("wireguard", v.name, v) /\ IsWireguard(v)
             \/ \E w \in ToSet(c.wireguard) : r = Do("configure", v.name, w) /\ IsWireguard(v)
             \/ r = Do("up", v.name, v)
             \/ \E a \in ToSet(v.addresses) : r = Do("address", v.name, a)
  <2>1. CASE r = VifRequest(v)
    BY <2>1, VifRequests
  <2>2. CASE r # VifRequest(v)
    BY <1>2, <2>2 DEF VifSteps
  <2> QED BY <2>1, <2>2
<1>3. CASE r \in UNION {VifSteps(c, v) : v \in ToSet(c.vifs)}
  <2>1. PICK v \in ToSet(c.vifs) : r \in VifSteps(c, v)
    BY <1>3
  <2> QED BY <1>2, <2>1
<1> QED BY <1>1, <1>3 DEF Makings

(* And the other way round.                                                *)
LEMMA StepsAreMakings ==
  ASSUME NEW c
  PROVE  /\ \A x \in ToSet(c.moves) : Do("move", x, <<>>) \in Makings(c)
         /\ \A v \in ToSet(c.vifs) :
              /\ VifRequest(v) \in Makings(c) /\ Do("up", v.name, v) \in Makings(c)
              /\ \A a \in ToSet(v.addresses) : Do("address", v.name, a) \in Makings(c)
              /\ IsVeth(v) => /\ Do("moveVeth", v.name, v) \in Makings(c)
                              /\ Do("hostUp", v.peer[1], <<>>) \in Makings(c)
              /\ IsWireguard(v) =>
                   \A w \in ToSet(c.wireguard) : Do("configure", v.name, w) \in Makings(c)
<1>1. \A x \in ToSet(c.moves) : Do("move", x, <<>>) \in Makings(c)
  BY DEF Makings
<1>2. ASSUME NEW v \in ToSet(c.vifs) PROVE VifSteps(c, v) \subseteq Makings(c)
  BY DEF Makings
<1>3. ASSUME NEW v \in ToSet(c.vifs)
      PROVE  /\ VifRequest(v) \in VifSteps(c, v) /\ Do("up", v.name, v) \in VifSteps(c, v)
             /\ \A a \in ToSet(v.addresses) : Do("address", v.name, a) \in VifSteps(c, v)
             /\ IsVeth(v) => /\ Do("moveVeth", v.name, v) \in VifSteps(c, v)
                             /\ Do("hostUp", v.peer[1], <<>>) \in VifSteps(c, v)
             /\ IsWireguard(v) =>
                  \A w \in ToSet(c.wireguard) : Do("configure", v.name, w) \in VifSteps(c, v)
  BY DEF VifSteps
<1> QED BY <1>1, <1>2, <1>3

(* No request both sets and makes.                                         *)
LEMMA SettingsAndMakings ==
  ASSUME NEW c
  PROVE  /\ \A r \in Settings(c) : IsSetting(r) /\ r.name = c.name
         /\ \A r \in Makings(c) : ~IsSetting(r)
<1>1. \A r \in Settings(c) : IsSetting(r) /\ r.name = c.name
  BY DoFields DEF Settings, IsSetting
<1>2. \A r \in Makings(c) : ~IsSetting(r)
  BY DoFields, Kinds DEF IsSetting
<1> QED BY <1>1, <1>2

(* The routes and servers of a configuration are asked for.                *)
LEMMA ReApplyAsks ==
  ASSUME NEW c, Regular(c)
  PROVE  /\ ReApply(c) \in Seq(Settings(c))
         /\ \A r \in RoutesIn(c) : Do("route", c.name, r) \in ToSet(ReApply(c))
         /\ c.servers # <<>> => Do("dns", c.name, c) \in ToSet(ReApply(c))
<1> DEFINE first == [i \in DOMAIN c.routes |-> Do("route", c.name, c.routes[i])]
           second == [i \in DOMAIN c.gateway |-> Do("route", c.name, DefaultRoute(c.gateway[i]))]
           third == IF c.servers = <<>> THEN <<>> ELSE <<Do("dns", c.name, c)>>
           both == first \o second
<1>0. IsList(c.routes) /\ IsList(c.gateway)
  BY DEF Regular, IsOptional
<1>1. /\ first = [i \in DOMAIN c.routes |-> first[i]]
      /\ \A i \in DOMAIN c.routes : first[i] = Do("route", c.name, c.routes[i])
      /\ second = [i \in DOMAIN c.gateway |-> second[i]]
      /\ \A i \in DOMAIN c.gateway : second[i] = Do("route", c.name, DefaultRoute(c.gateway[i]))
  OBVIOUS
<1>2. third \in Seq(Settings(c)) /\ (c.servers # <<>> => Do("dns", c.name, c) \in ToSet(third))
  <2>1. Do("dns", c.name, c) \in Settings(c)
    BY DEF Settings
  <2>2. ToSet(<<Do("dns", c.name, c)>>) = {Do("dns", c.name, c)}
    BY DEF ToSet
  <2> QED BY <2>1, <2>2
<1>3. ReApply(c) = both \o third
  BY DEF ReApply
<1>4. \A r \in RoutesIn(c) : Do("route", c.name, r) \in Settings(c)
  BY DEF Settings
<1>b. both = first \o second
  OBVIOUS
<1> HIDE DEF first, second, third, both
<1>5. first \in Seq(Settings(c)) /\ ToSet(first) = {first[i] : i \in DOMAIN c.routes}
  <2>1. \A i \in DOMAIN c.routes : first[i] \in Settings(c)
    BY <1>1, <1>4 DEF RoutesIn, ToSet
  <2>2. first \in [DOMAIN c.routes -> Settings(c)]
    BY <1>1, <2>1
  <2> QED BY <1>0, <2>2, ElementWise
<1>6. second \in Seq(Settings(c)) /\ ToSet(second) = {second[i] : i \in DOMAIN c.gateway}
  <2>1. \A i \in DOMAIN c.gateway : second[i] \in Settings(c)
    BY <1>1, <1>4 DEF RoutesIn, ToSet
  <2>2. second \in [DOMAIN c.gateway -> Settings(c)]
    BY <1>1, <2>1
  <2> QED BY <1>0, <2>2, ElementWise
<1>7. \A r \in RoutesIn(c) : Do("route", c.name, r) \in ToSet(first) \cup ToSet(second)
  <2>1. \A r \in ToSet(c.routes) : Do("route", c.name, r) \in ToSet(first)
    BY <1>1, <1>5 DEF ToSet
  <2>2. \A g \in ToSet(c.gateway) : Do("route", c.name, DefaultRoute(g)) \in ToSet(second)
    BY <1>1, <1>6 DEF ToSet
  <2> QED BY <2>1, <2>2 DEF RoutesIn
<1>8. both \in Seq(Settings(c)) /\ ToSet(both) = ToSet(first) \cup ToSet(second)
  BY <1>5, <1>6, <1>b, Concatenated
<1>9. /\ both \o third \in Seq(Settings(c))
      /\ ToSet(both \o third) = ToSet(both) \cup ToSet(third)
  BY <1>2, <1>8, Concatenated
<1> QED BY <1>2, <1>3, <1>7, <1>8, <1>9

(* A creation asks for every link, first, and for the rest.                *)
LEMMA RequestsAsk ==
  ASSUME NEW c, Regular(c)
  PROVE  /\ Requests(c) \in Seq(Settings(c) \cup Makings(c)) /\ Ordered(Requests(c))
         /\ \A v \in ToSet(c.vifs) : VifRequest(v) \in ToSet(Requests(c))
         /\ \A x \in ToSet(c.moves) : Do("move", x, <<>>) \in ToSet(Requests(c))
         /\ \A r \in RoutesIn(c) : Do("route", c.name, r) \in ToSet(Requests(c))
         /\ c.servers # <<>> => Do("dns", c.name, c) \in ToSet(Requests(c))
         /\ \A r \in ToSet(Requests(c)) : r.do # "moveVeth"
<1> DEFINE first == [i \in DOMAIN c.vifs |-> VifRequest(c.vifs[i])]
           second == [i \in DOMAIN c.moves |-> Do("move", c.moves[i], <<>>)]
           both == first \o second
           all == Settings(c) \cup Makings(c)
<1>0. IsList(c.vifs) /\ IsList(c.moves)
  BY DEF Regular
<1>1. /\ DOMAIN first = DOMAIN c.vifs /\ DOMAIN second = DOMAIN c.moves
      /\ \A i \in DOMAIN c.vifs : first[i] = VifRequest(c.vifs[i])
      /\ \A i \in DOMAIN c.moves : second[i] = Do("move", c.moves[i], <<>>)
      /\ both = first \o second
  OBVIOUS
<1>2. Requests(c) = both \o ReApply(c)
  BY DEF Requests
<1>3. first \in [DOMAIN c.vifs -> Makings(c)]
  BY StepsAreMakings DEF ToSet
<1>4. second \in [DOMAIN c.moves -> Makings(c)]
  BY StepsAreMakings DEF ToSet
<1> HIDE DEF first, second, both, all
<1>5. first \in Seq(Makings(c)) /\ \A v \in ToSet(c.vifs) : VifRequest(v) \in ToSet(first)
  BY <1>0, <1>1, <1>3, ElementWise DEF ToSet
<1>6. second \in Seq(Makings(c)) /\ \A x \in ToSet(c.moves) : Do("move", x, <<>>) \in ToSet(second)
  BY <1>0, <1>1, <1>4, ElementWise DEF ToSet
<1>7. both \in Seq(Makings(c)) /\ ToSet(both) = ToSet(first) \cup ToSet(second)
  BY <1>1, <1>5, <1>6, Concatenated
<1>8. ReApply(c) \in Seq(Settings(c))
  BY ReApplyAsks
<1>9. both \in Seq(all) /\ ReApply(c) \in Seq(all)
  BY <1>7, <1>8, SeqMonotonic DEF all
<1>10. /\ both \o ReApply(c) \in Seq(all)
       /\ ToSet(both \o ReApply(c)) = ToSet(both) \cup ToSet(ReApply(c))
  BY <1>9, Concatenated
<1>11. Ordered(ReApply(c))
  <2>1. \A i \in DOMAIN ReApply(c) : ReApply(c)[i] \in Settings(c)
    BY <1>8, LenProperties
  <2> QED BY <2>1, SettingsAndMakings, SettingsOrdered
<1>12. \A r \in ToSet(both) : ~IsSetting(r)
  <2>1. \A i \in DOMAIN both : both[i] \in Makings(c)
    BY <1>7, LenProperties
  <2> QED BY <2>1, SettingsAndMakings DEF ToSet
<1>13. Ordered(both \o ReApply(c))
  BY <1>9, <1>11, <1>12, ConcatOrdered
<1>14. \A r \in ToSet(both) : r.do # "moveVeth"
  <2>1. \A r \in ToSet(first) : r.do # "moveVeth"
    <3>1. \A v : VifRequest(v).do # "moveVeth"
      BY VifRequests, DoFields
    <3> QED BY <1>1, <3>1 DEF ToSet
  <2>2. \A r \in ToSet(second) : r.do # "moveVeth"
    BY <1>1, DoFields DEF ToSet
  <2> QED BY <1>7, <2>1, <2>2
<1>15. \A r \in ToSet(ReApply(c)) : r.do # "moveVeth"
  <2>1. \A i \in DOMAIN ReApply(c) : ReApply(c)[i] \in Settings(c)
    BY <1>8, LenProperties
  <2> QED BY <2>1, SettingsAndMakings DEF ToSet, IsSetting
<1> QED BY <1>2, <1>5, <1>6, <1>7, <1>10, <1>13, <1>14, <1>15, ReApplyAsks DEF all

(* What follows the making of a link: its addresses, and that it comes up. *)
LEMMA EquipAsks ==
  ASSUME NEW c, NEW v \in ToSet(c.vifs), IsList(v.addresses)
  PROVE  /\ Equip(v) \in Seq(Makings(c)) /\ Do("up", v.name, v) \in ToSet(Equip(v))
         /\ \A a \in ToSet(v.addresses) : Do("address", v.name, a) \in ToSet(Equip(v))
<1> DEFINE first == [i \in DOMAIN v.addresses |-> Do("address", v.name, v.addresses[i])]
           second == <<Do("up", v.name, v)>>
<1>1. Equip(v) = first \o second
  BY DEF Equip
<1>2. /\ first \in [DOMAIN v.addresses -> Makings(c)]
      /\ \A i \in DOMAIN v.addresses : first[i] = Do("address", v.name, v.addresses[i])
  BY StepsAreMakings DEF ToSet
<1>3. second \in Seq(Makings(c)) /\ Do("up", v.name, v) \in ToSet(second)
  BY StepsAreMakings DEF ToSet
<1> HIDE DEF first, second
<1>4. first \in Seq(Makings(c)) /\ \A a \in ToSet(v.addresses) : Do("address", v.name, a) \in ToSet(first)
  BY <1>2, ElementWise DEF ToSet
<1> QED BY <1>1, <1>3, <1>4, Concatenated

(* What follows a request that succeeded.                                  *)
LEMMA FollowAsks ==
  ASSUME NEW c, Regular(c)
  PROVE  /\ \A r : IsSetting(r) => Follow(r, c) = <<>>
         /\ \A r \in Makings(c) : Follow(r, c) \in Seq(Makings(c))
         /\ \A v \in ToSet(c.vifs) :
              \A r : r.name = v.name /\ r.with = v =>
                /\ r.do = "pair" /\ IsVeth(v) =>
                     /\ Do("moveVeth", v.name, v) \in ToSet(Follow(r, c))
                     /\ Do("hostUp", v.peer[1], <<>>) \in ToSet(Follow(r, c))
                /\ r.do \in {"moveVeth", "create", "wireguard"} =>
                     /\ Do("up", v.name, v) \in ToSet(Follow(r, c))
                     /\ \A a \in ToSet(v.addresses) : Do("address", v.name, a) \in ToSet(Follow(r, c))
                /\ r.do = "wireguard" /\ IsWireguard(v) =>
                     \A w \in ToSet(c.wireguard) : Do("configure", v.name, w) \in ToSet(Follow(r, c))
<1>1. \A r : IsSetting(r) => Follow(r, c) = <<>>
  BY DEF Follow, IsSetting
<1>e. ASSUME NEW v \in ToSet(c.vifs)
      PROVE  /\ Equip(v) \in Seq(Makings(c)) /\ Do("up", v.name, v) \in ToSet(Equip(v))
             /\ \A a \in ToSet(v.addresses) : Do("address", v.name, a) \in ToSet(Equip(v))
  BY EquipAsks DEF Regular
<1>2. ASSUME NEW v \in ToSet(c.vifs), IsVeth(v), NEW r, r.do = "pair", r.with = v, r.name = v.name
      PROVE  /\ Follow(r, c) \in Seq(Makings(c))
             /\ Do("moveVeth", v.name, v) \in ToSet(Follow(r, c))
             /\ Do("hostUp", v.peer[1], <<>>) \in ToSet(Follow(r, c))
  <2>1. Follow(r, c) = <<Do("moveVeth", v.name, v), Do("hostUp", v.peer[1], <<>>)>>
    BY <1>2 DEF Follow
  <2>2. Do("moveVeth", v.name, v) \in Makings(c) /\ Do("hostUp", v.peer[1], <<>>) \in Makings(c)
    BY <1>2, StepsAreMakings
  <2> QED BY <2>1, <2>2 DEF ToSet
<1>3. ASSUME NEW v \in ToSet(c.vifs), NEW r, r.do \in {"moveVeth", "create"}, r.with = v
      PROVE  Follow(r, c) = Equip(v)
  BY <1>3 DEF Follow
<1>4. ASSUME NEW v \in ToSet(c.vifs), NEW r, r.do = "wireguard", r.with = v, r.name = v.name
      PROVE  /\ IsWireguard(v) => Follow(r, c) \in Seq(Makings(c))
             /\ IsWireguard(v) => \A w \in ToSet(c.wireguard) : Do("configure", v.name, w) \in ToSet(Follow(r, c))
             /\ Do("up", v.name, v) \in ToSet(Follow(r, c))
             /\ \A a \in ToSet(v.addresses) : Do("address", v.name, a) \in ToSet(Follow(r, c))
  <2> DEFINE keys == [i \in DOMAIN c.wireguard |-> Do("configure", v.name, c.wireguard[i])]
             some == {Do("configure", v.name, w) : w \in ToSet(c.wireguard)}
             all == Makings(c) \cup some
  <2>1. Follow(r, c) = Equip(v) \o keys
    BY <1>4 DEF Follow
  <2>2. keys \in [DOMAIN c.wireguard -> some] /\ \A i \in DOMAIN c.wireguard : keys[i] = Do("configure", v.name, c.wireguard[i])
    BY DEF ToSet
  <2>3. IsWireguard(v) => some \subseteq Makings(c)
    BY StepsAreMakings
  <2>4. IsList(c.wireguard)
    BY DEF Regular, IsOptional
  <2>5. \A w \in ToSet(c.wireguard) : Do("configure", v.name, w) \in some
    OBVIOUS
  <2> HIDE DEF keys, some
  <2>6. keys \in Seq(some) /\ \A w \in ToSet(c.wireguard) : Do("configure", v.name, w) \in ToSet(keys)
    BY <2>2, <2>4, ElementWise DEF ToSet
  <2>7. Equip(v) \in Seq(all) /\ keys \in Seq(all)
    BY <1>e, <2>6, SeqMonotonic
  <2>8. Equip(v) \o keys \in Seq(all) /\ ToSet(Equip(v) \o keys) = ToSet(Equip(v)) \cup ToSet(keys)
    BY <2>7, Concatenated
  <2>9. IsWireguard(v) => all = Makings(c)
    BY <2>3
  <2> HIDE DEF all
  <2> QED BY <1>e, <2>1, <2>6, <2>8, <2>9
<1>5. ASSUME NEW r \in Makings(c) PROVE Follow(r, c) \in Seq(Makings(c))
  <2>1. CASE r.do \notin {"pair", "moveVeth", "create", "wireguard"}
    BY <2>1 DEF Follow
  <2>2. CASE r.do \in {"pair", "moveVeth", "create", "wireguard"}
    <3>1. PICK v \in ToSet(c.vifs) : /\ r.name = v.name /\ r.with = v
                                     /\ r.do = "pair" => IsVeth(v)
                                     /\ r.do = "wireguard" => IsWireguard(v)
      BY <2>2, Kinds, DoFields
    <3> QED BY <1>2, <1>3, <1>4, <1>e, <2>2, <3>1
  <2> QED BY <2>1, <2>2
<1>6. ASSUME NEW v \in ToSet(c.vifs), NEW r, r.name = v.name, r.with = v
      PROVE  /\ r.do = "pair" /\ IsVeth(v) =>
                  /\ Do("moveVeth", v.name, v) \in ToSet(Follow(r, c))
                  /\ Do("hostUp", v.peer[1], <<>>) \in ToSet(Follow(r, c))
             /\ r.do \in {"moveVeth", "create", "wireguard"} =>
                  /\ Do("up", v.name, v) \in ToSet(Follow(r, c))
                  /\ \A a \in ToSet(v.addresses) : Do("address", v.name, a) \in ToSet(Follow(r, c))
             /\ r.do = "wireguard" /\ IsWireguard(v) =>
                  \A w \in ToSet(c.wireguard) : Do("configure", v.name, w) \in ToSet(Follow(r, c))
  <2>1. CASE r.do \in {"moveVeth", "create"}
    <3>1. Follow(r, c) = Equip(v)
      BY <1>3, <1>6, <2>1
    <3> QED BY <1>e, <2>1, <3>1
  <2>2. CASE r.do = "pair"
    BY <1>2, <1>6, <2>2
  <2>3. CASE r.do = "wireguard"
    BY <1>4, <1>6, <2>3
  <2> QED BY <2>1, <2>2, <2>3
<1> QED BY <1>1, <1>5, <1>6

-----------------------------------------------------------------------------
(* Links.                                                                  *)

(* Links that keep who made them as what, and whose names stay apart.      *)
LEMMA Remapped ==
  ASSUME NEW all, NEW some \in SUBSET all, NEW places, NEW here, LinksIn(all, places, here),
         NEW places2, NEW here2, NEW f, DOMAIN f = some,
         \A l \in some :
           /\ DOMAIN f[l] = {"at", "name", "made", "vif", "up", "addresses", "key", "era"}
           /\ f[l].at \in places2 \cup {"host", "detached"} /\ f[l].name \in {l.name, <<>>}
           /\ f[l].made = l.made /\ f[l].vif = l.vif,
         \A k, l \in some : f[k].at = f[l].at /\ f[k].name = f[l].name /\ f[k].name # <<>> => k = l,
         "detached" \notin here2 => \A l \in some : f[l].at # "detached"
  PROVE  LinksIn({f[l] : l \in some}, places2, here2)
<1> DEFINE new == {f[l] : l \in some}
<1>1. \A k \in new : \E l \in some : k = f[l]
  OBVIOUS
<1> HIDE DEF new
<1>2. ASSUME NEW k \in new PROVE IsLink(k, places2)
  <2>1. PICK l \in some : k = f[l]
    BY <1>1
  <2>2. IsLink(l, places)
    BY DEF LinksIn
  <2> QED BY <2>1, <2>2 DEF IsLink
<1>3. \A k, l \in new : k.at = l.at /\ k.name = l.name /\ k.name # <<>> => k = l
  BY <1>1
<1>4. \A k, l \in new : k.made = "host" /\ l.made = "host" /\ k.vif = l.vif => k = l
  BY <1>1 DEF LinksIn
<1>5. "detached" \notin here2 => \A l \in new : l.at # "detached"
  BY <1>1
<1> QED BY <1>2, <1>3, <1>4, <1>5 DEF LinksIn, new

(* The end of a namespace: which links stay, and which return.             *)
Dying(all, place) == {Source(l) : l \in {l \in all : l.at = place /\ l.made # "host"}}
Kept(all, place) == {l \in all : l.made = "host" \/ Source(l) \notin Dying(all, place)}

(* What becomes of them.                                                   *)
Survive(f, all, place) ==
  /\ DOMAIN f = Kept(all, place) /\ Destroyed(all, place) = {f[l] : l \in Kept(all, place)}
  /\ \A l \in Kept(all, place) :
       /\ l.at # place => f[l] = l
       /\ l.at = place =>
            /\ l.made = "host" /\ f[l].at = "host" /\ f[l].made = "host" /\ f[l].vif = l.vif
            /\ f[l].name = IF \E k \in all : k.at = "host" /\ k.name = l.name THEN <<>> ELSE l.name
            /\ DOMAIN f[l] = {"at", "name", "made", "vif", "up", "addresses", "key", "era"}

(* The end of a namespace, as a function on the links that survive it.     *)
LEMMA DestroyedIs ==
  ASSUME NEW all, NEW place
  PROVE  \E f : Survive(f, all, place)
<1> DEFINE Free(name) == IF \E l \in all : l.at = "host" /\ l.name = name THEN <<>> ELSE name
           kept == Kept(all, place)
           f == [l \in kept |-> IF l.at = place THEN Link("host", Free(l.name), "host", l.vif) ELSE l]
<1>1. Destroyed(all, place) = {f[l] : l \in kept} /\ DOMAIN f = kept
  BY DEF Destroyed, Kept, Dying
<1>2. ASSUME NEW l \in kept, l.at = place
      PROVE  l.made = "host" /\ f[l] = Link("host", Free(l.name), "host", l.vif)
  <2>1. l.made = "host"
    <3>1. CASE l.made # "host"
      <4>1. l \in all /\ Source(l) \notin Dying(all, place)
        BY <3>1 DEF Kept
      <4>2. Source(l) \in Dying(all, place)
        BY <1>2, <3>1, <4>1 DEF Dying
      <4> QED BY <4>1, <4>2
    <3> QED BY <3>1
  <2> QED BY <1>2, <2>1
<1>3. \A l \in kept : l.at # place => f[l] = l
  OBVIOUS
<1>4. \A l \in kept : Free(l.name) = IF \E k \in all : k.at = "host" /\ k.name = l.name THEN <<>> ELSE l.name
  OBVIOUS
<1> HIDE DEF f, Free
<1>5. \A l \in kept : l.at = place =>
        /\ l.made = "host" /\ f[l].at = "host" /\ f[l].made = "host" /\ f[l].vif = l.vif
        /\ f[l].name = Free(l.name)
        /\ DOMAIN f[l] = {"at", "name", "made", "vif", "up", "addresses", "key", "era"}
  <2> SUFFICES ASSUME NEW l \in kept, l.at = place
               PROVE  /\ l.made = "host" /\ f[l].at = "host" /\ f[l].made = "host" /\ f[l].vif = l.vif
                      /\ f[l].name = Free(l.name)
                      /\ DOMAIN f[l] = {"at", "name", "made", "vif", "up", "addresses", "key", "era"}
    OBVIOUS
  <2>1. l.made = "host" /\ f[l] = Link("host", Free(l.name), "host", l.vif)
    BY <1>2
  <2> DEFINE m == Link("host", Free(l.name), "host", l.vif)
  <2>2. /\ m.at = "host" /\ m.made = "host" /\ m.vif = l.vif /\ m.name = Free(l.name)
        /\ DOMAIN m = {"at", "name", "made", "vif", "up", "addresses", "key", "era"}
    BY DEF Link
  <2> HIDE DEF m
  <2>3. l.made = "host" /\ f[l] = m
    BY <2>1 DEF m
  <2> QED BY <2>2, <2>3
<1> HIDE DEF kept
<1>6. \A l \in kept :
        /\ l.at # place => f[l] = l
        /\ l.at = place =>
             /\ l.made = "host" /\ f[l].at = "host" /\ f[l].made = "host" /\ f[l].vif = l.vif
             /\ f[l].name = IF \E k \in all : k.at = "host" /\ k.name = l.name THEN <<>> ELSE l.name
             /\ DOMAIN f[l] = {"at", "name", "made", "vif", "up", "addresses", "key", "era"}
  BY <1>3, <1>4, <1>5
<1>7. DOMAIN f = kept /\ Destroyed(all, place) = {f[l] : l \in kept}
  BY <1>1
<1> QED BY <1>6, <1>7 DEF kept, Survive

(* Names stay unique when a namespace ends: who returns to a taken name    *)
(* gets another.                                                           *)
LEMMA DestroyedOk ==
  ASSUME NEW all, NEW places, NEW here, LinksIn(all, places, here), NEW place, place # "host",
         NEW places2, places \ {place} \subseteq places2, place \in places \cup {"detached"},
         NEW here2, "detached" \notin here2 => place = "detached" \/ "detached" \notin here
  PROVE  LinksIn(Destroyed(all, place), places2, here2)
<1> DEFINE kept == Kept(all, place)
<1>1. PICK f : Survive(f, all, place)
  BY DestroyedIs
<1>2. kept \in SUBSET all
  BY DEF Kept
<1>a. /\ DOMAIN f = kept /\ Destroyed(all, place) = {f[l] : l \in kept}
      /\ \A l \in kept :
           /\ l.at # place => f[l] = l
           /\ l.at = place =>
                /\ l.made = "host" /\ f[l].at = "host" /\ f[l].made = "host" /\ f[l].vif = l.vif
                /\ f[l].name = IF \E k \in all : k.at = "host" /\ k.name = l.name THEN <<>> ELSE l.name
                /\ DOMAIN f[l] = {"at", "name", "made", "vif", "up", "addresses", "key", "era"}
  BY <1>1 DEF Survive
<1> HIDE DEF kept
<1>3. \A l \in kept : /\ DOMAIN f[l] = {"at", "name", "made", "vif", "up", "addresses", "key", "era"}
                      /\ f[l].at \in places2 \cup {"host", "detached"} /\ f[l].name \in {l.name, <<>>}
                      /\ f[l].made = l.made /\ f[l].vif = l.vif
  BY <1>a, <1>2 DEF LinksIn, IsLink
<1>4. ASSUME NEW k \in kept, NEW l \in kept, f[k].at = f[l].at, f[k].name = f[l].name, f[k].name # <<>>
      PROVE  k = l
  <2>1. CASE k.at # place /\ l.at # place
    BY <1>a, <1>2, <1>4, <2>1 DEF LinksIn
  <2>2. CASE k.at = place /\ l.at = place
    BY <1>a, <1>2, <1>4, <2>2 DEF LinksIn
  <2>3. CASE k.at = place /\ l.at # place
    BY <1>a, <1>2, <1>4, <2>3
  <2>4. CASE k.at # place /\ l.at = place
    BY <1>a, <1>2, <1>4, <2>4
  <2> QED BY <2>1, <2>2, <2>3, <2>4
<1>5. "detached" \notin here2 => \A l \in kept : f[l].at # "detached"
  BY <1>a, <1>2 DEF LinksIn
<1>6. LinksIn({f[l] : l \in kept}, places2, here2)
  BY <1>a, <1>2, <1>3, <1>4, <1>5, Remapped
<1> QED BY <1>a, <1>6

(* What a request does to the links that are there.                        *)
Moves(r) == r.do \in {"move", "moveVeth"}
Hit(n, r, l) == l.name = r.name /\ l.at = (IF Moves(r) \/ r.do = "hostUp" THEN "host" ELSE n)

Alters(f, n, r) ==
  \A l \in links :
    /\ DOMAIN f[l] = DOMAIN l /\ f[l].name = l.name /\ f[l].made = l.made /\ f[l].vif = l.vif
    /\ ~Hit(n, r, l) => f[l] = l
    /\ Hit(n, r, l) =>
         /\ f[l].at = (IF Moves(r) THEN n ELSE l.at)
         /\ r.do \in {"up", "hostUp"} => f[l].up
         /\ r.do \in {"address", "configure"} => f[l].up = l.up
         /\ r.do \in {"up", "hostUp", "configure"} => f[l].addresses = l.addresses
         /\ Moves(r) => f[l].addresses = {}
         /\ r.do = "address" => f[l].addresses = l.addresses \cup {r.with}
         /\ f[l].key = (IF r.do = "configure" THEN r.with.key ELSE l.key)

(* A move changes the place of the link it names, and of no other.         *)
LEMMA EffectMoves ==
  ASSUME NEW n, NEW r, Moves(r), Effect(n, r), LinksOk
  PROVE  \E f : DOMAIN f = links /\ links' = {f[l] : l \in links} /\ Alters(f, n, r)
<1> DEFINE f == [l \in links |-> IF l \in Listed /\ l.name = r.name
                                 THEN [l EXCEPT !.at = n, !.up = FALSE, !.addresses = {}] ELSE l]
<1>1. links' = {f[l] : l \in links} /\ DOMAIN f = links
  BY DEF Effect, MoveLink, Moves
<1>2. ASSUME NEW l \in links, Hit(n, r, l)
      PROVE  /\ f[l].at = n /\ f[l].addresses = {} /\ f[l].key = l.key
             /\ DOMAIN f[l] = DOMAIN l /\ f[l].name = l.name /\ f[l].made = l.made /\ f[l].vif = l.vif
  <2>1. IsLink(l, mounted)
    BY DEF LinksOk, LinksIn
  <2>2. f[l] = [l EXCEPT !.at = n, !.up = FALSE, !.addresses = {}]
    BY <1>2 DEF Hit, Listed
  <2> QED BY <2>1, <2>2 DEF IsLink
<1>3. ASSUME NEW l \in links, ~Hit(n, r, l)
      PROVE  f[l] = l
  BY <1>3 DEF Hit, Listed
<1> HIDE DEF f
<1>4. Alters(f, n, r)
  BY <1>2, <1>3 DEF Alters, Moves
<1> QED BY <1>1, <1>4

(* A request for a link in place changes that link, and no other.          *)
LEMMA EffectChanges ==
  ASSUME NEW n, NEW r, r.do \in {"address", "up", "hostUp", "configure"}, Effect(n, r), LinksOk
  PROVE  \E f : DOMAIN f = links /\ links' = {f[l] : l \in links} /\ Alters(f, n, r)
<1>0. ASSUME NEW l \in links
      PROVE  /\ [l EXCEPT !.up = TRUE].up
             /\ [l EXCEPT !.addresses = @ \cup {r.with}].addresses = l.addresses \cup {r.with}
             /\ [l EXCEPT !.key = r.with.key].key = r.with.key
             /\ \A m \in {[l EXCEPT !.up = TRUE], [l EXCEPT !.addresses = @ \cup {r.with}], [l EXCEPT !.key = r.with.key]} :
                  DOMAIN m = DOMAIN l /\ m.at = l.at /\ m.name = l.name /\ m.made = l.made /\ m.vif = l.vif
             /\ \A m \in {[l EXCEPT !.up = TRUE], [l EXCEPT !.key = r.with.key]} : m.addresses = l.addresses
             /\ \A m \in {[l EXCEPT !.up = TRUE], [l EXCEPT !.addresses = @ \cup {r.with}]} : m.key = l.key
             /\ \A m \in {[l EXCEPT !.addresses = @ \cup {r.with}], [l EXCEPT !.key = r.with.key]} : m.up = l.up
  <2>1. IsLink(l, mounted)
    BY DEF LinksOk, LinksIn
  <2> QED BY <2>1 DEF IsLink
<1>1. CASE r.do = "address"
  <2> DEFINE f == [l \in links |-> IF Hit(n, r, l) THEN [l EXCEPT !.addresses = @ \cup {r.with}] ELSE l]
  <2>1. links' = {f[l] : l \in links} /\ DOMAIN f = links
    BY <1>1 DEF Effect, Change, Hit, Moves
  <2>2. Alters(f, n, r)
    BY <1>0, <1>1 DEF Alters, Hit, Moves
  <2> QED BY <2>1, <2>2
<1>2. CASE r.do = "up"
  <2> DEFINE f == [l \in links |-> IF Hit(n, r, l) THEN [l EXCEPT !.up = TRUE] ELSE l]
  <2>1. links' = {f[l] : l \in links} /\ DOMAIN f = links
    BY <1>2 DEF Effect, Change, Hit, Moves
  <2>2. Alters(f, n, r)
    BY <1>0, <1>2 DEF Alters, Hit, Moves
  <2> QED BY <2>1, <2>2
<1>3. CASE r.do = "hostUp"
  <2> DEFINE f == [l \in links |-> IF Hit(n, r, l) THEN [l EXCEPT !.up = TRUE] ELSE l]
  <2>1. links' = {f[l] : l \in links} /\ DOMAIN f = links
    BY <1>3 DEF Effect, Change, Hit, Moves
  <2>2. Alters(f, n, r)
    BY <1>0, <1>3 DEF Alters, Hit, Moves
  <2> QED BY <2>1, <2>2
<1>4. CASE r.do = "configure"
  <2> DEFINE f == [l \in links |-> IF Hit(n, r, l) THEN [l EXCEPT !.key = r.with.key] ELSE l]
  <2>1. links' = {f[l] : l \in links} /\ DOMAIN f = links
    BY <1>4 DEF Effect, Change, Hit, Moves
  <2>2. Alters(f, n, r)
    BY <1>0, <1>4 DEF Alters, Hit, Moves
  <2> QED BY <2>1, <2>2
<1> QED BY <1>1, <1>2, <1>3, <1>4

(* The links a request makes.                                              *)
MadeBy(n, r) ==
  CASE r.do = "pair" -> {Link("host", r.name, n, r.name), Link("host", r.with.peer[1], n, r.name)}
    [] r.do \in {"wireguard", "create"} -> {Link(n, r.name, n, r.name)}
    [] OTHER -> {}

(* The other requests change no link; some make new ones.                  *)
LEMMA EffectMakes ==
  ASSUME NEW n, NEW r, r.do \in {"pair", "wireguard", "create", "route", "dns"}, Effect(n, r)
  PROVE  links' = links \cup MadeBy(n, r)
<1>1. CASE r.do = "pair"
  <2>1. links' = links \cup {Link("host", name, n, r.name) : name \in {r.name, r.with.peer[1]}}
    BY <1>1 DEF Effect
  <2>2. {Link("host", name, n, r.name) : name \in {r.name, r.with.peer[1]}}
          = {Link("host", r.name, n, r.name), Link("host", r.with.peer[1], n, r.name)}
    OBVIOUS
  <2> QED BY <1>1, <2>1, <2>2 DEF MadeBy
<1>2. CASE r.do \in {"wireguard", "create"}
  BY <1>2 DEF Effect, MadeBy
<1>3. CASE r.do \in {"route", "dns"}
  <2>1. links' = links
    BY <1>3 DEF Effect
  <2>2. MadeBy(n, r) = {}
    BY <1>3 DEF MadeBy
  <2> QED BY <2>1, <2>2
<1> QED BY <1>1, <1>2, <1>3

(* New links beside the old.                                               *)
LEMMA Added ==
  ASSUME LinksOk, NEW new,
         \A l \in new : /\ IsLink(l, mounted) /\ l.made # "host" /\ l.at # "detached"
                        /\ ~LinkAt(l.at, l.name),
         \A k, l \in new : k.at = l.at /\ k.name = l.name => k = l
  PROVE  LinksIn(links \cup new, mounted, held)
BY DEF LinksOk, LinksIn, LinkAt

(* Names stay unique whatever is granted: the kernel refuses a name that   *)
(* is taken.                                                               *)
LEMMA EffectOk ==
  ASSUME LinksOk, NEW n \in Namespace, NEW r,
         r.do \in {"pair", "wireguard", "create", "route", "dns", "move", "moveVeth",
                   "address", "up", "hostUp", "configure"},
         r.do = "pair" => r.with.peer[1] # r.name,
         Can(n, r), Effect(n, r), UNCHANGED <<mounted, held>>
  PROVE  LinksOk'
<1>0. LinksIn(links', mounted, held) => LinksOk'
  BY DEF LinksOk, LinksIn, IsLink
<1>s. n # "detached" /\ n # "host"
  BY ProvisioningAssumption
<1>1. CASE r.do = "pair"
  <2> DEFINE k == Link("host", r.name, n, r.name)
             m == Link("host", r.with.peer[1], n, r.name)
  <2>1. links' = links \cup {k, m}
    BY <1>1, EffectMakes DEF MadeBy
  <2>2. /\ DOMAIN k = {"at", "name", "made", "vif", "up", "addresses", "key", "era"}
        /\ DOMAIN m = {"at", "name", "made", "vif", "up", "addresses", "key", "era"}
        /\ k.at = "host" /\ k.name = r.name /\ k.made = n
        /\ m.at = "host" /\ m.name = r.with.peer[1] /\ m.made = n
    BY DEF Link
  <2>3. ~IsListed(r.name) /\ ~IsListed(r.with.peer[1])
    BY <1>1 DEF Can
  <2> HIDE DEF k, m
  <2>4. ~LinkAt("host", k.name) /\ ~LinkAt("host", m.name)
    BY <2>2, <2>3 DEF LinkAt, IsListed, Listed
  <2>5. IsLink(k, mounted) /\ IsLink(m, mounted)
    BY <2>2, <1>s DEF IsLink
  <2>6. LinksIn(links \cup {k, m}, mounted, held)
    <3>1. \A l \in {k, m} : /\ IsLink(l, mounted) /\ l.made # "host" /\ l.at # "detached"
                           /\ ~LinkAt(l.at, l.name)
      BY <1>s, <2>2, <2>4, <2>5
    <3>2. \A x, y \in {k, m} : x.at = y.at /\ x.name = y.name => x = y
      BY <1>1, <2>2
    <3> QED BY <3>1, <3>2, Added, Zenon
  <2> QED BY <1>0, <2>1, <2>6
<1>2. CASE r.do \in {"wireguard", "create"}
  <2> DEFINE k == Link(n, r.name, n, r.name)
  <2>1. links' = links \cup {k}
    BY <1>2, EffectMakes DEF MadeBy
  <2>2. /\ DOMAIN k = {"at", "name", "made", "vif", "up", "addresses", "key", "era"}
        /\ k.at = n /\ k.name = r.name /\ k.made = n
    BY DEF Link
  <2>3. n \in mounted /\ ~LinkAt(n, r.name)
    BY <1>2 DEF Can
  <2> HIDE DEF k
  <2>4. IsLink(k, mounted)
    BY <2>2, <2>3, <1>s DEF IsLink
  <2>5. LinksIn(links \cup {k}, mounted, held)
    BY <1>s, <2>2, <2>3, <2>4, Added
  <2> QED BY <1>0, <2>1, <2>5
<1>3. CASE r.do \in {"route", "dns"}
  <2>1. links' = links
    BY <1>3, EffectMakes DEF MadeBy
  <2> QED BY <1>0, <2>1 DEF LinksOk
<1>4. ASSUME NEW f, DOMAIN f = links, links' = {f[l] : l \in links}, Alters(f, n, r),
             Moves(r) => n \in mounted /\ ~LinkAt(n, r.name)
      PROVE  LinksOk'
  <2>1. \A l \in links :
           /\ DOMAIN f[l] = {"at", "name", "made", "vif", "up", "addresses", "key", "era"}
           /\ f[l].at \in mounted \cup {"host", "detached"} /\ f[l].name \in {l.name, <<>>}
           /\ f[l].made = l.made /\ f[l].vif = l.vif
    BY <1>4 DEF LinksOk, LinksIn, IsLink, Alters, Hit
  <2>2. ASSUME NEW k \in links, NEW l \in links, f[k].at = f[l].at, f[k].name = f[l].name, f[k].name # <<>>
        PROVE  k = l
    <3>1. k.name = l.name /\ k.name # <<>>
      BY <1>4, <2>2 DEF Alters
    <3>2. k.at = l.at => k = l
      BY <3>1 DEF LinksOk, LinksIn
    <3>3. CASE ~Moves(r)
      BY <1>4, <2>2, <3>2, <3>3 DEF Alters
    <3>4. CASE Moves(r)
      <4>1. \A j \in links : j.name = r.name => j.at # n
        BY <1>4, <3>4 DEF LinkAt
      <4>2. \A j \in links : f[j].at = IF j.name = r.name /\ j.at = "host" THEN n ELSE j.at
        BY <1>4, <3>4 DEF Alters, Hit
      <4> QED BY <2>2, <3>1, <3>2, <4>1, <4>2
    <3> QED BY <3>3, <3>4
  <2>3. "detached" \notin held => \A l \in links : f[l].at # "detached"
    BY <1>4, <1>s DEF LinksOk, LinksIn, Alters
  <2>4. LinksIn({f[l] : l \in links}, mounted, held)
    BY <1>4, <2>1, <2>2, <2>3, Remapped DEF LinksOk
  <2> QED BY <1>0, <1>4, <2>4
<1>5. CASE Moves(r)
  <2>1. n \in mounted /\ ~LinkAt(n, r.name)
    BY <1>5 DEF Can, Moves, CanMove
  <2>2. PICK f : DOMAIN f = links /\ links' = {f[l] : l \in links} /\ Alters(f, n, r)
    BY <1>5, EffectMoves
  <2> QED BY <1>4, <2>1, <2>2
<1>6. CASE r.do \in {"address", "up", "hostUp", "configure"}
  <2>1. PICK f : DOMAIN f = links /\ links' = {f[l] : l \in links} /\ Alters(f, n, r)
    BY <1>6, EffectChanges
  <2>2. ~Moves(r)
    BY <1>6 DEF Moves
  <2> QED BY <1>4, <2>1, <2>2
<1> QED BY <1>1, <1>2, <1>3, <1>5, <1>6 DEF Moves

-----------------------------------------------------------------------------
(* The parts that keep the state well formed.                              *)

(* At the start there are the host's own links and no work.                *)
LEMMA WellformedInit == Init => Wellformed
<1> SUFFICES ASSUME Init PROVE Wellformed
  OBVIOUS
<1>s. None \notin Namespace /\ "host" \notin Namespace /\ "detached" \notin Namespace
  BY ProvisioningAssumption DEF None
<1>1. \A p \in Physical : LET l == Link("host", p, "host", p) IN
        /\ DOMAIN l = {"at", "name", "made", "vif", "up", "addresses", "key", "era"}
        /\ l.at = "host" /\ l.name = p /\ l.made = "host" /\ l.vif = p
  BY DEF Link
<1>2. FilesOk
  BY FilesOkInit
<1>3. Shape
  BY <1>2, LoadablesAreSound DEF Init, Shape, Running
<1>4. LinksOk
  <2>1. \A l \in links : \E p \in Physical : l = Link("host", p, "host", p)
    BY DEF Init
  <2>2. \A l \in links : /\ DOMAIN l = {"at", "name", "made", "vif", "up", "addresses", "key", "era"}
                         /\ l.at = "host" /\ l.name \in Physical /\ l.made = "host" /\ l.vif = l.name
    BY <1>1, <2>1
  <2>3. \A k, l \in links : k.name = l.name => k = l
    BY <1>1, <2>1
  <2> QED BY <2>2, <2>3 DEF LinksOk, LinksIn, IsLink
<1>5. WorkOk
  BY DEF Init, WorkOk, Idle, None
<1>6. CallOk
  BY <1>s DEF Init, CallOk, NoCall, Running, None
<1> QED BY <1>3, <1>4, <1>5, <1>6 DEF Wellformed

(* A step that leaves a part alone.                                        *)
LEMMA LinksFrame ==
  ASSUME LinksOk, UNCHANGED <<links, held>>, mounted \subseteq mounted'
  PROVE  LinksOk'
BY DEF LinksOk, LinksIn, IsLink

(* Work that nobody touches stays in order.                                *)
LEMMA WorkFrame ==
  ASSUME WorkOk, UNCHANGED <<work, status, built, applied>>
  PROVE  WorkOk'
BY DEF WorkOk

(* Statuses and mounts that nobody touches agree.                          *)
LEMMA CallFrame ==
  ASSUME CallOk, UNCHANGED <<call, work, status, mounted, cleaning, built, applied>>,
         \A n \in Namespace : loaded[n] # <<>> => loaded'[n] # <<>>
  PROVE  CallOk'
BY DEF CallOk

(* Loading a file (config.rs).                                             *)
LEMMA LoadOk ==
  ASSUME Wellformed, NEW n \in Namespace, Load(n), FilesOk'
  PROVE  Wellformed'
<1>1. Shape' /\ LinksOk' /\ WorkOk'
  BY LinksFrame, WorkFrame DEF Load, Wellformed, Shape
<1>2. CallOk'
  <2>1. \A m \in Namespace : loaded[m] # <<>> => loaded'[m] # <<>>
    BY DEF Load, Wellformed, Shape, FilesOk
  <2> QED BY <2>1, CallFrame DEF Load, Wellformed
<1> QED BY <1>1, <1>2 DEF Wellformed

(* An edit, or a process that enters.                                      *)
LEMMA AroundOk ==
  ASSUME Wellformed, FilesOk', NEW n \in Namespace, Edit(n) \/ Enter(n)
  PROVE  Wellformed'
<1>1. UNCHANGED <<loaded, status, built, applied, mounted, links, routes, servers, work,
                  call, cleaning, spoiled>> /\ held \subseteq held' /\ held' \subseteq held \cup mounted
  BY DEF Edit, Enter
<1>2. Shape' /\ WorkOk' /\ CallOk'
  BY <1>1, WorkFrame, CallFrame DEF Wellformed, Shape
<1>3. LinksOk'
  BY <1>1 DEF Wellformed, LinksOk, LinksIn
<1> QED BY <1>2, <1>3 DEF Wellformed

(* The end of a creation or an update.                                     *)
LEMMA EndWorkOk ==
  ASSUME Wellformed, FilesOk', EndWork
  PROVE  Wellformed'
<1>1. work.on \in Namespace /\ status' = [status EXCEPT ![work.on] = "active"] /\ work' = Idle
  BY DEF EndWork, Wellformed, WorkOk
<1>2. Shape' /\ LinksOk'
  BY <1>1, LinksFrame DEF EndWork, Wellformed, Shape
<1>3. WorkOk'
  BY <1>1 DEF WorkOk, Idle, None
<1>4. status[work.on] \in {"creating", "active"}
  BY DEF EndWork, Wellformed, WorkOk
<1>5. CallOk'
  <2>1. \A n \in Namespace : status'[n] = IF n = work.on THEN "active" ELSE status[n]
    BY <1>1 DEF Wellformed, Shape
  <2>2. \A n \in Namespace : /\ status'[n] \in {"creating", "active"} <=> status[n] \in {"creating", "active"}
                             /\ status'[n] # None => status[n] # None
    BY <1>4, <2>1 DEF None
  <2>3. UNCHANGED <<call, cleaning, mounted, loaded, built, applied>> /\ CallOk /\ work' = Idle
        /\ mounted \subseteq Namespace
    BY <1>1 DEF EndWork, Wellformed, Shape
  <2>4. (call.stage = "unmounted" => call.on \in Namespace) /\ None = "none"
    BY <2>3 DEF CallOk, None
  <2> QED BY <2>2, <2>3, <2>4 DEF CallOk
<1> QED BY <1>2, <1>3, <1>5 DEF Wellformed

(* A failed state is dropped by the maintenance.                           *)
LEMMA RetryOk ==
  ASSUME Wellformed, FilesOk', NEW n \in Namespace, Retry(n)
  PROVE  Wellformed'
<1>1. /\ status[n] = "failed" /\ status' = [status EXCEPT ![n] = None] /\ work = Idle
      /\ UNCHANGED <<file, loaded, built, applied, mounted, links, routes, servers, work,
                     call, held, cleaning, spent, spoiled>>
  BY DEF Retry
<1>2. Shape' /\ LinksOk'
  BY <1>1, LinksFrame DEF Wellformed, Shape
<1>3. WorkOk'
  BY <1>1 DEF WorkOk, Idle, None
<1>4. CallOk'
  BY <1>1 DEF Wellformed, CallOk, Shape, None
<1> QED BY <1>2, <1>3, <1>4 DEF Wellformed

(* The locked steps of a deletion, and the beginning of a cleanup.         *)
LEMMA DeleteOk ==
  ASSUME Wellformed, FilesOk', (\E n \in Namespace : BeginDelete(n)) \/ EndDelete \/ Shutdown
  PROVE  Wellformed'
<1>s. None \notin Namespace
  BY ProvisioningAssumption DEF None
<1>1. /\ UNCHANGED <<loaded, built, applied, mounted, links, routes, servers, work, held, spoiled>>
      /\ work = Idle /\ status' \in {status, [status EXCEPT ![call.on] = None]}
      /\ cleaning' = cleaning \/ cleaning' \subseteq Namespace
  BY DEF BeginDelete, EndDelete, Shutdown
<1>2. LinksOk'
  BY <1>1, LinksFrame DEF Wellformed
<1>3. WorkOk'
  BY <1>1 DEF WorkOk, Idle, None
<1>4. Shape'
  BY <1>1 DEF Wellformed, Shape, None
<1>5. ASSUME NEW n \in Namespace, BeginDelete(n) PROVE CallOk'
  <2>1. call' = [on |-> n, stage |-> "found"] /\ call = NoCall /\ UNCHANGED <<status, cleaning>> /\ cleaning = Running
    BY <1>5 DEF BeginDelete
  <2> QED BY <1>1, <1>s, <2>1 DEF Wellformed, CallOk, NoCall, None
<1>6. ASSUME EndDelete PROVE CallOk'
  <2>1. /\ call.stage = "unmounted" /\ call' = NoCall /\ cleaning' = cleaning
        /\ status' = [status EXCEPT ![call.on] = None]
    BY <1>6 DEF EndDelete
  <2>2. call.on \in Namespace /\ cleaning = Running /\ call.on \notin mounted
    BY <2>1 DEF Wellformed, CallOk, NoCall, None
  <2>3. \A n \in Namespace : status'[n] = IF n = call.on THEN None ELSE status[n]
    BY <2>1 DEF Wellformed, Shape
  <2>4. \A n \in Namespace : /\ status'[n] \in {"creating", "active"} => status[n] \in {"creating", "active"} /\ n # call.on
                             /\ status'[n] # None => status[n] # None
    BY <2>3 DEF None
  <2>5. CallOk /\ mounted \subseteq Namespace
    BY DEF Wellformed, Shape
  <2>6. DOMAIN NoCall = {"on", "stage"} /\ NoCall.on = None /\ NoCall.stage = None
    BY DEF NoCall
  <2>7. cleaning' = Running /\ UNCHANGED <<mounted, loaded, built, applied>>
    BY <1>1, <2>1, <2>2
  <2>8. \A n \in mounted : status'[n] \in {"creating", "active"}
    BY <2>2, <2>3, <2>5 DEF CallOk
  <2>9. \A n \in Namespace \ mounted : status'[n] \notin {"creating", "active"}
    BY <2>2, <2>4, <2>5 DEF CallOk
  <2>10. \A n \in Namespace : /\ status'[n] # None => loaded[n] # <<>>
                              /\ status'[n] \in {"creating", "active"} => built[n] # <<>> /\ applied[n] # <<>>
    BY <2>4, <2>5 DEF CallOk
  <2>11. None = "none"
    BY DEF None
  <2> QED BY <2>1, <2>6, <2>7, <2>8, <2>9, <2>10, <2>11 DEF CallOk
<1>7. ASSUME Shutdown PROVE CallOk'
  <2>1. call = NoCall /\ UNCHANGED <<call, status>> /\ cleaning' \subseteq Namespace /\ cleaning = Running
    BY <1>7 DEF Shutdown
  <2>2. cleaning' # Running
    BY <2>1, <1>s DEF Running
  <2>3. CallOk /\ work' = Idle /\ call' = NoCall /\ UNCHANGED <<loaded, built, applied, mounted, status, call>>
    BY <1>1, <2>1 DEF Wellformed
  <2> QED BY <2>2, <2>3 DEF CallOk
<1> QED BY <1>2, <1>3, <1>4, <1>5, <1>6, <1>7 DEF Wellformed

(* What is loaded or built or applied is regular.                          *)
LEMMA EntriesAreSound ==
  ASSUME Shape
  PROVE  \A n \in Namespace : \A e \in {loaded[n], built[n], applied[n]} :
           e \in Loadable /\ (e # <<>> => Sound(e[1]) /\ Regular(e[1]))
<1>1. /\ loaded \in [Namespace -> Loadable] /\ built \in [Namespace -> Loadable]
      /\ applied \in [Namespace -> Loadable]
  BY DEF Shape, FilesOk
<1> QED BY <1>1, LoadablesAreSound DEF Sound

(* A creation begins with the requests of the configuration, links first.  *)
LEMMA BeginCreationOk ==
  ASSUME Wellformed, FilesOk', NEW n \in Namespace, BeginCreation(n)
  PROVE  Wellformed'
<1>1. /\ cleaning = Running /\ work = Idle /\ status[n] = None /\ loaded[n] # <<>> /\ n \notin mounted
      /\ UNCHANGED <<file, loaded, links, routes, servers, call, held, cleaning, spent>>
  BY DEF BeginCreation
<1>2. Regular(loaded[n][1]) /\ loaded[n] \in Loadable
  BY <1>1, EntriesAreSound DEF Wellformed
<1>3. LinksOk'
  BY <1>1, LinksFrame DEF Wellformed, BeginCreation
<1>4. call.stage = "unmounted" => call.on # n
  BY <1>1 DEF Wellformed, CallOk, None
<1>5. CASE FitsWithPrefix(loaded[n][1])
  <2> DEFINE more == Robbed(loaded[n][1]) \cup {m \in {n} : Contended(loaded[n][1])}
  <2>1. /\ mounted' = mounted \cup {n} /\ status' = [status EXCEPT ![n] = "creating"]
        /\ work' = [on |-> n, todo |-> Requests(loaded[n][1])]
        /\ built' = [built EXCEPT ![n] = loaded[n]] /\ applied' = [applied EXCEPT ![n] = loaded[n]]
        /\ spoiled' = spoiled \cup more
    BY <1>5 DEF BeginCreation
  <2>2. more \subseteq Namespace
    BY DEF Robbed, Listed, Wellformed, LinksOk, LinksIn, IsLink
  <2> HIDE DEF more
  <2>3. Shape'
    <3>1. routes' = routes /\ servers' = servers /\ held' = held /\ cleaning' = cleaning
      BY <1>1
    <3> QED BY <1>2, <2>1, <2>2, <3>1 DEF Wellformed, Shape
  <2>4. \A m \in Namespace : /\ status'[m] = IF m = n THEN "creating" ELSE status[m]
                             /\ built'[m] = IF m = n THEN loaded[n] ELSE built[m]
                             /\ applied'[m] = IF m = n THEN loaded[n] ELSE applied[m]
    BY <2>1 DEF Wellformed, Shape
  <2>5. WorkOk'
    <3>1. /\ Requests(loaded[n][1]) \in Seq(Settings(loaded[n][1]) \cup Makings(loaded[n][1]))
          /\ Ordered(Requests(loaded[n][1]))
      BY <1>2, RequestsAsk
    <3>2. n # None
      BY ProvisioningAssumption DEF None
    <3>3. DOMAIN work' = {"on", "todo"} /\ work'.on = n /\ work'.todo = Requests(loaded[n][1])
      BY <2>1
    <3>4. status'[n] = "creating" /\ built'[n] = loaded[n] /\ applied'[n] = loaded[n]
      BY <2>4
    <3> QED BY <1>1, <3>1, <3>2, <3>3, <3>4 DEF WorkOk
  <2>6. CallOk'
    <3>1. CallOk /\ UNCHANGED <<call, cleaning, loaded>>
      BY <1>1 DEF Wellformed
    <3> QED BY <1>1, <1>4, <2>1, <2>4, <3>1 DEF CallOk
  <2> QED BY <1>3, <2>3, <2>5, <2>6 DEF Wellformed
<1>6. CASE ~FitsWithPrefix(loaded[n][1])
  <2>1. status' = [status EXCEPT ![n] = "failed"] /\ UNCHANGED <<mounted, work, built, applied, spoiled>>
    BY <1>6 DEF BeginCreation
  <2>2. Shape'
    BY <1>1, <2>1 DEF Wellformed, Shape
  <2>3. \A m \in Namespace : status'[m] = IF m = n THEN "failed" ELSE status[m]
    BY <2>1 DEF Wellformed, Shape
  <2>4. WorkOk'
    BY <1>1, <2>1 DEF WorkOk, Idle, None
  <2>5. CallOk'
    <3>1. CallOk /\ UNCHANGED <<call, cleaning, loaded>> /\ None # "failed"
      BY <1>1 DEF Wellformed, None
    <3> QED BY <1>1, <1>4, <2>1, <2>3, <3>1 DEF CallOk
  <2> QED BY <1>3, <2>2, <2>4, <2>5 DEF Wellformed
<1> QED BY <1>5, <1>6

(* An update begins with routes and servers only.                          *)
LEMMA BeginUpdateOk ==
  ASSUME Wellformed, FilesOk', NEW n \in Namespace, BeginUpdate(n)
  PROVE  Wellformed'
<1>1. /\ cleaning = Running /\ work = Idle /\ status[n] = "active" /\ n \in mounted
      /\ work' = [on |-> n, todo |-> ReApply(loaded[n][1])]
      /\ applied' = [applied EXCEPT ![n] = loaded[n]]
      /\ UNCHANGED <<file, loaded, status, built, mounted, links, routes, servers, call,
                     held, cleaning, spent, spoiled>>
  BY DEF BeginUpdate
<1>2. loaded[n] # <<>> /\ built[n] # <<>>
  BY <1>1 DEF Wellformed, CallOk, None
<1>3. Regular(loaded[n][1]) /\ loaded[n] \in Loadable
  BY <1>2, EntriesAreSound DEF Wellformed
<1>4. Shape' /\ LinksOk'
  BY <1>1, <1>3, LinksFrame DEF Wellformed, Shape
<1>5. \A m \in Namespace : applied'[m] = IF m = n THEN loaded[n] ELSE applied[m]
  BY <1>1 DEF Wellformed, Shape
<1>6. WorkOk'
  <2>1. ReApply(loaded[n][1]) \in Seq(Settings(loaded[n][1]))
    BY <1>3, ReApplyAsks
  <2>2. Ordered(ReApply(loaded[n][1]))
    <3>1. \A i \in DOMAIN ReApply(loaded[n][1]) : ReApply(loaded[n][1])[i] \in Settings(loaded[n][1])
      BY <2>1, LenProperties
    <3> QED BY <3>1, SettingsAndMakings, SettingsOrdered
  <2>3. n # None
    BY ProvisioningAssumption DEF None
  <2>4. DOMAIN work' = {"on", "todo"} /\ work'.on = n /\ work'.todo = ReApply(loaded[n][1])
    BY <1>1
  <2>5. status'[n] = "active" /\ built'[n] # <<>> /\ applied'[n] = loaded[n]
    BY <1>1, <1>2, <1>5
  <2> QED BY <1>2, <2>1, <2>2, <2>3, <2>4, <2>5 DEF WorkOk
<1>7. CallOk'
  <2>1. CallOk /\ UNCHANGED <<call, cleaning, loaded, status, built, mounted>>
    BY <1>1 DEF Wellformed
  <2> QED BY <1>1, <1>2, <1>5, <2>1 DEF CallOk
<1> QED BY <1>4, <1>6, <1>7 DEF Wellformed

(* The request under way: of what kind, and what is left after it.         *)
LEMMA AtWork ==
  ASSUME Wellformed, work.todo # <<>>
  PROVE  /\ work.on \in Namespace /\ work.on # None
         /\ built[work.on] # <<>> /\ applied[work.on] # <<>>
         /\ Regular(built[work.on][1]) /\ Regular(applied[work.on][1])
         /\ Head(work.todo) \in Settings(applied[work.on][1]) \cup Makings(built[work.on][1])
         /\ Head(work.todo) \in Makings(built[work.on][1]) => applied[work.on] = built[work.on]
         /\ ToSet(work.todo) = {Head(work.todo)} \cup ToSet(Rest)
         /\ Ordered(Rest)
         /\ IsSetting(Head(work.todo)) => \A r \in ToSet(work.todo) : IsSetting(r)
         /\ \/ Rest \in Seq(Settings(applied[work.on][1]))
            \/ /\ applied[work.on] = built[work.on]
               /\ Rest \in Seq(Settings(built[work.on][1]) \cup Makings(built[work.on][1]))
<1> DEFINE a == applied[work.on][1]
           b == built[work.on][1]
<1>1. work.on # None
  BY DEF Wellformed, WorkOk, Idle
<1>2. /\ work.on \in Namespace /\ built[work.on] # <<>> /\ applied[work.on] # <<>> /\ Ordered(work.todo)
      /\ \/ work.todo \in Seq(Settings(a))
         \/ applied[work.on] = built[work.on] /\ work.todo \in Seq(Settings(b) \cup Makings(b))
  BY <1>1 DEF Wellformed, WorkOk
<1>3. Regular(a) /\ Regular(b)
  BY <1>2, EntriesAreSound DEF Wellformed
<1> HIDE DEF a, b
<1>4. ASSUME NEW S, work.todo \in Seq(S)
      PROVE  /\ Head(work.todo) \in S /\ Rest \in Seq(S)
             /\ ToSet(work.todo) = {Head(work.todo)} \cup ToSet(Rest)
             /\ Ordered(Rest) /\ (IsSetting(Head(work.todo)) => \A r \in ToSet(work.todo) : IsSetting(r))
  BY <1>2, <1>4, Dropped, TailOrdered DEF Rest
<1>5. CASE work.todo \in Seq(Settings(a))
  <2>1. Head(work.todo) \notin Makings(b)
    BY <1>4, <1>5, SettingsAndMakings
  <2> QED BY <1>1, <1>2, <1>3, <1>4, <1>5, <2>1 DEF a, b
<1>6. CASE applied[work.on] = built[work.on] /\ work.todo \in Seq(Settings(b) \cup Makings(b))
  <2>1. a = b
    BY <1>6 DEF a, b
  <2> QED BY <1>1, <1>2, <1>3, <1>4, <1>6, <2>1 DEF a, b
<1> QED BY <1>2, <1>5, <1>6

(* What follows a request goes before what is left.                        *)
LEMMA FollowedBy ==
  ASSUME Wellformed, work.todo # <<>>
  PROVE  LET after == Follow(Head(work.todo), applied[work.on][1]) \o Rest IN
         /\ Ordered(after) /\ ToSet(after) = ToSet(Follow(Head(work.todo), applied[work.on][1])) \cup ToSet(Rest)
         /\ \/ after \in Seq(Settings(applied[work.on][1]))
            \/ /\ applied[work.on] = built[work.on]
               /\ after \in Seq(Settings(built[work.on][1]) \cup Makings(built[work.on][1]))
<1> DEFINE r == Head(work.todo)
           a == applied[work.on][1]
           b == built[work.on][1]
           more == Follow(r, a)
           after == more \o Rest
           all == Settings(b) \cup Makings(b)
<1>1. /\ r \in Settings(a) \cup Makings(b) /\ Ordered(Rest) /\ Regular(a)
      /\ r \in Makings(b) => applied[work.on] = built[work.on] /\ a = b
      /\ \/ Rest \in Seq(Settings(a))
         \/ applied[work.on] = built[work.on] /\ a = b /\ Rest \in Seq(all)
  BY AtWork
<1>2. CASE IsSetting(r)
  <2>1. more = <<>>
    BY <1>1, <1>2, FollowAsks
  <2>2. ToSet(more) = {}
    BY <2>1 DEF ToSet
  <2> HIDE DEF r, a, b, more, all
  <2>3. after = Rest
    BY <1>1, <2>1, ConcatEmptySeq
  <2> HIDE DEF after
  <2>4. /\ Ordered(after) /\ ToSet(after) = ToSet(more) \cup ToSet(Rest)
        /\ \/ after \in Seq(Settings(a))
           \/ applied[work.on] = built[work.on] /\ after \in Seq(all)
    BY <1>1, <2>2, <2>3
  <2> QED BY <2>4 DEF r, a, b, more, all, after
<1>3. CASE ~IsSetting(r)
  <2>1. r \in Makings(b) /\ applied[work.on] = built[work.on] /\ a = b
    BY <1>1, <1>3, SettingsAndMakings
  <2>2. more \in Seq(Makings(b))
    BY <1>1, <2>1, FollowAsks
  <2>3. \A q \in ToSet(more) : ~IsSetting(q)
    <3>1. \A i \in DOMAIN more : more[i] \in Makings(b)
      BY <2>2, LenProperties
    <3> QED BY <3>1, SettingsAndMakings DEF ToSet
  <2> HIDE DEF r, a, b, more
  <2>4. Rest \in Seq(all)
    BY <1>1, <2>1, SeqMonotonic DEF all
  <2>5. more \in Seq(all)
    BY <2>2, SeqMonotonic DEF all
  <2> HIDE DEF all
  <2>6. after \in Seq(all) /\ ToSet(after) = ToSet(more) \cup ToSet(Rest)
    BY <2>4, <2>5, Concatenated
  <2>7. Ordered(after)
    BY <1>1, <2>3, <2>4, <2>5, ConcatOrdered
  <2> QED BY <2>1, <2>6, <2>7 DEF r, a, b, more, all, after
<1> QED BY <1>2, <1>3

(* Work goes on with what is left.                                         *)
LEMMA WorkGoesOn ==
  ASSUME Wellformed, work.todo # <<>>, UNCHANGED <<status, built, applied>>,
         work' = [work EXCEPT !.todo = Rest]
           \/ work' = [work EXCEPT !.todo = Follow(Head(work.todo), applied[work.on][1]) \o Rest]
  PROVE  WorkOk' /\ work'.on = work.on
<1>1. DOMAIN work = {"on", "todo"} /\ work.on # None /\ status[work.on] \in {"creating", "active"}
  BY AtWork DEF Wellformed, WorkOk
<1>2. ASSUME NEW s, work' = [work EXCEPT !.todo = s], Ordered(s),
             \/ s \in Seq(Settings(applied[work.on][1]))
             \/ /\ applied[work.on] = built[work.on]
                /\ s \in Seq(Settings(built[work.on][1]) \cup Makings(built[work.on][1]))
      PROVE  WorkOk' /\ work'.on = work.on
  <2>1. DOMAIN work' = {"on", "todo"} /\ work'.on = work.on /\ work'.todo = s
    BY <1>1, <1>2
  <2>2. work.on \in Namespace /\ built[work.on] # <<>> /\ applied[work.on] # <<>>
    BY AtWork
  <2> QED BY <1>1, <1>2, <2>1, <2>2 DEF WorkOk
<1> QED BY <1>2, AtWork, FollowedBy

(* A request that is refused or fails is dropped.                          *)
LEMMA RequestMissed ==
  ASSUME Wellformed, FilesOk', Refused \/ Fault
  PROVE  Wellformed'
<1>1. /\ work.todo # <<>> /\ work' = [work EXCEPT !.todo = Rest]
      /\ UNCHANGED <<file, loaded, status, built, applied, mounted, links, routes, servers,
                     call, held, cleaning>>
      /\ spoiled' \in {spoiled, spoiled \cup {work.on}}
  BY DEF Refused, Fault
<1>2. WorkOk' /\ work.on \in Namespace /\ work # Idle
  BY <1>1, WorkGoesOn, AtWork DEF Idle
<1>3. Shape' /\ LinksOk'
  BY <1>1, <1>2, LinksFrame DEF Wellformed, Shape
<1>4. CallOk'
  <2>1. CallOk /\ UNCHANGED <<call, cleaning, loaded, status, built, applied, mounted>> /\ cleaning = Running
    BY <1>1, <1>2 DEF Wellformed, CallOk
  <2> QED BY <2>1 DEF CallOk
<1> QED BY <1>2, <1>3, <1>4 DEF Wellformed

(* Requests that are made are of the known kinds, and a pair has two names. *)
LEMMA KnownRequests ==
  ASSUME Wellformed, work.todo # <<>>
  PROVE  LET r == Head(work.todo) IN
         /\ r.do \in {"pair", "wireguard", "create", "route", "dns", "move", "moveVeth",
                      "address", "up", "hostUp", "configure"}
         /\ r.do = "pair" => r.with.peer[1] # r.name /\ r.with.peer # <<>>
<1> DEFINE r == Head(work.todo)
           b == built[work.on][1]
<1>1. r \in Settings(applied[work.on][1]) \cup Makings(b) /\ Regular(b)
  BY AtWork
<1>2. CASE r \in Settings(applied[work.on][1])
  BY <1>2, SettingsAndMakings DEF IsSetting
<1>3. CASE r \in Makings(b)
  <2> HIDE DEF r, b
  <2>1. r.do \in {"pair", "wireguard", "create", "move", "moveVeth", "address", "up", "hostUp", "configure"}
    BY <1>3, Kinds, DoFields
  <2>2. ASSUME r.do = "pair" PROVE r.with.peer[1] # r.name /\ r.with.peer # <<>>
    <3>1. PICK v \in ToSet(b.vifs) : r.name = v.name /\ r.with = v /\ IsVeth(v)
      BY <1>3, <2>2, Kinds, DoFields
    <3>2. v.peer # <<>>
      BY <1>1, <3>1 DEF Regular, IsVeth
    <3>3. v.name # v.peer[1]
      BY <1>1, <3>1, <3>2 DEF Regular, NamesApart
    <3> QED BY <3>1, <3>2, <3>3
  <2> QED BY <2>1, <2>2 DEF r, b
<1> QED BY <1>1, <1>2, <1>3

(* A request that succeeds puts what follows from it at the head of what   *)
(* is left.                                                                *)
LEMMA SucceedOk ==
  ASSUME Wellformed, FilesOk', Succeed
  PROVE  Wellformed'
<1>1. /\ work.todo # <<>> /\ Can(work.on, Head(work.todo)) /\ Effect(work.on, Head(work.todo))
      /\ work' = [work EXCEPT !.todo = Follow(Head(work.todo), applied[work.on][1]) \o Rest]
      /\ UNCHANGED <<file, loaded, status, built, applied, mounted, call, held, cleaning, spent, spoiled>>
      /\ routes' \in {routes, [routes EXCEPT ![work.on] = @ \cup {Head(work.todo).with}]}
      /\ servers' \in {servers, [servers EXCEPT ![work.on] = Head(work.todo).with.servers]}
  BY DEF Succeed
<1>2. WorkOk' /\ work.on \in Namespace /\ work # Idle
  <2>1. WorkOk'
    BY <1>1, WorkGoesOn
  <2>2. work.on \in Namespace /\ work.on # None
    BY <1>1, AtWork
  <2> QED BY <2>1, <2>2 DEF Idle
<1>3. Shape'
  <2>1. DOMAIN routes' = Namespace /\ DOMAIN servers' = Namespace
    BY <1>1 DEF Wellformed, Shape
  <2> QED BY <1>1, <2>1 DEF Wellformed, Shape
<1>4. LinksOk'
  <2>1. LinksOk
    BY DEF Wellformed
  <2> QED BY <1>1, <1>2, <2>1, KnownRequests, EffectOk
<1>5. CallOk'
  <2>1. CallOk /\ UNCHANGED <<call, cleaning, loaded, status, built, applied, mounted>> /\ cleaning = Running
    BY <1>1, <1>2 DEF Wellformed, CallOk
  <2> QED BY <2>1 DEF CallOk
<1> QED BY <1>2, <1>3, <1>4, <1>5 DEF Wellformed

(* A namespace that a process lives in takes its links along.              *)
Detach(all, n) == {IF l.at = n THEN [l EXCEPT !.at = "detached"] ELSE l : l \in all}

(* A namespace that loses its name keeps its links.                        *)
LEMMA DetachIs ==
  ASSUME NEW all, NEW places, NEW here, LinksIn(all, places, here), NEW n
  PROVE  \E f : /\ DOMAIN f = all /\ Detach(all, n) = {f[l] : l \in all}
                /\ \A l \in all :
                     /\ DOMAIN f[l] = DOMAIN l /\ f[l].name = l.name /\ f[l].made = l.made /\ f[l].vif = l.vif
                     /\ f[l].at = IF l.at = n THEN "detached" ELSE l.at
                     /\ l.at # n => f[l] = l
<1> DEFINE f == [l \in all |-> IF l.at = n THEN [l EXCEPT !.at = "detached"] ELSE l]
<1>1. DOMAIN f = all /\ Detach(all, n) = {f[l] : l \in all}
  BY DEF Detach
<1>2. ASSUME NEW l \in all
      PROVE  /\ DOMAIN f[l] = DOMAIN l /\ f[l].name = l.name /\ f[l].made = l.made /\ f[l].vif = l.vif
             /\ f[l].at = IF l.at = n THEN "detached" ELSE l.at
             /\ l.at # n => f[l] = l
  <2>1. IsLink(l, places)
    BY DEF LinksIn
  <2> QED BY <2>1 DEF IsLink
<1> HIDE DEF f
<1> QED BY <1>1, <1>2

(* Names stay unique when a namespace is unmounted, in use or not.         *)
LEMMA UnmountOk ==
  ASSUME NEW n \in Namespace, NEW all, LinksIn(all, mounted, held), Unmount(n, all),
         "detached" \notin held, mounted \subseteq Namespace
  PROVE  LinksOk'
<1>s. n # "detached" /\ n # "host"
  BY ProvisioningAssumption
<1>0. LinksIn(links', mounted', held') => LinksOk'
  BY DEF LinksOk, LinksIn, IsLink
<1>1. CASE n \in held
  <2>1. mounted' = mounted \ {n} /\ links' = Detach(all, n) /\ "detached" \in held'
    BY <1>1 DEF Unmount, Detach
  <2>2. PICK f : /\ DOMAIN f = all /\ Detach(all, n) = {f[l] : l \in all}
                 /\ \A l \in all :
                      /\ DOMAIN f[l] = DOMAIN l /\ f[l].name = l.name /\ f[l].made = l.made /\ f[l].vif = l.vif
                      /\ f[l].at = IF l.at = n THEN "detached" ELSE l.at
                      /\ l.at # n => f[l] = l
    BY DetachIs
  <2>3. \A l \in all : /\ DOMAIN f[l] = {"at", "name", "made", "vif", "up", "addresses", "key", "era"}
                       /\ f[l].at \in (mounted \ {n}) \cup {"host", "detached"} /\ f[l].name \in {l.name, <<>>}
                       /\ f[l].made = l.made /\ f[l].vif = l.vif
    BY <2>2 DEF LinksIn, IsLink
  <2>4. \A k, l \in all : f[k].at = f[l].at /\ f[k].name = f[l].name /\ f[k].name # <<>> => k = l
    BY <2>2 DEF LinksIn
  <2>5. LinksIn({f[l] : l \in all}, mounted \ {n}, {"detached"})
    BY <2>2, <2>3, <2>4, Remapped
  <2>6. LinksIn(links', mounted', {"detached"})
    BY <2>1, <2>2, <2>5
  <2>7. LinksIn(links', mounted', held')
    BY <2>1, <2>6 DEF LinksIn
  <2> QED BY <1>0, <2>7
<1>2. CASE n \notin held
  <2>1. mounted' = mounted \ {n} /\ links' = Destroyed(all, n) /\ held' = held
    BY <1>2 DEF Unmount
  <2>2. CASE n \in mounted
    <3>1. LinksIn(Destroyed(all, n), mounted \ {n}, held)
      BY <1>s, <2>2, DestroyedOk
    <3> QED BY <1>0, <2>1, <3>1
  <2>3. CASE n \notin mounted
    <3>1. LinksIn(all, mounted \cup {n}, held)
      BY DEF LinksIn, IsLink
    <3>2. (mounted \cup {n}) \ {n} \subseteq mounted \ {n} /\ n \in mounted \cup {n}
      OBVIOUS
    <3>3. LinksIn(Destroyed(all, n), mounted \ {n}, held)
      BY <1>s, <3>1, <3>2, DestroyedOk
    <3> QED BY <1>0, <2>1, <3>3
  <2> QED BY <2>2, <2>3
<1> QED BY <1>1, <1>2

(* The deletion outside the lock.                                          *)
LEMMA DeleteNetnsOk ==
  ASSUME Wellformed, FilesOk', DeleteNetns
  PROVE  Wellformed'
<1>s. None \notin Namespace /\ "detached" \notin Namespace
  BY ProvisioningAssumption DEF None
<1>1. /\ call.stage = "found" /\ "detached" \notin held
      /\ UNCHANGED <<file, loaded, status, built, applied, servers, work, cleaning, spent>>
      /\ spoiled' = spoiled \cup ({call.on} \cap (held \cup {work.on}))
  BY DEF DeleteNetns
<1>2. call.on \in Namespace /\ cleaning = Running
  BY <1>1 DEF Wellformed, CallOk, NoCall, None
<1>3. WorkOk'
  BY <1>1, WorkFrame DEF Wellformed
<1>4. CASE call.on \in mounted
  <2>1. Unmount(call.on, links) /\ call' = [call EXCEPT !.stage = "unmounted"]
    BY <1>4 DEF DeleteNetns
  <2>2. /\ mounted' = mounted \ {call.on} /\ routes' = [routes EXCEPT ![call.on] = {}]
        /\ held' \in {held, (held \ {call.on}) \cup {"detached"}}
        /\ call.on \in held => held' = (held \ {call.on}) \cup {"detached"}
    BY <2>1 DEF Unmount
  <2>3. LinksOk'
    BY <1>1, <1>2, <2>1, UnmountOk DEF Wellformed, LinksOk, Shape
  <2>4. Shape'
    BY <1>1, <1>2, <2>2 DEF Wellformed, Shape
  <2>5. CallOk'
    <3>1. DOMAIN call' = {"on", "stage"} /\ call'.on = call.on /\ call'.stage = "unmounted"
      BY <2>1 DEF Wellformed, CallOk
    <3>2. CallOk /\ UNCHANGED <<loaded, status, built, applied>> /\ cleaning' = Running
      BY <1>1, <1>2 DEF Wellformed
    <3> QED BY <1>s, <1>1, <1>2, <1>4, <2>2, <3>1, <3>2 DEF CallOk, None
  <2> QED BY <1>3, <2>3, <2>4, <2>5 DEF Wellformed
<1>5. CASE call.on \notin mounted
  <2>1. call' = NoCall /\ UNCHANGED <<mounted, routes, links, held>>
    BY <1>5 DEF DeleteNetns
  <2>2. LinksOk'
    BY <2>1, LinksFrame DEF Wellformed
  <2>3. Shape'
    BY <1>1, <1>2, <2>1 DEF Wellformed, Shape
  <2>4. CallOk'
    <3>1. DOMAIN call' = {"on", "stage"} /\ call'.on = None /\ call'.stage = None
      BY <2>1 DEF NoCall
    <3>2. CallOk /\ UNCHANGED <<loaded, status, built, applied, mounted>> /\ cleaning' = Running
      BY <1>1, <1>2, <2>1 DEF Wellformed
    <3> QED BY <1>s, <1>1, <1>2, <1>5, <3>1, <3>2 DEF CallOk, None
  <2> QED BY <1>3, <2>2, <2>3, <2>4 DEF Wellformed
<1> QED BY <1>4, <1>5

(* The interfaces a cleanup moves back.                                    *)
Brought(f, n) ==
  /\ DOMAIN f = links /\ MovedBack(n) = {f[l] : l \in links}
  /\ \A l \in links :
       /\ DOMAIN f[l] = DOMAIN l /\ f[l].name = l.name /\ f[l].made = l.made /\ f[l].vif = l.vif
       /\ f[l].at = IF l.at = n /\ l.name \in ToSet(loaded[n][1].moves) /\ ~LinkAt("host", l.name)
                    THEN "host" ELSE l.at

(* The cleanup moves interfaces of the configuration back, as a function   *)
(* on links.                                                               *)
LEMMA MovedBackIs ==
  ASSUME LinksOk, NEW n
  PROVE  \E f : Brought(f, n)
<1> DEFINE Back(l) == l.at = n /\ l.name \in ToSet(loaded[n][1].moves) /\ ~LinkAt("host", l.name)
           f == [l \in links |-> IF Back(l) THEN [l EXCEPT !.at = "host", !.up = FALSE, !.addresses = {}] ELSE l]
<1>1. DOMAIN f = links /\ MovedBack(n) = {f[l] : l \in links}
  BY DEF MovedBack
<1> HIDE DEF Back
<1>2. ASSUME NEW l \in links
      PROVE  /\ DOMAIN f[l] = DOMAIN l /\ f[l].name = l.name /\ f[l].made = l.made /\ f[l].vif = l.vif
             /\ f[l].at = IF Back(l) THEN "host" ELSE l.at
  <2>1. IsLink(l, mounted)
    BY DEF LinksOk, LinksIn
  <2> QED BY <2>1 DEF IsLink
<1> HIDE DEF f
<1> QED BY <1>1, <1>2 DEF Back, Brought

(* It moves none to a name that is taken.                                  *)
LEMMA MovedBackOk ==
  ASSUME LinksOk, NEW n
  PROVE  LinksIn(MovedBack(n), mounted, held)
<1>0. PICK f : Brought(f, n)
  BY MovedBackIs
<1>1. /\ DOMAIN f = links /\ MovedBack(n) = {f[l] : l \in links}
      /\ \A l \in links :
           /\ DOMAIN f[l] = DOMAIN l /\ f[l].name = l.name /\ f[l].made = l.made /\ f[l].vif = l.vif
           /\ f[l].at = IF l.at = n /\ l.name \in ToSet(loaded[n][1].moves) /\ ~LinkAt("host", l.name)
                        THEN "host" ELSE l.at
  BY <1>0 DEF Brought
<1>2. \A l \in links : /\ DOMAIN f[l] = {"at", "name", "made", "vif", "up", "addresses", "key", "era"}
                       /\ f[l].at \in mounted \cup {"host", "detached"} /\ f[l].name \in {l.name, <<>>}
                       /\ f[l].made = l.made /\ f[l].vif = l.vif
  BY <1>1 DEF LinksOk, LinksIn, IsLink
<1>3. \A k, l \in links : f[k].at = f[l].at /\ f[k].name = f[l].name /\ f[k].name # <<>> => k = l
  BY <1>1 DEF LinksOk, LinksIn, LinkAt
<1>4. "detached" \notin held => \A l \in links : f[l].at # "detached"
  BY <1>1 DEF LinksOk, LinksIn
<1>5. LinksIn({f[l] : l \in links}, mounted, held)
  BY <1>1, <1>2, <1>3, <1>4, Remapped DEF LinksOk
<1> QED BY <1>1, <1>5

(* The cleanup of one namespace.                                           *)
LEMMA CleanUpOk ==
  ASSUME Wellformed, FilesOk', NEW n \in Namespace, CleanUp(n)
  PROVE  Wellformed'
<1>s. None \notin Namespace /\ "detached" \notin Namespace
  BY ProvisioningAssumption DEF None
<1>1. /\ n \in cleaning /\ "detached" \notin held /\ cleaning' = cleaning \ {n}
      /\ UNCHANGED <<file, loaded, status, built, applied, servers, work, call, spent, spoiled>>
  BY DEF CleanUp
<1>2. /\ cleaning # Running /\ cleaning' # Running /\ cleaning' \subseteq Namespace
      /\ work = Idle /\ call = NoCall
  BY <1>1, <1>s DEF Wellformed, Shape, CallOk, Running
<1>3. WorkOk'
  BY <1>1, WorkFrame DEF Wellformed
<1>4. /\ mounted' \in {mounted, mounted \ {n}} /\ routes' \in {routes, [routes EXCEPT ![n] = {}]}
      /\ held' \in {held, (held \ {n}) \cup {"detached"}}
      /\ mounted' # mounted /\ n \in held => held' = (held \ {n}) \cup {"detached"}
  BY DEF CleanUp, Unmount
<1>5. LinksOk'
  <2>1. CASE n \in mounted
    <3>1. Unmount(n, MovedBack(n))
      BY <2>1 DEF CleanUp
    <3> QED BY <1>1, <3>1, MovedBackOk, UnmountOk DEF Wellformed, Shape
  <2>2. CASE n \notin mounted
    <3>1. UNCHANGED <<mounted, links, held>>
      BY <2>2 DEF CleanUp
    <3> QED BY <3>1, LinksFrame DEF Wellformed
  <2> QED BY <2>1, <2>2
<1>6. Shape'
  BY <1>1, <1>2, <1>4 DEF Wellformed, Shape
<1>7. CallOk'
  <2>1. CallOk /\ UNCHANGED <<call, work, loaded, status, built, applied>> /\ mounted' \subseteq mounted
    BY <1>1, <1>4 DEF Wellformed
  <2>2. call.stage # "unmounted"
    BY <1>2 DEF NoCall, None
  <2> QED BY <1>2, <2>1, <2>2 DEF CallOk
<1> QED BY <1>3, <1>5, <1>6, <1>7 DEF Wellformed

(* The last process leaves a namespace.                                    *)
LEMMA LeaveOk ==
  ASSUME Wellformed, FilesOk', NEW place \in Namespace \cup {"detached"}, Leave(place)
  PROVE  Wellformed'
<1>1. /\ place \in held /\ held' = held \ {place}
      /\ links' = IF place = "detached" THEN Destroyed(links, place) ELSE links
      /\ UNCHANGED <<file, loaded, status, built, applied, mounted, routes, servers, work,
                     call, cleaning, spent, spoiled>>
  BY DEF Leave
<1>2. Shape' /\ WorkOk' /\ CallOk'
  BY <1>1, WorkFrame, CallFrame DEF Wellformed, Shape
<1>0. LinksIn(links', mounted, held') => LinksOk'
  BY <1>1 DEF LinksOk, LinksIn, IsLink
<1>3. CASE place = "detached"
  <2>1. LinksIn(Destroyed(links, place), mounted, held \ {place})
    BY <1>3, DestroyedOk DEF Wellformed, LinksOk
  <2> QED BY <1>0, <1>1, <1>2, <1>3, <2>1 DEF Wellformed
<1>4. CASE place # "detached"
  <2>1. LinksIn(links, mounted, held \ {place})
    BY <1>4 DEF Wellformed, LinksOk, LinksIn
  <2> QED BY <1>0, <1>1, <1>2, <1>4, <2>1 DEF Wellformed
<1> QED BY <1>3, <1>4

(* Every step keeps the invariant.                                         *)
LEMMA WellformedStep ==
  ASSUME Wellformed, [Next]_vars
  PROVE  Wellformed'
<1>1. FilesOk'
  BY FilesOkStep DEF Wellformed, Shape
<1>2. CASE UNCHANGED vars
  <2>1. Shape' /\ LinksOk' /\ WorkOk' /\ CallOk'
    BY <1>1, <1>2, LinksFrame, WorkFrame, CallFrame DEF vars, Wellformed, Shape
  <2> QED BY <2>1 DEF Wellformed
<1> QED BY <1>1, <1>2, LoadOk, AroundOk, EndWorkOk, RetryOk, DeleteOk, BeginCreationOk, BeginUpdateOk,
           RequestMissed, SucceedOk, DeleteNetnsOk, CleanUpOk, LeaveOk DEF Next

(* The invariant, at all times.                                            *)
LEMMA WellformedHolds == Spec => []Wellformed
BY WellformedInit, WellformedStep, PTL DEF Spec

(* The state stays of the types stated, and where a link is, no other has  *)
(* its name (create_new_namespace, update_existing_namespace,              *)
(* delete_namespace_by_name, graceful_shutdown).                           *)
THEOREM TypeCorrect == Spec => []TypeOK
<1>1. Wellformed => TypeOK
  <2> SUFFICES ASSUME Wellformed PROVE TypeOK
    OBVIOUS
  <2>1. \A n \in Namespace : Len(loaded[n]) <= 1
    <3> SUFFICES ASSUME NEW n \in Namespace PROVE Len(loaded[n]) <= 1
      OBVIOUS
    <3>1. loaded[n] \in Loadable
      BY DEF Wellformed, Shape, FilesOk
    <3>2. loaded[n] = <<>> \/ \E c : loaded[n] = <<c>>
      BY <3>1 DEF Loadable
    <3>3. Len(<<>>) = 0 /\ \A c : Len(<<c>>) = 1
      OBVIOUS
    <3>4. Len(loaded[n]) \in {0, 1}
      BY <3>2, <3>3
    <3>5. \A k \in {0, 1} : k <= 1
      OBVIOUS
    <3> QED BY <3>4, <3>5
  <2>2. \A n \in Namespace : file[n] \in {files[n] : files \in Library} \cup Revision[n]
    BY DEF Wellformed, Shape, FilesOk
  <2>3. \A l \in links : l.at \in mounted \cup {"host", "detached"} /\ l.made \in Namespace \cup {"host"}
    BY DEF Wellformed, LinksOk, LinksIn, IsLink
  <2>4. \A k, l \in links : k.at = l.at /\ k.name = l.name /\ k.name # <<>> => k = l
    BY DEF Wellformed, LinksOk, LinksIn
  <2>5. /\ work.on \in Namespace \cup {None}
        /\ call.on \in Namespace \cup {None} /\ call.stage \in {None, "found", "unmounted"}
    BY DEF Wellformed, WorkOk, CallOk
  <2>6. /\ status \in [Namespace -> {None, "creating", "active", "failed"}]
        /\ mounted \subseteq Namespace /\ held \subseteq Namespace \cup {"detached"}
        /\ (cleaning = Running \/ cleaning \subseteq Namespace) /\ spoiled \subseteq Namespace
    BY DEF Wellformed, Shape
  <2> QED BY <2>1, <2>2, <2>3, <2>4, <2>5, <2>6 DEF TypeOK
<1> QED BY <1>1, WellformedHolds, PTL

-----------------------------------------------------------------------------
(* What happens to the links elsewhere when a namespace goes.              *)

(* A namespace that ends takes no link from elsewhere but other ends of    *)
(* its pairs.                                                              *)
LEMMA OthersStay ==
  ASSUME NEW all, NEW place, NEW l \in all, l.at # place,
         l.made = "host" \/ ~\E k \in all : k.at = place /\ k.made # "host" /\ Source(k) = Source(l)
  PROVE  l \in Destroyed(all, place)
<1>1. PICK f : Survive(f, all, place)
  BY DestroyedIs
<1>2. l \in Kept(all, place)
  <2>1. Source(l) \in Dying(all, place) => \E k \in all : k.at = place /\ k.made # "host" /\ Source(k) = Source(l)
    BY DEF Dying
  <2> QED BY <2>1 DEF Kept
<1>3. f[l] = l /\ Destroyed(all, place) = {f[k] : k \in Kept(all, place)}
  BY <1>1, <1>2 DEF Survive
<1> QED BY <1>2, <1>3

(* Nor does one that is unmounted.                                         *)
LEMMA OthersStayMounted ==
  ASSUME NEW n, NEW all, NEW places, NEW here, LinksIn(all, places, here), Unmount(n, all),
         NEW l \in all, l.at # n,
         l.made = "host" \/ ~\E k \in all : k.at = n /\ k.made # "host" /\ Source(k) = Source(l)
  PROVE  l \in links'
<1>1. CASE n \in held
  <2>1. links' = Detach(all, n)
    BY <1>1 DEF Unmount, Detach
  <2>2. PICK f : /\ DOMAIN f = all /\ Detach(all, n) = {f[k] : k \in all}
                 /\ \A k \in all : k.at # n => f[k] = k
    BY DetachIs
  <2> QED BY <2>1, <2>2
<1>2. CASE n \notin held
  <2>1. links' = Destroyed(all, n)
    BY <1>2 DEF Unmount
  <2> QED BY <2>1, OthersStay
<1> QED BY <1>1, <1>2

(* A request moves no link out of a namespace and makes none go.           *)
LEMMA RequestsTakeNothing ==
  ASSUME Wellformed, Succeed, NEW l \in links, l.at # "host"
  PROVE  \E k \in links' : k.at = l.at /\ k.name = l.name
<1> DEFINE n == work.on
           r == Head(work.todo)
<1>1. work.todo # <<>> /\ Effect(n, r)
  BY DEF Succeed
<1>2. r.do \in {"pair", "wireguard", "create", "route", "dns", "move", "moveVeth",
                "address", "up", "hostUp", "configure"}
  BY <1>1, KnownRequests
<1> HIDE DEF n, r
<1>3. CASE r.do \in {"pair", "wireguard", "create", "route", "dns"}
  BY <1>1, <1>3, EffectMakes
<1>4. CASE r.do \notin {"pair", "wireguard", "create", "route", "dns"}
  <2>1. PICK f : DOMAIN f = links /\ links' = {f[k] : k \in links} /\ Alters(f, n, r)
    <3>1. CASE Moves(r)
      BY <1>1, <3>1, EffectMoves DEF Wellformed
    <3>2. CASE ~Moves(r)
      BY <1>1, <1>2, <1>4, <3>2, EffectChanges DEF Moves, Wellformed
    <3> QED BY <3>1, <3>2
  <2>2. f[l].at = l.at /\ f[l].name = l.name
    BY <2>1 DEF Alters, Hit
  <2> QED BY <2>1, <2>2
<1> QED BY <1>3, <1>4

(* No configuration takes a link that a namespace has: while the daemon    *)
(* runs, a link leaves only with its namespace or with the namespace that  *)
(* its other end is in (move_interface_to_namespace, delete_netns).        *)
THEOREM NothingTaken == Spec => NoneTaken
<1>1. Wellformed /\ [Next]_vars =>
        [cleaning = Running =>
           \A l \in links : l.at \in mounted /\ l.at \in mounted' /\ ~TornApart(l) =>
             \E k \in links' : k.at = l.at /\ k.name = l.name]_vars
  <2> SUFFICES ASSUME Wellformed, Next, cleaning = Running, NEW l \in links,
                      l.at \in mounted, l.at \in mounted', ~TornApart(l)
               PROVE  \E k \in links' : k.at = l.at /\ k.name = l.name
    OBVIOUS
  <2>s. l.at # "host" /\ l.at # "detached" /\ None \notin Namespace
    BY ProvisioningAssumption DEF Wellformed, Shape, None
  <2>0. CASE links' = links
    BY <2>0
  <2>1. CASE Succeed
    BY <2>1, <2>s, RequestsTakeNothing
  <2>2. ASSUME NEW place, place # l.at, place # "host", l.made # "host"
        PROVE  ~\E k \in links : k.at = place /\ k.made # "host" /\ Source(k) = Source(l)
    BY <2>2 DEF TornApart
  <2>3. CASE DeleteNetns /\ call.on \in mounted
    <3>1. Unmount(call.on, links)
      BY <2>3 DEF DeleteNetns
    <3>2. mounted' = mounted \ {call.on}
      BY <3>1 DEF Unmount
    <3>3. call.on # l.at /\ call.on # "host"
      BY <2>3, <3>2, ProvisioningAssumption DEF Wellformed, Shape
    <3>4. l \in links'
      BY <2>2, <3>1, <3>3, OthersStayMounted DEF Wellformed, LinksOk
    <3> QED BY <3>4
  <2>4. CASE DeleteNetns /\ call.on \notin mounted
    BY <2>0, <2>4 DEF DeleteNetns
  <2>5. ASSUME NEW place, Leave(place) PROVE \E k \in links' : k.at = l.at /\ k.name = l.name
    <3>1. CASE place = "detached"
      <4>1. links' = Destroyed(links, place)
        BY <2>5, <3>1 DEF Leave
      <4>2. l \in links'
        BY <2>2, <2>s, <3>1, <4>1, OthersStay
      <4> QED BY <4>2
    <3>2. CASE place # "detached"
      BY <2>0, <2>5, <3>2 DEF Leave
    <3> QED BY <3>1, <3>2
  <2>6. ASSUME NEW n \in Namespace, CleanUp(n) PROVE FALSE
    BY <2>6, <2>s DEF CleanUp, Running
  <2>7. ASSUME NEW n \in Namespace, Load(n) \/ BeginCreation(n) \/ BeginUpdate(n) \/ Retry(n)
                                      \/ BeginDelete(n) \/ Edit(n) \/ Enter(n)
        PROVE  links' = links
    BY <2>7 DEF Load, BeginCreation, BeginUpdate, Retry, BeginDelete, Edit, Enter
  <2>8. CASE Refused \/ Fault \/ EndWork \/ EndDelete \/ Shutdown
    BY <2>0, <2>8 DEF Refused, Fault, EndWork, EndDelete, Shutdown
  <2> QED BY <2>0, <2>1, <2>3, <2>4, <2>5, <2>6, <2>7, <2>8 DEF Next
<1> QED BY <1>1, WellformedHolds, PTL DEF Spec, NoneTaken

(* The cleanup of a shutdown leaves no interface of the configuration in a *)
(* namespace that a process keeps alive, unless the host has one of its    *)
(* name (graceful_shutdown, move_interface_from_namespace_to_default).     *)
THEOREM InterfacesReturn == Spec => CleanupReturns
<1>1. Wellformed /\ Wellformed' /\ [Next]_vars =>
        [\A l \in links :
           l.made = "host" /\ l.at \in cleaning /\ l.name \in ToSet(loaded[l.at][1].moves)
             /\ ~LinkAt("host", l.name)
           => ~\E k \in links' : k.at = "detached" /\ k.made = "host" /\ k.vif = l.vif]_vars
  <2> SUFFICES ASSUME Wellformed, Wellformed', Next, NEW l \in links,
                      l.made = "host", l.at \in cleaning, l.name \in ToSet(loaded[l.at][1].moves),
                      ~LinkAt("host", l.name)
               PROVE  \E k \in links' : k.at # "detached" /\ k.made = "host" /\ k.vif = l.vif
    BY DEF Wellformed, LinksOk, LinksIn
  <2>1. l.at # "host" /\ l.at # "detached" /\ None \notin Namespace /\ l.at \in Namespace /\ cleaning # Running
    <3>1. IsLink(l, mounted) /\ mounted \subseteq Namespace
      BY DEF Wellformed, LinksOk, LinksIn, Shape
    <3>2. Namespace \cap {"host", "detached", "none"} = {}
      BY ProvisioningAssumption
    <3>3. cleaning # Running
      BY <3>1, <3>2 DEF IsLink, Running, None
    <3>4. cleaning \subseteq Namespace
      BY <3>3 DEF Wellformed, Shape
    <3> QED BY <3>2, <3>3, <3>4 DEF None
  <2>2. work.todo = <<>> /\ call.stage # "found" /\ work = Idle
    BY <2>1 DEF Wellformed, CallOk, Idle, NoCall, None
  <2>0. CASE links' = links
    BY <2>0, <2>1
  <2>3. ASSUME NEW n \in Namespace, CleanUp(n), n \in mounted
        PROVE  \E k \in links' : k.at # "detached" /\ k.made = "host" /\ k.vif = l.vif
    <3>1. Unmount(n, MovedBack(n))
      BY <2>3 DEF CleanUp
    <3>2. PICK f : Brought(f, n)
      BY MovedBackIs DEF Wellformed
    <3>3. f[l] \in MovedBack(n) /\ f[l].made = "host" /\ f[l].vif = l.vif /\ f[l].at # n /\ f[l].at # "detached"
      <4>1. n # "host" /\ n # "detached"
        BY ProvisioningAssumption
      <4> QED BY <2>1, <3>2, <4>1 DEF Brought
    <3>4. LinksIn(MovedBack(n), mounted, held)
      BY MovedBackOk DEF Wellformed
    <3>5. f[l] \in links'
      BY <3>1, <3>3, <3>4, OthersStayMounted
    <3> QED BY <3>3, <3>5
  <2>4. ASSUME NEW n \in Namespace, CleanUp(n), n \notin mounted
        PROVE  links' = links
    BY <2>4 DEF CleanUp
  <2>5. ASSUME NEW place, Leave(place)
        PROVE  \E k \in links' : k.at # "detached" /\ k.made = "host" /\ k.vif = l.vif
    <3>1. CASE place = "detached"
      <4>1. links' = Destroyed(links, place)
        BY <2>5, <3>1 DEF Leave
      <4>2. l \in links'
        BY <2>1, <3>1, <4>1, OthersStay
      <4> QED BY <2>1, <4>2
    <3>2. CASE place # "detached"
      BY <2>0, <2>5, <3>2 DEF Leave
    <3> QED BY <3>1, <3>2
  <2>6. CASE Succeed \/ DeleteNetns
    BY <2>2, <2>6 DEF Succeed, DeleteNetns
  <2>7. ASSUME NEW n \in Namespace, Load(n) \/ BeginCreation(n) \/ BeginUpdate(n) \/ Retry(n)
                                      \/ BeginDelete(n) \/ Edit(n) \/ Enter(n)
        PROVE  links' = links
    BY <2>7 DEF Load, BeginCreation, BeginUpdate, Retry, BeginDelete, Edit, Enter
  <2>8. CASE Refused \/ Fault \/ EndWork \/ EndDelete \/ Shutdown
    BY <2>0, <2>8 DEF Refused, Fault, EndWork, EndDelete, Shutdown
  <2> QED BY <2>0, <2>3, <2>4, <2>5, <2>6, <2>7, <2>8 DEF Next
<1> QED BY <1>1, WellformedHolds, PTL DEF Spec, CleanupReturns
-----------------------------------------------------------------------------
(* Imports: the parser reads line by line what the lines say, by           *)
(* induction over the lines, and the loader leaves an import as it is.     *)

(* A function's lists up to a number, joined.                              *)
Sofar(f, m) == FlattenSeq([j \in 1 .. m |-> f[j]])

(* Nothing is joined at first.                                             *)
LEMMA SofarNone ==
  ASSUME NEW f
  PROVE  Sofar(f, 0) = <<>>
<1>1. [j \in 1 .. 0 |-> f[j]] = <<>> /\ Len(<<>>) = 0
  OBVIOUS
<1>2. FlattenSeq(<<>>) = <<>>
  BY <1>1, Zenon DEF FlattenSeq
<1> QED BY <1>1, <1>2, Zenon DEF Sofar

(* The next list comes last.                                               *)
LEMMA SofarNext ==
  ASSUME NEW P, NEW m \in Nat, NEW f, \A j \in 1 .. m + 1 : f[j] \in Seq(P)
  PROVE  Sofar(f, m) \in Seq(P) /\ Sofar(f, m + 1) = Sofar(f, m) \o f[m + 1]
<1> DEFINE s == [j \in 1 .. m |-> f[j]]
           t == [j \in 1 .. m + 1 |-> f[j]]
<1>1. s \in Seq(Seq(P)) /\ Len(s) = m /\ f[m + 1] \in Seq(P)
  OBVIOUS
<1>2. t = Append(s, f[m + 1])
  <2>1. t \in Seq(Seq(P)) /\ Len(t) = m + 1
    OBVIOUS
  <2>2. /\ Append(s, f[m + 1]) \in Seq(Seq(P)) /\ Len(Append(s, f[m + 1])) = m + 1
        /\ \A i \in 1 .. m + 1 : Append(s, f[m + 1])[i] = f[i]
    BY <1>1
  <2>3. \A i \in 1 .. m + 1 : t[i] = f[i]
    OBVIOUS
  <2> HIDE DEF s, t
  <2> QED BY <2>1, <2>2, <2>3, SeqEqual
<1> HIDE DEF s, t
<1>3. FlattenSeq(s) \in Seq(P) /\ FlattenSeq(t) = FlattenSeq(s) \o f[m + 1]
  BY <1>1, <1>2, FlattenIsText, FlattenAppend
<1> QED BY <1>3 DEF Sofar, s, t

(* Functions with the same lists are joined to the same.                   *)
LEMMA SofarSame ==
  ASSUME NEW m \in Nat, NEW f, NEW g, \A j \in 1 .. m : f[j] = g[j]
  PROVE  Sofar(f, m) = Sofar(g, m)
<1>1. [j \in 1 .. m |-> f[j]] = [j \in 1 .. m |-> g[j]]
  OBVIOUS
<1> QED BY <1>1, Zenon DEF Sofar

(* Empty lists at the end add nothing: by induction over their number.     *)
LEMMA SofarPads ==
  ASSUME NEW P, NEW n \in Nat, NEW h \in 0 .. n, NEW f, \A j \in 1 .. n : f[j] \in Seq(P),
         \A j \in h + 1 .. n : f[j] = <<>>
  PROVE  Sofar(f, n) = Sofar(f, h)
<1> DEFINE S == {k \in Nat : h + k <= n => Sofar(f, h + k) = Sofar(f, h)}
<1>1. 0 \in S
  OBVIOUS
<1>2. ASSUME NEW k \in Nat, k \in S PROVE k + 1 \in S
  <2> SUFFICES ASSUME h + (k + 1) <= n PROVE Sofar(f, h + (k + 1)) = Sofar(f, h)
    OBVIOUS
  <2>1. /\ h + k \in Nat /\ (h + k) + 1 = h + (k + 1)
        /\ \A j \in 1 .. (h + k) + 1 : j \in 1 .. n
        /\ (h + k) + 1 \in h + 1 .. n
    OBVIOUS
  <2>2. /\ Sofar(f, h + k) \in Seq(P)
        /\ Sofar(f, (h + k) + 1) = Sofar(f, h + k) \o f[(h + k) + 1]
    BY <2>1, SofarNext
  <2>3. Sofar(f, h + k) \o <<>> = Sofar(f, h + k)
    BY <2>2, ConcatEmptySeq
  <2>4. Sofar(f, h + k) = Sofar(f, h)
    BY <1>2
  <2> QED BY <2>1, <2>2, <2>3, <2>4
<1> HIDE DEF S
<1>3. n - h \in S
  BY <1>1, <1>2, Induction
<1> QED BY <1>3 DEF S

-----------------------------------------------------------------------------
(* What a wg-quick file says: its lines, and what stands under headers.    *)

(* The lines of a file, and all the texts that are values in it.           *)
IsWgFile(w) == IsList(w) /\ \A line \in ToSet(w) : IsWgLine(line)
Texts(w) == UNION {ToSet(w[j].values) : j \in DOMAIN w}

(* Values of a file are lists of its texts, and those of a key that takes  *)
(* no list are a single one.                                               *)
LEMMA WgLines ==
  ASSUME NEW w, IsWgFile(w)
  PROVE  /\ Len(w) \in Nat /\ DOMAIN w = 1 .. Len(w)
         /\ \A j \in DOMAIN w : /\ IsWgLine(w[j]) /\ w[j].values \in Seq(Texts(w))
                                /\ w[j].is = "pair" => w[j].values[1] \in Texts(w)
                                /\ w[j].is = "pair" /\ w[j].key \notin ListKeys => w[j].values = <<w[j].values[1]>>
<1>1. Len(w) \in Nat /\ DOMAIN w = 1 .. Len(w) /\ \A j \in DOMAIN w : w[j] \in ToSet(w)
  BY DEF IsWgFile, IsList, ToSet
<1>2. ASSUME NEW j \in DOMAIN w
      PROVE  /\ IsWgLine(w[j]) /\ w[j].values \in Seq(Texts(w))
             /\ w[j].is = "pair" => w[j].values[1] \in Texts(w)
             /\ w[j].is = "pair" /\ w[j].key \notin ListKeys => w[j].values = <<w[j].values[1]>>
  <2>1. IsWgLine(w[j])
    BY <1>1 DEF IsWgFile
  <2> DEFINE s == w[j].values
  <2>2. IsList(s) /\ (w[j].is = "pair" => s # <<>> /\ (w[j].key \notin ListKeys => Len(s) = 1))
    BY <2>1 DEF IsWgLine
  <2>3. ToSet(s) \subseteq Texts(w)
    BY DEF Texts
  <2> HIDE DEF s
  <2>4. s \in Seq(Texts(w)) /\ (s # <<>> => s[1] \in ToSet(s)) /\ (Len(s) = 1 => s = <<s[1]>>)
    BY <2>2, <2>3 DEF IsList, ToSet
  <2> QED BY <2>1, <2>2, <2>3, <2>4 DEF s
<1> QED BY <1>1, <1>2

(* A line is under a header when that is the last header before it.        *)
LEMMA UnderStep ==
  ASSUME NEW w, IsWgFile(w), NEW H, \A i \in H : i \in DOMAIN w /\ w[i].is = "header",
         NEW m \in Nat, m + 1 \in DOMAIN w
  PROVE  /\ w[m + 1].is = "header" => m + 1 \notin Under(w, H)
         /\ (\A k \in 1 .. m : w[k].is # "header") => m + 1 \notin Under(w, H)
         /\ \A h \in 1 .. m :
              w[h].is = "header" /\ (\A k \in h + 1 .. m + 1 : w[k].is # "header")
              => (m + 1 \in Under(w, H) <=> h \in H)
<1>0. Len(w) \in Nat /\ DOMAIN w = 1 .. Len(w)
  BY WgLines
<1>1. m + 1 \in Under(w, H) <=> \E i \in H : i < m + 1 /\ \A k \in i + 1 .. m + 1 : w[k].is # "header"
  BY DEF Under
<1>2. ASSUME NEW i \in H, i < m + 1, \A k \in i + 1 .. m + 1 : w[k].is # "header"
      PROVE  /\ i \in 1 .. m /\ w[i].is = "header" /\ w[m + 1].is # "header"
             /\ \A h \in 1 .. m :
                  w[h].is = "header" /\ (\A k \in h + 1 .. m + 1 : w[k].is # "header") => i = h
  <2>1. i \in 1 .. m /\ m + 1 \in i + 1 .. m + 1 /\ w[i].is = "header"
    BY <1>0, <1>2
  <2>2. \A h \in 1 .. m : /\ i < h => h \in i + 1 .. m + 1
                          /\ h < i => i \in h + 1 .. m + 1
                          /\ i < h \/ h < i \/ h = i
    BY <2>1
  <2> QED BY <1>2, <2>1, <2>2
<1>3. ASSUME NEW h \in 1 .. m, h \in H, \A k \in h + 1 .. m + 1 : w[k].is # "header"
      PROVE  m + 1 \in Under(w, H)
  <2>1. h < m + 1
    OBVIOUS
  <2> QED BY <1>1, <1>3, <2>1
<1> QED BY <1>1, <1>2, <1>3

(* What each line of a block has for a key, and all they have up to        *)
(* the m-th line.                                                          *)
Share(w, block, key) ==
  [j \in DOMAIN w |->
    IF j \in block /\ w[j].is = "pair" /\ w[j].key = key THEN w[j].values ELSE <<>>]
Val(w, m, block, key) == Sofar(Share(w, block, key), m)

(* After the last line it is all that the block has.                       *)
LEMMA ValAll ==
  ASSUME NEW w, IsWgFile(w), NEW block, NEW key
  PROVE  Values(w, block, key) = Val(w, Len(w), block, key)
<1>1. DOMAIN w = 1 .. Len(w)
  BY WgLines
<1>2. Share(w, block, key) = [j \in 1 .. Len(w) |-> Share(w, block, key)[j]]
  BY <1>1 DEF Share
<1>3. Values(w, block, key) = FlattenSeq(Share(w, block, key))
  BY Zenon DEF Values, Share
<1> QED BY <1>2, <1>3, Zenon DEF Val, Sofar

(* A line adds its values when it is of the block and has the key.         *)
LEMMA ValNext ==
  ASSUME NEW w, IsWgFile(w), NEW block, NEW key, NEW m \in Nat, m + 1 \in DOMAIN w
  PROVE  /\ Val(w, m, block, key) \in Seq(Texts(w))
         /\ Val(w, m + 1, block, key) =
              IF m + 1 \in block /\ w[m + 1].is = "pair" /\ w[m + 1].key = key
              THEN Val(w, m, block, key) \o w[m + 1].values ELSE Val(w, m, block, key)
<1> DEFINE f == Share(w, block, key)
<1>1. /\ \A j \in 1 .. m + 1 : f[j] \in Seq(Texts(w))
      /\ f[m + 1] = IF m + 1 \in block /\ w[m + 1].is = "pair" /\ w[m + 1].key = key
                    THEN w[m + 1].values ELSE <<>>
  <2>1. Len(w) \in Nat /\ DOMAIN w = 1 .. Len(w) /\ <<>> \in Seq(Texts(w))
    BY WgLines
  <2>2. ASSUME NEW j \in DOMAIN w PROVE f[j] \in Seq(Texts(w))
    <3>1. f[j] \in {w[j].values, <<>>}
      BY DEF Share
    <3>2. w[j].values \in Seq(Texts(w))
      BY WgLines, Zenon
    <3> HIDE DEF f
    <3> QED BY <2>1, <3>1, <3>2
  <2>3. \A j \in 1 .. m + 1 : j \in DOMAIN w
    BY <2>1
  <2> QED BY <2>2, <2>3 DEF Share
<1> HIDE DEF f
<1>2. Sofar(f, m) \in Seq(Texts(w)) /\ Sofar(f, m + 1) = Sofar(f, m) \o f[m + 1]
  BY <1>1, SofarNext
<1>3. Sofar(f, m) \o <<>> = Sofar(f, m)
  BY <1>2, ConcatEmptySeq
<1> QED BY <1>1, <1>2, <1>3 DEF Val, f

(* Before the first line of a block it has nothing.                        *)
LEMMA ValOutside ==
  ASSUME NEW w, IsWgFile(w), NEW block, NEW key, NEW m \in 0 .. Len(w),
         \A j \in 1 .. m : j \notin block
  PROVE  Val(w, m, block, key) = <<>>
<1> DEFINE f == Share(w, block, key)
<1>1. \A j \in 1 .. m : f[j] = <<>>
  <2>1. \A j \in 1 .. m : j \in DOMAIN w
    BY WgLines
  <2> QED BY <2>1 DEF Share
<1> HIDE DEF f
<1>2. Sofar(f, m) = Sofar(f, 0)
  <2>0. Len(w) \in Nat
    BY WgLines, Zenon
  <2>1. m \in Nat /\ 0 \in 0 .. m
    BY <2>0
  <2>3. \A j \in 1 .. m : f[j] \in Seq({})
    <3>1. <<>> \in Seq({})
      OBVIOUS
    <3> QED BY <1>1, <3>1, Zenon
  <2>2. \A j \in 0 + 1 .. m : f[j] = <<>>
    BY <1>1
  <2> QED BY <2>1, <2>2, <2>3, SofarPads
<1> QED BY <1>2, SofarNone DEF Val, f

(* At any line it is a list of texts of the file.                          *)
LEMMA ValIs ==
  ASSUME NEW w, IsWgFile(w), NEW block, NEW key, NEW m \in 0 .. Len(w)
  PROVE  Val(w, m, block, key) \in Seq(Texts(w))
<1>1. Len(w) \in Nat /\ DOMAIN w = 1 .. Len(w)
  BY WgLines
<1>2. CASE m + 1 \in DOMAIN w
  BY <1>1, <1>2, ValNext
<1>3. CASE m = 0
  <2>1. <<>> \in Seq(Texts(w))
    OBVIOUS
  <2> QED BY <1>3, <2>1, SofarNone DEF Val
<1>4. CASE m # 0 /\ m + 1 \notin DOMAIN w
  <2>0. m - 1 \in Nat /\ m = (m - 1) + 1
    BY <1>1, <1>4
  <2>1. PICK k \in Nat : m = k + 1
    BY <2>0
  <2>4. m \in DOMAIN w
    BY <1>1, <1>4
  <2>2. /\ Val(w, k, block, key) \in Seq(Texts(w))
        /\ Val(w, m, block, key) \in {Val(w, k, block, key) \o w[m].values, Val(w, k, block, key)}
    <3>1. k + 1 \in DOMAIN w
      BY <2>1, <2>4
    <3>2. /\ Val(w, k, block, key) \in Seq(Texts(w))
          /\ Val(w, k + 1, block, key) =
               IF k + 1 \in block /\ w[k + 1].is = "pair" /\ w[k + 1].key = key
               THEN Val(w, k, block, key) \o w[k + 1].values ELSE Val(w, k, block, key)
      BY <3>1, ValNext
    <3> QED BY <2>1, <3>2
  <2>3. w[m].values \in Seq(Texts(w))
    BY <2>4, WgLines
  <2> QED BY <2>2, <2>3, ConcatProperties
<1> QED BY <1>2, <1>3, <1>4

-----------------------------------------------------------------------------
(* The peers of a file up to the m-th line: each has what stands under     *)
(* its header so far.                                                      *)
Interfaces(w) == Under(w, Headers(w, "Interface"))
PeerTo(w, m, i) ==
  LET Of(key) == Val(w, m, Under(w, {i}), key)
  IN [key |-> LastText(Of("PublicKey")), psk |-> LastIfAny(Of("PresharedKey")),
      endpoint |-> LastIfAny(Of("Endpoint")), allowed |-> Of("AllowedIPs")]
PeersTo(w, m) ==
  [i \in DOMAIN w |-> IF i \in Headers(w, "Peer") THEN <<PeerTo(w, m, i)>> ELSE <<>>]

(* The last text, or none, and what a peer can be.                         *)
LastTexts(w) == Texts(w) \cup {<<>>}
PeerOf(w) ==
  [key : LastTexts(w), psk : Seq(Texts(w)), endpoint : Seq(Texts(w)), allowed : Seq(Texts(w))]

(* What a pair changes of a peer.                                          *)
PeerChanges(p, line, q) ==
  /\ q.key = IF line.key = "PublicKey" THEN line.values[1] ELSE p.key
  /\ q.psk = IF line.key = "PresharedKey" THEN <<line.values[1]>> ELSE p.psk
  /\ q.endpoint = IF line.key = "Endpoint" THEN <<line.values[1]>> ELSE p.endpoint
  /\ q.allowed = IF line.key = "AllowedIPs" THEN p.allowed \o line.values ELSE p.allowed

(* The last text of a list is one of the list, or none.                    *)
LEMMA LastOf ==
  ASSUME NEW V, NEW x \in Seq(V)
  PROVE  /\ LastText(x) \in V \cup {<<>>} /\ LastIfAny(x) \in Seq(V)
         /\ LastText(<<>>) = <<>> /\ LastIfAny(<<>>) = <<>>
<1>1. LastText(<<>>) = <<>> /\ LastIfAny(<<>>) = <<>>
  BY DEF LastText, LastIfAny
<1>2. LastText(x) \in V \cup {<<>>} /\ LastIfAny(x) \in Seq(V)
  <2>1. CASE x = <<>>
    BY <1>1, <2>1
  <2>2. CASE x # <<>>
    <3>1. Last(x) \in V
      BY <2>2 DEF Last
    <3>2. LastText(x) = Last(x) /\ LastIfAny(x) = <<Last(x)>>
      BY <2>2 DEF LastText, LastIfAny
    <3> QED BY <3>1, <3>2
  <2> QED BY <2>1, <2>2
<1> QED BY <1>1, <1>2

(* A text added at the end is the last one.                                *)
LEMMA LastAdded ==
  ASSUME NEW V, NEW x \in Seq(V), NEW a \in V
  PROVE  LastText(x \o <<a>>) = a /\ LastIfAny(x \o <<a>>) = <<a>>
<1> DEFINE y == x \o <<a>>
<1>1. Len(y) = Len(x) + 1 /\ y[Len(x) + 1] = a /\ y # <<>>
  OBVIOUS
<1> HIDE DEF y
<1>2. Last(y) = a
  BY <1>1 DEF Last
<1> QED BY <1>1, <1>2 DEF LastText, LastIfAny, y

(* A peer has texts of the file at any line.                               *)
LEMMA PeerIs ==
  ASSUME NEW w, IsWgFile(w), NEW m \in 0 .. Len(w), NEW i
  PROVE  PeerTo(w, m, i) \in PeerOf(w)
<1>1. \A key : Val(w, m, Under(w, {i}), key) \in Seq(Texts(w))
  BY ValIs
<1> DEFINE Of(key) == Val(w, m, Under(w, {i}), key)
<1>2. \A key : Of(key) \in Seq(Texts(w)) /\ LastText(Of(key)) \in LastTexts(w) /\ LastIfAny(Of(key)) \in Seq(Texts(w))
  BY <1>1, LastOf DEF LastTexts
<1>3. PeerTo(w, m, i) = [key |-> LastText(Of("PublicKey")), psk |-> LastIfAny(Of("PresharedKey")),
                         endpoint |-> LastIfAny(Of("Endpoint")), allowed |-> Of("AllowedIPs")]
  BY DEF PeerTo
<1> HIDE DEF Of
<1> QED BY <1>2, <1>3 DEF PeerOf

(* A peer without lines.                                                   *)
LEMMA PeerStarts ==
  ASSUME NEW w, IsWgFile(w), NEW i \in DOMAIN w
  PROVE  PeerTo(w, i, i) = NewPeer
<1>1. Len(w) \in Nat /\ i \in 1 .. Len(w) /\ i \in 0 .. Len(w)
  <2>1. Len(w) \in Nat /\ DOMAIN w = 1 .. Len(w)
    BY WgLines
  <2> QED BY <2>1
<1>2. \A j \in 1 .. i : j \notin Under(w, {i})
  BY <1>1 DEF Under
<1>3. \A key : Val(w, i, Under(w, {i}), key) = <<>>
  BY <1>1, <1>2, ValOutside
<1>4. LastText(<<>>) = <<>> /\ LastIfAny(<<>>) = <<>>
  BY DEF LastText, LastIfAny
<1> QED BY <1>3, <1>4 DEF PeerTo, NewPeer

(* A line that is not under its header leaves a peer as it is.             *)
LEMMA PeerElsewhere ==
  ASSUME NEW w, IsWgFile(w), NEW m \in Nat, m + 1 \in DOMAIN w, NEW i,
         m + 1 \notin Under(w, {i}) \/ w[m + 1].is # "pair"
  PROVE  PeerTo(w, m + 1, i) = PeerTo(w, m, i)
<1>1. \A key : Val(w, m + 1, Under(w, {i}), key) = Val(w, m, Under(w, {i}), key)
  BY ValNext
<1> QED BY <1>1 DEF PeerTo

(* A line under its header changes one of its attributes.                  *)
LEMMA PeerNext ==
  ASSUME NEW w, IsWgFile(w), NEW m \in Nat, m + 1 \in DOMAIN w, NEW i,
         m + 1 \in Under(w, {i}), w[m + 1].is = "pair"
  PROVE  PeerChanges(PeerTo(w, m, i), w[m + 1], PeerTo(w, m + 1, i))
<1> DEFINE line == w[m + 1]
           V(k, key) == Val(w, k, Under(w, {i}), key)
<1>1. ASSUME NEW key
      PROVE  /\ V(m, key) \in Seq(Texts(w))
             /\ V(m + 1, key) = IF line.key = key THEN V(m, key) \o line.values ELSE V(m, key)
  <2> DEFINE B == Under(w, {i})
  <2> HIDE DEF B
  <2>1. /\ Val(w, m, B, key) \in Seq(Texts(w))
        /\ Val(w, m + 1, B, key) =
             IF m + 1 \in B /\ w[m + 1].is = "pair" /\ w[m + 1].key = key
             THEN Val(w, m, B, key) \o w[m + 1].values ELSE Val(w, m, B, key)
    BY ValNext
  <2> QED BY <2>1, Zenon DEF B
<1>2. /\ line.values[1] \in Texts(w)
      /\ line.key \notin ListKeys => line.values = <<line.values[1]>>
  BY WgLines
<1>3. \A k : /\ PeerTo(w, k, i).key = LastText(V(k, "PublicKey"))
             /\ PeerTo(w, k, i).psk = LastIfAny(V(k, "PresharedKey"))
             /\ PeerTo(w, k, i).endpoint = LastIfAny(V(k, "Endpoint"))
             /\ PeerTo(w, k, i).allowed = V(k, "AllowedIPs")
  BY DEF PeerTo
<1> HIDE DEF line, V
<1>4. ASSUME NEW key, line.key = key, key \notin ListKeys
      PROVE  /\ LastText(V(m + 1, key)) = line.values[1]
             /\ LastIfAny(V(m + 1, key)) = <<line.values[1]>>
  <2>1. V(m + 1, key) = V(m, key) \o <<line.values[1]>> /\ V(m, key) \in Seq(Texts(w))
    BY <1>1, <1>2, <1>4
  <2>2. LET x == V(m, key)  a == line.values[1] IN LastText(x \o <<a>>) = a /\ LastIfAny(x \o <<a>>) = <<a>>
    BY <1>2, <2>1, LastAdded
  <2> QED BY <2>1, <2>2, Zenon
<1>5. "PublicKey" \notin ListKeys /\ "PresharedKey" \notin ListKeys /\ "Endpoint" \notin ListKeys
  BY DEF ListKeys
<1>6. \A key : line.key # key => V(m + 1, key) = V(m, key)
  BY <1>1
<1>7. line.key = "AllowedIPs" => V(m + 1, "AllowedIPs") = V(m, "AllowedIPs") \o line.values
  BY <1>1
<1> DEFINE p == PeerTo(w, m, i)
           q == PeerTo(w, m + 1, i)
<1>8. q.key = IF line.key = "PublicKey" THEN line.values[1] ELSE p.key
  <2>1. p.key = LastText(V(m, "PublicKey")) /\ q.key = LastText(V(m + 1, "PublicKey"))
    BY <1>3
  <2> HIDE DEF p, q
  <2> QED BY <2>1, <1>4, <1>5, <1>6, Zenon
<1>9. q.psk = IF line.key = "PresharedKey" THEN <<line.values[1]>> ELSE p.psk
  <2>1. p.psk = LastIfAny(V(m, "PresharedKey")) /\ q.psk = LastIfAny(V(m + 1, "PresharedKey"))
    BY <1>3
  <2> HIDE DEF p, q
  <2> QED BY <2>1, <1>4, <1>5, <1>6, Zenon
<1>10. q.endpoint = IF line.key = "Endpoint" THEN <<line.values[1]>> ELSE p.endpoint
  <2>1. p.endpoint = LastIfAny(V(m, "Endpoint")) /\ q.endpoint = LastIfAny(V(m + 1, "Endpoint"))
    BY <1>3
  <2> HIDE DEF p, q
  <2> QED BY <2>1, <1>4, <1>5, <1>6, Zenon
<1>11. q.allowed = IF line.key = "AllowedIPs" THEN p.allowed \o line.values ELSE p.allowed
  <2>1. p.allowed = V(m, "AllowedIPs") /\ q.allowed = V(m + 1, "AllowedIPs")
    BY <1>3
  <2> HIDE DEF p, q
  <2> QED BY <2>1, <1>6, <1>7, Zenon
<1> HIDE DEF p, q
<1>12. PeerChanges(p, line, q)
  BY <1>8, <1>9, <1>10, <1>11, Zenon DEF PeerChanges
<1> QED BY <1>12 DEF p, q, line

-----------------------------------------------------------------------------
(* The parser after m lines (parse_wg_quick_raw): it has failed, or what   *)
(* it holds is what the lines so far say. The peers before the last        *)
(* header are complete, and the one under it is current.                   *)
WgState(w) ==
  [failed : {FALSE}, section : {"none", "Interface", "Peer"}, key : LastTexts(w),
   addresses : Seq(Texts(w)), servers : Seq(Texts(w)), peers : Seq(PeerOf(w)), current : Seq(PeerOf(w))]

LastHeader(w, m, h) ==
  h \in 1 .. m /\ w[h].is = "header" /\ \A k \in h + 1 .. m : w[k].is # "header"

InterfaceRead(w, m, s) ==
  /\ s.key = LastText(Val(w, m, Interfaces(w), "PrivateKey"))
  /\ s.addresses = Val(w, m, Interfaces(w), "Address")
  /\ s.servers = Val(w, m, Interfaces(w), "DNS")

PeersRead(w, m, s) ==
  \/ /\ s.section = "none" /\ \A k \in 1 .. m : w[k].is # "header"
     /\ s.peers = <<>> /\ s.current = <<>>
  \/ \E h \in 1 .. m :
       /\ LastHeader(w, m, h) /\ s.section \in {"Interface", "Peer"} /\ w[h].key = s.section
       /\ s.peers = Sofar(PeersTo(w, m), h - 1)
       /\ s.current = IF s.section = "Peer" THEN <<PeerTo(w, m, h)>> ELSE <<>>

ReadTo(w, m, s) == s \in WgState(w) /\ InterfaceRead(w, m, s) /\ PeersRead(w, m, s)

FailedOrRead(w, m, s) == s.failed = TRUE \/ ReadTo(w, m, s)

(* The peers of the headers so far.                                        *)
LEMMA PeersAre ==
  ASSUME NEW w, IsWgFile(w), NEW m \in 0 .. Len(w)
  PROVE  \A j \in DOMAIN w : PeersTo(w, m)[j] \in Seq(PeerOf(w))
<1> SUFFICES ASSUME NEW j \in DOMAIN w PROVE PeersTo(w, m)[j] \in Seq(PeerOf(w))
  OBVIOUS
<1>1. PeersTo(w, m)[j] \in {<<PeerTo(w, m, j)>>, <<>>}
  BY DEF PeersTo
<1>2. PeerTo(w, m, j) \in PeerOf(w)
  BY PeerIs
<1>3. \A p \in PeerOf(w) : <<p>> \in Seq(PeerOf(w))
  OBVIOUS
<1>4. <<>> \in Seq(PeerOf(w))
  OBVIOUS
<1> QED BY <1>1, <1>2, <1>3, <1>4

(* With the current one they are the peers of the headers so far, whether  *)
(* or not there is a current one.                                          *)
LEMMA AllPeers ==
  ASSUME NEW w, IsWgFile(w), NEW m \in 0 .. Len(w), NEW s, ReadTo(w, m, s)
  PROVE  s.peers \o s.current = Sofar(PeersTo(w, m), m)
<1> DEFINE f == PeersTo(w, m)
<1>0. Len(w) \in Nat /\ DOMAIN w = 1 .. Len(w) /\ m \in Nat /\ \A j \in 1 .. m : j \in DOMAIN w
  <2>1. Len(w) \in Nat /\ DOMAIN w = 1 .. Len(w)
    BY WgLines
  <2> QED BY <2>1
<1>1. \A j \in 1 .. m : f[j] \in Seq(PeerOf(w))
  BY <1>0, PeersAre
<1>2. \A j \in 1 .. m : w[j].is # "header" => f[j] = <<>>
  BY <1>0 DEF PeersTo, Headers
<1>3. CASE /\ \A k \in 1 .. m : w[k].is # "header"
           /\ s.peers = <<>> /\ s.current = <<>>
  <2>1. /\ 0 \in 0 .. m /\ \A j \in 0 + 1 .. m : f[j] = <<>>
    BY <1>0, <1>2, <1>3
  <2> HIDE DEF f
  <2>2. Sofar(f, m) = Sofar(f, 0)
    BY <1>0, <1>1, <2>1, SofarPads
  <2>3. <<>> \o <<>> = <<>>
    OBVIOUS
  <2> QED BY <1>3, <2>2, <2>3, SofarNone DEF f
<1>4. ASSUME NEW h \in 1 .. m, LastHeader(w, m, h), w[h].key = s.section,
             s.section \in {"Interface", "Peer"},
             s.peers = Sofar(f, h - 1),
             s.current = IF s.section = "Peer" THEN <<PeerTo(w, m, h)>> ELSE <<>>
      PROVE  s.peers \o s.current = Sofar(f, m)
  <2>1. f[h] = s.current
    <3>1. h \in DOMAIN w /\ (h \in Headers(w, "Peer") <=> s.section = "Peer")
      BY <1>0, <1>4 DEF Headers, LastHeader
    <3> QED BY <1>4, <3>1 DEF PeersTo
  <2> HIDE DEF f
  <2>2. h \in 0 .. m /\ \A j \in h + 1 .. m : f[j] = <<>>
    <3>1. \A j \in h + 1 .. m : w[j].is # "header" /\ j \in 1 .. m
      BY <1>4 DEF LastHeader
    <3> QED BY <1>2, <3>1
  <2>3. Sofar(f, m) = Sofar(f, h)
    <3> DEFINE P == PeerOf(w)
    <3>1. \A j \in 1 .. m : f[j] \in Seq(P)
      BY <1>0, <1>1
    <3> HIDE DEF P
    <3> QED BY <1>0, <2>2, <3>1, SofarPads
  <2>4. PICK k \in Nat : h = k + 1 /\ h - 1 = k
    <3>1. h - 1 \in Nat /\ h = (h - 1) + 1
      BY <1>0
    <3> QED BY <3>1
  <2>5. \A j \in 1 .. k + 1 : f[j] \in Seq(PeerOf(w))
    BY <1>0, <1>1, <2>4
  <2>6. Sofar(f, k + 1) = Sofar(f, k) \o f[k + 1]
    BY <2>5, SofarNext
  <2>7. Sofar(f, h) = Sofar(f, h - 1) \o f[h]
    BY <2>4, <2>6
  <2> QED BY <1>4, <2>1, <2>3, <2>7, Zenon
<1> HIDE DEF f
<1>5. PeersRead(w, m, s)
  BY Zenon DEF ReadTo
<1>6. PeersRead(w, m, s) =>
        \/ (\A k \in 1 .. m : w[k].is # "header") /\ s.peers = <<>> /\ s.current = <<>>
        \/ \E h \in 1 .. m : /\ LastHeader(w, m, h) /\ s.section \in {"Interface", "Peer"}
                            /\ w[h].key = s.section /\ s.peers = Sofar(f, h - 1)
                            /\ s.current = IF s.section = "Peer" THEN <<PeerTo(w, m, h)>> ELSE <<>>
  BY Zenon DEF PeersRead, f
<1>7. s.peers \o s.current = Sofar(f, m)
  <2>1. CASE \E h \in 1 .. m :
               /\ LastHeader(w, m, h) /\ s.section \in {"Interface", "Peer"}
               /\ w[h].key = s.section /\ s.peers = Sofar(f, h - 1)
               /\ s.current = IF s.section = "Peer" THEN <<PeerTo(w, m, h)>> ELSE <<>>
    <3>1. PICK h \in 1 .. m :
            /\ LastHeader(w, m, h) /\ s.section \in {"Interface", "Peer"}
            /\ w[h].key = s.section /\ s.peers = Sofar(f, h - 1)
            /\ s.current = IF s.section = "Peer" THEN <<PeerTo(w, m, h)>> ELSE <<>>
      BY <2>1
    <3> QED BY <3>1, <1>4
  <2>2. CASE (\A k \in 1 .. m : w[k].is # "header") /\ s.peers = <<>> /\ s.current = <<>>
    BY <1>3, <2>2, Zenon DEF f
  <2> QED BY <1>5, <1>6, <2>1, <2>2, Zenon
<1> QED BY <1>7, Zenon DEF f

(* Peers whose lines are over stay as they are.                            *)
LEMMA PeersBefore ==
  ASSUME NEW w, IsWgFile(w), NEW m \in Nat, m + 1 \in DOMAIN w, NEW k \in 0 .. m,
         \A i \in 1 .. k : m + 1 \notin Under(w, {i}) \/ w[m + 1].is # "pair"
  PROVE  Sofar(PeersTo(w, m + 1), k) = Sofar(PeersTo(w, m), k)
<1>0. Len(w) \in Nat /\ DOMAIN w = 1 .. Len(w)
  BY WgLines
<1>1. \A i \in 1 .. k : PeerTo(w, m + 1, i) = PeerTo(w, m, i)
  BY PeerElsewhere
<1>2. k \in Nat /\ \A i \in 1 .. k : i \in DOMAIN w
  BY <1>0
<1>3. \A i \in 1 .. k : PeersTo(w, m + 1)[i] = PeersTo(w, m)[i]
  BY <1>1, <1>2 DEF PeersTo
<1> QED BY <1>2, <1>3, SofarSame

(* A peer that is pending goes to the others (the flush of the parser).    *)
LEMMA Flushed ==
  ASSUME NEW w, NEW s \in WgState(w)
  PROVE  /\ Flush(s) \in WgState(w) /\ Flush(s).peers = s.peers \o s.current /\ Flush(s).current = <<>>
         /\ Flush(s).key = s.key /\ Flush(s).addresses = s.addresses /\ Flush(s).servers = s.servers
         /\ Flush(s).section = s.section /\ Failed(s).failed = TRUE
<1>1. s.peers \o s.current \in Seq(PeerOf(w)) /\ <<>> \in Seq(PeerOf(w))
  <2>1. s.peers \in Seq(PeerOf(w)) /\ s.current \in Seq(PeerOf(w))
    BY DEF WgState
  <2> QED BY <2>1, ConcatProperties
<1> QED BY <1>1 DEF WgState, Flush, Failed

(* What a line changes on its own: only a pair of the right key.           *)
LEMMA InterfaceElsewhere ==
  ASSUME NEW w, IsWgFile(w), NEW m \in Nat, m + 1 \in DOMAIN w, NEW s, NEW t,
         InterfaceRead(w, m, s), m + 1 \notin Interfaces(w) \/ w[m + 1].is # "pair",
         t.key = s.key, t.addresses = s.addresses, t.servers = s.servers
  PROVE  InterfaceRead(w, m + 1, t)
<1>1. \A key : Val(w, m + 1, Interfaces(w), key) = Val(w, m, Interfaces(w), key)
  BY ValNext
<1> QED BY <1>1 DEF InterfaceRead

(* A header starts a section, and ends the peer before it.                 *)
LEMMA HeaderRead ==
  ASSUME NEW w, IsWgFile(w), NEW m \in Nat, m + 1 \in DOMAIN w, NEW s, ReadTo(w, m, s),
         w[m + 1].is = "header"
  PROVE  LET t == ParseHeader(s, w[m + 1]) IN t.failed = TRUE \/ ReadTo(w, m + 1, t)
<1> DEFINE line == w[m + 1]
           t == ParseHeader(s, line)
<1>0. s \in WgState(w) /\ InterfaceRead(w, m, s) /\ Len(w) \in Nat /\ DOMAIN w = 1 .. Len(w)
  BY WgLines DEF ReadTo
<1>n. NewPeer \in PeerOf(w) /\ PeerTo(w, m + 1, m + 1) = NewPeer
  BY PeerStarts DEF NewPeer, PeerOf, LastTexts
<1>1. CASE line.key \notin {"Interface", "Peer"}
  <2>1. t = Failed(s)
    BY <1>1 DEF ParseHeader
  <2> QED BY <1>0, <2>1, Flushed
<1>2. CASE line.key \in {"Interface", "Peer"}
  <2>1. /\ t \in WgState(w) /\ t.peers = s.peers \o s.current /\ t.section = line.key
        /\ t.current = IF line.key = "Peer" THEN <<NewPeer>> ELSE <<>>
        /\ t.key = s.key /\ t.addresses = s.addresses /\ t.servers = s.servers
    <3> DEFINE f == Flush(s)
    <3>1. /\ f \in WgState(w) /\ f.peers = s.peers \o s.current /\ f.current = <<>>
          /\ f.key = s.key /\ f.addresses = s.addresses /\ f.servers = s.servers
      BY <1>0, Flushed
    <3>2. <<NewPeer>> \in Seq(PeerOf(w))
      BY <1>n
    <3>3. CASE line.key = "Interface"
      <4>1. t = [f EXCEPT !.section = "Interface"]
        BY <3>3 DEF ParseHeader
      <4> HIDE DEF f, t, line
      <4> QED BY <3>1, <3>3, <4>1 DEF WgState
    <3>4. CASE line.key = "Peer"
      <4>1. t = [f EXCEPT !.section = "Peer", !.current = <<NewPeer>>]
        BY <3>4 DEF ParseHeader
      <4> HIDE DEF f, t, line
      <4> QED BY <3>1, <3>2, <3>4, <4>1 DEF WgState
    <3> QED BY <1>2, <3>3, <3>4
  <2> HIDE DEF t
  <2>2. InterfaceRead(w, m + 1, t)
    BY <1>0, <2>1, InterfaceElsewhere
  <2>3. t.peers = Sofar(PeersTo(w, m + 1), m)
    <3>1. m \in 0 .. Len(w) /\ m \in 0 .. m
      BY <1>0
    <3>2. t.peers = Sofar(PeersTo(w, m), m)
      BY <2>1, <3>1, AllPeers
    <3>3. Sofar(PeersTo(w, m + 1), m) = Sofar(PeersTo(w, m), m)
      BY <3>1, PeersBefore
    <3> QED BY <3>2, <3>3
  <2>4. PeersRead(w, m + 1, t)
    <3>1. m + 1 \in 1 .. m + 1 /\ (m + 1) - 1 = m /\ LastHeader(w, m + 1, m + 1)
      BY DEF LastHeader
    <3>2. t.current = IF t.section = "Peer" THEN <<PeerTo(w, m + 1, m + 1)>> ELSE <<>>
      BY <1>n, <2>1
    <3> QED BY <1>2, <2>1, <2>3, <3>1, <3>2 DEF PeersRead
  <2> QED BY <2>1, <2>2, <2>4 DEF ReadTo, t
<1> QED BY <1>1, <1>2

(* A pair before the first header says nothing.                            *)
LEMMA StrayRead ==
  ASSUME NEW w, IsWgFile(w), NEW m \in Nat, m + 1 \in DOMAIN w, NEW s, ReadTo(w, m, s),
         w[m + 1].is = "pair", s.section = "none"
  PROVE  ReadTo(w, m + 1, s)
<1>1. (\A k \in 1 .. m : w[k].is # "header") /\ s.peers = <<>> /\ s.current = <<>>
  BY DEF ReadTo, PeersRead
<1>2. \A i \in Headers(w, "Interface") : i \in DOMAIN w /\ w[i].is = "header"
  BY DEF Headers
<1>3. m + 1 \notin Interfaces(w)
  BY <1>1, <1>2, UnderStep DEF Interfaces
<1>4. \A k \in 1 .. m + 1 : w[k].is # "header"
  <2>1. \A k \in 1 .. m + 1 : k \in 1 .. m \/ k = m + 1
    OBVIOUS
  <2> QED BY <1>1, <2>1
<1>5. InterfaceRead(w, m + 1, s)
  BY <1>3, InterfaceElsewhere DEF ReadTo
<1> QED BY <1>1, <1>4, <1>5 DEF ReadTo, PeersRead

(* Which block a pair belongs to.                                          *)
LEMMA PairUnder ==
  ASSUME NEW w, IsWgFile(w), NEW m \in Nat, m + 1 \in DOMAIN w, w[m + 1].is = "pair",
         NEW h \in 1 .. m, LastHeader(w, m, h)
  PROVE  /\ LastHeader(w, m + 1, h)
         /\ m + 1 \in Interfaces(w) <=> w[h].key = "Interface"
         /\ \A i \in 1 .. m : w[i].is = "header" => (m + 1 \in Under(w, {i}) <=> i = h)
         /\ \A i \in 1 .. h - 1 : m + 1 \notin Under(w, {i})
<1>0. Len(w) \in Nat /\ DOMAIN w = 1 .. Len(w)
  BY WgLines
<1>1. w[h].is = "header" /\ h \in 1 .. m + 1 /\ \A k \in h + 1 .. m + 1 : w[k].is # "header"
  <2>1. \A k \in h + 1 .. m + 1 : k \in h + 1 .. m \/ k = m + 1
    OBVIOUS
  <2>2. h \in 1 .. m + 1
    OBVIOUS
  <2> QED BY <2>1, <2>2 DEF LastHeader
<1>2. LastHeader(w, m + 1, h)
  BY <1>1 DEF LastHeader
<1>3. m + 1 \in Interfaces(w) <=> w[h].key = "Interface"
  <2> DEFINE H == Headers(w, "Interface")
  <2>1. \A i \in H : i \in DOMAIN w /\ w[i].is = "header"
    BY DEF Headers
  <2>2. h \in DOMAIN w /\ (h \in H <=> w[h].key = "Interface")
    <3>1. h \in DOMAIN w
      BY <1>0
    <3> QED BY <1>1, <3>1 DEF Headers
  <2> HIDE DEF H
  <2>3. m + 1 \in Under(w, H) <=> h \in H
    BY <1>1, <2>1, UnderStep
  <2> QED BY <2>2, <2>3 DEF Interfaces, H
<1>4. ASSUME NEW i \in 1 .. m, w[i].is = "header" PROVE m + 1 \in Under(w, {i}) <=> i = h
  <2>1. \A j \in {i} : j \in DOMAIN w /\ w[j].is = "header"
    BY <1>0, <1>4
  <2>2. m + 1 \in Under(w, {i}) <=> h \in {i}
    BY <1>1, <2>1, UnderStep
  <2> QED BY <2>2
<1>5. ASSUME NEW i \in 1 .. h - 1 PROVE m + 1 \notin Under(w, {i})
  <2>1. h \in i + 1 .. m + 1
    OBVIOUS
  <2> QED BY <1>1, <2>1 DEF Under
<1> QED BY <1>2, <1>3, <1>4, <1>5

(* What a pair of an interface section changes, and one of a peer section. *)
InterfaceChanges(w, s, line, t) ==
  /\ t \in WgState(w) /\ t.section = s.section /\ t.peers = s.peers /\ t.current = s.current
  /\ t.key = IF line.key = "PrivateKey" THEN line.values[1] ELSE s.key
  /\ t.addresses = IF line.key = "Address" THEN s.addresses \o line.values ELSE s.addresses
  /\ t.servers = IF line.key = "DNS" THEN s.servers \o line.values ELSE s.servers

CurrentChanges(w, s, line, t) ==
  /\ t \in WgState(w) /\ t.section = s.section /\ t.peers = s.peers
  /\ t.key = s.key /\ t.addresses = s.addresses /\ t.servers = s.servers
  /\ \E q \in PeerOf(w) : t.current = <<q>> /\ PeerChanges(s.current[1], line, q)

(* A pair of an interface section.                                         *)
LEMMA InterfacePair ==
  ASSUME NEW w, NEW s \in WgState(w), NEW line, line.values[1] \in Texts(w), line.values \in Seq(Texts(w)),
         NEW t, t = ParseInterface(s, line)
  PROVE  t.failed = TRUE \/ InterfaceChanges(w, s, line, t)
<1>0. /\ s.addresses \o line.values \in Seq(Texts(w)) /\ s.servers \o line.values \in Seq(Texts(w))
      /\ line.values[1] \in LastTexts(w)
  <2>1. s.addresses \in Seq(Texts(w)) /\ s.servers \in Seq(Texts(w))
    BY DEF WgState
  <2> QED BY <2>1, ConcatProperties DEF LastTexts
<1>1. CASE line.key = "PrivateKey"
  <2>1. t = [s EXCEPT !.key = line.values[1]]
    BY <1>1 DEF ParseInterface
  <2> QED BY <1>0, <1>1, <2>1 DEF WgState, InterfaceChanges
<1>2. CASE line.key = "Address"
  <2>1. t = [s EXCEPT !.addresses = @ \o line.values]
    BY <1>2 DEF ParseInterface
  <2> QED BY <1>0, <1>2, <2>1 DEF WgState, InterfaceChanges
<1>3. CASE line.key = "DNS"
  <2>1. t = [s EXCEPT !.servers = @ \o line.values]
    BY <1>3 DEF ParseInterface
  <2> QED BY <1>0, <1>3, <2>1 DEF WgState, InterfaceChanges
<1>4. CASE line.key \notin {"PrivateKey", "Address", "DNS"}
  <2>1. t = Failed(s) \/ t = s
    BY <1>4 DEF ParseInterface
  <2>2. Failed(s).failed = TRUE
    BY Flushed
  <2> QED BY <1>4, <2>1, <2>2 DEF InterfaceChanges
<1> QED BY <1>1, <1>2, <1>3, <1>4

(* A pair of a peer section.                                               *)
LEMMA PeerPair ==
  ASSUME NEW w, NEW s \in WgState(w), NEW p \in PeerOf(w), s.current = <<p>>,
         NEW line, line.values[1] \in Texts(w), line.values \in Seq(Texts(w)),
         NEW t, t = ParsePeer(s, line)
  PROVE  t.failed = TRUE \/ CurrentChanges(w, s, line, t)
<1> DEFINE Becomes(q) == t = [s EXCEPT !.current = <<q>>]
<1>0. /\ line.values[1] \in LastTexts(w) /\ <<line.values[1]>> \in Seq(Texts(w))
      /\ p.allowed \o line.values \in Seq(Texts(w))
  <2>1. p.allowed \in Seq(Texts(w))
    BY DEF PeerOf
  <2> QED BY <2>1, ConcatProperties DEF LastTexts
<1>1. \A x : [s.current EXCEPT ![1] = x] = <<x>>
  OBVIOUS
<1>2. s.current[1] = p
  OBVIOUS
<1>3. ASSUME NEW q \in PeerOf(w), Becomes(q), PeerChanges(p, line, q)
      PROVE  CurrentChanges(w, s, line, t)
  <2>1. <<q>> \in Seq(PeerOf(w))
    OBVIOUS
  <2>2. /\ t \in WgState(w) /\ t.section = s.section /\ t.peers = s.peers
        /\ t.key = s.key /\ t.addresses = s.addresses /\ t.servers = s.servers
        /\ t.current = <<q>>
    BY <1>3, <2>1 DEF WgState
  <2> QED BY <1>2, <1>3, <2>2 DEF CurrentChanges
<1>4. CASE line.key = "PublicKey"
  <2> DEFINE q == [p EXCEPT !.key = line.values[1]]
  <2>1. t = [s EXCEPT !.current[1].key = line.values[1]]
    BY <1>4 DEF ParsePeer
  <2>2. t = [s EXCEPT !.current = [s.current EXCEPT ![1] = [s.current[1] EXCEPT !.key = line.values[1]]]]
    BY <2>1
  <2>3. Becomes(q)
    BY <1>1, <1>2, <2>2, Zenon
  <2>4. q \in PeerOf(w) /\ PeerChanges(p, line, q)
    BY <1>0, <1>4 DEF PeerOf, PeerChanges
  <2> HIDE DEF q, Becomes
  <2> QED BY <1>3, <2>3, <2>4
<1>5. CASE line.key = "PresharedKey"
  <2> DEFINE q == [p EXCEPT !.psk = <<line.values[1]>>]
  <2>1. t = [s EXCEPT !.current[1].psk = <<line.values[1]>>]
    BY <1>5 DEF ParsePeer
  <2>2. t = [s EXCEPT !.current = [s.current EXCEPT ![1] = [s.current[1] EXCEPT !.psk = <<line.values[1]>>]]]
    BY <2>1
  <2>3. Becomes(q)
    BY <1>1, <1>2, <2>2, Zenon
  <2>4. q \in PeerOf(w) /\ PeerChanges(p, line, q)
    BY <1>0, <1>5 DEF PeerOf, PeerChanges
  <2> HIDE DEF q, Becomes
  <2> QED BY <1>3, <2>3, <2>4
<1>6. CASE line.key = "Endpoint"
  <2> DEFINE q == [p EXCEPT !.endpoint = <<line.values[1]>>]
  <2>1. t = [s EXCEPT !.current[1].endpoint = <<line.values[1]>>]
    BY <1>6 DEF ParsePeer
  <2>2. t = [s EXCEPT !.current = [s.current EXCEPT ![1] = [s.current[1] EXCEPT !.endpoint = <<line.values[1]>>]]]
    BY <2>1
  <2>3. Becomes(q)
    BY <1>1, <1>2, <2>2, Zenon
  <2>4. q \in PeerOf(w) /\ PeerChanges(p, line, q)
    BY <1>0, <1>6 DEF PeerOf, PeerChanges
  <2> HIDE DEF q, Becomes
  <2> QED BY <1>3, <2>3, <2>4
<1>7. CASE line.key = "AllowedIPs"
  <2> DEFINE q == [p EXCEPT !.allowed = @ \o line.values]
  <2>1. t = [s EXCEPT !.current[1].allowed = @ \o line.values]
    BY <1>7 DEF ParsePeer
  <2>2. t = [s EXCEPT !.current = [s.current EXCEPT ![1] = [s.current[1] EXCEPT !.allowed = @ \o line.values]]]
    BY <2>1
  <2>3. Becomes(q)
    BY <1>1, <1>2, <2>2, Zenon
  <2>4. q \in PeerOf(w) /\ PeerChanges(p, line, q)
    BY <1>0, <1>7 DEF PeerOf, PeerChanges
  <2> HIDE DEF q, Becomes
  <2> QED BY <1>3, <2>3, <2>4
<1>8. CASE line.key \notin {"PublicKey", "PresharedKey", "Endpoint", "AllowedIPs"}
  <2>1. t = Failed(s) \/ t = s
    BY <1>8 DEF ParsePeer
  <2>2. Failed(s).failed = TRUE /\ PeerChanges(p, line, p)
    BY <1>8, Flushed DEF PeerChanges
  <2> QED BY <1>2, <2>1, <2>2 DEF CurrentChanges
<1> QED BY <1>4, <1>5, <1>6, <1>7, <1>8

(* A pair changes what its section says.                                   *)
LEMMA PairRead ==
  ASSUME NEW w, IsWgFile(w), NEW m \in Nat, m + 1 \in DOMAIN w, NEW s, ReadTo(w, m, s),
         w[m + 1].is = "pair", s.section # "none"
  PROVE  LET t == IF s.section = "Interface" THEN ParseInterface(s, w[m + 1]) ELSE ParsePeer(s, w[m + 1])
         IN t.failed = TRUE \/ ReadTo(w, m + 1, t)
<1> DEFINE line == w[m + 1]
<1>0. s \in WgState(w) /\ InterfaceRead(w, m, s) /\ Len(w) \in Nat /\ DOMAIN w = 1 .. Len(w)
  BY WgLines DEF ReadTo
<1>1. /\ line.values[1] \in Texts(w) /\ line.values \in Seq(Texts(w))
      /\ line.key \notin ListKeys => line.values = <<line.values[1]>>
  BY WgLines
<1>2. PICK h \in 1 .. m :
        /\ LastHeader(w, m, h) /\ s.section \in {"Interface", "Peer"} /\ w[h].key = s.section
        /\ s.peers = Sofar(PeersTo(w, m), h - 1)
        /\ s.current = IF s.section = "Peer" THEN <<PeerTo(w, m, h)>> ELSE <<>>
  BY DEF ReadTo, PeersRead
<1>3. /\ LastHeader(w, m + 1, h)
      /\ m + 1 \in Interfaces(w) <=> w[h].key = "Interface"
      /\ m + 1 \in Under(w, {h})
      /\ \A i \in 1 .. h - 1 : m + 1 \notin Under(w, {i})
  BY <1>2, PairUnder DEF LastHeader
<1>4. Sofar(PeersTo(w, m + 1), h - 1) = Sofar(PeersTo(w, m), h - 1)
  <2>1. h - 1 \in 0 .. m
    OBVIOUS
  <2> QED BY <1>3, <2>1, PeersBefore
<1>5. h \in 1 .. m + 1
  OBVIOUS
<1> HIDE DEF line
<1>6. CASE s.section = "Interface"
  <2> DEFINE t == ParseInterface(s, line)
  <2>1. t.failed = TRUE \/ InterfaceChanges(w, s, line, t)
    BY <1>0, <1>1, InterfacePair
  <2> HIDE DEF t
  <2>2. ASSUME InterfaceChanges(w, s, line, t) PROVE ReadTo(w, m + 1, t)
    <3> DEFINE V(k, key) == Val(w, k, Interfaces(w), key)
    <3>1. ASSUME NEW key
          PROVE  /\ V(m, key) \in Seq(Texts(w))
                 /\ V(m + 1, key) = IF line.key = key THEN V(m, key) \o line.values ELSE V(m, key)
      BY <1>2, <1>3, <1>6, ValNext DEF line
    <3>2. s.key = LastText(V(m, "PrivateKey")) /\ s.addresses = V(m, "Address") /\ s.servers = V(m, "DNS")
      BY <1>0 DEF InterfaceRead
    <3> HIDE DEF V
    <3>3. t.addresses = V(m + 1, "Address") /\ t.servers = V(m + 1, "DNS")
      BY <2>2, <3>1, <3>2 DEF InterfaceChanges
    <3>4. t.key = LastText(V(m + 1, "PrivateKey"))
      <4>1. CASE line.key = "PrivateKey"
        <5>1. V(m + 1, "PrivateKey") = V(m, "PrivateKey") \o <<line.values[1]>> /\ V(m, "PrivateKey") \in Seq(Texts(w))
          BY <1>1, <3>1, <4>1 DEF ListKeys
        <5>2. LastText(V(m, "PrivateKey") \o <<line.values[1]>>) = line.values[1]
          BY <1>1, <5>1, LastAdded
        <5>3. t.key = line.values[1]
          BY <2>2, <4>1 DEF InterfaceChanges
        <5> QED BY <5>1, <5>2, <5>3, Zenon
      <4>2. CASE line.key # "PrivateKey"
        BY <2>2, <3>1, <3>2, <4>2 DEF InterfaceChanges
      <4> QED BY <4>1, <4>2
    <3>5. InterfaceRead(w, m + 1, t)
      BY <3>3, <3>4 DEF InterfaceRead, V
    <3>6. PeersRead(w, m + 1, t)
      BY <1>2, <1>3, <1>4, <1>5, <1>6, <2>2 DEF PeersRead, InterfaceChanges
    <3> QED BY <2>2, <3>5, <3>6 DEF ReadTo, InterfaceChanges
  <2> QED BY <1>6, <2>1, <2>2 DEF t, line
<1>7. CASE s.section = "Peer"
  <2> DEFINE t == ParsePeer(s, line)
             p == PeerTo(w, m, h)
  <2>0. p \in PeerOf(w) /\ s.current = <<p>> /\ PeerTo(w, m + 1, h) \in PeerOf(w)
    <3>1. m \in 0 .. Len(w) /\ m + 1 \in 0 .. Len(w)
      BY <1>0
    <3> QED BY <1>2, <1>7, <3>1, PeerIs
  <2> HIDE DEF p
  <2>1. t.failed = TRUE \/ CurrentChanges(w, s, line, t)
    BY <1>0, <1>1, <2>0, PeerPair
  <2> HIDE DEF t
  <2>2. ASSUME CurrentChanges(w, s, line, t) PROVE ReadTo(w, m + 1, t)
    <3>1. InterfaceRead(w, m + 1, t)
      BY <1>0, <1>2, <1>3, <1>7, <2>2, InterfaceElsewhere DEF CurrentChanges
    <3>2. t.current = <<PeerTo(w, m + 1, h)>>
      <4> DEFINE r == PeerTo(w, m + 1, h)
      <4>1. PeerChanges(p, line, r)
        BY <1>3, PeerNext DEF line, p
      <4> HIDE DEF r
      <4>2. PICK q \in PeerOf(w) : t.current = <<q>> /\ PeerChanges(p, line, q)
        BY <2>0, <2>2 DEF CurrentChanges
      <4>3. r \in PeerOf(w)
        BY <2>0 DEF r
      <4>4. q = r
        <5>1. q.key = r.key /\ q.psk = r.psk /\ q.endpoint = r.endpoint /\ q.allowed = r.allowed
          BY <4>1, <4>2 DEF PeerChanges
        <5>2. \A e \in PeerOf(w) : e = [key |-> e.key, psk |-> e.psk, endpoint |-> e.endpoint, allowed |-> e.allowed]
          BY DEF PeerOf
        <5> QED BY <4>2, <4>3, <5>1, <5>2, Zenon
      <4> QED BY <4>2, <4>4 DEF r
    <3>3. PeersRead(w, m + 1, t)
      BY <1>2, <1>3, <1>4, <1>5, <1>7, <2>2, <3>2 DEF PeersRead, CurrentChanges
    <3> QED BY <2>2, <3>1, <3>3 DEF ReadTo, CurrentChanges
  <2> QED BY <1>7, <2>1, <2>2 DEF t, line
<1> QED BY <1>2, <1>6, <1>7

(* The states the parser goes through, line by line.                       *)
LEMMA ParsingGoesOn ==
  ASSUME NEW w, NEW N \in Nat
  PROVE  \E f : f = [i \in 0 .. N |-> IF i = 0 THEN NothingParsed ELSE ParseLine(f[i - 1], w[i])]
<1> DEFINE S == {n \in Nat : \E f : f = [i \in 0 .. n |-> IF i = 0 THEN NothingParsed ELSE ParseLine(f[i - 1], w[i])]}
<1>1. 0 \in S
  <2> DEFINE f == [i \in 0 .. 0 |-> NothingParsed]
  <2>1. f = [i \in 0 .. 0 |-> IF i = 0 THEN NothingParsed ELSE ParseLine(f[i - 1], w[i])]
    OBVIOUS
  <2> HIDE DEF f
  <2>2. 0 \in Nat
    OBVIOUS
  <2> QED BY <2>1, <2>2, Zenon
<1>2. ASSUME NEW n \in Nat, n \in S PROVE n + 1 \in S
  <2>1. PICK f : f = [i \in 0 .. n |-> IF i = 0 THEN NothingParsed ELSE ParseLine(f[i - 1], w[i])]
    BY <1>2
  <2> DEFINE g == [i \in 0 .. n + 1 |-> IF i = n + 1 THEN ParseLine(f[n], w[n + 1]) ELSE f[i]]
  <2>2. g = [i \in 0 .. n + 1 |-> IF i = 0 THEN NothingParsed ELSE ParseLine(g[i - 1], w[i])]
    <3>1. ASSUME NEW i \in 0 .. n + 1
          PROVE  g[i] = IF i = 0 THEN NothingParsed ELSE ParseLine(g[i - 1], w[i])
      <4>1. CASE i = n + 1
        <5>1. n \in 0 .. n + 1 /\ n # n + 1 /\ n + 1 \in 0 .. n + 1 /\ n + 1 # 0 /\ (n + 1) - 1 = n
          OBVIOUS
        <5>2. g[n] = f[n] /\ g[n + 1] = ParseLine(f[n], w[n + 1])
          BY <5>1
        <5> HIDE DEF g
        <5> QED BY <4>1, <5>1, <5>2
      <4>2. CASE i # n + 1
        <5>1. i \in 0 .. n /\ (i # 0 => i - 1 # n + 1 /\ i - 1 \in 0 .. n + 1)
          BY <4>2
        <5>2. f[i] = IF i = 0 THEN NothingParsed ELSE ParseLine(f[i - 1], w[i])
          BY <2>1, <5>1, Zenon
        <5>3. g[i] = f[i] /\ (i # 0 => g[i - 1] = f[i - 1])
          BY <4>2, <5>1
        <5> HIDE DEF g
        <5> QED BY <5>2, <5>3
      <4> QED BY <4>1, <4>2
    <3>2. g = [i \in 0 .. n + 1 |-> g[i]]
      OBVIOUS
    <3> HIDE DEF g
    <3> QED BY <3>1, <3>2
  <2> HIDE DEF g
  <2>3. n + 1 \in Nat
    OBVIOUS
  <2> QED BY <2>2, <2>3, Zenon
<1> HIDE DEF S
<1>3. N \in S
  BY <1>1, <1>2, Induction
<1> QED BY <1>3 DEF S

(* The parser starts with nothing, reads line by line, and flushes the     *)
(* last peer.                                                              *)
LEMMA ParsedIs ==
  ASSUME NEW w, Len(w) \in Nat
  PROVE  \E f : /\ f[0] = NothingParsed
                /\ \A i \in 1 .. Len(w) : f[i] = ParseLine(f[i - 1], w[i])
                /\ LET s == Flush(f[Len(w)])
                   IN ParseWgQuickRaw(w) = IF s.failed \/ s.key = <<>> THEN <<>> ELSE <<s>>
<1> DEFINE parsed[i \in 0 .. Len(w)] == IF i = 0 THEN NothingParsed ELSE ParseLine(parsed[i - 1], w[i])
           s == Flush(parsed[Len(w)])
<1>1. \E f : f = [i \in 0 .. Len(w) |-> IF i = 0 THEN NothingParsed ELSE ParseLine(f[i - 1], w[i])]
  BY ParsingGoesOn
<1>2. parsed = [i \in 0 .. Len(w) |-> IF i = 0 THEN NothingParsed ELSE ParseLine(parsed[i - 1], w[i])]
  BY <1>1, Zenon DEF parsed
<1>3. ParseWgQuickRaw(w) = IF s.failed \/ s.key = <<>> THEN <<>> ELSE <<s>>
  BY Zenon DEF ParseWgQuickRaw
<1> HIDE DEF parsed
<1>4. 0 \in 0 .. Len(w) /\ \A i \in 1 .. Len(w) : i \in 0 .. Len(w) /\ i # 0
  OBVIOUS
<1>5. parsed[0] = NothingParsed
  BY <1>2, <1>4, Zenon
<1>6. \A i \in 1 .. Len(w) : parsed[i] = ParseLine(parsed[i - 1], w[i])
  <2> SUFFICES ASSUME NEW i \in 1 .. Len(w) PROVE parsed[i] = ParseLine(parsed[i - 1], w[i])
    OBVIOUS
  <2>1. parsed[i] = IF i = 0 THEN NothingParsed ELSE ParseLine(parsed[i - 1], w[i])
    BY <1>2, <1>4, Zenon
  <2> QED BY <1>4, <2>1
<1> QED BY <1>3, <1>5, <1>6

(* Every line is read as what it says where it stands.                     *)
LEMMA LineRead ==
  ASSUME NEW w, IsWgFile(w), NEW m \in Nat, m + 1 \in DOMAIN w, NEW s,
         s.failed = TRUE \/ ReadTo(w, m, s), NEW t, t = ParseLine(s, w[m + 1])
  PROVE  t.failed = TRUE \/ ReadTo(w, m + 1, t)
<1> DEFINE line == w[m + 1]
<1>1. CASE s.failed = TRUE
  BY <1>1, Zenon DEF ParseLine
<1>2. CASE ReadTo(w, m, s)
  <2>1. s \in WgState(w)
    BY <1>2 DEF ReadTo
  <2>2. s.failed = FALSE /\ s.section \in {"none", "Interface", "Peer"} /\ Failed(s).failed = TRUE
    BY <2>1, Flushed DEF WgState
  <2>3. line.is \in {"header", "pair", "junk"}
    BY WgLines DEF IsWgLine
  <2>4. CASE line.is = "header"
    <3>1. t = ParseHeader(s, line)
      BY <2>2, <2>4 DEF ParseLine
    <3> QED BY <1>2, <2>4, <3>1, HeaderRead
  <2>5. CASE line.is = "junk"
    <3>1. t = Failed(s)
      BY <2>2, <2>5 DEF ParseLine
    <3> QED BY <2>2, <3>1
  <2>6. CASE line.is = "pair" /\ s.section = "none"
    <3>1. t = s
      BY <2>2, <2>6 DEF ParseLine
    <3> QED BY <1>2, <2>6, <3>1, StrayRead
  <2>7. CASE line.is = "pair" /\ s.section # "none"
    <3>1. t = IF s.section = "Interface" THEN ParseInterface(s, line) ELSE ParsePeer(s, line)
      BY <2>2, <2>7 DEF ParseLine
    <3> QED BY <1>2, <2>7, <3>1, PairRead
  <2> QED BY <2>3, <2>4, <2>5, <2>6, <2>7
<1> QED BY <1>1, <1>2

(* What is read of a file is what it says.                                 *)
LEMMA FileRead ==
  ASSUME NEW w, IsWgFile(w), ParseWgQuickRaw(w) # <<>>
  PROVE  \E s : /\ ParseWgQuickRaw(w) = <<s>>
                /\ s.key = LastText(Values(w, Interfaces(w), "PrivateKey"))
                /\ s.addresses = Values(w, Interfaces(w), "Address")
                /\ s.servers = Values(w, Interfaces(w), "DNS")
                /\ s.peers = PeersOf(w) /\ s \in WgState(w)
<1>0. Len(w) \in Nat /\ DOMAIN w = 1 .. Len(w)
  BY WgLines
<1>1. PICK f : /\ f[0] = NothingParsed
               /\ \A i \in 1 .. Len(w) : f[i] = ParseLine(f[i - 1], w[i])
               /\ LET s == Flush(f[Len(w)])
                  IN ParseWgQuickRaw(w) = IF s.failed \/ s.key = <<>> THEN <<>> ELSE <<s>>
  BY <1>0, ParsedIs
<1> DEFINE S == {m \in Nat : m <= Len(w) => FailedOrRead(w, m, f[m])}
<1>2. 0 \in S
  <2>1. NothingParsed \in WgState(w)
    BY DEF NothingParsed, WgState, LastTexts
  <2>2. \A key : Val(w, 0, Interfaces(w), key) = <<>>
    BY SofarNone DEF Val
  <2>3. InterfaceRead(w, 0, NothingParsed)
    BY <2>2 DEF InterfaceRead, NothingParsed, LastText
  <2>4. PeersRead(w, 0, NothingParsed)
    BY DEF PeersRead, NothingParsed
  <2> QED BY <1>1, <2>1, <2>3, <2>4 DEF ReadTo, FailedOrRead
<1>3. ASSUME NEW m \in Nat, m \in S PROVE m + 1 \in S
  <2> SUFFICES ASSUME m + 1 <= Len(w) PROVE FailedOrRead(w, m + 1, f[m + 1])
    OBVIOUS
  <2>1. m <= Len(w) /\ m + 1 \in 1 .. Len(w) /\ (m + 1) - 1 = m
    BY <1>0
  <2>2. f[m + 1] = ParseLine(f[m], w[m + 1])
    <3>1. f[m + 1] = ParseLine(f[(m + 1) - 1], w[m + 1])
      BY <1>1, <2>1, Zenon
    <3> QED BY <2>1, <3>1
  <2>3. FailedOrRead(w, m, f[m])
    BY <1>3, <2>1
  <2>4. m + 1 \in DOMAIN w
    BY <1>0, <2>1
  <2> QED BY <2>2, <2>3, <2>4, LineRead DEF FailedOrRead
<1> HIDE DEF S
<1>4. Len(w) \in S
  BY <1>0, <1>2, <1>3, Induction
<1> DEFINE e == f[Len(w)]
           s == Flush(e)
<1>5. e.failed = TRUE \/ ReadTo(w, Len(w), e)
  BY <1>0, <1>4 DEF S, FailedOrRead
<1>6. ParseWgQuickRaw(w) = <<s>> /\ s.failed # TRUE
  BY <1>1, Zenon
<1>7. e.failed # TRUE
  <2>1. \A x : Flush(x).failed = x.failed
    BY DEF Flush
  <2> QED BY <1>6, <2>1, Zenon DEF s
<1> HIDE DEF e
<1>8. ReadTo(w, Len(w), e) /\ e \in WgState(w)
  BY <1>5, <1>7 DEF ReadTo
<1>9. /\ s.peers = e.peers \o e.current /\ s.key = e.key /\ s.addresses = e.addresses /\ s.servers = e.servers
      /\ s \in WgState(w)
  BY <1>8, Flushed
<1> HIDE DEF s
<1>10. e.peers \o e.current = Sofar(PeersTo(w, Len(w)), Len(w))
  <2>1. Len(w) \in 0 .. Len(w)
    BY <1>0
  <2> QED BY <1>8, <2>1, AllPeers
<1>11. Sofar(PeersTo(w, Len(w)), Len(w)) = PeersOf(w)
  <2>1. \A i : PeerTo(w, Len(w), i) = PeerUnder(w, i)
    BY ValAll DEF PeerTo, PeerUnder
  <2>2. PeersTo(w, Len(w)) = [i \in DOMAIN w |-> IF i \in Headers(w, "Peer") THEN <<PeerUnder(w, i)>> ELSE <<>>]
    BY <2>1 DEF PeersTo
  <2>3. [j \in 1 .. Len(w) |-> PeersTo(w, Len(w))[j]] = PeersTo(w, Len(w))
    BY <1>0 DEF PeersTo
  <2> QED BY <2>2, <2>3, Zenon DEF Sofar, PeersOf
<1>12. /\ e.key = LastText(Values(w, Interfaces(w), "PrivateKey"))
       /\ e.addresses = Values(w, Interfaces(w), "Address")
       /\ e.servers = Values(w, Interfaces(w), "DNS")
  <2>1. \A key : Val(w, Len(w), Interfaces(w), key) = Values(w, Interfaces(w), key)
    BY ValAll
  <2> QED BY <1>8, <2>1 DEF ReadTo, InterfaceRead
<1> QED BY <1>6, <1>9, <1>10, <1>11, <1>12

-----------------------------------------------------------------------------
(* A text without references is left as it is (substitute_env_vars).       *)
LEMMA LiteralIsItself ==
  ASSUME NEW t, IsList(t), Literal(t), NEW env, IsEnvironment(env)
  PROVE  SubstituteEnvVars(t, env) = <<t>>
<1> DEFINE P == Pieces(t, env)
           h == Reading(P, Meanings(t, env))
           g == Reading(P, [r \in Refs(P) |-> <<>>])
<1>1. IsText(t)
  BY DEF IsText, Literal
<1>2. t \in Seq(P) /\ SubstituteEnvVars(t, env) = Mapped(h, t)
  BY <1>1, PiecesClosed, SubstitutionIs
<1> HIDE DEF P
<1>3. \A i \in DOMAIN t : t[i] \in P /\ ~IsRef(t[i])
  BY <1>2 DEF Literal
<1>4. \A i \in DOMAIN t : h[t[i]] = << <<t[i]>> >> /\ g[t[i]] = << <<t[i]>> >>
  BY <1>3 DEF Reading
<1> HIDE DEF h
<1>5. <<t>> \in Maybe(P) /\ Bind(<<t>>, g) = <<t>>
  <2>1. <<t>> \in Maybe(P)
    BY <1>2 DEF Maybe
  <2>2. Bind(<<t>>, g) = IF <<t>> # <<>> /\ Literal(<<t>>[1]) THEN <<t>> ELSE <<>>
    BY <2>1, LiteralStays
  <2> HIDE DEF g
  <2> QED BY <2>1, <2>2, Just
<1> HIDE DEF g
<1>6. Mapped(h, t) = Mapped(g, t)
  <2>1. \A i \in DOMAIN t : h[t[i]] = g[t[i]]
    BY <1>4
  <2>2. [i \in DOMAIN t |-> h[t[i]][1]] = [i \in DOMAIN t |-> g[t[i]][1]]
    BY <2>1
  <2> QED BY <2>1, <2>2 DEF Mapped
<1>7. Bind(<<t>>, g) = Mapped(g, t)
  BY Just DEF Bind
<1> QED BY <1>2, <1>5, <1>6, <1>7

(* A sequence is a list.                                                   *)
LEMMA SeqIsList ==
  ASSUME NEW V, NEW x \in Seq(V)
  PROVE  IsList(x)
<1>1. Len(x) \in Nat /\ x \in [1 .. Len(x) -> V] /\ \A i \in 1 .. Len(x) : x[i] \in ToSet(x)
  BY DEF ToSet
<1>2. x \in [1 .. Len(x) -> ToSet(x)]
  BY <1>1
<1> QED BY <1>1, <1>2 DEF IsList

(* What an import makes of what it read.                                   *)
Written(s, name, ifname) ==
  [name |-> name, description |-> <<Word("imported", 50, "other")>>, moves |-> <<>>,
   vifs |-> <<WgVif(ifname, s.addresses)>>, gateway |-> <<>>, routes |-> <<>>,
   servers |-> s.servers, search |-> <<>>,
   wireguard |-> <<[key |-> s.key, peers |-> s.peers]>>,
   environment |-> [v \in Var |-> <<>>]]

(* It writes that, after the rules of the loader.                          *)
LEMMA ImportIs ==
  ASSUME NEW w, NEW name, NEW ifname, NEW c, <<c>> = ImportWg(w, name, ifname),
         NEW s, ParseWgQuickRaw(w) = <<s>>
  PROVE  c = Written(s, name, ifname) /\ Validate(c)
<1> DEFINE e == ParseWgQuick(w, name, ifname)
<1>1. DOMAIN <<s>> = {1} /\ <<s>>[1] = s
  OBVIOUS
<1>2. e = [i \in DOMAIN <<s>> |-> Written(<<s>>[i], name, ifname)]
  BY DEF ParseWgQuick, Each, Written
<1>3. e = <<Written(s, name, ifname)>>
  <2> DEFINE x == Written(s, name, ifname)
  <2>1. e = [i \in {1} |-> x]
    BY <1>1, <1>2
  <2> HIDE DEF x, e
  <2>2. [i \in {1} |-> x] \in Seq({x}) /\ Len([i \in {1} |-> x]) = 1 /\ [i \in {1} |-> x][1] = x
    <3>1. {1} = 1 .. 1 /\ 1 \in Nat
      OBVIOUS
    <3>2. [i \in 1 .. 1 |-> x] \in Seq({x}) /\ Len([i \in 1 .. 1 |-> x]) = 1 /\ [i \in 1 .. 1 |-> x][1] = x
      OBVIOUS
    <3> QED BY <3>1, <3>2, Zenon
  <2>3. \A y : y \in Seq({x}) /\ Len(y) = 1 /\ y[1] = x => y = <<x>>
    OBVIOUS
  <2>4. e = <<x>>
    BY <2>1, <2>2, <2>3, Zenon
  <2> QED BY <2>4 DEF x
<1>4. <<c>> = e /\ Validate(e[1])
  <2>1. <<c>> # <<>>
    OBVIOUS
  <2> QED BY <2>1, Zenon DEF ImportWg
<1> HIDE DEF e
<1> QED BY <1>3, <1>4

(* A file that cannot be read is not imported (import_wg).                 *)
LEMMA NothingImported ==
  ASSUME NEW w, NEW name, NEW ifname, ImportWg(w, name, ifname) # <<>>
  PROVE  ParseWgQuickRaw(w) # <<>>
<1> SUFFICES ASSUME ParseWgQuickRaw(w) = <<>> PROVE ImportWg(w, name, ifname) = <<>>
  OBVIOUS
<1>1. ParseWgQuick(w, name, ifname) = <<>>
  BY DEF ParseWgQuick, Each
<1> QED BY <1>1, Zenon DEF ImportWg

(* The texts of an import are lists, and have no references.               *)
LEMMA ImportIsSound ==
  ASSUME NEW w, IsWgFile(w), NEW name, IsList(name), NEW ifname, IsList(ifname),
         NEW s \in WgState(w), NEW c, c = Written(s, name, ifname), Validate(c)
  PROVE  /\ \A t \in TextsOf(c) : Literal(t)
         /\ \A t \in LastTexts(w) : IsList(t)
         /\ s.peers \in Seq(PeerOf(w)) /\ s.addresses \in Seq(Texts(w)) /\ s.servers \in Seq(Texts(w))
         /\ s.key \in LastTexts(w)
<1>1. /\ s.peers \in Seq(PeerOf(w)) /\ s.addresses \in Seq(Texts(w)) /\ s.servers \in Seq(Texts(w))
      /\ s.key \in LastTexts(w)
  BY DEF WgState
<1>2. ASSUME NEW t \in LastTexts(w) PROVE IsList(t)
  <2>1. CASE t = <<>>
    BY <2>1 DEF IsList, ToSet
  <2>2. CASE t # <<>>
    <3>1. PICK j \in DOMAIN w : t \in ToSet(w[j].values)
      BY <2>2 DEF LastTexts, Texts
    <3> QED BY <3>1, WgLines DEF IsWgLine
  <2> QED BY <2>1, <2>2
<1> DEFINE v == WgVif(ifname, s.addresses)
           tunnel == [key |-> s.key, peers |-> s.peers]
<1>3. /\ c.moves = <<>> /\ c.vifs = <<v>> /\ c.gateway = <<>> /\ c.routes = <<>>
      /\ c.wireguard = <<tunnel>> /\ c.description = <<Word("imported", 50, "other")>>
  BY DEF Written
<1>4. v.peer = <<>> /\ IsList(v.addresses) /\ v.type = <<Word("wireguard", 9, "letters")>>
  <2> QED BY <1>1, SeqIsList DEF WgVif
<1> HIDE DEF v, tunnel
<1>5. /\ IsList(<<>>) /\ IsOptional(<<>>) /\ \A x : IsList(<<x>>) /\ IsOptional(<<x>>) /\ ToSet(<<x>>) = {x}
      /\ ToSet(<<>>) = {}
  BY DEF IsList, IsOptional, ToSet
<1>6. NamesApart(c)
  <2>1. \A i \in DOMAIN c.vifs : IsOptional(c.vifs[i].peer)
    BY <1>3, <1>4, <1>5
  <2> QED BY <1>3, <1>5, <2>1, RulesKeepApart DEF Validate
<1>7. ~IsType(v.type, "veth")
  BY <1>4 DEF IsType, Word
<1>8. Literal(c.description)
  BY <1>3 DEF Literal, IsRef, Word
<1>9. \A u \in ToSet(c.vifs) : u = v
  BY <1>3, <1>5
<1>10. Regular(c)
  BY <1>3, <1>4, <1>5, <1>6, <1>7, <1>9 DEF Regular
<1> QED BY <1>1, <1>2, <1>8, <1>10, SoundIsLiteral DEF Sound

(* The loader leaves an import as it is.                                   *)
LEMMA ImportStays ==
  ASSUME NEW w, IsWgFile(w), NEW name, IsList(name), NEW ifname, IsList(ifname),
         NEW s \in WgState(w), NEW c, c = Written(s, name, ifname), Validate(c)
  PROVE  FromFile(<<c>>) = <<c>>
<1> DEFINE S(t) == SubstituteEnvVars(t, c.environment)
           Value(t) == S(t)[1]
           d == MapTexts(c, Value)
<1>0. /\ \A t \in TextsOf(c) : Literal(t)
      /\ \A t \in LastTexts(w) : IsList(t)
      /\ s.peers \in Seq(PeerOf(w)) /\ s.addresses \in Seq(Texts(w)) /\ s.servers \in Seq(Texts(w))
      /\ s.key \in LastTexts(w)
  BY ImportIsSound
<1>1. IsEnvironment(c.environment)
  BY DEF Written, IsEnvironment, IsOptional, IsList, ToSet
<1>2. ASSUME NEW t, t \in TextsOf(c), IsList(t) PROVE S(t) = <<t>> /\ Value(t) = t
  <2>1. S(t) = <<t>>
    BY <1>0, <1>1, <1>2, LiteralIsItself
  <2> QED BY <2>1, Just
<1> DEFINE v == WgVif(ifname, s.addresses)
           tunnel == [key |-> s.key, peers |-> s.peers]
           type == <<Word("wireguard", 9, "letters")>>
<1>3. /\ c.name = name /\ c.description = <<Word("imported", 50, "other")>>
      /\ c.moves = <<>> /\ c.vifs = <<v>> /\ c.gateway = <<>> /\ c.routes = <<>>
      /\ c.servers = s.servers /\ c.search = <<>> /\ c.wireguard = <<tunnel>>
      /\ DOMAIN c = {"name", "description", "moves", "vifs", "gateway", "routes", "servers",
                     "search", "wireguard", "environment"}
      /\ c = [k \in DOMAIN c |-> c[k]]
  BY DEF Written
<1>4. /\ v.name = ifname /\ v.type = type /\ v.peer = <<>> /\ v.addresses = s.addresses
      /\ DOMAIN v = {"name", "type", "peer", "addresses"} /\ v = [k \in DOMAIN v |-> v[k]]
      /\ tunnel.key = s.key /\ tunnel.peers = s.peers
      /\ DOMAIN tunnel = {"key", "peers"} /\ tunnel = [k \in DOMAIN tunnel |-> tunnel[k]]
  BY DEF WgVif
<1>5. /\ IsList(c.name) /\ IsList(c.description) /\ IsList(type)
  BY <1>3 DEF IsList, ToSet
<1>6. \A x : x \in Seq(Texts(w)) => \A t \in ToSet(x) : IsList(t)
  BY <1>0 DEF ToSet, LastTexts
<1> HIDE DEF v, tunnel, type, S, Value, d
<1>7. \A x : x \in ToSet(<<x>>)
  BY DEF ToSet
<1>8. /\ c.name \in TextsOf(c) /\ c.description \in TextsOf(c)
      /\ \A t \in ToSet(s.servers) : t \in TextsOf(c)
  BY <1>3 DEF TextsOf
<1>9. /\ ifname \in TextsOf(c) /\ type \in TextsOf(c)
      /\ \A t \in ToSet(s.addresses) : t \in TextsOf(c)
  <2>1. v \in ToSet(c.vifs)
    BY <1>3, <1>7
  <2>2. \A u \in ToSet(c.vifs) : \A t \in {u.name, u.type} \cup ToSet(u.peer) \cup ToSet(u.addresses) : t \in TextsOf(c)
    BY DEF TextsOf
  <2> QED BY <1>4, <2>1, <2>2
<1>10. /\ s.key \in TextsOf(c)
       /\ \A p \in ToSet(s.peers) : p.key \in TextsOf(c) /\ \A x \in {p.psk, p.endpoint, p.allowed} : \A t \in ToSet(x) : t \in TextsOf(c)
  <2>1. tunnel \in ToSet(c.wireguard)
    BY <1>3, <1>7
  <2>2. \A u \in ToSet(c.wireguard) :
          \A t \in {u.key} \cup UNION {{p.key} \cup UNION {ToSet(x) : x \in {p.psk, p.endpoint, p.allowed}} : p \in ToSet(u.peers)} :
            t \in TextsOf(c)
    BY DEF TextsOf
  <2>3. \A t \in {s.key} \cup UNION {{p.key} \cup UNION {ToSet(x) : x \in {p.psk, p.endpoint, p.allowed}} : p \in ToSet(s.peers)} :
          t \in TextsOf(c)
    BY <1>4, <2>1, <2>2
  <2> QED BY <2>3
<1>11. \A p \in ToSet(s.peers) : /\ p \in PeerOf(w) /\ p.key \in LastTexts(w)
                                 /\ \A x \in {p.psk, p.endpoint, p.allowed} : x \in Seq(Texts(w))
  <2>1. \A p \in ToSet(s.peers) : p \in PeerOf(w)
    BY <1>0 DEF ToSet
  <2> QED BY <2>1 DEF PeerOf
(* Each text is its own value, and so is each list of texts.               *)
<1>12. /\ Value(c.name) = c.name /\ Value(c.description) = c.description
       /\ Value(ifname) = ifname /\ Value(type) = type /\ Value(s.key) = s.key
       /\ \A p \in ToSet(s.peers) : Value(p.key) = p.key
  BY <1>0, <1>2, <1>5, <1>8, <1>9, <1>10, <1>11
<1>13. ASSUME NEW x \in Seq(Texts(w)), \A t \in ToSet(x) : t \in TextsOf(c)
       PROVE  Each(x, Value) = x
  <2>1. \A i \in DOMAIN x : x[i] \in ToSet(x) /\ Value(x[i]) = x[i]
    BY <1>2, <1>6, <1>13 DEF ToSet
  <2>2. Each(x, Value) = [i \in DOMAIN x |-> x[i]]
    BY <2>1 DEF Each
  <2> QED BY <2>2
<1>14. /\ Each(s.servers, Value) = s.servers /\ Each(s.addresses, Value) = s.addresses
       /\ \A p \in ToSet(s.peers) : /\ Each(p.psk, Value) = p.psk /\ Each(p.endpoint, Value) = p.endpoint
                                    /\ Each(p.allowed, Value) = p.allowed
  BY <1>0, <1>8, <1>9, <1>10, <1>11, <1>13
<1>15. Each(<<>>, Value) = <<>>
  BY DEF Each
<1>16. \A t \in TextsOf(c) : IsList(t)
  <2> SUFFICES ASSUME NEW t \in TextsOf(c) PROVE IsList(t)
    OBVIOUS
  <2> DEFINE lists == UNION {ToSet(x) : x \in {c.moves, c.gateway, c.servers, c.search}}
             ofVifs == UNION {{u.name, u.type} \cup ToSet(u.peer) \cup ToSet(u.addresses) : u \in ToSet(c.vifs)}
             ofRoutes == UNION {{r.destination, r.gateway} : r \in ToSet(c.routes)}
             ofTunnel == UNION {{u.key} \cup UNION {{p.key} \cup UNION {ToSet(x) : x \in {p.psk, p.endpoint, p.allowed}}
                                                       : p \in ToSet(u.peers)} : u \in ToSet(c.wireguard)}
  <2>1. t \in {c.name, c.description} \cup lists \cup ofVifs \cup ofRoutes \cup ofTunnel
    BY DEF TextsOf
  <2>2. ToSet(<<>>) = {} /\ \A x : ToSet(<<x>>) = {x}
    BY DEF ToSet
  <2>3. t \in lists => IsList(t)
    <3>1. t \in lists => t \in ToSet(s.servers)
      BY <1>3, <2>2
    <3> QED BY <1>0, <1>6, <3>1
  <2>4. t \in ofVifs => IsList(t)
    <3>1. t \in ofVifs => t \in {v.name, v.type} \cup ToSet(v.peer) \cup ToSet(v.addresses)
      BY <1>3, <2>2
    <3>2. t \in ofVifs => t \in {ifname, type} \cup ToSet(s.addresses)
      BY <1>4, <2>2, <3>1
    <3> HIDE DEF ofVifs
    <3> QED BY <1>0, <1>5, <1>6, <3>2
  <2>5. t \notin ofRoutes
    BY <1>3, <2>2
  <2>6. t \in ofTunnel => IsList(t)
    <3>1. t \in ofTunnel => t \in {tunnel.key} \cup UNION {{p.key} \cup UNION {ToSet(x) : x \in {p.psk, p.endpoint, p.allowed}}
                                                             : p \in ToSet(tunnel.peers)}
      BY <1>3, <2>2
    <3>2. t \in ofTunnel => \/ t = s.key
                            \/ \E p \in ToSet(s.peers) : t = p.key \/ \E x \in {p.psk, p.endpoint, p.allowed} : t \in ToSet(x)
      BY <1>4, <3>1
    <3> HIDE DEF ofTunnel
    <3> QED BY <1>0, <1>6, <1>11, <3>2
  <2> HIDE DEF lists, ofVifs, ofRoutes, ofTunnel
  <2> QED BY <1>5, <2>1, <2>3, <2>4, <2>5, <2>6
(* Field by field, the texts replaced are those that were there.           *)
<1> DEFINE Vif(u) == [u EXCEPT !.name = Value(@), !.type = Value(@),
                               !.peer = Each(@, Value), !.addresses = Each(@, Value)]
           Peer(p) == [p EXCEPT !.key = Value(@), !.psk = Each(@, Value),
                                !.endpoint = Each(@, Value), !.allowed = Each(@, Value)]
           Wg(u) == [u EXCEPT !.key = Value(@), !.peers = Each(@, Peer)]
<1>17. /\ DOMAIN d = DOMAIN c /\ d = [k \in DOMAIN d |-> d[k]] /\ d.environment = c.environment
       /\ d.name = Value(c.name) /\ d.description = Value(c.description)
       /\ d.moves = Each(c.moves, Value) /\ d.gateway = Each(c.gateway, Value)
       /\ d.servers = Each(c.servers, Value) /\ d.search = Each(c.search, Value)
  <2>1. d = [c EXCEPT !.name = Value(@), !.description = Value(@), !.moves = Each(@, Value),
                      !.vifs = d.vifs, !.gateway = Each(@, Value), !.routes = d.routes,
                      !.servers = Each(@, Value), !.search = Each(@, Value), !.wireguard = d.wireguard]
    BY <1>3 DEF d, MapTexts
  <2>2. DOMAIN d = DOMAIN c
    BY <2>1, Zenon
  <2>3. d = [k \in DOMAIN d |-> d[k]]
    BY <1>3, <2>1, <2>2
  <2>4. d.environment = c.environment /\ d.name = Value(c.name) /\ d.description = Value(c.description)
    BY <1>3, <2>1
  <2>5. d.moves = Each(c.moves, Value) /\ d.gateway = Each(c.gateway, Value)
    BY <1>3, <2>1
  <2>6. d.servers = Each(c.servers, Value) /\ d.search = Each(c.search, Value)
    BY <1>3, <2>1
  <2> QED BY <2>2, <2>3, <2>4, <2>5, <2>6
<1>18. /\ d.vifs = [i \in DOMAIN c.vifs |-> Vif(c.vifs[i])]
       /\ d.wireguard = [i \in DOMAIN c.wireguard |-> Wg(c.wireguard[i])]
  BY <1>3 DEF d, MapTexts, Each
<1>19. d.routes = <<>>
  BY <1>3 DEF d, MapTexts, Each
<1>20. Vif(v) = v
  BY <1>4, <1>12, <1>14, <1>15
<1>21. \A p \in ToSet(s.peers) : Peer(p) = p
  BY <1>11, <1>12, <1>14 DEF PeerOf
<1>22. Wg(tunnel) = tunnel
  <2>1. \A i \in DOMAIN s.peers : s.peers[i] \in ToSet(s.peers)
    BY DEF ToSet
  <2>2. Each(s.peers, Peer) = [i \in DOMAIN s.peers |-> Peer(s.peers[i])]
    BY DEF Each
  <2> HIDE DEF Peer
  <2>3. [i \in DOMAIN s.peers |-> Peer(s.peers[i])] = [i \in DOMAIN s.peers |-> s.peers[i]]
    BY <1>21, <2>1
  <2>4. [i \in DOMAIN s.peers |-> s.peers[i]] = s.peers
    BY <1>0
  <2>5. Each(s.peers, Peer) = s.peers
    BY <2>2, <2>3, <2>4, Zenon
  <2> QED BY <1>4, <1>12, <2>5
<1> HIDE DEF Vif, Peer, Wg
<1>23. d.vifs = c.vifs /\ d.wireguard = c.wireguard
  <2>1. \A x : [i \in DOMAIN <<x>> |-> <<x>>[i]] = <<x>>
    OBVIOUS
  <2>2. /\ \A i \in DOMAIN c.vifs : c.vifs[i] = v
        /\ \A i \in DOMAIN c.wireguard : c.wireguard[i] = tunnel
    <3>1. \A x : \A i \in DOMAIN <<x>> : <<x>>[i] = x
      OBVIOUS
    <3>2. c.vifs = <<v>> /\ c.wireguard = <<tunnel>>
      BY <1>3, Zenon
    <3> QED BY <3>1, <3>2, Zenon
  <2>3. /\ d.vifs = [i \in DOMAIN c.vifs |-> c.vifs[i]]
        /\ d.wireguard = [i \in DOMAIN c.wireguard |-> c.wireguard[i]]
    BY <1>18, <1>20, <1>22, <2>2
  <2> QED BY <1>3, <2>1, <2>3
<1>24. /\ d.name = c.name /\ d.description = c.description /\ d.environment = c.environment
       /\ d.moves = c.moves /\ d.gateway = c.gateway /\ d.servers = c.servers /\ d.search = c.search
  <2>1. d.moves = <<>> /\ d.gateway = <<>> /\ d.search = <<>>
    BY <1>3, <1>15, <1>17, Zenon
  <2>2. d.servers = s.servers
    BY <1>3, <1>14, <1>17, Zenon
  <2> QED BY <1>3, <1>12, <1>17, <2>1, <2>2
<1>25. d.routes = c.routes
  BY <1>3, <1>19
<1>26. d = c
  <2>1. \A k \in DOMAIN c : d[k] = c[k]
    BY <1>3, <1>23, <1>24, <1>25
  <2>2. d = [k \in DOMAIN c |-> d[k]] /\ c = [k \in DOMAIN c |-> c[k]]
    BY <1>3, <1>17, Zenon
  <2> QED BY <2>1, <2>2
<1>27. SubstituteEnvironmentVariables(c) = <<d>>
  <2>1. ~\E t \in TextsOf(c) : S(t) = <<>>
    BY <1>2, <1>16, Just
  <2> QED BY <2>1, Zenon DEF SubstituteEnvironmentVariables, S, Value, d
<1>28. SubstituteEnvironmentVariables(c) = <<c>>
  BY <1>26, <1>27, Zenon
<1> QED BY <1>28, Just DEF FromFile

(* Whatever wg-quick file is imported under whatever name: each peer has   *)
(* the attributes between its header and the next header, the link and the *)
(* tunnel have those of all interface sections, the last of each where one *)
(* value counts, and the daemon loads the file as it was written           *)
(* (parse_wg_quick_raw, import_wg, from_file).                             *)
THEOREM ImportHolds == Spec => []ImportIsFaithful
<1>1. ImportIsFaithful
  <2> SUFFICES ASSUME NEW n \in Namespace, NEW c \in ToSet(file[n]), NEW w \in Imports,
                      <<c>> = ImportWg(w.lines, w.name, w.ifname)
               PROVE  /\ FromFile(<<c>>) = <<c>>
                      /\ c.wireguard = <<[key |-> LastText(Values(w.lines, Interfaces(w.lines), "PrivateKey")),
                                          peers |-> PeersOf(w.lines)]>>
                      /\ c.vifs[1].addresses = Values(w.lines, Interfaces(w.lines), "Address")
                      /\ c.servers = Values(w.lines, Interfaces(w.lines), "DNS")
    BY DEF ImportIsFaithful, Interfaces
  <2>1. IsWgFile(w.lines) /\ IsList(w.name) /\ IsList(w.ifname)
    BY ProvisioningAssumption DEF IsWgFile
  <2>2. ParseWgQuickRaw(w.lines) # <<>>
    <3>1. ImportWg(w.lines, w.name, w.ifname) # <<>>
      BY Just
    <3> QED BY <3>1, NothingImported
  <2>3. PICK s : /\ ParseWgQuickRaw(w.lines) = <<s>>
                 /\ s.key = LastText(Values(w.lines, Interfaces(w.lines), "PrivateKey"))
                 /\ s.addresses = Values(w.lines, Interfaces(w.lines), "Address")
                 /\ s.servers = Values(w.lines, Interfaces(w.lines), "DNS")
                 /\ s.peers = PeersOf(w.lines) /\ s \in WgState(w.lines)
    BY <2>1, <2>2, FileRead
  <2>4. c = Written(s, w.name, w.ifname) /\ Validate(c)
    BY <2>3, ImportIs
  <2>5. FromFile(<<c>>) = <<c>>
    BY <2>1, <2>3, <2>4, ImportStays
  <2>6. /\ c.wireguard = <<[key |-> s.key, peers |-> s.peers]>> /\ c.servers = s.servers
        /\ c.vifs[1].addresses = s.addresses
    BY <2>4 DEF Written, WgVif
  <2> QED BY <2>3, <2>5, <2>6
<1> QED BY <1>1, PTL
=============================================================================
