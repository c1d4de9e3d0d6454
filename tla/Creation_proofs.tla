------------------------- MODULE Creation_proofs -------------------------
(***************************************************************************)
(* What a creation leaves behind, for every library of files: a namespace  *)
(* that nothing disturbs becomes active with everything its configuration  *)
(* asks for, whatever happens to the others meanwhile. What a request has  *)
(* not yet done is still left to do (Progress), and no other namespace's   *)
(* requests reach its links (OwnPlaces).                                   *)
(***************************************************************************)
EXTENDS Provisioning_proofs

-----------------------------------------------------------------------------
(* What is left to do for a namespace, and what is there already.          *)

Left(n) == IF work.on = n THEN ToSet(work.todo) ELSE {}

(* The links of a namespace nothing has disturbed are in it or on the      *)
(* host, and no move that is left takes one of another such namespace.     *)
OwnPlaces ==
  cleaning = Running =>
    /\ \A l \in links : l.made \in Namespace \ spoiled => l.at \in {l.made, "host"}
    /\ \A r \in Left(work.on), l \in Listed :
         Moves(r) /\ l.name = r.name => l.made \in spoiled \cup {"host", work.on}

KeyOf(c, v) == IF IsWireguard(v) /\ c.wireguard # <<>> THEN c.wireguard[1].key ELSE <<>>

(* The link is in its namespace, and what it lacks is left to do.          *)
EquippedWith(l, n, c, v, left) ==
  /\ l.at = n /\ l.name = v.name /\ l.made = n
  /\ l.addresses \subseteq ToSet(v.addresses)
  /\ \A a \in ToSet(v.addresses) : a \in l.addresses \/ Do("address", v.name, a) \in left
  /\ l.up \/ Do("up", v.name, v) \in left
  /\ \/ l.key = KeyOf(c, v)
     \/ /\ IsWireguard(v) /\ c.wireguard # <<>>
        /\ Do("configure", v.name, c.wireguard[1]) \in left

Equipped(n, c, v, left, all) == \E l \in all : EquippedWith(l, n, c, v, left)

(* The other end of a pair is on the host.                                 *)
PeerUp(n, v, left, all) ==
  \E l \in all : /\ l.at = "host" /\ l.name = v.peer[1] /\ l.made = n
                 /\ l.up \/ Do("hostUp", v.peer[1], <<>>) \in left

Absent(place, name, all) == \A l \in all : l.at = place => l.name # name

(* A link is still to be made, or a pair is made and still to be moved, or *)
(* it is in its namespace.                                                 *)
ToMake(n, v, left, all) ==
  /\ VifRequest(v) \in left /\ Absent(n, v.name, all)
  /\ IsVeth(v) => Absent("host", v.name, all) /\ Absent("host", v.peer[1], all)

ToMove(n, v, left, all) ==
  /\ IsVeth(v) /\ Do("moveVeth", v.name, v) \in left /\ Absent(n, v.name, all)
  /\ \E l \in all : l.at = "host" /\ l.name = v.name /\ l.made = n /\ l.key = <<>>
  /\ PeerUp(n, v, left, all)

InPlace(n, c, v, left, all) ==
  Equipped(n, c, v, left, all) /\ (IsVeth(v) => PeerUp(n, v, left, all))

VifOk(n, c, v, left, all) ==
  ToMake(n, v, left, all) \/ ToMove(n, v, left, all) \/ InPlace(n, c, v, left, all)

MoveOk(n, x, left, all) ==
  \/ /\ Do("move", x, <<>>) \in left /\ Absent(n, x, all)
     /\ \E l \in all : l.at = "host" /\ l.name = x /\ l.made = "host"
  \/ \E l \in all : l.at = n /\ l.name = x /\ l.made = "host"

UpIn(n, all) == \E l \in all : l.at = n /\ l.up /\ l.addresses # {}

RouteOk(n, d, r, left, all, set) ==
  \/ r \in set \/ Do("route", d.name, r) \in left
  \/ ~(Parses(r.destination) /\ Parses(r.gateway))
  \/ ~UpIn(n, all) /\ \A q \in left : IsSetting(q)

ServersOk(d, left, set) ==
  d.servers # <<>> => Do("dns", d.name, d) \in left \/ set = d.servers

ProgressOf(n, c, d, left, all, set, dns) ==
  /\ \A v \in ToSet(c.vifs) : VifOk(n, c, v, left, all)
  /\ \A x \in ToSet(c.moves) : MoveOk(n, x, left, all)
  /\ \A r \in RoutesIn(d) : RouteOk(n, d, r, left, all, set)
  /\ ServersOk(d, left, dns)

Progress ==
  cleaning = Running =>
    \A n \in mounted \ spoiled : Sensible(built[n][1]) =>
      ProgressOf(n, built[n][1], applied[n][1], Left(n), links, routes[n], servers[n])

Undisturbed == Wellformed /\ OwnPlaces /\ Progress


-----------------------------------------------------------------------------
(* What a request that succeeds leaves of the links, and what it adds.     *)

LinksAfter(f, n, r) ==
  /\ DOMAIN f = links /\ links' = {f[l] : l \in links} \cup MadeBy(n, r)
  /\ Alters(f, n, r)
  /\ ~Moves(r) /\ r.do \notin {"address", "up", "hostUp", "configure"} => \A l \in links : f[l] = l

(* A request that succeeds moves or changes links and adds what it makes.  *)
LEMMA SuccessIs ==
  ASSUME Wellformed, Succeed
  PROVE  \E f : LinksAfter(f, work.on, Head(work.todo))
<1> DEFINE n == work.on
           r == Head(work.todo)
<1>1. work.todo # <<>> /\ Effect(n, r)
  BY DEF Succeed
<1>2. r.do \in {"pair", "wireguard", "create", "route", "dns", "move", "moveVeth",
                "address", "up", "hostUp", "configure"}
  BY <1>1, KnownRequests
<1> HIDE DEF n, r
<1>3. CASE r.do \in {"pair", "wireguard", "create", "route", "dns"}
  <2> DEFINE f == [l \in links |-> l]
  <2>1. DOMAIN f = links /\ {f[l] : l \in links} = links /\ \A l \in links : f[l] = l
    OBVIOUS
  <2> HIDE DEF f
  <2>2. links' = {f[l] : l \in links} \cup MadeBy(n, r)
    BY <1>1, <1>3, <2>1, EffectMakes
  <2>3. Alters(f, n, r)
    BY <1>3, <2>1 DEF Alters, Moves
  <2> QED BY <2>1, <2>2, <2>3 DEF LinksAfter, n, r
<1>4. CASE r.do \notin {"pair", "wireguard", "create", "route", "dns"}
  <2>1. PICK f : DOMAIN f = links /\ links' = {f[k] : k \in links} /\ Alters(f, n, r)
    <3>1. CASE Moves(r)
      BY <1>1, <3>1, EffectMoves DEF Wellformed
    <3>2. CASE ~Moves(r)
      BY <1>1, <1>2, <1>4, <3>2, EffectChanges DEF Moves, Wellformed
    <3> QED BY <3>1, <3>2
  <2>2. MadeBy(n, r) = {}
    BY <1>4 DEF MadeBy
  <2> QED BY <1>2, <1>4, <2>1, <2>2 DEF LinksAfter, Moves, n, r
<1> QED BY <1>3, <1>4

(* The links of a pair are made on the host, all others in the namespace.  *)
LEMMA MadeIs ==
  ASSUME NEW n, NEW r
  PROVE  /\ \A k \in MadeBy(n, r) :
              /\ k.made = n /\ k.addresses = {} /\ k.key = <<>>
              /\ \/ r.do = "pair" /\ k.at = "host" /\ k.name \in {r.name, r.with.peer[1]}
                 \/ r.do \in {"wireguard", "create"} /\ k.at = n /\ k.name = r.name
         /\ r.do = "pair" => /\ \E k \in MadeBy(n, r) : k.at = "host" /\ k.name = r.name
                             /\ \E k \in MadeBy(n, r) : k.at = "host" /\ k.name = r.with.peer[1]
         /\ r.do \in {"wireguard", "create"} => \E k \in MadeBy(n, r) : k.at = n /\ k.name = r.name
<1>1. ASSUME NEW at, NEW name
      PROVE  LET k == Link(at, name, n, r.name) IN
             /\ k.at = at /\ k.name = name /\ k.made = n /\ k.addresses = {} /\ k.key = <<>>
  BY DEF Link
<1>2. CASE r.do = "pair"
  <2>1. MadeBy(n, r) = {Link("host", r.name, n, r.name), Link("host", r.with.peer[1], n, r.name)}
    BY <1>2 DEF MadeBy
  <2> QED BY <1>1, <1>2, <2>1
<1>3. CASE r.do \in {"wireguard", "create"}
  <2>1. MadeBy(n, r) = {Link(n, r.name, n, r.name)}
    BY <1>3 DEF MadeBy
  <2> QED BY <1>1, <1>3, <2>1
<1>4. CASE r.do \notin {"pair", "wireguard", "create"}
  BY <1>4 DEF MadeBy
<1> QED BY <1>2, <1>3, <1>4


-----------------------------------------------------------------------------
(* What is left when the links at a place go: the others, the host's own   *)
(* that return, and, in a namespace without a name, what was there.        *)
LEMMA WhatIsLeft ==
  ASSUME Wellformed, NEW place, place \in mounted \cup {"detached"},
         Unmount(place, links) \/ links' = Destroyed(links, place)
  PROVE  \A k \in links' :
           \/ k \in links /\ k.at # place
           \/ k.at = "host" /\ k.made = "host" /\ k.name \in Physical \cup {<<>>}
           \/ k.at = "detached" /\ place \in held /\ \E l \in links : l.at = place /\ l.made = k.made
<1>0. \A l \in links : l.made = "host" => l.name \in Physical \cup {<<>>}
  BY DEF Wellformed, LinksOk, LinksIn, IsLink
<1>1. CASE links' = Destroyed(links, place)
  <2>1. PICK f : Survive(f, links, place)
    BY DestroyedIs
  <2>2. Kept(links, place) \subseteq links
    BY DEF Kept
  <2>3. ASSUME NEW k \in links'
        PROVE  \/ k \in links /\ k.at # place
               \/ k.at = "host" /\ k.made = "host" /\ k.name \in Physical \cup {<<>>}
    <3>1. PICK l \in Kept(links, place) : k = f[l]
      BY <1>1, <2>1 DEF Survive
    <3> QED BY <1>0, <2>1, <2>2, <3>1 DEF Survive
  <2> QED BY <2>3
<1>2. CASE Unmount(place, links) /\ place \in held
  <2>1. links' = Detach(links, place)
    BY <1>2 DEF Unmount, Detach
  <2>2. PICK f : /\ DOMAIN f = links /\ Detach(links, place) = {f[l] : l \in links}
                 /\ \A l \in links : /\ f[l].made = l.made
                                     /\ f[l].at = IF l.at = place THEN "detached" ELSE l.at
                                     /\ l.at # place => f[l] = l
    BY DetachIs DEF Wellformed, LinksOk
  <2> QED BY <1>2, <2>1, <2>2
<1>3. CASE Unmount(place, links) /\ place \notin held
  BY <1>1, <1>3 DEF Unmount
<1> QED BY <1>1, <1>2, <1>3

(* A link elsewhere stays, unless its other end is where the links go.     *)
LEMMA WhatStays ==
  ASSUME Wellformed, NEW place, Unmount(place, links) \/ links' = Destroyed(links, place),
         NEW l \in links, l.at # place,
         l.made = "host" \/ ~\E k \in links : k.at = place /\ k.made = l.made
  PROVE  l \in links'
<1>1. l.made = "host" \/ ~\E k \in links : k.at = place /\ k.made # "host" /\ Source(k) = Source(l)
  BY DEF Source
<1> QED BY <1>1, OthersStay, OthersStayMounted DEF Wellformed, LinksOk

(* What follows a request that makes no pair moves nothing.                *)
LEMMA FollowMovesNothing ==
  ASSUME NEW c, Regular(c), NEW r \in Makings(c), r.do # "pair"
  PROVE  \A q \in ToSet(Follow(r, c)) : ~Moves(q)
<1> DEFINE S == {q \in Makings(c) : ~Moves(q)}
<1>1. ASSUME NEW v \in ToSet(c.vifs) PROVE Equip(v) \in Seq(S)
  <2> DEFINE first == [i \in DOMAIN v.addresses |-> Do("address", v.name, v.addresses[i])]
             second == <<Do("up", v.name, v)>>
  <2>1. Equip(v) = first \o second
    BY DEF Equip
  <2>2. Do("up", v.name, v) \in S /\ \A a \in ToSet(v.addresses) : Do("address", v.name, a) \in S
    BY StepsAreMakings, DoFields DEF Moves
  <2>3. first \in [DOMAIN v.addresses -> S] /\ second \in Seq(S)
    BY <2>2 DEF ToSet
  <2>4. IsList(v.addresses)
    BY DEF Regular
  <2> HIDE DEF first, second, S
  <2> QED BY <2>1, <2>3, <2>4, ElementWise, Concatenated
<1>2. ASSUME NEW v \in ToSet(c.vifs), IsWireguard(v)
      PROVE  [i \in DOMAIN c.wireguard |-> Do("configure", v.name, c.wireguard[i])] \in Seq(S)
  <2> DEFINE keys == [i \in DOMAIN c.wireguard |-> Do("configure", v.name, c.wireguard[i])]
  <2>1. \A w \in ToSet(c.wireguard) : Do("configure", v.name, w) \in S
    BY <1>2, StepsAreMakings, DoFields DEF Moves
  <2>2. keys \in [DOMAIN c.wireguard -> S]
    BY <2>1 DEF ToSet
  <2>3. IsList(c.wireguard)
    BY DEF Regular, IsOptional
  <2> HIDE DEF keys, S
  <2>4. keys \in Seq(S)
    BY <2>2, <2>3, ElementWise
  <2> QED BY <2>4 DEF keys
<1>3. Follow(r, c) \in Seq(S)
  <2>1. CASE r.do \notin {"moveVeth", "create", "wireguard"}
    BY <2>1 DEF Follow
  <2>2. CASE r.do \in {"moveVeth", "create", "wireguard"}
    <3>1. PICK v \in ToSet(c.vifs) : /\ r.name = v.name /\ r.with = v
                                     /\ r.do = "wireguard" => IsWireguard(v)
      BY <2>2, Kinds, DoFields
    <3>2. CASE r.do = "wireguard"
      <4>1. Follow(r, c) = Equip(v) \o [i \in DOMAIN c.wireguard |-> Do("configure", v.name, c.wireguard[i])]
        BY <3>1, <3>2 DEF Follow
      <4> HIDE DEF S
      <4> QED BY <1>1, <1>2, <3>1, <3>2, <4>1, Concatenated
    <3>3. CASE r.do # "wireguard"
      <4>1. Follow(r, c) = Equip(v)
        BY <2>2, <3>1, <3>3 DEF Follow
      <4> QED BY <1>1, <4>1
    <3> QED BY <3>2, <3>3
  <2> QED BY <2>1, <2>2
<1> HIDE DEF S
<1>4. ToSet(Follow(r, c)) \subseteq S
  BY <1>3, LenProperties DEF ToSet
<1> QED BY <1>4 DEF S

-----------------------------------------------------------------------------
(* No other namespace's requests reach the links of an undisturbed one.    *)

(* At the start all links are the host's own.                              *)
LEMMA OwnPlacesInit == Init => OwnPlaces
<1> SUFFICES ASSUME Init PROVE OwnPlaces
  OBVIOUS
<1>1. \A l \in links : l.made = "host"
  BY DEF Init, Link
<1>2. Left(work.on) = {}
  BY DEF Init, Idle, Left, ToSet
<1> QED BY <1>1, <1>2, ProvisioningAssumption DEF OwnPlaces

(* Where links stay and no new move is asked for, places stay.             *)
LEMMA OwnPlacesFrame ==
  ASSUME OwnPlaces, UNCHANGED <<links, cleaning>>, spoiled \subseteq spoiled',
         \/ work'.on = work.on /\ Left(work.on)' \subseteq Left(work.on)
         \/ \A r \in Left(work.on)' : ~Moves(r)
  PROVE  OwnPlaces'
BY DEF OwnPlaces, Listed

(* A request moves a link from the host into the namespace it is made      *)
(* for.                                                                    *)
LEMMA OwnPlacesOnSuccess ==
  ASSUME Wellformed, OwnPlaces, Succeed
  PROVE  OwnPlaces'
<1> SUFFICES ASSUME NEW n, NEW r, n = work.on, r = Head(work.todo) PROVE OwnPlaces'
  OBVIOUS
<1> DEFINE c == built[n][1]
<1>1. PICK f : LinksAfter(f, n, r)
  BY SuccessIs
<1>2. /\ work.todo # <<>> /\ Can(n, r)
      /\ work' = [work EXCEPT !.todo = Follow(r, applied[n][1]) \o Rest]
      /\ cleaning' = cleaning /\ spoiled' = spoiled
  BY DEF Succeed
<1>3. /\ n \in Namespace /\ Left(n) = {r} \cup ToSet(Rest)
      /\ r \in Settings(applied[n][1]) \cup Makings(c)
      /\ Regular(c) /\ Regular(applied[n][1])
      /\ r \in Makings(c) => applied[n] = built[n]
  BY <1>2, AtWork DEF Left
<1>4. work'.on = n /\ Left(n)' = ToSet(Follow(r, applied[n][1])) \cup ToSet(Rest)
  <2>1. DOMAIN work = {"on", "todo"}
    BY DEF Wellformed, WorkOk
  <2>2. work'.on = n /\ work'.todo = Follow(r, applied[n][1]) \o Rest
    BY <1>2, <2>1
  <2> QED BY <1>2, <2>2, FollowedBy DEF Left
<1>5. \A k \in links' : k \in MadeBy(n, r) \/ \E l \in links : k = f[l]
  BY <1>1 DEF LinksAfter
<1>6. \A q \in ToSet(Follow(r, applied[n][1])) : Moves(q) => r.do = "pair" /\ q.name = r.name
  <2>1. CASE IsSetting(r)
    <3>1. Follow(r, applied[n][1]) = <<>>
      BY <1>3, <2>1, FollowAsks
    <3> QED BY <3>1 DEF ToSet
  <2>2. CASE r.do = "pair"
    <3>1. Follow(r, applied[n][1]) = <<Do("moveVeth", r.name, r.with), Do("hostUp", r.with.peer[1], <<>>)>>
      BY <2>2 DEF Follow
    <3> QED BY <2>2, <3>1, DoFields DEF ToSet, Moves
  <2>3. CASE ~IsSetting(r) /\ r.do # "pair"
    BY <1>3, <2>3, FollowMovesNothing, SettingsAndMakings
  <2> QED BY <2>1, <2>2, <2>3
<1> HIDE DEF c
<1> SUFFICES ASSUME cleaning = Running
             PROVE  /\ \A k \in links' : k.made \in Namespace \ spoiled => k.at \in {k.made, "host"}
                    /\ \A q \in Left(n)', k \in links' :
                         k.at = "host" /\ Moves(q) /\ k.name = q.name => k.made \in spoiled \cup {"host", n}
  BY <1>2, <1>4 DEF OwnPlaces, Listed
<1>o. /\ \A l \in links : l.made \in Namespace \ spoiled => l.at \in {l.made, "host"}
      /\ \A q \in Left(n), l \in links : Moves(q) /\ l.at = "host" /\ l.name = q.name => l.made \in spoiled \cup {"host", n}
  BY DEF OwnPlaces, Listed
<1>7. \A l \in links : /\ f[l].made = l.made /\ f[l].name = l.name
                       /\ f[l].at = l.at \/ (f[l].at = n /\ l.at = "host" /\ Moves(r) /\ l.name = r.name)
  BY <1>1 DEF LinksAfter, Alters, Hit
<1>8. ASSUME NEW k \in links', k.made \in Namespace \ spoiled PROVE k.at \in {k.made, "host"}
  <2>1. CASE k \in MadeBy(n, r)
    BY <2>1, MadeIs
  <2>2. ASSUME NEW l \in links, k = f[l] PROVE k.at \in {k.made, "host"}
    <3>1. "host" \notin Namespace
      BY ProvisioningAssumption
    <3> QED BY <1>3, <1>7, <1>8, <1>o, <2>2, <3>1
  <2> QED BY <1>5, <2>1, <2>2
<1>9. ASSUME NEW q \in Left(n)', NEW k \in links', k.at = "host", Moves(q), k.name = q.name
      PROVE  k.made \in spoiled \cup {"host", n}
  <2>1. CASE k \in MadeBy(n, r)
    BY <2>1, MadeIs
  <2>2. ASSUME NEW l \in links, k = f[l] PROVE k.made \in spoiled \cup {"host", n}
    <3>1. n # "host"
      BY <1>3, ProvisioningAssumption
    <3>2. l.at = "host" /\ l.name = q.name /\ l.made = k.made
      BY <1>7, <1>9, <2>2, <3>1
    <3>3. CASE q \in Left(n)
      BY <1>9, <1>o, <3>2, <3>3
    <3>4. CASE q \notin Left(n)
      <4>1. r.do = "pair" /\ q.name = r.name
        BY <1>3, <1>4, <1>6, <1>9, <3>4
      <4>2. ~IsListed(r.name)
        BY <1>2, <4>1 DEF Can
      <4> QED BY <3>2, <4>1, <4>2 DEF IsListed, Listed
    <3> QED BY <3>3, <3>4
  <2> QED BY <1>5, <2>1, <2>2
<1> QED BY <1>8, <1>9

(* The links at a place that goes.                                         *)
LEMMA OwnPlacesWhenGone ==
  ASSUME Wellformed, OwnPlaces, UNCHANGED <<work, cleaning>>, spoiled \subseteq spoiled',
         NEW place, place \in mounted \cup {"detached"},
         Unmount(place, links) \/ links' = Destroyed(links, place),
         place \in held => place \in spoiled' \cup {"detached"}
  PROVE  OwnPlaces'
<1> SUFFICES ASSUME cleaning = Running
             PROVE  /\ \A k \in links' : k.made \in Namespace \ spoiled' => k.at \in {k.made, "host"}
                    /\ \A r \in Left(work.on), k \in links' :
                         k.at = "host" /\ Moves(r) /\ k.name = r.name => k.made \in spoiled' \cup {"host", work.on}
  BY DEF OwnPlaces, Listed, Left
<1>1. \A k \in links' :
        \/ k \in links /\ k.at # place
        \/ k.at = "host" /\ k.made = "host"
        \/ k.at = "detached" /\ place \in held /\ \E l \in links : l.at = place /\ l.made = k.made
  BY WhatIsLeft
<1>2. /\ \A l \in links : l.made \in Namespace \ spoiled => l.at \in {l.made, "host"}
      /\ \A r \in Left(work.on), l \in links :
           l.at = "host" /\ Moves(r) /\ l.name = r.name => l.made \in spoiled \cup {"host", work.on}
  BY DEF OwnPlaces, Listed
<1>3. place # "host" /\ "host" \notin Namespace /\ "detached" \notin Namespace
  BY ProvisioningAssumption DEF Wellformed, Shape
<1>4. ASSUME NEW k \in links', k.made \in Namespace \ spoiled' PROVE k.at \in {k.made, "host"}
  BY <1>1, <1>2, <1>3, <1>4
<1>5. ASSUME NEW r \in Left(work.on), NEW k \in links', k.at = "host", Moves(r), k.name = r.name
      PROVE  k.made \in spoiled' \cup {"host", work.on}
  BY <1>1, <1>2, <1>5
<1> QED BY <1>4, <1>5

(* A daemon that shuts down runs no more.                                  *)
LEMMA ShutDown ==
  ASSUME Wellformed, Shutdown \/ \E n \in Namespace : CleanUp(n)
  PROVE  cleaning' # Running
<1>1. cleaning' \subseteq Namespace
  <2>1. CASE Shutdown
    BY <2>1 DEF Shutdown
  <2>2. ASSUME NEW n \in Namespace, CleanUp(n) PROVE cleaning' \subseteq Namespace
    BY <2>2, ProvisioningAssumption DEF CleanUp, Wellformed, Shape, Running, None
  <2> QED BY <2>1, <2>2
<1> QED BY <1>1, ProvisioningAssumption DEF Running, None

(* Every step leaves undisturbed namespaces their links.                   *)
LEMMA OwnPlacesStep ==
  ASSUME Wellformed, Wellformed', OwnPlaces, [Next]_vars
  PROVE  OwnPlaces'
<1>i. work = Idle => ToSet(work.todo) = {}
  BY DEF Idle, ToSet
<1>1. CASE UNCHANGED vars
  BY <1>1, OwnPlacesFrame DEF vars, Left
<1>2. ASSUME NEW n \in Namespace, BeginCreation(n) PROVE OwnPlaces'
  <2> DEFINE c == loaded[n][1]
  <2>1. /\ UNCHANGED <<links, cleaning>> /\ work = Idle /\ loaded[n] # <<>>
    BY <1>2 DEF BeginCreation
  <2>2. CASE FitsWithPrefix(c)
    <3>1. work' = [on |-> n, todo |-> Requests(c)]
          /\ spoiled' = spoiled \cup Robbed(c) \cup {m \in {n} : Contended(c)}
      BY <1>2, <2>2 DEF BeginCreation
    <3>2. work'.on = n /\ Left(work.on)' = ToSet(Requests(c))
      BY <3>1 DEF Left
    <3>3. Regular(c)
      BY <2>1, EntriesAreSound DEF Wellformed
    <3>4. ASSUME NEW r \in ToSet(Requests(c)), Moves(r) PROVE r.name \in ToSet(c.moves)
      <4>1. r \in Settings(c) \cup Makings(c) /\ r.do # "moveVeth"
        <5>1. Requests(c) \in Seq(Settings(c) \cup Makings(c)) /\ r.do # "moveVeth"
          BY <3>3, <3>4, RequestsAsk, Zenon
        <5>2. PICK i \in DOMAIN Requests(c) : r = Requests(c)[i]
          BY <3>4 DEF ToSet
        <5> HIDE DEF Requests
        <5> QED BY <5>1, <5>2
      <4>2. r \in Makings(c)
        BY <3>4, <4>1, SettingsAndMakings DEF Moves, IsSetting
      <4> QED BY <3>4, <4>1, <4>2, Kinds, DoFields DEF Moves
    <3> HIDE DEF c
    <3>5. ASSUME NEW r \in ToSet(Requests(c)), NEW l \in Listed, Moves(r), l.name = r.name
          PROVE  l.made \in spoiled' \cup {"host", n}
      BY <3>1, <3>4, <3>5 DEF Robbed
    <3> QED BY <2>1, <3>1, <3>2, <3>5 DEF OwnPlaces, Listed
  <2>3. CASE ~FitsWithPrefix(c)
    <3>1. UNCHANGED <<work, spoiled>>
      BY <1>2, <2>3 DEF BeginCreation
    <3> QED BY <2>1, <3>1, OwnPlacesFrame DEF Left
  <2> QED BY <2>2, <2>3
<1>3. ASSUME NEW n \in Namespace, BeginUpdate(n) PROVE OwnPlaces'
  <2>1. /\ UNCHANGED <<links, cleaning, spoiled>> /\ status[n] = "active"
        /\ work' = [on |-> n, todo |-> ReApply(loaded[n][1])]
    BY <1>3 DEF BeginUpdate
  <2>2. Regular(loaded[n][1])
    <3>1. loaded[n] # <<>>
      BY <2>1 DEF Wellformed, CallOk, None
    <3> QED BY <3>1, EntriesAreSound DEF Wellformed
  <2>3. \A r \in ToSet(ReApply(loaded[n][1])) : ~Moves(r)
    <3>1. \A i \in DOMAIN ReApply(loaded[n][1]) : ReApply(loaded[n][1])[i] \in Settings(loaded[n][1])
      BY <2>2, ReApplyAsks, LenProperties
    <3> QED BY <3>1, SettingsAndMakings DEF ToSet, IsSetting, Moves
  <2>4. Left(work.on)' = ToSet(ReApply(loaded[n][1]))
    BY <2>1 DEF Left
  <2> QED BY <2>1, <2>3, <2>4, OwnPlacesFrame
<1>4. CASE Refused \/ Fault
  <2>1. /\ UNCHANGED <<links, cleaning>> /\ spoiled \subseteq spoiled' /\ work.todo # <<>>
        /\ work' = [work EXCEPT !.todo = Rest]
    BY <1>4 DEF Refused, Fault
  <2>2. work'.on = work.on /\ work'.todo = Rest
    BY <2>1 DEF Wellformed, WorkOk
  <2>3. Left(work.on)' \subseteq Left(work.on)
    BY <2>1, <2>2, AtWork DEF Left
  <2> QED BY <2>1, <2>2, <2>3, OwnPlacesFrame
<1>5. CASE EndWork
  <2>1. UNCHANGED <<links, cleaning, spoiled>> /\ work' = Idle
    BY <1>5 DEF EndWork
  <2>2. Left(work.on)' = {}
    BY <2>1 DEF Left, Idle, ToSet
  <2> QED BY <2>1, <2>2, OwnPlacesFrame
<1>6. CASE DeleteNetns
  <2>1. CASE call.on \in mounted
    <3>1. /\ Unmount(call.on, links) /\ UNCHANGED <<work, cleaning>>
          /\ spoiled' = spoiled \cup ({call.on} \cap (held \cup {work.on}))
      BY <1>6, <2>1 DEF DeleteNetns
    <3> QED BY <2>1, <3>1, OwnPlacesWhenGone
  <2>2. CASE call.on \notin mounted
    BY <1>6, <2>2, OwnPlacesFrame DEF DeleteNetns, Left
  <2> QED BY <2>1, <2>2
<1>7. ASSUME NEW place, Leave(place) PROVE OwnPlaces'
  <2>1. UNCHANGED <<work, cleaning, spoiled>>
    BY <1>7 DEF Leave
  <2>2. CASE place = "detached"
    BY <1>7, <2>1, <2>2, OwnPlacesWhenGone DEF Leave
  <2>3. CASE place # "detached"
    BY <1>7, <2>1, <2>3, OwnPlacesFrame DEF Leave, Left
  <2> QED BY <2>2, <2>3
<1>8. ASSUME Shutdown \/ \E n \in Namespace : CleanUp(n) PROVE OwnPlaces'
  BY <1>8, ShutDown DEF OwnPlaces
<1>9. ASSUME NEW n \in Namespace, Load(n) \/ Retry(n) \/ BeginDelete(n) \/ Edit(n) \/ Enter(n)
      PROVE  OwnPlaces'
  <2>1. UNCHANGED <<links, cleaning, spoiled, work>>
    BY <1>9 DEF Load, Retry, BeginDelete, Edit, Enter
  <2> QED BY <2>1, OwnPlacesFrame DEF Left
<1>10. CASE EndDelete
  <2>1. UNCHANGED <<links, cleaning, spoiled, work>>
    BY <1>10 DEF EndDelete
  <2> QED BY <2>1, OwnPlacesFrame DEF Left
<1> QED BY <1>1, <1>2, <1>3, <1>4, <1>5, <1>6, <1>7, <1>8, <1>9, <1>10, OwnPlacesOnSuccess DEF Next

-----------------------------------------------------------------------------
(* What is not yet done is left to do, whatever happens to the others.     *)

(* The names of a configuration's pairs.                                   *)
LEMMA PairNamed ==
  ASSUME NEW c, Regular(c), NEW v \in ToSet(c.vifs), IsVeth(v)
  PROVE  v.name \in PairNames(c) /\ v.peer[1] \in PairNames(c) /\ v.name # <<>> /\ v.peer[1] # <<>>
<1>1. v.peer # <<>> /\ IsList(v.peer) /\ v.name # <<>> /\ v.peer[1] # <<>>
  BY DEF Regular, NamesApart, IsOptional, IsVeth
<1>2. v.peer[1] \in ToSet(v.peer)
  <2>1. Len(v.peer) # 0
    BY <1>1, EmptySeq DEF IsList
  <2>2. 1 \in DOMAIN v.peer
    BY <1>1, <2>1, LenProperties DEF IsList
  <2> QED BY <2>2 DEF ToSet
<1> QED BY <1>1, <1>2 DEF PairNames, IsVeth

(* None is a name that an interface of the host can return under.          *)
LEMMA PairsApart ==
  ASSUME NEW c, Regular(c), Sensible(c), NEW v \in ToSet(c.vifs), IsVeth(v)
  PROVE  {v.name, v.peer[1]} \cap (Physical \cup {<<>>}) = {}
BY PairNamed DEF Sensible

(* A change of links that leaves those of a namespace as they are.         *)
Unharmed(n, left, all, all2) ==
  /\ \A l \in all : l.at = n /\ l.made \in {n, "host"} => l \in all2
  /\ \A l \in all : l.at = "host" /\ l.made = n =>
       \E k \in all2 : /\ k.at = "host" /\ k.name = l.name /\ k.made = n /\ k.key = l.key
                       /\ l.up => k.up
  /\ \A k \in all2 : k.at = n => k \in all
  /\ \/ left = {}
     \/ /\ \A l \in all : l.at = "host" /\ l.made = "host" => l \in all2
        /\ \A k \in all2 : k.at = "host" => k \in all \/ k.name \in Physical \cup {<<>>}

(* What takes none of its links leaves a namespace its progress.           *)
LEMMA UnharmedProgress ==
  ASSUME NEW n, NEW c, Regular(c), Sensible(c), NEW d, NEW left, NEW all, NEW all2, NEW set, NEW dns,
         Unharmed(n, left, all, all2), ProgressOf(n, c, d, left, all, set, dns)
  PROVE  ProgressOf(n, c, d, left, all2, set, dns)
<1>1. ASSUME NEW v \in ToSet(c.vifs) PROVE VifOk(n, c, v, left, all2)
  <2>0. VifOk(n, c, v, left, all)
    BY DEF ProgressOf
  <2>a. \A name : Absent(n, name, all) => Absent(n, name, all2)
    BY DEF Unharmed, Absent
  <2>p. PeerUp(n, v, left, all) => PeerUp(n, v, left, all2)
    BY DEF Unharmed, PeerUp
  <2>1. CASE ToMake(n, v, left, all)
    <3>1. left # {}
      BY <2>1 DEF ToMake
    <3>2. ASSUME NEW name, name \notin Physical \cup {<<>>}, Absent("host", name, all)
          PROVE  Absent("host", name, all2)
      BY <3>1, <3>2 DEF Unharmed, Absent
    <3> QED BY <2>1, <2>a, <3>2, PairsApart DEF ToMake, VifOk
  <2>2. CASE ToMove(n, v, left, all)
    <3>1. \E k \in all2 : k.at = "host" /\ k.name = v.name /\ k.made = n /\ k.key = <<>>
      BY <2>2 DEF ToMove, Unharmed
    <3> QED BY <2>2, <2>a, <2>p, <3>1 DEF ToMove, VifOk
  <2>3. CASE InPlace(n, c, v, left, all)
    <3>1. Equipped(n, c, v, left, all2)
      BY <2>3 DEF InPlace, Equipped, EquippedWith, Unharmed
    <3> QED BY <2>3, <2>p, <3>1 DEF InPlace, VifOk
  <2> QED BY <2>0, <2>1, <2>2, <2>3 DEF VifOk
<1>2. ASSUME NEW x \in ToSet(c.moves) PROVE MoveOk(n, x, left, all2)
  <2>0. MoveOk(n, x, left, all)
    BY DEF ProgressOf
  <2>1. ASSUME NEW l \in all, l.at = n, l.name = x, l.made = "host" PROVE MoveOk(n, x, left, all2)
    BY <2>1 DEF Unharmed, MoveOk
  <2>2. ASSUME Do("move", x, <<>>) \in left, Absent(n, x, all),
               NEW l \in all, l.at = "host", l.name = x, l.made = "host"
        PROVE  MoveOk(n, x, left, all2)
    BY <2>2 DEF Unharmed, MoveOk, Absent
  <2> QED BY <2>0, <2>1, <2>2 DEF MoveOk
<1>3. ASSUME NEW r \in RoutesIn(d) PROVE RouteOk(n, d, r, left, all2, set)
  <2>1. RouteOk(n, d, r, left, all, set)
    BY DEF ProgressOf
  <2>2. UpIn(n, all2) => UpIn(n, all)
    BY DEF UpIn, Unharmed
  <2> QED BY <2>1, <2>2 DEF RouteOk
<1> QED BY <1>1, <1>2, <1>3 DEF ProgressOf

(* A request for one namespace harms no other that is undisturbed.         *)
LEMMA SuccessHarmsNone ==
  ASSUME Wellformed, OwnPlaces, cleaning = Running, Succeed,
         NEW n \in mounted \ spoiled, n # work.on
  PROVE  Unharmed(n, {}, links, links')
<1> SUFFICES ASSUME NEW m, NEW r, m = work.on, r = Head(work.todo) PROVE Unharmed(n, {}, links, links')
  OBVIOUS
<1>1. PICK f : LinksAfter(f, m, r)
  BY SuccessIs
<1>2. work.todo # <<>> /\ n # m /\ n # "host" /\ n \in Namespace /\ m # "host" /\ m \in Namespace
  BY AtWork, ProvisioningAssumption DEF Succeed, Wellformed, Shape
<1>3. r.do \in {"pair", "wireguard", "create", "route", "dns", "move", "moveVeth",
                "address", "up", "hostUp", "configure"}
  BY <1>2, KnownRequests
<1>4. \A l \in links : /\ f[l] \in links'
                       /\ l.at = n => f[l] = l
  BY <1>1, <1>2 DEF LinksAfter, Alters, Hit
<1>5. \A k \in links' : k \in MadeBy(m, r) \/ \E l \in links : k = f[l]
  BY <1>1 DEF LinksAfter
<1>6. ASSUME NEW l \in links, l.at = "host", l.made = n
      PROVE  \E k \in links' : /\ k.at = "host" /\ k.name = l.name /\ k.made = n /\ k.key = l.key
                               /\ l.up => k.up
  <2>1. ~(Moves(r) /\ l.name = r.name)
    <3>1. r \in Left(m)
      BY <1>2, AtWork DEF Left
    <3> QED BY <1>2, <1>6, <3>1 DEF OwnPlaces, Listed
  <2>2. CASE Hit(m, r, l)
    <3>1. r.do = "hostUp"
      BY <1>2, <1>6, <2>1, <2>2 DEF Hit
    <3>2. /\ f[l].name = l.name /\ f[l].made = l.made /\ f[l].at = l.at /\ f[l].key = l.key /\ f[l].up
      BY <1>1, <2>2, <3>1 DEF LinksAfter, Alters, Moves
    <3> QED BY <1>4, <1>6, <3>2
  <2>3. CASE ~Hit(m, r, l)
    BY <1>1, <1>4, <1>6, <2>3 DEF LinksAfter, Alters
  <2> QED BY <2>2, <2>3
<1>7. ASSUME NEW k \in links', k.at = n PROVE k \in links
  <2>1. k \notin MadeBy(m, r)
    BY <1>2, <1>7, MadeIs
  <2>2. PICK l \in links : k = f[l]
    BY <1>5, <2>1
  <2>3. f[l].at = l.at \/ f[l].at = m
    BY <1>1 DEF LinksAfter, Alters
  <2> QED BY <1>2, <1>4, <1>7, <2>2, <2>3
<1> QED BY <1>4, <1>6, <1>7 DEF Unharmed

(* Nor does the end of another namespace.                                  *)
LEMMA GoneHarmsNone ==
  ASSUME Wellformed, OwnPlaces, cleaning = Running, NEW n \in mounted \ spoiled,
         NEW place, place \in mounted \cup {"detached"}, place # n,
         Unmount(place, links) \/ links' = Destroyed(links, place), NEW left
  PROVE  Unharmed(n, left, links, links')
<1>1. n \in Namespace /\ n # "host" /\ n # "detached" /\ place # "host"
  BY ProvisioningAssumption DEF Wellformed, Shape
<1>2. ~\E k \in links : k.at = place /\ k.made = n
  BY <1>1 DEF OwnPlaces
<1>3. \A l \in links : l.at # place /\ l.made \in {n, "host"} => l \in links'
  BY <1>2, WhatStays
<1>4. \A k \in links' :
        \/ k \in links /\ k.at # place
        \/ k.at = "host" /\ k.made = "host" /\ k.name \in Physical \cup {<<>>}
        \/ k.at = "detached"
  BY WhatIsLeft
<1>5. \A l \in links : l.at = "host" /\ l.made = n =>
        \E k \in links' : /\ k.at = "host" /\ k.name = l.name /\ k.made = n /\ k.key = l.key
                          /\ l.up => k.up
  BY <1>1, <1>3
<1>6. \A k \in links' : k.at = n => k \in links
  BY <1>1, <1>4
<1>7. \A k \in links' : k.at = "host" => k \in links \/ k.name \in Physical \cup {<<>>}
  BY <1>4
<1>8. \A l \in links : \/ l.at = n /\ l.made \in {n, "host"}
                       \/ l.at = "host" /\ l.made = "host"
                       => l \in links'
  BY <1>1, <1>3
<1> QED BY <1>5, <1>6, <1>7, <1>8 DEF Unharmed

(* Why a request is refused.                                               *)
LEMMA Refusals ==
  ASSUME NEW n \in mounted, NEW r, ~Can(n, r)
  PROVE  /\ r.do = "pair" => IsListed(r.name) \/ IsListed(r.with.peer[1])
         /\ r.do \in {"move", "moveVeth"} => ~IsListed(r.name) \/ IsType(r.name, "lo") \/ LinkAt(n, r.name)
         /\ r.do = "wireguard" => LinkAt(n, r.name)
         /\ r.do = "create" => LinkAt(n, r.name) \/ HasNoParent(r.with)
         /\ r.do = "up" => ~LinkAt(n, r.name)
         /\ r.do = "address" => ~LinkAt(n, r.name) \/ ~Parses(r.with)
         /\ r.do = "configure" => ~LinkAt(n, r.name) \/ ~Builds(r.with)
         /\ r.do = "hostUp" => ~LinkAt("host", r.name)
         /\ r.do = "route" => \/ ~Reachable(n) \/ r.with \in routes[n]
                              \/ ~Parses(r.with.destination) \/ ~Parses(r.with.gateway)
         /\ r.do # "dns"
<1>1. ASSUME r.do = "pair" PROVE IsListed(r.name) \/ IsListed(r.with.peer[1])
  BY <1>1 DEF Can
<1>2. ASSUME r.do \in {"move", "moveVeth"}
      PROVE  ~IsListed(r.name) \/ IsType(r.name, "lo") \/ LinkAt(n, r.name)
  BY <1>2 DEF Can, CanMove
<1>3. ASSUME r.do = "wireguard" PROVE LinkAt(n, r.name)
  BY <1>3 DEF Can
<1>4. ASSUME r.do = "create" PROVE LinkAt(n, r.name) \/ HasNoParent(r.with)
  BY <1>4 DEF Can
<1>5. ASSUME r.do = "up" PROVE ~LinkAt(n, r.name)
  BY <1>5 DEF Can
<1>6. ASSUME r.do = "address" PROVE ~LinkAt(n, r.name) \/ ~Parses(r.with)
  BY <1>6 DEF Can
<1>7. ASSUME r.do = "configure" PROVE ~LinkAt(n, r.name) \/ ~Builds(r.with)
  BY <1>7 DEF Can
<1>8. ASSUME r.do = "hostUp" PROVE ~LinkAt("host", r.name)
  BY <1>8 DEF Can
<1>9. ASSUME r.do = "route"
      PROVE  ~Reachable(n) \/ r.with \in routes[n] \/ ~Parses(r.with.destination) \/ ~Parses(r.with.gateway)
  BY <1>9 DEF Can
<1>10. ASSUME r.do = "dns" PROVE FALSE
  BY <1>10 DEF Can
<1> QED BY <1>1, <1>2, <1>3, <1>4, <1>5, <1>6, <1>7, <1>8, <1>9, <1>10

(* What the kernel refuses an undisturbed namespace was not needed.        *)
LEMMA RefusalLosesNothing ==
  ASSUME NEW n \in mounted, NEW c, Regular(c), Sensible(c), NEW d, NEW r, ~Can(n, r), NEW left, NEW left2,
         left = {r} \cup left2, IsSetting(r) => \A q \in left : IsSetting(q),
         ProgressOf(n, c, d, left, links, routes[n], servers[n])
  PROVE  ProgressOf(n, c, d, left2, links, routes[n], servers[n])
<1>n. ASSUME NEW v \in ToSet(c.vifs)
      PROVE  /\ ~IsType(v.name, "lo") /\ ~HasNoParent(v) /\ \A a \in ToSet(v.addresses) : Parses(a)
  <2>1. PICK i \in DOMAIN c.vifs : v = c.vifs[i]
    BY DEF ToSet
  <2>2. <<i, "vif">> \in LinkNames(c) /\ NameOfLink(c, <<i, "vif">>) = v.name
    BY <2>1 DEF LinkNames, NameOfLink
  <2> QED BY <2>2 DEF Sensible
<1>m. ASSUME NEW x \in ToSet(c.moves) PROVE ~IsType(x, "lo")
  <2>1. PICK i \in DOMAIN c.moves : x = c.moves[i]
    BY DEF ToSet
  <2>2. <<i, "move">> \in LinkNames(c) /\ NameOfLink(c, <<i, "move">>) = x
    BY <2>1 DEF LinkNames, NameOfLink
  <2> QED BY <2>2 DEF Sensible
<1>1. ASSUME NEW v \in ToSet(c.vifs) PROVE VifOk(n, c, v, left2, links)
  <2>0. VifOk(n, c, v, left, links)
    BY DEF ProgressOf
  <2>p. PeerUp(n, v, left, links) => PeerUp(n, v, left2, links)
    <3>1. LinkAt("host", v.peer[1]) => r # Do("hostUp", v.peer[1], <<>>)
      BY Refusals, DoFields
    <3> QED BY <3>1 DEF PeerUp, LinkAt
  <2>1. CASE ToMake(n, v, left, links)
    <3>1. ~LinkAt(n, v.name) /\ (IsVeth(v) => ~IsListed(v.name) /\ ~IsListed(v.peer[1]))
      BY <2>1 DEF ToMake, Absent, LinkAt, IsListed, Listed
    <3>2. r # VifRequest(v)
      <4>1. r # Do("pair", v.name, v) \/ ~IsVeth(v)
        BY <3>1, Refusals, DoFields
      <4>2. r # Do("wireguard", v.name, v) /\ r # Do("create", v.name, v)
        BY <1>n, <3>1, Refusals, DoFields
      <4> QED BY <4>1, <4>2, VifRequests
    <3> QED BY <2>1, <3>2 DEF ToMake, VifOk
  <2>2. CASE ToMove(n, v, left, links)
    <3>1. ~LinkAt(n, v.name) /\ IsListed(v.name)
      BY <2>2 DEF ToMove, Absent, LinkAt, IsListed, Listed
    <3>2. r # Do("moveVeth", v.name, v)
      BY <1>n, <3>1, Refusals, DoFields
    <3> QED BY <2>2, <2>p, <3>2 DEF ToMove, VifOk
  <2>3. CASE InPlace(n, c, v, left, links)
    <3>1. PICK l \in links : EquippedWith(l, n, c, v, left)
      BY <2>3 DEF InPlace, Equipped
    <3>2. LinkAt(n, v.name)
      BY <3>1 DEF EquippedWith, LinkAt
    <3>3. r # Do("up", v.name, v) /\ \A a \in ToSet(v.addresses) : r # Do("address", v.name, a)
      BY <1>n, <3>2, Refusals, DoFields
    <3>4. c.wireguard # <<>> => r # Do("configure", v.name, c.wireguard[1])
      <4>1. c.wireguard # <<>> => Builds(c.wireguard[1])
        <5>1. c.wireguard # <<>> => 1 \in DOMAIN c.wireguard
          <6>1. c.wireguard \in Seq(ToSet(c.wireguard))
            BY DEF Regular, IsOptional, IsList
          <6> QED BY <6>1, EmptySeq, LenProperties
        <5> QED BY <5>1 DEF Sensible, ToSet
      <4> QED BY <3>2, <4>1, Refusals, DoFields
    <3>5. EquippedWith(l, n, c, v, left2)
      BY <3>1, <3>3, <3>4 DEF EquippedWith
    <3> QED BY <2>3, <2>p, <3>5 DEF InPlace, Equipped, VifOk
  <2> QED BY <2>0, <2>1, <2>2, <2>3 DEF VifOk
<1>2. ASSUME NEW x \in ToSet(c.moves) PROVE MoveOk(n, x, left2, links)
  <2>0. MoveOk(n, x, left, links)
    BY DEF ProgressOf
  <2>1. Absent(n, x, links) /\ (\E l \in links : l.at = "host" /\ l.name = x) => r # Do("move", x, <<>>)
    BY <1>m, Refusals, DoFields DEF IsListed, Listed, LinkAt, Absent
  <2> QED BY <2>0, <2>1 DEF MoveOk
<1>3. ASSUME NEW q \in RoutesIn(d) PROVE RouteOk(n, d, q, left2, links, routes[n])
  <2>0. RouteOk(n, d, q, left, links, routes[n])
    BY DEF ProgressOf
  <2>1. CASE r = Do("route", d.name, q)
    <3>1. ~UpIn(n, links) \/ q \in routes[n] \/ ~(Parses(q.destination) /\ Parses(q.gateway))
      BY <2>1, Refusals, DoFields DEF Reachable, UpIn
    <3>2. \A p \in left : IsSetting(p)
      BY <2>1, DoFields DEF IsSetting
    <3> QED BY <3>1, <3>2 DEF RouteOk
  <2>2. CASE r # Do("route", d.name, q)
    BY <2>0, <2>2 DEF RouteOk
  <2> QED BY <2>1, <2>2
<1>4. ServersOk(d, left2, servers[n])
  <2>1. r # Do("dns", d.name, d)
    BY Refusals, DoFields
  <2> QED BY <2>1 DEF ProgressOf, ServersOk
<1> QED BY <1>1, <1>2, <1>3, <1>4 DEF ProgressOf

(* Which requests of a configuration name a link of it.                    *)
LEMMA NamesLink ==
  ASSUME NEW c, Regular(c), NEW r \in Makings(c), NEW v \in ToSet(c.vifs)
  PROVE  /\ r.do = "pair" /\ v.name \in {r.name, r.with.peer[1]} => r = Do("pair", v.name, v) /\ IsVeth(v)
         /\ r.do = "pair" /\ IsVeth(v) /\ v.peer[1] \in {r.name, r.with.peer[1]} => r = Do("pair", v.name, v)
         /\ r.do \in {"create", "wireguard"} /\ r.name = v.name => r = VifRequest(v) /\ ~IsVeth(v)
         /\ Moves(r) /\ r.name = v.name => r = Do("moveVeth", v.name, v) /\ IsVeth(v)
         /\ Moves(r) /\ IsVeth(v) => r.name # v.peer[1]
         /\ r.do = "address" /\ r.name = v.name => r.with \in ToSet(v.addresses)
         /\ r.do = "configure" /\ r.name = v.name =>
              IsWireguard(v) /\ c.wireguard # <<>> /\ r.with = c.wireguard[1]
         /\ r.do = "hostUp" => r.name # v.name
<1>1. /\ \A w \in ToSet(c.vifs) : IsVeth(w) => w.peer # <<>>
      /\ \A w \in ToSet(c.vifs) : v.name = w.name => v = w
      /\ \A w \in ToSet(c.vifs) : IsVeth(w) => v.name # w.peer[1]
      /\ IsVeth(v) => \A w \in ToSet(c.vifs) : w.name # v.peer[1]
      /\ IsVeth(v) => \A w \in ToSet(c.vifs) : IsVeth(w) /\ w.peer[1] = v.peer[1] => v = w
      /\ \A x \in ToSet(c.moves) : x # v.name /\ (IsVeth(v) => x # v.peer[1])
  BY DEF Regular, NamesApart, IsVeth
<1>2. \A w \in ToSet(c.wireguard) : c.wireguard # <<>> /\ w = c.wireguard[1]
  <2>1. c.wireguard \in Seq(ToSet(c.wireguard)) /\ Len(c.wireguard) <= 1
    BY DEF Regular, IsOptional, IsList
  <2>2. ASSUME NEW i \in DOMAIN c.wireguard PROVE i = 1
    BY <2>1, LenProperties
  <2>3. \A i \in DOMAIN c.wireguard : c.wireguard # <<>>
    OBVIOUS
  <2> QED BY <2>2, <2>3 DEF ToSet
<1>3. CASE \E x \in ToSet(c.moves) : r = Do("move", x, <<>>)
  BY <1>1, <1>3, DoFields DEF Moves
<1>4. ASSUME NEW w \in ToSet(c.vifs), r = Do("pair", w.name, w), IsVeth(w)
      PROVE  /\ r.do = "pair" /\ ~Moves(r)
             /\ v.name \in {r.name, r.with.peer[1]} => w = v
             /\ IsVeth(v) /\ v.peer[1] \in {r.name, r.with.peer[1]} => w = v
  BY <1>1, <1>4, DoFields DEF Moves
<1>5. ASSUME NEW w \in ToSet(c.vifs), r = Do("moveVeth", w.name, w), IsVeth(w)
      PROVE  /\ r.do = "moveVeth"
             /\ r.name = v.name => w = v
             /\ IsVeth(v) => r.name # v.peer[1]
  BY <1>1, <1>5, DoFields
<1>6. ASSUME NEW w \in ToSet(c.vifs), r = Do("hostUp", w.peer[1], <<>>), IsVeth(w)
      PROVE  r.do = "hostUp" /\ ~Moves(r) /\ r.name # v.name
  BY <1>1, <1>6, DoFields DEF Moves
<1>7. ASSUME NEW w \in ToSet(c.vifs), r \in {Do("create", w.name, w), Do("wireguard", w.name, w)}
      PROVE  /\ r.do \in {"create", "wireguard"} /\ ~Moves(r)
             /\ r.name = v.name => w = v
  BY <1>1, <1>7, DoFields DEF Moves
<1>8. ASSUME NEW w \in ToSet(c.vifs), NEW g \in ToSet(c.wireguard), r = Do("configure", w.name, g), IsWireguard(w)
      PROVE  /\ r.do = "configure" /\ ~Moves(r)
             /\ r.name = v.name => w = v /\ c.wireguard # <<>> /\ r.with = c.wireguard[1]
  BY <1>1, <1>2, <1>8, DoFields DEF Moves
<1>9. ASSUME NEW w \in ToSet(c.vifs), r = Do("up", w.name, w)
      PROVE  r.do = "up" /\ ~Moves(r)
  BY <1>9, DoFields DEF Moves
<1>10. ASSUME NEW w \in ToSet(c.vifs), NEW a \in ToSet(w.addresses), r = Do("address", w.name, a)
       PROVE  r.do = "address" /\ ~Moves(r) /\ (r.name = v.name => r.with \in ToSet(v.addresses))
  BY <1>1, <1>10, DoFields DEF Moves
<1>11. /\ IsWireguard(v) => ~IsVeth(v) /\ VifRequest(v) = Do("wireguard", v.name, v)
       /\ ~IsVeth(v) /\ ~IsWireguard(v) => VifRequest(v) = Do("create", v.name, v)
  BY VifRequests DEF IsWireguard
<1>12. ASSUME NEW w \in ToSet(c.vifs)
       PROVE  /\ r = Do("create", w.name, w) /\ ~IsVeth(w) /\ ~IsWireguard(w) /\ w = v => r = VifRequest(v) /\ ~IsVeth(v)
              /\ r = Do("wireguard", w.name, w) /\ IsWireguard(w) /\ w = v => r = VifRequest(v) /\ ~IsVeth(v)
  BY <1>11
<1>13. ASSUME NEW w \in ToSet(c.vifs),
              \/ r = Do("create", w.name, w) /\ ~IsVeth(w) /\ ~IsWireguard(w)
              \/ r = Do("wireguard", w.name, w) /\ IsWireguard(w)
       PROVE  r.do \in {"create", "wireguard"} /\ ~Moves(r) /\ (r.name = v.name => r = VifRequest(v) /\ ~IsVeth(v))
  BY <1>7, <1>12, <1>13
<1> QED BY <1>3, <1>4, <1>5, <1>6, <1>8, <1>9, <1>10, <1>13, Kinds

(* A request that succeeds brings its link on, and leaves the others of    *)
(* the configuration as they are.                                          *)
LEMMA PeerStays ==
  ASSUME NEW n \in Namespace, NEW c, Regular(c), NEW r \in Makings(c), NEW f, LinksAfter(f, n, r),
         NEW left, NEW left2, left \subseteq {r} \cup left2, NEW v \in ToSet(c.vifs), IsVeth(v),
         PeerUp(n, v, left, links)
  PROVE  PeerUp(n, v, left2, links')
<1>1. PICK l \in links : /\ l.at = "host" /\ l.name = v.peer[1] /\ l.made = n
                         /\ l.up \/ Do("hostUp", v.peer[1], <<>>) \in left
  BY DEF PeerUp
<1>2. /\ f[l] \in links' /\ f[l].name = l.name /\ f[l].made = l.made
      /\ ~Hit(n, r, l) => f[l] = l
      /\ Hit(n, r, l) /\ r.do = "hostUp" => f[l].at = l.at /\ f[l].up
  BY DEF LinksAfter, Alters, Moves
<1>3. Hit(n, r, l) => r.do = "hostUp"
  <2>1. n # "host"
    BY ProvisioningAssumption
  <2>2. Hit(n, r, l) => r.name = v.peer[1] /\ (Moves(r) \/ r.do = "hostUp")
    BY <1>1, <2>1 DEF Hit
  <2>3. Moves(r) => r.name # v.peer[1]
    BY NamesLink
  <2> QED BY <2>2, <2>3
<1>4. r = Do("hostUp", v.peer[1], <<>>) => Hit(n, r, l)
  BY <1>1, DoFields DEF Hit
<1>5. f[l].at = "host" /\ (f[l].up \/ Do("hostUp", v.peer[1], <<>>) \in left2)
  BY <1>1, <1>2, <1>3, <1>4
<1> QED BY <1>1, <1>2, <1>5 DEF PeerUp

(* No name is taken but by the request for it.                             *)
LEMMA StaysAbsent ==
  ASSUME NEW n \in Namespace, NEW r, NEW f, LinksAfter(f, n, r), NEW place, NEW name,
         Absent(place, name, links),
         place = "host" => ~(r.do = "pair" /\ name \in {r.name, r.with.peer[1]}),
         place = n => ~(Moves(r) /\ r.name = name) /\ ~(r.do \in {"create", "wireguard"} /\ r.name = name),
         place \in {n, "host"}
  PROVE  Absent(place, name, links')
<1>0. n # "host"
  BY ProvisioningAssumption
<1>1. ASSUME NEW k \in MadeBy(n, r), k.at = place PROVE k.name # name
  BY <1>0, <1>1, MadeIs
<1>2. ASSUME NEW l \in links, f[l].at = place PROVE f[l].name # name
  <2>1. f[l].name = l.name /\ (f[l].at = l.at \/ (f[l].at = n /\ Moves(r) /\ l.name = r.name))
    BY DEF LinksAfter, Alters, Hit
  <2> QED BY <1>2, <2>1, <1>0 DEF Absent
<1>3. \A k \in links' : k \in MadeBy(n, r) \/ \E l \in links : k = f[l]
  BY DEF LinksAfter
<1> QED BY <1>1, <1>2, <1>3 DEF Absent

(* A link of the configuration goes on by one stage, or stays where it     *)
(* was.                                                                    *)
LEMMA VifGoesOn ==
  ASSUME NEW n \in Namespace, NEW c, Regular(c), NEW r \in Makings(c), NEW f, LinksAfter(f, n, r),
         Can(n, r), NEW left, NEW left2, left \subseteq {r} \cup left2, ToSet(Follow(r, c)) \subseteq left2,
         NEW v \in ToSet(c.vifs), VifOk(n, c, v, left, links)
  PROVE  VifOk(n, c, v, left2, links')
<1>0. n # "host" /\ "host" # n
  BY ProvisioningAssumption
<1>m. /\ \A k \in MadeBy(n, r) : k \in links'
      /\ \A l \in links : f[l] \in links'
  BY DEF LinksAfter
<1>p. IsVeth(v) /\ PeerUp(n, v, left, links) => PeerUp(n, v, left2, links')
  BY PeerStays
<1>f. /\ r = Do("pair", v.name, v) /\ IsVeth(v) =>
           Do("moveVeth", v.name, v) \in left2 /\ Do("hostUp", v.peer[1], <<>>) \in left2
      /\ (r = Do("moveVeth", v.name, v) /\ IsVeth(v)) \/ (r = VifRequest(v) /\ ~IsVeth(v)) =>
           Do("up", v.name, v) \in left2 /\ \A a \in ToSet(v.addresses) : Do("address", v.name, a) \in left2
      /\ r = VifRequest(v) /\ IsWireguard(v) =>
           \A w \in ToSet(c.wireguard) : Do("configure", v.name, w) \in left2
  <2>1. ASSUME r = Do("pair", v.name, v), IsVeth(v)
        PROVE  Do("moveVeth", v.name, v) \in left2 /\ Do("hostUp", v.peer[1], <<>>) \in left2
    <3>1. r.do = "pair" /\ r.name = v.name /\ r.with = v
      BY <2>1, DoFields
    <3> QED BY <2>1, <3>1, FollowAsks
  <2>2. ASSUME (r = Do("moveVeth", v.name, v) /\ IsVeth(v)) \/ (r = VifRequest(v) /\ ~IsVeth(v))
        PROVE  Do("up", v.name, v) \in left2 /\ \A a \in ToSet(v.addresses) : Do("address", v.name, a) \in left2
    <3>1. r.do \in {"moveVeth", "create", "wireguard"} /\ r.name = v.name /\ r.with = v
      BY <2>2, VifRequests, DoFields
    <3> QED BY <3>1, FollowAsks
  <2>3. ASSUME r = VifRequest(v), IsWireguard(v)
        PROVE  \A w \in ToSet(c.wireguard) : Do("configure", v.name, w) \in left2
    <3>1. r.do = "wireguard" /\ r.name = v.name /\ r.with = v
      BY <2>3, VifRequests, DoFields
    <3> QED BY <2>3, <3>1, FollowAsks
  <2> QED BY <2>1, <2>2, <2>3
<1>w. c.wireguard # <<>> => c.wireguard[1] \in ToSet(c.wireguard)
  <2>1. c.wireguard \in Seq(ToSet(c.wireguard))
    BY DEF Regular, IsOptional, IsList
  <2>2. c.wireguard # <<>> => 1 \in DOMAIN c.wireguard
    BY <2>1, EmptySeq, LenProperties
  <2> QED BY <2>2 DEF ToSet
<1>1. CASE ToMake(n, v, left, links)
  <2>1. CASE r = VifRequest(v) /\ IsVeth(v)
    <3>1. r = Do("pair", v.name, v) /\ r.do = "pair" /\ r.name = v.name /\ r.with = v
      BY <2>1, VifRequests, DoFields
    <3>2. Absent(n, v.name, links')
      BY <1>0, <1>1, <3>1, StaysAbsent DEF ToMake, Moves
    <3>3. \E k \in links' : k.at = "host" /\ k.name = v.name /\ k.made = n /\ k.key = <<>>
      <4>1. PICK k \in MadeBy(n, r) : k.at = "host" /\ k.name = v.name
        BY <3>1, MadeIs
      <4>2. k.made = n /\ k.key = <<>>
        BY MadeIs
      <4> QED BY <1>m, <4>1, <4>2
    <3>4. \E k \in links' : k.at = "host" /\ k.name = v.peer[1] /\ k.made = n
      BY <1>m, <3>1, MadeIs
    <3> QED BY <1>f, <2>1, <3>1, <3>2, <3>3, <3>4 DEF ToMove, PeerUp, VifOk
  <2>2. CASE r = VifRequest(v) /\ ~IsVeth(v)
    <3>1. r.do \in {"create", "wireguard"} /\ r.name = v.name
      BY <2>2, VifRequests, DoFields
    <3>2. PICK k \in links' : k.at = n /\ k.name = v.name /\ k.made = n /\ k.addresses = {} /\ k.key = <<>>
      BY <1>m, <3>1, MadeIs
    <3>3. k.key = KeyOf(c, v) \/ (IsWireguard(v) /\ c.wireguard # <<>> /\ Do("configure", v.name, c.wireguard[1]) \in left2)
      BY <1>f, <1>w, <2>2, <3>2 DEF KeyOf
    <3>4. EquippedWith(k, n, c, v, left2)
      BY <1>f, <2>2, <3>2, <3>3 DEF EquippedWith
    <3> QED BY <2>2, <3>4 DEF InPlace, Equipped, VifOk
  <2>3. CASE r # VifRequest(v)
    <3>1. VifRequest(v) \in left2
      BY <1>1, <2>3 DEF ToMake
    <3>2. Absent(n, v.name, links')
      <4>1. ~(r.do \in {"create", "wireguard"} /\ r.name = v.name)
        BY <2>3, NamesLink
      <4>2. ~(Moves(r) /\ r.name = v.name)
        <5>1. ASSUME Moves(r), r.name = v.name PROVE FALSE
          <6>1. IsVeth(v) /\ r = Do("moveVeth", v.name, v)
            BY <5>1, NamesLink
          <6>2. r.do = "moveVeth"
            BY <6>1, DoFields
          <6>3. IsListed(v.name)
            BY <5>1, <6>2 DEF Can, CanMove
          <6> QED BY <1>1, <6>1, <6>3 DEF ToMake, Absent, IsListed, Listed
        <5> QED BY <5>1
      <4> QED BY <1>0, <1>1, <4>1, <4>2, StaysAbsent DEF ToMake
    <3>3. IsVeth(v) => Absent("host", v.name, links') /\ Absent("host", v.peer[1], links')
      <4>1. IsVeth(v) => r # Do("pair", v.name, v)
        BY <2>3, VifRequests
      <4>2. IsVeth(v) => ~(r.do = "pair" /\ v.name \in {r.name, r.with.peer[1]})
                         /\ ~(r.do = "pair" /\ v.peer[1] \in {r.name, r.with.peer[1]})
        BY <4>1, NamesLink
      <4> QED BY <1>0, <1>1, <4>2, StaysAbsent DEF ToMake
    <3> QED BY <3>1, <3>2, <3>3 DEF ToMake, VifOk
  <2> QED BY <2>1, <2>2, <2>3
<1>2. CASE ToMove(n, v, left, links)
  <2>0. PICK l \in links : l.at = "host" /\ l.name = v.name /\ l.made = n /\ l.key = <<>>
    BY <1>2 DEF ToMove
  <2>1. CASE r = Do("moveVeth", v.name, v)
    <3>1. Moves(r) /\ Hit(n, r, l) /\ r.do = "moveVeth"
      BY <2>0, <2>1, DoFields DEF Moves, Hit
    <3>2. f[l].at = n /\ f[l].name = v.name /\ f[l].made = n /\ f[l].addresses = {} /\ f[l].key = <<>>
      BY <2>0, <3>1 DEF LinksAfter, Alters
    <3>3. KeyOf(c, v) = <<>>
      BY <1>2 DEF KeyOf, ToMove, IsWireguard
    <3>4. EquippedWith(f[l], n, c, v, left2)
      BY <1>2, <1>f, <2>1, <3>2, <3>3 DEF EquippedWith, ToMove
    <3> QED BY <1>2, <1>m, <1>p, <3>4 DEF InPlace, Equipped, ToMove, VifOk
  <2>2. CASE r # Do("moveVeth", v.name, v)
    <3>1. Do("moveVeth", v.name, v) \in left2
      BY <1>2, <2>2 DEF ToMove
    <3>2. ~(Moves(r) /\ r.name = v.name) /\ ~(r.do \in {"create", "wireguard"} /\ r.name = v.name)
      BY <1>2, <2>2, NamesLink DEF ToMove
    <3>3. Absent(n, v.name, links')
      BY <1>0, <1>2, <3>2, StaysAbsent DEF ToMove
    <3>4. ~Hit(n, r, l)
      BY <1>0, <2>0, <3>2, NamesLink DEF Hit
    <3>5. f[l] = l
      BY <3>4 DEF LinksAfter, Alters
    <3> QED BY <1>2, <1>m, <1>p, <2>0, <3>1, <3>3, <3>5 DEF ToMove, VifOk
  <2> QED BY <2>1, <2>2
<1>3. CASE InPlace(n, c, v, left, links)
  <2>0. PICK l \in links : EquippedWith(l, n, c, v, left)
    BY <1>3 DEF InPlace, Equipped
  <2>1. l.at = n /\ l.name = v.name /\ l.made = n
    BY <2>0 DEF EquippedWith
  <2>2. CASE ~Hit(n, r, l) \/ r.do \notin {"up", "address", "configure"}
    <3>1. f[l] = l
      <4>1. CASE ~Hit(n, r, l)
        BY <4>1 DEF LinksAfter, Alters
      <4>2. CASE Hit(n, r, l)
        <5>1. ~Moves(r) /\ r.do # "hostUp"
          BY <1>0, <2>1, <4>2 DEF Hit
        <5> QED BY <2>2, <4>2, <5>1 DEF LinksAfter
      <4> QED BY <4>1, <4>2
    <3>2. /\ r # Do("up", v.name, v) /\ \A a : r # Do("address", v.name, a)
          /\ \A w : r # Do("configure", v.name, w)
      BY <2>1, <2>2, DoFields DEF Hit, Moves
    <3>3. EquippedWith(l, n, c, v, left2)
      BY <2>0, <3>2 DEF EquippedWith
    <3> QED BY <1>3, <1>m, <1>p, <3>1, <3>3 DEF InPlace, Equipped, VifOk
  <2>3. CASE Hit(n, r, l) /\ r.do \in {"up", "address", "configure"}
    <3>0. r.name = v.name /\ ~Moves(r)
      BY <2>1, <2>3 DEF Hit, Moves
    <3>1. f[l].at = n /\ f[l].name = v.name /\ f[l].made = n
      BY <2>1, <2>3, <3>0 DEF LinksAfter, Alters
    <3>2. /\ r.do = "up" => f[l].up
          /\ r.do # "up" => f[l].up = l.up
          /\ r.do = "address" => f[l].addresses = l.addresses \cup {r.with}
          /\ r.do # "address" => f[l].addresses = l.addresses
          /\ f[l].key = (IF r.do = "configure" THEN r.with.key ELSE l.key)
      BY <2>3 DEF LinksAfter, Alters
    <3>3. f[l].addresses \subseteq ToSet(v.addresses)
      BY <2>0, <3>0, <3>2, NamesLink DEF EquippedWith
    <3>4. \A a \in ToSet(v.addresses) : a \in f[l].addresses \/ Do("address", v.name, a) \in left2
      <4>1. \A a : r = Do("address", v.name, a) => r.do = "address" /\ r.with = a
        BY DoFields
      <4> QED BY <2>0, <3>2, <4>1 DEF EquippedWith
    <3>5. f[l].up \/ Do("up", v.name, v) \in left2
      <4>1. r = Do("up", v.name, v) => r.do = "up"
        BY DoFields
      <4> QED BY <2>0, <3>2, <4>1 DEF EquippedWith
    <3>6. \/ f[l].key = KeyOf(c, v)
          \/ /\ IsWireguard(v) /\ c.wireguard # <<>>
             /\ Do("configure", v.name, c.wireguard[1]) \in left2
      <4>1. CASE r.do = "configure"
        BY <3>0, <3>2, <4>1, NamesLink DEF KeyOf
      <4>2. CASE r.do # "configure"
        <5>1. r # Do("configure", v.name, c.wireguard[1])
          BY <4>2, DoFields
        <5> QED BY <2>0, <3>2, <4>2, <5>1 DEF EquippedWith
      <4> QED BY <4>1, <4>2
    <3>7. EquippedWith(f[l], n, c, v, left2)
      BY <3>1, <3>3, <3>4, <3>5, <3>6 DEF EquippedWith
    <3> QED BY <1>3, <1>m, <1>p, <3>7 DEF InPlace, Equipped, VifOk
  <2> QED BY <2>2, <2>3
<1> QED BY <1>1, <1>2, <1>3 DEF VifOk

(* An interface the host has is moved once.                                *)
LEMMA MoveGoesOn ==
  ASSUME NEW n \in Namespace, LinksOk, NEW c, Regular(c), NEW r \in Makings(c), NEW f, LinksAfter(f, n, r),
         NEW left, NEW left2, left \subseteq {r} \cup left2,
         NEW x \in ToSet(c.moves), MoveOk(n, x, left, links)
  PROVE  MoveOk(n, x, left2, links')
<1>0. n # "host"
  BY ProvisioningAssumption
<1>1. \A l \in links : f[l] \in links'
  BY DEF LinksAfter
<1>2. \A v \in ToSet(c.vifs) : x # v.name /\ (IsVeth(v) => x # v.peer[1])
  BY DEF Regular, NamesApart, IsVeth
<1>3. /\ ~(r.do \in {"create", "wireguard"} /\ r.name = x)
      /\ Moves(r) /\ r.name = x => r = Do("move", x, <<>>)
  <2>1. ASSUME r.do \in {"create", "wireguard", "moveVeth"} PROVE r.name # x
    BY <1>2, <2>1, Kinds, DoFields
  <2>2. ASSUME r.do = "move", r.name = x PROVE r = Do("move", x, <<>>)
    BY <2>2, Kinds, DoFields
  <2> QED BY <2>1, <2>2 DEF Moves
<1>4. ASSUME NEW l \in links, l.at = n, l.name = x, l.made = "host" PROVE MoveOk(n, x, left2, links')
  <2>1. f[l].at = n /\ f[l].name = x /\ f[l].made = "host"
    BY <1>4 DEF LinksAfter, Alters, Hit
  <2> QED BY <1>1, <2>1 DEF MoveOk
<1>5. ASSUME Do("move", x, <<>>) \in left, Absent(n, x, links),
             NEW l \in links, l.at = "host", l.name = x, l.made = "host"
      PROVE  MoveOk(n, x, left2, links')
  <2>1. CASE r = Do("move", x, <<>>)
    <3>1. Moves(r) /\ Hit(n, r, l)
      BY <1>5, <2>1, DoFields DEF Moves, Hit
    <3>2. f[l].at = n /\ f[l].name = x /\ f[l].made = "host"
      BY <1>5, <3>1 DEF LinksAfter, Alters
    <3> QED BY <1>1, <3>2 DEF MoveOk
  <2>2. CASE r # Do("move", x, <<>>)
    <3>1. Do("move", x, <<>>) \in left2
      BY <1>5, <2>2
    <3>2. Absent(n, x, links')
      BY <1>0, <1>3, <1>5, <2>2, StaysAbsent
    <3>3. f[l].at = "host" /\ f[l].name = x /\ f[l].made = "host"
      BY <1>3, <1>5, <2>2 DEF LinksAfter, Alters, Hit
    <3> QED BY <1>1, <3>1, <3>2, <3>3 DEF MoveOk
  <2> QED BY <2>1, <2>2
<1> QED BY <1>4, <1>5 DEF MoveOk

(* A request about links that succeeds loses nothing of what is left.      *)
LEMMA MakingGoesOn ==
  ASSUME NEW n \in Namespace, LinksOk, NEW c, Regular(c), NEW r \in Makings(c), NEW f, LinksAfter(f, n, r),
         Can(n, r), NEW left, NEW left2, r \in left, left \subseteq {r} \cup left2,
         ToSet(Follow(r, c)) \subseteq left2, NEW set, NEW dns,
         ProgressOf(n, c, c, left, links, set, dns)
  PROVE  ProgressOf(n, c, c, left2, links', set, dns)
<1>1. ~IsSetting(r)
  BY SettingsAndMakings
<1>2. \A q : IsSetting(q) /\ q \in left => q \in left2
  BY <1>1
<1>3. \A v \in ToSet(c.vifs) : VifOk(n, c, v, left2, links')
  BY VifGoesOn DEF ProgressOf
<1>4. \A x \in ToSet(c.moves) : MoveOk(n, x, left2, links')
  BY MoveGoesOn DEF ProgressOf
<1>5. ASSUME NEW q \in RoutesIn(c) PROVE RouteOk(n, c, q, left2, links', set)
  <2>1. RouteOk(n, c, q, left, links, set)
    BY DEF ProgressOf
  <2>2. IsSetting(Do("route", c.name, q))
    BY DoFields DEF IsSetting
  <2> QED BY <1>1, <1>2, <2>1, <2>2 DEF RouteOk
<1>6. ServersOk(c, left2, dns)
  <2>1. IsSetting(Do("dns", c.name, c))
    BY DoFields DEF IsSetting
  <2> QED BY <1>2, <2>1 DEF ProgressOf, ServersOk
<1> QED BY <1>3, <1>4, <1>5, <1>6 DEF ProgressOf

(* The routes and the servers after a request.                             *)
RoutesAfter(r, set) == IF r.do = "route" THEN set \cup {r.with} ELSE set
ServersAfter(r, dns) == IF r.do = "dns" THEN r.with.servers ELSE dns

(* A route or the servers are set.                                         *)
LEMMA SettingGoesOn ==
  ASSUME NEW n, NEW c, NEW d, NEW r \in Settings(d), NEW left, NEW left2, left = {r} \cup left2,
         \A q \in left : IsSetting(q), NEW set, NEW dns, ProgressOf(n, c, d, left, links, set, dns)
  PROVE  ProgressOf(n, c, d, left2, links, RoutesAfter(r, set), ServersAfter(r, dns))
<1> DEFINE set2 == RoutesAfter(r, set)
           dns2 == ServersAfter(r, dns)
<1>1. ASSUME NEW q, q \in left, ~IsSetting(q) PROVE FALSE
  BY <1>1
<1>2. ASSUME NEW v \in ToSet(c.vifs) PROVE VifOk(n, c, v, left2, links)
  <2>1. /\ ~IsSetting(VifRequest(v)) /\ \A x : ~IsSetting(Do("moveVeth", v.name, x)) /\ ~IsSetting(Do("up", v.name, x))
        /\ \A x : ~IsSetting(Do("address", v.name, x)) /\ ~IsSetting(Do("configure", v.name, x))
        /\ ~IsSetting(Do("hostUp", v.peer[1], <<>>))
    BY VifRequests, DoFields DEF IsSetting
  <2>2. VifOk(n, c, v, left, links)
    BY DEF ProgressOf
  <2>3. PeerUp(n, v, left, links) => PeerUp(n, v, left2, links)
    BY <2>1 DEF PeerUp
  <2>4. Equipped(n, c, v, left, links) => Equipped(n, c, v, left2, links)
    BY <2>1 DEF Equipped, EquippedWith
  <2>5. ~ToMake(n, v, left, links) /\ ~ToMove(n, v, left, links)
    BY <2>1 DEF ToMake, ToMove
  <2> QED BY <2>2, <2>3, <2>4, <2>5 DEF VifOk, InPlace
<1>3. ASSUME NEW x \in ToSet(c.moves) PROVE MoveOk(n, x, left2, links)
  <2>1. ~IsSetting(Do("move", x, <<>>))
    BY DoFields DEF IsSetting
  <2> QED BY <2>1 DEF ProgressOf, MoveOk
<1>4. ASSUME NEW q \in RoutesIn(d) PROVE RouteOk(n, d, q, left2, links, set2)
  <2>1. RouteOk(n, d, q, left, links, set)
    BY DEF ProgressOf
  <2>2. r = Do("route", d.name, q) => q \in set2
    BY DoFields DEF RoutesAfter
  <2>3. set \subseteq set2
    BY DEF RoutesAfter
  <2> QED BY <2>1, <2>2, <2>3 DEF RouteOk
<1>5. ServersOk(d, left2, dns2)
  <2>1. r.do = "dns" => r.with = d
    BY DoFields DEF Settings
  <2>2. r = Do("dns", d.name, d) => r.do = "dns"
    BY DoFields
  <2> QED BY <2>1, <2>2 DEF ProgressOf, ServersOk, ServersAfter
<1> HIDE DEF set2, dns2
<1>6. ProgressOf(n, c, d, left2, links, set2, dns2)
  BY <1>2, <1>3, <1>4, <1>5 DEF ProgressOf
<1> QED BY <1>6 DEF set2, dns2

(* Where nothing is done for or to a namespace, its progress stays.        *)
LEMMA ProgressFrame ==
  ASSUME Progress, UNCHANGED <<links, routes, servers, mounted, built, applied, cleaning>>,
         spoiled \subseteq spoiled', \A n \in mounted \ spoiled' : Left(n)' = Left(n)
  PROVE  Progress'
BY DEF Progress

(* The namespaces, and what each is made from.                             *)
LEMMA MountedHas ==
  ASSUME Wellformed, cleaning = Running, NEW n \in mounted
  PROVE  /\ n \in Namespace /\ n # None /\ built[n] # <<>> /\ applied[n] # <<>>
         /\ Regular(built[n][1]) /\ Regular(applied[n][1])
<1>1. n \in Namespace /\ status[n] \in {"creating", "active"}
  BY DEF Wellformed, Shape, CallOk
<1>2. built[n] # <<>> /\ applied[n] # <<>>
  BY <1>1 DEF Wellformed, CallOk
<1> QED BY <1>1, <1>2, EntriesAreSound, ProvisioningAssumption DEF Wellformed, None

(* A request that succeeds, for the namespace it is made for and for the   *)
(* others.                                                                 *)
LEMMA ProgressOnSuccess ==
  ASSUME Wellformed, OwnPlaces, Progress, Succeed
  PROVE  Progress'
<1> SUFFICES ASSUME NEW n, NEW r, NEW c, NEW d, n = work.on, r = Head(work.todo),
                    c = built[n][1], d = applied[n][1]
             PROVE  Progress'
  OBVIOUS
<1>1. /\ work.todo # <<>> /\ Can(n, r) /\ Effect(n, r)
      /\ routes' = IF r.do = "route" THEN [routes EXCEPT ![n] = @ \cup {r.with}] ELSE routes
      /\ servers' = IF r.do = "dns" THEN [servers EXCEPT ![n] = r.with.servers] ELSE servers
      /\ work' = [work EXCEPT !.todo = Follow(r, d) \o Rest]
      /\ UNCHANGED <<built, applied, mounted, cleaning, spoiled>>
  BY DEF Succeed
<1>2. /\ n \in Namespace /\ Regular(c) /\ Regular(d)
      /\ r \in Settings(d) \cup Makings(c) /\ (r \in Makings(c) => c = d)
      /\ Left(n) = {r} \cup ToSet(Rest)
      /\ IsSetting(r) => \A q \in Left(n) : IsSetting(q)
  BY <1>1, AtWork DEF Left
<1>3. work'.on = n /\ Left(n)' = ToSet(Follow(r, d)) \cup ToSet(Rest)
  <2>1. DOMAIN work = {"on", "todo"}
    BY DEF Wellformed, WorkOk
  <2>2. work'.on = n /\ work'.todo = Follow(r, d) \o Rest
    BY <1>1, <2>1
  <2> QED BY <1>1, <2>2, FollowedBy DEF Left
<1>4. PICK f : LinksAfter(f, n, r)
  BY SuccessIs
<1>5. DOMAIN routes = Namespace /\ DOMAIN servers = Namespace /\ mounted \subseteq Namespace
  BY DEF Wellformed, Shape
<1> SUFFICES ASSUME cleaning = Running, NEW m \in mounted \ spoiled, Sensible(built[m][1])
             PROVE  ProgressOf(m, built[m][1], applied[m][1], Left(m)', links', routes'[m], servers'[m])
  BY <1>1 DEF Progress
<1>6. ProgressOf(m, built[m][1], applied[m][1], Left(m), links, routes[m], servers[m])
  BY DEF Progress
<1>7. CASE m # n
  <2>1. Left(m) = {} /\ Left(m)' = {}
    BY <1>3, <1>7 DEF Left
  <2>2. routes'[m] = routes[m] /\ servers'[m] = servers[m]
    BY <1>1, <1>5, <1>7
  <2>3. Unharmed(m, {}, links, links')
    BY <1>7, SuccessHarmsNone
  <2> QED BY <1>6, <2>1, <2>2, <2>3, MountedHas, UnharmedProgress
<1>8. CASE m = n /\ IsSetting(r)
  <2>1. links' = links
    BY <1>1, <1>8 DEF Effect, IsSetting
  <2>2. r \in Settings(d)
    BY <1>2, <1>8, SettingsAndMakings
  <2>3. Left(n)' = ToSet(Rest)
    <3>1. Follow(r, d) = <<>>
      BY <1>8 DEF Follow, IsSetting
    <3> QED BY <1>3, <3>1 DEF ToSet
  <2>4. routes'[n] = RoutesAfter(r, routes[n]) /\ servers'[n] = ServersAfter(r, servers[n])
    BY <1>1, <1>2, <1>5 DEF RoutesAfter, ServersAfter
  <2>5. ProgressOf(n, c, d, ToSet(Rest), links, routes'[n], servers'[n])
    <3>1. ProgressOf(n, c, d, Left(n), links, routes[n], servers[n])
      BY <1>6, <1>8
    <3>2. Left(n) = {r} \cup ToSet(Rest) /\ \A q \in Left(n) : IsSetting(q)
      BY <1>2, <1>8
    <3>3. ProgressOf(n, c, d, ToSet(Rest), links, RoutesAfter(r, routes[n]), ServersAfter(r, servers[n]))
      BY <2>2, <3>1, <3>2, SettingGoesOn
    <3> QED BY <2>4, <3>3
  <2> QED BY <1>8, <2>1, <2>3, <2>5
<1>9. CASE m = n /\ ~IsSetting(r)
  <2>1. r \in Makings(c) /\ c = d
    BY <1>2, <1>9, SettingsAndMakings
  <2>2. routes' = routes /\ servers' = servers
    BY <1>1, <1>9 DEF IsSetting
  <2>3. r \in Left(n) /\ Left(n) \subseteq {r} \cup Left(n)' /\ ToSet(Follow(r, c)) \subseteq Left(n)'
    BY <1>2, <1>3, <2>1
  <2>4. ProgressOf(n, c, c, Left(n)', links', routes[n], servers[n])
    BY <1>1, <1>2, <1>4, <1>6, <1>9, <2>1, <2>3, MakingGoesOn DEF Wellformed
  <2> QED BY <1>9, <2>1, <2>2, <2>4
<1> QED BY <1>7, <1>8, <1>9

(* A request that is refused, or fails, for the namespace it is made for.  *)
LEMMA ProgressOnRefusal ==
  ASSUME Wellformed, Progress, Refused \/ Fault
  PROVE  Progress'
<1> SUFFICES ASSUME NEW n, NEW r, n = work.on, r = Head(work.todo)
             PROVE  Progress'
  OBVIOUS
<1>1. /\ work.todo # <<>> /\ work' = [work EXCEPT !.todo = Rest]
      /\ UNCHANGED <<links, routes, servers, mounted, built, applied, cleaning>>
      /\ spoiled \subseteq spoiled' /\ (Fault => n \in spoiled')
      /\ Refused => ~Can(n, r)
  BY DEF Refused, Fault
<1>2. work'.on = n /\ work'.todo = Rest
  BY <1>1 DEF Wellformed, WorkOk
<1>3. /\ Left(n) = {r} \cup Left(n)'
      /\ IsSetting(r) => \A q \in Left(n) : IsSetting(q)
  BY <1>1, <1>2, AtWork DEF Left
<1> SUFFICES ASSUME cleaning = Running, NEW m \in mounted \ spoiled', Sensible(built[m][1])
             PROVE  ProgressOf(m, built[m][1], applied[m][1], Left(m)', links, routes[m], servers[m])
  BY <1>1 DEF Progress
<1>4. ProgressOf(m, built[m][1], applied[m][1], Left(m), links, routes[m], servers[m])
  BY <1>1 DEF Progress
<1>5. CASE m # n
  BY <1>2, <1>4, <1>5 DEF Left
<1>6. CASE m = n
  <2>1. ~Can(n, r)
    BY <1>1, <1>6
  <2> QED BY <1>3, <1>4, <1>6, <2>1, MountedHas, RefusalLosesNothing
<1> QED BY <1>5, <1>6

(* The links at a place that goes.                                         *)
LEMMA ProgressWhenGone ==
  ASSUME Wellformed, OwnPlaces, Progress, UNCHANGED <<servers, built, applied, work, cleaning>>,
         spoiled \subseteq spoiled', NEW place, place \in mounted \cup {"detached"},
         mounted' = mounted \ {place}, \A n \in Namespace : n # place => routes'[n] = routes[n],
         Unmount(place, links) \/ links' = Destroyed(links, place)
  PROVE  Progress'
<1> SUFFICES ASSUME cleaning = Running, NEW n \in mounted \ spoiled, n # place, Sensible(built[n][1])
             PROVE  ProgressOf(n, built[n][1], applied[n][1], Left(n), links', routes[n], servers[n])
  BY DEF Progress, Left, Wellformed, Shape
<1>1. ProgressOf(n, built[n][1], applied[n][1], Left(n), links, routes[n], servers[n])
  BY DEF Progress
<1>2. Unharmed(n, Left(n), links, links')
  BY GoneHarmsNone
<1> QED BY <1>1, <1>2, MountedHas, UnharmedProgress

(* A creation begins with everything left to do.                           *)
LEMMA ProgressAtBeginning ==
  ASSUME Wellformed, Progress, NEW n \in Namespace, BeginCreation(n)
  PROVE  Progress'
<1> SUFFICES ASSUME NEW c, c = loaded[n][1]
             PROVE  Progress'
  OBVIOUS
<1>1. /\ work = Idle /\ loaded[n] # <<>> /\ n \notin mounted
      /\ UNCHANGED <<links, routes, servers, cleaning>>
  BY DEF BeginCreation
<1>2. \A m \in Namespace : Left(m) = {}
  BY <1>1, ProvisioningAssumption DEF Left, Idle, None
<1>3. CASE ~FitsWithPrefix(c)
  <2>1. UNCHANGED <<mounted, work, built, applied, spoiled>>
    BY <1>3 DEF BeginCreation
  <2> QED BY <1>1, <2>1, ProgressFrame DEF Left
<1>4. CASE FitsWithPrefix(c)
  <2>1. /\ mounted' = mounted \cup {n} /\ work' = [on |-> n, todo |-> Requests(c)]
        /\ built' = [built EXCEPT ![n] = loaded[n]] /\ applied' = [applied EXCEPT ![n] = loaded[n]]
        /\ spoiled \subseteq spoiled' /\ (Contended(c) => n \in spoiled')
    BY <1>4 DEF BeginCreation
  <2>2. /\ built'[n] = loaded[n] /\ applied'[n] = loaded[n]
        /\ \A m \in Namespace : m # n => built'[m] = built[m] /\ applied'[m] = applied[m]
    BY <2>1 DEF Wellformed, Shape
  <2>3. Left(n)' = ToSet(Requests(c)) /\ \A m : m # n => Left(m)' = {}
    BY <2>1 DEF Left
  <2>4. Regular(c)
    BY <1>1, EntriesAreSound DEF Wellformed
  <2>5. n # "host" /\ \A l \in links : l.at # n
    BY <1>1, ProvisioningAssumption DEF Wellformed, LinksOk, LinksIn, IsLink
  <2>6. ASSUME ~Contended(c), Sensible(c) PROVE ProgressOf(n, c, c, ToSet(Requests(c)), links, routes[n], servers[n])
    <3>1. \A name : Absent(n, name, links)
      BY <2>5 DEF Absent
    <3>2. ASSUME NEW v \in ToSet(c.vifs) PROVE VifOk(n, c, v, ToSet(Requests(c)), links)
      <4>1. IsVeth(v) => v.name \in PairNames(c) /\ v.peer[1] \in PairNames(c)
        BY <2>4, PairNamed
      <4>2. IsVeth(v) => Absent("host", v.name, links) /\ Absent("host", v.peer[1], links)
        BY <2>6, <4>1 DEF Contended, Absent, IsListed, Listed
      <4> QED BY <2>4, <3>1, <4>2, RequestsAsk DEF ToMake, VifOk
    <3>3. ASSUME NEW x \in ToSet(c.moves) PROVE MoveOk(n, x, ToSet(Requests(c)), links)
      <4>1. \E l \in links : l.at = "host" /\ l.name = x /\ l.made = "host"
        BY <2>6 DEF Contended, Listed
      <4> QED BY <2>4, <3>1, <4>1, RequestsAsk DEF MoveOk
    <3>4. \A q \in RoutesIn(c) : RouteOk(n, c, q, ToSet(Requests(c)), links, routes[n])
      BY <2>4, RequestsAsk DEF RouteOk
    <3>5. ServersOk(c, ToSet(Requests(c)), servers[n])
      BY <2>4, RequestsAsk DEF ServersOk
    <3> QED BY <3>2, <3>3, <3>4, <3>5 DEF ProgressOf
  <2>7. ASSUME cleaning = Running, NEW m \in mounted' \ spoiled', Sensible(built'[m][1])
        PROVE  ProgressOf(m, built'[m][1], applied'[m][1], Left(m)', links, routes[m], servers[m])
    <3>1. CASE m = n
      <4>1. ~Contended(c) /\ Sensible(c)
        BY <2>1, <2>2, <2>7, <3>1
      <4> QED BY <2>2, <2>3, <2>6, <3>1, <4>1
    <3>2. CASE m # n
      <4>1. m \in mounted \ spoiled /\ m \in Namespace
        BY <2>1, <2>7, <3>2 DEF Wellformed, Shape
      <4> QED BY <1>2, <2>2, <2>3, <2>7, <3>2, <4>1 DEF Progress
    <3> QED BY <3>1, <3>2
  <2> QED BY <1>1, <2>7 DEF Progress
<1> QED BY <1>3, <1>4

(* An update leaves the links, and all settings of its configuration are   *)
(* left to do.                                                             *)
LEMMA ProgressAtUpdate ==
  ASSUME Wellformed, Progress, NEW n \in Namespace, BeginUpdate(n)
  PROVE  Progress'
<1> SUFFICES ASSUME NEW d, d = loaded[n][1]
             PROVE  Progress'
  OBVIOUS
<1>1. /\ work = Idle /\ work' = [on |-> n, todo |-> ReApply(d)] /\ status[n] = "active"
      /\ applied' = [applied EXCEPT ![n] = loaded[n]]
      /\ UNCHANGED <<built, mounted, links, routes, servers, cleaning, spoiled>>
  BY DEF BeginUpdate
<1>2. \A m \in Namespace : Left(m) = {}
  BY <1>1, ProvisioningAssumption DEF Left, Idle, None
<1>3. Left(n)' = ToSet(ReApply(d)) /\ \A m : m # n => Left(m)' = {}
  BY <1>1 DEF Left
<1>4. \A m \in Namespace : applied'[m] = IF m = n THEN loaded[n] ELSE applied[m]
  BY <1>1 DEF Wellformed, Shape
<1>5. Regular(d)
  <2>1. loaded[n] # <<>>
    BY <1>1 DEF Wellformed, CallOk, None
  <2> QED BY <2>1, EntriesAreSound DEF Wellformed
<1> SUFFICES ASSUME cleaning = Running, NEW m \in mounted \ spoiled, Sensible(built[m][1])
             PROVE  ProgressOf(m, built[m][1], applied'[m][1], Left(m)', links, routes[m], servers[m])
  BY <1>1 DEF Progress
<1>6. m \in Namespace
  BY DEF Wellformed, Shape
<1>7. ProgressOf(m, built[m][1], applied[m][1], {}, links, routes[m], servers[m])
  BY <1>2, <1>6 DEF Progress
<1>8. CASE m # n
  BY <1>3, <1>4, <1>6, <1>7, <1>8
<1>9. CASE m = n
  <2>1. \A v \in ToSet(built[m][1].vifs) : VifOk(m, built[m][1], v, Left(m)', links)
    <3>1. ASSUME NEW v, VifOk(m, built[m][1], v, {}, links) PROVE VifOk(m, built[m][1], v, Left(m)', links)
      BY <3>1 DEF VifOk, ToMake, ToMove, InPlace, Equipped, EquippedWith, PeerUp
    <3> QED BY <1>7, <3>1 DEF ProgressOf
  <2>2. \A x \in ToSet(built[m][1].moves) : MoveOk(m, x, Left(m)', links)
    BY <1>7 DEF ProgressOf, MoveOk
  <2>3. \A q \in RoutesIn(d) : RouteOk(m, d, q, Left(m)', links, routes[m])
    BY <1>3, <1>5, <1>9, ReApplyAsks DEF RouteOk
  <2>4. ServersOk(d, Left(m)', servers[m])
    BY <1>3, <1>5, <1>9, ReApplyAsks DEF ServersOk
  <2> QED BY <1>4, <1>6, <1>9, <2>1, <2>2, <2>3, <2>4 DEF ProgressOf
<1> QED BY <1>8, <1>9

(* Every step leaves undisturbed namespaces their progress.                *)
LEMMA ProgressStep ==
  ASSUME Wellformed, OwnPlaces, Progress, [Next]_vars
  PROVE  Progress'
<1>1. CASE UNCHANGED vars
  BY <1>1, ProgressFrame DEF vars, Left
<1>2. CASE EndWork
  <2>1. /\ work.todo = <<>> /\ work' = Idle /\ mounted \subseteq Namespace
        /\ UNCHANGED <<links, routes, servers, mounted, built, applied, cleaning, spoiled>>
    BY <1>2 DEF EndWork, Wellformed, Shape
  <2>2. \A n \in mounted : Left(n) = {} /\ Left(n)' = {}
    BY <2>1, ProvisioningAssumption DEF Left, Idle, ToSet, None
  <2> QED BY <2>1, <2>2, ProgressFrame
<1>3. CASE DeleteNetns
  <2>1. CASE call.on \in mounted
    <3>1. /\ Unmount(call.on, links) /\ UNCHANGED <<servers, built, applied, work, cleaning>>
          /\ spoiled \subseteq spoiled'
      BY <1>3, <2>1 DEF DeleteNetns
    <3>2. mounted' = mounted \ {call.on} /\ routes' = [routes EXCEPT ![call.on] = {}] /\ DOMAIN routes = Namespace
      BY <3>1 DEF Unmount, Wellformed, Shape
    <3> QED BY <2>1, <3>1, <3>2, ProgressWhenGone
  <2>2. CASE call.on \notin mounted
    BY <1>3, <2>2, ProgressFrame DEF DeleteNetns, Left
  <2> QED BY <2>1, <2>2
<1>4. ASSUME NEW place, Leave(place) PROVE Progress'
  <2>1. UNCHANGED <<built, applied, mounted, routes, servers, work, cleaning, spoiled>>
    BY <1>4 DEF Leave
  <2>2. CASE place = "detached"
    <3>1. links' = Destroyed(links, "detached") /\ mounted' = mounted \ {"detached"}
      BY <1>4, <2>1, <2>2, ProvisioningAssumption DEF Leave, Wellformed, Shape
    <3> QED BY <2>1, <3>1, ProgressWhenGone
  <2>3. CASE place # "detached"
    BY <1>4, <2>1, <2>3, ProgressFrame DEF Leave, Left
  <2> QED BY <2>2, <2>3
<1>5. ASSUME Shutdown \/ \E n \in Namespace : CleanUp(n) PROVE Progress'
  BY <1>5, ShutDown DEF Progress
<1>6. ASSUME NEW n \in Namespace, Load(n) \/ Retry(n) \/ BeginDelete(n) \/ Edit(n) \/ Enter(n)
      PROVE  Progress'
  <2>1. UNCHANGED <<built, applied, mounted, links, routes, servers, work, cleaning, spoiled>>
    BY <1>6 DEF Load, Retry, BeginDelete, Edit, Enter
  <2> QED BY <2>1, ProgressFrame DEF Left
<1>7. CASE EndDelete
  <2>1. UNCHANGED <<built, applied, mounted, links, routes, servers, work, cleaning, spoiled>>
    BY <1>7 DEF EndDelete
  <2> QED BY <2>1, ProgressFrame DEF Left
<1> QED BY <1>1, <1>2, <1>3, <1>4, <1>5, <1>6, <1>7, ProgressAtBeginning, ProgressAtUpdate,
           ProgressOnSuccess, ProgressOnRefusal DEF Next

(* Each link, route and server of an undisturbed namespace is there or     *)
(* still left to do, at all times (create_new_namespace,                   *)
(* update_existing_namespace).                                             *)
LEMMA UndisturbedHolds == Spec => []Undisturbed
<1>1. Init => Undisturbed
  <2>1. Init => Progress
    BY DEF Init, Progress
  <2> QED BY <2>1, WellformedInit, OwnPlacesInit DEF Undisturbed
<1>2. Undisturbed /\ [Next]_vars => Undisturbed'
  BY WellformedStep, OwnPlacesStep, ProgressStep DEF Undisturbed
<1> QED BY <1>1, <1>2, PTL DEF Spec

(* A namespace whose creation nothing disturbs is active only with every   *)
(* link of its configuration up and addressed in it, its interfaces moved  *)
(* into it and the routes and servers applied last set, whatever other     *)
(* namespaces, calls and processes do meanwhile (create_new_namespace,     *)
(* update_existing_namespace).                                             *)
THEOREM CreationCompletes == Spec => []FaultFreeIsComplete
<1>1. Undisturbed => FaultFreeIsComplete
  <2> SUFFICES ASSUME Undisturbed, NEW n \in Namespace,
                      status[n] = "active", work.on # n, call.on # n, cleaning = Running,
                      built[n] # <<>>, n \notin spoiled, Sensible(built[n][1])
               PROVE  /\ \A v \in ToSet(built[n][1].vifs) :
                           /\ Ready(n, v)
                           /\ \A peer \in ToSet(v.peer) : IsType(v.type, "veth") =>
                                \E l \in links : l.at = "host" /\ l.name = peer /\ l.up
                      /\ \A m \in ToSet(built[n][1].moves) : LinkAt(n, m)
                      /\ \A r \in RoutesIn(applied[n][1]) :
                           Reachable(n) /\ Parses(r.destination) /\ Parses(r.gateway) => r \in routes[n]
                      /\ applied[n][1].servers # <<>> => servers[n] = applied[n][1].servers
    BY DEF FaultFreeIsComplete
  <2> DEFINE c == built[n][1]
             d == applied[n][1]
  <2>1. n \in mounted
    BY DEF Undisturbed, Wellformed, CallOk
  <2>2. Left(n) = {}
    BY DEF Left
  <2>3. ProgressOf(n, c, d, {}, links, routes[n], servers[n])
    BY <2>1, <2>2 DEF Undisturbed, Progress
  <2>4. Regular(c)
    BY <2>1, MountedHas DEF Undisturbed
  <2> HIDE DEF d
  <2>5. ASSUME NEW v \in ToSet(c.vifs)
        PROVE  /\ Ready(n, v)
               /\ \A peer \in ToSet(v.peer) : IsVeth(v) =>
                    \E l \in links : l.at = "host" /\ l.name = peer /\ l.up
    <3>1. InPlace(n, c, v, {}, links)
      BY <2>3 DEF ProgressOf, VifOk, ToMake, ToMove
    <3>2. PICK l \in links : EquippedWith(l, n, c, v, {})
      BY <3>1 DEF InPlace, Equipped
    <3>3. l.addresses = ToSet(v.addresses) /\ l.up /\ l.key = KeyOf(c, v)
      BY <3>2 DEF EquippedWith
    <3>4. IsWireguard(v) <=> IsType(v.type, "wireguard")
      BY DEF IsWireguard, IsVeth, IsType
    <3>5. Ready(n, v)
      BY <3>2, <3>3, <3>4 DEF EquippedWith, KeyOf, Ready
    <3>6. \A peer \in ToSet(v.peer) : peer = v.peer[1]
      <4>1. v.peer \in Seq(ToSet(v.peer)) /\ Len(v.peer) <= 1
        BY <2>4 DEF Regular, IsOptional, IsList
      <4>2. \A i \in DOMAIN v.peer : i = 1
        BY <4>1, LenProperties
      <4> QED BY <4>2 DEF ToSet
    <3> QED BY <3>1, <3>5, <3>6 DEF InPlace, PeerUp
  <2>6. \A m \in ToSet(c.moves) : LinkAt(n, m)
    BY <2>3 DEF ProgressOf, MoveOk, LinkAt
  <2>7. \A r \in RoutesIn(d) : Reachable(n) /\ Parses(r.destination) /\ Parses(r.gateway) => r \in routes[n]
    BY <2>3 DEF ProgressOf, RouteOk, Reachable, UpIn
  <2>8. d.servers # <<>> => servers[n] = d.servers
    BY <2>3 DEF ProgressOf, ServersOk
  <2> QED BY <2>5, <2>6, <2>7, <2>8 DEF d, IsVeth
<1> QED BY <1>1, UndisturbedHolds, PTL
=============================================================================
