-------------------------- MODULE MCProvisioning --------------------------
(***************************************************************************)
(* An instance of Provisioning: a library of files, most of which differ   *)
(* from a complete one in one value at a boundary.                         *)
(***************************************************************************)
EXTENDS Provisioning, TLC

W(spelling, len) == <<Word(spelling, len, "letters")>>
V4(id) == <<Address(id, "v4")>>
Net(id, prefix) == <<Cidr(id, "v4", prefix)>>
WgKey(id) == <<Key(id, 32)>>

HostLinks == {W("e0", 2)}

NoEnv == [v \in Var |-> <<>>]

Empty(name) ==
  [name |-> name, description |-> <<>>, moves |-> <<>>, vifs |-> <<>>, gateway |-> <<>>,
   routes |-> <<>>, servers |-> <<>>, search |-> <<>>, wireguard |-> <<>>, environment |-> NoEnv]

Vif(name, type, peer, addresses) ==
  [name |-> W(name, 2), type |-> W(type, 5), peer |-> peer, addresses |-> addresses]

Tunnel(host) ==
  [key |-> WgKey("private"),
   peers |-> <<[key |-> WgKey("public"), psk |-> <<>>, endpoint |-> << <<Endpoint(host, 51820)>> >>,
                allowed |-> <<Net("all", 0)>>]>>]

Full ==
  [Empty(W("web", 3)) EXCEPT
     !.moves = <<W("e0", 2)>>,
     !.vifs = <<Vif("v0", "veth", <<W("p0", 2)>>, <<Net("a", 24)>>),
                Vif("g0", "wireguard", <<>>, <<Net("b", 32)>>)>>,
     !.wireguard = <<Tunnel("address")>>,
     !.routes = <<[destination |-> Net("c", 16), gateway |-> V4("gw"), metric |-> <<10>>]>>,
     !.gateway = <<V4("gw")>>,
     !.servers = <<V4("dns")>>]

Small == [Empty(W("web", 3)) EXCEPT !.vifs = <<Vif("d0", "dummy", <<>>, <<Net("a", 24)>>)>>]

Named(text) == [Small EXCEPT !.name = text]
LinkNamed(text) == [Small EXCEPT !.vifs[1].name = text]
WithEnv(c, env) == [c EXCEPT !.environment = env @@ NoEnv]

\* v1 leads to a name in three rounds, v0 in four; loop leads to itself.
Chain == ("v0" :> <<Plain("v1")>>) @@ ("v1" :> <<Plain("v2")>>) @@ ("v2" :> <<Plain("v3")>>)
           @@ ("v3" :> <<W("site", 4)>>) @@ ("loop" :> <<Plain("loop") \o Plain("loop")>>)
           @@ ("blank" :> << <<>> >>)

Referring ==
  {WithEnv(Named(t), Chain) :
     t \in {Plain("v0"), Plain("v1"), Plain("v2"), W("x", 1) \o Plain("v3"), Plain("loop"),
            Plain("system"), Plain("unset"), Plain("v3") \o Plain("blank"),
            <<Ref("unset", "default", W("y", 1))>>, <<Ref("blank", "default", W("y", 1))>>,
            <<Ref("v3", "default", W("y", 1))>>, <<Ref("v3", "alternate", W("y", 1))>>,
            <<Ref("blank", "alternate", W("y", 1))>>}}
  \cup {[WithEnv(Small, Chain) EXCEPT !.moves = <<Plain("v3")>>, !.vifs[1].name = W("site", 4)]}
  \cup {[Small EXCEPT !.description = Plain("unset")]}

AtBoundaries ==
  {Named(W("long", len)) : len \in {59, 60, 63, 64}}
  \cup {Named(<<Word("9", 1, "digits")>>), Named(<<>>), LinkNamed(<<Word("a b", 3, "other")>>)}
  \cup {LinkNamed(W("part", 8) \o W("part", len)) : len \in {7, 8}}
  \cup {[Small EXCEPT !.vifs[1].addresses = << <<Cidr("x", family, prefix)>> >>] :
          family \in {"v4", "lookalike"}, prefix \in {32, 33, 128, 129}}
  \cup {[Full EXCEPT !.routes[1].metric = <<0>>], [Full EXCEPT !.routes = @ \o @],
        [Full EXCEPT !.servers = @ \o @], [Full EXCEPT !.wireguard[1].key = <<Key("k", 31)>>],
        [Full EXCEPT !.vifs[1].peer = <<>>], [Full EXCEPT !.vifs[1].peer = <<W("v0", 2)>>],
        [Full EXCEPT !.vifs[1].peer = <<W("g0", 2)>>], [Full EXCEPT !.moves = <<W("p0", 2)>>]}
  \cup {[Small EXCEPT !.wireguard = <<[Tunnel("domain") EXCEPT
            !.peers[1].endpoint = << <<Endpoint("domain", port)>> >>]>>] : port \in {0, 1, 65535, 65536}}
  \cup {[Small EXCEPT !.search = << <<Domain("d", len, 63)>> >>] : len \in {253, 254}}

Unfit == {[Full EXCEPT !.wireguard = <<Tunnel("domain")>>],
          [Small EXCEPT !.vifs[1].type = W("macvlan", 7)]}

\* wg-quick files: two peers, a foreign section, no private key, a bad line.
TwoPeers ==
  <<Header("Interface"), Pair("PrivateKey", <<WgKey("private")>>),
    Pair("Address", <<Net("a", 24), Net("b", 32)>>), Pair("DNS", <<V4("dns")>>), Pair("MTU", <<W("n", 4)>>),
    Header("Peer"), Pair("PublicKey", <<WgKey("first")>>), Pair("AllowedIPs", <<Net("a", 24)>>),
    Header("Peer"), Pair("PublicKey", <<WgKey("second")>>),
    Pair("PersistentKeepalive", << <<Number(25)>> >>)>>

WgFiles ==
  {TwoPeers, <<Header("Interface")>>, TwoPeers \o <<Header("Other")>>, <<Junk>> \o TwoPeers,
   <<Pair("Address", <<Net("z", 8)>>)>> \o TwoPeers,
   TwoPeers \o <<Pair("PersistentKeepalive", << <<Number(65536)>> >>)>>,
   TwoPeers \o <<Pair("PresharedKey", <<WgKey("shared")>>), Header("Peer")>>,
   TwoPeers \o <<Header("Interface"), Pair("ListenPort", << <<Number(51820)>> >>),
                 Pair("FwMark", << <<Number(65536)>> >>), Pair("Address", <<Net("c", 24)>>),
                 Header("Peer"), Pair("PublicKey", <<WgKey("third")>>)>>}

WgImports == {[lines |-> w, name |-> W("web", 3), ifname |-> W("g0", 2)] : w \in WgFiles}

Imported == {ImportWg(w.lines, w.name, w.ifname) : w \in WgImports}

Rival == [Empty(W("dns", 3)) EXCEPT
            !.moves = <<W("e0", 2)>>,
            !.vifs = <<Vif("d0", "bridge", <<>>, <<Net("d", 24)>>)>>]

On(web, dns) == ("web" :> web) @@ ("dns" :> dns)

Files ==
  {On(content, <<>>) : content \in {<<c>> : c \in {Full} \cup Referring \cup AtBoundaries \cup Unfit}
                                      \cup Imported \cup {<<>>}}
  \cup {On(web, <<Rival>>) : web \in {<<Full>>, <<>>}}

Revisions == ("web" :> {<<>>, <<[Full EXCEPT !.moves = <<>>, !.servers = <<V4("other")>>]>>})
               @@ ("dns" :> {})

System == ("system" :> <<W("host", 4)>>) @@ ("v3" :> <<W("hidden", 6)>>)
            @@ [v \in {"v0", "v1", "v2", "loop", "blank", "unset"} |-> <<>>]
=============================================================================
