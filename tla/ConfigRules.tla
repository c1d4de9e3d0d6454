---------------------------- MODULE ConfigRules ----------------------------
(***************************************************************************)
(* What a namespace file means: substitution of environment variables      *)
(* (utils.rs), the rules a configuration obeys (config.rs of               *)
(* segwire-common), who applies which of them (from_file, the D-Bus        *)
(* validation, the command line), and the import of wg-quick files.        *)
(*                                                                         *)
(* A text is a sequence of literals and references. A literal carries what *)
(* the rules look at: the length and alphabet of a word, the family of an  *)
(* address, the bytes of a key. A reference made by joining two texts is   *)
(* left out. An optional value is a sequence of at most one element; as a  *)
(* result, <<>> stands for an error.                                       *)
(***************************************************************************)
EXTENDS Integers, Sequences, SequencesExt, FiniteSets

CONSTANTS
  Var,            \* names of environment variables
  ProcessEnv,     \* the daemon's own environment: for each an optional text
  MaxIterations   \* MAX_ITERATIONS of the substitution

IsRef(piece) == piece.is = "ref"
Literal(t) == \A i \in DOMAIN t : ~IsRef(t[i])

IsList(s) == s \in Seq(ToSet(s))
IsOptional(s) == IsList(s) /\ Len(s) <= 1

\* A reference ends at the first closing brace, so its alternative has none.
IsText(t) ==
  /\ IsList(t)
  /\ \A i \in DOMAIN t : IsRef(t[i]) =>
       /\ t[i].var \in Var /\ t[i].mode \in {"plain", "default", "alternate"}
       /\ IsList(t[i].alt) /\ Literal(t[i].alt)

IsEnvironment(env) ==
  /\ DOMAIN env = Var
  /\ \A v \in Var : IsOptional(env[v]) /\ \A t \in ToSet(env[v]) : IsText(t)

ASSUME RulesAssumption ==
  IsEnvironment(ProcessEnv) /\ MaxIterations \in Nat /\ MaxIterations >= 2

Word(spelling, len, alphabet) ==
  [is |-> "word", spelling |-> spelling, len |-> len, alphabet |-> alphabet]
\* A "lookalike" has the shape of an address and is none, as 1:::2.
Address(id, family) == [is |-> "address", id |-> id, family |-> family]
Cidr(id, family, prefix) == [is |-> "cidr", id |-> id, family |-> family, prefix |-> prefix]
Domain(id, len, label) == [is |-> "domain", id |-> id, len |-> len, label |-> label]
Key(id, bytes) == [is |-> "key", id |-> id, bytes |-> bytes]
Endpoint(host, port) == [is |-> "endpoint", host |-> host, port |-> port]
Number(n) == [is |-> "number", n |-> n]
Ref(var, mode, alt) == [is |-> "ref", var |-> var, mode |-> mode, alt |-> alt]

Plain(v) == <<Ref(v, "plain", <<>>)>>
-----------------------------------------------------------------------------
(* substitute_env_vars: rounds, each of which replaces all references.     *)
GetVariableValue(v, env) == IF env[v] # <<>> THEN env[v] ELSE ProcessEnv[v]

\* An empty value counts as no value where there is an alternative.
ResolveVariableSpec(ref, env) ==
  LET value == GetVariableValue(ref.var, env)
      empty == value = <<>> \/ value = << <<>> >>
  IN CASE ref.mode = "plain" -> value
       [] ref.mode = "default" -> IF empty THEN <<ref.alt>> ELSE value
       [] ref.mode = "alternate" -> << IF empty THEN <<>> ELSE ref.alt >>

Round(t, env) ==
  LET parts == [i \in DOMAIN t |-> IF IsRef(t[i]) THEN ResolveVariableSpec(t[i], env)
                                                  ELSE << <<t[i]>> >>]
  IN IF \E i \in DOMAIN t : parts[i] = <<>> THEN <<>>
     ELSE << FlattenSeq([i \in DOMAIN t |-> parts[i][1]]) >>

\* Faulty: what is left of a text after the last round is taken as it is.
SubstituteWhatFits(t, env) ==
  LET rounds[n \in 0 .. MaxIterations] ==
        IF n = 0 THEN <<t>>
        ELSE IF rounds[n - 1] = <<>> THEN <<>> ELSE Round(rounds[n - 1][1], env)
  IN rounds[MaxIterations]

\* The round that finds nothing to replace counts, and may not be the last.
SubstituteEnvVars(t, env) ==
  LET rounds[n \in 0 .. MaxIterations] ==
        IF n = 0 THEN <<t>>
        ELSE IF rounds[n - 1] = <<>> THEN <<>> ELSE Round(rounds[n - 1][1], env)
      last == rounds[MaxIterations - 2]
  IN IF last # <<>> /\ Literal(last[1]) THEN last ELSE <<>>

Each(s, Op(_)) == [i \in DOMAIN s |-> Op(s[i])]

\* Every text of a configuration; metrics, ports and the variables' own
\* values are not among them.
MapTexts(c, S(_)) ==
  LET Vif(v) == [v EXCEPT !.name = S(@), !.type = S(@),
                          !.peer = Each(@, S), !.addresses = Each(@, S)]
      Route(r) == [r EXCEPT !.destination = S(@), !.gateway = S(@)]
      Peer(p) == [p EXCEPT !.key = S(@), !.psk = Each(@, S),
                           !.endpoint = Each(@, S), !.allowed = Each(@, S)]
      Wg(w) == [w EXCEPT !.key = S(@), !.peers = Each(@, Peer)]
  IN [c EXCEPT !.name = S(@), !.description = S(@), !.moves = Each(@, S),
               !.vifs = Each(@, Vif), !.gateway = Each(@, S), !.routes = Each(@, Route),
               !.servers = Each(@, S), !.search = Each(@, S), !.wireguard = Each(@, Wg)]

TextsOf(c) ==
  {c.name, c.description}
    \cup (UNION {ToSet(s) : s \in {c.moves, c.gateway, c.servers, c.search}})
    \cup (UNION {{v.name, v.type} \cup ToSet(v.peer) \cup ToSet(v.addresses) : v \in ToSet(c.vifs)})
    \cup (UNION {{r.destination, r.gateway} : r \in ToSet(c.routes)})
    \cup (UNION {{w.key} \cup UNION {{p.key} \cup UNION {ToSet(s) : s \in {p.psk, p.endpoint, p.allowed}}
                                        : p \in ToSet(w.peers)} : w \in ToSet(c.wireguard)})

\* What a file of the right shape has: fields, lists, optional values, texts.
Shaped(c) ==
  /\ DOMAIN c = {"name", "description", "moves", "vifs", "gateway", "routes", "servers",
                 "search", "wireguard", "environment"}
  /\ IsList(c.moves) /\ IsList(c.vifs) /\ IsList(c.routes) /\ IsList(c.servers)
  /\ IsOptional(c.gateway) /\ IsOptional(c.wireguard)
  /\ \A i \in DOMAIN c.vifs : /\ DOMAIN c.vifs[i] = {"name", "type", "peer", "addresses"}
                              /\ IsOptional(c.vifs[i].peer) /\ IsList(c.vifs[i].addresses)
  /\ \A i \in DOMAIN c.routes : DOMAIN c.routes[i] = {"destination", "gateway", "metric"}
  /\ \A i \in DOMAIN c.wireguard : DOMAIN c.wireguard[i] = {"key", "peers"} /\ IsList(c.wireguard[i].peers)
  /\ (\A t \in TextsOf(c) : IsText(t)) /\ IsEnvironment(c.environment)

SubstituteEnvironmentVariables(c) ==
  LET S(t) == SubstituteEnvVars(t, c.environment)
      Value(t) == S(t)[1]
  IN IF \E t \in TextsOf(c) : S(t) = <<>> THEN <<>> ELSE << MapTexts(c, Value) >>

-----------------------------------------------------------------------------
(* The rules, from the words up.                                           *)
Is(t, kind) == Len(t) = 1 /\ t[1].is = kind
Words(t) == t # <<>> /\ \A i \in DOMAIN t : t[i].is = "word"
Length(t) == FoldLeft(LAMBDA n, w : n + w.len, 0, t)

ValidateInterfaceName(t) ==
  Words(t) /\ Length(t) <= 15 /\ \A i \in DOMAIN t : t[i].alphabet # "other"

ValidateNamespaceName(t) ==
  /\ Words(t) /\ Length(t) <= 63
  /\ \A i \in DOMAIN t : t[i].alphabet \in {"letters", "digits"}
  /\ t[1].alphabet = "letters"

ValidateIpAddress(t) == Is(t, "address")

ValidateCidr(t) ==
  Is(t, "cidr") /\ t[1].prefix <= IF t[1].family = "v4" THEN 32 ELSE 128

ValidateDomainName(t) == Is(t, "domain") /\ t[1].len <= 253 /\ t[1].label <= 63

ValidateWgKey(t) == Is(t, "key") /\ t[1].bytes = 32

Ports == 1 .. 65535
ValidateEndpoint(t) == Is(t, "endpoint") /\ t[1].host # "none" /\ t[1].port \in Ports

NoneTwice(s) == Cardinality(ToSet(s)) = Len(s)

InterfaceTypes == {"veth", "bridge", "dummy", "macvlan", "ipvlan", "wireguard"}
IsType(t, type) == Is(t, "word") /\ t[1].spelling = type

ValidateVirtualInterface(v) ==
  /\ ValidateInterfaceName(v.name)
  /\ \E type \in InterfaceTypes : IsType(v.type, type)
  /\ \A peer \in ToSet(v.peer) : ValidateInterfaceName(peer) /\ peer # v.name
  /\ IsType(v.type, "veth") => v.peer # <<>>
  /\ \A a \in ToSet(v.addresses) : ValidateCidr(a)

\* Where a configuration names a link, and the name.
LinkNames(c) ==
  {<<i, "move">> : i \in DOMAIN c.moves} \cup {<<i, "vif">> : i \in DOMAIN c.vifs}
    \cup {<<i, "peer">> : i \in {i \in DOMAIN c.vifs : c.vifs[i].peer # <<>>}}
NameOfLink(c, k) ==
  CASE k[2] = "move" -> c.moves[k[1]] [] k[2] = "vif" -> c.vifs[k[1]].name
    [] k[2] = "peer" -> c.vifs[k[1]].peer[1]

\* Faulty: the peers are left out of the comparison of names.
InterfacesButPeers(c) ==
  LET all == {k \in LinkNames(c) : k[2] # "peer"} IN
  /\ \A m \in ToSet(c.moves) : ValidateInterfaceName(m)
  /\ \A v \in ToSet(c.vifs) : ValidateVirtualInterface(v)
  /\ Cardinality({NameOfLink(c, k) : k \in all}) = Cardinality(all)

\* There are as many names as there are links.
ValidateInterfaces(c) ==
  LET all == LinkNames(c) IN
  /\ \A m \in ToSet(c.moves) : ValidateInterfaceName(m)
  /\ \A v \in ToSet(c.vifs) : ValidateVirtualInterface(v)
  /\ Cardinality({NameOfLink(c, k) : k \in all}) = Cardinality(all)

ValidateRoute(r) ==
  ValidateCidr(r.destination) /\ ValidateIpAddress(r.gateway) /\ r.metric # <<0>>

ValidateRouting(c) ==
  /\ \A g \in ToSet(c.gateway) : ValidateIpAddress(g)
  /\ \A r \in ToSet(c.routes) : ValidateRoute(r)
  /\ NoneTwice([i \in DOMAIN c.routes |-> c.routes[i].destination])

ValidateDns(c) ==
  /\ \A s \in ToSet(c.servers) : ValidateIpAddress(s)
  /\ \A d \in ToSet(c.search) : ValidateDomainName(d)
  /\ NoneTwice(c.servers) /\ NoneTwice(c.search)

ValidatePeer(p) ==
  /\ ValidateWgKey(p.key) /\ \A k \in ToSet(p.psk) : ValidateWgKey(k)
  /\ \A e \in ToSet(p.endpoint) : ValidateEndpoint(e)
  /\ \A a \in ToSet(p.allowed) : ValidateCidr(a)

ValidateWireguard(c) ==
  \A w \in ToSet(c.wireguard) : ValidateWgKey(w.key) /\ \A p \in ToSet(w.peers) : ValidatePeer(p)

Validate(c) ==
  /\ ValidateNamespaceName(c.name) /\ ValidateInterfaces(c)
  /\ ValidateRouting(c) /\ ValidateDns(c) /\ ValidateWireguard(c)

-----------------------------------------------------------------------------
(* Who applies what. A content that is not of the file's shape, or a file  *)
(* that is not there, is <<>>.                                             *)

\* The daemon's loader.
FromFile(content) ==
  IF content = <<>> THEN <<>>
  ELSE LET c == SubstituteEnvironmentVariables(content[1])
       IN IF c # <<>> /\ Validate(c[1]) THEN c ELSE <<>>

\* ValidateConfiguration over D-Bus: without substitution.
ValidateConfigFile(content) == content # <<>> /\ Validate(content[1])

\* segwire validate: likewise, in the process of the command line.
ValidateSingleFile(content) == content # <<>> /\ Validate(content[1])

\* ReloadConfiguration counts the files it can parse.
ReloadCounts(content) == content # <<>>

-----------------------------------------------------------------------------
(* import-wg: a wg-quick file is a sequence of lines.                      *)
Header(section) == [is |-> "header", key |-> section, values |-> <<>>]
Pair(key, values) == [is |-> "pair", key |-> key, values |-> values]
Junk == [is |-> "junk", key |-> "", values |-> <<>>]

\* These keys take a list, separated by commas; the value of any other is one text.
ListKeys == {"Address", "DNS", "AllowedIPs"}

IsWgLine(line) ==
  /\ DOMAIN line = {"is", "key", "values"} /\ line.is \in {"header", "pair", "junk"}
  /\ IsList(line.values) /\ \A t \in ToSet(line.values) : IsList(t)
  /\ line.is = "pair" => line.values # <<>> /\ (line.key \notin ListKeys => Len(line.values) = 1)

NewPeer == [key |-> <<>>, psk |-> <<>>, endpoint |-> <<>>, allowed |-> <<>>]
NothingParsed == [failed |-> FALSE, section |-> "none", key |-> <<>>, addresses |-> <<>>,
                  servers |-> <<>>, peers |-> <<>>, current |-> <<>>]

Failed(s) == [s EXCEPT !.failed = TRUE]
Flush(s) == [s EXCEPT !.peers = @ \o s.current, !.current = <<>>]
NotANumber(line) == ~Is(line.values[1], "number") \/ line.values[1][1].n < 0
NotAPort(line) == NotANumber(line) \/ line.values[1][1].n > 65535
\* A mark has 32 bits; a number beyond them is a word.
NotAMark(line) == NotANumber(line)

\* Faulty: a peer starts with what the peer before it was given.
ParseHeaderOver(s, line) ==
  CASE line.key = "Interface" -> [Flush(s) EXCEPT !.section = "Interface"]
    [] line.key = "Peer" ->
         [Flush(s) EXCEPT !.section = "Peer",
                          !.current = IF s.current = <<>> THEN <<NewPeer>> ELSE s.current]
    [] OTHER -> Failed(s)

ParseHeader(s, line) ==
  CASE line.key = "Interface" -> [Flush(s) EXCEPT !.section = "Interface"]
    [] line.key = "Peer" -> [Flush(s) EXCEPT !.section = "Peer", !.current = <<NewPeer>>]
    [] OTHER -> Failed(s)

ParseInterface(s, line) ==
  CASE line.key = "PrivateKey" -> [s EXCEPT !.key = line.values[1]]
    [] line.key = "ListenPort" -> IF NotAPort(line) THEN Failed(s) ELSE s
    [] line.key = "FwMark" -> IF NotAMark(line) THEN Failed(s) ELSE s
    [] line.key = "Address" -> [s EXCEPT !.addresses = @ \o line.values]
    [] line.key = "DNS" -> [s EXCEPT !.servers = @ \o line.values]
    [] OTHER -> s

ParsePeer(s, line) ==
  CASE line.key = "PublicKey" -> [s EXCEPT !.current[1].key = line.values[1]]
    [] line.key = "PresharedKey" -> [s EXCEPT !.current[1].psk = <<line.values[1]>>]
    [] line.key = "Endpoint" -> [s EXCEPT !.current[1].endpoint = <<line.values[1]>>]
    [] line.key = "AllowedIPs" -> [s EXCEPT !.current[1].allowed = @ \o line.values]
    [] line.key = "PersistentKeepalive" -> IF NotAPort(line) THEN Failed(s) ELSE s
    [] OTHER -> s

ParseLine(s, line) ==
  IF s.failed THEN s
  ELSE CASE line.is = "header" -> ParseHeader(s, line)
         [] line.is = "junk" -> Failed(s)
         [] line.is = "pair" /\ s.section = "Interface" -> ParseInterface(s, line)
         [] line.is = "pair" /\ s.section = "Peer" -> ParsePeer(s, line)
         [] OTHER -> s

ParseWgQuickRaw(lines) ==
  LET parsed[i \in 0 .. Len(lines)] ==
        IF i = 0 THEN NothingParsed ELSE ParseLine(parsed[i - 1], lines[i])
      s == Flush(parsed[Len(lines)])
  IN IF s.failed \/ s.key = <<>> THEN <<>> ELSE <<s>>

WgVif(ifname, addresses) ==
  [name |-> ifname, type |-> <<Word("wireguard", 9, "letters")>>, peer |-> <<>>,
   addresses |-> addresses]

ParseWgQuick(lines, name, ifname) ==
  LET Converted(s) ==
        [name |-> name, description |-> <<Word("imported", 50, "other")>>, moves |-> <<>>,
         vifs |-> <<WgVif(ifname, s.addresses)>>, gateway |-> <<>>, routes |-> <<>>,
         servers |-> s.servers, search |-> <<>>,
         wireguard |-> <<[key |-> s.key, peers |-> s.peers]>>,
         environment |-> [v \in Var |-> <<>>]]
  IN Each(ParseWgQuickRaw(lines), Converted)

\* What import-wg writes where no file is yet.
ImportWg(lines, name, ifname) ==
  LET c == ParseWgQuick(lines, name, ifname)
  IN IF c # <<>> /\ Validate(c[1]) THEN c ELSE <<>>
=============================================================================
