------------------------ MODULE NetlinkSocket_proofs ------------------------
(***************************************************************************)
(* Proofs about NetlinkSocket: answers are the request's own, only links   *)
(* of the name are touched, verdicts tell what the kernel did, and lists   *)
(* are complete, for any number of threads, links and changes.             *)
(***************************************************************************)
EXTENDS NetlinkSocket, FiniteSetTheorems, SequenceTheorems, WellFoundedInduction, TLAPS

Text == Name \cup {"none"}
Link == [index : Nat, name : Text, up : BOOLEAN, key : BOOLEAN]
Type == {"none", "dump", "set", "new", "family", "device"}
Request == [type : Type, link : Link, flags : SUBSET {"DUMP", "EXCL", "ACK"},
            cursor : Nat, number : Nat]
Piece == [type : {"link", "done", "ack", "error", "family"}, link : Link, number : Nat]
Datagram == Seq(Piece)
Record == [stayed : SUBSET Link, been : SUBSET Link, did : SUBSET Nat]
Doing == [do : {"none", "list", "up", "create", "configure"}, name : Text,
          stage : (Type \ {"none"}) \cup {"idle", "returned"},
          result : {"none", "ok", "refused", "lost"}]

(* What is in each variable.                                               *)
Shape ==
  /\ links \in SUBSET Link /\ next \in Nat \ {0}
  /\ op \in [Worker -> Doing]
  /\ sock \in [Worker -> [asked : Request, inbox : Seq(Datagram)]]
  /\ heard \in [Worker -> Datagram]
  /\ past \in [Worker -> Record]
  /\ calls \in 0 .. MaxCalls /\ events \in 0 .. MaxEvents

(* Links differ in index and in name, and the next index is free.          *)
Distinct(all, free) ==
  /\ \A k, l \in all : k.index = l.index \/ k.name = l.name => k = l
  /\ \A l \in all : l.index \in 1 .. free - 1

(* What a thread does, and what the request at its stage is for.           *)
Purpose(o) ==
  /\ o.stage = "dump" => o.do \in {"list", "up"}
  /\ o.stage = "set" => o.do = "up"
  /\ o.stage = "new" => o.do = "create"
  /\ o.stage \in {"family", "device"} => o.do = "configure"

(* Everything collected or unread has the number of the request.           *)
Numbered(s, h) ==
  /\ \A i \in DOMAIN h : h[i].number = s.asked.number
  /\ \A i \in DOMAIN s.inbox : \A j \in DOMAIN s.inbox[i] :
       s.inbox[i][j].number = s.asked.number

(* A datagram of nothing but links that have been there.                   *)
OfLinks(d, been) == \A j \in DOMAIN d : d[j].type = "link" /\ d[j].link \in been

(* A dump has changed nothing: all it brings are links that have been      *)
(* there, and a message of its own that ends it.                           *)
Dumping(o, s, h, p) ==
  o.stage = "dump" =>
    /\ p.did = {} /\ s.asked.type \in {"dump", "none"} /\ OfLinks(h, p.been)
    /\ \A i \in DOMAIN s.inbox :
         \/ OfLinks(s.inbox[i], p.been)
         \/ /\ s.asked.type = "none" /\ i = Len(s.inbox)
            /\ Len(s.inbox[i]) = 1 /\ s.inbox[i][1].type = "done"

(* A link that has stayed is still to be dumped, unread, or collected.     *)
Covered(l, s, h) ==
  \/ s.asked.type = "dump" /\ s.asked.cursor < l.index
  \/ \E i \in DOMAIN h : SameLink(h[i].link, l)
  \/ \E i \in DOMAIN s.inbox : \E j \in DOMAIN s.inbox[i] :
       s.inbox[i][j].type = "link" /\ SameLink(s.inbox[i][j].link, l)

Covering(o, s, h, p) == o.stage = "dump" => \A l \in p.stayed : Covered(l, s, h)

(* An acknowledged request is unfinished and has changed nothing, or its   *)
(* one answer tells whether it has.                                        *)
Settling(o, s, h, p) ==
  o.stage \in {"set", "new", "device"} =>
    /\ h = <<>>
    /\ \/ s.asked.type = o.stage /\ s.inbox = <<>> /\ p.did = {}
       \/ /\ s.asked.type = "none" /\ Len(s.inbox) = 1 /\ Len(s.inbox[1]) = 1
          /\ \/ s.inbox[1][1].type = "ack" /\ p.did # {}
             \/ s.inbox[1][1].type = "error" /\ p.did = {}

(* The family is asked for first, and has its answer in one message.       *)
Resolving(o, s, h, p) ==
  o.stage = "family" =>
    /\ h = <<>> /\ p.did = {}
    /\ \/ s.asked.type = "family" /\ s.inbox = <<>>
       \/ /\ s.asked.type = "none" /\ Len(s.inbox) = 1 /\ Len(s.inbox[1]) = 1
          /\ s.inbox[1][1].type \in {"family", "error"}

(* The link asked for bore the name.                                       *)
Aimed(o, s, p) ==
  /\ o.stage \notin {"idle", "returned"} => s.asked.flags = Flags(o.stage)
  /\ o.stage = "set" /\ s.asked.type = "set" =>
       \E l \in p.been : l.index = s.asked.link.index /\ l.name = o.name
  /\ o.stage \in {"new", "device"} /\ s.asked.type # "none" => s.asked.link.name = o.name

(* What the three properties say of one thread.                            *)
Touching(o, p) == \A i \in p.did : \E l \in p.been : l.index = i /\ l.name = o.name

Telling(o, p) ==
  o.stage = "returned" /\ o.do # "list" =>
    /\ o.result = "ok" => p.did # {}
    /\ o.result = "refused" => p.did = {}

Listing(o, h, p) ==
  o.stage = "returned" /\ o.do = "list" /\ o.result = "ok" =>
    /\ \A l \in p.stayed : \E i \in DOMAIN h : SameLink(h[i].link, l)
    /\ \A i \in DOMAIN h : h[i].link \in p.been

(* The record of an operation follows the links.                           *)
Following(o, p, all) ==
  o.stage # "idle" => /\ all \subseteq p.been
                      /\ \A l \in p.stayed : \E k \in all : SameLink(k, l)

Sound(o, s, h, p, all) ==
  /\ Purpose(o) /\ Numbered(s, h)
  /\ Dumping(o, s, h, p) /\ Covering(o, s, h, p)
  /\ Settling(o, s, h, p) /\ Resolving(o, s, h, p) /\ Aimed(o, s, p)
  /\ Touching(o, p) /\ Telling(o, p) /\ Listing(o, h, p) /\ Following(o, p, all)
  /\ o.stage = "idle" => h = <<>> /\ p = NoPast

Inv ==
  /\ Shape /\ Distinct(links, next)
  /\ \A w \in Worker : Sound(op[w], sock[w], heard[w], past[w], links)

-----------------------------------------------------------------------------
(* A set of natural numbers has a least one.                               *)
LEMMA LeastElement ==
  ASSUME NEW S \in SUBSET Nat, S # {}
  PROVE  Min(S) \in S /\ \A k \in S : Min(S) <= k
<1>1. IsWellFoundedOn({ss \in Nat \X Nat : ss[1] < ss[2]}, Nat)
  BY NatLessThanWellFounded, Zenon DEF OpToRel
<1>2. PICK m \in S : \A k \in S : ~(<<k, m>> \in {ss \in Nat \X Nat : ss[1] < ss[2]})
  BY <1>1, WFMin
<1>3. \A k \in S : m <= k
  <2> SUFFICES ASSUME NEW k \in S PROVE m <= k
    OBVIOUS
  <2>1. <<k, m>> \in Nat \X Nat /\ ~(k < m)
    BY <1>2
  <2> QED BY <2>1
<1> QED BY <1>2, <1>3 DEF Min

(* The index that is looked up is that of a collected link of the name.    *)
LEMMA IndexOfNamed ==
  ASSUME NEW messages \in Datagram, NEW name, IndexOf(messages, name) # 0
  PROVE  \E i \in DOMAIN messages : /\ messages[i].type = "link"
                                    /\ messages[i].link.name = name
                                    /\ messages[i].link.index = IndexOf(messages, name)
<1> DEFINE named == {i \in DOMAIN messages : messages[i].type = "link" /\ messages[i].link.name = name}
<1>1. named # {} /\ IndexOf(messages, name) = messages[Min(named)].link.index
  BY DEF IndexOf
<1>2. named \in SUBSET Nat
  BY DEF Datagram
<1>3. Min(named) \in named
  BY <1>1, <1>2, LeastElement
<1> QED BY <1>1, <1>3

(* A datagram without an end is collected whole, one that is an end brings *)
(* nothing else.                                                           *)
LEMMA ParseWhole ==
  ASSUME NEW d \in Datagram, \A i \in DOMAIN d : ~Ending(d[i])
  PROVE  ParseResponseBatch(d) = [messages |-> d, end |-> "none"]
BY DEF ParseResponseBatch

(* A datagram of one message that ends a request yields nothing but its    *)
(* end.                                                                    *)
LEMMA ParseEnd ==
  ASSUME NEW d \in Datagram, Len(d) = 1, Ending(d[1])
  PROVE  ParseResponseBatch(d) = [messages |-> <<>>, end |-> d[1].type]
<1> DEFINE ends == {i \in DOMAIN d : Ending(d[i])}
<1>1. DOMAIN d = {1} /\ ends = {1}
  BY DEF Datagram
<1>2. Min(ends) = 1
  BY <1>1, LeastElement
<1>3. SubSeq(d, 1, Min(ends) - 1) = <<>>
  <2>1. Min(ends) - 1 = 0
    BY <1>2
  <2>2. SubSeq(d, 1, 0) = <<>>
    BY SubSeqEmpty
  <2> QED BY <2>1, <2>2
<1> QED BY <1>1, <1>2, <1>3 DEF ParseResponseBatch

-----------------------------------------------------------------------------
(* What the steps change, and that it keeps its shape.                     *)
LEMMA Constants ==
  /\ NoLink \in Link /\ NoPast \in Record /\ Idle \in Doing
  /\ \A name \in Text : [NoLink EXCEPT !.name = name] \in Link
  /\ \A i \in Nat : [NoLink EXCEPT !.index = i] \in Link
  /\ \A name \in Text, i \in Nat : [NoLink EXCEPT !.index = i, !.name = name] \in Link
BY DEF NoLink, NoPast, Idle, Link, Record, Doing, Text, Type

(* Flags of a request.                                                     *)
LEMMA FlagsType ==
  ASSUME NEW type \in Type \ {"none"}
  PROVE  Flags(type) \in SUBSET {"DUMP", "EXCL", "ACK"}
BY DEF Type, Flags

(* A request opens a socket of its own with nothing to read.               *)
LEMMA OpenShape ==
  ASSUME Shape, NEW w \in Worker, NEW type \in Type \ {"none"}, NEW link \in Link,
         Open(w, type, link)
  PROVE  /\ sock' \in [Worker -> [asked : Request, inbox : Seq(Datagram)]]
         /\ \A v \in Worker \ {w} : sock'[v] = sock[v]
         /\ sock'[w] = [asked |-> Asked(w, type, link), inbox |-> <<>>]
         /\ Asked(w, type, link) \in Request
<1>1. sock[w].asked \in Request
  BY DEF Shape
<1>2. Asked(w, type, link) \in Request
  <2>1. sock[w].asked.number + 1 \in Nat
    BY <1>1 DEF Request
  <2>2. Flags(type) \in SUBSET {"DUMP", "EXCL", "ACK"}
    BY FlagsType
  <2> QED BY <2>1, <2>2 DEF Asked, Request
<1>3. [asked |-> Asked(w, type, link), inbox |-> <<>>] \in [asked : Request, inbox : Seq(Datagram)]
  BY <1>2
<1> QED BY <1>2, <1>3 DEF Open, Shape

(* Messages of the kernel.                                                 *)
LEMMA MessageType ==
  ASSUME Shape, NEW w \in Worker, NEW link \in Link,
         NEW type \in {"link", "done", "ack", "error", "family"}
  PROVE  Message(w, type, link) \in Piece
<1>1. sock[w].asked \in Request
  BY DEF Shape
<1> QED BY <1>1 DEF Message, Piece, Request

(* A request that is answered asks no more, and keeps its number and       *)
(* flags.                                                                  *)
LEMMA SettledType ==
  ASSUME Shape, NEW w \in Worker
  PROVE  Settled(w) \in Request /\ Settled(w).type = "none" /\ Settled(w).number = sock[w].asked.number
         /\ Settled(w).flags = sock[w].asked.flags
<1>1. sock[w].asked \in Request
  BY DEF Shape
<1> QED BY <1>1, Constants DEF Settled, Request, Type

(* An answer joins the inbox of the socket that asked.                     *)
LEMMA AnswerShape ==
  ASSUME Shape, NEW w \in Worker, NEW messages \in Datagram, NEW asked \in Request,
         Answer(w, messages, asked)
  PROVE  /\ sock' \in [Worker -> [asked : Request, inbox : Seq(Datagram)]]
         /\ \A v \in Worker \ {w} : sock'[v] = sock[v]
         /\ sock'[w] = [asked |-> asked, inbox |-> Append(sock[w].inbox, messages)]
<1>1. sock[w] \in [asked : Request, inbox : Seq(Datagram)]
  BY DEF Shape
<1>2. Append(sock[w].inbox, messages) \in Seq(Datagram)
  BY <1>1
<1>3. sock' = [sock EXCEPT ![w] = [asked |-> asked, inbox |-> Append(sock[w].inbox, messages)]]
  BY DEF Answer
<1>4. [asked |-> asked, inbox |-> Append(sock[w].inbox, messages)] \in [asked : Request, inbox : Seq(Datagram)]
  BY <1>2
<1> QED BY <1>3, <1>4 DEF Shape

(* The record of an operation after the links have become others.          *)
After(o, p, new, touched) ==
  IF o.stage = "idle" THEN NoPast
  ELSE [stayed |-> {l \in p.stayed : \E k \in new : SameLink(k, l)},
        been |-> p.been \cup new, did |-> p.did \cup touched]

(* A change of the links is noted for every operation under way.           *)
LEMMA BecomeShape ==
  ASSUME Shape, NEW w, NEW new \in SUBSET Link, NEW touched \in SUBSET Nat,
         Become(new, w, touched)
  PROVE  /\ links' = new /\ past' \in [Worker -> Record]
         /\ \A v \in Worker : past'[v] = After(op[v], past[v], new, IF v = w THEN touched ELSE {})
<1>1. ASSUME NEW v \in Worker
      PROVE  /\ past'[v] = After(op[v], past[v], new, IF v = w THEN touched ELSE {})
             /\ past'[v] \in Record
  <2>1. past[v] \in Record
    BY DEF Shape
  <2>2. past'[v] = After(op[v], past[v], new, IF v = w THEN touched ELSE {})
    BY <2>1 DEF Become, After, Record
  <2>3. After(op[v], past[v], new, IF v = w THEN touched ELSE {}) \in Record
    BY <2>1, Constants DEF After, Record
  <2> QED BY <2>2, <2>3
<1> QED BY <1>1 DEF Become

-----------------------------------------------------------------------------
(* What is sound of one thread stays so.                                   *)
Socket == [asked : Request, inbox : Seq(Datagram)]

(* What an operation is that returns.                                      *)
LEMMA ReturnShape ==
  ASSUME Shape, NEW w \in Worker, NEW result \in {"none", "ok", "refused", "lost"},
         op' = [op EXCEPT ![w].stage = "returned", ![w].result = result]
  PROVE  /\ op' \in [Worker -> Doing] /\ \A v \in Worker \ {w} : op'[v] = op[v]
         /\ op'[w].stage = "returned" /\ op'[w].result = result
         /\ op'[w].do = op[w].do /\ op'[w].name = op[w].name
<1> DEFINE o == [op[w] EXCEPT !.stage = "returned", !.result = result]
<1>1. op[w] \in Doing /\ op \in [Worker -> Doing]
  BY DEF Shape
<1>2. /\ o \in Doing /\ o.stage = "returned" /\ o.result = result
      /\ o.do = op[w].do /\ o.name = op[w].name
  BY <1>1 DEF Doing
<1>3. op' = [op EXCEPT ![w] = o]
  BY <1>1
<1> HIDE DEF o
<1> QED BY <1>1, <1>2, <1>3

(* While the links become others by somebody else.                         *)
LEMMA AfterSound ==
  ASSUME NEW o \in Doing, NEW s \in Socket, NEW h \in Datagram, NEW p \in Record,
         NEW all \in SUBSET Link, NEW new \in SUBSET Link, Sound(o, s, h, p, all)
  PROVE  Sound(o, s, h, After(o, p, new, {}), new)
<1> DEFINE q == After(o, p, new, {})
<1>1. CASE o.stage = "idle"
  <2>1. q = NoPast /\ h = <<>> /\ p = NoPast
    BY <1>1 DEF After, Sound
  <2>2. Purpose(o) /\ Numbered(s, h) /\ Touching(o, NoPast)
    BY <2>1 DEF Sound
  <2>3. /\ Dumping(o, s, h, NoPast) /\ Covering(o, s, h, NoPast) /\ Settling(o, s, h, NoPast)
        /\ Resolving(o, s, h, NoPast) /\ Aimed(o, s, NoPast)
        /\ Telling(o, NoPast) /\ Listing(o, h, NoPast) /\ Following(o, NoPast, new)
    BY <1>1 DEF Dumping, Covering, Settling, Resolving, Aimed, Telling, Listing, Following
  <2> HIDE DEF q
  <2> QED BY <2>1, <2>2, <2>3 DEF Sound, q
<1>2. CASE o.stage # "idle"
  <2>1. /\ q.did = p.did /\ p.been \subseteq q.been /\ q.stayed \subseteq p.stayed
        /\ new \subseteq q.been /\ \A l \in q.stayed : \E k \in new : SameLink(k, l)
    BY <1>2 DEF After, Record
  <2> HIDE DEF q
  <2>2. Purpose(o) /\ Numbered(s, h)
    BY DEF Sound
  <2>3. Dumping(o, s, h, q)
    BY <2>1 DEF Sound, Dumping, OfLinks
  <2>4. Covering(o, s, h, q) /\ Settling(o, s, h, q) /\ Resolving(o, s, h, q)
    BY <2>1 DEF Sound, Covering, Settling, Resolving
  <2>5. Aimed(o, s, q) /\ Touching(o, q)
    BY <2>1 DEF Sound, Aimed, Touching
  <2>6. Telling(o, q) /\ Listing(o, h, q) /\ Following(o, q, new)
    BY <2>1 DEF Sound, Telling, Listing, Following
  <2> QED BY <1>2, <2>2, <2>3, <2>4, <2>5, <2>6 DEF Sound, q
<1> QED BY <1>1, <1>2

(* When an operation returns.                                              *)
LEMMA ReturnedSound ==
  ASSUME NEW o, NEW s, NEW h, NEW p, NEW all, Sound(o, s, h, p, all),
         o.stage # "idle",
         NEW o2, o2.stage = "returned", o2.do = o.do, o2.name = o.name,
         NEW h2, \A i \in DOMAIN h2 : h2[i].number = s.asked.number,
         Telling(o2, p), Listing(o2, h2, p)
  PROVE  Sound(o2, s, h2, p, all)
<1>1. Purpose(o2) /\ Numbered(s, h2)
  BY DEF Purpose, Sound, Numbered
<1>2. /\ Dumping(o2, s, h2, p) /\ Covering(o2, s, h2, p) /\ Settling(o2, s, h2, p)
      /\ Resolving(o2, s, h2, p) /\ Aimed(o2, s, p)
  BY DEF Dumping, Covering, Settling, Resolving, Aimed
<1>3. Touching(o2, p) /\ Following(o2, p, all)
  BY DEF Sound, Touching, Following
<1> QED BY <1>1, <1>2, <1>3 DEF Sound

(* When the next request is sent: no datagram of another is there.         *)
LEMMA SentSound ==
  ASSUME NEW o, NEW s, NEW h, NEW p, NEW all, Sound(o, s, h, p, all),
         NEW o2, NEW s2, NEW type \in Type \ {"none"}, NEW link,
         o.stage # "idle", p.did = {},
         o2.stage = type, o2.do = o.do, o2.name = o.name, Purpose(o2),
         s2.inbox = <<>>, s2.asked.type = type, s2.asked.link = link,
         s2.asked.flags = Flags(type),
         \/ type = "set" /\ \E l \in p.been : l.index = link.index /\ l.name = o.name
         \/ type = "device" /\ link.name = o.name
  PROVE  Sound(o2, s2, <<>>, p, all)
<1>1. Numbered(s2, <<>>)
  BY DEF Numbered
<1>2. /\ Dumping(o2, s2, <<>>, p) /\ Covering(o2, s2, <<>>, p) /\ Settling(o2, s2, <<>>, p)
      /\ Resolving(o2, s2, <<>>, p)
  BY DEF Dumping, Covering, Settling, Resolving
<1>3. Aimed(o2, s2, p)
  BY DEF Aimed
<1>4. Touching(o2, p) /\ Telling(o2, p) /\ Listing(o2, <<>>, p) /\ Following(o2, p, all)
  BY DEF Sound, Touching, Telling, Listing, Following, Type
<1> QED BY <1>1, <1>2, <1>3, <1>4 DEF Sound, Type

-----------------------------------------------------------------------------
(* The actions.                                                            *)

(* One thread's step leaves the others as they are, but for the record of  *)
(* the links.                                                              *)
LEMMA OthersSound ==
  ASSUME Inv, Shape', Distinct(links', next'), NEW w,
         \A v \in Worker \ {w} : /\ op'[v] = op[v] /\ sock'[v] = sock[v] /\ heard'[v] = heard[v]
                                 /\ \/ past'[v] = past[v] /\ links' = links
                                    \/ past'[v] = After(op[v], past[v], links', {}),
         w \in Worker => Sound(op'[w], sock'[w], heard'[w], past'[w], links')
  PROVE  Inv'
<1>1. ASSUME NEW v \in Worker
      PROVE  Sound(op'[v], sock'[v], heard'[v], past'[v], links')
  <2>1. Sound(op[v], sock[v], heard[v], past[v], links)
    BY DEF Inv
  <2>2. /\ op[v] \in Doing /\ sock[v] \in Socket /\ heard[v] \in Datagram /\ past[v] \in Record
        /\ links \in SUBSET Link /\ links' \in SUBSET Link
    BY DEF Inv, Shape, Socket
  <2>3. Sound(op[v], sock[v], heard[v], After(op[v], past[v], links', {}), links')
    BY <2>1, <2>2, AfterSound
  <2> QED BY <2>1, <2>3
<1> QED BY <1>1 DEF Inv

(* An operation begins with its first request.                             *)
LEMMA BeginInv ==
  ASSUME Inv, NEW w \in Worker, Begin(w)
  PROVE  Inv'
<1>t. Shape /\ Distinct(links, next) /\ Sound(op[w], sock[w], heard[w], past[w], links)
  BY DEF Inv
<1>1. PICK do \in Operation, name \in Name, stage \in {"dump", "new", "family"} :
        /\ do \in {"list", "up"} => stage = "dump"
        /\ do = "create" => stage = "new"
        /\ do = "configure" => stage = "family"
        /\ Open(w, stage, [NoLink EXCEPT !.name = name])
        /\ op' = [op EXCEPT ![w] = [do |-> do, name |-> name, stage |-> stage, result |-> "none"]]
  BY NetlinkAssumption DEF Begin
<1> DEFINE link == [NoLink EXCEPT !.name = name]
           o == [do |-> do, name |-> name, stage |-> stage, result |-> "none"]
           p == [stayed |-> links, been |-> links, did |-> {}]
<1>2. link \in Link /\ link.name = name /\ stage \in Type \ {"none"} /\ do \in {"list", "up", "create", "configure"}
  BY Constants, NetlinkAssumption DEF Text, Type, NoLink
<1>3. /\ sock' \in [Worker -> [asked : Request, inbox : Seq(Datagram)]]
      /\ \A v \in Worker \ {w} : sock'[v] = sock[v]
      /\ sock'[w] = [asked |-> Asked(w, stage, link), inbox |-> <<>>]
  BY <1>t, <1>1, <1>2, OpenShape
<1>4. op' \in [Worker -> Doing] /\ op'[w] = o /\ \A v \in Worker \ {w} : op'[v] = op[v]
  <2>1. o \in Doing
    BY <1>2 DEF Doing, Text, Type
  <2> QED BY <1>t, <1>1, <2>1 DEF Shape
<1>5. past' \in [Worker -> Record] /\ past'[w] = p /\ \A v \in Worker \ {w} : past'[v] = past[v]
  <2>1. p \in Record
    BY <1>t DEF Shape, Record
  <2> QED BY <1>t, <2>1 DEF Begin, Shape
<1>6. Shape' /\ UNCHANGED <<links, next, heard>>
  <2>1. calls' \in 0 .. MaxCalls /\ UNCHANGED <<links, next, heard, events>>
    BY <1>t, NetlinkAssumption DEF Begin, Shape
  <2> QED BY <1>t, <1>3, <1>4, <1>5, <2>1 DEF Shape
<1>7. Sound(o, sock'[w], heard[w], p, links)
  <2> DEFINE s == sock'[w]
  <2>1. heard[w] = <<>>
    BY <1>t DEF Begin, Sound
  <2>2. /\ s.inbox = <<>> /\ s.asked.type = stage /\ s.asked.link = link
        /\ s.asked.flags = Flags(stage) /\ s.asked.cursor = 0
    BY <1>3 DEF Asked
  <2> HIDE DEF s
  <2>3. Purpose(o) /\ Numbered(s, <<>>) /\ Dumping(o, s, <<>>, p) /\ Resolving(o, s, <<>>, p)
    BY <1>1, <1>2, <2>2 DEF Purpose, Numbered, Dumping, Resolving, OfLinks
  <2>4. Covering(o, s, <<>>, p) /\ Settling(o, s, <<>>, p) /\ Aimed(o, s, p)
    BY <1>t, <1>1, <1>2, <2>2 DEF Covering, Covered, Settling, Aimed, Distinct, Shape, Link
  <2>5. Touching(o, p) /\ Telling(o, p) /\ Listing(o, <<>>, p) /\ Following(o, p, links)
    BY DEF Touching, Telling, Listing, Following, SameLink
  <2>6. o.stage # "idle"
    OBVIOUS
  <2> HIDE DEF o, p
  <2> QED BY <2>1, <2>3, <2>4, <2>5, <2>6 DEF Sound, s
<1> QED BY <1>t, <1>3, <1>4, <1>5, <1>6, <1>7, OthersSound

(* A socket that overruns loses a datagram.                                *)
LEMMA OverrunInv ==
  ASSUME Inv, NEW w \in Worker, Overrun(w)
  PROVE  Inv'
<1>t. Shape /\ Distinct(links, next) /\ Sound(op[w], sock[w], heard[w], past[w], links)
  BY DEF Inv
<1>1. UNCHANGED <<links, next, sock, calls, past>> /\ events' \in 0 .. MaxEvents
  BY <1>t, NetlinkAssumption DEF Overrun, Return, Shape
<1>2. /\ op' \in [Worker -> Doing] /\ \A v \in Worker \ {w} : op'[v] = op[v]
      /\ op'[w].stage = "returned" /\ op'[w].result = "lost"
      /\ op'[w].do = op[w].do /\ op'[w].name = op[w].name
  <2>1. op' = [op EXCEPT ![w].stage = "returned", ![w].result = "lost"]
    BY DEF Overrun, Return
  <2> QED BY <1>t, <2>1, ReturnShape
<1>3. heard' \in [Worker -> Datagram] /\ heard'[w] = <<>> /\ \A v \in Worker \ {w} : heard'[v] = heard[v]
  BY <1>t DEF Overrun, Return, Shape, Datagram
<1>4. Shape'
  BY <1>t, <1>1, <1>2, <1>3 DEF Shape
<1>5. Sound(op'[w], sock[w], heard'[w], past[w], links)
  <2>1. Telling(op'[w], past[w]) /\ Listing(op'[w], <<>>, past[w]) /\ op[w].stage # "idle"
    BY <1>2 DEF Telling, Listing, Overrun, Waiting
  <2> QED BY <1>t, <1>2, <1>3, <2>1, ReturnedSound
<1> QED BY <1>t, <1>1, <1>2, <1>3, <1>4, <1>5, OthersSound

(* A thread leaves its operation with what it collected.                   *)
LEMMA LeaveInv ==
  ASSUME Inv, NEW w \in Worker, Leave(w)
  PROVE  Inv'
<1>t. Shape /\ Distinct(links, next)
  BY DEF Inv
<1>1. UNCHANGED <<links, next, sock, calls, events>>
  BY DEF Leave
<1>2. /\ op' \in [Worker -> Doing] /\ heard' \in [Worker -> Datagram] /\ past' \in [Worker -> Record]
      /\ \A v \in Worker \ {w} : op'[v] = op[v] /\ heard'[v] = heard[v] /\ past'[v] = past[v]
      /\ op'[w] = Idle /\ heard'[w] = <<>> /\ past'[w] = NoPast
  <2>1. op' \in [Worker -> Doing] /\ op'[w] = Idle /\ \A v \in Worker \ {w} : op'[v] = op[v]
    <3>1. Idle \in Doing /\ op \in [Worker -> Doing]
      BY <1>t, Constants DEF Shape
    <3>2. op' = [op EXCEPT ![w] = Idle]
      BY DEF Leave
    <3> QED BY <3>1, <3>2
  <2>2. heard' \in [Worker -> Datagram] /\ heard'[w] = <<>> /\ \A v \in Worker \ {w} : heard'[v] = heard[v]
    BY <1>t DEF Leave, Shape, Datagram
  <2>3. past' \in [Worker -> Record] /\ past'[w] = NoPast /\ \A v \in Worker \ {w} : past'[v] = past[v]
    <3>1. NoPast \in Record /\ past \in [Worker -> Record]
      BY <1>t, Constants DEF Shape
    <3>2. past' = [past EXCEPT ![w] = NoPast]
      BY DEF Leave
    <3> QED BY <3>1, <3>2
  <2> QED BY <2>1, <2>2, <2>3
<1>3. Shape'
  BY <1>t, <1>1, <1>2 DEF Shape
<1>4. Sound(Idle, sock[w], <<>>, NoPast, links)
  <2>1. Sound(op[w], sock[w], heard[w], past[w], links)
    BY DEF Inv
  <2>2. Idle.stage = "idle" /\ Idle.do = "none" /\ NoPast.did = {}
    BY DEF Idle, NoPast
  <2>3. /\ Purpose(Idle) /\ Dumping(Idle, sock[w], <<>>, NoPast) /\ Covering(Idle, sock[w], <<>>, NoPast)
        /\ Settling(Idle, sock[w], <<>>, NoPast) /\ Resolving(Idle, sock[w], <<>>, NoPast)
        /\ Aimed(Idle, sock[w], NoPast)
    BY <2>2 DEF Purpose, Dumping, Covering, Settling, Resolving, Aimed
  <2>4. Numbered(sock[w], <<>>)
    BY <2>1 DEF Sound, Numbered
  <2>5. /\ Touching(Idle, NoPast) /\ Telling(Idle, NoPast)
        /\ Listing(Idle, <<>>, NoPast) /\ Following(Idle, NoPast, links)
    BY <2>2 DEF Touching, Telling, Listing, Following, NoPast
  <2> QED BY <2>3, <2>4, <2>5 DEF Sound
<1> QED BY <1>t, <1>1, <1>2, <1>3, <1>4, OthersSound

(* A datagram arrives behind what is unread.                               *)
LEMMA Arrives ==
  ASSUME NEW box \in Seq(Datagram), NEW d \in Datagram
  PROVE  /\ DOMAIN Append(box, d) = 1 .. Len(box) + 1 /\ Len(Append(box, d)) = Len(box) + 1
         /\ DOMAIN box = 1 .. Len(box) /\ Len(box) \in Nat
         /\ \A i \in 1 .. Len(box) : Append(box, d)[i] = box[i]
         /\ Append(box, d)[Len(box) + 1] = d
OBVIOUS

(* The dump goes on, or ends when no link is left.                         *)
LEMMA DumpSound ==
  ASSUME NEW o \in Doing, NEW s \in Socket, NEW h \in Datagram, NEW p \in Record,
         NEW all \in SUBSET Link, Sound(o, s, h, p, all),
         o.stage = "dump", s.asked.type = "dump",
         NEW d \in Datagram, NEW t \in Socket, t.inbox = Append(s.inbox, d),
         t.asked.number = s.asked.number, t.asked.flags = s.asked.flags,
         \A j \in DOMAIN d : d[j].number = s.asked.number,
         \/ /\ t.asked.type = "dump" /\ OfLinks(d, all)
            /\ \A l \in all : l.index > s.asked.cursor =>
                 t.asked.cursor < l.index \/ \E j \in DOMAIN d : d[j].link = l
         \/ /\ t.asked.type = "none" /\ Len(d) = 1 /\ d[1].type = "done"
            /\ \A l \in all : ~(l.index > s.asked.cursor)
  PROVE  Sound(o, t, h, p, all)
<1> DEFINE n == Len(s.inbox)
<1>1. /\ s.inbox \in Seq(Datagram) /\ n \in Nat /\ DOMAIN s.inbox = 1 .. n
      /\ DOMAIN t.inbox = 1 .. n + 1 /\ Len(t.inbox) = n + 1
      /\ \A i \in 1 .. n : t.inbox[i] = s.inbox[i]
      /\ t.inbox[n + 1] = d
  BY Arrives DEF Socket
<1> HIDE DEF n
<1>2. Following(o, p, all) /\ Dumping(o, s, h, p) /\ Covering(o, s, h, p) /\ Numbered(s, h)
  BY DEF Sound
<1>3. Numbered(t, h)
  BY <1>1, <1>2 DEF Numbered
<1>4. Dumping(o, t, h, p)
  <2>1. \A i \in 1 .. n : OfLinks(t.inbox[i], p.been)
    BY <1>1, <1>2 DEF Dumping
  <2>2. t.asked.type = "dump" => OfLinks(t.inbox[n + 1], p.been)
    BY <1>1, <1>2 DEF Following, OfLinks
  <2>3. t.asked.type # "dump" =>
          t.asked.type = "none" /\ Len(t.inbox[n + 1]) = 1 /\ t.inbox[n + 1][1].type = "done"
    BY <1>1
  <2> QED BY <1>1, <1>2, <2>1, <2>2, <2>3 DEF Dumping
<1>5. ASSUME NEW l \in p.stayed PROVE Covered(l, t, h)
  <2>1. CASE \E i \in DOMAIN h : SameLink(h[i].link, l)
    BY <2>1 DEF Covered
  <2>2. CASE \E i \in DOMAIN s.inbox : \E j \in DOMAIN s.inbox[i] :
               s.inbox[i][j].type = "link" /\ SameLink(s.inbox[i][j].link, l)
    <3>1. PICK i \in 1 .. n : \E j \in DOMAIN s.inbox[i] :
               s.inbox[i][j].type = "link" /\ SameLink(s.inbox[i][j].link, l)
      BY <1>1, <2>2
    <3>2. i \in DOMAIN t.inbox /\ t.inbox[i] = s.inbox[i]
      BY <1>1
    <3> QED BY <3>1, <3>2 DEF Covered
  <2>3. CASE s.asked.cursor < l.index
    <3>1. PICK k \in all : SameLink(k, l)
      BY <1>2 DEF Following
    <3>2. k.index > s.asked.cursor
      BY <2>3, <3>1 DEF SameLink, Link, Record, Socket, Request
    <3>3. CASE t.asked.cursor < k.index /\ t.asked.type = "dump"
      BY <3>1, <3>3 DEF Covered, SameLink
    <3>4. CASE OfLinks(d, all) /\ \E j \in DOMAIN d : d[j].link = k
      <4>1. n + 1 \in DOMAIN t.inbox
        BY <1>1
      <4> QED BY <1>1, <3>1, <3>4, <4>1 DEF Covered, OfLinks
    <3> QED BY <3>2, <3>3, <3>4
  <2> QED BY <1>2, <2>1, <2>2, <2>3 DEF Covering, Covered
<1>6. /\ Covering(o, t, h, p) /\ Settling(o, t, h, p) /\ Resolving(o, t, h, p) /\ Aimed(o, t, p)
  BY <1>5 DEF Covering, Settling, Resolving, Aimed, Sound
<1> QED BY <1>3, <1>4, <1>6 DEF Sound

(* A request that the kernel has not finished is that of the stage.        *)
LEMMA AskedAtStage ==
  ASSUME Inv, NEW w \in Worker, Waiting(w), sock[w].asked.type # "none"
  PROVE  /\ op[w].stage = sock[w].asked.type /\ sock[w].asked.flags = Flags(op[w].stage)
         /\ sock[w].asked.type # "dump" => sock[w].inbox = <<>> /\ heard[w] = <<>> /\ past[w].did = {}
<1>1. Sound(op[w], sock[w], heard[w], past[w], links) /\ op[w] \in Doing
  BY DEF Inv, Shape
<1>2. op[w].stage \in {"dump", "set", "new", "family", "device"}
  BY <1>1 DEF Waiting, Doing, Type
<1> QED BY <1>1, <1>2 DEF Sound, Dumping, Settling, Resolving, Aimed

(* The kernel sends the next piece of a dump.                              *)
LEMMA DumpOnInv ==
  ASSUME Inv, NEW w \in Worker, DumpOn(w)
  PROVE  Inv'
<1>t. /\ Shape /\ Distinct(links, next) /\ Sound(op[w], sock[w], heard[w], past[w], links)
      /\ op[w] \in Doing /\ sock[w] \in Socket /\ heard[w] \in Datagram /\ past[w] \in Record
  BY DEF Inv, Shape, Socket
<1> DEFINE asked == sock[w].asked
           rest == {l \in links : l.index > asked.cursor}
<1>0. PICK size \in 0 .. BatchSize : \E batch \in [1 .. size -> rest] :
        /\ IsBatch(batch, rest)
        /\ IF size = 0 THEN Answer(w, <<Message(w, "done", NoLink)>>, Settled(w))
           ELSE Answer(w, [i \in 1 .. size |-> Message(w, "link", batch[i])],
                       [asked EXCEPT !.cursor = batch[size].index])
  BY DEF DumpOn
<1>1. PICK batch \in [1 .. size -> rest] :
        /\ IsBatch(batch, rest)
        /\ IF size = 0 THEN Answer(w, <<Message(w, "done", NoLink)>>, Settled(w))
           ELSE Answer(w, [i \in 1 .. size |-> Message(w, "link", batch[i])],
                       [asked EXCEPT !.cursor = batch[size].index])
  BY <1>0
<1>2. asked.type = "dump" /\ op[w].stage = "dump" /\ UNCHANGED <<links, next, op, heard, calls, events, past>>
  BY AskedAtStage DEF DumpOn
<1>3. size \in Nat /\ BatchSize \in Nat \ {0} /\ Len(batch) = size /\ DOMAIN batch = 1 .. size
      /\ asked \in Request /\ links \in SUBSET Link
  BY <1>t, NetlinkAssumption DEF Socket, Shape
<1>4. \E d \in Datagram, t \in Socket :
        /\ sock' \in [Worker -> Socket] /\ sock'[w] = t /\ \A v \in Worker \ {w} : sock'[v] = sock[v]
        /\ Sound(op[w], t, heard[w], past[w], links)
  <2>1. CASE size = 0
    <3> DEFINE d == <<Message(w, "done", NoLink)>>
    <3>1. d \in Datagram /\ Len(d) = 1 /\ d[1].type = "done" /\ d[1].number = asked.number
      <4>1. Message(w, "done", NoLink) \in Piece
        BY <1>t, MessageType, Constants
      <4> QED BY <4>1 DEF Datagram, Message
    <3>2. /\ sock' \in [Worker -> Socket] /\ \A v \in Worker \ {w} : sock'[v] = sock[v]
          /\ sock'[w] = [asked |-> Settled(w), inbox |-> Append(sock[w].inbox, d)]
      BY <1>t, <1>1, <2>1, <3>1, AnswerShape, SettledType DEF Socket
    <3>3. \A l \in links : ~(l.index > asked.cursor)
      BY <1>1, <1>3, <2>1 DEF IsBatch
    <3>4. \A j \in DOMAIN d : d[j].number = asked.number
      BY <3>1
    <3>5. sock'[w] \in Socket
      BY <3>2
    <3> HIDE DEF d
    <3>6. Sound(op[w], sock'[w], heard[w], past[w], links)
      <4>1. /\ sock'[w].inbox = Append(sock[w].inbox, d) /\ sock'[w].asked.type = "none"
            /\ sock'[w].asked.number = sock[w].asked.number
            /\ sock'[w].asked.flags = sock[w].asked.flags
        BY <1>t, <3>2, SettledType
      <4> QED BY <1>t, <1>2, <1>3, <3>1, <3>3, <3>4, <3>5, <4>1, DumpSound
    <3> QED BY <3>1, <3>2, <3>5, <3>6
  <2>2. CASE size # 0
    <3> DEFINE d == [i \in 1 .. size |-> Message(w, "link", batch[i])]
               after == [asked EXCEPT !.cursor = batch[size].index]
    <3>1. \A i \in 1 .. size : /\ batch[i] \in links /\ d[i] \in Piece
                               /\ d[i].type = "link" /\ d[i].link = batch[i] /\ d[i].number = asked.number
      <4>1. \A i \in 1 .. size : batch[i] \in links /\ batch[i] \in Link
        BY <1>1, <1>3
      <4>2. \A i \in 1 .. size : Message(w, "link", batch[i]) \in Piece
        BY <1>t, <4>1, MessageType
      <4> QED BY <4>1, <4>2 DEF Message
    <3>2. d \in Datagram /\ DOMAIN d = 1 .. size
      BY <1>3, <3>1 DEF Datagram
    <3>3. /\ after \in Request /\ after.type = "dump" /\ after.number = asked.number
          /\ after.flags = asked.flags /\ after.cursor = batch[size].index
      <4>1. batch[size].index \in Nat
        BY <1>3, <2>2, <3>1 DEF Link
      <4> QED BY <1>2, <1>3, <4>1 DEF Request
    <3>4. /\ sock' \in [Worker -> Socket] /\ \A v \in Worker \ {w} : sock'[v] = sock[v]
          /\ sock'[w] = [asked |-> after, inbox |-> Append(sock[w].inbox, d)]
      BY <1>t, <1>1, <2>2, <3>2, <3>3, AnswerShape DEF Socket
    <3>5. ASSUME NEW l \in links, l.index > asked.cursor
          PROVE  after.cursor < l.index \/ \E j \in DOMAIN d : d[j].link = l
      <4>1. CASE \E i \in DOMAIN batch : batch[i] = l
        BY <1>3, <3>1, <3>2, <4>1
      <4>2. CASE Len(batch) = BatchSize /\ batch[BatchSize].index < l.index
        BY <1>3, <3>3, <4>2
      <4> QED BY <1>1, <3>5, <4>1, <4>2 DEF IsBatch
    <3>6. sock'[w] \in Socket
      BY <3>4
    <3>7. OfLinks(d, links) /\ \A j \in DOMAIN d : d[j].number = asked.number
      BY <3>1, <3>2 DEF OfLinks
    <3> HIDE DEF d, after
    <3>8. Sound(op[w], sock'[w], heard[w], past[w], links)
      <4>1. /\ sock'[w].inbox = Append(sock[w].inbox, d) /\ sock'[w].asked.type = "dump"
            /\ sock'[w].asked.number = sock[w].asked.number
            /\ sock'[w].asked.flags = sock[w].asked.flags
            /\ sock'[w].asked.cursor = after.cursor
        BY <3>3, <3>4
      <4>2. \A l \in links : l.index > sock[w].asked.cursor =>
                 sock'[w].asked.cursor < l.index \/ \E j \in DOMAIN d : d[j].link = l
        BY <3>5, <4>1
      <4> QED BY <1>t, <1>2, <1>3, <3>2, <3>6, <3>7, <4>1, <4>2, DumpSound
    <3> QED BY <3>2, <3>4, <3>6, <3>8
  <2> QED BY <2>1, <2>2
<1>5. Shape'
  BY <1>t, <1>2, <1>4 DEF Shape, Socket
<1> QED BY <1>t, <1>2, <1>4, <1>5, OthersSound

(* Another program changes the links.                                      *)
LEMMA OthersInv ==
  ASSUME Inv, Others
  PROVE  Inv'
<1>t. Shape /\ Distinct(links, next) /\ links \in SUBSET Link /\ next \in Nat \ {0}
  BY DEF Inv, Shape
<1>1. PICK new : Become(new, "others", {}) /\ new \in SUBSET Link /\ Distinct(new, next') /\ next' \in Nat \ {0}
  <2>1. CASE \E name \in Name \ {l.name : l \in links} :
               /\ Become(links \cup {[NoLink EXCEPT !.index = next, !.name = name]}, "others", {})
               /\ next' = next + 1
    <3>1. PICK name \in Name \ {l.name : l \in links} :
               /\ Become(links \cup {[NoLink EXCEPT !.index = next, !.name = name]}, "others", {})
               /\ next' = next + 1
      BY <2>1
    <3> DEFINE l == [NoLink EXCEPT !.index = next, !.name = name]
    <3>2. l \in Link /\ l.index = next /\ l.name = name
      BY <1>t, Constants DEF Text, NoLink
    <3> HIDE DEF l
    <3>3. Distinct(links \cup {l}, next + 1) /\ links \cup {l} \in SUBSET Link
      <4>1. \A k \in links : k.index \in 1 .. next - 1 /\ k.name # name
        BY <1>t DEF Distinct
      <4>2. next \in 1 .. (next + 1) - 1
        BY <1>t
      <4> QED BY <1>t, <3>2, <4>1, <4>2 DEF Distinct
    <3>4. Become(links \cup {l}, "others", {})
      BY <3>1 DEF l
    <3>5. Distinct(links \cup {l}, next') /\ next' \in Nat \ {0}
      BY <1>t, <3>1, <3>3
    <3> QED BY <3>3, <3>4, <3>5
  <2>2. CASE \E l \in links : Become(links \ {l}, "others", {}) /\ UNCHANGED next
    BY <1>t, <2>2 DEF Distinct
  <2>3. CASE \E l \in links, name \in Name \ {k.name : k \in links} :
               /\ Become((links \ {l}) \cup {[l EXCEPT !.name = name]}, "others", {})
               /\ UNCHANGED next
    <3>1. PICK l \in links, name \in Name \ {k.name : k \in links} :
               /\ Become((links \ {l}) \cup {[l EXCEPT !.name = name]}, "others", {})
               /\ UNCHANGED next
      BY <2>3
    <3> DEFINE m == [l EXCEPT !.name = name]
    <3>2. m \in Link /\ m.index = l.index /\ m.name = name
      BY <1>t DEF Text, Link
    <3> HIDE DEF m
    <3>3. Distinct((links \ {l}) \cup {m}, next) /\ (links \ {l}) \cup {m} \in SUBSET Link
      BY <1>t, <3>2 DEF Distinct
    <3> QED BY <1>t, <3>1, <3>3 DEF m
  <2> QED BY <2>1, <2>2, <2>3 DEF Others
<1>2. /\ links' = new /\ past' \in [Worker -> Record]
      /\ \A v \in Worker : past'[v] = After(op[v], past[v], new, {})
  <2>1. \A v : (IF v = "others" THEN {} ELSE {}) = {}
    OBVIOUS
  <2>2. /\ links' = new /\ past' \in [Worker -> Record]
        /\ \A v \in Worker : past'[v] = After(op[v], past[v], new, IF v = "others" THEN {} ELSE {})
    <3>1. {} \in SUBSET Nat
      OBVIOUS
    <3> QED BY <1>t, <1>1, <3>1, BecomeShape, Zenon
  <2> QED BY <2>1, <2>2
<1>3. UNCHANGED <<op, sock, heard, calls>> /\ events' \in 0 .. MaxEvents
  <2>1. UNCHANGED <<op, sock, heard, calls>> /\ events < MaxEvents /\ events' = events + 1
    BY DEF Others
  <2> QED BY <1>t, <2>1, NetlinkAssumption DEF Shape
<1>4. Shape'
  BY <1>t, <1>1, <1>2, <1>3 DEF Shape
<1>5. ASSUME NEW v \in Worker
      PROVE  Sound(op'[v], sock'[v], heard'[v], past'[v], links')
  <2>1. /\ op[v] \in Doing /\ sock[v] \in Socket /\ heard[v] \in Datagram /\ past[v] \in Record
        /\ Sound(op[v], sock[v], heard[v], past[v], links)
    BY DEF Inv, Shape, Socket
  <2>2. Sound(op[v], sock[v], heard[v], After(op[v], past[v], new, {}), new)
    BY <1>t, <1>1, <2>1, AfterSound
  <2> QED BY <1>2, <1>3, <2>2
<1> QED BY <1>1, <1>2, <1>4, <1>5 DEF Inv

(* The message m tells the operation o that its request was granted: t is  *)
(* its socket s then, with the links new, of which it touched some.        *)
Acked(o, s, h, p, all, m, t, new, touched) ==
  /\ o \in Doing /\ s \in Socket /\ h \in Datagram /\ p \in Record
  /\ all \in SUBSET Link /\ Sound(o, s, h, p, all)
  /\ o.stage \in {"set", "new", "device"} /\ h = <<>>
  /\ m \in Piece /\ m.type = "ack" /\ m.number = s.asked.number
  /\ t \in Socket /\ t.inbox = <<<<m>>>> /\ t.asked.type = "none"
  /\ t.asked.number = s.asked.number /\ t.asked.flags = s.asked.flags
  /\ new \in SUBSET Link /\ touched \in SUBSET Nat /\ touched # {}
  /\ \A i \in touched : \E l \in p.been \cup new : l.index = i /\ l.name = o.name

(* The one answer to a request that is not a dump: an acknowledgement after *)
(* a change, an error or the family without one.                           *)
LEMMA AckSound ==
  ASSUME NEW o, NEW s, NEW h, NEW p, NEW all, NEW m, NEW t, NEW new, NEW touched,
         Acked(o, s, h, p, all, m, t, new, touched)
  PROVE  Sound(o, t, h, After(o, p, new, touched), new)
<1> USE DEF Acked
<1> DEFINE q == After(o, p, new, touched)
<1>1. /\ q.did = p.did \cup touched /\ q.been = p.been \cup new
      /\ \A l \in q.stayed : \E k \in new : SameLink(k, l)
  BY DEF After, Record
<1> HIDE DEF q
<1>2. Len(t.inbox) = 1 /\ Len(t.inbox[1]) = 1 /\ t.inbox[1][1] = m /\ DOMAIN t.inbox = {1} /\ DOMAIN t.inbox[1] = {1}
  OBVIOUS
<1>3. Numbered(t, h) /\ Settling(o, t, h, q)
  BY <1>1, <1>2 DEF Numbered, Settling
<1>4. Purpose(o) /\ Dumping(o, t, h, q) /\ Covering(o, t, h, q) /\ Resolving(o, t, h, q) /\ Aimed(o, t, q)
  BY DEF Sound, Dumping, Covering, Resolving, Aimed
<1>5. Touching(o, q)
  BY <1>1 DEF Sound, Touching
<1>6. Telling(o, q) /\ Listing(o, h, q) /\ Following(o, q, new)
  BY <1>1 DEF Telling, Listing, Following
<1> QED BY <1>3, <1>4, <1>5, <1>6 DEF Sound, q

(* An answer that reports no change, where there was none.                 *)
LEMMA NoChangeSound ==
  ASSUME NEW o \in Doing, NEW s \in Socket, NEW h \in Datagram, NEW p \in Record,
         NEW all \in SUBSET Link, Sound(o, s, h, p, all),
         o.stage \in {"set", "new", "device", "family"}, h = <<>>, p.did = {},
         NEW m \in Piece, m.type = "error" \/ (o.stage = "family" /\ m.type = "family"),
         m.number = s.asked.number,
         NEW t \in Socket, t.inbox = <<<<m>>>>, t.asked.type = "none",
         t.asked.number = s.asked.number, t.asked.flags = s.asked.flags
  PROVE  Sound(o, t, h, p, all)
<1>1. Len(t.inbox) = 1 /\ Len(t.inbox[1]) = 1 /\ t.inbox[1][1] = m /\ DOMAIN t.inbox = {1} /\ DOMAIN t.inbox[1] = {1}
  OBVIOUS
<1>2. Numbered(t, h) /\ Settling(o, t, h, p) /\ Resolving(o, t, h, p)
  BY <1>1 DEF Numbered, Settling, Resolving
<1>3. Dumping(o, t, h, p) /\ Covering(o, t, h, p) /\ Aimed(o, t, p)
  BY DEF Dumping, Covering, Aimed, Sound
<1> QED BY <1>2, <1>3 DEF Sound

(* The kernel grants a request with a change, denies it, or names a family. *)
LEMMA CarryForms ==
  ASSUME Inv, NEW w \in Worker, Carry(w)
  PROVE  \/ /\ op[w].stage \in {"set", "new", "device"}
            /\ \E new \in SUBSET Link, touched \in SUBSET Nat :
                 /\ Grant(w, new, touched) /\ touched # {} /\ Distinct(new, next') /\ next' \in Nat \ {0}
                 /\ \A i \in touched : \E l \in past[w].been \cup new : l.index = i /\ l.name = op[w].name
         \/ op[w].stage \in {"set", "new", "device", "family"} /\ Deny(w)
         \/ /\ op[w].stage = "family" /\ Answer(w, <<Message(w, "family", NoLink)>>, Settled(w))
            /\ UNCHANGED <<links, next, past>>
<1> DEFINE asked == sock[w].asked
           named == {l \in links : l.name = asked.link.name}
<1>t. /\ links \in SUBSET Link /\ next \in Nat \ {0} /\ Distinct(links, next) /\ asked \in Request
      /\ Sound(op[w], sock[w], heard[w], past[w], links)
  BY DEF Inv, Shape
<1>1. Waiting(w) /\ (asked.type # "none" => op[w].stage = asked.type)
  BY AskedAtStage DEF Carry
<1>2. CASE asked.type = "set" /\ Change(w, {l \in links : l.index = asked.link.index},
                                        LAMBDA l : [l EXCEPT !.up = TRUE])
  <2> DEFINE found == {l \in links : l.index = asked.link.index}
             new == (links \ found) \cup {[l EXCEPT !.up = TRUE] : l \in found}
             touched == {l.index : l \in found}
  <2>1. CASE found = {}
    BY <1>1, <1>2, <2>1 DEF Change
  <2>2. CASE found # {}
    <3>1. Grant(w, new, touched) /\ UNCHANGED next
      BY <1>2, <2>2 DEF Change
    <3>2. \A l \in links : /\ [l EXCEPT !.up = TRUE] \in Link /\ [l EXCEPT !.up = TRUE].index = l.index
                           /\ [l EXCEPT !.up = TRUE].name = l.name
      BY <1>t DEF Link
    <3>3. new \in SUBSET Link /\ touched \in SUBSET Nat /\ touched # {}
      BY <1>t, <2>2, <3>2 DEF Link
    <3>4. Distinct(new, next)
      <4>1. \A k \in new : \E l \in links : /\ k.index = l.index /\ k.name = l.name
                                          /\ k = IF l \in found THEN [l EXCEPT !.up = TRUE] ELSE l
        BY <3>2
      <4>2. \A k, l \in links : k.index = l.index \/ k.name = l.name => k = l
        BY <1>t DEF Distinct
      <4>3. \A l \in links : l.index \in 1 .. next - 1
        BY <1>t DEF Distinct
      <4> HIDE DEF new, found
      <4>4. \A j, k \in new : j.index = k.index \/ j.name = k.name => j = k
        <5> SUFFICES ASSUME NEW j \in new, NEW k \in new, j.index = k.index \/ j.name = k.name
                     PROVE  j = k
          OBVIOUS
        <5>1. PICK l \in links : /\ j.index = l.index /\ j.name = l.name
                                 /\ j = IF l \in found THEN [l EXCEPT !.up = TRUE] ELSE l
          BY <4>1
        <5>2. PICK m \in links : /\ k.index = m.index /\ k.name = m.name
                                 /\ k = IF m \in found THEN [m EXCEPT !.up = TRUE] ELSE m
          BY <4>1
        <5>3. l = m
          BY <4>2, <5>1, <5>2
        <5> QED BY <5>1, <5>2, <5>3
      <4> QED BY <4>1, <4>3, <4>4 DEF Distinct
    <3>5. \A i \in touched : \E l \in past[w].been : l.index = i /\ l.name = op[w].name
      BY <1>t, <1>1, <1>2 DEF Sound, Aimed
    <3> HIDE DEF new, touched, found
    <3> QED BY <1>t, <1>1, <1>2, <3>1, <3>3, <3>4, <3>5
  <2> QED BY <2>1, <2>2
<1>3. CASE asked.type = "device" /\ Change(w, named, LAMBDA l : [l EXCEPT !.key = TRUE])
  <2> DEFINE new == (links \ named) \cup {[l EXCEPT !.key = TRUE] : l \in named}
             touched == {l.index : l \in named}
  <2>1. CASE named = {}
    BY <1>1, <1>3, <2>1 DEF Change
  <2>2. CASE named # {}
    <3>1. Grant(w, new, touched) /\ UNCHANGED next
      BY <1>3, <2>2 DEF Change
    <3>2. \A l \in links : /\ [l EXCEPT !.key = TRUE] \in Link /\ [l EXCEPT !.key = TRUE].index = l.index
                           /\ [l EXCEPT !.key = TRUE].name = l.name
      BY <1>t DEF Link
    <3>3. new \in SUBSET Link /\ touched \in SUBSET Nat /\ touched # {}
      BY <1>t, <2>2, <3>2 DEF Link
    <3>4. Distinct(new, next)
      <4>1. \A k \in new : \E l \in links : /\ k.index = l.index /\ k.name = l.name
                                          /\ k = IF l \in named THEN [l EXCEPT !.key = TRUE] ELSE l
        BY <3>2
      <4>2. \A k, l \in links : k.index = l.index \/ k.name = l.name => k = l
        BY <1>t DEF Distinct
      <4>3. \A l \in links : l.index \in 1 .. next - 1
        BY <1>t DEF Distinct
      <4> HIDE DEF new, named
      <4>4. \A j, k \in new : j.index = k.index \/ j.name = k.name => j = k
        <5> SUFFICES ASSUME NEW j \in new, NEW k \in new, j.index = k.index \/ j.name = k.name
                     PROVE  j = k
          OBVIOUS
        <5>1. PICK l \in links : /\ j.index = l.index /\ j.name = l.name
                                 /\ j = IF l \in named THEN [l EXCEPT !.key = TRUE] ELSE l
          BY <4>1
        <5>2. PICK m \in links : /\ k.index = m.index /\ k.name = m.name
                                 /\ k = IF m \in named THEN [m EXCEPT !.key = TRUE] ELSE m
          BY <4>1
        <5>3. l = m
          BY <4>2, <5>1, <5>2
        <5> QED BY <5>1, <5>2, <5>3
      <4> QED BY <4>1, <4>3, <4>4 DEF Distinct
    <3>5. asked.link.name = op[w].name /\ op[w].stage # "idle"
      BY <1>t, <1>1, <1>3 DEF Sound, Aimed, Waiting
    <3>6. \A i \in touched : \E l \in past[w].been : l.index = i /\ l.name = op[w].name
      BY <1>t, <3>5 DEF Sound, Following
    <3> HIDE DEF new, touched, named
    <3> QED BY <1>t, <1>1, <1>3, <3>1, <3>3, <3>4, <3>6
  <2> QED BY <2>1, <2>2
<1>4. CASE /\ asked.type = "new" /\ named = {}
           /\ Grant(w, links \cup {[asked.link EXCEPT !.index = next]}, {next}) /\ next' = next + 1
  <2> DEFINE l == [asked.link EXCEPT !.index = next]
             new == links \cup {l}
  <2>1. l \in Link /\ l.index = next /\ l.name = asked.link.name
    BY <1>t DEF Link, Request
  <2>2. asked.link.name = op[w].name
    BY <1>t, <1>1, <1>4 DEF Sound, Aimed
  <2>3. \A k \in links : k.index \in 1 .. next - 1 /\ k.name # l.name
    BY <1>t, <1>4, <2>1 DEF Distinct
  <2> HIDE DEF l
  <2>4. Distinct(new, next + 1)
    <3>1. next \in 1 .. (next + 1) - 1
      BY <1>t
    <3> QED BY <1>t, <2>1, <2>3, <3>1 DEF Distinct
  <2>5. new \in SUBSET Link /\ {next} \in SUBSET Nat /\ {next} # {}
    BY <1>t, <2>1
  <2>6. Grant(w, new, {next})
    BY <1>4 DEF l
  <2>7. \A i \in {next} : \E k \in past[w].been \cup new : k.index = i /\ k.name = op[w].name
    BY <2>1, <2>2
  <2>8. Distinct(new, next') /\ next' \in Nat \ {0} /\ op[w].stage = "new"
    BY <1>t, <1>1, <1>4, <2>4
  <2> HIDE DEF new
  <2> QED BY <2>5, <2>6, <2>7, <2>8
<1>5. CASE asked.type \in {"new", "family"} /\ Deny(w)
  BY <1>1, <1>5
<1>6. CASE /\ asked.type = "family"
           /\ Answer(w, <<Message(w, "family", NoLink)>>, Settled(w))
           /\ UNCHANGED <<links, next, past>>
  BY <1>1, <1>6
<1> QED BY <1>2, <1>3, <1>4, <1>5, <1>6 DEF Carry

(* The kernel carries out a request and answers it.                        *)
LEMMA CarryInv ==
  ASSUME Inv, NEW w \in Worker, Carry(w)
  PROVE  Inv'
<1>t. /\ Shape /\ Distinct(links, next) /\ Sound(op[w], sock[w], heard[w], past[w], links)
      /\ op[w] \in Doing /\ sock[w] \in Socket /\ heard[w] \in Datagram /\ past[w] \in Record
      /\ links \in SUBSET Link /\ next \in Nat \ {0}
  BY DEF Inv, Shape, Socket
<1>1. /\ UNCHANGED <<op, heard, calls, events>> /\ Waiting(w) /\ sock[w].asked.type # "none"
      /\ sock[w].asked.type # "dump"
  BY DEF Carry
<1>2. /\ sock[w].inbox = <<>> /\ heard[w] = <<>> /\ past[w].did = {}
      /\ sock[w].asked.flags = Flags(op[w].stage)
  BY <1>1, AskedAtStage
<1>3. ASSUME NEW type \in {"ack", "error", "family"}, Answer(w, <<Message(w, type, NoLink)>>, Settled(w))
      PROVE  /\ sock' \in [Worker -> Socket] /\ \A v \in Worker \ {w} : sock'[v] = sock[v]
             /\ sock'[w] \in Socket /\ sock'[w].inbox = <<<<Message(w, type, NoLink)>>>>
             /\ sock'[w].asked.type = "none" /\ sock'[w].asked.number = sock[w].asked.number
             /\ sock'[w].asked.flags = sock[w].asked.flags
             /\ Message(w, type, NoLink) \in Piece /\ Message(w, type, NoLink).type = type
             /\ Message(w, type, NoLink).number = sock[w].asked.number
  <2> DEFINE m == Message(w, type, NoLink)
  <2>1. m \in Piece /\ m.type = type /\ m.number = sock[w].asked.number
    BY <1>t, Constants, MessageType DEF Message
  <2> HIDE DEF m
  <2>2. <<m>> \in Datagram /\ Append(<<>>, <<m>>) = <<<<m>>>>
    BY <2>1 DEF Datagram
  <2>3. /\ sock' \in [Worker -> Socket] /\ \A v \in Worker \ {w} : sock'[v] = sock[v]
        /\ sock'[w] = [asked |-> Settled(w), inbox |-> Append(sock[w].inbox, <<m>>)]
    <3>1. Answer(w, <<m>>, Settled(w))
      BY <1>3 DEF m
    <3>2. Settled(w) \in Request
      BY <1>t, <1>2, SettledType
    <3> QED BY <1>t, <2>2, <3>1, <3>2, AnswerShape, Zenon DEF Socket
  <2> QED BY <1>t, <1>2, <2>1, <2>2, <2>3, SettledType DEF m
<1>4. CASE /\ op[w].stage \in {"set", "new", "device"}
           /\ \E new \in SUBSET Link, touched \in SUBSET Nat :
                /\ Grant(w, new, touched) /\ touched # {} /\ Distinct(new, next') /\ next' \in Nat \ {0}
                /\ \A i \in touched : \E l \in past[w].been \cup new : l.index = i /\ l.name = op[w].name
  <2>1. PICK new \in SUBSET Link, touched \in SUBSET Nat :
                /\ Grant(w, new, touched) /\ touched # {} /\ Distinct(new, next') /\ next' \in Nat \ {0}
                /\ \A i \in touched : \E l \in past[w].been \cup new : l.index = i /\ l.name = op[w].name
    BY <1>4
  <2>2. Become(new, w, touched) /\ Answer(w, <<Message(w, "ack", NoLink)>>, Settled(w))
    BY <1>2, <1>4, <2>1 DEF Grant, Flags
  <2>3. /\ links' = new /\ past' \in [Worker -> Record]
        /\ \A v \in Worker : past'[v] = After(op[v], past[v], new, IF v = w THEN touched ELSE {})
    BY <1>t, <2>1, <2>2, BecomeShape
  <2>4. Sound(op[w], sock'[w], heard[w], After(op[w], past[w], new, touched), new)
    <3> DEFINE m == Message(w, "ack", NoLink)
    <3>1. /\ sock'[w] \in Socket /\ sock'[w].inbox = <<<<m>>>> /\ sock'[w].asked.type = "none"
          /\ sock'[w].asked.number = sock[w].asked.number /\ sock'[w].asked.flags = sock[w].asked.flags
          /\ m \in Piece /\ m.type = "ack" /\ m.number = sock[w].asked.number
      BY <1>3, <2>2
    <3> HIDE DEF m
    <3>2. \A i \in touched : \E l \in past[w].been \cup new : l.index = i /\ l.name = op[w].name
      BY <2>1
    <3>3. op[w].stage \in {"set", "new", "device"} /\ heard[w] = <<>> /\ touched # {}
      BY <1>2, <1>4, <2>1
    <3>4. /\ op[w] \in Doing /\ sock[w] \in Socket /\ past[w] \in Record
          /\ links \in SUBSET Link /\ heard[w] \in Datagram
      BY <1>t DEF Shape, Socket
    <3>5. Sound(op[w], sock[w], heard[w], past[w], links)
      BY <1>t
    <3>6. Acked(op[w], sock[w], heard[w], past[w], links, m, sock'[w], new, touched)
      BY <2>1, <3>1, <3>2, <3>3, <3>4, <3>5 DEF Acked
    <3> QED BY <3>6, AckSound, Zenon
  <2>5. Shape'
    BY <1>t, <1>1, <1>3, <2>1, <2>2, <2>3 DEF Shape, Socket
  <2> QED BY <1>1, <1>3, <2>1, <2>2, <2>3, <2>4, <2>5, OthersSound
<1>5. CASE \E type \in {"error", "family"} :
             /\ op[w].stage \in {"set", "new", "device", "family"}
             /\ type = "family" => op[w].stage = "family"
             /\ Answer(w, <<Message(w, type, NoLink)>>, Settled(w)) /\ UNCHANGED <<links, next, past>>
  <2>1. PICK type \in {"error", "family"} :
             /\ op[w].stage \in {"set", "new", "device", "family"}
             /\ type = "family" => op[w].stage = "family"
             /\ Answer(w, <<Message(w, type, NoLink)>>, Settled(w)) /\ UNCHANGED <<links, next, past>>
    BY <1>5
  <2>2. Sound(op[w], sock'[w], heard[w], past[w], links)
    <3> DEFINE m == Message(w, type, NoLink)
    <3>1. /\ sock'[w] \in Socket /\ sock'[w].inbox = <<<<m>>>> /\ sock'[w].asked.type = "none"
          /\ sock'[w].asked.number = sock[w].asked.number /\ sock'[w].asked.flags = sock[w].asked.flags
          /\ m \in Piece /\ m.number = sock[w].asked.number
          /\ m.type = "error" \/ (op[w].stage = "family" /\ m.type = "family")
      <4>1. type \in {"ack", "error", "family"} /\ Answer(w, <<Message(w, type, NoLink)>>, Settled(w))
        BY <2>1
      <4>2. m.type = type
        BY <1>3, <4>1
      <4>3. m.type = "error" \/ (op[w].stage = "family" /\ m.type = "family")
        <5>1. type = "error" \/ (op[w].stage = "family" /\ type = "family")
          BY <2>1
        <5> HIDE DEF m
        <5> QED BY <4>2, <5>1
      <4>4. /\ sock'[w] \in Socket /\ sock'[w].inbox = <<<<m>>>> /\ sock'[w].asked.type = "none"
            /\ sock'[w].asked.number = sock[w].asked.number /\ sock'[w].asked.flags = sock[w].asked.flags
            /\ m \in Piece /\ m.number = sock[w].asked.number
        BY <1>3, <4>1
      <4> QED BY <4>3, <4>4
    <3> HIDE DEF m
    <3> QED BY <1>t, <1>2, <2>1, <3>1, NoChangeSound
  <2>3. Shape'
    BY <1>t, <1>1, <1>3, <2>1 DEF Shape, Socket
  <2> QED BY <1>t, <1>1, <1>3, <2>1, <2>2, <2>3, OthersSound
<1> QED BY <1>4, <1>5, CarryForms DEF Deny

(* A datagram of links has been read from the socket of a dump.            *)
LEMMA ReadSound ==
  ASSUME NEW o \in Doing, NEW s \in Socket, NEW h \in Datagram, NEW p \in Record,
         NEW all \in SUBSET Link, Sound(o, s, h, p, all),
         o.stage = "dump", s.inbox # <<>>, OfLinks(Head(s.inbox), p.been),
         NEW t \in Socket, t.inbox = Tail(s.inbox), t.asked = s.asked
  PROVE  Sound(o, t, h \o Head(s.inbox), p, all)
<1> DEFINE d == Head(s.inbox)
           n == Len(s.inbox)
           g == h \o d
<1>1. /\ s.inbox \in Seq(Datagram) /\ n \in Nat \ {0} /\ DOMAIN s.inbox = 1 .. n
      /\ DOMAIN t.inbox = 1 .. n - 1 /\ Len(t.inbox) = n - 1
      /\ \A i \in 1 .. n - 1 : t.inbox[i] = s.inbox[i + 1]
      /\ d = s.inbox[1] /\ d \in Datagram
  BY DEF Socket
<1>2. /\ Len(h) \in Nat /\ DOMAIN h = 1 .. Len(h) /\ Len(d) \in Nat /\ DOMAIN d = 1 .. Len(d)
      /\ DOMAIN g = 1 .. Len(h) + Len(d)
      /\ \A i \in 1 .. Len(h) : g[i] = h[i]
      /\ \A j \in 1 .. Len(d) : g[Len(h) + j] = d[j]
      /\ \A i \in DOMAIN g : i \in 1 .. Len(h) \/ \E j \in 1 .. Len(d) : i = Len(h) + j
  <2>1. /\ Len(h) \in Nat /\ DOMAIN h = 1 .. Len(h) /\ Len(d) \in Nat /\ DOMAIN d = 1 .. Len(d)
    BY <1>1 DEF Datagram
  <2>2. /\ g \in Seq(Piece) /\ Len(g) = Len(h) + Len(d)
        /\ \A i \in 1 .. Len(h) + Len(d) : g[i] = IF i <= Len(h) THEN h[i] ELSE d[i - Len(h)]
    BY <1>1, ConcatProperties DEF Datagram
  <2> HIDE DEF d, g
  <2>3. DOMAIN g = 1 .. Len(h) + Len(d)
    BY <2>2
  <2>4. \A j \in 1 .. Len(d) : g[Len(h) + j] = d[j]
    BY <2>1, <2>2
  <2>5. \A i \in DOMAIN g : i \in 1 .. Len(h) \/ \E j \in 1 .. Len(d) : i = Len(h) + j
    <3> SUFFICES ASSUME NEW i \in DOMAIN g, i \notin 1 .. Len(h)
                 PROVE  \E j \in 1 .. Len(d) : i = Len(h) + j
      OBVIOUS
    <3>1. i - Len(h) \in 1 .. Len(d) /\ i = Len(h) + (i - Len(h))
      BY <2>1, <2>3
    <3> QED BY <3>1
  <2>6. \A i \in 1 .. Len(h) : g[i] = h[i]
    BY <2>1, <2>2
  <2> QED BY <2>1, <2>2, <2>3, <2>4, <2>5, <2>6, Zenon
<1> HIDE DEF d, n, g
<1>3. OfLinks(d, p.been)
  BY DEF d
<1>4. Numbered(t, g)
  <2>1. \A i \in DOMAIN g : g[i].number = t.asked.number
    <3> SUFFICES ASSUME NEW i \in DOMAIN g PROVE g[i].number = t.asked.number
      OBVIOUS
    <3>1. CASE i \in 1 .. Len(h)
      BY <1>2, <3>1 DEF Sound, Numbered
    <3>2. CASE \E j \in 1 .. Len(d) : i = Len(h) + j
      <4>1. 1 \in DOMAIN s.inbox
        BY <1>1
      <4>2. \A j \in DOMAIN d : d[j].number = s.asked.number
        BY <1>1, <4>1 DEF Sound, Numbered
      <4> QED BY <1>2, <3>2, <4>2
    <3> QED BY <1>2, <3>1, <3>2
  <2>2. \A i \in DOMAIN t.inbox : \A j \in DOMAIN t.inbox[i] : t.inbox[i][j].number = t.asked.number
    BY <1>1 DEF Sound, Numbered
  <2> QED BY <2>1, <2>2 DEF Numbered
<1>5. Dumping(o, t, g, p)
  <2>1. OfLinks(g, p.been)
    <3> SUFFICES ASSUME NEW i \in DOMAIN g PROVE g[i].type = "link" /\ g[i].link \in p.been
      BY DEF OfLinks
    <3>1. CASE i \in 1 .. Len(h)
      BY <1>2, <3>1 DEF Sound, Dumping, OfLinks
    <3>2. CASE \E j \in 1 .. Len(d) : i = Len(h) + j
      BY <1>2, <1>3, <3>2 DEF OfLinks
    <3> QED BY <1>2, <3>1, <3>2
  <2>2. ASSUME NEW i \in DOMAIN t.inbox
        PROVE  \/ OfLinks(t.inbox[i], p.been)
               \/ /\ t.asked.type = "none" /\ i = Len(t.inbox)
                  /\ Len(t.inbox[i]) = 1 /\ t.inbox[i][1].type = "done"
    <3>1. i + 1 \in DOMAIN s.inbox /\ t.inbox[i] = s.inbox[i + 1] /\ (i + 1 = Len(s.inbox) => i = Len(t.inbox))
      BY <1>1 DEF n
    <3> QED BY <3>1 DEF Sound, Dumping
  <2> QED BY <2>1, <2>2 DEF Sound, Dumping
<1>6. ASSUME NEW l \in p.stayed PROVE Covered(l, t, g)
  <2>1. CASE s.asked.type = "dump" /\ s.asked.cursor < l.index
    BY <2>1 DEF Covered
  <2>2. CASE \E i \in DOMAIN h : SameLink(h[i].link, l)
    <3>1. \A i \in DOMAIN h : i \in DOMAIN g /\ g[i] = h[i]
      BY <1>2
    <3> QED BY <2>2, <3>1 DEF Covered
  <2>3. CASE \E i \in DOMAIN s.inbox : \E j \in DOMAIN s.inbox[i] :
               s.inbox[i][j].type = "link" /\ SameLink(s.inbox[i][j].link, l)
    <3>1. PICK i \in 1 .. n : \E j \in DOMAIN s.inbox[i] :
               s.inbox[i][j].type = "link" /\ SameLink(s.inbox[i][j].link, l)
      BY <1>1, <2>3
    <3>2. CASE i = 1
      <4>1. PICK j \in DOMAIN d : SameLink(d[j].link, l)
        BY <1>1, <3>1, <3>2
      <4>2. Len(h) + j \in DOMAIN g /\ g[Len(h) + j] = d[j]
        BY <1>2, <4>1
      <4> QED BY <4>1, <4>2 DEF Covered
    <3>3. CASE i # 1
      <4>1. i - 1 \in DOMAIN t.inbox /\ t.inbox[i - 1] = s.inbox[i]
        BY <1>1, <3>3
      <4> QED BY <3>1, <4>1 DEF Covered
    <3> QED BY <3>2, <3>3
  <2> QED BY <2>1, <2>2, <2>3 DEF Sound, Covering, Covered
<1>7. /\ Covering(o, t, g, p) /\ Settling(o, t, g, p) /\ Resolving(o, t, g, p) /\ Aimed(o, t, p)
      /\ Listing(o, g, p)
  BY <1>6 DEF Covering, Settling, Resolving, Aimed, Listing, Sound
<1> QED BY <1>4, <1>5, <1>7 DEF Sound, g, d

(* What a thread reads from its socket, by the stage of its operation.     *)
LEMMA ReadForms ==
  ASSUME Inv, NEW w \in Worker, Waiting(w), sock[w].inbox # <<>>
  PROVE  LET d == Head(sock[w].inbox) IN
         /\ d \in Datagram
         /\ \/ op[w].stage = "dump" /\ OfLinks(d, past[w].been)
            \/ /\ op[w].stage = "dump" /\ Len(d) = 1 /\ d[1].type = "done"
               /\ sock[w].asked.type = "none" /\ Len(sock[w].inbox) = 1
            \/ /\ op[w].stage \in {"set", "new", "device"} /\ heard[w] = <<>> /\ Len(d) = 1
               /\ \/ d[1].type = "ack" /\ past[w].did # {}
                  \/ d[1].type = "error" /\ past[w].did = {}
            \/ /\ op[w].stage = "family" /\ heard[w] = <<>> /\ Len(d) = 1
               /\ d[1].type \in {"family", "error"} /\ past[w].did = {}
<1> DEFINE d == Head(sock[w].inbox)
<1>1. op[w] \in Doing /\ sock[w].inbox \in Seq(Datagram) /\ Sound(op[w], sock[w], heard[w], past[w], links)
  BY DEF Inv, Shape
<1>2. d \in Datagram /\ d = sock[w].inbox[1] /\ 1 \in DOMAIN sock[w].inbox
  BY <1>1
<1> HIDE DEF d
<1>3. op[w].stage \in {"dump", "set", "new", "family", "device"}
  BY <1>1 DEF Waiting, Doing, Type
<1>4. CASE op[w].stage = "dump"
  BY <1>1, <1>2, <1>4 DEF Sound, Dumping, d
<1>5. CASE op[w].stage \in {"set", "new", "device"}
  BY <1>1, <1>2, <1>5 DEF Sound, Settling, d
<1>6. CASE op[w].stage = "family"
  BY <1>1, <1>2, <1>6 DEF Sound, Resolving, d
<1> QED BY <1>3, <1>4, <1>5, <1>6

(* An operation returns, and only its thread notices.                      *)
LEMMA ReturnInv ==
  ASSUME Inv, NEW w \in Worker, Waiting(w), UNCHANGED <<links, next, calls, events, past>>,
         NEW result \in {"ok", "refused", "lost"}, NEW messages \in Datagram,
         Return(w, result, messages),
         \A i \in DOMAIN messages : messages[i].number = sock[w].asked.number,
         op[w].do # "list" => /\ result = "ok" => past[w].did # {}
                              /\ result = "refused" => past[w].did = {},
         op[w].do = "list" /\ result = "ok" =>
           /\ \A l \in past[w].stayed : \E i \in DOMAIN messages : SameLink(messages[i].link, l)
           /\ \A i \in DOMAIN messages : messages[i].link \in past[w].been
  PROVE  Inv'
<1>t. Shape /\ Distinct(links, next) /\ Sound(op[w], sock[w], heard[w], past[w], links)
  BY DEF Inv
<1>1. /\ op' \in [Worker -> Doing] /\ \A v \in Worker \ {w} : op'[v] = op[v]
      /\ op'[w].stage = "returned" /\ op'[w].result = result
      /\ op'[w].do = op[w].do /\ op'[w].name = op[w].name
  <2>1. op' = [op EXCEPT ![w].stage = "returned", ![w].result = result]
    BY DEF Return
  <2> QED BY <1>t, <2>1, ReturnShape, Zenon
<1>2. /\ heard' \in [Worker -> Datagram] /\ heard'[w] = messages /\ UNCHANGED sock
      /\ \A v \in Worker \ {w} : heard'[v] = heard[v]
  BY <1>t DEF Return, Shape
<1>3. Shape'
  BY <1>t, <1>1, <1>2 DEF Shape
<1>4. Telling(op'[w], past[w]) /\ Listing(op'[w], messages, past[w]) /\ op[w].stage # "idle"
  BY <1>1 DEF Telling, Listing, Waiting
<1>5. Sound(op'[w], sock[w], messages, past[w], links)
  BY <1>t, <1>1, <1>4, ReturnedSound
<1> QED BY <1>t, <1>1, <1>2, <1>3, <1>5, OthersSound

(* A second request of an operation, for the link the first one found.     *)
LEMMA SendInv ==
  ASSUME Inv, NEW w \in Worker, Waiting(w), UNCHANGED <<links, next, calls, events, past>>,
         NEW type \in {"set", "device"}, NEW link \in Link, Send(w, type, link),
         past[w].did = {},
         \/ /\ type = "set" /\ op[w].do = "up"
            /\ \E l \in past[w].been : l.index = link.index /\ l.name = op[w].name
         \/ type = "device" /\ op[w].do = "configure" /\ link.name = op[w].name
  PROVE  Inv'
<1>t. Shape /\ Distinct(links, next) /\ Sound(op[w], sock[w], heard[w], past[w], links)
  BY DEF Inv
<1>1. type \in Type \ {"none"}
  BY DEF Type
<1>2. /\ sock' \in [Worker -> [asked : Request, inbox : Seq(Datagram)]]
      /\ \A v \in Worker \ {w} : sock'[v] = sock[v]
      /\ sock'[w] = [asked |-> Asked(w, type, link), inbox |-> <<>>]
  <2>1. Open(w, type, link)
    BY DEF Send
  <2> QED BY <1>t, <1>1, <2>1, OpenShape, Zenon
<1>3. /\ op' \in [Worker -> Doing] /\ \A v \in Worker \ {w} : op'[v] = op[v]
      /\ op'[w].stage = type /\ op'[w].do = op[w].do /\ op'[w].name = op[w].name
  <2>1. op[w] \in Doing /\ op \in [Worker -> Doing] /\ op' = [op EXCEPT ![w] = [op[w] EXCEPT !.stage = type]]
    BY <1>t DEF Send, Shape
  <2>2. /\ [op[w] EXCEPT !.stage = type] \in Doing /\ [op[w] EXCEPT !.stage = type].stage = type
        /\ [op[w] EXCEPT !.stage = type].do = op[w].do /\ [op[w] EXCEPT !.stage = type].name = op[w].name
    BY <1>1, <2>1 DEF Doing
  <2> QED BY <2>1, <2>2
<1>4. /\ heard' \in [Worker -> Datagram] /\ heard'[w] = <<>> /\ \A v \in Worker \ {w} : heard'[v] = heard[v]
  BY <1>t DEF Send, Shape, Datagram
<1>5. Shape'
  BY <1>t, <1>2, <1>3, <1>4 DEF Shape
<1>6. Sound(op'[w], sock'[w], <<>>, past[w], links)
  <2>1. /\ sock'[w].inbox = <<>> /\ sock'[w].asked.type = type /\ sock'[w].asked.link = link
        /\ sock'[w].asked.flags = Flags(type)
    BY <1>2 DEF Asked
  <2>2. Purpose(op'[w]) /\ op[w].stage # "idle"
    BY <1>3 DEF Purpose, Waiting
  <2>3. \/ type = "set" /\ \E l \in past[w].been : l.index = link.index /\ l.name = op[w].name
        \/ type = "device" /\ link.name = op[w].name
    OBVIOUS
  <2> QED BY ONLY <1>t, <1>1, <1>3, <2>1, <2>2, <2>3, past[w].did = {}, SentSound
<1> QED BY <1>t, <1>2, <1>3, <1>4, <1>5, <1>6, OthersSound

(* A thread reads a datagram and goes on as it says.                       *)
LEMMA ReceiveInv ==
  ASSUME Inv, NEW w \in Worker, Receive(w)
  PROVE  Inv'
<1> DEFINE d == Head(sock[w].inbox)
           read == ParseResponseBatch(d)
           messages == heard[w] \o read.messages
<1>t. /\ Shape /\ Distinct(links, next) /\ Sound(op[w], sock[w], heard[w], past[w], links)
      /\ op[w] \in Doing /\ sock[w] \in Socket /\ heard[w] \in Datagram /\ past[w] \in Record
      /\ links \in SUBSET Link
  BY DEF Inv, Shape, Socket
<1>1. Waiting(w) /\ sock[w].inbox # <<>> /\ UNCHANGED <<links, next, calls, events, past>>
  BY DEF Receive
<1>2. (CASE read.end = "error" -> Return(w, "refused", <<>>)
         [] read.end # "error" /\ EndsRequest(read.end, sock[w].asked.flags, messages) -> Follow(w, messages)
         [] OTHER -> /\ sock' = [sock EXCEPT ![w].inbox = Tail(@)]
                     /\ heard' = [heard EXCEPT ![w] = messages]
                     /\ UNCHANGED op)
  BY DEF Receive
<1>3. d \in Datagram /\ sock[w].asked.flags = Flags(op[w].stage) /\ <<>> \in Datagram
  BY <1>t, <1>1, ReadForms DEF Sound, Aimed, Waiting, Datagram
<1>4. \A i \in DOMAIN heard[w] : heard[w][i].number = sock[w].asked.number
  BY <1>t DEF Sound, Numbered
<1>5. heard[w] \o <<>> = heard[w] /\ <<>> \o d = d
  BY <1>t, <1>3 DEF Datagram
<1> HIDE DEF d, read, messages
<1>6. CASE op[w].stage = "dump" /\ OfLinks(d, past[w].been)
  <2>1. \A i \in DOMAIN d : ~Ending(d[i])
    BY <1>6 DEF OfLinks, Ending
  <2>2. read.end = "none" /\ messages = heard[w] \o d
    <3>1. read = [messages |-> d, end |-> "none"]
      BY <1>3, <2>1, ParseWhole DEF read
    <3> QED BY <3>1 DEF messages
  <2>3. ~EndsRequest(read.end, sock[w].asked.flags, messages)
    BY <1>3, <1>6, <2>2 DEF EndsRequest, IsDump, Flags
  <2>4. /\ sock' = [sock EXCEPT ![w].inbox = Tail(@)]
        /\ heard' = [heard EXCEPT ![w] = heard[w] \o d] /\ UNCHANGED op
    BY <1>2, <2>2, <2>3
  <2>5. heard[w] \o d \in Datagram /\ Tail(sock[w].inbox) \in Seq(Datagram)
    BY <1>t, <1>1, <1>3 DEF Datagram, Socket
  <2>6. /\ sock' \in [Worker -> [asked : Request, inbox : Seq(Datagram)]]
        /\ \A v \in Worker \ {w} : sock'[v] = sock[v]
        /\ sock'[w].inbox = Tail(sock[w].inbox) /\ sock'[w].asked = sock[w].asked
    BY <1>t, <2>4, <2>5 DEF Shape, Socket
  <2>7. /\ heard' \in [Worker -> Datagram] /\ heard'[w] = heard[w] \o d
        /\ \A v \in Worker \ {w} : heard'[v] = heard[v]
    BY <1>t, <2>4, <2>5 DEF Shape
  <2>8. Shape'
    BY <1>t, <1>1, <2>4, <2>6, <2>7 DEF Shape
  <2>9. Sound(op[w], sock'[w], heard[w] \o d, past[w], links)
    <3>1. sock'[w] \in Socket
      BY <2>6 DEF Socket
    <3> QED BY <1>t, <1>1, <1>6, <2>6, <3>1, ReadSound DEF d
  <2> QED BY <1>t, <1>1, <2>4, <2>6, <2>7, <2>8, <2>9, OthersSound
<1>7. CASE /\ op[w].stage = "dump" /\ Len(d) = 1 /\ d[1].type = "done"
           /\ sock[w].asked.type = "none" /\ Len(sock[w].inbox) = 1
  <2>1. read.end = "done" /\ messages = heard[w]
    <3>1. read = [messages |-> <<>>, end |-> d[1].type]
      BY <1>3, <1>7, ParseEnd DEF Ending, read
    <3> QED BY <1>5, <1>7, <3>1 DEF messages
  <2>2. EndsRequest(read.end, sock[w].asked.flags, messages) /\ Follow(w, heard[w])
    BY <1>2, <2>1 DEF EndsRequest
  <2>3. /\ past[w].did = {} /\ OfLinks(heard[w], past[w].been) /\ op[w].do \in {"list", "up"}
    BY <1>t, <1>7 DEF Sound, Dumping, Purpose
  <2>4. CASE op[w].do = "list"
    <3>1. Return(w, "ok", heard[w])
      BY <1>7, <2>2, <2>4 DEF Follow
    <3>2. \A l \in past[w].stayed : \E i \in DOMAIN heard[w] : SameLink(heard[w][i].link, l)
      <4>1. DOMAIN sock[w].inbox = {1} /\ sock[w].inbox[1] = d /\ DOMAIN d = {1}
        BY <1>t, <1>3, <1>7 DEF Socket, Datagram, d
      <4> QED BY <1>t, <1>7, <4>1 DEF Sound, Covering, Covered
    <3>3. \A i \in DOMAIN heard[w] : heard[w][i].link \in past[w].been
      BY <2>3 DEF OfLinks
    <3> QED BY <1>t, <1>1, <1>4, <2>4, <3>1, <3>2, <3>3, ReturnInv
  <2>5. CASE op[w].do = "up" /\ IndexOf(heard[w], op[w].name) = 0
    <3>1. Return(w, "refused", <<>>)
      BY <1>7, <2>2, <2>5 DEF Follow
    <3> QED BY <1>1, <1>3, <2>3, <2>5, <3>1, ReturnInv
  <2>6. CASE op[w].do = "up" /\ IndexOf(heard[w], op[w].name) # 0
    <3> DEFINE link == [NoLink EXCEPT !.index = IndexOf(heard[w], op[w].name)]
    <3>1. Send(w, "set", link)
      BY <1>7, <2>2, <2>6 DEF Follow
    <3>2. PICK i \in DOMAIN heard[w] : /\ heard[w][i].link.name = op[w].name
                                       /\ heard[w][i].link.index = IndexOf(heard[w], op[w].name)
      BY <1>t, <2>6, IndexOfNamed
    <3>3. heard[w][i].link \in past[w].been /\ heard[w][i].link \in Link
      BY <1>t, <2>3 DEF OfLinks, Record
    <3>4. IndexOf(heard[w], op[w].name) \in Nat
      BY <3>2, <3>3 DEF Link
    <3>5. link \in Link /\ link.index = IndexOf(heard[w], op[w].name)
      <4>1. \A k \in Nat : [NoLink EXCEPT !.index = k] \in Link /\ [NoLink EXCEPT !.index = k].index = k
        BY Constants DEF NoLink
      <4> QED BY <3>4, <4>1
    <3>6. \E l \in past[w].been : l.index = link.index /\ l.name = op[w].name
      BY <3>2, <3>3, <3>5
    <3> HIDE DEF link
    <3> QED BY <1>1, <2>3, <2>6, <3>1, <3>5, <3>6, SendInv
  <2> QED BY <2>3, <2>4, <2>5, <2>6
<1>8. CASE /\ op[w].stage \in {"set", "new", "device"} /\ heard[w] = <<>> /\ Len(d) = 1
           /\ \/ d[1].type = "ack" /\ past[w].did # {}
              \/ d[1].type = "error" /\ past[w].did = {}
  <2>1. read.end = d[1].type /\ messages = <<>>
    BY <1>3, <1>5, <1>8, ParseEnd DEF Ending, read, messages
  <2>2. op[w].do # "list"
    BY <1>t, <1>8 DEF Sound, Purpose
  <2>3. CASE d[1].type = "ack"
    <3>1. EndsRequest(read.end, sock[w].asked.flags, messages) /\ Follow(w, <<>>)
      BY <1>2, <2>1, <2>3 DEF EndsRequest
    <3>2. Return(w, "ok", <<>>)
      BY <1>8, <3>1 DEF Follow
    <3> QED BY <1>1, <1>3, <1>8, <2>2, <2>3, <3>2, ReturnInv
  <2>4. CASE d[1].type = "error"
    <3>1. Return(w, "refused", <<>>)
      BY <1>2, <2>1, <2>4
    <3> QED BY <1>1, <1>3, <1>8, <2>2, <2>4, <3>1, ReturnInv
  <2> QED BY <1>8, <2>3, <2>4
<1>9. CASE /\ op[w].stage = "family" /\ heard[w] = <<>> /\ Len(d) = 1
           /\ d[1].type \in {"family", "error"} /\ past[w].did = {}
  <2>1. op[w].do = "configure"
    BY <1>t, <1>9 DEF Sound, Purpose
  <2>2. CASE d[1].type = "error"
    <3>1. read.end = "error"
      BY <1>3, <1>9, <2>2, ParseEnd DEF Ending, read
    <3>2. Return(w, "refused", <<>>)
      BY <1>2, <3>1
    <3> QED BY <1>1, <1>3, <1>9, <2>1, <3>2, ReturnInv
  <2>3. CASE d[1].type = "family"
    <3>1. \A i \in DOMAIN d : ~Ending(d[i])
      BY <1>3, <1>9, <2>3 DEF Ending, Datagram
    <3>2. read.end = "none" /\ messages = d /\ d # <<>>
      BY <1>3, <1>5, <1>9, <3>1, ParseWhole DEF read, messages
    <3>3. EndsRequest(read.end, sock[w].asked.flags, messages)
      BY <1>3, <1>9, <3>2 DEF EndsRequest, IsDump, Flags
    <3>4. Follow(w, d)
      BY <1>2, <3>2, <3>3
    <3> DEFINE link == [NoLink EXCEPT !.name = op[w].name]
    <3>5. Send(w, "device", link)
      BY <1>9, <3>4 DEF Follow
    <3>6. link \in Link /\ link.name = op[w].name
      BY <1>t, Constants DEF NoLink, Doing
    <3> HIDE DEF link
    <3> QED BY <1>1, <1>9, <2>1, <3>5, <3>6, SendInv
  <2> QED BY <1>9, <2>2, <2>3
<1> QED
  BY <1>1, <1>6, <1>7, <1>8, <1>9, ReadForms DEF d

-----------------------------------------------------------------------------
(* At the start no request is under way.                                   *)
LEMMA InitInv ==
  ASSUME Init
  PROVE  Inv
<1>1. PICK names \in SUBSET Name : \E order \in SetToSeqs(names) :
        /\ links = {[NoLink EXCEPT !.index = i, !.name = order[i]] : i \in DOMAIN order}
        /\ next = Len(order) + 1
  BY DEF Init
<1>2. PICK order \in SetToSeqs(names) :
        /\ links = {[NoLink EXCEPT !.index = i, !.name = order[i]] : i \in DOMAIN order}
        /\ next = Len(order) + 1
  BY <1>1
<1> DEFINE n == Cardinality(names)
<1>3. n \in Nat
  BY NetlinkAssumption, FS_Subset, FS_CardinalityType
<1>4. /\ order \in [1 .. n -> names] /\ Len(order) = n /\ DOMAIN order = 1 .. n
      /\ \A i, j \in 1 .. n : i # j => order[i] # order[j]
  BY <1>3 DEF SetToSeqs
<1> HIDE DEF n
<1>5. \A i \in 1 .. n : LET l == [NoLink EXCEPT !.index = i, !.name = order[i]] IN
                        l \in Link /\ l.index = i /\ l.name = order[i]
  <2>1. \A name \in Text, i \in Nat :
          LET l == [NoLink EXCEPT !.index = i, !.name = name] IN
          l \in Link /\ l.index = i /\ l.name = name
    BY Constants DEF NoLink
  <2>2. \A i \in 1 .. n : order[i] \in Text /\ i \in Nat
    BY <1>3, <1>4 DEF Text
  <2> QED BY <2>1, <2>2
<1>6. next = n + 1 /\ next \in Nat \ {0}
  <2>1. next = Len(order) + 1 /\ Len(order) = n
    BY <1>2, <1>4
  <2> QED BY ONLY <1>3, <2>1
<1>e. ASSUME NEW l \in links
      PROVE  l \in Link /\ l.index \in 1 .. n /\ l.name = order[l.index]
             /\ l = [NoLink EXCEPT !.index = l.index, !.name = order[l.index]]
  <2>1. PICK i \in 1 .. n : l = [NoLink EXCEPT !.index = i, !.name = order[i]]
    BY <1>2, <1>4
  <2>2. l \in Link /\ l.index = i /\ l.name = order[i]
    BY <1>5, <2>1
  <2> QED BY <2>1, <2>2
<1>7. Distinct(links, next)
  <2>1. ASSUME NEW k \in links, NEW l \in links, k.index = l.index \/ k.name = l.name
        PROVE  k = l
    <3>1. k.index = l.index
      <4>1. k.index \in 1 .. n /\ l.index \in 1 .. n /\ k.name = order[k.index] /\ l.name = order[l.index]
        BY <1>e
      <4> QED BY <1>4, <2>1, <4>1
    <3>2. /\ k = [NoLink EXCEPT !.index = k.index, !.name = order[k.index]]
          /\ l = [NoLink EXCEPT !.index = l.index, !.name = order[l.index]]
      BY <1>e
    <3> QED BY <3>1, <3>2
  <2>2. \A l \in links : l.index \in 1 .. next - 1
    <3>1. next - 1 = n
      BY ONLY <1>3, <1>6
    <3> QED BY <1>e, <3>1
  <2> QED BY <2>1, <2>2 DEF Distinct
<1>8. [asked |-> Nothing, inbox |-> <<>>] \in [asked : Request, inbox : Seq(Datagram)]
  <2>1. Nothing \in Request
    BY Constants DEF Nothing, Request, Type
  <2> QED BY <2>1
<1>9. Shape
  <2>1. <<>> \in Datagram
    BY DEF Datagram
  <2>2. links \in SUBSET Link
    BY <1>e
  <2>3. op \in [Worker -> Doing] /\ past \in [Worker -> Record]
    BY Constants DEF Init
  <2>4. /\ sock \in [Worker -> [asked : Request, inbox : Seq(Datagram)]]
        /\ heard \in [Worker -> Datagram]
    BY <1>8, <2>1 DEF Init
  <2>5. calls \in 0 .. MaxCalls /\ events \in 0 .. MaxEvents
    <3>1. calls = 0 /\ events = 0
      BY DEF Init
    <3> QED BY <3>1, NetlinkAssumption
  <2> QED BY <1>6, <2>2, <2>3, <2>4, <2>5 DEF Shape
<1>10. ASSUME NEW w \in Worker PROVE Sound(op[w], sock[w], heard[w], past[w], links)
  <2>1. /\ op[w] = Idle /\ sock[w] = [asked |-> Nothing, inbox |-> <<>>]
        /\ heard[w] = <<>> /\ past[w] = NoPast
    BY DEF Init
  <2> QED BY <2>1 DEF Sound, Purpose, Numbered, Dumping, Covering, Settling, Resolving, Aimed, Touching,
              Telling, Listing, Following, Idle, NoPast
<1> QED BY <1>7, <1>9, <1>10 DEF Inv

(* Every step keeps the invariant.                                         *)
LEMMA NextInv ==
  ASSUME Inv, [Next]_vars
  PROVE  Inv'
<1>1. CASE UNCHANGED vars
  BY <1>1 DEF vars, Inv, Shape
<1>2. CASE Others
  BY <1>2, OthersInv
<1>3. ASSUME NEW w \in Worker,
             Begin(w) \/ Receive(w) \/ Overrun(w) \/ Leave(w) \/ DumpOn(w) \/ Carry(w)
      PROVE  Inv'
  BY <1>3, BeginInv, ReceiveInv, OverrunInv, LeaveInv, DumpOnInv, CarryInv
<1> QED BY <1>1, <1>2, <1>3 DEF Next

(* What the threads have asked, read and recorded fits together at every   *)
(* moment (Inv is inductive).                                              *)
THEOREM Invariance == Spec => []Inv
BY InitInv, NextInv, PTL DEF Spec

(* Links differ in index and name, and an idle thread has collected        *)
(* nothing (netlink_raw.rs, lib.rs).                                       *)
THEOREM TypeCorrect == Spec => []TypeOK
<1>1. Inv => TypeOK
  BY DEF Inv, TypeOK, Shape, Distinct, Sound, Doing, Type
<1> QED BY <1>1, Invariance, PTL

(* Without a look at sequence numbers, whatever request() collects answers *)
(* the request it has sent.                                                *)
THEOREM OwnAnswers == Spec => []AnswersAreOwn
<1>1. Inv => AnswersAreOwn
  BY DEF Inv, AnswersAreOwn, Sound, Numbered
<1> QED BY <1>1, Invariance, PTL

(* A list returned by dump_links has every link that was there throughout  *)
(* and none that never was, though the links change between datagrams.     *)
THEOREM CompleteLists == Spec => []ListIsComplete
<1>1. Inv => ListIsComplete
  <2> SUFFICES ASSUME Inv, NEW w \in Worker,
                      op[w].stage = "returned", op[w].do = "list", op[w].result = "ok"
               PROVE  LET listed == {heard[w][i].link : i \in DOMAIN heard[w]} IN
                        /\ \A l \in past[w].stayed : \E k \in listed : SameLink(k, l)
                        /\ \A k \in listed : \E l \in past[w].been : SameLink(k, l)
    BY DEF ListIsComplete
  <2>1. Listing(op[w], heard[w], past[w])
    BY DEF Inv, Sound
  <2> QED BY <2>1 DEF Listing, SameLink
<1> QED BY <1>1, Invariance, PTL

(* An interface looked up by name and changed by index, or created or      *)
(* configured by name: only a link that bore the name is touched.          *)
THEOREM NamedTouched == Spec => []OnlyNamedTouched
<1>1. Inv => OnlyNamedTouched
  BY DEF Inv, OnlyNamedTouched, Sound, Touching
<1> QED BY <1>1, Invariance, PTL

(* Success is returned only after the change, a refusal only without one.  *)
THEOREM VerdictsTell == Spec => []VerdictTellsChange
<1>1. Inv => VerdictTellsChange
  BY DEF Inv, VerdictTellsChange, Sound, Telling
<1> QED BY <1>1, Invariance, PTL
=============================================================================
