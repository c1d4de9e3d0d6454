--------------------------- MODULE NetlinkSocket ---------------------------
(***************************************************************************)
(* The netlink transport (segwire-netlink) and the link operations that    *)
(* use it (netlink_raw.rs, wireguard_raw.rs): requests whose answers come  *)
(* in datagrams of several messages, links found by a dump and addressed   *)
(* by index afterwards, while other programs change the links and answers  *)
(* get lost. Every operation with a caller opens a socket for each request, *)
(* which then has the sequence number 1: request numbers here are history, *)
(* nothing compares those in answers. (dump_routes_fresh makes two requests *)
(* on one socket; nothing calls what it is for.)                           *)
(***************************************************************************)
EXTENDS Integers, Sequences, SequencesExt, FiniteSets, FiniteSetsExt

CONSTANTS
  Worker,       \* threads that make requests, one at a time each
  Name,         \* names of links
  Operation,    \* what they do: "list", "up", "create" and "configure"
  BatchSize,    \* links that fit in a datagram
  MaxCalls,     \* bound on the operations of all threads
  MaxEvents     \* bound on changes of links by others and overruns of sockets

ASSUME NetlinkAssumption ==
  /\ Operation \subseteq {"list", "up", "create", "configure"}
  /\ IsFiniteSet(Name)
  /\ BatchSize \in Nat \ {0} /\ {MaxCalls, MaxEvents} \subseteq Nat

VARIABLES
  links,    \* the kernel's links: index, name, and whether it is up and has a key
  next,     \* the next index, no index is used twice
  op,       \* the operation of each thread
  sock,     \* its socket: the request the kernel has not finished, unread datagrams
  heard,    \* the messages request() has collected
  calls, events,    \* what is used of MaxCalls and MaxEvents
  past      \* history of each thread's operation: links that were there when it
            \* began and have stayed, all that have been there, and the indexes of
            \* those the kernel changed for it

vars == <<links, next, op, sock, heard, calls, events, past>>
NoPast == [stayed |-> {}, been |-> {}, did |-> {}]

NoLink == [index |-> 0, name |-> "none", up |-> FALSE, key |-> FALSE]
Idle == [do |-> "none", name |-> "none", stage |-> "idle", result |-> "none"]
Nothing == [type |-> "none", link |-> NoLink, flags |-> {}, cursor |-> 0, number |-> 0]

TypeOK ==
  /\ \A k, l \in links : k.index = l.index \/ k.name = l.name => k = l
  /\ \A l \in links : l.index \in 1 .. next - 1
  /\ \A w \in Worker :
       /\ op[w].stage \in {"idle", "dump", "set", "new", "family", "device", "returned"}
       /\ op[w].result \in {"none", "ok", "refused", "lost"}
       /\ op[w].stage = "idle" => heard[w] = <<>>
  /\ calls \in 0 .. MaxCalls /\ events \in 0 .. MaxEvents

Init ==
  /\ \E names \in SUBSET Name : \E order \in SetToSeqs(names) :
       /\ links = {[NoLink EXCEPT !.index = i, !.name = order[i]] : i \in DOMAIN order}
       /\ next = Len(order) + 1
  /\ op = [w \in Worker |-> Idle]
  /\ sock = [w \in Worker |-> [asked |-> Nothing, inbox |-> <<>>]]
  /\ heard = [w \in Worker |-> <<>>]
  /\ calls = 0 /\ events = 0
  /\ past = [w \in Worker |-> NoPast]

-----------------------------------------------------------------------------
(* Requests. EXCL of a creation and DUMP share a bit: a creation is taken  *)
(* for a dump, which is read until DONE or an ACK.                         *)
\* Faulty: a change is not asked to be acknowledged.
FlagsOfDump(type) == IF type = "dump" THEN {"DUMP"} ELSE {}

Flags(type) ==
  CASE type = "dump" -> {"DUMP"}
    [] type = "new" -> {"ACK", "EXCL"}
    [] type \in {"set", "device"} -> {"ACK"}
    [] type = "family" -> {}

IsDump(flags) == flags \cap {"DUMP", "EXCL"} # {}

Asked(w, type, link) ==
  [type |-> type, link |-> link, flags |-> Flags(type), cursor |-> 0,
   number |-> sock[w].asked.number + 1]

\* Faulty: one socket for all requests, with what was left unread in it.
OpenKept(w, type, link) ==
  sock' = [sock EXCEPT ![w] = [asked |-> Asked(w, type, link), inbox |-> @.inbox]]

\* A fresh socket for every request, dropped when the request returns.
Open(w, type, link) ==
  sock' = [sock EXCEPT ![w] = [asked |-> Asked(w, type, link), inbox |-> <<>>]]

Send(w, type, link) ==
  /\ Open(w, type, link)
  /\ op' = [op EXCEPT ![w].stage = type]
  /\ heard' = [heard EXCEPT ![w] = <<>>]

Begin(w) ==
  /\ op[w].stage = "idle" /\ calls < MaxCalls /\ calls' = calls + 1
  /\ \E do \in Operation, name \in Name :
     LET stage == CASE do \in {"list", "up"} -> "dump" [] do = "create" -> "new" [] do = "configure" -> "family" IN
       /\ Open(w, stage, [NoLink EXCEPT !.name = name])
       /\ op' = [op EXCEPT ![w] = [do |-> do, name |-> name, stage |-> stage, result |-> "none"]]
  /\ past' = [past EXCEPT ![w] = [stayed |-> links, been |-> links, did |-> {}]]
  /\ UNCHANGED <<links, next, heard, events>>

Return(w, result, messages) ==
  /\ op' = [op EXCEPT ![w].stage = "returned", ![w].result = result]
  /\ heard' = [heard EXCEPT ![w] = messages]
  /\ UNCHANGED sock

Waiting(w) == op[w].stage \notin {"idle", "returned"}

\* Faulty: what a list collected is still there for the next request.
LeaveHolding(w) ==
  /\ op[w].stage = "returned"
  /\ op' = [op EXCEPT ![w] = Idle] /\ past' = [past EXCEPT ![w] = NoPast]
  /\ UNCHANGED <<links, next, sock, heard, calls, events>>

Leave(w) ==
  /\ op[w].stage = "returned"
  /\ op' = [op EXCEPT ![w] = Idle] /\ heard' = [heard EXCEPT ![w] = <<>>]
  /\ past' = [past EXCEPT ![w] = NoPast]
  /\ UNCHANGED <<links, next, sock, calls, events>>

-----------------------------------------------------------------------------
(* The kernel.                                                             *)
Message(w, type, link) == [type |-> type, link |-> link, number |-> sock[w].asked.number]

Answer(w, messages, asked) ==
  sock' = [sock EXCEPT ![w] = [asked |-> asked, inbox |-> Append(@.inbox, messages)]]

\* The kernel has finished the request.
Settled(w) == [sock[w].asked EXCEPT !.type = "none", !.link = NoLink, !.cursor = 0]

\* The first links of the rest by index, as many as a datagram holds.
IsBatch(batch, rest) ==
  /\ \A i, j \in DOMAIN batch : i < j => batch[i].index < batch[j].index
  /\ \A l \in rest : \/ \E i \in DOMAIN batch : batch[i] = l
                     \/ Len(batch) = BatchSize /\ batch[BatchSize].index < l.index

\* Links are dumped by index, a datagram at a time.
DumpOn(w) ==
  LET asked == sock[w].asked
      rest == {l \in links : l.index > asked.cursor} IN
  /\ Waiting(w) /\ asked.type = "dump"
  /\ \E size \in 0 .. BatchSize : \E batch \in [1 .. size -> rest] :
       /\ IsBatch(batch, rest)
       /\ IF size = 0 THEN Answer(w, <<Message(w, "done", NoLink)>>, Settled(w))
          ELSE Answer(w, [i \in 1 .. size |-> Message(w, "link", batch[i])],
                      [asked EXCEPT !.cursor = batch[size].index])
  /\ UNCHANGED <<links, next, op, heard, calls, events, past>>

SameLink(k, l) == k.index = l.index /\ k.name = l.name

\* The links change, by request of thread w or (no thread) by another program.
Become(new, w, touched) ==
  /\ links' = new
  /\ past' = [v \in Worker |->
       IF op[v].stage = "idle" THEN NoPast
       ELSE [stayed |-> {l \in past[v].stayed : \E k \in new : SameLink(k, l)},
             been |-> past[v].been \cup new,
             did |-> IF v = w THEN past[v].did \cup touched ELSE past[v].did]]

Grant(w, new, touched) ==
  /\ Become(new, w, touched)
  /\ IF "ACK" \in sock[w].asked.flags THEN Answer(w, <<Message(w, "ack", NoLink)>>, Settled(w))
     ELSE sock' = [sock EXCEPT ![w].asked = Settled(w)]

Deny(w) ==
  /\ Answer(w, <<Message(w, "error", NoLink)>>, Settled(w))
  /\ UNCHANGED <<links, next, past>>

\* An existing link, found by its index or its name, is changed.
Change(w, found, Changed(_)) ==
  IF found = {} THEN Deny(w)
  ELSE /\ Grant(w, (links \ found) \cup {Changed(l) : l \in found}, {l.index : l \in found})
       /\ UNCHANGED next

Carry(w) ==
  LET asked == sock[w].asked
      named == {l \in links : l.name = asked.link.name} IN
  /\ Waiting(w)
  /\ \/ asked.type = "set" /\ Change(w, {l \in links : l.index = asked.link.index},
                                     LAMBDA l : [l EXCEPT !.up = TRUE])
     \/ asked.type = "device" /\ Change(w, named, LAMBDA l : [l EXCEPT !.key = TRUE])
     \/ /\ asked.type = "new" /\ named = {}
        /\ Grant(w, links \cup {[asked.link EXCEPT !.index = next]}, {next}) /\ next' = next + 1
     \/ asked.type = "new" /\ named # {} /\ Deny(w)
     \/ asked.type = "family" /\ Deny(w)    \* no such module
     \/ /\ asked.type = "family"
        /\ Answer(w, <<Message(w, "family", NoLink)>>, Settled(w))
        /\ UNCHANGED <<links, next, past>>
  /\ UNCHANGED <<op, heard, calls, events>>

\* Other programs add, remove and rename links.
Others ==
  /\ events < MaxEvents /\ events' = events + 1
  /\ \/ \E name \in Name \ {l.name : l \in links} :
          /\ Become(links \cup {[NoLink EXCEPT !.index = next, !.name = name]}, "others", {})
          /\ next' = next + 1
     \/ \E l \in links : Become(links \ {l}, "others", {}) /\ UNCHANGED next
     \/ \E l \in links, name \in Name \ {k.name : k \in links} :
          /\ Become((links \ {l}) \cup {[l EXCEPT !.name = name]}, "others", {})
          /\ UNCHANGED next
  /\ UNCHANGED <<op, sock, heard, calls>>

-----------------------------------------------------------------------------
(* Answers.                                                                *)
\* The messages up to the one that ends the answer, or all.
Ending(m) == m.type \in {"done", "ack", "error"}

\* Faulty: an error ends the answer as an acknowledgement does.
ParseErrorAsAck(batch) ==
  LET ends == {i \in DOMAIN batch : Ending(batch[i])} IN
  IF ends = {} THEN [messages |-> batch, end |-> "none"]
  ELSE [messages |-> SubSeq(batch, 1, Min(ends) - 1), end |-> "ack"]

ParseResponseBatch(batch) ==
  LET ends == {i \in DOMAIN batch : Ending(batch[i])} IN
  IF ends = {} THEN [messages |-> batch, end |-> "none"]
  ELSE [messages |-> SubSeq(batch, 1, Min(ends) - 1), end |-> batch[Min(ends)].type]

\* Faulty: the index of the first link of the answer.
IndexOfFirst(messages, name) == IF messages = <<>> THEN 0 ELSE messages[1].link.index

\* extract_interface_index: the first link of the name.
IndexOf(messages, name) ==
  LET named == {i \in DOMAIN messages : messages[i].type = "link" /\ messages[i].link.name = name}
  IN IF named = {} THEN 0 ELSE messages[Min(named)].link.index

\* A request has returned what it collected.
Follow(w, messages) ==
  CASE op[w].stage = "dump" /\ op[w].do = "up" ->
         IF IndexOf(messages, op[w].name) = 0 THEN Return(w, "refused", <<>>)
         ELSE Send(w, "set", [NoLink EXCEPT !.index = IndexOf(messages, op[w].name)])
    [] op[w].stage = "family" -> Send(w, "device", [NoLink EXCEPT !.name = op[w].name])
    [] OTHER -> Return(w, "ok", messages)

\* Faulty: a dump ends with its first datagram.
EndsAtOnce(end, flags, messages) == end # "none" \/ messages # <<>>

EndsRequest(end, flags, messages) == end # "none" \/ (~IsDump(flags) /\ messages # <<>>)

Receive(w) ==
  /\ Waiting(w) /\ sock[w].inbox # <<>>
  /\ LET read == ParseResponseBatch(Head(sock[w].inbox))
         messages == heard[w] \o read.messages IN
     CASE read.end = "error" -> Return(w, "refused", <<>>)
       [] read.end # "error" /\ EndsRequest(read.end, sock[w].asked.flags, messages) -> Follow(w, messages)
       [] OTHER -> /\ sock' = [sock EXCEPT ![w].inbox = Tail(@)]
                   /\ heard' = [heard EXCEPT ![w] = messages]
                   /\ UNCHANGED op
  /\ UNCHANGED <<links, next, calls, events, past>>

\* recv() fails: the kernel could not deliver an answer to a full socket.
Overrun(w) ==
  /\ Waiting(w) /\ sock[w].asked.type \in {"none", "dump"}
  /\ events < MaxEvents /\ events' = events + 1
  /\ Return(w, "lost", <<>>)
  /\ UNCHANGED <<links, next, calls, past>>

Next == Others \/ \E w \in Worker : Begin(w) \/ Receive(w) \/ Overrun(w) \/ Leave(w) \/ DumpOn(w) \/ Carry(w)

Spec == Init /\ [][Next]_vars

FairSpec == Spec /\ \A w \in Worker :
  WF_vars(Receive(w)) /\ WF_vars(Leave(w)) /\ WF_vars(DumpOn(w)) /\ WF_vars(Carry(w))

-----------------------------------------------------------------------------
(* NetlinkSocket::request compares no sequence numbers (lib.rs:120), it    *)
(* relies on a fresh socket for each request: whatever it collects answers *)
(* the request it has sent, also after a request that failed half read.    *)
AnswersAreOwn ==
  \A w \in Worker : \A i \in DOMAIN heard[w] : heard[w][i].number = sock[w].asked.number

(* A dump arrives in datagrams, and links change between them              *)
(* (dump_links, extract_interface_names): the list returned has every link *)
(* that was there from beginning to end, and none that never was.          *)
ListIsComplete ==
  \A w \in Worker : op[w].stage = "returned" /\ op[w].do = "list" /\ op[w].result = "ok" =>
    LET listed == {heard[w][i].link : i \in DOMAIN heard[w]} IN
      /\ \A l \in past[w].stayed : \E k \in listed : SameLink(k, l)
      /\ \A k \in listed : \E l \in past[w].been : SameLink(k, l)

(* An interface is looked up by name and then set up by index, or created  *)
(* or configured by name (set_interface_up, create_virtual_interface,      *)
(* configure_wireguard_device): only a link that bore the name at some     *)
(* time of the operation is touched.                                       *)
OnlyNamedTouched ==
  \A w \in Worker : \A i \in past[w].did :
    \E l \in past[w].been : l.index = i /\ l.name = op[w].name

(* What an operation returns tells what the kernel did: success only after *)
(* the change, a refusal only when nothing was changed (parse_response_    *)
(* batch, send_genl_request); only a lost answer leaves it open.           *)
VerdictTellsChange ==
  \A w \in Worker : op[w].stage = "returned" /\ op[w].do # "list" =>
    /\ op[w].result = "ok" => past[w].did # {}
    /\ op[w].result = "refused" => past[w].did = {}

(* recv() blocks without a time limit (recv_raw, lib.rs:171): every        *)
(* request still returns, as each one sent is answered or fails; a         *)
(* creation waits for its acknowledgement although it is read as a dump.   *)
RequestReturns == \A w \in Worker : op[w].stage # "idle" ~> op[w].stage = "idle"

=============================================================================
