--------------------------- MODULE EmulatedDevice ---------------------------
(***************************************************************************)
(* GigeDevice (src/emulator): the emulated camera's command handler.  It   *)
(* executes a command once and answers a retransmission, which has the     *)
(* source, command and request id of the command before it, by replaying   *)
(* the acknowledge.                                                        *)
(*                                                                         *)
(* The hosts send one transaction at a time, repeat it until it is         *)
(* answered or given up, and number their transactions with ids that come  *)
(* round, as the control worker does; beacons and resend requests go out   *)
(* at any time and are never repeated.  Datagrams may be lost but keep     *)
(* their order.  Where the device would send frames (ctrl_peer) is left    *)
(* out.                                                                    *)
(***************************************************************************)
EXTENDS Integers, Sequences, FiniteSetsExt, TLC

CONSTANTS
  Sources,        \* the hosts' socket addresses
  Addrs, BadAddr, \* the register addresses, and one outside the memory
  Vals,           \* what is written; registers are 0 at first
  Ids,            \* how many request ids there are (65534)
  MaxTxns,        \* bound on the transactions of all hosts
  MaxSends,       \* bound on the datagrams of a transaction
  MaxNet          \* bound on the datagrams under way from a host

ASSUME DeviceAssumption ==
  /\ BadAddr \notin Addrs
  /\ Ids \in Nat \ {0, 1}
  /\ {MaxTxns, MaxSends, MaxNet} \subseteq Nat

VARIABLES
  mem,            \* the register map
  last_reply,     \* per source: the last command answered, its id and reply
  txn,            \* per host: the transaction under way, or the last one's id
  sends,          \* per host: datagrams sent for it
  net, acks,      \* per host: the datagrams to the device, and from it
  executed,       \* history: per host, the transactions executed
  held            \* history: per host, the register maps there have been
                  \*   since its transaction began

history == <<executed, held>>
vars == <<mem, last_reply, txn, sends, net, acks, history>>

None == [n |-> 0, req_id |-> 0]

\* What a host sends: reads and writes of a list of registers, or of a block of
\* memory (the registers it covers).
Bodies ==
  [command : {"read", "read_mem"}, addrs : {<<a>> : a \in Addrs \cup {BadAddr}}] \cup
  [command : {"write", "write_mem"}, addrs : {<<a>> : a \in Addrs} \cup {<<a, BadAddr>> : a \in Addrs},
   val : Vals]

Init ==
  /\ mem = [a \in Addrs |-> 0]
  /\ last_reply = [s \in Sources |-> None]
  /\ txn = [s \in Sources |-> None] /\ sends = [s \in Sources |-> 0]
  /\ net = [s \in Sources |-> <<>>] /\ acks = [s \in Sources |-> <<>>]
  /\ executed = [s \in Sources |-> <<>>] /\ held = [s \in Sources |-> {}]

-----------------------------------------------------------------------------
\* The hosts and the link.  (external)

Put(s, d) ==
  /\ Len(net[s]) < MaxNet
  /\ net' = [net EXCEPT ![s] = Append(@, d)]

\* gvcp::next_id
NextId(id) == IF id >= Ids THEN 1 ELSE id + 1

\* Assumed of the link: when an id comes round, nothing is left of the
\* transaction that had it: of the 65533 after it one was answered (a worker
\* none of whose heartbeats are answered ends), and no datagram is that late.
ComeRound(s, id) ==
  /\ last_reply[s].req_id # id
  /\ \A i \in 1..Len(net[s]) : net[s][i].req_id # id
  /\ \A i \in 1..Len(acks[s]) : acks[s][i].req_id # id

\* A transaction is under way while sends is not 0.
Begin(s) ==
  /\ sends[s] = 0
  /\ MapThenSumSet(LAMBDA t : txn[t].n, Sources) < MaxTxns
  /\ ComeRound(s, NextId(txn[s].req_id))
  /\ \E b \in Bodies :
       LET d == [n |-> txn[s].n + 1, req_id |-> NextId(txn[s].req_id), body |-> b]
       IN  txn' = [txn EXCEPT ![s] = d] /\ Put(s, d)
  /\ sends' = [sends EXCEPT ![s] = 1]
  /\ held' = [held EXCEPT ![s] = {mem}]
  /\ UNCHANGED <<mem, last_reply, acks, executed>>

Retransmit(s) ==
  /\ sends[s] \in 1..MaxSends - 1
  /\ Put(s, txn[s])
  /\ sends' = [sends EXCEPT ![s] = @ + 1]
  /\ UNCHANGED <<mem, last_reply, txn, acks, history>>

\* A beacon, which carries an id of its own, or a resend request.
SendAside(s) ==
  /\ \E c \in {"discovery", "resend"} : Put(s, [n |-> 0, req_id |-> 0, body |-> [command |-> c]])
  /\ UNCHANGED <<mem, last_reply, txn, sends, acks, history>>

Lose(s) ==
  /\ net[s] # <<>>
  /\ net' = [net EXCEPT ![s] = Tail(@)]
  /\ UNCHANGED <<mem, last_reply, txn, sends, acks, history>>

\* The acknowledge of the transaction under way ends it; any other is late.
Answers(s, ack) == sends[s] > 0 /\ ack.req_id = txn[s].req_id

End(s) ==
  /\ sends' = [sends EXCEPT ![s] = 0]
  /\ txn' = [txn EXCEPT ![s] = [n |-> @.n, req_id |-> @.req_id]]
  /\ held' = [held EXCEPT ![s] = {}]

Receive(s) ==
  /\ acks[s] # <<>>
  /\ acks' = [acks EXCEPT ![s] = Tail(@)]
  /\ IF Answers(s, Head(acks[s])) THEN End(s) ELSE UNCHANGED <<sends, txn, held>>
  /\ UNCHANGED <<mem, last_reply, net, executed>>

GiveUp(s) ==
  /\ sends[s] = MaxSends
  /\ End(s)
  /\ UNCHANGED <<mem, last_reply, net, acks, executed>>

-----------------------------------------------------------------------------
\* The device.

Outside(addrs) == \E i \in 1..Len(addrs) : addrs[i] = BadAddr

\* read_registers
ReadReply(b) ==
  IF Outside(b.addrs) THEN [kind |-> "nak"]
  ELSE [kind |-> "values", vals |-> [i \in 1..Len(b.addrs) |-> mem[b.addrs[i]]]]

\* read_memory: the reply repeats where the block begins.
ReadBlock(b) ==
  IF Outside(b.addrs) THEN [kind |-> "nak"]
  ELSE [kind |-> "block", at |-> Head(b.addrs), vals |-> [i \in 1..Len(b.addrs) |-> mem[b.addrs[i]]]]

WriteReply(b) == [kind |-> IF Outside(b.addrs) THEN "nak" ELSE "done"]

\* write_registers: up to the first address outside the memory.
Written(b) ==
  LET reach == {i \in 1..Len(b.addrs) : \A j \in 1..i : b.addrs[j] # BadAddr}
  IN  [a \in Addrs |-> IF \E i \in reach : b.addrs[i] = a THEN b.val ELSE mem[a]]

\* write_memory: a block that leaves the memory is not written at all.
WrittenBlock(b) == IF Outside(b.addrs) THEN mem ELSE Written(b)

Silence == [kind |-> "silence"]

\* execute.  A resend request has no reply, nor has an unknown command.
Execute(b) ==
  CASE b.command = "read" -> [mem |-> mem, reply |-> ReadReply(b)]
    [] b.command = "read_mem" -> [mem |-> mem, reply |-> ReadBlock(b)]
    [] b.command = "write" -> [mem |-> Written(b), reply |-> WriteReply(b)]
    [] b.command = "write_mem" -> [mem |-> WrittenBlock(b), reply |-> WriteReply(b)]
    [] b.command = "discovery" -> [mem |-> mem, reply |-> [kind |-> "here"]]
    [] OTHER -> [mem |-> mem, reply |-> Silence]

\* Mutant: the request id is not looked at.
IsReplayCommand(s, d) == last_reply[s] # None /\ last_reply[s].command = d.body.command

IsReplay(s, d) ==
  /\ last_reply[s] # None
  /\ last_reply[s].command = d.body.command
  /\ last_reply[s].req_id = d.req_id

\* Mutant: every reply is remembered, a beacon's too.
RemembersAll(b, reply) == reply # Silence

Remembers(b, reply) == reply # Silence /\ b.command # "discovery"

\* handle_datagram
HandleDatagram(s) ==
  /\ net[s] # <<>>
  /\ LET d == Head(net[s])
         x == Execute(d.body)
         reply == IF IsReplay(s, d) THEN last_reply[s].reply ELSE x.reply
     IN  /\ net' = [net EXCEPT ![s] = Tail(@)]
         /\ acks' = IF reply = Silence \/ Len(acks[s]) = MaxNet THEN acks
                    ELSE [acks EXCEPT ![s] = Append(@, [req_id |-> d.req_id, reply |-> reply])]
         /\ IF IsReplay(s, d) THEN UNCHANGED <<mem, last_reply, history>>
            ELSE /\ mem' = x.mem
                 /\ last_reply' = IF Remembers(d.body, x.reply)
                                  THEN [last_reply EXCEPT ![s] = [command |-> d.body.command, req_id |-> d.req_id,
                                                                  reply |-> x.reply]]
                                  ELSE last_reply
                 /\ held' = [t \in Sources |-> IF sends[t] > 0 THEN held[t] \cup {x.mem} ELSE {}]
                 /\ executed' = IF d.n > 0 THEN [executed EXCEPT ![s] = Append(@, d.n)] ELSE executed
  /\ UNCHANGED <<txn, sends>>

Next ==
  \E s \in Sources :
    \/ Begin(s) \/ Retransmit(s) \/ SendAside(s) \/ Lose(s) \/ Receive(s) \/ GiveUp(s)
    \/ HandleDatagram(s)

Spec == Init /\ [][Next]_vars

-----------------------------------------------------------------------------
\* Type invariant.  The register map holds only what was written.
TypeOK ==
  /\ mem \in [Addrs -> Vals \cup {0}]
  /\ \A s \in Sources :
       /\ last_reply[s].req_id \in 0..Ids /\ txn[s].req_id \in 0..Ids
       /\ held[s] \subseteq [Addrs -> Vals \cup {0}]
       /\ txn[s].n \in 0..MaxTxns /\ sends[s] \in 0..MaxSends
       /\ Len(net[s]) <= MaxNet /\ Len(acks[s]) <= MaxNet

\* A transaction is executed at most once, in the order sent, however often
\* its command is retransmitted and whatever beacons and resend requests come
\* between (handle_datagram replays the acknowledge).
ExecutedOnce ==
  \A s \in Sources : \A i \in 1..Len(executed[s]) - 1 : executed[s][i] < executed[s][i + 1]

\* What reply says of command b is so in register map m.
TrueOf(m, b, reply) ==
  CASE reply.kind = "nak" -> Outside(b.addrs)
    [] reply.kind = "done" ->
         b.command \in {"write", "write_mem"} /\ \A i \in 1..Len(b.addrs) : b.addrs[i] # BadAddr /\ m[b.addrs[i]] = b.val
    [] reply.kind \in {"values", "block"} ->
         /\ b.command = IF reply.kind = "values" THEN "read" ELSE "read_mem"
         /\ reply.kind = "block" => reply.at = Head(b.addrs)
         /\ \A i \in 1..Len(b.addrs) : b.addrs[i] # BadAddr /\ m[b.addrs[i]] = reply.vals[i]
    [] OTHER -> FALSE

\* What a host is told of its transaction was so at some moment since the
\* transaction began, whoever else writes and however often its command is sent:
\* a replayed acknowledge is never that of an earlier command, though ids come
\* round (handle_datagram, last_reply).
AnswersAreCurrent ==
  \A s \in Sources : \A i \in 1..Len(acks[s]) :
    Answers(s, acks[s][i]) => \E m \in held[s] : TrueOf(m, txn[s].body, acks[s][i].reply)

Symmetry == Permutations(Sources)
=============================================================================
