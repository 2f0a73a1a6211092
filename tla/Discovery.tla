------------------------------ MODULE Discovery ------------------------------
(***************************************************************************)
(* Finding devices and repointing them (src/gige/discovery.rs): discover   *)
(* and force_ip broadcast a command on every adapter of the host and       *)
(* listen, one datagram per socket and round, until a window has passed.   *)
(*                                                                         *)
(* A caller makes a few such calls in turn.  Time is counted in receive    *)
(* timeouts: a receive from a socket that has something takes none.        *)
(* Commands and answers may be lost, or arrive late, even when a later     *)
(* call is under way; an answer reaches whoever has the port it is for.    *)
(***************************************************************************)
EXTENDS Naturals, Sequences, FiniteSets, SequencesExt

CONSTANTS
  Interfaces,     \* nic::interfaces, in order
  Devices,        \* devices, named by their MAC
  Attached,       \* the adapters each device is on a network with
  Subnets,        \* the subnet of each device's address at first: a set of choices
  Orders,         \* the addresses force_ip is asked for: [mac, subnet]
  Window,         \* recv_window and ack_window
  MaxCalls,       \* bound on the calls that are made
  SourcePorts,    \* source_port: 0 lets the system pick a fresh one
  Refusing,       \* devices that may answer with an error status
  MaxFaults       \* bound on the system calls that fail

VARIABLES
  calls,          \* how many calls have been made; the last one is:
  call,           \* which it is, its arguments and the settings it runs with
  stage,          \* "idle", "open", "listen"
  todo,           \* adapters without a socket yet
  sockets,        \* adapters with one, in order
  turn,           \* the socket to receive from next
  now,
  inbox,          \* the datagrams waiting in each socket
  found,          \* what discover has collected
  result,         \* what the last call returned
  subnet,         \* the subnet of each device's address
  air,            \* commands on their way to a device
  replies,        \* answers on their way back
  faults,         \* system calls that have failed
  due,            \* history: devices whose answer came early enough to count
  applied         \* history: has the device taken the address this force_ip gave it?

discoveryVars ==
  <<calls, call, stage, todo, sockets, turn, now, inbox, found, result, subnet, air, replies,
    faults, due, applied>>

\* enumerate_adapters: an adapter for each IPv4 address that is specified, of
\* an interface that is up and not the loopback; named by its subnet.
Usable(i) == i.up /\ ~i.loopback
Specified(address) == address \notin {"v6", "unspecified"}
EnumerateAdapters ==
  LET usable == SelectSeq(Interfaces, Usable)
  IN  FlattenSeq([k \in DOMAIN usable |-> SelectSeq(usable[k].addresses, Specified)])

\* beacon_destinations: the subnet's broadcast address, and the limited one
\* (the subnet's is taken to be another).
BeaconDestinations(limited) == {"subnet"} \cup (IF limited THEN {"limited"} ELSE {})

\* A device hears a subnet broadcast if its address is of that subnet, and a
\* limited one in any case; it ignores a FORCEIP_CMD for another MAC.  (external)
Hears(d, a, dest) ==
  /\ a \in Attached[d]
  /\ dest = "limited" \/ subnet[d] = a
  /\ call.kind = "force_ip" => d = call.mac

NoCall == [kind |-> "none"]
Discover(n, limited, port, adapters) ==
  [n |-> n, kind |-> "discover", limited |-> limited, port |-> port, adapters |-> adapters]
ForceIp(n, o, limited, port) ==
  [n |-> n, kind |-> "force_ip", mac |-> o.mac, subnet |-> o.subnet, limited |-> limited, port |-> port,
   adapters |-> EnumerateAdapters]

DiscoveryInit ==
  /\ calls = 0 /\ call = NoCall /\ stage = "idle"
  /\ todo = <<>> /\ sockets = <<>> /\ turn = 1 /\ now = 0
  /\ inbox = [i \in {} |-> <<>>]
  /\ found = <<>> /\ result = "none"
  /\ subnet \in Subnets
  /\ air = {} /\ replies = {} /\ faults = 0 /\ due = {} /\ applied = FALSE

-----------------------------------------------------------------------------
\* The calls a caller may make; discover_on asks for one
\* adapter by its address, and fails like discover if there is none.
Calls(n) ==
  LET ports == {IF port = 0 THEN <<"fresh", n>> ELSE <<"fixed", port>> : port \in SourcePorts}
      adapters == ToSet(EnumerateAdapters)
  IN  {Discover(n, limited, port, EnumerateAdapters) : limited \in BOOLEAN, port \in ports}
        \cup {Discover(n, TRUE, <<"fresh", n>>, one) : one \in {<<a>> : a \in adapters} \cup {<<>>}}
        \cup {ForceIp(n, o, limited, port) : o \in Orders, limited \in BOOLEAN, port \in ports}

StartCall ==
  /\ stage = "idle"
  /\ calls < MaxCalls
  /\ calls' = calls + 1
  /\ call' \in Calls(calls')
  /\ stage' = "open"
  /\ todo' = call'.adapters
  /\ sockets' = <<>> /\ turn' = 1 /\ now' = 0
  /\ inbox' = [a \in ToSet(call'.adapters) |-> <<>>]
  /\ found' = <<>> /\ result' = "none" /\ due' = {} /\ applied' = FALSE
  /\ UNCHANGED <<subnet, air, replies, faults>>

\* enumerate_adapters fails, and the call with it.
EnumerationFails ==
  /\ stage = "idle"
  /\ calls < MaxCalls
  /\ faults < MaxFaults
  /\ faults' = faults + 1
  /\ calls' = calls + 1
  /\ call' \in Calls(calls')
  /\ found' = <<>> /\ result' = "error" /\ due' = {} /\ applied' = FALSE
  /\ UNCHANGED <<stage, todo, sockets, turn, now, inbox, subnet, air, replies>>

\* One adapter: its socket may not open, and any of the sends may fail.
\* discover keeps a socket that sent something, force_ip any that opened.
Keeps(sent) == call.kind = "force_ip" \/ sent # {}
Beacons(a, sent) ==
  {[to |-> d, call |-> call, adapter |-> a, dest |-> dest] : d \in Devices, dest \in sent}

OpenAdapter ==
  /\ stage = "open"
  /\ todo # <<>>
  /\ todo' = Tail(todo)
  /\ LET a == Head(todo)
     IN  \/ faults' = faults + 1 /\ UNCHANGED <<sockets, air>>
         \/ \E sent \in SUBSET BeaconDestinations(call.limited) :
              /\ faults' = faults + Cardinality(BeaconDestinations(call.limited) \ sent)
              /\ sockets' = IF Keeps(sent) THEN Append(sockets, a) ELSE sockets
              /\ air' = air \cup {b \in Beacons(a, sent) : Hears(b.to, a, b.dest)}
  /\ faults' <= MaxFaults
  /\ UNCHANGED <<calls, call, stage, turn, now, inbox, found, result, subnet, replies, due, applied>>

\* The sockets close.  An answer to a port that no later call can have reaches
\* nobody any more and is forgotten, with the commands that only lead to one;
\* the copies of a force_ip not taken yet are one, answered to nobody.
Reused(port) == port[1] = "fixed"
Return(r) ==
  /\ air' = {b \in air : Reused(b.call.port)}
              \cup {[b EXCEPT !.adapter = "any", !.dest = "any"] :
                      b \in {c \in air : ~Reused(c.call.port) /\ c.call.kind = "force_ip"}}
  /\ replies' = {m \in replies : Reused(m.port)}
  /\ stage' = "idle"
  /\ result' = r
  /\ sockets' = <<>>
  /\ inbox' = [a \in {} |-> <<>>]

\* discover fails without a socket; force_ip waits on none.
Opened ==
  /\ stage = "open"
  /\ todo = <<>>
  /\ IF call.kind = "discover" /\ sockets = <<>>
     THEN Return("error")
     ELSE stage' = "listen" /\ UNCHANGED <<result, sockets, inbox, air, replies>>
  /\ UNCHANGED <<calls, call, todo, turn, now, found, subnet, faults, due, applied>>

-----------------------------------------------------------------------------
\* The head of a round looks at the deadline.
NextTurn == turn' = IF turn < Len(sockets) THEN turn + 1 ELSE 1
AtHead == turn = 1
Listening == stage = "listen" /\ (AtHead => now < Window) /\ sockets # <<>>

\* Nothing to receive from a socket for a whole timeout.
ReceiveTimesOut ==
  /\ Listening
  /\ inbox[sockets[turn]] = <<>>
  /\ now' = now + 1
  /\ NextTurn
  /\ UNCHANGED <<calls, call, stage, todo, sockets, inbox, found, result, subnet, air, replies, faults, due, applied>>

\* A receive that fails otherwise, whatever waits in the socket.
ReceiveFails ==
  /\ Listening
  /\ faults < MaxFaults
  /\ faults' = faults + 1
  /\ NextTurn
  /\ UNCHANGED <<calls, call, stage, todo, sockets, now, inbox, found, result, subnet, air, replies, due, applied>>

\* parse_discovery_ack: a DISCOVERY_ACK without an error and with a device
\* description.
IsDiscoveryAck(m) == m.kind = "discover" /\ m.status = "ok"

Listed(a, m) == Append(found, [mac |-> m.mac, subnet |-> m.subnet, adapter |-> a])

\* Mutant: one device per adapter.
MergedByAdapter(a, m) ==
  IF ~IsDiscoveryAck(m) \/ (\E k \in DOMAIN found : found[k].adapter = a) THEN found ELSE Listed(a, m)

\* The merge by MAC: the first answer stays.
Merged(a, m) ==
  IF ~IsDiscoveryAck(m) \/ (\E k \in DOMAIN found : found[k].mac = m.mac) THEN found ELSE Listed(a, m)

\* force_ip takes any FORCEIP_ACK that reports no error for its own.
Acknowledged(m) == m.kind = "force_ip" /\ m.status = "ok"

ReceiveDatagram ==
  /\ Listening
  /\ LET a == sockets[turn]
         m == Head(inbox[a])
     IN  /\ inbox[a] # <<>>
         /\ IF call.kind = "force_ip" /\ Acknowledged(m)
            THEN Return("true") /\ UNCHANGED <<turn, found>>
            ELSE /\ found' = IF call.kind = "discover" THEN Merged(a, m) ELSE found
                 /\ inbox' = [inbox EXCEPT ![a] = Tail(@)]
                 /\ NextTurn
                 /\ UNCHANGED <<stage, result, sockets, air, replies>>
  /\ UNCHANGED <<calls, call, todo, now, subnet, faults, due, applied>>

\* Without a socket the loop of force_ip spins until its window has passed.
WindowPasses ==
  /\ stage = "listen"
  /\ sockets = <<>> \/ (AtHead /\ now >= Window)
  /\ Return(IF call.kind = "discover" THEN "ok" ELSE "false")
  /\ UNCHANGED <<calls, call, todo, turn, now, found, subnet, faults, due, applied>>

-----------------------------------------------------------------------------
\* A device takes a command that reached it: it answers a discovery with its
\* address, and applies the address it is given or refuses to.  Only a command
\* that is never taken is lost.  (external)
Reply(b, status) ==
  [kind |-> b.call.kind, port |-> b.call.port, adapter |-> b.adapter, dest |-> b.dest, mac |-> b.to,
   subnet |-> subnet'[b.to], status |-> status]

DeviceTakes(b) ==
  /\ air' = air \ {b}
  /\ \E status \in {"ok"} \cup (IF b.to \in Refusing THEN {"error"} ELSE {}) :
       LET takes == b.call.kind = "force_ip" /\ status = "ok"
       IN  /\ subnet' = IF takes THEN [subnet EXCEPT ![b.to] = b.call.subnet] ELSE subnet
           /\ applied' = (applied \/ (takes /\ b.call = call))
           /\ replies' = IF b.adapter = "any" THEN replies ELSE replies \cup {Reply(b, status)}
  /\ UNCHANGED <<calls, call, stage, todo, sockets, turn, now, inbox, found, result, faults, due>>

\* An answer arrives at the socket that has its port, if there is one.
\* Served one per round, it has its turn within as many rounds as there are
\* datagrams before it and failures to come, and a round takes a timeout per
\* socket at most.
Arrive(m) ==
  /\ stage = "listen" /\ m.adapter \in ToSet(sockets) /\ m.port = call.port
  /\ replies' = replies \ {m}
  /\ inbox' = [inbox EXCEPT ![m.adapter] = Append(@, m)]
  /\ due' = IF (IF call.kind = "discover" THEN IsDiscoveryAck(m) ELSE Acknowledged(m))
                 /\ now + (Len(inbox'[m.adapter]) + MaxFaults - faults) * Len(sockets) <= Window
            THEN due \cup {m.mac} ELSE due
  /\ UNCHANGED <<calls, call, stage, todo, sockets, turn, now, found, result, subnet, air, faults, applied>>

Idle == stage = "idle" /\ calls = MaxCalls /\ UNCHANGED discoveryVars

DiscoveryNext ==
  \/ StartCall \/ EnumerationFails \/ OpenAdapter \/ Opened
  \/ ReceiveTimesOut \/ ReceiveFails \/ ReceiveDatagram \/ WindowPasses
  \/ \E b \in air : DeviceTakes(b)
  \/ \E m \in replies : Arrive(m)
  \/ Idle

-----------------------------------------------------------------------------
\* discover reports every device that answered in time, whichever adapters and
\* broadcasts it answered through and whatever else was received: a datagram
\* has its turn within a round per datagram before it in its socket.  Nor does
\* force_ip report that the window passed when an acknowledge came in time.
AnsweredInTimeIsFound ==
  /\ result = "ok" => due \subseteq {found[k].mac : k \in DOMAIN found}
  /\ result = "false" => due = {}

\* force_ip returns true only if the device it was for took the address this
\* very call gave it, not on the late answer to an earlier call.
ForcedIsApplied == result = "true" => applied
=============================================================================
