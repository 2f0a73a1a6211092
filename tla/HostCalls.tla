------------------------------ MODULE HostCalls ------------------------------
(***************************************************************************)
(* The exchanges the library makes with a device outside the control       *)
(* worker and the stream: the packet size negotiation, and the discovery   *)
(* and force_ip calls.  They share no state: one of them runs.             *)
(***************************************************************************)
EXTENDS PacketSize, Sequences

CONSTANTS Devices, Window, MaxCalls, SourcePorts, Refusing, MaxFaults

\* Two adapters, among interfaces that are none: the loopback, and one down.
Interfaces ==
  <<[up |-> TRUE,  loopback |-> TRUE,  addresses |-> <<"local">>],
    [up |-> TRUE,  loopback |-> FALSE, addresses |-> <<"v6", "net0">>],
    [up |-> FALSE, loopback |-> FALSE, addresses |-> <<"net2">>],
    [up |-> TRUE,  loopback |-> FALSE, addresses |-> <<"unspecified", "net1">>]>>

\* One device is on both networks; the other on one, with a foreign address.
Attached == [d \in Devices |-> IF d = "Both" THEN {"net0", "net1"} ELSE {"net0"}]
Subnets == {[d \in Devices |-> IF d = "Both" THEN "net0" ELSE "foreign"]}
Orders == {[mac |-> "Both", subnet |-> "net1"], [mac |-> "Lost", subnet |-> "net0"]}

VARIABLES
  topic,      \* the exchange that runs
  calls, call, stage, todo, sockets, turn, now, inbox, found, result, subnet,
  air, replies, faults, due, applied

searchVars ==
  <<calls, call, stage, todo, sockets, turn, now, inbox, found, result, subnet,
    air, replies, faults, due, applied>>

Find == INSTANCE Discovery

\* The state of an exchange that does not run.
NoSearch == Find!DiscoveryInit
NoNegotiation ==
  /\ cap = MAX /\ step = 1 /\ path = MAX /\ reliable = TRUE
  /\ phase = "max" /\ tried = {}
  /\ good = 0 /\ bad = MAX /\ best = 0 /\ size = 0
  /\ scps = MIN /\ flying = {} /\ seen = {} /\ probes = 0

HostInit ==
  \/ topic = "packet size" /\ Init /\ NoSearch
  \/ topic = "discovery" /\ NoNegotiation /\ Find!DiscoveryInit

HostNext ==
  \/ topic = "packet size" /\ Next /\ UNCHANGED <<topic, searchVars>>
  \/ topic = "discovery" /\ Find!DiscoveryNext /\ UNCHANGED <<topic, vars>>

HostSpec == HostInit /\ [][HostNext]_<<topic, vars, searchVars>>

\* discover reports every device whose answer arrived early enough, and
\* force_ip the acknowledge that did (see Discovery).
AnsweredInTimeIsFound == Find!AnsweredInTimeIsFound

\* force_ip returns true only if its own device took its own address (see
\* Discovery).
ForcedIsApplied == Find!ForcedIsApplied
=============================================================================
