---------------------------- MODULE ControlWorker ----------------------------
(***************************************************************************)
(* The GVCP control worker (src/gige/runner.rs) with the callers of        *)
(* ControlPort in front of it and a device behind an unreliable datagram   *)
(* link.                                                                   *)
(*                                                                         *)
(* A request moves a number of units: registers, or pieces of memory.  An  *)
(* op is a request with the progress made so far; a command carries the    *)
(* next units of one op under a fresh request id.  The worker has one      *)
(* transaction in flight, retransmits it when its deadline passes, and     *)
(* turns a loop (pc): its test, then socket, commands, deadline,           *)
(* heartbeat, pump.  Deadlines and due times are choices: any of them may  *)
(* have passed when the worker looks (TransactionTimer has the clocks).    *)
(*                                                                         *)
(* The link loses, duplicates, delays and reorders datagrams: `net' is the *)
(* set of commands that may still reach the device, each any number of     *)
(* times until it is lost, and `answered' the set of acknowledges that may *)
(* still reach the host, each any number of times or, when lost, never.    *)
(* Only one thing is assumed of the link: no command and no acknowledge is *)
(* still around when the id counter has come full circle to its id, 65534  *)
(* transactions later in the code.                                         *)
(***************************************************************************)
EXTENDS ControlPort

CONSTANTS
  Heartbeat,       \* the op that keeps device control alive
  Scenarios        \* the settings under which the worker is looked at

WriteKinds == {"WriteRegs", "WriteMem"}
RequestKinds == {"ReadReg", "ReadRegs", "ReadMem"} \cup WriteKinds

\* A scenario says which requests are made and what they move, how the worker
\* is configured, and what else may happen:
\*   kind            the kind of each request, a ToWorker variant
\*   units           how many units each request moves
\*   concatenation   Shared::concatenation: several registers per command
\*   data_size_max   units of memory one command carries
\*   retries         GigeConfig::retries
\*   max_id          the last request id before the counter wraps to 1
\*   odd_answers     how an answer may depart from what was asked for
\*   owner_stops     whether the owner ends the connection
\*   send_errors     whether the socket may refuse a datagram, and polling fail
ASSUME ConstantsAssumption ==
  /\ \A s \in Scenarios :
       /\ DOMAIN s.kind \subseteq Requests
       /\ s.kind \in [DOMAIN s.kind -> RequestKinds]
       /\ s.units \in [DOMAIN s.kind -> Nat \ {0}]
       /\ \A r \in DOMAIN s.kind : s.kind[r] = "ReadReg" => s.units[r] = 1
       /\ {s.data_size_max, s.max_id} \subseteq Nat \ {0} /\ s.retries \in Nat
       /\ s.odd_answers \subseteq {"nak", "wrong", "empty", "length"}
       /\ {s.concatenation, s.owner_stops, s.send_errors} \subseteq BOOLEAN
  /\ Heartbeat \notin Requests
  /\ Heartbeat # Shutdown

VARIABLES
  scenario,              \* the scenario of this behaviour: never changes
  pc,                    \* stage of the loop, or of the shutdown
  queue,                 \* ops waiting to be sent
  queued_payloads,       \* what to encode for each of them
  inflight,              \* the transaction in flight: a set of at most one
  next_id,               \* the request id used last
  control_lost,          \* Runner::control_lost
  shared_control_lost,   \* Shared::control_lost
  value,                 \* the units a successful read returned
  net,                   \* commands on their way to the device
  answered,              \* executions whose acknowledge is on its way back
  ccp,                   \* the device still grants this host control
  written                \* the units of each write request the device executed

workerVars == <<pc, queue, queued_payloads, inflight, next_id, control_lost, shared_control_lost, value>>
deviceVars == <<net, answered, ccp, written>>
vars == <<scenario, portVars, workerVars, deviceVars>>

Kind == scenario.kind
Units == scenario.units
Concatenation == scenario.concatenation
DATA_SIZE_MAX == scenario.data_size_max
Retries == scenario.retries
MaxId == scenario.max_id
OddAnswers == scenario.odd_answers
OwnerStops == scenario.owner_stops
SendErrors == scenario.send_errors
Asked == DOMAIN Kind             \* the requests that are made

LoopStages == {"loop", "socket", "commands", "deadline", "heartbeat", "pump"}
ShutdownStages == {"stopping", "released", "draining", "exiting", "exited"}

-----------------------------------------------------------------------------
\* Ops, what is queued to encode for them, and the commands they send.

NewOp(r) == [req |-> r, done |-> 0, acc |-> <<>>]
KindOf(op) == IF op.req = Heartbeat THEN "Heartbeat" ELSE Kind[op.req]

\* drain_commands and continue_op: ReadReg and Heartbeat carry their address
\* in PendingSend::ReadRegs, the other kinds compute their chunk when sent.
PendingSend(kind) == IF kind \in {"ReadReg", "Heartbeat"} THEN "ReadRegs" ELSE kind

Least(m, n) == IF m < n THEN m ELSE n

\* regs_per_command and chunk_len: units the next command of an op carries.
regs_per_command(remaining) == IF Concatenation THEN remaining ELSE Least(remaining, 1)
chunk_len(remaining) == Least(remaining, DATA_SIZE_MAX)
Chunk(op) ==
  LET remaining == Units[op.req] - op.done
  IN  CASE KindOf(op) \in {"ReadReg", "Heartbeat"} -> 1
        [] KindOf(op) \in {"ReadRegs", "WriteRegs"} -> regs_per_command(remaining)
        [] KindOf(op) \in {"ReadMem", "WriteMem"} -> chunk_len(remaining)

\* The datagram of the next chunk: its id, and which units of which request.
Command(op, id) == [id |-> id, req |-> op.req, from |-> op.done + 1, n |-> Chunk(op)]

\* gvcp::next_id: 1 .. 0xfffe and round again, 0 is never used.
NextId(id) == IF id >= MaxId THEN 1 ELSE id + 1

\* Op::fail; a heartbeat has nobody to tell.
FailOp(op, o) == Fulfill(handle, {op.req} \cap Requests, o)

\* The link forgets what used this id a full circle ago (the assumption on
\* the lifetime of datagrams).
Fresh(S, id) == {c \in S : c.id # id}

Init ==
  /\ scenario \in Scenarios
  /\ PortInit
  /\ pc = "loop"
  /\ queue = <<>>
  /\ queued_payloads = <<>>
  /\ inflight = {}
  /\ next_id = 0
  /\ control_lost = FALSE
  /\ shared_control_lost = FALSE
  /\ value = [r \in Requests |-> <<>>]
  /\ net = {}
  /\ answered = {}
  /\ ccp = TRUE
  /\ written = [r \in Requests |-> {}]

-----------------------------------------------------------------------------
\* Mutant: the chunks of one transfer share a request id.
SendOpKeepsId(op, send) ==
  LET id == IF op.done > 0 THEN next_id ELSE NextId(next_id)
      c == Command(op, id)
  IN  /\ next_id' = id
      /\ net' = IF id = next_id THEN net \cup {c} ELSE Fresh(net, id) \cup {c}
      /\ answered' = IF id = next_id THEN answered ELSE Fresh(answered, id)
      /\ inflight' = {[id |-> id, op |-> op, sent |-> c, tries_left |-> Retries]}
      /\ UNCHANGED handle

\* Sending.  send_op gives the op a fresh id; the op fails when its payload
\* does not fit it or the socket refuses the datagram, else it is in flight.
SendOp(op, send) ==
  LET id == NextId(next_id)
      c == Command(op, id)
  IN  /\ next_id' = id
      /\ \/ /\ send = PendingSend(KindOf(op))
            /\ net' = Fresh(net, id) \cup {c}
            /\ answered' = Fresh(answered, id)
            /\ inflight' = {[id |-> id, op |-> op, sent |-> c, tries_left |-> Retries]}
            /\ UNCHANGED handle
         \/ /\ send # PendingSend(KindOf(op)) \/ SendErrors
            /\ handle' = FailOp(op, IF send # PendingSend(KindOf(op)) THEN "protocol" ELSE "io")
            /\ inflight' = {}
            /\ UNCHANGED <<net, answered>>

\* Mutants: a transfer is never interrupted; it queues up behind the others.
ContinueAtOnce(op) ==
  /\ SendOp(op, PendingSend(KindOf(op)))
  /\ UNCHANGED <<queue, queued_payloads>>

ContinueLast(op) ==
  /\ queue' = Append(queue, op)
  /\ queued_payloads' = Append(queued_payloads, PendingSend(KindOf(op)))
  /\ inflight' = {}
  /\ UNCHANGED <<next_id, net, answered, handle>>

\* continue_op: a heartbeat waiting at the front goes first.
ContinueOp(op) ==
  IF queue # <<>> /\ Head(queue).req = Heartbeat
  THEN /\ queue' = <<Head(queue), op>> \o Tail(queue)
       /\ queued_payloads' = <<Head(queued_payloads), PendingSend(KindOf(op))>> \o Tail(queued_payloads)
       /\ inflight' = {}
       /\ UNCHANGED <<next_id, net, answered, handle>>
  ELSE /\ SendOp(op, PendingSend(KindOf(op)))
       /\ UNCHANGED <<queue, queued_payloads>>

-----------------------------------------------------------------------------
\* The test at the head of the loop, and the poll, which may fail.
LoopTest ==
  /\ pc = "loop"
  /\ \/ pc' = "stopping" /\ (should_die \/ control_lost \/ SendErrors)
     \/ pc' = "socket" /\ ~should_die /\ ~control_lost
  /\ UNCHANGED <<scenario, portVars, queue, queued_payloads, inflight, next_id, control_lost,
                 shared_control_lost, value, deviceVars>>

\* The socket stage: on_ack, by what was asked and what came back.

\* Mutant: a short answer advances the transfer by what was asked for.
AckUnitsAsked(op, a, n) ==
  LET got == [i \in 1..n |-> <<a.req, a.from + i - 1>>]
      next == [op EXCEPT !.done = @ + Chunk(op), !.acc = @ \o got]
  IN  IF next.done >= Units[op.req]
      THEN /\ handle' = Fulfill(handle, {op.req}, "ok")
           /\ value' = [value EXCEPT ![op.req] = next.acc]
           /\ inflight' = {}
           /\ UNCHANGED <<queue, queued_payloads, next_id, net, answered>>
      ELSE ContinueOp(next) /\ UNCHANGED value

\* A success carrying n units from the first the command asked for.
AckUnits(op, a, n) ==
  LET got == [i \in 1..n |-> <<a.req, a.from + i - 1>>]
      next == [op EXCEPT !.done = @ + n,
                         !.acc = IF Kind[op.req] \in WriteKinds THEN @ ELSE @ \o got]
  IN  IF next.done >= Units[op.req]
      THEN /\ handle' = Fulfill(handle, {op.req}, "ok")
           /\ value' = [value EXCEPT ![op.req] = next.acc]
           /\ inflight' = {}
           /\ UNCHANGED <<queue, queued_payloads, next_id, net, answered>>
      ELSE ContinueOp(next) /\ UNCHANGED value

\* A refusal, an answer of another type, too few registers, no data.  Memory may
\* come in fewer units than asked for, or in more: what is not wanted is cut off.
AckFails(op, o) ==
  /\ handle' = FailOp(op, o)
  /\ inflight' = {}
  /\ UNCHANGED <<queue, queued_payloads, next_id, net, answered, value>>

\* Mutant: the status of the answer is not looked at.
AckAnyStatus(op, a, how) == how = "full" /\ AckUnits(op, a, Chunk(op)) /\ UNCHANGED control_lost

\* The outcome of a request's command, by the status and the shape of its answer.
AckRequest(op, a, how) ==
  /\ \/ a.status = "nak" /\ AckFails(op, "nak")
     \/ /\ a.status = "ok"
        /\ \/ how = "full" /\ AckUnits(op, a, Chunk(op))
           \/ how = "wrong" /\ AckFails(op, "protocol")
           \/ how = "empty" /\ Kind[op.req] \notin WriteKinds /\ AckFails(op, "protocol")
           \/ how = "length" /\ Kind[op.req] = "ReadRegs" /\ AckFails(op, "protocol")
           \/ /\ how = "length"
              /\ Kind[op.req] = "ReadMem"
              /\ \E n \in 1..(Units[op.req] - op.done) : n # Chunk(op) /\ AckUnits(op, a, n)
  /\ UNCHANGED control_lost

\* Mutant: the control bit in the heartbeat's answer is not looked at.
AckHeartbeatBlind(a, how) ==
  /\ inflight' = {}
  /\ control_lost' = (control_lost \/ a.status = "nak" \/ how = "empty")
  /\ UNCHANGED <<handle, value, queue, queued_payloads, next_id, net, answered>>

\* Control is lost when the heartbeat is rejected, has no value, or shows the
\* control bit clear; a heartbeat answered with the wrong type is forgotten.
AckHeartbeat(a, how) ==
  /\ inflight' = {}
  /\ control_lost' = (\/ control_lost
                      \/ a.status = "nak"
                      \/ how = "empty"
                      \/ how = "full" /\ ~a.ccp)
  /\ UNCHANGED <<handle, value, queue, queued_payloads, next_id, net, answered>>

\* on_datagram: only an answer with the id in flight counts; any other is
\* unsolicited and changes nothing here.
OnDatagram(a, how) ==
  \E t \in inflight :
    /\ t.id = a.id
    /\ IF t.op.req = Heartbeat THEN AckHeartbeat(a, how) ELSE AckRequest(t.op, a, how)

DrainSocket ==
  /\ pc = "socket"
  /\ \E a \in answered, how \in {"full"} \cup OddAnswers : OnDatagram(a, how)
  /\ UNCHANGED <<scenario, client, owner, chan, rx_open, is_alive, should_die, pc, shared_control_lost, ccp, written>>

\* The receive would block.
SocketEmpty ==
  /\ pc = "socket"
  /\ pc' = "commands"
  /\ UNCHANGED <<scenario, portVars, queue, queued_payloads, inflight, next_id, control_lost,
                 shared_control_lost, value, deviceVars>>

\* drain_commands, one message; Shutdown ends the loop at once.
DrainCommands ==
  /\ pc = "commands"
  /\ chan # <<>>
  /\ chan' = Tail(chan)
  /\ IF Head(chan) = Shutdown
     THEN pc' = "stopping" /\ UNCHANGED <<queue, queued_payloads>>
     ELSE /\ queue' = Append(queue, NewOp(Head(chan)))
          /\ queued_payloads' = Append(queued_payloads, PendingSend(Kind[Head(chan)]))
          /\ UNCHANGED pc
  /\ UNCHANGED <<scenario, client, owner, rx_open, is_alive, should_die, handle, inflight, next_id,
                 control_lost, shared_control_lost, value, deviceVars>>

CommandsEmpty ==
  /\ pc = "commands"
  /\ chan = <<>>
  /\ pc' = "deadline"
  /\ UNCHANGED <<scenario, portVars, queue, queued_payloads, inflight, next_id, control_lost,
                 shared_control_lost, value, deviceVars>>

-----------------------------------------------------------------------------
\* check_inflight_deadline: nothing is overdue.
DeadlineAhead ==
  /\ pc = "deadline"
  /\ pc' = "heartbeat"
  /\ UNCHANGED <<scenario, portVars, queue, queued_payloads, inflight, next_id, control_lost,
                 shared_control_lost, value, deviceVars>>

\* Mutant: a transaction out of tries is dropped without telling its caller.
OverdueSilent ==
  /\ pc = "deadline"
  /\ pc' = "heartbeat"
  /\ \E t \in inflight :
       /\ inflight' = IF t.tries_left > 0 THEN {[t EXCEPT !.tries_left = @ - 1]} ELSE {}
       /\ net' = IF t.tries_left > 0 THEN net \cup {t.sent} ELSE net
       /\ control_lost' = (control_lost \/ (t.tries_left = 0 /\ t.op.req = Heartbeat))
  /\ UNCHANGED <<scenario, portVars, queue, queued_payloads, next_id, shared_control_lost, value, answered,
                 ccp, written>>

\* The deadline passed: the same datagram goes out again while tries are
\* left, otherwise the transaction fails, and a heartbeat takes control with it.
Overdue ==
  /\ pc = "deadline"
  /\ pc' = "heartbeat"
  /\ \E t \in inflight :
       \/ /\ t.tries_left > 0
          /\ inflight' = {[t EXCEPT !.tries_left = @ - 1]}
          /\ \/ net' = net \cup {t.sent}
             \/ SendErrors /\ UNCHANGED net
          /\ UNCHANGED <<handle, control_lost>>
       \/ /\ t.tries_left = 0
          /\ inflight' = {}
          /\ handle' = FailOp(t.op, "timeout")
          /\ control_lost' = (control_lost \/ t.op.req = Heartbeat)
          /\ UNCHANGED net
  /\ UNCHANGED <<scenario, client, owner, chan, rx_open, is_alive, should_die, queue, queued_payloads, next_id,
                 shared_control_lost, value, answered, ccp, written>>

\* check_heartbeat: not due, or one is already waiting or in flight.
HeartbeatPending ==
  \/ \E t \in inflight : t.op.req = Heartbeat
  \/ \E i \in 1..Len(queue) : queue[i].req = Heartbeat

HeartbeatSkip ==
  /\ pc = "heartbeat"
  /\ pc' = "pump"
  /\ UNCHANGED <<scenario, portVars, queue, queued_payloads, inflight, next_id, control_lost,
                 shared_control_lost, value, deviceVars>>

HeartbeatDue ==
  /\ pc = "heartbeat"
  /\ pc' = "pump"
  /\ ~HeartbeatPending
  /\ queue' = <<NewOp(Heartbeat)>> \o queue
  /\ queued_payloads' = <<PendingSend("Heartbeat")>> \o queued_payloads
  /\ UNCHANGED <<scenario, portVars, inflight, next_id, control_lost, shared_control_lost, value, deviceVars>>

\* pump: the next op, when nothing is in flight.
Pump ==
  /\ pc = "pump"
  /\ pc' = "loop"
  /\ IF inflight = {} /\ queue # <<>>
     THEN /\ queue' = Tail(queue)
          /\ queued_payloads' = Tail(queued_payloads)
          /\ SendOp(Head(queue), Head(queued_payloads))
     ELSE UNCHANGED <<handle, queue, queued_payloads, inflight, next_id, net, answered>>
  /\ UNCHANGED <<scenario, client, owner, chan, rx_open, is_alive, should_die, control_lost,
                 shared_control_lost, value, ccp, written>>

-----------------------------------------------------------------------------
\* The requests the worker owes an answer.
Held ==
  {r \in Requests : \/ \E t \in inflight : t.op.req = r
                    \/ \E i \in 1..Len(queue) : queue[i].req = r}

Cause == IF control_lost THEN "control_lost" ELSE "disconnected"

\* The write of CCP := 0 that gives device control back.
Release(id) == [id |-> id, req |-> Shutdown, from |-> 1, n |-> 1]

\* Shared::control_lost says why the worker died.
PublishCause == shared_control_lost' = (shared_control_lost \/ control_lost)

\* Device control is released, best effort, unless it is already lost.
\* Mutant: it is released in any case.
ReleaseAlways ==
  /\ next_id' = NextId(next_id)
  /\ net' = Fresh(net, next_id') \cup {Release(next_id')}
  /\ answered' = Fresh(answered, next_id')

ReleaseControl ==
  IF control_lost
  THEN UNCHANGED <<next_id, net, answered>>
  ELSE /\ next_id' = NextId(next_id)
       /\ \/ /\ net' = Fresh(net, next_id') \cup {Release(next_id')}
             /\ answered' = Fresh(answered, next_id')
          \/ SendErrors /\ UNCHANGED <<net, answered>>

\* shutdown, up to the release: all that is in flight or queued fails.
ShutdownFail ==
  /\ pc = "stopping"
  /\ pc' = "released"
  /\ PublishCause
  /\ handle' = Fulfill(handle, Held, Cause)
  /\ inflight' = {}
  /\ queue' = <<>>
  /\ queued_payloads' = <<>>
  /\ ReleaseControl
  /\ UNCHANGED <<scenario, client, owner, chan, rx_open, is_alive, should_die, control_lost, value, ccp, written>>

HasDied ==
  /\ pc = "released"
  /\ pc' = "draining"
  /\ is_alive' = FALSE
  /\ UNCHANGED <<scenario, client, owner, chan, rx_open, should_die, handle, queue, queued_payloads, inflight,
                 next_id, control_lost, shared_control_lost, value, deviceVars>>

\* Mutant: the last drain throws requests away.
DrainSilent ==
  /\ pc = "draining"
  /\ chan # <<>>
  /\ chan' = Tail(chan)
  /\ UNCHANGED <<scenario, client, owner, rx_open, is_alive, should_die, handle, workerVars, deviceVars>>

\* The last drain: requests behind a Shutdown, or pushed during the teardown.
DrainRest ==
  /\ pc = "draining"
  /\ chan # <<>>
  /\ chan' = Tail(chan)
  /\ handle' = Fulfill(handle, {Head(chan)}, Cause)
  /\ UNCHANGED <<scenario, client, owner, rx_open, is_alive, should_die, workerVars, deviceVars>>

\* Mutant: the drain lasts until every sender is gone, the owner waiting in
\* its join among them.
DrainUntilJoined ==
  /\ pc = "draining"
  /\ chan = <<>>
  /\ pc' = IF owner = "joined" THEN "exiting" ELSE pc
  /\ UNCHANGED <<scenario, portVars, queue, queued_payloads, inflight, next_id, control_lost,
                 shared_control_lost, value, deviceVars>>

DrainEnd ==
  /\ pc = "draining"
  /\ chan = <<>>
  /\ pc' = "exiting"
  /\ UNCHANGED <<scenario, portVars, queue, queued_payloads, inflight, next_id, control_lost,
                 shared_control_lost, value, deviceVars>>

DropReceiver ==
  /\ pc = "exiting"
  /\ pc' = "exited"
  /\ rx_open' = FALSE
  /\ UNCHANGED <<scenario, client, owner, chan, is_alive, should_die, handle, queue, queued_payloads, inflight,
                 next_id, control_lost, shared_control_lost, value, deviceVars>>

-----------------------------------------------------------------------------
\* The device executes a command that reached it, or refuses it, a batch of
\* writes possibly after some of them, and answers.
Write(c, k) ==
  written' = IF c.req \in Requests /\ Kind[c.req] \in WriteKinds
             THEN [written EXCEPT ![c.req] = @ \cup (c.from .. c.from + k - 1)]
             ELSE written

\* An answer says which units it is about, and a heartbeat's the control bit.
Answer(c, status) ==
  [id |-> c.id, req |-> c.req, from |-> c.from, status |-> status, ccp |-> ccp \/ c.req # Heartbeat]

DeviceExecute(c) ==
  /\ answered' = answered \cup {Answer(c, "ok")}
  /\ Write(c, c.n)
  /\ ccp' = (ccp /\ c.req # Shutdown)
  /\ UNCHANGED <<scenario, portVars, workerVars, net>>

DeviceRefuse(c) ==
  /\ "nak" \in OddAnswers
  /\ answered' = answered \cup {Answer(c, "nak")}
  /\ \E k \in 0 .. c.n - 1 : Write(c, k)
  /\ UNCHANGED <<scenario, portVars, workerVars, net, ccp>>

LoseCommand(c) ==
  /\ net' = net \ {c}
  /\ UNCHANGED <<scenario, portVars, workerVars, answered, ccp, written>>

\* The device ends this host's control: its heartbeat timer ran out, or it
\* was reset.
DeviceEndsControl ==
  /\ ccp
  /\ ccp' = FALSE
  /\ UNCHANGED <<scenario, portVars, workerVars, net, answered, written>>

-----------------------------------------------------------------------------
Loop == LoopTest \/ DrainSocket \/ SocketEmpty \/ DrainCommands \/ CommandsEmpty \/ DeadlineAhead \/ Overdue
        \/ HeartbeatSkip \/ HeartbeatDue \/ Pump
Teardown == ShutdownFail \/ HasDied \/ DrainRest \/ DrainEnd \/ DropReceiver
Device ==
  \/ \E c \in net : DeviceExecute(c) \/ DeviceRefuse(c) \/ LoseCommand(c)
  \/ DeviceEndsControl
Callers ==
  /\ (\E r \in Asked : Submit(r)) \/ (OwnerStops /\ Disconnect) \/ Join(pc = "exited")
  /\ UNCHANGED <<scenario, workerVars, deviceVars>>

Terminated ==
  /\ pc = "exited"
  /\ owner \in {"connected", "joined"}
  /\ \A r \in Asked : client[r] = "done"
  /\ UNCHANGED vars

Next == Callers \/ Loop \/ Teardown \/ Device \/ Terminated

Spec == Init /\ [][Next]_vars

-----------------------------------------------------------------------------
Senders == Requests \cup {Heartbeat}
UnitSet == (Senders \cup {Shutdown}) \X Nat
OpSet == [req : Senders, done : Nat, acc : Seq(UnitSet)]
\* Commands and acknowledges as their fields; gvcp.rs lays them out in bytes.
CommandSet == [id : Nat, req : Senders \cup {Shutdown}, from : Nat, n : Nat]
AnswerSet == [id : Nat, req : Senders \cup {Shutdown}, from : Nat, status : {"ok", "nak"}, ccp : BOOLEAN]
InflightSet == [id : Nat, op : OpSet, sent : CommandSet, tries_left : Nat]

\* Type invariant.  The worker's registers, queue and counters hold what Runner declares.
TypeOK ==
  /\ scenario \in Scenarios
  /\ PortTypeOK
  /\ pc \in LoopStages \cup ShutdownStages
  /\ queue \in Seq(OpSet)
  /\ queued_payloads \in Seq({"ReadRegs"} \cup RequestKinds)
  /\ \A t \in inflight : t \in InflightSet
  /\ \A t, u \in inflight : t = u
  /\ next_id \in Nat
  /\ control_lost \in BOOLEAN
  /\ shared_control_lost \in BOOLEAN
  /\ value \in [Requests -> Seq(UnitSet)]
  /\ net \subseteq CommandSet
  /\ answered \subseteq AnswerSet
  /\ ccp \in BOOLEAN
  /\ written \in [Requests -> SUBSET Nat]

\* on_datagram matches an acknowledge to the transaction in flight by its id
\* alone; that is enough: any acknowledge with that id, however late or often
\* repeated, answers the very units the transaction asked for.
AnswersMatch ==
  \A a \in answered, t \in inflight :
    a.id = t.id => a.req = t.op.req /\ a.from = t.op.done + 1

\* A read that succeeds returns each unit it asked for, once and in order,
\* read by the device for this request, however it was split into chunks,
\* answered short, interrupted by heartbeats or retransmitted.
ReadsReassemble ==
  \A r \in Asked :
    handle[r] = "ok" /\ Kind[r] \notin WriteKinds => value[r] = [i \in 1..Units[r] |-> <<r, i>>]

\* A write that succeeds has been executed in full by the device, and a write
\* that fails half way (refused, timed out, control lost) leaves a prefix of
\* its units behind, never a hole.
WritesLand ==
  \A r \in Asked :
    /\ \E k \in 0..Units[r] : written[r] = 1..k
    /\ handle[r] = "ok" /\ Kind[r] \in WriteKinds => written[r] = 1..Units[r]

\* Device control is given up as the very last command, and not at all once
\* it is lost: it may then be another host's.
ReleaseIsLast ==
  [][(control_lost /\ pc \in ShutdownStages) \/ (\E c \in net : c.req = Shutdown) => net' \subseteq net]_vars

\* A heartbeat that is due cuts in at the next chunk boundary: no other
\* transaction starts while one is queued (continue_op, check_heartbeat).
HeartbeatCutsIn ==
  [][\A t \in inflight' :
       (\E i \in 1..Len(queue) : queue[i].req = Heartbeat) /\ (\A u \in inflight : u.id # t.id)
         => t.op.req = Heartbeat]_vars
=============================================================================
