------------------------ MODULE ControlServiceProofs ------------------------
(***************************************************************************)
(* What the control worker promises its callers, for any set of requests,  *)
(* any scenario and any behaviour of the link and the device: it           *)
(* implements RequestService, so that nobody is orphaned, and no request   *)
(* overtakes another.  Both rest on the inductive invariant of             *)
(* ControlWorkerProofs.                                                    *)
(***************************************************************************)
EXTENDS ControlService, ControlWorkerProofs

\* The worker implements RequestService: each of its steps settles a request it
\* holds, takes one, moves the service to its next phase, or does nothing.
ServiceStep == [Service!Next]_(Service!vars)

\* A worker that starts is a service that starts.
LEMMA ServiceInit == Init => Service!Init
<1>1. Init => Held = {}
  BY DEF Init, Held
<1>. QED BY <1>1 DEF Init, Service!Init, PortInit, Service!PortInit, Service!Unset, Unset, LoopStages

\* A step that the service does not see.
LEMMA Stutters ==
  ASSUME UNCHANGED portVars, Held' = Held, pc' = pc \/ (pc \in LoopStages /\ pc' \in LoopStages)
  PROVE  ServiceStep
BY DEF ServiceStep, Service!vars, Service!portVars, portVars

\* A step that settles one request the worker holds.
LEMMA Answers ==
  ASSUME pc \in LoopStages, pc' \in LoopStages, NEW r \in Held, Held' = Held \ {r},
         NEW o \in {"ok", "nak", "protocol", "timeout", "io"}, handle' = Fulfill(handle, {r}, o),
         UNCHANGED <<client, owner, chan, rx_open, is_alive, should_die>>
  PROVE  ServiceStep
<1>1. r \in Requests
  BY DEF Held
<1>2. o \in Service!Outcomes \ {"control_lost", "disconnected"}
  BY DEF Service!Outcomes, Service!Failures
<1>3. handle' = Service!Fulfill(handle, {r}, o)
  BY DEF Fulfill, Service!Fulfill, Unset, Service!Unset
<1>4. Service!Answer(r)
  BY <1>2, <1>3 DEF Service!Answer
<1>. QED BY <1>1, <1>4 DEF ServiceStep, Service!Next, Service!Worker

\* An op that fails: a request is answered, a heartbeat goes unnoticed.
LEMMA FailedOp ==
  ASSUME IInv, pc \in LoopStages, pc' \in LoopStages, NEW op, op.req \in Held \cup {Heartbeat}, Held' = Held \ {op.req},
         NEW o \in {"nak", "protocol", "timeout", "io"}, handle' = FailOp(op, o),
         UNCHANGED <<client, owner, chan, rx_open, is_alive, should_die>>
  PROVE  ServiceStep
<1>1. CASE op.req \in Held
  <2>1. {op.req} \cap Requests = {op.req}
    BY <1>1 DEF Held
  <2>. QED BY <1>1, <2>1, Answers DEF FailOp
<1>2. CASE op.req = Heartbeat
  <2>1. {op.req} \cap Requests = {}
    BY <1>2, ConstantsAssumption
  <2>2. handle \in [Requests -> Outcomes \cup {Unset}]
    BY DEF IInv, TypeOK, PortTypeOK
  <2>3. handle' = handle
    BY <2>1, <2>2 DEF FailOp, Fulfill
  <2>4. Held' = Held
    BY <1>2, ConstantsAssumption DEF Held
  <2>. QED BY <2>3, <2>4, Stutters DEF portVars
<1>. QED BY <1>1, <1>2

\* Who is held while t is in flight.
LEMMA HeldInFlight ==
  ASSUME IInv, NEW t \in inflight
  PROVE  /\ t.op.req \in Held \cup {Heartbeat}
         /\ \A r \in Held : r = t.op.req \/ \E i \in 1..Len(queue) : queue[i].req = r
         /\ \A i \in 1..Len(queue) : queue[i].req # t.op.req
         /\ t.op.req # Heartbeat => t.op.req \in Requests
<1>1. \A u \in inflight : u = t
  BY DEF IInv, TypeOK
<1>2. t.op.req \in Senders
  BY DEF IInv, TypeOK, InflightSet, OpSet
<1>. QED BY <1>1, <1>2, Zenon DEF IInv, Single, Held, Senders

\* With its transaction gone the worker no longer holds a request.
LEMMA FlightEnds ==
  ASSUME IInv, NEW t \in inflight, inflight' = {}, UNCHANGED queue
  PROVE  Held' = Held \ {t.op.req}
<1>1. Held' = {r \in Requests : \E i \in 1..Len(queue) : queue[i].req = r}
  BY DEF Held
<1>. QED BY <1>1, HeldInFlight DEF Held

\* A datagram settles at most the request in flight.
LEMMA SocketServes ==
  ASSUME IInv, DrainSocket
  PROVE  ServiceStep
<1>1. /\ pc = "socket" /\ pc \in LoopStages /\ pc' \in LoopStages
      /\ UNCHANGED <<scenario, client, owner, chan, rx_open, is_alive, should_die, pc, written>>
  BY DEF DrainSocket, LoopStages
<1>2. PICK a \in answered, how \in {"full"} \cup OddAnswers : OnDatagram(a, how)
  BY DEF DrainSocket
<1>3. PICK t \in inflight : /\ t.id = a.id
                            /\ IF t.op.req = Heartbeat THEN AckHeartbeat(a, how) ELSE AckRequest(t.op, a, how)
  BY <1>2 DEF OnDatagram
<1>4. /\ TypeOK /\ t.op \in OpSet /\ Unfinished(t.op) /\ Landing
      /\ t.op.req \in Held \cup {Heartbeat}
      /\ \A r \in Held : r = t.op.req \/ \E i \in 1..Len(queue) : queue[i].req = r
      /\ \A i \in 1..Len(queue) : queue[i].req # t.op.req
  BY HeldInFlight, Zenon DEF IInv, TypeOK, InflightSet, Progress
<1>5. CASE t.op.req = Heartbeat
  <2>1. inflight' = {} /\ UNCHANGED <<handle, queue>>
    BY <1>3, <1>5 DEF AckHeartbeat
  <2>2. Held' = Held
    BY <1>5, <2>1, FlightEnds, ConstantsAssumption DEF Held
  <2>. QED BY <1>1, <2>1, <2>2, Stutters DEF portVars
<1>6. CASE t.op.req # Heartbeat
  <2>1. AckRequest(t.op, a, how) /\ t.op.req \in Held /\ t.op.req \in Requests
    BY <1>3, <1>4, <1>6 DEF Held
  <2>2. CASE \E o \in {"nak", "protocol"} : AckFails(t.op, o)
    <3>1. PICK o \in {"nak", "protocol"} : AckFails(t.op, o)
      BY <2>2
    <3>2. Held' = Held \ {t.op.req}
      BY <3>1, FlightEnds DEF AckFails
    <3>. QED BY <1>1, <2>1, <3>1, <3>2, FailedOp DEF AckFails
  <2>3. ASSUME NEW n \in 1..(Units[t.op.req] - t.op.done), a.status = "ok", IsWrite(t.op.req) => n = Chunk(t.op), AckUnits(t.op, a, n)
        PROVE  ServiceStep
    <3>1. PICK next \in OpSet : /\ next.req = t.op.req /\ Counted(next)
                                /\ \/ /\ handle' = Fulfill(handle, {t.op.req}, "ok")
                                      /\ inflight' = {} /\ UNCHANGED queue
                                   \/ /\ next.done < Units[t.op.req] /\ ContinueOp(next)
                                      /\ Kind[t.op.req] \notin WriteKinds => next.acc = UpTo(t.op.req, next.done)
      <4>. DEFINE nx == Advanced(t.op, n)
      <4>1. /\ nx \in OpSet /\ nx.req = t.op.req /\ Counted(nx) /\ nx.done = t.op.done + n /\ Units[t.op.req] \in Nat
            /\ Kind[t.op.req] \notin WriteKinds => nx.acc = UpTo(t.op.req, t.op.done + n)
        BY <1>3, <1>6, <2>3, AdvancedFacts
      <4>2. a.req = t.op.req /\ a.from = t.op.done + 1
        BY <1>3 DEF IInv, Current
      <4>3. [i \in 1..n |-> <<a.req, a.from + i - 1>>] = [i \in 1..n |-> <<t.op.req, t.op.done + 1 + i - 1>>]
        BY <4>2
      <4>4. \/ /\ handle' = Fulfill(handle, {t.op.req}, "ok")
               /\ inflight' = {} /\ UNCHANGED queue
            \/ ~(nx.done >= Units[t.op.req]) /\ ContinueOp(nx)
        BY <2>3, <4>3, ZenonT(30) DEF AckUnits, Advanced
      <4>5. nx.done \in Nat
        BY <4>1 DEF OpSet
      <4>. HIDE DEF nx
      <4>6. ~(nx.done >= Units[t.op.req]) => nx.done < Units[t.op.req]
        BY <4>1, <4>5
      <4>. QED BY <4>1, <4>4, <4>6, Zenon
    <3>2. CASE handle' = Fulfill(handle, {t.op.req}, "ok") /\ inflight' = {} /\ UNCHANGED queue
      BY <1>1, <2>1, <3>2, FlightEnds, Answers
    <3>3. CASE /\ next.done < Units[t.op.req] /\ ContinueOp(next)
               /\ Kind[t.op.req] \notin WriteKinds => next.acc = UpTo(t.op.req, next.done)
      <4>1. CASE queue # <<>> /\ Head(queue).req = Heartbeat
        <5>1. queue' = <<Head(queue), next>> \o Tail(queue) /\ inflight' = {} /\ UNCHANGED handle
          BY <3>3, <4>1, Zenon DEF ContinueOp
        <5>2. /\ Len(queue) \in Nat \ {0} /\ Len(queue') = Len(queue) + 1
              /\ \A i \in 1..Len(queue') : queue'[i] = IF i = 1 THEN queue[1] ELSE IF i = 2 THEN next ELSE queue[i - 1]
          BY <1>4, <4>1, <5>1, SecondFacts, TailFacts DEF TypeOK
        <5>3. \A i \in 1..Len(queue') : queue'[i].req = t.op.req \/ \E j \in 1..Len(queue) : queue'[i] = queue[j]
          BY <3>1, <5>2
        <5>4. \A j \in 1..Len(queue) : \E i \in 1..Len(queue') : queue'[i] = queue[j]
          <6>. SUFFICES ASSUME NEW j \in 1..Len(queue)
                        PROVE  \E i \in 1..Len(queue') : queue'[i] = queue[j]
            OBVIOUS
          <6>1. CASE j = 1
            BY <5>2, <6>1
          <6>2. CASE j # 1
            <7>1. j + 1 \in 1..Len(queue') /\ queue'[j + 1] = queue[j]
              BY <5>2, <6>2
            <7>. QED BY <7>1
          <6>. QED BY <6>1, <6>2
        <5>5. 2 \in 1..Len(queue') /\ queue'[2].req = t.op.req
          BY <3>1, <5>2
        <5>6. Held' = Held
          <6>1. Held' = {r \in Requests : \E i \in 1..Len(queue') : queue'[i].req = r}
            BY <5>1, Zenon DEF Held
          <6>2. ASSUME NEW r \in Held PROVE r \in Held'
            <7>1. CASE r = t.op.req
              BY <2>1, <5>5, <6>1, <7>1
            <7>2. CASE \E i \in 1..Len(queue) : queue[i].req = r
              BY <5>4, <6>1, <6>2, <7>2 DEF Held
            <7>. QED BY <1>4, <6>2, <7>1, <7>2
          <6>3. ASSUME NEW r \in Held' PROVE r \in Held
            <7>1. PICK i \in 1..Len(queue') : queue'[i].req = r /\ r \in Requests
              BY <6>1, <6>3
            <7>2. r = t.op.req \/ \E j \in 1..Len(queue) : queue[j].req = r
              BY <5>3, <7>1, Zenon
            <7>. QED BY <2>1, <7>1, <7>2 DEF Held
          <6>. QED BY <6>2, <6>3, Zenon
        <5>. QED BY <1>1, <5>1, <5>6, Stutters, Zenon DEF portVars
      <4>2. CASE ~(queue # <<>> /\ Head(queue).req = Heartbeat)
        <5>1. SendOp(next, PendingSend(KindOf(next))) /\ UNCHANGED queue
          BY <3>3, <4>2, Zenon DEF ContinueOp
        <5>2. Unfinished(next)
          BY <1>4, <1>6, <3>1, <3>3, Zenon DEF Unfinished
        <5>3. /\ \A u \in inflight' : u.op = next
              /\ \/ handle' = handle
                 \/ inflight' = {} /\ \E o \in {"protocol", "io"} : handle' = FailOp(next, o)
          BY <1>1, <1>4, <3>1, <5>1, <5>2, SendOpFacts, Zenon
        <5>4. CASE inflight' = {} /\ \E o \in {"protocol", "io"} : handle' = FailOp(next, o)
          BY <1>1, <2>1, <3>1, <5>1, <5>4, FlightEnds, FailedOp
        <5>5. CASE handle' = handle /\ inflight' # {}
          <6>1. Held' = Held
            BY <1>4, <2>1, <3>1, <5>1, <5>3, <5>5 DEF Held
          <6>. QED BY <1>1, <5>5, <6>1, Stutters, Zenon DEF portVars
        <5>6. inflight' # {} => handle' = handle
          BY <5>3
        <5>7. inflight' = {} => \E o \in {"protocol", "io"} : handle' = FailOp(next, o)
          BY <5>1, ZenonT(30) DEF SendOp
        <5>. QED BY <5>4, <5>5, <5>6, <5>7
      <4>. QED BY <4>1, <4>2
    <3>. QED BY <3>1, <3>2, <3>3
  <2>4. /\ Chunk(t.op) \in Nat \ {0} /\ t.op.done + Chunk(t.op) <= Units[t.op.req]
        /\ t.op.done \in Nat /\ Units[t.op.req] \in Nat
    BY <1>4, <1>6, ChunkFacts, ScenarioFacts, Zenon DEF Unfinished, TypeOK, OpSet
  <2>5. CASE a.status = "ok" /\ AckUnits(t.op, a, Chunk(t.op))
    <3>1. Chunk(t.op) \in 1..(Units[t.op.req] - t.op.done)
      BY <2>4
    <3>. QED BY <2>3, <2>5, <3>1
  <2>6. CASE a.status = "ok" /\ Kind[t.op.req] = "ReadMem" /\ \E n \in 1..(Units[t.op.req] - t.op.done) : AckUnits(t.op, a, n)
    <3>1. PICK n \in 1..(Units[t.op.req] - t.op.done) : AckUnits(t.op, a, n)
      BY <2>6
    <3>2. ~IsWrite(t.op.req)
      BY <2>4, <2>6 DEF IsWrite, WriteKinds
    <3>. QED BY <2>3, <2>6, <3>1, <3>2
  <2>. QED BY <2>1, <2>2, <2>5, <2>6, Zenon DEF AckRequest
<1>. QED BY <1>5, <1>6

\* What the callers and the owner do, they do in both specifications.
LEMMA CallersServe ==
  ASSUME IInv, Callers
  PROVE  ServiceStep
<1>1. Held' = Held /\ pc' = pc
  BY DEF Callers, workerVars, Held
<1>2. ASSUME NEW r \in Asked, Submit(r) PROVE ServiceStep
  <2>0. r \in Requests
    BY <1>2, ScenarioFacts DEF IInv, TypeOK
  <2>1. r \in Requests /\ Service!Submit(r)
    BY <1>2, <2>0 DEF Submit, SendCheck, SendPush, SendRecheck, Fulfill, Unset, Service!Submit, Service!SendCheck,
                Service!SendPush, Service!SendRecheck, Service!Fulfill, Service!Unset
  <2>. QED BY <1>1, <2>1 DEF ServiceStep, Service!Next
<1>3. CASE Disconnect
  <2>1. Service!Disconnect
    BY <1>3 DEF Disconnect, DisconnectCheck, DisconnectPush, RequestStop, Service!Disconnect,
                Service!DisconnectCheck, Service!DisconnectPush, Service!RequestStop
  <2>. QED BY <1>1, <2>1 DEF ServiceStep, Service!Next
<1>4. CASE Join(pc = "exited")
  <2>1. Service!Join((IF pc \in LoopStages THEN "running" ELSE pc) = "exited")
    BY <1>4 DEF Join, Service!Join, LoopStages
  <2>. QED BY <1>1, <2>1 DEF ServiceStep, Service!Next
<1>. QED BY <1>2, <1>3, <1>4 DEF Callers

\* The stages that leave requests and handles alone.
LEMMA QuietServes ==
  ASSUME IInv, LoopTest \/ SocketEmpty \/ CommandsEmpty \/ DeadlineAhead \/ HeartbeatSkip \/ Device \/ Terminated
  PROVE  ServiceStep
<1>1. CASE LoopTest
  <2>1. UNCHANGED portVars /\ Held' = Held /\ pc = "loop"
    BY <1>1 DEF LoopTest, Held
  <2>2. CASE pc' = "socket"
    BY <2>1, <2>2, Stutters DEF LoopStages
  <2>3. CASE pc' = "stopping"
    <3>1. Service!Stop
      BY <2>1, <2>3 DEF Service!Stop, LoopStages, portVars, Service!portVars
    <3>. QED BY <3>1 DEF ServiceStep, Service!Next, Service!Worker
  <2>. QED BY <1>1, <2>2, <2>3 DEF LoopTest
<1>2. CASE SocketEmpty \/ CommandsEmpty \/ DeadlineAhead \/ HeartbeatSkip
  <2>1. UNCHANGED portVars /\ Held' = Held /\ pc \in LoopStages /\ pc' \in LoopStages
    BY <1>2 DEF SocketEmpty, CommandsEmpty, DeadlineAhead, HeartbeatSkip, Held, LoopStages
  <2>. QED BY <2>1, Stutters, Zenon
<1>3. CASE Device \/ Terminated
  <2>1. UNCHANGED portVars /\ Held' = Held /\ pc' = pc
    BY <1>3 DEF Device, DeviceExecute, DeviceRefuse, LoseCommand, DeviceEndsControl, Terminated, vars, workerVars, Held
  <2>. QED BY <2>1, Stutters, Zenon
<1>. QED BY <1>1, <1>2, <1>3

\* A deadline settles at most the request in flight.
LEMMA OverdueServes ==
  ASSUME IInv, Overdue
  PROVE  ServiceStep
<1>1. /\ pc \in LoopStages /\ pc' \in LoopStages
      /\ UNCHANGED <<client, owner, chan, rx_open, is_alive, should_die, queue>>
  BY DEF Overdue, LoopStages
<1>2. PICK t \in inflight :
        \/ /\ t.tries_left > 0
           /\ inflight' = {[t EXCEPT !.tries_left = @ - 1]}
           /\ UNCHANGED handle
        \/ /\ inflight' = {}
           /\ handle' = FailOp(t.op, "timeout")
  BY DEF Overdue
<1>3. CASE inflight' = {[t EXCEPT !.tries_left = @ - 1]} /\ UNCHANGED handle
  <2>1. t \in InflightSet /\ \A u \in inflight : u = t
    BY DEF IInv, TypeOK
  <2>2. [t EXCEPT !.tries_left = @ - 1].op = t.op
    BY <2>1 DEF InflightSet
  <2>3. \A u \in inflight' : u.op = t.op
    BY <1>3, <2>2, Zenon
  <2>4. Held' = Held
    BY <1>1, <1>3, <2>1, <2>2, <2>3, Zenon DEF Held
  <2>. QED BY <1>1, <1>3, <2>4, Stutters DEF portVars
<1>4. CASE inflight' = {} /\ handle' = FailOp(t.op, "timeout")
  BY <1>1, <1>4, HeldInFlight, FlightEnds, FailedOp
<1>. QED BY <1>2, <1>3, <1>4

\* A heartbeat is none of the service's business.
LEMMA HeartbeatServes ==
  ASSUME IInv, HeartbeatDue
  PROVE  ServiceStep
<1>1. /\ pc \in LoopStages /\ pc' \in LoopStages /\ UNCHANGED portVars /\ UNCHANGED inflight
  BY Zenon DEF HeartbeatDue, LoopStages
<1>2. /\ Len(queue) \in Nat /\ Len(queue') = Len(queue) + 1
      /\ \A i \in 1..Len(queue) + 1 : queue'[i] = IF i = 1 THEN NewOp(Heartbeat) ELSE queue[i - 1]
  <2>1. queue \in Seq(OpSet) /\ NewOp(Heartbeat) \in OpSet
    BY NewOpFacts DEF IInv, TypeOK, NewOp, OpSet, Senders
  <2>. QED BY <2>1, ConsFacts DEF HeartbeatDue
<1>3. NewOp(Heartbeat).req = Heartbeat
  BY Zenon DEF NewOp
<1>4. ASSUME NEW r \in Requests
      PROVE  (\E i \in 1..Len(queue) : queue[i].req = r) <=> (\E i \in 1..Len(queue') : queue'[i].req = r)
  <2>1. ASSUME NEW i \in 1..Len(queue), queue[i].req = r PROVE \E j \in 1..Len(queue') : queue'[j].req = r
    <3>1. i + 1 \in 1..Len(queue') /\ queue'[i + 1] = queue[i]
      BY <1>2
    <3>. QED BY <2>1, <3>1
  <2>2. ASSUME NEW i \in 1..Len(queue'), queue'[i].req = r PROVE \E j \in 1..Len(queue) : queue[j].req = r
    <3>1. i # 1
      BY <1>2, <1>3, <2>2, ConstantsAssumption
    <3>2. i - 1 \in 1..Len(queue) /\ queue'[i] = queue[i - 1]
      BY <1>2, <3>1
    <3>. QED BY <2>2, <3>2
  <2>. QED BY <2>1, <2>2, Zenon
<1>5. Held' = Held
  BY <1>1, <1>4 DEF Held
<1>. QED BY <1>1, <1>5, Stutters

\* drain_commands is the service's Take.
LEMMA CommandsServe ==
  ASSUME IInv, DrainCommands
  PROVE  ServiceStep
<1>1. /\ pc = "commands" /\ chan # <<>> /\ chan' = Tail(chan)
      /\ UNCHANGED <<client, owner, rx_open, is_alive, should_die, handle, inflight>>
  BY DEF DrainCommands
<1>2. CASE Head(chan) = Shutdown
  <2>1. pc' = "stopping" /\ Held' = Held
    BY <1>2 DEF DrainCommands, Held
  <2>2. Service!Take
    BY <1>1, <1>2, <2>1 DEF Service!Take, LoopStages
  <2>. QED BY <2>2 DEF ServiceStep, Service!Next, Service!Worker
<1>3. CASE Head(chan) # Shutdown
  <2>1. pc' = pc /\ queue' = Append(queue, NewOp(Head(chan)))
    BY <1>3 DEF DrainCommands
  <2>2. Head(chan) \in Requests
    BY <1>1, <1>3, TailFacts DEF IInv, TypeOK, PortTypeOK, Messages
  <2>3. queue \in Seq(OpSet) /\ NewOp(Head(chan)) \in OpSet
    BY <2>2 DEF IInv, TypeOK, NewOp, OpSet, Senders
  <2>4. /\ Len(queue) \in Nat /\ Len(queue') = Len(queue) + 1
        /\ \A i \in 1..Len(queue) + 1 : queue'[i] = IF i <= Len(queue) THEN queue[i] ELSE NewOp(Head(chan))
    BY <2>1, <2>3, AppendFacts
  <2>5. NewOp(Head(chan)).req = Head(chan)
    BY DEF NewOp
  <2>6. \A i \in 1..Len(queue) : i \in 1..Len(queue') /\ queue'[i] = queue[i]
    BY <2>4
  <2>7. Len(queue') \in 1..Len(queue') /\ queue'[Len(queue')].req = Head(chan)
    BY <2>4, <2>5
  <2>8. \A i \in 1..Len(queue') : queue'[i].req = Head(chan) \/ (i \in 1..Len(queue) /\ queue'[i] = queue[i])
    BY <2>4, <2>5
  <2>9. Held' = Held \cup {Head(chan)}
    BY <1>1, <2>2, <2>6, <2>7, <2>8, Zenon DEF Held
  <2>10. Service!Take
    BY <1>1, <1>3, <2>1, <2>9 DEF Service!Take, LoopStages
  <2>. QED BY <2>10 DEF ServiceStep, Service!Next, Service!Worker
<1>. QED BY <1>2, <1>3

\* Sending settles at most the request it was to send.
LEMMA PumpServes ==
  ASSUME IInv, Pump
  PROVE  ServiceStep
<1>1. /\ pc \in LoopStages /\ pc' \in LoopStages
      /\ UNCHANGED <<scenario, client, owner, chan, rx_open, is_alive, should_die, written>>
  BY DEF Pump, LoopStages
<1>2. CASE ~(inflight = {} /\ queue # <<>>)
  <2>1. UNCHANGED <<handle, queue, inflight>>
    BY <1>2 DEF Pump
  <2>. QED BY <1>1, <2>1, Stutters DEF portVars, Held
<1>3. CASE inflight = {} /\ queue # <<>>
  <2>. DEFINE op == Head(queue)
  <2>1. queue' = Tail(queue) /\ SendOp(op, Head(queued_payloads))
    BY <1>3 DEF Pump
  <2>2. /\ op \in OpSet /\ op = queue[1] /\ 1 \in 1..Len(queue)
        /\ Len(queue) \in Nat \ {0} /\ Len(queue') = Len(queue) - 1
        /\ \A i \in 1..Len(queue') : i + 1 \in 1..Len(queue) /\ queue'[i] = queue[i + 1]
    BY <1>3, <2>1, TailFacts DEF IInv, TypeOK
  <2>3. Head(queued_payloads) = PendingSend(KindOf(op)) /\ Unfinished(op)
    BY <1>3, <2>2, TailFacts DEF IInv, TypeOK, Paired, Progress
  <2>4. /\ \A u \in inflight' : u.op = op
        /\ \/ inflight' # {} /\ handle' = handle
           \/ inflight' = {} /\ \E o \in {"protocol", "io"} : handle' = FailOp(op, o)
    <3>1. CASE \E id, c, n : inflight' = {[id |-> id, op |-> op, sent |-> c, tries_left |-> n]} /\ UNCHANGED handle
      BY <3>1
    <3>2. CASE inflight' = {} /\ handle' = FailOp(op, "io")
      BY <3>2
    <3>. HIDE DEF op
    <3>. QED BY <2>1, <2>3, <3>1, <3>2, ZenonT(30) DEF SendOp
  <2>5. op.req \in Held \cup {Heartbeat}
    BY <2>2 DEF Held, OpSet, Senders
  <2>6. \A i \in 1..Len(queue) : i = 1 \/ (queue[i].req # op.req /\ \E j \in 1..Len(queue') : queue'[j] = queue[i])
    <3>. SUFFICES ASSUME NEW i \in 1..Len(queue), i # 1
                  PROVE  queue[i].req # op.req /\ \E j \in 1..Len(queue') : queue'[j] = queue[i]
      BY Zenon
    <3>1. queue[i].req # op.req
      BY <2>2 DEF IInv, Single
    <3>2. i - 1 \in 1..Len(queue') /\ queue'[i - 1] = queue[i]
      BY <2>2
    <3>. QED BY <3>1, <3>2
  <2>7. \A j \in 1..Len(queue') : queue'[j].req # op.req /\ \E i \in 1..Len(queue) : queue'[j] = queue[i]
    <3>. SUFFICES ASSUME NEW j \in 1..Len(queue')
                  PROVE  queue'[j].req # op.req /\ \E i \in 1..Len(queue) : queue'[j] = queue[i]
      OBVIOUS
    <3>1. j + 1 \in 1..Len(queue) /\ j + 1 # 1 /\ queue'[j] = queue[j + 1]
      BY <2>2
    <3>. QED BY <2>6, <3>1
  <2>. HIDE DEF op
  <2>8. CASE inflight' = {} /\ \E o \in {"protocol", "io"} : handle' = FailOp(op, o)
    <3>1. /\ Held = {r \in Requests : \E i \in 1..Len(queue) : queue[i].req = r}
          /\ Held' = {r \in Requests : \E i \in 1..Len(queue') : queue'[i].req = r}
      BY <1>3, <2>8, Zenon DEF Held
    <3>2. ASSUME NEW r \in Held, r # op.req PROVE r \in Held'
      <4>1. PICK i \in 1..Len(queue) : queue[i].req = r /\ r \in Requests
        BY <3>1, <3>2
      <4>2. i # 1
        BY <2>2, <3>2, <4>1
      <4>3. PICK j \in 1..Len(queue') : queue'[j] = queue[i]
        BY <2>6, <4>2
      <4>. QED BY <3>1, <4>1, <4>3, Zenon
    <3>3. ASSUME NEW r \in Held' PROVE r \in Held /\ r # op.req
      BY <2>7, <3>1, <3>3
    <3>4. Held' = Held \ {op.req}
      BY <3>2, <3>3
    <3>. QED BY <1>1, <2>5, <2>8, <3>4, FailedOp, Zenon
  <2>9. CASE inflight' # {} /\ handle' = handle
    <3>1. /\ Held = {r \in Requests : \E i \in 1..Len(queue) : queue[i].req = r}
          /\ Held' = {r \in Requests : r = op.req \/ \E i \in 1..Len(queue') : queue'[i].req = r}
      BY <1>3, <2>4, <2>9, Zenon DEF Held
    <3>2. ASSUME NEW r \in Held PROVE r \in Held'
      <4>1. PICK i \in 1..Len(queue) : queue[i].req = r /\ r \in Requests
        BY <3>1, <3>2
      <4>2. CASE i = 1
        BY <2>2, <3>1, <4>1, <4>2, Zenon
      <4>3. CASE i # 1
        <5>1. PICK j \in 1..Len(queue') : queue'[j] = queue[i]
          BY <2>6, <4>3
        <5>. QED BY <3>1, <4>1, <5>1, Zenon
      <4>. QED BY <4>2, <4>3
    <3>3. ASSUME NEW r \in Held' PROVE r \in Held
      BY <2>2, <2>7, <3>1, <3>3
    <3>4. Held' = Held
      BY <3>2, <3>3
    <3>. QED BY <1>1, <2>9, <3>4, Stutters, Zenon DEF portVars
  <2>. QED BY <2>4, <2>8, <2>9
<1>. QED BY <1>2, <1>3

\* The shutdown has the service's phases.
LEMMA TeardownServes ==
  ASSUME IInv, Teardown
  PROVE  ServiceStep
<1>1. Cause \in {"control_lost", "disconnected"}
  BY DEF Cause
<1>2. CASE ShutdownFail
  <2>1. Held' = {}
    BY <1>2 DEF ShutdownFail, Held
  <2>2. handle' = Service!Fulfill(handle, Held, Cause)
    BY <1>2 DEF ShutdownFail, Fulfill, Service!Fulfill, Unset, Service!Unset
  <2>3. Service!FailHeld
    BY <1>1, <1>2, <2>1, <2>2 DEF ShutdownFail, Service!FailHeld, LoopStages
  <2>. QED BY <2>3 DEF ServiceStep, Service!Next, Service!Worker
<1>3. CASE HasDied \/ DrainEnd \/ DropReceiver
  <2>1. Held' = Held
    BY <1>3, Zenon DEF HasDied, DrainEnd, DropReceiver, Held
  <2>2. Service!HasDied \/ Service!DrainEnd \/ Service!DropReceiver
    BY <1>3, <2>1 DEF HasDied, DrainEnd, DropReceiver, Service!HasDied, Service!DrainEnd, Service!DropReceiver,
                      LoopStages, portVars, Service!portVars
  <2>. QED BY <2>2, Zenon DEF ServiceStep, Service!Next, Service!Worker
<1>4. CASE DrainRest
  <2>1. Held' = Held /\ pc' = pc /\ pc = "draining"
    BY <1>4 DEF DrainRest, workerVars, Held
  <2>2. handle' = Service!Fulfill(handle, {Head(chan)}, Cause)
    BY <1>4 DEF DrainRest, Fulfill, Service!Fulfill, Unset, Service!Unset
  <2>3. Service!Drain
    BY <1>1, <1>4, <2>1, <2>2 DEF DrainRest, Service!Drain, LoopStages
  <2>. QED BY <2>3, Zenon DEF ServiceStep, Service!Next, Service!Worker
<1>. QED BY <1>2, <1>3, <1>4 DEF Teardown

\* The control worker keeps the promise of the abstract service, for every
\* scenario: the loop of Runner::run with its retries, chunks and heartbeats, and
\* Runner::shutdown, do nothing a client could tell from RequestService.
THEOREM WorkerImplementsService == Spec => ImplementsService
<1>1. IInv /\ [Next]_vars => ServiceStep
  <2>. SUFFICES ASSUME IInv, [Next]_vars PROVE ServiceStep
    OBVIOUS
  <2>1. CASE UNCHANGED vars
    <3>1. UNCHANGED portVars /\ Held' = Held /\ pc' = pc
      BY <2>1 DEF vars, workerVars, Held
    <3>. QED BY <3>1, Stutters, Zenon
  <2>2. CASE Next
    BY <2>2, CallersServe, QuietServes, SocketServes, OverdueServes, HeartbeatServes, CommandsServe, PumpServes,
       TeardownServes, Zenon DEF Next, Loop
  <2>. QED BY <2>1, <2>2
<1>. QED BY <1>1, ServiceInit, Invariance, PTL DEF Spec, ImplementsService, Service!Spec, ServiceStep

\* What is proved of the abstract service holds of the worker.
Promise == INSTANCE RequestServiceProofs WITH
  held <- Held,
  phase <- IF pc \in LoopStages THEN "running" ELSE pc

\* No handle of a submission that returned is left without someone who will
\* settle it: NoOrphan of the worker itself, by way of the abstract service
\* (ControlPort::send against Runner::shutdown).
THEOREM NobodyIsOrphaned == Spec => []NoOrphan
<1>1. Service!Init => Promise!Init
  BY DEF Service!Init, Promise!Init, Service!PortInit, Promise!PortInit, Service!Unset, Promise!Unset
<1>2. [Service!Next]_(Service!vars) => [Promise!Next]_(Promise!vars)
  <2>1. \A r \in Requests : Service!Submit(r) => Promise!Submit(r)
    BY DEF Service!Submit, Promise!Submit, Service!SendCheck, Promise!SendCheck, Service!SendPush,
         Promise!SendPush, Service!SendRecheck, Promise!SendRecheck, Service!Fulfill, Promise!Fulfill,
         Service!Unset, Promise!Unset
  <2>2. Service!Disconnect => Promise!Disconnect
    BY DEF Service!Disconnect, Promise!Disconnect, Service!DisconnectCheck, Promise!DisconnectCheck,
         Service!DisconnectPush, Promise!DisconnectPush, Service!RequestStop, Promise!RequestStop
  <2>3. \A e : Service!Join(e) => Promise!Join(e)
    BY Zenon DEF Service!Join, Promise!Join
  <2>4. Service!Worker => Promise!Worker
    BY Zenon DEF Service!Worker, Promise!Worker, Service!Take, Promise!Take, Service!Answer, Promise!Answer,
         Service!Stop, Promise!Stop, Service!FailHeld, Promise!FailHeld, Service!HasDied,
         Promise!HasDied, Service!Drain, Promise!Drain, Service!DrainEnd, Promise!DrainEnd,
         Service!DropReceiver, Promise!DropReceiver, Service!Fulfill, Promise!Fulfill, Service!Unset,
         Promise!Unset, Service!Outcomes, Promise!Outcomes, Service!Failures, Promise!Failures,
         Service!portVars, Promise!portVars
  <2>5. Service!Terminated => Promise!Terminated
    BY DEF Service!Terminated, Promise!Terminated, Service!vars, Promise!vars, Service!portVars,
         Promise!portVars
  <2>6. (UNCHANGED Service!vars) => UNCHANGED Promise!vars
    BY DEF Service!vars, Promise!vars, Service!portVars, Promise!portVars
  <2>7. Service!Next => Promise!Next
    BY <2>1, <2>2, <2>3, <2>4, <2>5, Zenon DEF Service!Next, Promise!Next
  <2>. QED BY <2>6, <2>7, Zenon
<1>3. Promise!Spec => []Promise!NoOrphan
  BY Promise!NobodyIsOrphaned, ShutdownAssumption, PTL DEF Promise!NobodyIsOrphaned
<1>4. Promise!NoOrphan => NoOrphan
  BY DEF NoOrphan, Service!NoOrphan, Promise!NoOrphan, Promise!InChan, Service!InChan, Promise!Unset, Service!Unset
<1>. QED BY <1>1, <1>2, <1>3, <1>4, WorkerImplementsService, PTL DEF ImplementsService, Service!Spec, Promise!Spec

-----------------------------------------------------------------------------
\* The place of a request: 0 in flight, then the queue, then the channel.
At(r, p) ==
  \/ p = 0 /\ \E t \in inflight : t.op.req = r
  \/ p \in 1..Len(queue) /\ queue[p].req = r
  \/ p - Len(queue) \in 1..Len(chan) /\ chan[p - Len(queue)] = r

Before(r, s) == \E p, q \in Nat : p < q /\ At(r, p) /\ At(s, q)

\* The line is the queue and the channel behind it.
LEMMA LineFacts ==
  ASSUME queue \in Seq(OpSet), chan \in Seq(Messages)
  PROVE  /\ Len(Line) = Len(queue) + Len(chan) /\ Len(queue) \in Nat /\ Len(chan) \in Nat
         /\ \A i \in 1..Len(Line) : Line[i] = IF i <= Len(queue) THEN queue[i].req ELSE chan[i - Len(queue)]
<1>. DEFINE f == [i \in 1..Len(queue) |-> queue[i].req]
            S == Messages \cup Senders
<1>1. Len(queue) \in Nat /\ Len(chan) \in Nat /\ \A i \in 1..Len(queue) : queue[i] \in OpSet
  OBVIOUS
<1>2. f \in Seq(S) /\ Len(f) = Len(queue)
  <2>1. \A i \in 1..Len(queue) : queue[i].req \in S
    BY <1>1 DEF OpSet
  <2>. QED BY <1>1, <2>1
<1>3. chan \in Seq(S)
  OBVIOUS
<1>4. \A i \in 1..Len(queue) : f[i] = queue[i].req
  OBVIOUS
<1>5. Line = f \o chan
  BY Zenon DEF Line
<1>. HIDE DEF f, S
<1>6. PICK g \in Seq(S) : Joined(g, f, chan)
  <2>1. f \in Seq(S) /\ chan \in Seq(S)
    BY <1>2, <1>3
  <2>. QED BY <2>1, ConcatFacts, ZenonT(30)
<1>7. Line = g
  BY <1>5, <1>6, ZenonT(30) DEF Joined
<1>8. \A i \in 1..Len(g) : g[i] = IF i <= Len(queue) THEN queue[i].req ELSE chan[i - Len(queue)]
  BY <1>1, <1>2, <1>4, <1>6 DEF Joined
<1>. QED BY <1>1, <1>2, <1>6, <1>7, <1>8, ZenonT(30) DEF Joined

\* Ahead, by places.
LEMMA AheadIsBefore ==
  ASSUME queue \in Seq(OpSet), chan \in Seq(Messages), NEW r, NEW s
  PROVE  Ahead(r, s) <=> Before(r, s)
<1>. DEFINE L == Line
<1>1. /\ Len(L) = Len(queue) + Len(chan) /\ Len(queue) \in Nat /\ Len(chan) \in Nat
      /\ \A i \in 1..Len(L) : L[i] = IF i <= Len(queue) THEN queue[i].req ELSE chan[i - Len(queue)]
  BY LineFacts, Zenon
<1>2. Ahead(r, s) <=> \/ (\E t \in inflight : t.op.req = r) /\ (\E j \in 1..Len(L) : L[j] = s)
                      \/ \E i, j \in 1..Len(L) : i < j /\ L[i] = r /\ L[j] = s
  BY ZenonT(30) DEF Ahead
<1>. HIDE DEF L
<1>3. ASSUME NEW x, NEW p \in Nat
      PROVE  At(x, p) <=> (p = 0 /\ \E t \in inflight : t.op.req = x) \/ (p \in 1..Len(L) /\ L[p] = x)
  BY <1>1 DEF At
<1>4. ASSUME Ahead(r, s) PROVE Before(r, s)
  <2>1. CASE (\E t \in inflight : t.op.req = r) /\ (\E j \in 1..Len(L) : L[j] = s)
    <3>1. PICK j \in 1..Len(L) : L[j] = s
      BY <2>1, Zenon
    <3>2. 0 \in Nat /\ j \in Nat /\ 0 < j /\ At(r, 0) /\ At(s, j)
      BY <1>1, <1>3, <2>1, <3>1
    <3>. QED BY <3>2 DEF Before
  <2>2. CASE \E i, j \in 1..Len(L) : i < j /\ L[i] = r /\ L[j] = s
    <3>1. PICK i, j \in 1..Len(L) : i < j /\ L[i] = r /\ L[j] = s
      BY <2>2, Zenon
    <3>2. i \in Nat /\ j \in Nat /\ At(r, i) /\ At(s, j)
      BY <1>1, <1>3, <3>1
    <3>. QED BY <3>1, <3>2 DEF Before
  <2>. QED BY <1>2, <1>4, <2>1, <2>2, Zenon
<1>5. ASSUME Before(r, s) PROVE Ahead(r, s)
  <2>1. PICK p, q \in Nat : p < q /\ At(r, p) /\ At(s, q)
    BY <1>5, Zenon DEF Before
  <2>2. q \in 1..Len(L) /\ L[q] = s
    BY <1>3, <2>1
  <2>3. (p = 0 /\ \E t \in inflight : t.op.req = r) \/ (p \in 1..Len(L) /\ L[p] = r)
    BY <1>3, <2>1
  <2>. QED BY <1>2, <2>1, <2>2, <2>3, Zenon
<1>. QED BY <1>4, <1>5

PlacesTellOrder ==
  queue \in Seq(OpSet) /\ chan \in Seq(Messages) => \A r, s \in Requests : Ahead(r, s) <=> Before(r, s)

\* The order of two requests is that of their places.
LEMMA OrderByPlace == PlacesTellOrder
BY AheadIsBefore, Zenon DEF PlacesTellOrder

\* No two places for one request.
LEMMA OnePlace ==
  ASSUME IInv, NEW r \in Requests, NEW p \in Nat, NEW q \in Nat, At(r, p), At(r, q)
  PROVE  p = q
<1>1. Len(queue) \in Nat /\ Len(chan) \in Nat /\ r # Shutdown
  BY ShutdownAssumption DEF IInv, TypeOK, PortTypeOK
<1>2. ASSUME NEW i \in 1..Len(chan), chan[i] = r
      PROVE  /\ \A t \in inflight : t.op.req # r
             /\ \A j \in 1..Len(queue) : queue[j].req # r
             /\ \A j \in 1..Len(chan) : chan[j] = r => i = j
  BY <1>1, <1>2, Zenon DEF IInv, Single, Held
<1>3. ASSUME NEW i \in 1..Len(queue), queue[i].req = r
      PROVE  /\ \A t \in inflight : t.op.req # r
             /\ \A j \in 1..Len(queue) : queue[j].req = r => i = j
  BY <1>3, Zenon DEF IInv, Single
<1>4. CASE p = 0 /\ \E t \in inflight : t.op.req = r
  BY <1>1, <1>2, <1>3, <1>4, Zenon DEF At
<1>5. CASE p \in 1..Len(queue) /\ queue[p].req = r
  BY <1>1, <1>2, <1>3, <1>5, Zenon DEF At
<1>6. CASE p - Len(queue) \in 1..Len(chan) /\ chan[p - Len(queue)] = r
  <2>1. q - Len(queue) \in 1..Len(chan) /\ chan[q - Len(queue)] = r
    BY <1>1, <1>2, <1>6, Zenon DEF At
  <2>2. p - Len(queue) = q - Len(queue)
    BY <1>2, <1>6, <2>1, Zenon
  <2>. QED BY <1>1, <2>2
<1>. QED BY <1>4, <1>5, <1>6, Zenon DEF At

\* The order of two requests that are waiting was there before the step.
KeepsOrder == \A r, s \in Requests : Before(r, s)' => Before(r, s)

\* It is enough to say where each place was before the step.
LEMMA Moved ==
  ASSUME NEW f \in [Nat -> Nat],
         \A r \in Requests, p \in Nat : At(r, p)' => At(r, f[p]),
         \A r, s \in Requests, p, q \in Nat : p < q /\ At(r, p)' /\ At(s, q)' => f[p] < f[q]
  PROVE  KeepsOrder
<1>. SUFFICES ASSUME NEW r \in Requests, NEW s \in Requests, Before(r, s)' PROVE Before(r, s)
  BY DEF KeepsOrder
<1>1. PICK p, q \in Nat : p < q /\ At(r, p)' /\ At(s, q)'
  BY DEF Before
<1>2. f[p] \in Nat /\ f[q] \in Nat /\ f[p] < f[q] /\ At(r, f[p]) /\ At(s, f[q])
  BY <1>1, Zenon
<1>. QED BY <1>2, Zenon DEF Before

\* The transaction in flight goes on or ends.
LEMMA SameLine ==
  ASSUME UNCHANGED <<queue, chan>>, \A u \in inflight' : \E t \in inflight : t.op.req = u.op.req
  PROVE  KeepsOrder
<1>. DEFINE f == [p \in Nat |-> p]
<1>1. f \in [Nat -> Nat] /\ \A p \in Nat : f[p] = p
  BY Zenon
<1>. HIDE DEF f
<1>2. \A r \in Requests, p \in Nat : At(r, p)' => At(r, f[p])
  BY <1>1, Zenon DEF At
<1>. QED BY <1>1, <1>2, Moved, Zenon

\* The first message of the channel leaves the line.
LEMMA ChannelHeadLeaves ==
  ASSUME IInv, chan # <<>>, chan' = Tail(chan), UNCHANGED <<queue, inflight>>
  PROVE  KeepsOrder
<1>1. /\ Len(queue) \in Nat /\ Len(chan) \in Nat \ {0} /\ Len(chan') = Len(chan) - 1
      /\ \A i \in 1..Len(chan') : i + 1 \in 1..Len(chan) /\ chan'[i] = chan[i + 1]
  BY TailFacts DEF IInv, TypeOK, PortTypeOK
<1>. DEFINE f == [p \in Nat |-> IF p <= Len(queue) THEN p ELSE p + 1]
<1>2. f \in [Nat -> Nat] /\ \A p \in Nat : f[p] = IF p <= Len(queue) THEN p ELSE p + 1
  BY <1>1
<1>. HIDE DEF f
<1>3. ASSUME NEW r \in Requests, NEW p \in Nat, At(r, p)'
      PROVE  At(r, f[p])
  <2>1. CASE p <= Len(queue)
    <3>1. f[p] = p
      BY <1>2, <2>1, ZenonT(30)
    <3>2. At(r, p)
      BY <1>1, <1>3, <2>1 DEF At
    <3>. QED BY <3>1, <3>2, Zenon
  <2>2. CASE p > Len(queue)
    <3>1. p - Len(queue) \in 1..Len(chan') /\ chan'[p - Len(queue)] = r
      BY <1>1, <1>3, <2>2 DEF At
    <3>2. p - Len(queue) + 1 \in 1..Len(chan) /\ chan[p - Len(queue) + 1] = r
      BY <1>1, <3>1, Zenon
    <3>3. f[p] - Len(queue) = p - Len(queue) + 1
      BY <1>1, <1>2, <2>2
    <3>. QED BY <3>2, <3>3, Zenon DEF At
  <2>. QED BY <1>1, <2>1, <2>2
<1>4. ASSUME NEW p \in Nat, NEW q \in Nat, p < q PROVE f[p] < f[q]
  <2>1. f[q] = q \/ f[q] = q + 1
    BY <1>2
  <2>2. f[p] = p \/ (f[p] = p + 1 /\ f[q] = q + 1)
    BY <1>1, <1>2, <1>4
  <2>. QED BY <1>4, <2>1, <2>2
<1>. QED BY <1>2, <1>3, <1>4, Moved, Zenon

\* drain_commands moves a request from one end to the other of the border.
LEMMA CommandsKeepOrder ==
  ASSUME IInv, DrainCommands
  PROVE  KeepsOrder
<1>1. pc = "commands" /\ chan # <<>> /\ chan' = Tail(chan) /\ UNCHANGED inflight
  BY DEF DrainCommands
<1>2. CASE Head(chan) = Shutdown
  <2>1. UNCHANGED queue
    BY <1>2 DEF DrainCommands
  <2>. QED BY <1>1, <2>1, ChannelHeadLeaves, Zenon
<1>3. CASE Head(chan) # Shutdown
  <2>1. queue' = Append(queue, NewOp(Head(chan)))
    BY <1>3, Zenon DEF DrainCommands
  <2>2. /\ Len(chan) \in Nat \ {0} /\ Len(chan') = Len(chan) - 1 /\ Head(chan) = chan[1]
        /\ \A i \in 1..Len(chan') : i + 1 \in 1..Len(chan) /\ chan'[i] = chan[i + 1]
    BY <1>1, TailFacts, Zenon DEF IInv, TypeOK, PortTypeOK
  <2>3. Head(chan) \in Requests
    BY <1>1, <1>3, TailFacts DEF IInv, TypeOK, PortTypeOK, Messages
  <2>4. queue \in Seq(OpSet) /\ NewOp(Head(chan)) \in OpSet
    BY <2>3 DEF IInv, TypeOK, NewOp, OpSet, Senders
  <2>5. /\ Len(queue) \in Nat /\ Len(queue') = Len(queue) + 1
        /\ \A i \in 1..Len(queue) + 1 : queue'[i] = IF i <= Len(queue) THEN queue[i] ELSE NewOp(Head(chan))
    BY <2>1, <2>4, AppendFacts, Zenon
  <2>6. NewOp(Head(chan)).req = chan[1]
    BY <2>2 DEF NewOp
  <2>. DEFINE f == [p \in Nat |-> p]
  <2>7. f \in [Nat -> Nat] /\ \A p \in Nat : f[p] = p
    BY Zenon
  <2>. HIDE DEF f
  <2>8. ASSUME NEW r \in Requests, NEW p \in Nat, At(r, p)'
        PROVE  At(r, p)
    <3>1. CASE p = 0 /\ \E t \in inflight' : t.op.req = r
      BY <1>1, <3>1, Zenon DEF At
    <3>2. CASE p \in 1..Len(queue') /\ queue'[p].req = r
      <4>1. CASE p <= Len(queue)
        BY <2>5, <3>2, <4>1 DEF At
      <4>2. CASE p > Len(queue)
        <5>1. p - Len(queue) = 1 /\ chan[1] = r
          BY <2>5, <2>6, <3>2, <4>2
        <5>2. p - Len(queue) \in 1..Len(chan) /\ chan[p - Len(queue)] = r
          BY <2>2, <5>1
        <5>. QED BY <5>2 DEF At
      <4>. QED BY <2>5, <4>1, <4>2
    <3>3. CASE p - Len(queue') \in 1..Len(chan') /\ chan'[p - Len(queue')] = r
      <4>1. p - Len(queue') + 1 \in 1..Len(chan) /\ chan[p - Len(queue') + 1] = r
        BY <2>2, <3>3, Zenon
      <4>2. p - Len(queue') + 1 = p - Len(queue)
        BY <2>5
      <4>. QED BY <4>1, <4>2, Zenon DEF At
    <3>. QED BY <2>8, <3>1, <3>2, <3>3, Zenon DEF At
  <2>. QED BY <2>7, <2>8, Moved, Zenon
<1>. QED BY <1>2, <1>3

\* A heartbeat at the front moves the others one place back.
LEMMA HeartbeatKeepsOrder ==
  ASSUME IInv, HeartbeatDue
  PROVE  KeepsOrder
<1>1. queue' = <<NewOp(Heartbeat)>> \o queue /\ UNCHANGED <<chan, inflight>>
  BY DEF HeartbeatDue, portVars
<1>2. /\ Len(queue) \in Nat /\ Len(queue') = Len(queue) + 1
      /\ \A i \in 1..Len(queue) + 1 : queue'[i] = IF i = 1 THEN NewOp(Heartbeat) ELSE queue[i - 1]
  <2>1. queue \in Seq(OpSet) /\ NewOp(Heartbeat) \in OpSet
    BY NewOpFacts DEF IInv, TypeOK, NewOp, OpSet, Senders
  <2>. QED BY <1>1, <2>1, ConsFacts
<1>3. NewOp(Heartbeat).req = Heartbeat /\ Heartbeat \notin Requests
  BY ConstantsAssumption DEF NewOp
<1>. DEFINE f == [p \in Nat |-> IF p = 0 THEN 0 ELSE p - 1]
<1>4. f \in [Nat -> Nat] /\ \A p \in Nat : f[p] = IF p = 0 THEN 0 ELSE p - 1
  OBVIOUS
<1>. HIDE DEF f
<1>5. ASSUME NEW r \in Requests, NEW p \in Nat, At(r, p)'
      PROVE  p # 1 /\ At(r, f[p])
  <2>1. CASE p = 0 /\ \E t \in inflight' : t.op.req = r
    BY <1>1, <1>4, <2>1 DEF At
  <2>2. CASE p \in 1..Len(queue') /\ queue'[p].req = r
    <3>1. p # 1
      BY <1>2, <1>3, <2>2, Zenon
    <3>2. f[p] = p - 1 /\ p - 1 \in 1..Len(queue) /\ queue[p - 1].req = r
      BY <1>2, <1>4, <2>2, <3>1
    <3>. QED BY <3>1, <3>2, Zenon DEF At
  <2>3. CASE p - Len(queue') \in 1..Len(chan') /\ chan'[p - Len(queue')] = r
    <3>0. p - Len(queue') >= 1
      BY <2>3
    <3>1. p # 0 /\ p # 1 /\ f[p] - Len(queue) = p - Len(queue')
      BY <1>2, <1>4, <3>0
    <3>. QED BY <1>1, <2>3, <3>1, Zenon DEF At
  <2>. QED BY <1>5, <2>1, <2>2, <2>3, Zenon DEF At
<1>6. \A p, q \in Nat : p < q /\ p # 1 /\ q # 1 => f[p] < f[q]
  BY <1>4
<1>. QED BY <1>4, <1>5, <1>6, Moved, Zenon

\* pump takes the front of the queue.
LEMMA PumpKeepsOrder ==
  ASSUME IInv, Pump
  PROVE  KeepsOrder
<1>1. UNCHANGED chan
  BY DEF Pump
<1>2. CASE ~(inflight = {} /\ queue # <<>>)
  <2>1. UNCHANGED <<queue, inflight>>
    BY <1>2, Zenon DEF Pump
  <2>. QED BY <1>1, <2>1, SameLine, Zenon
<1>3. CASE inflight = {} /\ queue # <<>>
  <2>1. queue' = Tail(queue) /\ SendOp(Head(queue), Head(queued_payloads))
    BY <1>3, Zenon DEF Pump
  <2>2. \A u \in inflight' : u.op = Head(queue)
    BY <2>1 DEF SendOp
  <2>3. /\ Head(queue) = queue[1] /\ Len(queue) \in Nat \ {0} /\ Len(queue') = Len(queue) - 1
        /\ \A i \in 1..Len(queue') : i + 1 \in 1..Len(queue) /\ queue'[i] = queue[i + 1]
    BY <1>3, <2>1, TailFacts, Zenon DEF IInv, TypeOK
  <2>. DEFINE f == [p \in Nat |-> p + 1]
  <2>4. f \in [Nat -> Nat] /\ \A p \in Nat : f[p] = p + 1
    OBVIOUS
  <2>. HIDE DEF f
  <2>5. ASSUME NEW r \in Requests, NEW p \in Nat, At(r, p)'
        PROVE  At(r, p + 1)
    <3>1. CASE p = 0 /\ \E t \in inflight' : t.op.req = r
      <4>1. 1 \in 1..Len(queue) /\ queue[1].req = r /\ p + 1 = 1
        BY <2>2, <2>3, <3>1
      <4>. QED BY <4>1, Zenon DEF At
    <3>2. CASE p \in 1..Len(queue') /\ queue'[p].req = r
      BY <2>3, <3>2, Zenon DEF At
    <3>3. CASE p - Len(queue') \in 1..Len(chan') /\ chan'[p - Len(queue')] = r
      <4>1. p + 1 - Len(queue) = p - Len(queue')
        BY <2>3
      <4>. QED BY <1>1, <3>3, <4>1 DEF At
    <3>. QED BY <2>5, <3>1, <3>2, <3>3, Zenon DEF At
  <2>. QED BY <2>4, <2>5, Moved
<1>. QED BY <1>2, <1>3

\* A transfer steps aside: from its place in flight to the one behind the
\* heartbeat, in front of all others.
LEMMA AsideKeepsOrder ==
  ASSUME IInv, NEW t \in inflight, NEW next \in OpSet, next.req = t.op.req,
         queue # <<>>, Head(queue).req = Heartbeat, queue' = <<Head(queue), next>> \o Tail(queue),
         inflight' = {}, UNCHANGED chan
  PROVE  KeepsOrder
<1>1. Len(queue) \in Nat \ {0} /\ Head(queue) = queue[1] /\ Heartbeat \notin Requests
  BY TailFacts, ConstantsAssumption, Zenon DEF IInv, TypeOK
<1>2. /\ Len(queue') = Len(queue) + 1
      /\ \A i \in 1..Len(queue') : queue'[i] = IF i = 1 THEN queue[1] ELSE IF i = 2 THEN next ELSE queue[i - 1]
  BY SecondFacts DEF IInv, TypeOK
<1>. DEFINE f == [p \in Nat |-> IF p <= 2 THEN 0 ELSE p - 1]
<1>3. f \in [Nat -> Nat] /\ \A p \in Nat : f[p] = IF p <= 2 THEN 0 ELSE p - 1
  OBVIOUS
<1>. HIDE DEF f
<1>4. ASSUME NEW r \in Requests, NEW p \in Nat, At(r, p)'
      PROVE  p > 1 /\ At(r, f[p])
  <2>1. CASE p \in 1..Len(queue') /\ queue'[p].req = r
    <3>1. p # 1
      BY <1>1, <1>2, <2>1, Zenon
    <3>2. CASE p = 2
      BY <1>2, <1>3, <2>1, <3>2 DEF At
    <3>3. CASE p > 2
      <4>1. f[p] = p - 1 /\ p - 1 \in 1..Len(queue) /\ queue[p - 1].req = r
        BY <1>1, <1>2, <1>3, <2>1, <3>3
      <4>. QED BY <3>3, <4>1 DEF At
    <3>. QED BY <2>1, <3>1, <3>2, <3>3
  <2>2. CASE p - Len(queue') \in 1..Len(chan') /\ chan'[p - Len(queue')] = r
    <3>0. p - Len(queue') >= 1
      BY <2>2
    <3>1. p > 2 /\ f[p] = p - 1
      BY <1>1, <1>2, <1>3, <3>0
    <3>2. f[p] - Len(queue) = p - Len(queue')
      BY <1>1, <1>2, <3>1
    <3>. QED BY <2>2, <3>1, <3>2 DEF At
  <2>. QED BY <1>4, <2>1, <2>2, Zenon DEF At
<1>5. ASSUME NEW p \in Nat, NEW q \in Nat, p < q, p > 1 PROVE f[p] < f[q]
  <2>1. f[q] = q - 1 /\ (f[p] = 0 \/ f[p] = p - 1)
    BY <1>3, <1>5
  <2>. QED BY <1>5, <2>1
<1>. QED BY <1>3, <1>4, <1>5, Moved, ZenonT(30)

\* A datagram does not let a request overtake another, not even when a transfer
\* goes back to the queue for its next chunk.
LEMMA SocketKeepsOrder ==
  ASSUME IInv, DrainSocket
  PROVE  KeepsOrder
<1>1. UNCHANGED chan
  BY DEF DrainSocket
<1>2. PICK a \in answered, how \in {"full"} \cup OddAnswers : OnDatagram(a, how)
  BY DEF DrainSocket
<1>3. PICK t \in inflight : /\ t.id = a.id
                            /\ IF t.op.req = Heartbeat THEN AckHeartbeat(a, how) ELSE AckRequest(t.op, a, how)
  BY <1>2 DEF OnDatagram
<1>4. CASE inflight' = {} /\ UNCHANGED queue
  BY <1>1, <1>4, SameLine, Zenon
<1>5. ASSUME NEW next \in OpSet, next.req = t.op.req, ContinueOp(next)
      PROVE  KeepsOrder
  <2>1. CASE queue # <<>> /\ Head(queue).req = Heartbeat
    <3>1. queue' = <<Head(queue), next>> \o Tail(queue) /\ inflight' = {}
      BY <1>5, <2>1, Zenon DEF ContinueOp
    <3>. QED BY <1>1, <1>5, <2>1, <3>1, AsideKeepsOrder, Zenon
  <2>2. CASE ~(queue # <<>> /\ Head(queue).req = Heartbeat)
    <3>1. SendOp(next, PendingSend(KindOf(next))) /\ UNCHANGED queue
      BY <1>5, <2>2, Zenon DEF ContinueOp
    <3>2. \A u \in inflight' : u.op = next
      BY <3>1 DEF SendOp
    <3>3. \A u \in inflight' : u.op.req = t.op.req
      BY <1>5, <3>2, Zenon
    <3>. QED BY <1>1, <3>1, <3>3, SameLine, Zenon
  <2>. QED BY <2>1, <2>2, Zenon
<1>6. ASSUME NEW n \in Nat, AckUnits(t.op, a, n)
      PROVE  KeepsOrder
  <2>. DEFINE got == [i \in 1..n |-> <<a.req, a.from + i - 1>>]
              next == [t.op EXCEPT !.done = @ + n, !.acc = IF Kind[t.op.req] \in WriteKinds THEN @ ELSE @ \o got]
  <2>1. \/ inflight' = {} /\ UNCHANGED queue
        \/ ContinueOp(next)
    BY <1>6, ZenonT(30) DEF AckUnits
  <2>2. t.op \in OpSet /\ a \in AnswerSet
    BY DEF IInv, TypeOK, InflightSet
  <2>3. got \in Seq(UnitSet)
    <3>1. \A i \in 1..n : <<a.req, a.from + i - 1>> \in UnitSet
      BY <2>2 DEF AnswerSet, UnitSet
    <3>. QED BY <3>1
  <2>4. PICK l \in Seq(UnitSet) : l = IF Kind[t.op.req] \in WriteKinds THEN t.op.acc ELSE t.op.acc \o got
    <3>1. t.op.acc \in Seq(UnitSet)
      BY <2>2 DEF OpSet
    <3>. HIDE DEF got
    <3>2. t.op.acc \o got \in Seq(UnitSet)
      BY <2>3, <3>1, ConcatFacts, ZenonT(30) DEF Joined
    <3>. QED BY <3>1, <3>2, ZenonT(30)
  <2>5. next = [t.op EXCEPT !.done = t.op.done + n, !.acc = l]
    <3>. HIDE DEF got
    <3>. QED BY <2>2, <2>4 DEF OpSet
  <2>6. \A d \in Nat, s \in Seq(UnitSet) :
          [t.op EXCEPT !.done = d, !.acc = s] \in OpSet /\ [t.op EXCEPT !.done = d, !.acc = s].req = t.op.req
    BY <2>2, ZenonT(30) DEF OpSet
  <2>7. t.op.done + n \in Nat
    BY <2>2 DEF OpSet
  <2>. HIDE DEF next
  <2>8. next \in OpSet /\ next.req = t.op.req
    BY <2>5, <2>6, <2>7, ZenonT(30)
  <2>. QED BY <1>4, <1>5, <2>1, <2>8, Zenon
<1>7. CASE t.op.req = Heartbeat
  BY <1>3, <1>4, <1>7, Zenon DEF AckHeartbeat
<1>8. CASE t.op.req # Heartbeat
  <2>1. AckRequest(t.op, a, how)
    BY <1>3, <1>8, Zenon
  <2>2. CASE \E o : AckFails(t.op, o)
    BY <1>4, <2>2, Zenon DEF AckFails
  <2>3. Chunk(t.op) \in Nat \ {0}
    BY ChunkFacts DEF IInv, TypeOK, InflightSet, Progress
  <2>4. \A n \in 1..(Units[t.op.req] - t.op.done) : n \in Nat
    OBVIOUS
  <2>. QED BY <1>6, <2>1, <2>2, <2>3, <2>4, Zenon DEF AckRequest
<1>. QED BY <1>7, <1>8

\* Neither does a deadline.
LEMMA OverdueKeepsOrder ==
  ASSUME IInv, Overdue
  PROVE  KeepsOrder
<1>1. UNCHANGED <<queue, chan>>
  BY DEF Overdue
<1>2. PICK t \in inflight : inflight' = {[t EXCEPT !.tries_left = @ - 1]} \/ inflight' = {}
  BY DEF Overdue
<1>3. t \in InflightSet
  BY DEF IInv, TypeOK
<1>4. [t EXCEPT !.tries_left = @ - 1].op = t.op
  BY <1>3 DEF InflightSet
<1>5. \A u \in inflight' : u.op.req = t.op.req
  BY <1>2, <1>4, Zenon
<1>. QED BY <1>1, <1>5, SameLine

\* Only what is in the channel is left.
LEMMA ShutdownKeepsOrder ==
  ASSUME IInv, ShutdownFail
  PROVE  KeepsOrder
<1>1. queue' = <<>> /\ inflight' = {} /\ UNCHANGED chan
  BY Zenon DEF ShutdownFail
<1>2. Len(queue) \in Nat /\ Len(queue') = 0 /\ Len(chan) \in Nat
  BY <1>1 DEF IInv, TypeOK, PortTypeOK
<1>. DEFINE f == [p \in Nat |-> p + Len(queue)]
<1>3. f \in [Nat -> Nat] /\ \A p \in Nat : f[p] = p + Len(queue)
  BY <1>2
<1>. HIDE DEF f
<1>4. ASSUME NEW r \in Requests, NEW p \in Nat, At(r, p)'
      PROVE  At(r, f[p])
  <2>1. p \in 1..Len(chan) /\ chan[p] = r
    BY <1>1, <1>2, <1>4 DEF At
  <2>2. f[p] - Len(queue) = p
    BY <1>2, <1>3
  <2>. QED BY <2>1, <2>2, Zenon DEF At
<1>5. \A p, q \in Nat : p < q => f[p] < f[q]
  BY <1>2, <1>3
<1>. QED BY <1>3, <1>4, <1>5, Moved, ZenonT(30)

\* A message that is pushed is behind all others.
LEMMA PushOrder ==
  ASSUME IInv, NEW m \in Messages, chan' = Append(chan, m), UNCHANGED <<queue, inflight>>,
         NEW r \in Requests, NEW s \in Requests, Before(r, s)'
  PROVE  Before(r, s) \/ s = m
<1>1. /\ Len(queue) \in Nat /\ Len(chan) \in Nat /\ Len(chan') = Len(chan) + 1
      /\ \A i \in 1..Len(chan) + 1 : chan'[i] = IF i <= Len(chan) THEN chan[i] ELSE m
  BY AppendFacts DEF IInv, TypeOK, PortTypeOK
<1>2. PICK p, q \in Nat : p < q /\ At(r, p)' /\ At(s, q)'
  BY Zenon DEF Before
<1>3. ASSUME NEW x \in Requests, NEW k \in Nat, At(x, k)'
      PROVE  At(x, k) \/ (k = Len(queue) + Len(chan) + 1 /\ x = m)
  <2>1. CASE k - Len(queue) \in 1..Len(chan') /\ chan'[k - Len(queue)] = x
    <3>1. CASE k - Len(queue) <= Len(chan)
      <4>1. k - Len(queue) \in 1..Len(chan) /\ chan[k - Len(queue)] = x
        BY <1>1, <2>1, <3>1
      <4>. QED BY <4>1, Zenon DEF At
    <3>2. CASE k - Len(queue) > Len(chan)
      <4>1. k - Len(queue) = Len(chan) + 1 /\ x = m
        BY <1>1, <2>1, <3>2
      <4>. QED BY <1>1, <4>1
    <3>. QED BY <1>1, <3>1, <3>2
  <2>. QED BY <1>3, <2>1, Zenon DEF At
<1>4. At(s, q) \/ s = m
  BY <1>2, <1>3, Zenon
<1>5. CASE At(s, q)
  <2>1. q <= Len(queue) + Len(chan)
    BY <1>1, <1>5 DEF At
  <2>2. At(r, p)
    BY <1>1, <1>2, <1>3, <2>1
  <2>. QED BY <1>2, <1>5, <2>2, Zenon DEF Before
<1>. QED BY <1>4, <1>5, Zenon

\* Requests are served in the order they were submitted, for every scenario: a
\* transfer that steps aside for a heartbeat (continue_op) stays in front of
\* those that came after it.
THEOREM NobodyOvertakes == Spec => NoOvertaking
<1>1. ASSUME IInv, IInv', [Next]_vars
      PROVE  [\A r, s \in Asked : r # s /\ Ahead(r, s) => ~Ahead(s, r)']_vars
  <2>. SUFFICES ASSUME NEW r \in Asked, NEW s \in Asked, r # s, Ahead(r, s), Ahead(s, r)'
                PROVE  FALSE
    BY Zenon
  <2>1. r \in Requests /\ s \in Requests
    BY <1>1, ScenarioFacts, Zenon DEF IInv, TypeOK
  <2>2. Before(r, s)
    BY <1>1, AheadIsBefore, Zenon DEF IInv, TypeOK, PortTypeOK
  <2>3. Before(s, r)'
    <3>1. (queue \in Seq(OpSet))' /\ (chan \in Seq(Messages))'
      BY <1>1 DEF IInv, TypeOK, PortTypeOK
    <3>2. PlacesTellOrder'
      BY OrderByPlace, PTL
    <3>. QED BY <2>1, <3>1, <3>2, Zenon DEF PlacesTellOrder
  <2>4. ~Before(s, r)
    <3>. SUFFICES ASSUME Before(s, r) PROVE FALSE
      OBVIOUS
    <3>1. PICK p, q \in Nat : p < q /\ At(r, p) /\ At(s, q)
      BY <2>2 DEF Before
    <3>2. PICK k, l \in Nat : k < l /\ At(s, k) /\ At(r, l)
      BY DEF Before
    <3>3. p = l /\ q = k
      BY <1>1, <2>1, <3>1, <3>2, OnePlace, Zenon
    <3>. QED BY <3>1, <3>2, <3>3
  <2>5. ~KeepsOrder
    BY <2>1, <2>3, <2>4, Zenon DEF KeepsOrder
  <2>6. CASE Callers
    <3>1. UNCHANGED <<queue, inflight>>
      BY <2>6 DEF Callers, workerVars
    <3>2. CASE UNCHANGED chan
      BY <2>5, <3>1, <3>2, SameLine, Zenon
    <3>3. ASSUME NEW m \in Messages, chan' = Append(chan, m), m \in Requests => client[m] = "push" PROVE FALSE
      <4>1. r = m
        BY <1>1, <2>1, <2>3, <2>4, <3>1, <3>3, PushOrder, Zenon
      <4>2. PICK p \in Nat : At(r, p)
        BY <2>2 DEF Before
      <4>. QED BY <1>1, <2>1, <3>3, <4>1, <4>2, ZenonT(30) DEF IInv, Single, At, Held
    <3>4. CASE \E x \in Asked : Submit(x)
      <4>1. PICK x \in Asked : Submit(x)
        BY <3>4, Zenon
      <4>2. x \in Messages
        BY <1>1, ScenarioFacts, ZenonT(30) DEF IInv, TypeOK, Messages
      <4>3. UNCHANGED chan \/ (client[x] = "push" /\ chan' = Append(chan, x))
        BY <4>1 DEF Submit, SendCheck, SendPush, SendRecheck
      <4>. QED BY <3>2, <3>3, <4>2, <4>3, Zenon
    <3>5. CASE Disconnect \/ Join(pc = "exited")
      <4>1. UNCHANGED chan \/ chan' = Append(chan, Shutdown)
        BY <3>5 DEF Disconnect, DisconnectCheck, DisconnectPush, RequestStop, Join
      <4>2. Shutdown \in Messages /\ Shutdown \notin Requests
        BY ShutdownAssumption DEF Messages
      <4>. QED BY <3>2, <3>3, <4>1, <4>2, Zenon
    <3>. QED BY <2>6, <3>4, <3>5, Zenon DEF Callers
  <2>7. CASE \/ LoopTest \/ SocketEmpty \/ CommandsEmpty \/ DeadlineAhead \/ HeartbeatSkip \/ HasDied \/ DrainEnd
             \/ DropReceiver \/ Device \/ UNCHANGED vars
    <3>1. UNCHANGED <<queue, inflight, chan>>
      BY <2>7, ZenonT(30) DEF LoopTest, SocketEmpty, CommandsEmpty, DeadlineAhead, HeartbeatSkip, HasDied, DrainEnd, DropReceiver,
                  Device, DeviceExecute, DeviceRefuse, LoseCommand, DeviceEndsControl, vars, workerVars, portVars
    <3>. QED BY <2>5, <3>1, SameLine, Zenon
  <2>8. CASE DrainRest
    <3>1. chan # <<>> /\ chan' = Tail(chan) /\ UNCHANGED <<queue, inflight>>
      BY <2>8 DEF DrainRest, workerVars
    <3>. QED BY <1>1, <2>5, <3>1, ChannelHeadLeaves, Zenon
  <2>9. ~(DrainCommands \/ HeartbeatDue \/ Pump \/ DrainSocket \/ Overdue \/ ShutdownFail)
    BY <1>1, <2>5, CommandsKeepOrder, HeartbeatKeepsOrder, PumpKeepsOrder, SocketKeepsOrder, OverdueKeepsOrder,
       ShutdownKeepsOrder, Zenon
  <2>. QED BY <1>1, <2>6, <2>7, <2>8, <2>9, Zenon DEF Next, Loop, Teardown, Terminated
<1>. QED BY <1>1, Invariance, PTL DEF Spec, NoOvertaking
=============================================================================
