------------------------ MODULE ControlWorkerProofs -------------------------
(***************************************************************************)
(* The control worker, for any set of requests, any scenario and any       *)
(* behaviour of the link and the device: answers are matched to what was   *)
(* asked, reads are reassembled and writes land without a hole, control is *)
(* released last and a heartbeat cuts in.                                  *)
(***************************************************************************)
EXTENDS ControlWorkerLemmas

\* What a step that sends an op owes besides the order of the queue.
LEMMA LaunchStep ==
  ASSUME IInv, NEW op \in OpSet, Unfinished(op), Counted(op), op.req # Shutdown, NEW send, SendOp(op, send),
         UNCHANGED <<scenario, value, written, client, owner, chan, rx_open, is_alive, should_die,
                     shared_control_lost, control_lost, ccp>>,
         pc \in LoopStages, pc' \in LoopStages,
         queue' \in Seq(OpSet), queued_payloads' \in Seq({"ReadRegs"} \cup RequestKinds),
         \A i \in 1..Len(queue') : Unfinished(queue'[i]) /\ Counted(queue'[i]),
         Paired', HeartbeatFirst', Single'
  PROVE  IInv'
<1>1. TypeOK /\ Landing /\ PortTypeOK /\ Asked' = Asked /\ Kind' = Kind /\ Units' = Units /\ Asked \subseteq Requests
  BY ScenarioFixed, ScenarioFacts DEF IInv, TypeOK
<1>2. /\ next_id' \in Nat
      /\ \A t \in inflight' : t \in InflightSet /\ t.op = op
      /\ \A t, u \in inflight' : t = u
      /\ net' \subseteq CommandSet /\ answered' \subseteq answered
      /\ Current'
      /\ \A c \in net' : c \in net \/ c.req = op.req
      /\ \A c \in net' : Adjoins(c)'
      /\ \A t \in inflight', a \in answered' : a.id # t.id
      /\ \/ handle' = handle
         \/ inflight' = {} /\ \E o \in {"protocol", "io"} : handle' = FailOp(op, o)
  BY <1>1, SendOpFacts
<1>3. /\ handle' \in [Requests -> Outcomes \cup {Unset}]
      /\ \A r \in Requests : handle'[r] = "ok" => handle[r] = "ok"
  <2>1. {"protocol", "io"} \subseteq Outcomes \ {"ok"}
    BY DEF Outcomes, Failures
  <2>. QED BY <1>1, <1>2, <2>1, FailFacts DEF PortTypeOK, FailOp
<1>4. TypeOK'
  BY <1>1, <1>2, <1>3, Zenon DEF TypeOK, PortTypeOK
<1>5. Progress'
  BY <1>2, ScenarioFixed, Zenon DEF Progress
<1>6. Landing'
  <2>1. \A o : Counted(o)' <=> Counted(o)
    BY ScenarioFixed, Zenon DEF Counted
  <2>. QED BY <1>1, <1>2, <2>1 DEF Landing
<1>7. Settled'
  BY <1>1, <1>3, Zenon DEF IInv, Settled, UpTo
<1>8. Released'
  BY <1>2, Zenon DEF IInv, Released, LoopStages
<1>. QED BY <1>2, <1>4, <1>5, <1>6, <1>7, <1>8 DEF IInv

\* What a step that ends the transaction in flight owes.
LEMMA EndStep ==
  ASSUME IInv, inflight' = {}, handle' \in [Requests -> Outcomes \cup {Unset}], value' \in [Requests -> Seq(UnitSet)],
         control_lost' \in BOOLEAN, Settled',
         UNCHANGED <<scenario, written, client, owner, chan, rx_open, is_alive, should_die,
                     shared_control_lost, ccp, pc, queue, queued_payloads, next_id, net, answered>>
  PROVE  IInv'
<1>1. TypeOK' /\ Asked' = Asked /\ Kind' = Kind /\ Units' = Units
  BY ScenarioFixed DEF IInv, TypeOK, PortTypeOK
<1>2. Progress' /\ Paired' /\ Current'
  BY ScenarioFixed DEF IInv, Progress, Paired, PendingSend, Current
<1>3. Landing'
  BY <1>1, ScenarioFixed, Zenon DEF IInv, Landing, Counted, Adjoins
<1>4. Single'
  BY FlightSingle, Zenon
<1>5. HeartbeatFirst' /\ Released'
  BY DEF IInv, HeartbeatFirst, Released
<1>. QED BY <1>1, <1>2, <1>3, <1>4, <1>5 DEF IInv

\* The operation at the front of the queue is sent (pump).
LEMMA PumpStep ==
  ASSUME IInv, Pump
  PROVE  IInv'
<1>1. /\ pc = "pump" /\ pc' = "loop"
      /\ UNCHANGED <<scenario, client, owner, chan, rx_open, is_alive, should_die, control_lost,
                     shared_control_lost, value, ccp, written>>
  BY DEF Pump
<1>2. CASE inflight = {} /\ queue # <<>>
  <2>. DEFINE op == Head(queue)
  <2>1. queue' = Tail(queue) /\ queued_payloads' = Tail(queued_payloads) /\ SendOp(op, Head(queued_payloads))
    BY <1>2 DEF Pump
  <2>2. TypeOK /\ Landing /\ queue \in Seq(OpSet) /\ queued_payloads \in Seq({"ReadRegs"} \cup RequestKinds) /\ Single
        /\ Len(queued_payloads) = Len(queue) /\ \A i \in 1..Len(queue) : queued_payloads[i] = PendingSend(KindOf(queue[i]))
    BY DEF IInv, TypeOK, Paired
  <2>3. /\ queue' \in Seq(OpSet) /\ op \in OpSet /\ op = queue[1] /\ Len(queue) \in Nat \ {0} /\ Len(queue') = Len(queue) - 1
        /\ \A i \in 1..Len(queue') : i + 1 \in 1..Len(queue) /\ queue'[i] = queue[i + 1]
    BY <1>2, <2>1, <2>2, TailFacts
  <2>. HIDE DEF op
  <2>4. queued_payloads # <<>>
    BY <2>2, <2>3
  <2>5. /\ queued_payloads' \in Seq({"ReadRegs"} \cup RequestKinds) /\ Len(queued_payloads') = Len(queued_payloads) - 1
        /\ \A i \in 1..Len(queued_payloads') : queued_payloads'[i] = queued_payloads[i + 1]
    BY <2>1, <2>2, <2>4, TailFacts
  <2>6. 1 \in 1..Len(queue) /\ Unfinished(op) /\ Counted(op) /\ op.req \in Senders
    BY <2>3 DEF IInv, Progress, Landing, OpSet
  <2>7. op.req # Shutdown
    BY <2>6, ConstantsAssumption, ShutdownAssumption DEF Senders
  <2>8. Paired'
    <3>1. \A o : PendingSend(KindOf(o))' = PendingSend(KindOf(o))
      BY <1>1, ScenarioFixed DEF PendingSend
    <3>. QED BY <2>2, <2>3, <2>5, <3>1 DEF Paired
  <2>9. HeartbeatFirst'
    <3>1. ASSUME NEW i \in 1..Len(queue'), queue'[i].req = Heartbeat
          PROVE  FALSE
      <4>1. i + 1 \in 1..Len(queue) /\ queue[i + 1].req = Heartbeat
        BY <2>3, <3>1
      <4>2. i + 1 = 1
        BY <4>1 DEF IInv, HeartbeatFirst
      <4>. QED BY <4>2
    <3>. QED BY <3>1 DEF HeartbeatFirst
  <2>10. Single'
    <3>1. \A t \in inflight' : t.op = op
      BY <1>1, <2>1, <2>2, <2>3, <2>6, SendOpFacts, Zenon DEF op
    <3>2. Held' \subseteq Held
      BY <2>3, <2>6, <3>1, Zenon DEF Held
    <3>3. ASSUME NEW i \in 1..Len(queue'), NEW j \in 1..Len(queue'), queue'[i].req = queue'[j].req
          PROVE  i = j
      <4>1. i + 1 \in 1..Len(queue) /\ j + 1 \in 1..Len(queue) /\ queue[i + 1].req = queue[j + 1].req
        BY <2>3, <3>3, Zenon
      <4>2. i + 1 = j + 1
        BY <2>2, <4>1 DEF Single
      <4>. QED BY <4>2
    <3>4. ASSUME NEW i \in 1..Len(queue'), NEW t \in inflight', queue'[i].req = t.op.req
          PROVE  FALSE
      <4>1. i + 1 \in 1..Len(queue) /\ queue[i + 1].req = queue[1].req
        BY <2>3, <3>1, <3>4
      <4>2. i + 1 = 1
        BY <2>2, <2>6, <4>1 DEF Single
      <4>. QED BY <4>2
    <3>5. Asked' = Asked
      BY <1>1, ScenarioFixed
    <3>6. UNCHANGED <<client, chan>>
      BY <1>1
    <3>. QED BY <2>2, <3>2, <3>3, <3>4, <3>5, <3>6, SingleStep
  <2>11. \A i \in 1..Len(queue') : Unfinished(queue'[i]) /\ Counted(queue'[i])
    BY <2>3 DEF IInv, Progress, Landing
  <2>12. pc \in LoopStages /\ pc' \in LoopStages
    BY <1>1 DEF LoopStages
  <2>. QED BY <1>1, <2>1, <2>3, <2>5, <2>6, <2>7, <2>8, <2>9, <2>10, <2>11, <2>12, LaunchStep, Zenon DEF op
<1>3. CASE ~(inflight = {} /\ queue # <<>>)
  <2>1. UNCHANGED <<handle, queue, queued_payloads, inflight, next_id, net, answered>>
    BY <1>3 DEF Pump
  <2>2. TypeOK /\ PortTypeOK
    BY DEF IInv, TypeOK
  <2>. QED BY <1>1, <2>1, <2>2, QuietStep DEF TypeOK, PortTypeOK, LoopStages, Over
<1>. QED BY <1>2, <1>3

\* The worker that ends gives control back and fails all it holds (shutdown).
LEMMA ShutdownFailStep ==
  ASSUME IInv, ShutdownFail
  PROVE  IInv'
<1>1. /\ pc = "stopping" /\ pc' = "released" /\ inflight' = {} /\ queue' = <<>> /\ queued_payloads' = <<>>
      /\ handle' = Fulfill(handle, Held, Cause) /\ ReleaseControl /\ PublishCause
      /\ UNCHANGED <<scenario, client, owner, chan, rx_open, is_alive, should_die, control_lost, value, ccp, written>>
  BY DEF ShutdownFail
<1>2. TypeOK /\ PortTypeOK /\ Asked' = Asked /\ Kind' = Kind /\ Units' = Units /\ Asked \subseteq Requests
  BY <1>1, ScenarioFixed, ScenarioFacts, Zenon DEF IInv, TypeOK
<1>3. /\ handle' \in [Requests -> Outcomes \cup {Unset}]
      /\ \A r \in Requests : handle'[r] = "ok" => handle[r] = "ok"
  BY <1>1, <1>2, FailFacts, EndingOutcomes DEF PortTypeOK
<1>4. next_id' \in Nat /\ answered' \subseteq answered
      /\ \A c \in net' : c \in net \/ c = [id |-> next_id', req |-> Shutdown, from |-> 1, n |-> 1]
  BY <1>1, <1>2, ScenarioFacts DEF ReleaseControl, NextId, Fresh, Release, TypeOK
<1>5. TypeOK'
  <2>1. net' \subseteq CommandSet
    BY <1>2, <1>4 DEF TypeOK, CommandSet
  <2>2. shared_control_lost' \in BOOLEAN
    BY <1>1, <1>2 DEF PublishCause, TypeOK
  <2>3. queue' \in Seq(OpSet) /\ queued_payloads' \in Seq({"ReadRegs"} \cup RequestKinds)
    BY <1>1
  <2>. QED BY <1>1, <1>2, <1>3, <1>4, <2>1, <2>2, <2>3 DEF TypeOK, PortTypeOK, ShutdownStages
<1>6. Progress' /\ Paired' /\ Current' /\ HeartbeatFirst' /\ Released'
  BY <1>1 DEF Progress, Paired, Current, HeartbeatFirst, Released
<1>7. Landing'
  <2>1. \A c : Adjoins(c)' <=> Adjoins(c)
    BY <1>1, ScenarioFixed DEF Adjoins
  <2>2. \A c \in net' : Adjoins(c)
    BY <1>2, <1>4, ShutdownAssumption DEF IInv, Landing, Adjoins, IsWrite
  <2>. QED BY <1>1, <1>2, <2>1, <2>2 DEF IInv, Landing
<1>8. Settled'
  BY <1>1, <1>2, <1>3, Zenon DEF IInv, Settled, UpTo
<1>9. Single'
  <2>1. Held' = {}
    BY <1>1 DEF Held
  <2>2. Single /\ UNCHANGED <<client, chan>> /\ Len(queue') = 0 /\ inflight' = {}
    BY <1>1 DEF IInv
  <2>. QED BY <1>2, <2>1, <2>2, SingleStep
<1>. QED BY <1>5, <1>6, <1>7, <1>8, <1>9 DEF IInv

\* The pieces of a read, put together.
LEMMA UpToFacts ==
  ASSUME NEW r \in Requests, NEW n \in Nat
  PROVE  UpTo(r, n) \in Seq(UnitSet) /\ Len(UpTo(r, n)) = n
BY DEF UpTo, UnitSet, Senders

\* The units read so far, and those of the next chunk after them.
LEMMA UpToConcat ==
  ASSUME NEW r \in Requests, NEW d \in Nat, NEW n \in Nat
  PROVE  UpTo(r, d) \o [i \in 1..n |-> <<r, d + 1 + i - 1>>] = UpTo(r, d + n)
<1>1. PICK f \in Seq(UnitSet) : f = UpTo(r, d) /\ Len(f) = d /\ \A i \in 1..d : f[i] = <<r, i>>
  BY UpToFacts, Zenon DEF UpTo
<1>2. PICK l \in Seq(UnitSet) : l = [i \in 1..n |-> <<r, d + 1 + i - 1>>] /\ Len(l) = n /\ \A i \in 1..n : l[i] = <<r, d + i>>
  <2>. DEFINE k == [i \in 1..n |-> <<r, d + 1 + i - 1>>]
  <2>1. k \in Seq(UnitSet) /\ Len(k) = n
    BY DEF UnitSet, Senders
  <2>2. \A i \in 1..n : k[i] = <<r, d + i>>
    OBVIOUS
  <2>. QED BY <2>1, <2>2, Zenon
<1>3. PICK g \in Seq(UnitSet) : g = UpTo(r, d + n) /\ Len(g) = d + n /\ \A i \in 1..d + n : g[i] = <<r, i>>
  <2>1. d + n \in Nat
    OBVIOUS
  <2>2. UpTo(r, d + n) \in Seq(UnitSet) /\ Len(UpTo(r, d + n)) = d + n
    BY <2>1, UpToFacts
  <2>3. \A i \in 1..d + n : UpTo(r, d + n)[i] = <<r, i>>
    BY DEF UpTo
  <2>. QED BY <2>2, <2>3, Zenon
<1>4. PICK h \in Seq(UnitSet) : Joined(h, f, l)
  BY ConcatFacts, Zenon
<1>5. Len(f) = d /\ Len(l) = n /\ Len(g) = d + n /\ Len(h) = d + n
  BY <1>1, <1>2, <1>3, <1>4 DEF Joined
<1>6. ASSUME NEW i \in 1..d + n
      PROVE  h[i] = g[i]
  <2>1. h[i] = IF i <= d THEN f[i] ELSE l[i - d]
    BY <1>4, <1>5 DEF Joined
  <2>2. i > d => i - d \in 1..n /\ l[i - d] = <<r, i>>
    BY <1>2
  <2>3. i <= d => f[i] = <<r, i>>
    BY <1>1
  <2>4. g[i] = <<r, i>>
    BY <1>3
  <2>. QED BY <2>1, <2>2, <2>3, <2>4
<1>7. h = g
  BY <1>5, <1>6
<1>. QED BY <1>1, <1>2, <1>3, <1>4, <1>7, Zenon DEF Joined

\* An acknowledge of n units, as the op goes on.
Advanced(op, n) ==
  [op EXCEPT !.done = @ + n,
             !.acc = IF Kind[op.req] \in WriteKinds THEN @ ELSE @ \o [i \in 1..n |-> <<op.req, op.done + 1 + i - 1>>]]

\* An operation that a chunk was acknowledged for is still in good order.
LEMMA AdvancedFacts ==
  ASSUME IInv, NEW t \in inflight, t.op.req # Heartbeat, NEW a \in answered, a.id = t.id, a.status = "ok",
         NEW n \in 1..(Units[t.op.req] - t.op.done), IsWrite(t.op.req) => n = Chunk(t.op)
  PROVE  LET next == Advanced(t.op, n)
             r == t.op.req
         IN  /\ r \in Asked /\ r \in Requests /\ t.op \in OpSet
             /\ next \in OpSet /\ next.req = r /\ next.done = t.op.done + n
             /\ next.done <= Units[r] /\ Units[r] \in Nat
             /\ Kind[r] \notin WriteKinds => next.acc = UpTo(r, t.op.done + n)
             /\ Counted(next)
<1>. DEFINE op == t.op
            r == t.op.req
            next == Advanced(t.op, n)
            got == [i \in 1..n |-> <<r, op.done + 1 + i - 1>>]
<1>1. TypeOK /\ op \in OpSet /\ op.done \in Nat /\ op.acc \in Seq(UnitSet) /\ Unfinished(op) /\ Asked \subseteq Requests
  BY ScenarioFacts, ZenonT(30) DEF IInv, TypeOK, InflightSet, OpSet, Progress
<1>2. r \in Asked /\ r \in Requests /\ op.done < Units[r] /\ Units[r] \in Nat
      /\ (Kind[r] \notin WriteKinds => op.acc = UpTo(r, op.done))
  BY <1>1, ScenarioFacts, Zenon DEF Unfinished, TypeOK
<1>3. Chunk(op) \in Nat /\ op.done + Chunk(op) <= Units[r] /\ n \in Nat /\ op.done + n <= Units[r]
  <2>1. scenario \in Scenarios
    BY <1>1, Zenon DEF TypeOK
  <2>2. Chunk(op) \in Nat /\ op.done + Chunk(op) <= Units[r]
    BY <1>1, <1>2, <2>1, ChunkFacts, Zenon
  <2>. QED BY <1>1, <1>2, <2>2
<1>4. next.req = r /\ next.done = op.done + n /\ next.done \in Nat /\ next.done <= Units[r]
  BY <1>1, <1>2, <1>3 DEF Advanced, OpSet
<1>5. next.acc = IF Kind[r] \in WriteKinds THEN op.acc ELSE op.acc \o got
  BY <1>1 DEF Advanced, OpSet
<1>6. Kind[r] \notin WriteKinds => next.acc = UpTo(r, op.done + n)
  <2>1. UpTo(r, op.done) \o got = UpTo(r, op.done + n)
    BY <1>1, <1>2, <1>3, UpToConcat, Zenon
  <2>. HIDE DEF got, next
  <2>. QED BY <1>2, <1>5, <2>1, Zenon
<1>7. next.acc \in Seq(UnitSet)
  <2>1. op.done + n \in Nat
    BY <1>1, <1>3
  <2>. QED BY <1>1, <1>2, <1>5, <1>6, <2>1, UpToFacts, ZenonT(30)
<1>8. next \in OpSet
  <2>1. \A d \in Nat, s \in Seq(UnitSet) : [op EXCEPT !.done = d, !.acc = s] \in OpSet
    BY <1>1, Zenon DEF OpSet
  <2>2. next = [op EXCEPT !.done = next.done, !.acc = next.acc]
    <3>1. next = [op EXCEPT !.done = op.done + n, !.acc = IF Kind[r] \in WriteKinds THEN op.acc ELSE op.acc \o got]
      BY DEF Advanced
    <3>. HIDE DEF next, got
    <3>. QED BY <1>4, <1>5, <3>1, Zenon
  <2>. HIDE DEF next
  <2>. QED BY <1>4, <1>7, <2>1, <2>2, ZenonT(30)
<1>9. Counted(next)
  <2>. SUFFICES ASSUME IsWrite(r) PROVE 1 .. op.done + n \subseteq written[r]
    BY <1>4, Zenon DEF Counted
  <2>1. 1..op.done \subseteq written[r]
    BY DEF IInv, Landing, Counted
  <2>2. t.sent = Command(op, t.id)
    BY DEF IInv, Current
  <2>3. t.sent.n = Chunk(op)
    BY <2>2 DEF Command
  <2>4. op.done + 1 .. op.done + n \subseteq written[r]
    BY <2>3 DEF IInv, Landing
  <2>. QED BY <1>1, <1>3, <2>1, <2>4
<1>. HIDE DEF next
<1>. QED BY <1>1, <1>2, <1>4, <1>6, <1>8, <1>9 DEF next

\* on_ack, continue_op: the op steps aside for a heartbeat.  It goes second in
\* the queue, its payload second among the payloads, and nothing else moves.
SecondInQueue(op) ==
  /\ queue # <<>>
  /\ Head(queue).req = Heartbeat
  /\ queue' = <<Head(queue), op>> \o Tail(queue)
  /\ queued_payloads' = <<Head(queued_payloads), PendingSend(KindOf(op))>> \o Tail(queued_payloads)

FlightOver ==
  /\ inflight' = {}
  /\ UNCHANGED <<scenario, portVars, pc, next_id, control_lost, shared_control_lost, value, deviceVars>>

\* The queue that op steps into.
Behind(op) ==
  /\ queue' \in Seq(OpSet) /\ queued_payloads' \in Seq({"ReadRegs"} \cup RequestKinds)
  /\ Len(queued_payloads') = Len(queue')
  /\ \A i \in 1..Len(queue') :
       \/ i = 2 /\ queue'[i] = op /\ queued_payloads'[i] = PendingSend(KindOf(op))
       \/ \E j \in 1..Len(queue) : /\ i = IF j = 1 THEN 1 ELSE j + 1
                                   /\ queue'[i] = queue[j] /\ queued_payloads'[i] = queued_payloads[j]

\* Every other op keeps its place in the order, and its payload.
LEMMA BehindFacts ==
  ASSUME IInv, NEW op \in OpSet, Unfinished(op), SecondInQueue(op)
  PROVE  Behind(op)
<1>1. queue \in Seq(OpSet) /\ queued_payloads \in Seq({"ReadRegs"} \cup RequestKinds) /\ queue # <<>>
  BY Zenon DEF IInv, TypeOK, SecondInQueue
<1>2. Len(queued_payloads) = Len(queue) /\ Len(queue) \in Nat \ {0} /\ queued_payloads # <<>>
  <2>1. Len(queued_payloads) = Len(queue)
    BY Zenon DEF IInv, Paired
  <2>. QED BY <1>1, <2>1
<1>3. PendingSend(KindOf(op)) \in {"ReadRegs"} \cup RequestKinds
  <2>1. scenario \in Scenarios
    BY Zenon DEF IInv, TypeOK
  <2>. QED BY <2>1, ChunkFacts, Zenon
<1>4. /\ queue' \in Seq(OpSet) /\ Len(queue') = Len(queue) + 1
      /\ \A i \in 1..Len(queue') : queue'[i] = IF i = 1 THEN queue[1] ELSE IF i = 2 THEN op ELSE queue[i - 1]
  <2>1. PICK g \in Seq(OpSet) :
          /\ g = <<Head(queue), op>> \o Tail(queue) /\ Len(g) = Len(queue) + 1
          /\ \A i \in 1..Len(g) : g[i] = IF i = 1 THEN queue[1] ELSE IF i = 2 THEN op ELSE queue[i - 1]
    BY <1>1, SecondFacts
  <2>2. queue' = g
    BY <2>1, Zenon DEF SecondInQueue
  <2>. QED BY <2>1, <2>2, Zenon
<1>5. /\ queued_payloads' \in Seq({"ReadRegs"} \cup RequestKinds) /\ Len(queued_payloads') = Len(queued_payloads) + 1
      /\ \A i \in 1..Len(queued_payloads') : queued_payloads'[i] =
           IF i = 1 THEN queued_payloads[1] ELSE IF i = 2 THEN PendingSend(KindOf(op)) ELSE queued_payloads[i - 1]
  <2>1. PICK g \in Seq({"ReadRegs"} \cup RequestKinds) :
          /\ g = <<Head(queued_payloads), PendingSend(KindOf(op))>> \o Tail(queued_payloads)
          /\ Len(g) = Len(queued_payloads) + 1
          /\ \A i \in 1..Len(g) : g[i] = IF i = 1 THEN queued_payloads[1]
                                     ELSE IF i = 2 THEN PendingSend(KindOf(op)) ELSE queued_payloads[i - 1]
    BY <1>1, <1>2, <1>3, SecondFacts
  <2>2. queued_payloads' = g
    BY <2>1, Zenon DEF SecondInQueue
  <2>. QED BY <2>1, <2>2, Zenon
<1>6. ASSUME NEW i \in 1..Len(queue'), i # 2
      PROVE  \E j \in 1..Len(queue) : /\ i = IF j = 1 THEN 1 ELSE j + 1
                                      /\ queue'[i] = queue[j] /\ queued_payloads'[i] = queued_payloads[j]
  <2>1. CASE i = 1
    BY <1>2, <1>4, <1>5, <2>1
  <2>2. CASE i # 1
    <3>1. i - 1 \in 1..Len(queue) /\ i - 1 # 1 /\ i = (i - 1) + 1
      BY <1>2, <1>4, <1>6, <2>2
    <3>2. queue'[i] = queue[i - 1] /\ queued_payloads'[i] = queued_payloads[i - 1]
      BY <1>2, <1>4, <1>5, <1>6, <2>2, Zenon
    <3>. QED BY <3>1, <3>2
  <2>. QED BY <2>1, <2>2
<1>7. ASSUME 2 \in 1..Len(queue')
      PROVE  queue'[2] = op /\ queued_payloads'[2] = PendingSend(KindOf(op))
  BY <1>2, <1>4, <1>5, <1>7
<1>. QED BY <1>2, <1>4, <1>5, <1>6, <1>7, Zenon DEF Behind

\* An op that steps aside keeps the invariant.
LEMMA AsideStep ==
  ASSUME IInv, NEW t \in inflight, NEW op \in OpSet, op.req = t.op.req, op.req \in Asked, Unfinished(op), Counted(op),
         SecondInQueue(op), FlightOver
  PROVE  IInv'
<1>1. /\ inflight' = {} /\ UNCHANGED <<client, chan, next_id, net, answered, written, value, handle, pc>>
      /\ scenario' = scenario
  BY Zenon DEF FlightOver, portVars, deviceVars
<1>2. /\ TypeOK /\ Single /\ Landing /\ Asked \subseteq Requests
      /\ Asked' = Asked /\ Kind' = Kind /\ Units' = Units
  BY <1>1, ScenarioFixed, ScenarioFacts, Zenon DEF IInv, TypeOK
<1>3. Behind(op)
  BY BehindFacts
<1>4. \A i \in 1..Len(queue') : queue'[i] = op \/ \E j \in 1..Len(queue) : queue'[i] = queue[j]
  BY <1>3, ZenonT(30) DEF Behind
<1>5. TypeOK'
  <2>1. queue' \in Seq(OpSet) /\ queued_payloads' \in Seq({"ReadRegs"} \cup RequestKinds)
    BY <1>3, Zenon DEF Behind
  <2>. QED BY <1>2, <2>1 DEF FlightOver, TypeOK, PortTypeOK, portVars, deviceVars
<1>6. \A i \in 1..Len(queue') : Unfinished(queue'[i]) /\ Counted(queue'[i])
  BY <1>4, ZenonT(30) DEF IInv, Progress, Landing
<1>7. Progress'
  BY <1>1, <1>6, ScenarioFixed DEF Progress
<1>8. Paired'
  <2>1. \A o : PendingSend(KindOf(o))' = PendingSend(KindOf(o))
    BY <1>2, Zenon DEF PendingSend, KindOf
  <2>2. \A i \in 1..Len(queue') : queued_payloads'[i] = PendingSend(KindOf(queue'[i]))
    BY <1>3, Zenon DEF Behind, IInv, Paired
  <2>3. Len(queued_payloads') = Len(queue')
    BY <1>3, Zenon DEF Behind
  <2>. QED BY <2>1, <2>2, <2>3, ZenonT(30) DEF Paired
<1>9. Landing'
  <2>1. \A o : Counted(o)' <=> Counted(o)
    BY <1>1, ScenarioFixed, ZenonT(30) DEF Counted
  <2>2. \A c : Adjoins(c)' <=> Adjoins(c)
    BY <1>1, ScenarioFixed DEF Adjoins
  <2>. QED BY <1>1, <1>2, <1>6, <2>1, <2>2, ZenonT(30) DEF Landing
<1>10. Settled' /\ Current' /\ Released'
  BY <1>1, <1>2, ZenonT(30) DEF IInv, Settled, UpTo, Current, Released
<1>11. op.req # Heartbeat
  BY <1>2, ConstantsAssumption
<1>12. HeartbeatFirst'
  <2>1. \A i \in 1..Len(queue) : queue[i].req = Heartbeat => i = 1
    BY Zenon DEF IInv, HeartbeatFirst
  <2>2. ASSUME NEW i \in 1..Len(queue'), queue'[i].req = Heartbeat
        PROVE  i = 1
    BY <1>3, <1>11, <2>1, <2>2, ZenonT(30) DEF Behind
  <2>. QED BY <2>2 DEF HeartbeatFirst
<1>13. Single'
  <2>1. Held' \subseteq Held
    BY <1>1, <1>4 DEF Held
  <2>2. \A i \in 1..Len(queue) : queue[i].req # op.req
    BY <1>2, Zenon DEF Single
  <2>3. \A i, j \in 1..Len(queue) : queue[i].req = queue[j].req => i = j
    BY <1>2, Zenon DEF Single
  <2>4. ASSUME NEW i \in 1..Len(queue'), NEW j \in 1..Len(queue'), queue'[i].req = queue'[j].req
        PROVE  i = j
    <3>1. \A k \in 1..Len(queue') : \/ k = 2 /\ queue'[k] = op
                                   \/ \E l \in 1..Len(queue) : k = (IF l = 1 THEN 1 ELSE l + 1) /\ queue'[k] = queue[l]
      BY <1>3, Zenon DEF Behind
    <3>2. CASE i = 2 /\ queue'[i] = op
      BY <2>2, <2>4, <3>1, <3>2, Zenon
    <3>3. CASE j = 2 /\ queue'[j] = op
      BY <2>2, <2>4, <3>1, <3>3, Zenon
    <3>4. ASSUME NEW k \in 1..Len(queue), i = (IF k = 1 THEN 1 ELSE k + 1), queue'[i] = queue[k],
                 NEW l \in 1..Len(queue), j = (IF l = 1 THEN 1 ELSE l + 1), queue'[j] = queue[l]
          PROVE  i = j
      <4>1. k = l
        BY <2>3, <2>4, <3>4, ZenonT(30)
      <4>. QED BY <3>4, <4>1, Zenon
    <3>. QED BY <3>1, <3>2, <3>3, <3>4, Zenon
  <2>. QED BY <1>1, <1>2, <2>1, <2>4, SingleStep, ZenonT(30)
<1>. QED BY <1>5, <1>7, <1>8, <1>9, <1>10, <1>12, <1>13 DEF IInv

\* A chunk is acknowledged: the operation is done or goes on (continue_op).
LEMMA AckUnitsStep ==
  ASSUME IInv, pc = "socket", NEW t \in inflight, t.op.req # Heartbeat,
         NEW a \in answered, a.id = t.id, a.status = "ok",
         NEW n \in 1..(Units[t.op.req] - t.op.done), IsWrite(t.op.req) => n = Chunk(t.op),
         AckUnits(t.op, a, n), UNCHANGED control_lost,
         UNCHANGED <<scenario, client, owner, chan, rx_open, is_alive, should_die, pc, shared_control_lost, ccp, written>>
  PROVE  IInv'
<1>. DEFINE r == t.op.req
            next == Advanced(t.op, n)
<1>1. /\ r \in Asked /\ r \in Requests /\ t.op \in OpSet
      /\ next \in OpSet /\ next.req = r /\ next.done = t.op.done + n
      /\ next.done <= Units[r] /\ Units[r] \in Nat
      /\ Kind[r] \notin WriteKinds => next.acc = UpTo(r, t.op.done + n)
      /\ Counted(next)
  BY AdvancedFacts
<1>2. /\ TypeOK /\ PortTypeOK /\ Asked' = Asked /\ Kind' = Kind /\ Units' = Units /\ Asked \subseteq Requests
      /\ a.req = r /\ a.from = t.op.done + 1 /\ t.op.done \in Nat
  BY ScenarioFixed, ScenarioFacts, <1>1, ZenonT(30) DEF IInv, TypeOK, Current, OpSet
<1>3. \/ /\ next.done >= Units[r]
         /\ handle' = Fulfill(handle, {r}, "ok")
         /\ value' = [value EXCEPT ![r] = next.acc]
         /\ inflight' = {}
         /\ UNCHANGED <<queue, queued_payloads, next_id, net, answered>>
      \/ next.done < Units[r] /\ ContinueOp(next) /\ UNCHANGED value
  <2>1. [i \in 1..n |-> <<a.req, a.from + i - 1>>] = [i \in 1..n |-> <<r, t.op.done + 1 + i - 1>>]
    BY <1>2
  <2>2. \/ /\ next.done >= Units[r]
           /\ handle' = Fulfill(handle, {r}, "ok")
           /\ value' = [value EXCEPT ![r] = next.acc]
           /\ inflight' = {}
           /\ UNCHANGED <<queue, queued_payloads, next_id, net, answered>>
        \/ ~(next.done >= Units[r]) /\ ContinueOp(next) /\ UNCHANGED value
    BY <2>1, ZenonT(30) DEF AckUnits, Advanced
  <2>3. next.done \in Nat
    BY <1>1, Zenon DEF OpSet
  <2>. HIDE DEF next
  <2>4. next.done >= Units[r] \/ next.done < Units[r]
    BY <1>1, <2>3
  <2>. QED BY <2>2, <2>4, Zenon
<1>. HIDE DEF next
<1>4. CASE /\ next.done >= Units[r]
           /\ handle' = Fulfill(handle, {r}, "ok")
           /\ value' = [value EXCEPT ![r] = next.acc]
           /\ inflight' = {}
           /\ UNCHANGED <<queue, queued_payloads, next_id, net, answered>>
  <2>0. next.done >= Units[r] /\ next.done \in Nat
    BY <1>1, <1>4, ZenonT(30) DEF OpSet
  <2>1. next.done = Units[r] /\ t.op.done + n = Units[r]
    BY <1>1, <2>0
  <2>2. next.acc \in Seq(UnitSet) /\ value \in [Requests -> Seq(UnitSet)]
    BY <1>1, <1>2, ZenonT(30) DEF OpSet, TypeOK
  <2>3. /\ value' \in [Requests -> Seq(UnitSet)] /\ value'[r] = next.acc
        /\ \A q \in Requests : q # r => value'[q] = value[q]
    BY <1>1, <1>4, <2>2, Zenon
  <2>4. "ok" \in Outcomes
    BY Zenon DEF Outcomes
  <2>5. /\ handle' \in [Requests -> Outcomes \cup {Unset}]
        /\ \A q \in Requests : handle'[q] = "ok" => handle[q] = "ok" \/ q = r
    <3>1. handle \in [Requests -> Outcomes \cup {Unset}] /\ handle' = Fulfill(handle, {r}, "ok")
      BY <1>2, <1>4, ZenonT(30) DEF PortTypeOK
    <3>. QED BY <2>4, <3>1, FulfillFacts
  <2>6. IF Kind[r] \in WriteKinds THEN 1..Units[r] \subseteq written[r] ELSE value'[r] = UpTo(r, Units[r])
    BY <1>1, <2>1, <2>3, Zenon DEF Counted, IsWrite
  <2>7. Settled'
    <3>1. ASSUME NEW q \in Asked, handle'[q] = "ok"
          PROVE  IF Kind[q] \in WriteKinds THEN 1..Units[q] \subseteq written[q] ELSE value'[q] = UpTo(q, Units[q])
      <4>1. CASE q = r
        BY <2>6, <4>1, Zenon
      <4>2. CASE q # r
        BY <1>2, <2>3, <2>5, <3>1, <4>2, Zenon DEF IInv, Settled
      <4>. QED BY <4>1, <4>2, Zenon
    <3>. QED BY <1>2, <3>1, Zenon DEF Settled, UpTo
  <2>8. control_lost' \in BOOLEAN
    BY <1>2, ZenonT(30) DEF TypeOK
  <2>. QED BY <1>4, <2>3, <2>5, <2>7, <2>8, EndStep, Zenon
<1>5. CASE next.done < Units[r] /\ ContinueOp(next) /\ UNCHANGED value
  <2>1. Unfinished(next)
    BY <1>1, <1>5, Zenon DEF Unfinished
  <2>2. CASE queue # <<>> /\ Head(queue).req = Heartbeat
    <3>1. /\ queue' = <<Head(queue), next>> \o Tail(queue)
          /\ queued_payloads' = <<Head(queued_payloads), PendingSend(KindOf(next))>> \o Tail(queued_payloads)
          /\ inflight' = {}
          /\ UNCHANGED <<next_id, net, answered, handle>>
      BY <1>5, <2>2, Zenon DEF ContinueOp
    <3>2. SecondInQueue(next)
      BY <2>2, <3>1, Zenon DEF SecondInQueue
    <3>3. FlightOver
      BY <1>5, <3>1, ZenonT(30) DEF FlightOver, portVars, deviceVars
    <3>. QED BY <1>1, <2>1, <3>2, <3>3, AsideStep
  <2>3. CASE ~(queue # <<>> /\ Head(queue).req = Heartbeat)
    <3>1. SendOp(next, PendingSend(KindOf(next))) /\ UNCHANGED <<queue, queued_payloads>>
      BY <1>5, <2>3, ZenonT(30) DEF ContinueOp
    <3>2. \A u \in inflight' : u.op = next
      BY <1>1, <1>2, <2>1, <3>1, SendOpFacts, Zenon DEF IInv
    <3>3. Single'
      BY <1>1, <3>1, <3>2, FlightSingle, Zenon
    <3>4. Paired' /\ HeartbeatFirst'
      BY <3>1, ScenarioFixed, Zenon DEF IInv, Paired, PendingSend, HeartbeatFirst
    <3>5. queue' \in Seq(OpSet) /\ queued_payloads' \in Seq({"ReadRegs"} \cup RequestKinds)
      BY <1>2, <3>1, ZenonT(30) DEF TypeOK
    <3>6. \A i \in 1..Len(queue') : Unfinished(queue'[i]) /\ Counted(queue'[i])
      BY <3>1, ZenonT(30) DEF IInv, Progress, Landing
    <3>7. pc \in LoopStages /\ pc' \in LoopStages /\ next.req # Shutdown
      BY <1>1, ShutdownAssumption, Zenon DEF LoopStages
    <3>. QED BY <1>1, <1>5, <2>1, <3>1, <3>3, <3>4, <3>5, <3>6, <3>7, LaunchStep
  <2>. QED BY <2>2, <2>3, Zenon
<1>. QED BY <1>3, <1>4, <1>5, ZenonT(30)

\* A datagram is taken from the socket (on_datagram), of whatever kind.
LEMMA DrainSocketStep ==
  ASSUME IInv, DrainSocket
  PROVE  IInv'
<1>1. /\ pc = "socket"
      /\ UNCHANGED <<scenario, client, owner, chan, rx_open, is_alive, should_die, pc, shared_control_lost, ccp, written>>
  BY DEF DrainSocket
<1>2. PICK a \in answered, how \in {"full"} \cup OddAnswers : OnDatagram(a, how)
  BY DEF DrainSocket
<1>3. PICK t \in inflight : /\ t.id = a.id
                            /\ IF t.op.req = Heartbeat THEN AckHeartbeat(a, how) ELSE AckRequest(t.op, a, how)
  BY <1>2, Zenon DEF OnDatagram
<1>4. TypeOK /\ PortTypeOK /\ t.op \in OpSet /\ Unfinished(t.op) /\ Kind' = Kind /\ Units' = Units /\ Asked' = Asked
      /\ Asked \subseteq Requests
  BY <1>1, ScenarioFixed, ScenarioFacts, Zenon DEF IInv, TypeOK, InflightSet, Progress
<1>5. CASE t.op.req = Heartbeat
  <2>1. AckHeartbeat(a, how)
    BY <1>3, <1>5
  <2>2. control_lost' \in BOOLEAN
    BY <1>4, <2>1, Zenon DEF AckHeartbeat, TypeOK
  <2>3. Settled'
    BY <1>1, <1>4, <2>1, Zenon DEF AckHeartbeat, IInv, Settled, UpTo
  <2>. QED BY <1>1, <1>4, <2>1, <2>2, <2>3, EndStep, Zenon DEF AckHeartbeat, TypeOK, PortTypeOK
<1>6. CASE t.op.req # Heartbeat
  <2>1. AckRequest(t.op, a, how) /\ UNCHANGED control_lost
    BY <1>3, <1>6, Zenon DEF AckRequest
  <2>2. /\ t.op.req \in Asked /\ Chunk(t.op) \in Nat \ {0} /\ t.op.done + Chunk(t.op) <= Units[t.op.req]
        /\ t.op.done \in Nat /\ Units[t.op.req] \in Nat
    BY <1>4, <1>6, ChunkFacts, ScenarioFacts, Zenon DEF Unfinished, TypeOK, OpSet
  <2>3. CASE \E o \in {"nak", "protocol"} : AckFails(t.op, o)
    <3>1. PICK o \in {"nak", "protocol"} : AckFails(t.op, o)
      BY <2>3
    <3>2. o \in Outcomes \ {"ok"}
      BY DEF Outcomes, Failures
    <3>3. /\ handle' \in [Requests -> Outcomes \cup {Unset}]
          /\ \A r \in Requests : handle'[r] = "ok" => handle[r] = "ok"
      BY <1>4, <3>1, <3>2, FailFacts, Zenon DEF AckFails, FailOp, PortTypeOK
    <3>4. Settled'
      BY <1>1, <1>4, <3>1, <3>3, Zenon DEF AckFails, IInv, Settled, UpTo
    <3>. QED BY <1>1, <1>4, <2>1, <3>1, <3>3, <3>4, EndStep DEF AckFails, TypeOK
  <2>4. CASE a.status = "ok" /\ AckUnits(t.op, a, Chunk(t.op))
    <3>1. Chunk(t.op) \in 1..(Units[t.op.req] - t.op.done)
      BY <2>2
    <3>. QED BY <1>1, <1>3, <1>6, <2>1, <2>4, <3>1, AckUnitsStep, Zenon
  <2>5. CASE a.status = "ok" /\ Kind[t.op.req] = "ReadMem" /\ \E n \in 1..(Units[t.op.req] - t.op.done) : AckUnits(t.op, a, n)
    <3>1. PICK n \in 1..(Units[t.op.req] - t.op.done) : AckUnits(t.op, a, n)
      BY <2>5, Zenon
    <3>2. ~IsWrite(t.op.req)
      BY <2>2, <2>5 DEF IsWrite, WriteKinds
    <3>. QED BY <1>1, <1>3, <1>6, <2>1, <2>5, <3>1, <3>2, AckUnitsStep, ZenonT(30)
  <2>. QED BY <2>1, <2>3, <2>4, <2>5, Zenon DEF AckRequest
<1>. QED BY <1>5, <1>6

\* Every step of the worker, its callers, the device and the link keeps the
\* invariant.
LEMMA StepInv == IInv /\ [Next]_vars => IInv'
<1>. SUFFICES ASSUME IInv, [Next]_vars
              PROVE  IInv'
  OBVIOUS
<1>a. TypeOK /\ PortTypeOK
  BY DEF IInv, TypeOK
<1>1. CASE Callers
  BY <1>1, SubmitStep, OwnerStep, Zenon DEF Callers
<1>2. CASE LoopTest \/ SocketEmpty \/ CommandsEmpty \/ DeadlineAhead \/ HeartbeatSkip
  BY <1>a, <1>2, QuietStep, ZenonT(60)
     DEF LoopTest, SocketEmpty, CommandsEmpty, DeadlineAhead, HeartbeatSkip, portVars, deviceVars,
         TypeOK, PortTypeOK, LoopStages, ShutdownStages, Over
<1>3. CASE HasDied \/ DrainEnd \/ DropReceiver
  BY ZenonT(30), <1>a, <1>3, QuietStep
     DEF HasDied, DrainEnd, DropReceiver, portVars, deviceVars, TypeOK, PortTypeOK, ShutdownStages, Over
<1>4. CASE UNCHANGED vars
  BY <1>a, <1>4, QuietStep DEF vars, portVars, workerVars, deviceVars, TypeOK, PortTypeOK
<1>5. CASE DrainSocket \/ DrainCommands \/ Overdue \/ HeartbeatDue \/ Pump
  BY <1>5, DrainSocketStep, DrainCommandsStep, OverdueStep, HeartbeatDueStep, PumpStep
<1>6. CASE ShutdownFail \/ DrainRest
  BY <1>6, ShutdownFailStep, DrainRestStep
<1>7. CASE Device
  BY <1>7, DeviceStep
<1>. QED BY <1>1, <1>2, <1>3, <1>4, <1>5, <1>6, <1>7 DEF Next, Loop, Teardown, Terminated

\* The invariant holds throughout.
LEMMA Invariance == Spec => []IInv
BY InitInv, StepInv, PTL DEF Spec

-----------------------------------------------------------------------------
\* The worker's state, the callers' and the device's keep their types.
THEOREM TypeCorrect == Spec => []TypeOK
<1>1. IInv => TypeOK
  BY DEF IInv
<1>. QED BY <1>1, Invariance, PTL

\* on_datagram may go by the id alone: however late and however often an
\* acknowledge arrives, if it has the id in flight it answers the units in
\* flight, for every number of requests, chunks and retries and every length of
\* the id's cycle.
THEOREM AnswersAreMatched == Spec => []AnswersMatch
<1>1. IInv => AnswersMatch
  BY DEF IInv, Current, AnswersMatch
<1>. QED BY <1>1, Invariance, PTL

\* A read that on_ack reports as successful has returned each of its units, in
\* order, whatever the chunks, short answers, heartbeats between and
\* retransmissions.
THEOREM ReadsAreReassembled == Spec => []ReadsReassemble
<1>1. IInv => ReadsReassemble
  BY DEF IInv, Settled, UpTo, ReadsReassemble
<1>. QED BY <1>1, Invariance, PTL

\* The device has executed a prefix of every write, and all of one that was
\* reported as successful, whatever was retransmitted, executed twice, refused
\* half way or cut off by the shutdown.
THEOREM WritesAreLanded == Spec => []WritesLand
<1>1. IInv => WritesLand
  <2>. SUFFICES ASSUME IInv, NEW r \in Asked
                PROVE  /\ \E k \in 0..Units[r] : written[r] = 1..k
                       /\ handle[r] = "ok" /\ Kind[r] \in WriteKinds => written[r] = 1..Units[r]
    BY Zenon DEF WritesLand
  <2>1. PICK k \in 0..Units[r] : written[r] = 1..k
    BY Zenon DEF IInv, Landing
  <2>2. Units[r] \in Nat \ {0}
    BY ScenarioFacts DEF IInv, TypeOK
  <2>3. ASSUME handle[r] = "ok", Kind[r] \in WriteKinds
        PROVE  written[r] = 1..Units[r]
    <3>1. 1..Units[r] \subseteq written[r]
      BY <2>3 DEF IInv, Settled
    <3>2. Units[r] \in 1..k
      BY <2>1, <2>2, <3>1
    <3>. QED BY <2>1, <2>2, <3>2
  <2>. QED BY <2>1, <2>3
<1>. QED BY <1>1, Invariance, PTL

\* Nothing is sent after the write that gives control back, and that write is
\* not sent once control is lost (Runner::shutdown).
THEOREM ReleaseComesLast == Spec => ReleaseIsLast
<1>. DEFINE A == (control_lost /\ pc \in ShutdownStages) \/ (\E c \in net : c.req = Shutdown) => net' \subseteq net
<1>1. ASSUME IInv, [Next]_vars
      PROVE  [A]_vars
  <2>. SUFFICES ASSUME (control_lost /\ pc \in ShutdownStages) \/ pc \in Over
                PROVE  net' \subseteq net
    BY <1>1 DEF IInv, Released, Over
  <2>1. pc \in ShutdownStages
    BY Zenon DEF Over, ShutdownStages
  <2>2. CASE Callers \/ HasDied \/ DrainRest \/ DrainEnd \/ DropReceiver \/ Terminated \/ UNCHANGED vars
    BY <2>2 DEF Callers, HasDied, DrainRest, DrainEnd, DropReceiver, Terminated, vars, deviceVars
  <2>3. CASE ShutdownFail
    BY <2>3 DEF ShutdownFail, ReleaseControl, Over
  <2>4. CASE Device
    BY <2>4 DEF Device, DeviceExecute, DeviceRefuse, LoseCommand, DeviceEndsControl
  <2>5. CASE Loop
    BY <2>1, <2>5
       DEF Loop, LoopTest, DrainSocket, SocketEmpty, DrainCommands, CommandsEmpty, DeadlineAhead, Overdue,
           HeartbeatSkip, HeartbeatDue, Pump, ShutdownStages
  <2>. QED BY <1>1, <2>2, <2>3, <2>4, <2>5 DEF Next, Teardown
<1>. QED BY <1>1, Invariance, PTL DEF Spec, ReleaseIsLast

\* While a heartbeat is queued no other transaction starts: it is at the front,
\* where pump takes from, and continue_op looks there (check_heartbeat).
THEOREM HeartbeatsCutIn == Spec => HeartbeatCutsIn
<1>. DEFINE A == \A t \in inflight' :
                   (\E i \in 1..Len(queue) : queue[i].req = Heartbeat) /\ (\A u \in inflight : u.id # t.id)
                     => t.op.req = Heartbeat
<1>1. ASSUME IInv, [Next]_vars
      PROVE  [A]_vars
  <2>. SUFFICES ASSUME NEW t \in inflight', NEW i \in 1..Len(queue), queue[i].req = Heartbeat,
                       \A u \in inflight : u.id # t.id
                PROVE  t.op.req = Heartbeat
    OBVIOUS
  <2>1. queue[1].req = Heartbeat /\ queue # <<>> /\ queue \in Seq(OpSet) /\ Head(queue) = queue[1]
    BY <1>1 DEF IInv, HeartbeatFirst, TypeOK
  <2>2. inflight' # inflight
    OBVIOUS
  <2>3. ASSUME DrainSocket PROVE FALSE
    <3>1. PICK a \in answered, how \in {"full"} \cup OddAnswers : OnDatagram(a, how)
      BY <2>3, Zenon DEF DrainSocket
    <3>2. \A op : ContinueOp(op) => inflight' = {}
      BY <2>1 DEF ContinueOp
    <3>3. \A op, n : AckUnits(op, a, n) => inflight' = {}
      BY <3>2, Zenon DEF AckUnits
    <3>4. inflight' = {}
      BY <3>1, <3>3, Zenon DEF OnDatagram, AckHeartbeat, AckRequest, AckFails
    <3>. QED BY <3>4
  <2>4. CASE Overdue
    <3>1. PICK u \in inflight : inflight' = {[u EXCEPT !.tries_left = @ - 1]} \/ inflight' = {}
      BY <2>4 DEF Overdue
    <3>2. u \in InflightSet
      BY <1>1, Zenon DEF IInv, TypeOK
    <3>3. t.id = u.id
      BY <3>1, <3>2 DEF InflightSet
    <3>. QED BY <3>3
  <2>5. CASE Pump
    <3>1. inflight' = {} \/ \E id, c : inflight' = {[id |-> id, op |-> Head(queue), sent |-> c, tries_left |-> Retries]}
      BY <2>2, <2>5, Zenon DEF Pump, SendOp
    <3>. QED BY <2>1, <3>1
  <2>6. CASE ShutdownFail
    BY <2>6, Zenon DEF ShutdownFail
  <2>7. CASE Callers \/ HasDied \/ DrainRest \/ DrainEnd \/ DropReceiver \/ Device \/ LoopTest \/ SocketEmpty \/ DrainCommands
             \/ CommandsEmpty \/ DeadlineAhead \/ HeartbeatSkip \/ HeartbeatDue
    BY Zenon, <2>2, <2>7
       DEF Callers, HasDied, DrainRest, DrainEnd, DropReceiver, Device, DeviceExecute, DeviceRefuse, LoseCommand,
           DeviceEndsControl, LoopTest, SocketEmpty, DrainCommands, CommandsEmpty, DeadlineAhead, HeartbeatSkip,
           HeartbeatDue, workerVars
  <2>8. CASE UNCHANGED vars
    BY <2>2, <2>8 DEF vars, workerVars
  <2>. QED BY <1>1, <2>3, <2>4, <2>5, <2>6, <2>7, <2>8, Zenon DEF Next, Loop, Teardown, Terminated
<1>. QED BY <1>1, Invariance, PTL DEF Spec, HeartbeatCutsIn
=============================================================================
