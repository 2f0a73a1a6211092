------------------------ MODULE ControlWorkerLemmas -------------------------
(***************************************************************************)
(* The groundwork of ControlWorkerProofs: the inductive invariant of the   *)
(* control worker, facts on sequences and on the operators of the model,   *)
(* and that every step keeps the invariant which neither starts nor        *)
(* acknowledges a transaction.                                             *)
(***************************************************************************)
EXTENDS ControlWorker, TLAPS

\* An op on hand is a heartbeat, or a transfer that is not finished; a read has
\* collected exactly the units before the next one.
UpTo(r, n) == [i \in 1..n |-> <<r, i>>]

Unfinished(op) ==
  \/ op.req = Heartbeat /\ op.done = 0
  \/ /\ op.req \in Asked
     /\ op.done < Units[op.req]
     /\ Kind[op.req] \notin WriteKinds => op.acc = UpTo(op.req, op.done)

Progress ==
  /\ \A t \in inflight : Unfinished(t.op)
  /\ \A i \in 1..Len(queue) : Unfinished(queue[i])

\* Each queued op has the payload of its kind: pump never meets a mismatch.
Paired ==
  /\ Len(queued_payloads) = Len(queue)
  /\ \A i \in 1..Len(queue) : queued_payloads[i] = PendingSend(KindOf(queue[i]))

\* The transaction in flight has the id used last, and whatever carries that id
\* on the link is its command, or answers it.
Current ==
  \A t \in inflight :
    /\ t.id = next_id
    /\ t.sent = Command(t.op, t.id)
    /\ \A c \in net : c.id = t.id => c = t.sent
    /\ \A a \in answered : a.id = t.id => a.req = t.op.req /\ a.from = t.op.done + 1

\* A write request's units are executed from the first on without a hole: the
\* commands under way begin at most one past what is executed, an op counts
\* only executed units, and what is acknowledged is executed.
IsWrite(r) == r \in Asked /\ Kind[r] \in WriteKinds

Counted(op) == IsWrite(op.req) => 1..op.done \subseteq written[op.req]

Adjoins(c) ==
  /\ c.req \in Requests => c.req \in Asked
  /\ IsWrite(c.req) => /\ c.from > 0
                       /\ 1 .. c.from - 1 \subseteq written[c.req]
                       /\ c.from + c.n - 1 <= Units[c.req]

Landing ==
  /\ \A r \in Asked : \E k \in 0..Units[r] : written[r] = 1..k
  /\ \A t \in inflight : Counted(t.op)
  /\ \A i \in 1..Len(queue) : Counted(queue[i])
  /\ \A c \in net : Adjoins(c)
  /\ \A t \in inflight, a \in answered :
       a.id = t.id /\ a.status = "ok" /\ IsWrite(t.op.req) =>
         t.op.done + 1 .. t.op.done + t.sent.n \subseteq written[t.op.req]

\* What a request that succeeded has achieved.
Settled ==
  \A r \in Asked : handle[r] = "ok" =>
    IF Kind[r] \in WriteKinds THEN 1..Units[r] \subseteq written[r] ELSE value[r] = UpTo(r, Units[r])

\* A request is in one place at a time: with its caller, in the channel, queued
\* or in flight; and only those that are made are anywhere.
Single ==
  /\ \A r \in Requests : client[r] # "idle" => r \in Asked
  /\ \A i \in 1..Len(chan) : chan[i] # Shutdown => chan[i] \in Asked
  /\ \A i, j \in 1..Len(chan) : chan[i] = chan[j] /\ chan[i] # Shutdown => i = j
  /\ \A i, j \in 1..Len(queue) : queue[i].req = queue[j].req => i = j
  /\ \A i \in 1..Len(queue), t \in inflight : queue[i].req # t.op.req
  /\ \A i \in 1..Len(chan) : chan[i] \notin Held
  /\ \A r \in Requests : client[r] \in {"idle", "push"} =>
       r \notin Held /\ \A i \in 1..Len(chan) : chan[i] # r

\* A heartbeat waits at the front.
HeartbeatFirst == \A i \in 1..Len(queue) : queue[i].req = Heartbeat => i = 1

\* Control is given back by the shutdown and nowhere else.
Released ==
  \A c \in net : c.req = Shutdown => pc \in {"released", "draining", "exiting", "exited"}

IInv == TypeOK /\ Progress /\ Paired /\ Current /\ Landing /\ Settled /\ Single /\ HeartbeatFirst /\ Released

-----------------------------------------------------------------------------
\* Sequences, element by element.
LEMMA TailFacts ==
  ASSUME NEW S, NEW s \in Seq(S), s # <<>>
  PROVE  /\ Tail(s) \in Seq(S) /\ Head(s) \in S /\ Head(s) = s[1]
         /\ Len(s) \in Nat \ {0} /\ Len(Tail(s)) = Len(s) - 1
         /\ \A i \in 1..Len(Tail(s)) : i + 1 \in 1..Len(s) /\ Tail(s)[i] = s[i + 1]
OBVIOUS

\* A sequence with one element more at its end.
LEMMA AppendFacts ==
  ASSUME NEW S, NEW s \in Seq(S), NEW x \in S
  PROVE  /\ Append(s, x) \in Seq(S) /\ Len(s) \in Nat /\ Len(Append(s, x)) = Len(s) + 1
         /\ \A i \in 1..Len(s) + 1 : Append(s, x)[i] = IF i <= Len(s) THEN s[i] ELSE x
OBVIOUS

\* A sequence with one element more at its front.
LEMMA ConsFacts ==
  ASSUME NEW S, NEW s \in Seq(S), NEW x \in S
  PROVE  /\ <<x>> \o s \in Seq(S) /\ Len(s) \in Nat /\ Len(<<x>> \o s) = Len(s) + 1
         /\ \A i \in 1..Len(s) + 1 : (<<x>> \o s)[i] = IF i = 1 THEN x ELSE s[i - 1]
<1>1. <<x>> \in Seq(S) /\ Len(<<x>>) = 1 /\ <<x>>[1] = x
  OBVIOUS
<1>. QED BY <1>1

\* g is the concatenation of f and l, element by element.
Joined(g, f, l) ==
  /\ g = f \o l
  /\ Len(g) = Len(f) + Len(l)
  /\ \A i \in 1..Len(f) + Len(l) : g[i] = IF i <= Len(f) THEN f[i] ELSE l[i - Len(f)]

\* The elements of a concatenation.
LEMMA ConcatFacts ==
  ASSUME NEW S, NEW f \in Seq(S), NEW l \in Seq(S)
  PROVE  \E g \in Seq(S) : Joined(g, f, l)
<1>1. /\ f \o l \in Seq(S)
      /\ Len(f \o l) = Len(f) + Len(l)
      /\ \A i \in 1..Len(f) + Len(l) : (f \o l)[i] = IF i <= Len(f) THEN f[i] ELSE l[i - Len(f)]
  OBVIOUS
<1>. QED BY <1>1, Zenon DEF Joined

\* A sequence with an element put in second place.
LEMMA SecondFacts ==
  ASSUME NEW S, NEW s \in Seq(S), s # <<>>, NEW x \in S
  PROVE  \E g \in Seq(S) :
           /\ g = <<Head(s), x>> \o Tail(s)
           /\ Len(g) = Len(s) + 1
           /\ \A i \in 1..Len(g) : g[i] = IF i = 1 THEN s[1] ELSE IF i = 2 THEN x ELSE s[i - 1]
<1>1. PICK f \in Seq(S) : f = <<Head(s), x>> /\ Len(f) = 2 /\ f[1] = s[1] /\ f[2] = x
  <2>1. /\ <<Head(s), x>> \in Seq(S) /\ Len(<<Head(s), x>>) = 2
        /\ <<Head(s), x>>[1] = s[1] /\ <<Head(s), x>>[2] = x
    BY TailFacts
  <2>. QED BY <2>1, Zenon
<1>2. PICK l \in Seq(S) : l = Tail(s) /\ Len(l) = Len(s) - 1 /\ \A i \in 1..Len(l) : l[i] = s[i + 1]
  BY TailFacts, ZenonT(30)
<1>3. PICK g \in Seq(S) : Joined(g, f, l)
  BY ConcatFacts, Zenon
<1>4. Len(s) \in Nat \ {0} /\ Len(f) = 2 /\ f[1] = s[1] /\ f[2] = x /\ Len(l) = Len(s) - 1 /\ \A i \in 1..Len(l) : l[i] = s[i + 1]
  BY <1>1, <1>2, TailFacts
<1>5. Len(g) = Len(f) + Len(l) /\ \A i \in 1..Len(f) + Len(l) : g[i] = IF i <= Len(f) THEN f[i] ELSE l[i - Len(f)]
  BY <1>3, Zenon DEF Joined
<1>6. Len(g) = Len(s) + 1
  BY <1>4, <1>5
<1>7. ASSUME NEW i \in 1..Len(g)
      PROVE  g[i] = IF i = 1 THEN s[1] ELSE IF i = 2 THEN x ELSE s[i - 1]
  <2>1. g[i] = IF i <= 2 THEN f[i] ELSE l[i - 2]
    BY <1>4, <1>5, <1>6
  <2>2. ASSUME i > 2 PROVE i - 2 \in 1..Len(l) /\ l[i - 2] = s[i - 1]
    <3>1. Len(s) \in Nat \ {0} /\ Len(l) = Len(s) - 1
      BY <1>4, Zenon
    <3>2. i - 2 \in 1..Len(l) /\ (i - 2) + 1 = i - 1
      BY <1>6, <2>2, <3>1
    <3>. QED BY <1>4, <3>2, Zenon
  <2>3. i = 1 \/ i = 2 \/ i > 2
    BY <1>4, <1>6
  <2>. QED BY <1>4, <2>1, <2>2, <2>3
<1>8. g = <<Head(s), x>> \o Tail(s)
  BY <1>1, <1>2, <1>3, Zenon DEF Joined
<1>. QED BY <1>6, <1>7, <1>8, Zenon

-----------------------------------------------------------------------------
\* The scenario is one of those declared, ...
LEMMA ScenarioFacts ==
  ASSUME scenario \in Scenarios
  PROVE  /\ Asked \subseteq Requests
         /\ \A r \in Asked : Kind[r] \in RequestKinds /\ Units[r] \in Nat \ {0}
         /\ \A r \in Asked : Kind[r] = "ReadReg" => Units[r] = 1
         /\ DATA_SIZE_MAX \in Nat \ {0} /\ MaxId \in Nat \ {0} /\ Retries \in Nat
         /\ OddAnswers \subseteq {"nak", "wrong", "empty", "length"}
         /\ Concatenation \in BOOLEAN
BY ConstantsAssumption DEF Kind, Units, Asked, DATA_SIZE_MAX, MaxId, Retries, OddAnswers, Concatenation

\* The next chunk of an unfinished operation is not empty and does not go past
\* its end.
LEMMA ChunkFacts ==
  ASSUME scenario \in Scenarios, NEW op \in OpSet, Unfinished(op)
  PROVE  /\ Chunk(op) \in Nat \ {0}
         /\ op.req \in Asked => op.done + Chunk(op) <= Units[op.req]
         /\ KindOf(op) \in RequestKinds \cup {"Heartbeat"}
         /\ PendingSend(KindOf(op)) \in {"ReadRegs"} \cup RequestKinds
<1>1. op.done \in Nat /\ op.req \in Senders
  BY DEF OpSet
<1>2. CASE op.req = Heartbeat
  BY <1>1, <1>2, ScenarioFacts, ConstantsAssumption DEF Chunk, KindOf, PendingSend
<1>3. CASE op.req # Heartbeat
  <2>1. op.req \in Asked /\ op.done < Units[op.req]
    BY <1>3 DEF Unfinished
  <2>2. KindOf(op) = Kind[op.req]
    BY <1>3 DEF KindOf
  <2>. QED
    BY <1>1, <2>1, <2>2, ScenarioFacts
       DEF Chunk, PendingSend, regs_per_command, chunk_len, Least, RequestKinds, WriteKinds
<1>. QED BY <1>2, <1>3

\* ... and stays what it is, and so does what depends on nothing else.
LEMMA ScenarioFixed ==
  ASSUME scenario' = scenario
  PROVE  /\ Kind' = Kind /\ Units' = Units /\ Asked' = Asked
         /\ \A op : Unfinished(op)' <=> Unfinished(op)
         /\ \A op : Chunk(op)' = Chunk(op)
         /\ \A op : KindOf(op)' = KindOf(op)
         /\ \A op, id : Command(op, id)' = Command(op, id)
         /\ \A r : IsWrite(r)' <=> IsWrite(r)
<1>1. Kind' = Kind /\ Units' = Units /\ Asked' = Asked /\ Concatenation' = Concatenation /\ DATA_SIZE_MAX' = DATA_SIZE_MAX
  BY DEF Kind, Units, Asked, Concatenation, DATA_SIZE_MAX
<1>2. \A op : KindOf(op)' = KindOf(op)
  BY <1>1 DEF KindOf
<1>3. \A op : Chunk(op)' = Chunk(op)
  BY <1>1, <1>2, Zenon DEF Chunk, regs_per_command, chunk_len, Least
<1>4. \A op, id : Command(op, id)' = Command(op, id)
  BY <1>3 DEF Command
<1>5. \A op : Unfinished(op)' <=> Unfinished(op)
  BY <1>1 DEF Unfinished, UpTo
<1>6. \A r : IsWrite(r)' <=> IsWrite(r)
  BY <1>1 DEF IsWrite
<1>. QED BY <1>1, <1>2, <1>3, <1>4, <1>5, <1>6

-----------------------------------------------------------------------------
\* Op::fulfill and Op::fail keep the handles well-typed and first outcomes.
LEMMA FulfillFacts ==
  ASSUME NEW h \in [Requests -> Outcomes \cup {Unset}], NEW S, NEW o \in Outcomes
  PROVE  /\ Fulfill(h, S, o) \in [Requests -> Outcomes \cup {Unset}]
         /\ \A r \in Requests : Fulfill(h, S, o)[r] = "ok" => h[r] = "ok" \/ (o = "ok" /\ r \in S)
BY DEF Fulfill, Outcomes, Failures, Unset

\* The command of an op begins where the op has got to.
LEMMA CommandFacts ==
  ASSUME scenario \in Scenarios, NEW op \in OpSet, Unfinished(op), Counted(op), NEW id
  PROVE  /\ Adjoins(Command(op, id))
         /\ Command(op, id).id = id /\ Command(op, id).req = op.req
         /\ Command(op, id).from = op.done + 1 /\ Command(op, id).n = Chunk(op)
<1>1. op.req \in Senders /\ op.done \in Nat
  BY DEF OpSet
<1>2. /\ Command(op, id).id = id /\ Command(op, id).req = op.req
      /\ Command(op, id).from = op.done + 1 /\ Command(op, id).n = Chunk(op)
  BY DEF Command
<1>3. op.req \in Requests => op.req \in Asked
  BY ConstantsAssumption DEF Unfinished
<1>4. IsWrite(op.req) =>
        op.done + 1 > 0 /\ 1..op.done \subseteq written[op.req] /\ op.done + Chunk(op) <= Units[op.req]
  BY <1>1, ChunkFacts DEF Counted, IsWrite
<1>5. op.done + 1 - 1 = op.done /\ (op.done + 1) + Chunk(op) - 1 = op.done + Chunk(op)
  BY <1>1, ChunkFacts
<1>6. ASSUME NEW c, c.req = op.req, c.from = op.done + 1, c.n = Chunk(op)
      PROVE  Adjoins(c)
  <2>1. c.from > 0 /\ c.from - 1 = op.done /\ c.from + c.n - 1 = op.done + Chunk(op)
    BY <1>1, <1>5, <1>6
  <2>2. 1 .. c.from - 1 = 1..op.done
    BY <2>1
  <2>. QED BY <1>3, <1>4, <1>6, <2>1, <2>2, Zenon DEF Adjoins
<1>. QED BY <1>2, <1>6

\* send_op: what is in flight afterwards is alone under its id.
LEMMA SendOpFacts ==
  ASSUME TypeOK, Landing, scenario' = scenario, written' = written,
         NEW op \in OpSet, Unfinished(op), Counted(op), NEW send, SendOp(op, send)
  PROVE  /\ next_id' \in Nat
         /\ \A t \in inflight' : t \in InflightSet /\ t.op = op
         /\ \A t, u \in inflight' : t = u
         /\ net' \subseteq CommandSet /\ answered' \subseteq answered
         /\ Current'
         /\ \A c \in net' : c \in net \/ c.req = op.req
         /\ \A c \in net' : Adjoins(c)'
         /\ \A t \in inflight', a \in answered' : a.id # t.id
         /\ \/ handle' = handle
            \/ inflight' = {} /\ \E o \in {"protocol", "io"} : handle' = FailOp(op, o)
<1>. DEFINE id == NextId(next_id)
            c0 == Command(op, id)
            t0 == [id |-> id, op |-> op, sent |-> c0, tries_left |-> Retries]
<1>a. scenario \in Scenarios /\ next_id \in Nat /\ net \subseteq CommandSet /\ answered \subseteq AnswerSet
  BY DEF TypeOK
<1>1. id \in Nat /\ next_id' = id
  BY <1>a, ScenarioFacts DEF NextId, SendOp
<1>2. op.req \in Senders /\ op.done \in Nat /\ Chunk(op) \in Nat
  BY <1>a, ChunkFacts DEF OpSet
<1>3. c0 = [id |-> id, req |-> op.req, from |-> op.done + 1, n |-> Chunk(op)] /\ c0 \in CommandSet
  BY <1>1, <1>2 DEF Command, CommandSet
<1>. HIDE DEF id, c0
<1>4. t0 \in InflightSet
  BY <1>a, <1>1, <1>3, ScenarioFacts DEF InflightSet
<1>5. \A c : Adjoins(c)' <=> Adjoins(c)
  BY ScenarioFixed DEF Adjoins
<1>6. \A c \in net : Adjoins(c)
  BY DEF Landing
<1>7. Adjoins(c0)
  BY <1>a, CommandFacts DEF c0
<1>8. CASE /\ net' = Fresh(net, id) \cup {c0}
           /\ answered' = Fresh(answered, id)
           /\ inflight' = {t0}
           /\ UNCHANGED handle
  <2>1. \A c \in net' : c = c0 \/ (c \in net /\ c.id # id)
    BY <1>8 DEF Fresh
  <2>2. \A a \in answered' : a \in answered /\ a.id # id
    BY <1>8 DEF Fresh
  <2>3. t0.id = id /\ t0.op = op /\ t0.sent = c0
    OBVIOUS
  <2>4. c0 = Command(op, id)
    BY DEF c0
  <2>5. \A o, i : Command(o, i)' = Command(o, i)
    BY ScenarioFixed
  <2>6. ASSUME NEW t \in inflight'
        PROVE  /\ t.id = next_id'
               /\ t.sent = Command(t.op, t.id)'
               /\ \A c \in net' : c.id = t.id => c = t.sent
               /\ \A a \in answered' : a.id # t.id
    <3>1. t = t0
      BY <1>8
    <3>2. t.id = id /\ t.op = op /\ t.sent = c0
      BY <2>3, <3>1
    <3>3. t.sent = Command(t.op, t.id)'
      BY <2>4, <2>5, <3>2, Zenon
    <3>. QED BY <1>1, <2>1, <2>2, <3>2, <3>3
  <2>7. Current'
    BY <2>6 DEF Current
  <2>. QED BY <1>1, <1>3, <1>4, <1>5, <1>6, <1>7, <1>8, <1>a, <2>1, <2>2, <2>6, <2>7
<1>9. CASE /\ \E o \in {"protocol", "io"} : handle' = FailOp(op, o)
           /\ inflight' = {}
           /\ UNCHANGED <<net, answered>>
  BY <1>1, <1>5, <1>6, <1>9, <1>a DEF Current
<1>. QED BY <1>8, <1>9 DEF SendOp, id, c0

\* The device executes a command of a write, in full or in part.
LEMMA WriteFacts ==
  ASSUME TypeOK, Landing, scenario' = scenario, NEW c \in net, NEW k \in 0..c.n, Write(c, k)
  PROVE  /\ written' \in [Requests -> SUBSET Nat]
         /\ \A r \in Requests : written[r] \subseteq written'[r]
         /\ \A r \in Asked : \E m \in 0..Units[r] : written'[r] = 1..m
         /\ IsWrite(c.req) => c.from .. c.from + k - 1 \subseteq written'[c.req]
<1>1. /\ written \in [Requests -> SUBSET Nat] /\ Asked \subseteq Requests
      /\ \A r \in Asked : Units[r] \in Nat /\ \E m \in 0..Units[r] : written[r] = 1..m
      /\ c.from \in Nat /\ c.n \in Nat
  BY ScenarioFacts DEF TypeOK, Landing, CommandSet
<1>2. Adjoins(c)
  BY DEF Landing
<1>3. CASE IsWrite(c.req)
  <2>1. written' = [written EXCEPT ![c.req] = @ \cup (c.from .. c.from + k - 1)]
    BY <1>1, <1>3 DEF Write, IsWrite
  <2>2. PICK m \in 0..Units[c.req] : written[c.req] = 1..m
    BY <1>1, <1>3 DEF IsWrite
  <2>3. c.req \in Requests /\ written'[c.req] = written[c.req] \cup (c.from .. c.from + k - 1)
    BY <1>1, <1>3, <2>1 DEF IsWrite
  <2>4. \A r \in Requests : r # c.req => written'[r] = written[r]
    BY <1>1, <2>1
  <2>5. c.from > 0 /\ c.from + c.n - 1 <= Units[c.req] /\ 1 .. c.from - 1 \subseteq 1..m /\ Units[c.req] \in Nat
    BY <1>1, <1>2, <1>3, <2>2 DEF Adjoins, IsWrite
  <2>6. c.from - 1 <= m
    <3>1. c.from - 1 > 0 => c.from - 1 \in 1 .. c.from - 1
      BY <1>1, <2>5
    <3>. QED BY <1>1, <2>5, <3>1
  <2>7. \E j \in 0..Units[c.req] : written'[c.req] = 1..j
    <3>1. CASE c.from + k - 1 <= m
      <4>1. (c.from .. c.from + k - 1) \subseteq 1..m
        BY <1>1, <2>5, <3>1
      <4>2. written'[c.req] = 1..m
        BY <2>2, <2>3, <4>1
      <4>. QED BY <4>2
    <3>2. CASE c.from + k - 1 > m
      <4>1. (1..m) \cup (c.from .. c.from + k - 1) = 1 .. c.from + k - 1
        BY <1>1, <2>5, <2>6, <3>2
      <4>2. c.from + k - 1 \in 0..Units[c.req]
        BY <1>1, <2>5, <3>2
      <4>. QED BY <2>2, <2>3, <4>1, <4>2
    <3>. QED BY <1>1, <3>1, <3>2
  <2>8. written' \in [Requests -> SUBSET Nat]
    <3>1. written[c.req] \cup (c.from .. c.from + k - 1) \in SUBSET Nat
      BY <1>1, <2>3, <2>5
    <3>. QED BY <1>1, <2>1, <3>1, Zenon
  <2>9. \A r \in Asked : \E j \in 0..Units[r] : written'[r] = 1..j
    BY <1>1, <2>4, <2>7
  <2>. QED BY <2>3, <2>4, <2>8, <2>9
<1>4. CASE ~IsWrite(c.req)
  <2>1. written' = written
    BY <1>2, <1>4 DEF Write, IsWrite, Adjoins
  <2>. QED BY <1>1, <1>4, <2>1
<1>. QED BY <1>3, <1>4

-----------------------------------------------------------------------------
\* The inductive invariant, one action at a time.
LEMMA InitInv == Init => IInv
<1>. SUFFICES ASSUME Init PROVE IInv
  OBVIOUS
<1>1. TypeOK
  <2>1. PortTypeOK
    <3>1. client \in [Requests -> {"idle", "push", "recheck", "done"}] /\ chan \in Seq(Messages)
      BY DEF Init, PortInit
    <3>2. handle \in [Requests -> Outcomes \cup {Unset}]
      BY DEF Init, PortInit
    <3>. QED BY <3>1, <3>2, Zenon DEF Init, PortInit, PortTypeOK
  <2>2. value \in [Requests -> Seq(UnitSet)] /\ queue \in Seq(OpSet) /\ queued_payloads \in Seq({"ReadRegs"} \cup RequestKinds)
    BY DEF Init
  <2>. QED BY <2>1, <2>2, Zenon DEF Init, TypeOK, LoopStages
<1>2. Asked \subseteq Requests /\ \A r \in Asked : Units[r] \in Nat /\ written[r] = 1..0
  BY ScenarioFacts DEF Init
<1>3. Landing
  <2>1. \A r \in Asked : 0 \in 0..Units[r]
    BY <1>2
  <2>. QED BY <1>2, <2>1 DEF Init, Landing
<1>4. Settled
  BY <1>2 DEF Init, PortInit, Settled, Unset
<1>5. Held = {}
  BY DEF Held, Init
<1>6. Progress /\ Paired /\ Current /\ HeartbeatFirst /\ Released
  BY DEF Init, Progress, Paired, Current, HeartbeatFirst, Released
<1>7. Single
  BY <1>5 DEF Init, PortInit, Single
<1>. QED BY <1>1, <1>3, <1>4, <1>6, <1>7 DEF IInv

Over == {"released", "draining", "exiting", "exited"}

\* The steps that touch no request: the turns of the loop, the flags, the
\* owner's waiting.
LEMMA QuietStep ==
  ASSUME IInv,
         UNCHANGED <<scenario, client, chan, handle, queue, queued_payloads, inflight, next_id, value, net,
                     answered, written>>,
         owner' \in {"connected", "push", "wait", "join", "joined"},
         rx_open' \in BOOLEAN, is_alive' \in BOOLEAN, should_die' \in BOOLEAN,
         control_lost' \in BOOLEAN, shared_control_lost' \in BOOLEAN, ccp' \in BOOLEAN,
         pc' \in LoopStages \cup ShutdownStages, pc \in Over => pc' \in Over
  PROVE  IInv'
<1>1. TypeOK'
  BY Zenon DEF IInv, TypeOK, PortTypeOK
<1>2. Kind' = Kind /\ Units' = Units /\ Asked' = Asked /\ Held' = Held
  BY ScenarioFixed, Zenon DEF Held
<1>3. Progress'
  BY ScenarioFixed DEF IInv, Progress
<1>4. Paired'
  BY ScenarioFixed DEF IInv, Paired, PendingSend
<1>5. Current'
  BY ScenarioFixed DEF IInv, Current
<1>6. Landing'
  BY <1>2, ScenarioFixed DEF IInv, Landing, Counted, Adjoins
<1>7. Settled'
  BY <1>2, Zenon DEF IInv, Settled, UpTo
<1>8. Single'
  BY <1>2 DEF IInv, Single
<1>9. HeartbeatFirst' /\ Released'
  BY DEF IInv, HeartbeatFirst, Released, Over
<1>. QED BY <1>1, <1>3, <1>4, <1>5, <1>6, <1>7, <1>8, <1>9 DEF IInv

\* The steps of the callers and the last drain touch only the channel and the
\* handles.
LEMMA PortStep ==
  ASSUME IInv, UNCHANGED <<scenario, workerVars, deviceVars>>, PortTypeOK', Single',
         \A r \in Requests : handle'[r] = "ok" => handle[r] = "ok"
  PROVE  IInv'
<1>. USE DEF workerVars, deviceVars
<1>1. TypeOK'
  BY DEF IInv, TypeOK
<1>2. Kind' = Kind /\ Units' = Units /\ Asked' = Asked /\ Asked \subseteq Requests
  BY ScenarioFixed, ScenarioFacts, Zenon DEF IInv, TypeOK
<1>3. Progress'
  BY ScenarioFixed DEF IInv, Progress
<1>4. Paired'
  BY ScenarioFixed DEF IInv, Paired, PendingSend
<1>5. Current'
  BY ScenarioFixed DEF IInv, Current
<1>6. Landing'
  BY <1>2, ScenarioFixed DEF IInv, Landing, Counted, Adjoins
<1>7. Settled'
  BY <1>2 DEF IInv, Settled, UpTo
<1>8. HeartbeatFirst' /\ Released'
  BY DEF IInv, HeartbeatFirst, Released
<1>. QED BY <1>1, <1>3, <1>4, <1>5, <1>6, <1>7, <1>8 DEF IInv

\* The outcomes a worker that ends gives are failures.
LEMMA EndingOutcomes == Cause \in Outcomes \ {"ok"} /\ "disconnected" \in Outcomes \ {"ok"}
BY DEF Cause, Outcomes, Failures

\* A handle that is failed is not made to succeed.
LEMMA FailFacts ==
  ASSUME handle \in [Requests -> Outcomes \cup {Unset}], NEW S, NEW o \in Outcomes \ {"ok"}, handle' = Fulfill(handle, S, o)
  PROVE  /\ handle' \in [Requests -> Outcomes \cup {Unset}]
         /\ \A r \in Requests : handle'[r] = "ok" => handle[r] = "ok"
BY FulfillFacts

\* A caller submits a request (ControlPort::send).
LEMMA SubmitStep ==
  ASSUME IInv, NEW r \in Asked, Submit(r), UNCHANGED <<scenario, workerVars, deviceVars>>
  PROVE  IInv'
<1>1. r \in Requests /\ PortTypeOK /\ Asked' = Asked /\ Held' = Held
  BY ScenarioFixed, ScenarioFacts DEF IInv, TypeOK, Held, workerVars
<1>2. Single
  BY DEF IInv
<1>3. /\ handle' \in [Requests -> Outcomes \cup {Unset}]
      /\ \A q \in Requests : handle'[q] = "ok" => handle[q] = "ok"
  <2>1. handle' = handle \/ handle' = Fulfill(handle, {r}, "disconnected")
    BY DEF Submit, SendCheck, SendPush, SendRecheck
  <2>. QED BY <1>1, <2>1, FailFacts, EndingOutcomes DEF PortTypeOK
<1>4. CASE chan' = chan
  <2>1. \A q \in Requests : client'[q] = client[q] \/ (q = r /\ (client'[q] \in {"recheck", "done"} \/ (client[q] = "idle" /\ client'[q] = "push")))
    BY <1>1 DEF Submit, SendCheck, SendPush, SendRecheck, PortTypeOK
  <2>2. PortTypeOK'
    BY <1>1, <1>3, <1>4, Zenon DEF Submit, SendCheck, SendPush, SendRecheck, PortTypeOK
  <2>3. Single'
    BY <1>1, <1>2, <1>4, <2>1 DEF Single, workerVars
  <2>. QED BY <1>3, <2>2, <2>3, PortStep
<1>5. CASE chan' # chan
  <2>1. /\ client[r] = "push" /\ chan' = Append(chan, r)
        /\ client' = [client EXCEPT ![r] = "recheck"]
        /\ UNCHANGED <<owner, rx_open, is_alive, should_die>>
    BY <1>5 DEF Submit, SendCheck, SendPush, SendRecheck
  <2>2. r \in Messages /\ chan \in Seq(Messages)
    BY <1>1, Zenon DEF Messages, PortTypeOK
  <2>3. /\ chan' \in Seq(Messages) /\ Len(chan) \in Nat /\ Len(chan') = Len(chan) + 1
        /\ \A i \in 1..Len(chan) + 1 : chan'[i] = IF i <= Len(chan) THEN chan[i] ELSE r
    BY <2>1, <2>2, AppendFacts
  <2>4. PortTypeOK'
    BY <1>1, <1>3, <2>1, <2>3 DEF PortTypeOK
  <2>5. r \notin Held /\ \A i \in 1..Len(chan) : chan[i] # r
    BY <1>1, <1>2, <2>1, Zenon DEF Single
  <2>6. Single'
    <3>1. \A i \in 1..Len(chan') : (i \in 1..Len(chan) /\ chan'[i] = chan[i]) \/ (i = Len(chan) + 1 /\ chan'[i] = r)
      BY <2>3
    <3>2. \A q \in Requests : (client'[q] = client[q] /\ q # r) \/ (q = r /\ client'[q] = "recheck")
      BY <1>1, <2>1 DEF PortTypeOK
    <3>3. UNCHANGED <<queue, inflight>> /\ Held' = Held /\ r \in Asked
      BY <1>1, <1>2, <2>1, Zenon DEF workerVars, Held, Single
    <3>4. \A q \in Requests : client'[q] # "idle" => q \in Asked'
      BY <1>1, <1>2, <3>2, <3>3, Zenon DEF Single
    <3>5. /\ \A i \in 1..Len(chan') : chan'[i] # Shutdown => chan'[i] \in Asked'
          /\ \A i \in 1..Len(chan') : chan'[i] \notin Held'
      BY <1>1, <1>2, <2>5, <3>1, <3>3, Zenon DEF Single
    <3>6. \A i, j \in 1..Len(chan') : chan'[i] = chan'[j] /\ chan'[i] # Shutdown => i = j
      <4>1. \A i, j \in 1..Len(chan) : chan[i] = chan[j] /\ chan[i] # Shutdown => i = j
        BY <1>2, Zenon DEF Single
      <4>. QED BY <2>5, <3>1, <4>1, Zenon
    <3>7. \A q \in Requests : client'[q] \in {"idle", "push"} =>
            q \notin Held' /\ \A i \in 1..Len(chan') : chan'[i] # q
      <4>1. \A q \in Requests : client[q] \in {"idle", "push"} =>
              q \notin Held /\ \A i \in 1..Len(chan) : chan[i] # q
        BY <1>2, Zenon DEF Single
      <4>. QED BY <3>1, <3>2, <3>3, <4>1, Zenon
    <3>8. /\ \A i, j \in 1..Len(queue') : queue'[i].req = queue'[j].req => i = j
          /\ \A i \in 1..Len(queue'), t \in inflight' : queue'[i].req # t.op.req
      BY <1>2, <3>3, Zenon DEF Single
    <3>. QED BY <3>4, <3>5, <3>6, <3>7, <3>8, Zenon DEF Single
  <2>. QED BY <1>3, <2>4, <2>6, PortStep
<1>. QED BY <1>4, <1>5, Zenon

\* The camera disconnects and joins the worker.
LEMMA OwnerStep ==
  ASSUME IInv, Disconnect \/ Join(pc = "exited"), UNCHANGED <<scenario, workerVars, deviceVars>>
  PROVE  IInv'
<1>1. PortTypeOK /\ Asked' = Asked /\ Held' = Held /\ Single
  BY ScenarioFixed, Zenon DEF IInv, TypeOK, Held, workerVars
<1>2. CASE chan' = chan
  <2>1. PortTypeOK' /\ UNCHANGED <<client, handle>>
    BY <1>1, <1>2, ZenonT(30) DEF Disconnect, DisconnectCheck, DisconnectPush, RequestStop, Join, PortTypeOK
  <2>2. Single'
    BY <1>1, <1>2, <2>1 DEF Single, workerVars
  <2>. QED BY <2>1, <2>2, PortStep
<1>3. CASE chan' # chan
  <2>1. chan' = Append(chan, Shutdown) /\ owner' = "wait" /\ UNCHANGED <<client, rx_open, is_alive, should_die, handle>>
    BY <1>3 DEF Disconnect, DisconnectCheck, DisconnectPush, RequestStop, Join
  <2>2. Shutdown \in Messages /\ chan \in Seq(Messages)
    BY <1>1 DEF Messages, PortTypeOK
  <2>3. /\ chan' \in Seq(Messages) /\ Len(chan) \in Nat /\ Len(chan') = Len(chan) + 1
        /\ \A i \in 1..Len(chan) + 1 : chan'[i] = IF i <= Len(chan) THEN chan[i] ELSE Shutdown
    BY <2>1, <2>2, AppendFacts
  <2>4. PortTypeOK'
    BY <1>1, <2>1, <2>3 DEF PortTypeOK
  <2>5. Shutdown \notin Held /\ Shutdown \notin Requests
    BY ShutdownAssumption, Zenon DEF Held
  <2>6. Single'
    <3>1. \A i \in 1..Len(chan') : (i \in 1..Len(chan) /\ chan'[i] = chan[i]) \/ (i = Len(chan) + 1 /\ chan'[i] = Shutdown)
      BY <2>3
    <3>2. UNCHANGED <<queue, inflight>>
      BY DEF workerVars
    <3>. QED BY <1>1, <2>1, <2>5, <3>1, <3>2 DEF Single
  <2>. QED BY <2>1, <2>4, <2>6, PortStep
<1>. QED BY <1>2, <1>3

\* The worker that ends fails what still lies in the channel.
LEMMA DrainRestStep ==
  ASSUME IInv, DrainRest
  PROVE  IInv'
<1>1. PortTypeOK /\ Asked' = Asked /\ Held' = Held /\ Single
  BY ScenarioFixed DEF IInv, TypeOK, Held, DrainRest, workerVars
<1>2. /\ chan # <<>> /\ chan' = Tail(chan) /\ UNCHANGED <<client, owner, rx_open, is_alive, should_die, queue, inflight>>
      /\ handle' = Fulfill(handle, {Head(chan)}, Cause)
  BY DEF DrainRest, workerVars
<1>3. /\ chan' \in Seq(Messages) /\ Len(chan) \in Nat /\ Len(chan') = Len(chan) - 1
      /\ \A i \in 1..Len(chan') : i + 1 \in 1..Len(chan) /\ chan'[i] = chan[i + 1]
  BY <1>1, <1>2, TailFacts DEF PortTypeOK
<1>4. /\ handle' \in [Requests -> Outcomes \cup {Unset}]
      /\ \A r \in Requests : handle'[r] = "ok" => handle[r] = "ok"
  BY <1>1, <1>2, FailFacts, EndingOutcomes, Zenon DEF PortTypeOK
<1>5. PortTypeOK'
  BY <1>1, <1>2, <1>3, <1>4, ZenonT(30) DEF PortTypeOK
<1>6. Single'
  BY <1>1, <1>2, <1>3 DEF Single
<1>. QED BY <1>4, <1>5, <1>6, PortStep, ZenonT(30) DEF DrainRest

\* The device carries out a prefix of a command and answers it.
LEMMA DeviceAnswerStep ==
  ASSUME IInv, NEW c \in net, NEW k \in 0..c.n, Write(c, k), ccp' \in BOOLEAN,
         NEW status \in {"ok", "nak"}, status = "ok" => k = c.n,
         answered' = answered \cup {Answer(c, status)},
         UNCHANGED <<scenario, portVars, workerVars, net>>
  PROVE  IInv'
<1>. DEFINE new == Answer(c, status)
<1>. USE DEF workerVars, portVars
<1>1. TypeOK /\ c \in CommandSet /\ Asked \subseteq Requests /\ Asked' = Asked /\ Kind' = Kind /\ Units' = Units
  BY ScenarioFacts, ScenarioFixed DEF IInv, TypeOK
<1>2. /\ written' \in [Requests -> SUBSET Nat]
      /\ \A r \in Requests : written[r] \subseteq written'[r]
      /\ \A r \in Asked : \E m \in 0..Units[r] : written'[r] = 1..m
      /\ IsWrite(c.req) => c.from .. c.from + k - 1 \subseteq written'[c.req]
  BY <1>1, WriteFacts, ZenonT(30) DEF IInv
<1>3. /\ new \in AnswerSet
      /\ new.id = c.id /\ new.req = c.req /\ new.from = c.from /\ new.status = status
  <2>1. (ccp \/ c.req # Heartbeat) \in BOOLEAN
    BY <1>1 DEF TypeOK
  <2>. QED BY <1>1, <2>1 DEF Answer, AnswerSet, CommandSet
<1>. HIDE DEF new
<1>4. \A a \in answered' : a \in answered \/ a = new
  BY Zenon DEF new
<1>5. TypeOK'
  <2>1. answered' \subseteq AnswerSet
    BY <1>1, <1>3, <1>4, ZenonT(30) DEF TypeOK
  <2>. QED BY <1>1, <1>2, <2>1 DEF TypeOK, PortTypeOK
<1>6. ASSUME NEW t \in inflight, c.id = t.id
      PROVE  /\ c = t.sent /\ c.req = t.op.req /\ c.from = t.op.done + 1
             /\ t.op.done \in Nat /\ c.n = t.sent.n /\ c.n \in Nat
  <2>1. c = t.sent /\ t.sent = Command(t.op, t.id)
    BY <1>6, Zenon DEF IInv, Current
  <2>2. t.op.done \in Nat /\ c.n \in Nat
    BY <1>1, Zenon DEF TypeOK, InflightSet, OpSet, CommandSet
  <2>3. Command(t.op, t.id).req = t.op.req /\ Command(t.op, t.id).from = t.op.done + 1
    BY Zenon DEF Command
  <2>. QED BY <2>1, <2>2, <2>3, Zenon
<1>7. Current'
  <2>1. Current
    BY Zenon DEF IInv
  <2>. QED BY <1>3, <1>4, <1>6, <2>1, ScenarioFixed DEF Current
<1>8. Landing'
  <2>1. \A op : Counted(op) => Counted(op)'
    BY <1>1, <1>2, ScenarioFixed, ZenonT(30) DEF Counted, IsWrite
  <2>2. \A d : Adjoins(d) => Adjoins(d)'
    BY <1>1, <1>2, ScenarioFixed, Zenon DEF Adjoins, IsWrite
  <2>3. ASSUME NEW t \in inflight, NEW a \in answered', a.id = t.id, a.status = "ok", IsWrite(t.op.req)
        PROVE  t.op.done + 1 .. t.op.done + t.sent.n \subseteq written'[t.op.req]
    <3>1. CASE a \in answered
      <4>1. t.op.done + 1 .. t.op.done + t.sent.n \subseteq written[t.op.req]
        BY <2>3, <3>1 DEF IInv, Landing
      <4>2. t.op.req \in Requests
        BY <1>1, <2>3, ZenonT(30) DEF IsWrite
      <4>. QED BY <1>2, <4>1, <4>2, Zenon
    <3>2. CASE a = new
      <4>1. c.id = t.id /\ k = c.n
        BY <1>3, <2>3, <3>2, Zenon
      <4>2. c.from = t.op.done + 1 /\ t.op.done \in Nat /\ c.n = t.sent.n /\ c.n \in Nat /\ c.req = t.op.req
        BY <1>6, <4>1, Zenon
      <4>3. c.from + k - 1 = t.op.done + t.sent.n
        BY <4>1, <4>2
      <4>. QED BY <1>2, <2>3, <4>2, <4>3, Zenon
    <3>. QED BY <1>4, <3>1, <3>2, Zenon
  <2>4. UNCHANGED <<inflight, queue, net>>
    BY Zenon
  <2>. QED BY <1>1, <1>2, <2>1, <2>2, <2>3, <2>4, ScenarioFixed, Zenon DEF IInv, Landing
<1>9. Settled'
  BY <1>1, <1>2, Zenon DEF IInv, Settled, UpTo
<1>10. Progress' /\ Paired'
  BY ScenarioFixed, Zenon DEF IInv, Progress, Paired, PendingSend
<1>11. Held' = Held
  BY DEF Held
<1>12. Single' /\ HeartbeatFirst' /\ Released'
  BY <1>1, <1>11, ZenonT(30) DEF IInv, Single, HeartbeatFirst, Released
<1>. QED BY <1>5, <1>7, <1>8, <1>9, <1>10, <1>12, Zenon DEF IInv

\* The device answers, refuses or forgets.
LEMMA DeviceStep ==
  ASSUME IInv, Device
  PROVE  IInv'
<1>1. ASSUME NEW c \in net, DeviceExecute(c)
      PROVE  IInv'
  <2>1. c.n \in 0..c.n /\ ccp' \in BOOLEAN
    BY <1>1 DEF IInv, TypeOK, CommandSet, DeviceExecute
  <2>. QED BY <1>1, <2>1, DeviceAnswerStep DEF DeviceExecute
<1>2. ASSUME NEW c \in net, DeviceRefuse(c)
      PROVE  IInv'
  <2>1. PICK k \in 0 .. c.n - 1 : Write(c, k)
    BY <1>2 DEF DeviceRefuse
  <2>2. k \in 0..c.n /\ ccp' \in BOOLEAN
    BY <1>2 DEF IInv, TypeOK, CommandSet, DeviceRefuse
  <2>. QED BY <1>2, <2>1, <2>2, DeviceAnswerStep DEF DeviceRefuse
<1>3. ASSUME NEW c \in net, LoseCommand(c)
      PROVE  IInv'
  <2>. USE <1>3 DEF LoseCommand, portVars, workerVars
  <2>1. net' \subseteq net
    BY Zenon
  <2>2. TypeOK' /\ Kind' = Kind /\ Units' = Units /\ Asked' = Asked /\ Held' = Held
    BY <2>1, ScenarioFixed, ZenonT(60) DEF IInv, TypeOK, PortTypeOK, Held
  <2>3. Progress' /\ Paired'
    BY ScenarioFixed, Zenon DEF IInv, Progress, Paired, PendingSend
  <2>4. Current'
    <3>1. \A o, id : Command(o, id)' = Command(o, id)
      BY ScenarioFixed
    <3>2. UNCHANGED <<inflight, next_id, answered>> /\ Current
      BY Zenon DEF IInv
    <3>. QED BY <2>1, <3>1, <3>2, Zenon DEF Current
  <2>5. Landing'
    BY <2>1, <2>2, ScenarioFixed, ZenonT(30) DEF IInv, Landing, Counted, Adjoins
  <2>6. Settled'
    BY <2>2, Zenon DEF IInv, Settled, UpTo
  <2>7. Single' /\ HeartbeatFirst' /\ Released'
    BY <2>1, <2>2, ZenonT(30) DEF IInv, Single, HeartbeatFirst, Released
  <2>. QED BY <2>2, <2>3, <2>4, <2>5, <2>6, <2>7 DEF IInv
<1>4. CASE DeviceEndsControl
  <2>1. TypeOK
    BY DEF IInv
  <2>. QED BY <1>4, <2>1, QuietStep, Zenon DEF DeviceEndsControl, portVars, workerVars, TypeOK, PortTypeOK
<1>. QED BY <1>1, <1>2, <1>3, <1>4 DEF Device

\* A step that leaves the callers and the channel alone keeps requests in one
\* place, when the worker holds none it did not hold and none twice.
LEMMA SingleStep ==
  ASSUME Single, Asked' = Asked, UNCHANGED <<client, chan>>, Held' \subseteq Held,
         \A i, j \in 1..Len(queue') : queue'[i].req = queue'[j].req => i = j,
         \A i \in 1..Len(queue'), t \in inflight' : queue'[i].req # t.op.req
  PROVE  Single'
<1>1. /\ \A r \in Requests : client[r] # "idle" => r \in Asked
      /\ \A i \in 1..Len(chan) : chan[i] # Shutdown => chan[i] \in Asked
      /\ \A i, j \in 1..Len(chan) : chan[i] = chan[j] /\ chan[i] # Shutdown => i = j
  BY Zenon DEF Single
<1>2. \A i \in 1..Len(chan) : chan[i] \notin Held'
  BY Zenon DEF Single
<1>3. \A r \in Requests : client[r] \in {"idle", "push"} =>
        r \notin Held' /\ \A i \in 1..Len(chan) : chan[i] # r
  BY ZenonT(30) DEF Single
<1>. QED BY <1>1, <1>2, <1>3 DEF Single

\* What holds when the queue stays and nothing new is in flight.
LEMMA FlightSingle ==
  ASSUME IInv, UNCHANGED <<scenario, client, chan, queue>>,
         \A t \in inflight' : \E u \in inflight : u.op.req = t.op.req
  PROVE  Single'
<1>1. Asked' = Asked /\ Held' \subseteq Held
  BY ScenarioFixed DEF Held
<1>2. Single
  BY DEF IInv
<1>3. \A i \in 1..Len(queue), t \in inflight' : queue[i].req # t.op.req
  <2>1. \A i \in 1..Len(queue), u \in inflight : queue[i].req # u.op.req
    BY <1>2, Zenon DEF Single
  <2>. QED BY <2>1, ZenonT(30)
<1>4. \A i, j \in 1..Len(queue) : queue[i].req = queue[j].req => i = j
  BY <1>2, Zenon DEF Single
<1>. QED BY <1>1, <1>2, <1>3, <1>4, SingleStep, Zenon

\* A transaction past its deadline is sent again or given up (check_deadline).
LEMMA OverdueStep ==
  ASSUME IInv, Overdue
  PROVE  IInv'
<1>. USE DEF deviceVars
<1>1. /\ UNCHANGED <<scenario, client, owner, chan, rx_open, is_alive, should_die, queue, queued_payloads, next_id,
                     shared_control_lost, value, answered, ccp, written>>
      /\ pc = "deadline" /\ pc' = "heartbeat"
  BY Zenon DEF Overdue
<1>2. TypeOK /\ PortTypeOK /\ Asked \subseteq Requests /\ Asked' = Asked /\ Kind' = Kind /\ Units' = Units
  BY <1>1, ScenarioFacts, ScenarioFixed, Zenon DEF IInv, TypeOK
<1>3. PICK t \in inflight :
       \/ /\ t.tries_left > 0
          /\ inflight' = {[t EXCEPT !.tries_left = @ - 1]}
          /\ \/ net' = net \cup {t.sent}
             \/ SendErrors /\ UNCHANGED net
          /\ UNCHANGED <<handle, control_lost>>
       \/ /\ t.tries_left = 0
          /\ inflight' = {}
          /\ handle' = FailOp(t.op, "timeout")
          /\ control_lost' = (control_lost \/ t.op.req = Heartbeat)
          /\ UNCHANGED net
  BY DEF Overdue
<1>4. /\ t \in InflightSet /\ t.op \in OpSet /\ Unfinished(t.op) /\ Counted(t.op)
      /\ t.id = next_id /\ t.sent = Command(t.op, t.id) /\ t.sent \in CommandSet
  BY <1>2, Zenon DEF TypeOK, InflightSet, IInv, Progress, Landing, Current
<1>5. Adjoins(t.sent) /\ t.sent.req = t.op.req /\ t.op.req \in Senders
  <2>1. scenario \in Scenarios
    BY <1>2, Zenon DEF TypeOK
  <2>2. t.op.req \in Senders
    BY <1>4 DEF OpSet
  <2>3. t.op \in OpSet /\ Unfinished(t.op) /\ Counted(t.op) /\ t.sent = Command(t.op, t.id)
    BY <1>4, Zenon
  <2>4. Adjoins(Command(t.op, t.id)) /\ Command(t.op, t.id).req = t.op.req
    BY <2>1, <2>3, CommandFacts, Zenon
  <2>. QED BY <2>2, <2>3, <2>4, Zenon
<1>6. /\ net' \subseteq net \cup {t.sent} /\ net' \subseteq CommandSet
      /\ control_lost' \in BOOLEAN
      /\ \A u \in inflight' : u \in InflightSet /\ u.id = t.id /\ u.op = t.op /\ u.sent = t.sent
      /\ \A u, v \in inflight' : u = v
  <2>1. CASE t.tries_left > 0
    <3>1. [t EXCEPT !.tries_left = @ - 1] \in InflightSet
      BY <1>4, <2>1 DEF InflightSet
    <3>2. LET v == [t EXCEPT !.tries_left = @ - 1] IN v.id = t.id /\ v.op = t.op /\ v.sent = t.sent
      BY <1>4 DEF InflightSet
    <3>3. inflight' = {[t EXCEPT !.tries_left = @ - 1]} /\ net' \subseteq net \cup {t.sent} /\ UNCHANGED control_lost
      BY <1>3, <2>1
    <3>. QED BY <1>2, <1>4, <3>1, <3>2, <3>3 DEF TypeOK
  <2>2. CASE t.tries_left = 0
    BY <1>2, <1>3, <2>2 DEF TypeOK
  <2>. QED BY <1>4, <2>1, <2>2 DEF InflightSet
<1>7. /\ handle' \in [Requests -> Outcomes \cup {Unset}]
      /\ \A r \in Requests : handle'[r] = "ok" => handle[r] = "ok"
  <2>1. "timeout" \in Outcomes \ {"ok"}
    BY Zenon DEF Outcomes, Failures
  <2>. QED BY <1>2, <1>3, <2>1, FailFacts DEF PortTypeOK, FailOp
<1>8. TypeOK'
  BY <1>1, <1>2, <1>6, <1>7, Zenon DEF TypeOK, PortTypeOK, LoopStages
<1>9. Progress' /\ Paired'
  BY <1>1, <1>4, <1>6, ScenarioFixed, ZenonT(30) DEF IInv, Progress, Paired, PendingSend
<1>10. Current'
  <2>1. \A u \in inflight' : u.sent = Command(u.op, u.id)'
    BY <1>1, <1>4, <1>6, ScenarioFixed, Zenon
  <2>2. /\ \A c \in net : c.id = t.id => c = t.sent
        /\ \A a \in answered : a.id = t.id => a.req = t.op.req /\ a.from = t.op.done + 1
    BY Zenon DEF IInv, Current
  <2>. QED BY <1>1, <1>4, <1>6, <2>1, <2>2, Zenon DEF Current
<1>11. Landing'
  <2>1. \A c : Adjoins(c)' <=> Adjoins(c)
    BY <1>1, <1>2, ScenarioFixed, ZenonT(30) DEF Adjoins
  <2>2. \A op : Counted(op)' <=> Counted(op)
    BY <1>1, <1>2, ScenarioFixed, Zenon DEF Counted
  <2>3. \A c \in net' : Adjoins(c)
    BY <1>5, <1>6, Zenon DEF IInv, Landing
  <2>4. \A a \in answered : a.id = t.id /\ a.status = "ok" /\ IsWrite(t.op.req) =>
            t.op.done + 1 .. t.op.done + t.sent.n \subseteq written[t.op.req]
    BY Zenon DEF IInv, Landing
  <2>5. \A u \in inflight', a \in answered' : a.id = u.id /\ a.status = "ok" /\ IsWrite(u.op.req)' =>
            u.op.done + 1 .. u.op.done + u.sent.n \subseteq written'[u.op.req]
    BY <1>1, <1>6, <2>4, ScenarioFixed, Zenon
  <2>6. (\A r \in Asked : \E k \in 0..Units[r] : written[r] = 1..k) /\ \A i \in 1..Len(queue) : Counted(queue[i])
    BY ZenonT(30) DEF IInv, Landing
  <2>. QED BY <1>1, <1>2, <1>4, <1>6, <2>1, <2>2, <2>3, <2>5, <2>6, ZenonT(30) DEF Landing
<1>12. Settled'
  BY <1>1, <1>2, <1>7, Zenon DEF IInv, Settled, UpTo
<1>13. Single'
  BY <1>1, <1>6, FlightSingle, Zenon
<1>14. HeartbeatFirst' /\ Released'
  <2>1. t.sent.req # Shutdown
    BY <1>5, ConstantsAssumption, ShutdownAssumption, Zenon DEF Senders
  <2>. QED BY <1>1, <1>6, <2>1, Zenon DEF IInv, HeartbeatFirst, Released
<1>. QED BY <1>8, <1>9, <1>10, <1>11, <1>12, <1>13, <1>14 DEF IInv

\* A fresh op is queued with its payload.
LEMMA NewOpFacts ==
  ASSUME scenario \in Scenarios, NEW r \in Asked \cup {Heartbeat}
  PROVE  /\ NewOp(r) \in OpSet /\ NewOp(r).req = r /\ Unfinished(NewOp(r)) /\ Counted(NewOp(r))
         /\ KindOf(NewOp(r)) = IF r = Heartbeat THEN "Heartbeat" ELSE Kind[r]
         /\ PendingSend(KindOf(NewOp(r))) \in {"ReadRegs"} \cup RequestKinds
<1>1. r \in Senders /\ NewOp(r).req = r /\ NewOp(r).done = 0 /\ NewOp(r).acc = <<>>
  BY ScenarioFacts, Zenon DEF NewOp, Senders
<1>2. NewOp(r) \in OpSet
  <2>1. <<>> \in Seq(UnitSet)
    OBVIOUS
  <2>. QED BY <1>1, <2>1 DEF NewOp, OpSet
<1>3. Unfinished(NewOp(r))
  <2>1. UpTo(r, 0) = <<>>
    BY DEF UpTo
  <2>. QED BY <1>1, <2>1, ScenarioFacts DEF Unfinished
<1>4. Counted(NewOp(r))
  <2>1. 1..0 = {}
    OBVIOUS
  <2>. QED BY <1>1, <2>1 DEF Counted
<1>5. KindOf(NewOp(r)) = IF r = Heartbeat THEN "Heartbeat" ELSE Kind[r]
  BY <1>1 DEF KindOf
<1>. QED BY <1>1, <1>2, <1>3, <1>4, <1>5, ChunkFacts, Zenon

\* Steps that only change the queue and the channel.
LEMMA QueueStep ==
  ASSUME IInv, TypeOK', Single', HeartbeatFirst', Paired',
         UNCHANGED <<scenario, handle, inflight, next_id, value, net, answered, written>>,
         \A i \in 1..Len(queue') : Unfinished(queue'[i]) /\ Counted(queue'[i]),
         pc \notin Over
  PROVE  IInv'
<1>1. Kind' = Kind /\ Units' = Units /\ Asked' = Asked
  BY ScenarioFixed, Zenon
<1>2. Progress'
  BY ScenarioFixed, Zenon DEF IInv, Progress
<1>3. Current'
  <2>1. Current
    BY Zenon DEF IInv
  <2>. QED BY <2>1, ScenarioFixed DEF Current
<1>4. \A op : Counted(op)' <=> Counted(op)
  BY ScenarioFixed, ZenonT(30) DEF Counted
<1>5. Landing'
  BY <1>1, <1>4, ScenarioFixed, ZenonT(30) DEF IInv, Landing, Adjoins
<1>6. Settled'
  BY <1>1, Zenon DEF IInv, Settled, UpTo
<1>7. Released'
  BY Zenon DEF IInv, Released, Over
<1>. QED BY <1>2, <1>3, <1>5, <1>6, <1>7 DEF IInv

\* A heartbeat that is due goes to the front of the queue (check_heartbeat).
LEMMA HeartbeatDueStep ==
  ASSUME IInv, HeartbeatDue
  PROVE  IInv'
<1>. DEFINE hb == NewOp(Heartbeat)
<1>1. /\ UNCHANGED <<scenario, portVars, inflight, next_id, control_lost, shared_control_lost, value, deviceVars>>
      /\ pc = "heartbeat" /\ pc' = "pump" /\ ~HeartbeatPending
      /\ queue' = <<hb>> \o queue /\ queued_payloads' = <<PendingSend("Heartbeat")>> \o queued_payloads
  BY Zenon DEF HeartbeatDue
<1>2. TypeOK /\ Asked' = Asked /\ Asked \subseteq Requests /\ queue \in Seq(OpSet) /\ Single
      /\ queued_payloads \in Seq({"ReadRegs"} \cup RequestKinds)
  BY <1>1, ScenarioFixed, ScenarioFacts DEF IInv, TypeOK
<1>3. /\ hb \in OpSet /\ hb.req = Heartbeat /\ Unfinished(hb) /\ Counted(hb) /\ KindOf(hb) = "Heartbeat"
      /\ PendingSend("Heartbeat") \in {"ReadRegs"} \cup RequestKinds
  BY <1>2, NewOpFacts, ZenonT(30) DEF TypeOK
<1>. HIDE DEF hb
<1>4. /\ queue' \in Seq(OpSet) /\ Len(queue) \in Nat /\ Len(queue') = Len(queue) + 1
      /\ \A i \in 1..Len(queue) + 1 : queue'[i] = IF i = 1 THEN hb ELSE queue[i - 1]
  <2>1. queue' = <<hb>> \o queue /\ queue \in Seq(OpSet) /\ hb \in OpSet
    BY <1>1, <1>2, <1>3, Zenon
  <2>. QED BY <2>1, ConsFacts
<1>5. /\ queued_payloads' \in Seq({"ReadRegs"} \cup RequestKinds) /\ Len(queued_payloads') = Len(queued_payloads) + 1
      /\ \A i \in 1..Len(queued_payloads) + 1 :
           queued_payloads'[i] = IF i = 1 THEN PendingSend("Heartbeat") ELSE queued_payloads[i - 1]
  BY <1>1, <1>2, <1>3, ConsFacts
<1>6. \A i \in 1..Len(queue') : (i = 1 /\ queue'[i] = hb) \/ (i > 1 /\ i - 1 \in 1..Len(queue) /\ queue'[i] = queue[i - 1])
  BY <1>4
<1>7. TypeOK'
  BY <1>1, <1>2, <1>4, <1>5, ZenonT(30) DEF TypeOK, PortTypeOK, portVars, deviceVars, LoopStages
<1>8. Paired'
  <2>1. Len(queued_payloads) = Len(queue) /\ \A i \in 1..Len(queue) : queued_payloads[i] = PendingSend(KindOf(queue[i]))
    BY Zenon DEF IInv, Paired
  <2>2. \A i \in 1..Len(queue') : queued_payloads'[i] = PendingSend(KindOf(queue'[i]))
    <3>. SUFFICES ASSUME NEW i \in 1..Len(queue')
                  PROVE  queued_payloads'[i] = PendingSend(KindOf(queue'[i]))
      OBVIOUS
    <3>1. queued_payloads'[i] = IF i = 1 THEN PendingSend("Heartbeat") ELSE queued_payloads[i - 1]
      BY <1>4, <1>5, <2>1, Zenon
    <3>2. i # 1 => i - 1 \in 1..Len(queue)
      BY <1>6, Zenon
    <3>3. queue'[i] = IF i = 1 THEN hb ELSE queue[i - 1]
      BY <1>4, Zenon
    <3>. QED BY <1>3, <2>1, <3>1, <3>2, <3>3, Zenon
  <2>3. \A op : PendingSend(KindOf(op))' = PendingSend(KindOf(op))
    BY <1>1, ScenarioFixed DEF PendingSend
  <2>. QED BY <1>4, <1>5, <2>1, <2>2, <2>3, Zenon DEF Paired
<1>9. HeartbeatFirst' /\ Single'
  <2>1. /\ \A t \in inflight : t.op.req # Heartbeat
        /\ \A i \in 1..Len(queue) : queue[i].req # Heartbeat
    BY <1>1 DEF HeartbeatPending
  <2>2. HeartbeatFirst'
    BY <1>6, <2>1, Zenon DEF HeartbeatFirst
  <2>3. Heartbeat \notin Requests /\ Heartbeat # Shutdown
    BY ConstantsAssumption, Zenon
  <2>4. Held' \subseteq Held
    BY <1>1, <1>3, <1>6, <2>3 DEF Held
  <2>5. ASSUME NEW i \in 1..Len(queue'), NEW j \in 1..Len(queue'), queue'[i].req = queue'[j].req
        PROVE  i = j
    <3>1. CASE i > 1 /\ j > 1
      <4>1. i - 1 \in 1..Len(queue) /\ j - 1 \in 1..Len(queue) /\ queue[i - 1].req = queue[j - 1].req
        BY <1>6, <2>5, <3>1
      <4>2. i - 1 = j - 1
        BY <1>2, <4>1, Zenon DEF Single
      <4>. QED BY <4>2
    <3>2. CASE ~(i > 1 /\ j > 1)
      BY <1>3, <1>6, <2>1, <2>5, <3>2, Zenon
    <3>. QED BY <3>1, <3>2
  <2>6. \A i \in 1..Len(queue'), t \in inflight : queue'[i].req # t.op.req
    <3>1. \A i \in 1..Len(queue), t \in inflight : queue[i].req # t.op.req
      BY <1>2, Zenon DEF Single
    <3>. QED BY <1>3, <1>6, <2>1, <3>1, Zenon
  <2>7. Single'
    <3>1. UNCHANGED <<client, chan, inflight>>
      BY <1>1, ZenonT(30) DEF portVars
    <3>. QED BY <1>2, <2>4, <2>5, <2>6, <3>1, SingleStep
  <2>. QED BY <2>2, <2>7, Zenon
<1>10. \A i \in 1..Len(queue') : Unfinished(queue'[i]) /\ Counted(queue'[i])
  BY <1>3, <1>6, Zenon DEF IInv, Progress, Landing
<1>. QED BY <1>1, <1>7, <1>8, <1>9, <1>10, QueueStep DEF portVars, deviceVars, Over

\* The worker takes a message from the channel (drain_commands).
LEMMA DrainCommandsStep ==
  ASSUME IInv, DrainCommands
  PROVE  IInv'
<1>. DEFINE m == Head(chan)
<1>1. /\ pc = "commands" /\ chan # <<>> /\ chan' = Tail(chan)
      /\ UNCHANGED <<scenario, client, owner, rx_open, is_alive, should_die, handle, inflight, next_id,
                     control_lost, shared_control_lost, value, deviceVars>>
  BY DEF DrainCommands
<1>2. TypeOK /\ Asked' = Asked /\ Asked \subseteq Requests /\ queue \in Seq(OpSet) /\ Single
      /\ queued_payloads \in Seq({"ReadRegs"} \cup RequestKinds) /\ chan \in Seq(Messages)
  BY <1>1, ScenarioFixed, ScenarioFacts, ZenonT(30) DEF IInv, TypeOK, PortTypeOK
<1>3. /\ chan' \in Seq(Messages) /\ Len(chan) \in Nat \ {0} /\ Len(chan') = Len(chan) - 1 /\ m = chan[1]
      /\ \A i \in 1..Len(chan') : i + 1 \in 1..Len(chan) /\ chan'[i] = chan[i + 1]
  BY <1>1, <1>2, TailFacts
<1>. HIDE DEF m
<1>c. /\ \A i \in 1..Len(chan) : chan[i] # Shutdown => chan[i] \in Asked
      /\ \A i, j \in 1..Len(chan) : chan[i] = chan[j] /\ chan[i] # Shutdown => i = j
      /\ \A i \in 1..Len(chan) : chan[i] \notin Held
  BY <1>2, Zenon DEF Single
<1>d. \A q \in Requests : client[q] \in {"idle", "push"} => q \notin Held /\ \A i \in 1..Len(chan) : chan[i] # q
  BY <1>2, Zenon DEF Single
<1>e. /\ \A i, j \in 1..Len(queue) : queue[i].req = queue[j].req => i = j
      /\ \A i \in 1..Len(queue), t \in inflight : queue[i].req # t.op.req
  BY <1>2, Zenon DEF Single
<1>f. \A q \in Requests : client[q] # "idle" => q \in Asked
  BY <1>2, Zenon DEF Single
<1>a. \A i \in 1..Len(chan') : \E j \in 1..Len(chan) : chan'[i] = chan[j]
  BY <1>3
<1>b. ASSUME NEW i \in 1..Len(chan'), NEW j \in 1..Len(chan'), chan'[i] = chan'[j], chan'[i] # Shutdown
      PROVE  i = j
  <2>1. i + 1 \in 1..Len(chan) /\ j + 1 \in 1..Len(chan) /\ chan[i + 1] = chan[j + 1] /\ chan[i + 1] # Shutdown
    BY <1>3, <1>b, Zenon
  <2>2. i + 1 = j + 1
    BY <1>c, <2>1, Zenon
  <2>. QED BY <2>2
<1>4. CASE m = Shutdown
  <2>1. pc' = "stopping" /\ UNCHANGED <<queue, queued_payloads>>
    BY <1>4, Zenon DEF DrainCommands, m
  <2>2. TypeOK'
    BY <1>1, <1>2, <1>3, <2>1, Zenon DEF TypeOK, PortTypeOK, ShutdownStages, deviceVars
  <2>3. Held' = Held
    BY <1>1, <2>1 DEF Held
  <2>4. Single'
    <3>1. UNCHANGED <<client, inflight, queue>> /\ Asked' = Asked
      BY <1>1, <1>2, <2>1, Zenon
    <3>2. /\ \A i \in 1..Len(chan') : chan'[i] # Shutdown => chan'[i] \in Asked
          /\ \A i \in 1..Len(chan') : chan'[i] \notin Held'
      BY <1>a, <1>c, <2>3, Zenon
    <3>3. \A q \in Requests : client[q] \in {"idle", "push"} =>
            q \notin Held' /\ \A i \in 1..Len(chan') : chan'[i] # q
      BY <1>a, <1>d, <2>3, ZenonT(30)
    <3>. QED BY <1>b, <1>e, <1>f, <3>1, <3>2, <3>3, Zenon DEF Single
  <2>5. Paired' /\ HeartbeatFirst'
    BY <1>1, <2>1, ScenarioFixed, Zenon DEF IInv, Paired, PendingSend, HeartbeatFirst
  <2>6. \A i \in 1..Len(queue') : Unfinished(queue'[i]) /\ Counted(queue'[i])
    BY <2>1, ZenonT(30) DEF IInv, Progress, Landing
  <2>. QED BY <1>1, <2>2, <2>4, <2>5, <2>6, QueueStep, Zenon DEF deviceVars, Over
<1>5. CASE m # Shutdown
  <2>. DEFINE op == NewOp(m)
  <2>1. queue' = Append(queue, op) /\ queued_payloads' = Append(queued_payloads, PendingSend(Kind[m])) /\ pc' = pc
    BY <1>5 DEF DrainCommands, m
  <2>2. 1 \in 1..Len(chan) /\ m \in Asked
    BY <1>3, <1>5, <1>c
  <2>3. m # Heartbeat /\ m \in Requests
    BY <1>2, <2>2, ConstantsAssumption, Zenon
  <2>4. /\ op \in OpSet /\ op.req = m /\ Unfinished(op) /\ Counted(op) /\ KindOf(op) = Kind[m]
        /\ PendingSend(Kind[m]) \in {"ReadRegs"} \cup RequestKinds
    BY <1>2, <2>2, <2>3, NewOpFacts, Zenon DEF TypeOK
  <2>. HIDE DEF op
  <2>5. /\ queue' \in Seq(OpSet) /\ Len(queue) \in Nat /\ Len(queue') = Len(queue) + 1
        /\ \A i \in 1..Len(queue) + 1 : queue'[i] = IF i <= Len(queue) THEN queue[i] ELSE op
    BY <1>2, <2>1, <2>4, AppendFacts, ZenonT(60)
  <2>6. /\ queued_payloads' \in Seq({"ReadRegs"} \cup RequestKinds) /\ Len(queued_payloads') = Len(queued_payloads) + 1
        /\ \A i \in 1..Len(queued_payloads) + 1 :
             queued_payloads'[i] = IF i <= Len(queued_payloads) THEN queued_payloads[i] ELSE PendingSend(Kind[m])
    BY <1>2, <2>1, <2>4, AppendFacts
  <2>7. \A i \in 1..Len(queue') : (i \in 1..Len(queue) /\ queue'[i] = queue[i]) \/ (i = Len(queue) + 1 /\ queue'[i] = op)
    BY <2>5
  <2>8. TypeOK'
    BY <1>1, <1>2, <1>3, <2>1, <2>5, <2>6, ZenonT(30) DEF TypeOK, PortTypeOK, deviceVars
  <2>9. Paired'
    <3>1. Len(queued_payloads) = Len(queue) /\ \A i \in 1..Len(queue) : queued_payloads[i] = PendingSend(KindOf(queue[i]))
      BY DEF IInv, Paired
    <3>2. \A i \in 1..Len(queue') : queued_payloads'[i] = PendingSend(KindOf(queue'[i]))
      BY <2>4, <2>5, <2>6, <2>7, <3>1
    <3>3. \A o : PendingSend(KindOf(o))' = PendingSend(KindOf(o))
      BY <1>1, ScenarioFixed DEF PendingSend
    <3>. QED BY <2>5, <2>6, <3>1, <3>2, <3>3, ZenonT(30) DEF Paired
  <2>10. HeartbeatFirst'
    BY <2>3, <2>4, <2>7 DEF IInv, HeartbeatFirst
  <2>11. Single'
    <3>1. /\ m \notin Held
          /\ \A i \in 1..Len(chan') : chan'[i] # m
          /\ client[m] \notin {"idle", "push"}
      <4>1. m = chan[1] /\ \A i \in 1..Len(chan') : \E j \in 1..Len(chan) : j # 1 /\ chan'[i] = chan[j]
        BY <1>3
      <4>. QED BY <1>5, <1>c, <1>d, <2>2, <2>3, <4>1, Zenon
    <3>2. Held' \subseteq Held \cup {m}
      BY <1>1, <2>4, <2>7, ZenonT(30) DEF Held
    <3>3. \A i \in 1..Len(queue) : queue[i].req # m
      BY <2>3, <3>1, Zenon DEF Held
    <3>4. \A t \in inflight : t.op.req # m
      BY <2>3, <3>1 DEF Held
    <3>5. \A i, j \in 1..Len(queue') : queue'[i].req = queue'[j].req => i = j
      BY <1>e, <2>4, <2>7, <3>3, ZenonT(30)
    <3>6. \A i \in 1..Len(queue'), t \in inflight : queue'[i].req # t.op.req
      <4>1. \A i \in 1..Len(queue') : queue'[i].req = m \/ \E j \in 1..Len(queue) : queue'[i].req = queue[j].req
        BY <2>4, <2>7, Zenon
      <4>2. ASSUME NEW i \in 1..Len(queue'), NEW t \in inflight
            PROVE  queue'[i].req # t.op.req
        <5>1. t.op.req # m /\ \A j \in 1..Len(queue) : queue[j].req # t.op.req
          BY <1>e, <3>4, Zenon
        <5>. QED BY <4>1, <5>1, Zenon
      <4>. QED BY <4>2, Zenon
    <3>7. \A i \in 1..Len(chan') : chan'[i] \notin Held'
      BY <1>a, <1>c, <3>1, <3>2, Zenon
    <3>8. \A i \in 1..Len(chan') : chan'[i] # Shutdown => chan'[i] \in Asked
      BY <1>a, <1>c, Zenon
    <3>9. \A q \in Requests : client[q] \in {"idle", "push"} =>
            q \notin Held' /\ \A i \in 1..Len(chan') : chan'[i] # q
      BY <1>a, <1>d, <3>1, <3>2
    <3>10. UNCHANGED <<client, inflight>> /\ Asked' = Asked
      BY <1>1, <1>2, Zenon
    <3>. QED BY <1>b, <1>f, <3>5, <3>6, <3>7, <3>8, <3>9, <3>10, Zenon DEF Single
  <2>12. \A i \in 1..Len(queue') : Unfinished(queue'[i]) /\ Counted(queue'[i])
    BY <2>4, <2>7 DEF IInv, Progress, Landing
  <2>. QED BY <1>1, <2>8, <2>9, <2>10, <2>11, <2>12, QueueStep, Zenon DEF deviceVars, Over
<1>. QED BY <1>4, <1>5
=============================================================================
