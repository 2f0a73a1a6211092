------------------------- MODULE ControlPartsProofs -------------------------
(***************************************************************************)
(* Proofs about three parts of the control path, each small and each taken *)
(* as atomic, or left to choice, by the modules that use it:               *)
(*   the clocks of the control channel (TransactionTimer), for every       *)
(*   timeout, number of retries, pending budget and loop lag, and any      *)
(*   number of other requests and heartbeats;                              *)
(*   the handle its callers wait on (ResponseHandle), for any number of    *)
(*   parties;                                                              *)
(*   the register caches above it (RegisterCache), for every device        *)
(*   description of the kind WellDescribed names, also when addresses are  *)
(*   computed from other registers.  The configurations CacheStruct,       *)
(*   CacheFeatureInvalidator, CacheSelector and CacheLostAck break one of  *)
(*   its conditions each.                                                  *)
(***************************************************************************)
EXTENDS TransactionTimer, ResponseHandle, RegisterCache, Integers, TLAPS

\* What a retransmission may cost: the timeout it starts, and the lag with
\* which the previous deadline was noticed.  Allowance(k) is the cost of k.
Cost == gvcp_timeout + Lag
Allowance(k) == k * Cost

\* The retransmissions so far.
Used == retries - tries_left

\* The channel.  PENDING_ACKs never move the deadline past their own limit, or
\* past where it stands already; a retransmission moves it by at most its cost.
Deadlines ==
  /\ inflight \in Ops => due <= sent + Larger(PENDING_ACK_BUDGET, gvcp_timeout) + Allowance(Used)
  /\ inflight \in Ops \/ queue # <<>> => now <= due + Lag

\* A caller who waits and was not delayed: the request is the next to be sent,
\* within Lag of its submission, or it was sent by then and its deadline was
\* moved by retransmissions only.
OwnIsNext ==
  /\ inflight = "none" /\ queue # <<>> /\ Head(queue) = "own"
  /\ due = submitted
OwnIsSent ==
  /\ inflight = "own"
  /\ sent <= submitted + Lag
  /\ due <= sent + gvcp_timeout + Allowance(Used)
Undelayed == caller = "waiting" /\ ~delayed => OwnIsNext \/ OwnIsSent

IInv == TypeOK /\ Deadlines /\ Undelayed /\ BudgetCoversRetries

-----------------------------------------------------------------------------
\* Each retransmission adds its cost to what a transaction may take.
LEMMA AllowanceFacts ==
  ASSUME NEW k \in Nat
  PROVE  /\ Allowance(k) \in Nat
         /\ Allowance(0) = 0
         /\ Allowance(k + 1) = Allowance(k) + Cost
         /\ k <= retries => Allowance(k) <= Allowance(retries)
<1> USE TimerAssumption
<1>1. Cost \in Nat
  BY DEF Cost
<1>2. \A a, c \in Nat : a * c \in Nat /\ 0 * c = 0 /\ (a + 1) * c = a * c + c
  BY SMT
<1>3. \A a, b, c \in Nat : a <= b => a * c <= b * c
  BY SMT
<1> QED
  BY <1>1, <1>2, <1>3 DEF Allowance

\* What the worker does with its queue: it stays a sequence of ops, and what is
\* put at its end does not change its head.
LEMMA QueueFacts ==
  ASSUME NEW q \in Seq(Ops), NEW op \in Ops
  PROVE  /\ Append(q, op) \in Seq(Ops) /\ Append(q, op) # <<>>
         /\ q # <<>> => Head(Append(q, op)) = Head(q) /\ Head(q) \in Ops /\ Tail(q) \in Seq(Ops)
         /\ q = <<>> => Head(Append(q, op)) = op
         /\ <<"heartbeat">> \o q \in Seq(Ops) /\ <<"heartbeat">> \o q # <<>>
         /\ q # <<>> => <<"heartbeat", "other">> \o Tail(q) \in Seq(Ops)
<1>1. "heartbeat" \in Ops /\ "other" \in Ops
  BY DEF Ops
<1>2. <<"heartbeat">> \in Seq(Ops) /\ <<"heartbeat", "other">> \in Seq(Ops)
  BY <1>1
<1>3. \A r \in Seq(Ops) : <<"heartbeat">> \o r \in Seq(Ops) /\ <<"heartbeat", "other">> \o r \in Seq(Ops)
  BY <1>2
<1>4. <<"heartbeat">> \o q # <<>>
  BY <1>2
<1>5. Append(q, op) \in Seq(Ops) /\ Append(q, op) # <<>>
  OBVIOUS
<1>6. q # <<>> => Head(q) \in Ops /\ Tail(q) \in Seq(Ops) /\ Head(Append(q, op)) = Head(q)
  OBVIOUS
<1>7. q = <<>> => Head(Append(q, op)) = op
  OBVIOUS
<1> QED
  BY <1>3, <1>4, <1>5, <1>6, <1>7

\* At first the channel is free and nobody waits.
LEMMA InitInv == Init => IInv
<1> SUFFICES ASSUME Init PROVE IInv
  OBVIOUS
<1>1. delayed \in BOOLEAN /\ "none" \notin Ops
  BY DEF Init, Ops
<1>2. TypeOK
  BY <1>1, TimerAssumption DEF Init, TypeOK
<1>3. Deadlines /\ Undelayed /\ BudgetCoversRetries
  BY <1>1 DEF Init, Deadlines, Undelayed, BudgetCoversRetries
<1> QED
  BY <1>2, <1>3 DEF IInv


\* What is sent starts with its own deadline; what is freed is due at once.
LEMMA TypeStep == IInv /\ [Next]_vars => TypeOK'
<1> SUFFICES ASSUME IInv, [Next]_vars PROVE TypeOK'
  OBVIOUS
<1> USE TimerAssumption DEF IInv
<1>0. /\ now \in Nat /\ due \in Nat /\ sent \in Nat /\ tries_left \in 0..retries /\ submitted \in Nat
      /\ others \in Nat /\ beats \in Nat /\ queue \in Seq(Ops)
      /\ caller \in {"idle", "waiting", "told", "gave_up"} /\ inflight \in Ops \cup {"none", "closed"}
  BY DEF TypeOK
<1>1. delayed \in BOOLEAN
  BY DEF TypeOK
<1>2. <<>> \in Seq(Ops) /\ "own" \in Ops /\ "other" \in Ops
  BY DEF Ops
<1>3. CASE Tick
  BY <1>0, <1>1, <1>3 DEF Tick, TypeOK, sendVars, callerVars
<1>4. CASE Submit
  <2>1. delayed' \in BOOLEAN
    BY <1>4 DEF Submit
  <2>2. queue' \in Seq(Ops)
    BY <1>0, <1>2, <1>4, QueueFacts DEF Submit, Enqueue
  <2> QED
    BY <1>0, <1>4, <2>1, <2>2 DEF Submit, Enqueue, TypeOK
<1>5. CASE SubmitOther
  <2>1. queue' \in Seq(Ops)
    BY <1>0, <1>2, <1>5, QueueFacts DEF SubmitOther, Enqueue
  <2> QED
    BY <1>0, <1>1, <1>5, <2>1 DEF SubmitOther, Enqueue, TypeOK, callerVars
<1>6. CASE Heartbeat
  <2>1. delayed' \in BOOLEAN
    BY <1>6 DEF Heartbeat
  <2>2. queue' \in Seq(Ops)
    BY <1>0, <1>2, <1>6, QueueFacts DEF Heartbeat
  <2> QED
    BY <1>0, <1>6, <2>1, <2>2 DEF Heartbeat, TypeOK
<1>7. CASE Pump
  <2>1. Head(queue) \in Ops /\ Tail(queue) \in Seq(Ops)
    BY <1>0, <1>2, <1>7, QueueFacts DEF Pump
  <2> QED
    BY <1>0, <1>1, <1>7, <2>1 DEF Pump, Send, Free, Told, TypeOK
<1>8. CASE Ack
  <2>1. queue' \in Seq(Ops) /\ inflight' \in Ops \cup {"none", "closed"} /\ due' \in Nat
    BY <1>0, <1>2, <1>8 DEF Ack, Free, Close
  <2>2. caller' \in {"idle", "waiting", "told", "gave_up"}
    BY <1>0, <1>8 DEF Ack, Told, Close
  <2>3. UNCHANGED <<now, sent, tries_left, submitted, delayed, others, beats>>
    BY <1>8 DEF Ack, Free, Close
  <2> QED
    BY <1>0, <1>1, <2>1, <2>2, <2>3 DEF TypeOK
<1>9. CASE Continue
  <2>1. queue # <<>> => <<"heartbeat", "other">> \o Tail(queue) \in Seq(Ops)
    BY <1>0, <1>2, QueueFacts
  <2>2. queue' \in Seq(Ops) /\ others' \in Nat
    <3>1. queue' = queue \/ (queue # <<>> /\ queue' = <<"heartbeat", "other">> \o Tail(queue))
      BY <1>9, Zenon DEF Continue
    <3>2. queue' \in Seq(Ops)
      BY <1>0, <2>1, <3>1, Zenon
    <3>3. others' \in Nat
      BY <1>0, <1>9 DEF Continue
    <3> QED
      BY <3>2, <3>3
  <2>3. inflight' \in Ops \cup {"none", "closed"} /\ due' \in Nat /\ sent' \in Nat /\ tries_left' \in 0..retries
    BY <1>0, <1>2, <1>9 DEF Continue, Send, Free
  <2>4. UNCHANGED <<now, caller, submitted, delayed, beats>>
    BY <1>9 DEF Continue, callerVars
  <2> QED
    BY <1>0, <1>1, <2>2, <2>3, <2>4 DEF TypeOK
<1>10. CASE Overdue
  <2>1. queue' \in Seq(Ops) /\ inflight' \in Ops \cup {"none", "closed"}
    BY <1>0, <1>2, <1>10 DEF Overdue, Free, Close
  <2>4. due' \in Nat /\ tries_left' \in 0..retries
    BY <1>0, <1>10 DEF Overdue, Free, Close
  <2>2. caller' \in {"idle", "waiting", "told", "gave_up"}
    BY <1>0, <1>10 DEF Overdue, Told, Close
  <2>3. UNCHANGED <<now, sent, submitted, delayed, others, beats>>
    BY <1>10 DEF Overdue, Free, Close
  <2> QED
    BY <1>0, <1>1, <2>1, <2>2, <2>3, <2>4 DEF TypeOK
<1>11. CASE GiveUp
  BY <1>0, <1>1, <1>11 DEF GiveUp, TypeOK, sendVars
<1>12. ASSUME NEW ms \in PendingTimes, PendingAck(ms) PROVE TypeOK'
  <2>1. delayed' \in BOOLEAN
    BY <1>12 DEF PendingAck
  <2>2. ms \in Nat
    OBVIOUS
  <2>3. due' \in Nat
    BY <1>0, <1>12, <2>2 DEF PendingAck, Smaller, Larger, pending_limit
  <2> QED
    BY <1>0, <1>12, <2>1, <2>3 DEF PendingAck, TypeOK
<1>13. CASE UNCHANGED vars
  BY <1>0, <1>1, <1>13 DEF vars, sendVars, callerVars, TypeOK
<1> QED
  BY <1>3, <1>4, <1>5, <1>6, <1>7, <1>8, <1>9, <1>10, <1>11, <1>12, <1>13 DEF Next, Quiet

\* Whatever the step, the deadline stays within its bound and is not overdue
\* by more than Lag.
LEMMA DeadlineStep == IInv /\ [Next]_vars => Deadlines'
<1> SUFFICES ASSUME IInv, [Next]_vars PROVE Deadlines'
  OBVIOUS
<1> USE TimerAssumption
<1>0. /\ now \in Nat /\ due \in Nat /\ sent \in Nat /\ tries_left \in 0..retries
      /\ queue \in Seq(Ops)
      /\ inflight \in Ops \cup {"none", "closed"}
  BY DEF IInv, TypeOK
<1>1. /\ inflight \in Ops => due <= sent + Larger(PENDING_ACK_BUDGET, gvcp_timeout) + Allowance(Used)
      /\ inflight \in Ops \/ queue # <<>> => now <= due + Lag
  BY DEF IInv, Deadlines
<1>2. "none" \notin Ops /\ "closed" \notin Ops
  BY DEF Ops
<1>3. Used \in Nat /\ Allowance(Used) \in Nat /\ Allowance(0) = 0 /\ Larger(PENDING_ACK_BUDGET, gvcp_timeout) \in Nat
  <2>1. Used \in Nat /\ Larger(PENDING_ACK_BUDGET, gvcp_timeout) \in Nat
    BY <1>0 DEF Used, Larger
  <2> QED
    BY <2>1, AllowanceFacts
<1>4. ASSUME tries_left' = tries_left PROVE Allowance(Used)' = Allowance(Used)
  BY <1>4 DEF Used, Allowance, Cost
<1>5. ASSUME tries_left' = retries PROVE Allowance(Used)' = 0
  <2>1. Used' = 0
    BY <1>5 DEF Used
  <2> QED
    BY <1>3, <2>1 DEF Allowance, Cost
<1>6. ASSUME NEW op, Send(op), now' = now PROVE Deadlines'
  <2>1. due' = now + gvcp_timeout /\ sent' = now /\ Allowance(Used)' = 0
    BY <1>5, <1>6 DEF Send
  <2>2. gvcp_timeout <= Larger(PENDING_ACK_BUDGET, gvcp_timeout)
    BY DEF Larger
  <2>3. due' <= sent' + Larger(PENDING_ACK_BUDGET, gvcp_timeout) + Allowance(Used)'
    BY <1>0, <1>3, <2>1, <2>2
  <2>4. now' <= due' + Lag
    BY <1>0, <1>6, <2>1
  <2> QED
    BY <2>3, <2>4 DEF Deadlines
<1>7. ASSUME Free, now' = now PROVE Deadlines'
  BY <1>0, <1>2, <1>7 DEF Free, Deadlines
<1>8. ASSUME Close PROVE Deadlines'
  BY <1>2, <1>8 DEF Close, Deadlines
<1>9. ASSUME inflight' = inflight, sent' = sent, tries_left' = tries_left, now' = now,
             due' = due \/ due' = now,
             inflight \in Ops => due' = due,
             inflight \notin Ops /\ queue = <<>> => due' = now \/ queue' = <<>>
      PROVE  Deadlines'
  <2>1. inflight' \in Ops => due' <= sent' + Larger(PENDING_ACK_BUDGET, gvcp_timeout) + Allowance(Used)'
    BY <1>1, <1>4, <1>9
  <2>2. inflight' \in Ops \/ queue' # <<>> => now' <= due' + Lag
    BY <1>0, <1>1, <1>9
  <2> QED
    BY <2>1, <2>2 DEF Deadlines
<1>10. CASE Tick
  BY <1>0, <1>1, <1>4, <1>10 DEF Tick, Deadlines, sendVars
<1>11. CASE Submit \/ SubmitOther \/ Heartbeat
  <2>1. inflight # "closed" /\ inflight' = inflight /\ sent' = sent /\ tries_left' = tries_left /\ now' = now
    BY <1>11 DEF Submit, SubmitOther, Heartbeat, Enqueue
  <2>2. due' = IF inflight = "none" /\ queue = <<>> THEN now ELSE due
    BY <1>11 DEF Submit, SubmitOther, Heartbeat, Enqueue
  <2> QED
    BY <1>0, <1>2, <1>9, <2>1, <2>2
<1>12. CASE Pump
  BY <1>6, <1>7, <1>12 DEF Pump
<1>13. CASE Ack
  BY <1>7, <1>8, <1>13 DEF Ack
<1>14. CASE Continue
  BY <1>6, <1>7, <1>14 DEF Continue
<1>15. CASE Overdue
  <2>1. CASE tries_left > 0 /\ tries_left' = tries_left - 1 /\ due' = now + gvcp_timeout
             /\ UNCHANGED <<queue, inflight, sent, caller>>
    <3>1. Used' = Used + 1
      BY <1>0, <2>1 DEF Used
    <3>2. Allowance(Used)' = Allowance(Used) + Cost /\ Cost = gvcp_timeout + Lag
      BY <1>3, <3>1, AllowanceFacts DEF Allowance, Cost
    <3>3. now' = now /\ now <= due + Lag /\ inflight \in Ops
      BY <1>1, <1>15 DEF Overdue
    <3>4. due' <= sent' + Larger(PENDING_ACK_BUDGET, gvcp_timeout) + Allowance(Used)'
      BY <1>0, <1>1, <1>3, <2>1, <3>2, <3>3
    <3>5. now' <= due' + Lag
      BY <1>0, <2>1, <3>3
    <3> QED
      BY <3>4, <3>5 DEF Deadlines
  <2> QED
    BY <1>7, <1>8, <1>15, <2>1 DEF Overdue
<1>16. CASE GiveUp
  BY <1>9, <1>1, <1>2, <1>16 DEF GiveUp, sendVars
<1>17. ASSUME NEW ms \in PendingTimes, PendingAck(ms) PROVE Deadlines'
  <2>1. ms \in Nat /\ inflight \in Ops /\ inflight' = inflight /\ sent' = sent /\ now' = now
    BY <1>17 DEF PendingAck
  <2>2. /\ due' <= Larger(sent + PENDING_ACK_BUDGET, due)
        /\ due' >= now \/ due' >= due
        /\ due' \in Nat
    BY <1>0, <1>17, <2>1 DEF PendingAck, pending_limit, Larger, Smaller
  <2>3. Allowance(Used)' = Allowance(Used)
    BY <1>4, <1>17 DEF PendingAck
  <2>4. PENDING_ACK_BUDGET <= Larger(PENDING_ACK_BUDGET, gvcp_timeout)
    BY DEF Larger
  <2>5. due' <= sent' + Larger(PENDING_ACK_BUDGET, gvcp_timeout) + Allowance(Used)'
    <3>1. due' <= sent + PENDING_ACK_BUDGET \/ due' <= due
      BY <1>0, <2>2 DEF Larger
    <3> QED
      BY <1>0, <1>1, <1>3, <2>1, <2>2, <2>3, <2>4, <3>1
  <2>6. now' <= due' + Lag
    <3>1. now <= due + Lag
      BY <1>1, <2>1
    <3>2. due' \in Nat /\ (due' >= now \/ due' >= due) /\ now \in Nat /\ due \in Nat /\ Lag \in Nat
      BY <1>0, <2>2
    <3>3. \A n, d, e, l \in Nat : n <= d + l /\ (e >= n \/ e >= d) => n <= e + l
      OBVIOUS
    <3>4. now <= due' + Lag
      BY <3>1, <3>2, <3>3
    <3> QED
      BY <2>1, <3>4
  <2> QED
    BY <2>5, <2>6 DEF Deadlines
<1>18. CASE UNCHANGED vars
  BY <1>1, <1>4, <1>18 DEF vars, sendVars, Deadlines
<1> QED
  BY <1>10, <1>11, <1>12, <1>13, <1>14, <1>15, <1>16, <1>17, <1>18 DEF Next, Quiet

\* Nothing gets before a request that was submitted to a free channel without
\* its being counted as delayed, and only its own retransmissions move its
\* deadline.
LEMMA UndelayedStep == IInv /\ [Next]_vars => Undelayed'
<1> SUFFICES ASSUME IInv, [Next]_vars, caller' = "waiting", ~delayed' PROVE (OwnIsNext \/ OwnIsSent)'
  BY DEF Undelayed
<1> USE TimerAssumption
<1>0. /\ now \in Nat /\ due \in Nat /\ sent \in Nat /\ tries_left \in 0..retries /\ submitted \in Nat
      /\ queue \in Seq(Ops)
      /\ inflight \in Ops \cup {"none", "closed"}
  BY DEF IInv, TypeOK
<1>1. inflight \in Ops \/ queue # <<>> => now <= due + Lag
  BY DEF IInv, Deadlines
<1>2. "none" \notin Ops /\ "own" \in Ops /\ "other" \in Ops
  BY DEF Ops
<1>3. Used \in Nat /\ Allowance(Used) \in Nat /\ Allowance(0) = 0
  <2>1. Used \in Nat
    BY <1>0 DEF Used
  <2> QED
    BY <2>1, AllowanceFacts
<1>4. ASSUME tries_left' = tries_left PROVE Allowance(Used)' = Allowance(Used)
  BY <1>4 DEF Used, Allowance, Cost
<1>5. ASSUME caller = "waiting", ~delayed PROVE OwnIsNext \/ OwnIsSent
  BY <1>5 DEF IInv, Undelayed
<1>6. ASSUME OwnIsSent, UNCHANGED <<sendVars, submitted>> PROVE OwnIsSent'
  BY <1>4, <1>6 DEF OwnIsSent, sendVars
<1>7. ASSUME OwnIsNext, UNCHANGED <<queue, sendVars, submitted>> PROVE OwnIsNext'
  BY <1>7 DEF OwnIsNext, sendVars
<1>8. CASE Tick \/ GiveUp \/ UNCHANGED vars
  <2>1. UNCHANGED <<queue, sendVars, submitted, delayed>> /\ caller = "waiting"
    BY <1>8 DEF Tick, GiveUp, vars, callerVars
  <2> QED
    BY <1>5, <1>6, <1>7, <2>1
<1>9. CASE Submit
  <2>1. inflight' = "none" /\ due' = now /\ submitted' = now /\ queue = <<>> /\ queue' = Append(queue, "own")
    BY <1>9 DEF Submit, Enqueue
  <2>2. queue' # <<>> /\ Head(queue') = "own"
    BY <1>0, <1>2, <2>1, QueueFacts
  <2> QED
    BY <2>1, <2>2 DEF OwnIsNext
<1>10. CASE SubmitOther
  <2>1. /\ caller = "waiting" /\ ~delayed /\ submitted' = submitted /\ queue' = Append(queue, "other")
        /\ UNCHANGED <<inflight, sent, tries_left>>
        /\ due' = IF inflight = "none" /\ queue = <<>> THEN now ELSE due
    BY <1>10 DEF SubmitOther, Enqueue, callerVars
  <2>2. CASE OwnIsNext
    <3>1. queue' # <<>> /\ Head(queue') = Head(queue)
      BY <1>0, <1>2, <2>1, <2>2, QueueFacts DEF OwnIsNext
    <3> QED
      BY <2>1, <2>2, <3>1 DEF OwnIsNext
  <2>3. CASE OwnIsSent
    <3>1. due' = due
      BY <1>2, <2>1, <2>3 DEF OwnIsSent
    <3> QED
      BY <1>6, <2>1, <2>3, <3>1 DEF sendVars
  <2> QED
    BY <1>5, <2>1, <2>2, <2>3
<1>11. CASE Heartbeat
  <2>1. caller = "waiting" /\ ~delayed /\ inflight = "own" /\ UNCHANGED <<inflight, sent, tries_left, submitted>>
    BY <1>11 DEF Heartbeat
  <2>2. OwnIsSent /\ due' = due
    BY <1>2, <1>5, <1>11, <2>1 DEF Heartbeat, OwnIsNext
  <2> QED
    BY <1>6, <2>1, <2>2 DEF sendVars
<1>12. CASE Pump
  <2>1. caller = "waiting" /\ ~delayed /\ inflight = "none" /\ submitted' = submitted /\ now' = now
    BY <1>12 DEF Pump, Told
  <2>2. OwnIsNext
    BY <1>2, <1>5, <2>1 DEF OwnIsSent
  <2>3. Send("own")
    BY <1>12, <2>1, <2>2 DEF Pump, Told, OwnIsNext
  <2>4. Used' = 0 /\ Allowance(Used)' = 0
    <3>1. Used' = 0
      BY <2>3 DEF Send, Used
    <3> QED
      BY <1>3, <3>1 DEF Allowance, Cost
  <2>5. inflight' = "own" /\ sent' = now /\ due' = now + gvcp_timeout
    BY <2>3 DEF Send
  <2>6. now <= submitted + Lag
    BY <1>1, <2>2 DEF OwnIsNext
  <2>7. sent' <= submitted' + Lag
    BY <2>1, <2>5, <2>6
  <2>8. due' <= sent' + gvcp_timeout + Allowance(Used)'
    BY <1>0, <2>4, <2>5
  <2> QED
    BY <2>5, <2>7, <2>8 DEF OwnIsSent
<1>13. CASE Ack
  <2>1. caller = "waiting" /\ ~delayed /\ inflight # "own" /\ inflight # "none"
    BY <1>2, <1>13 DEF Ack, Told, Close
  <2> QED
    BY <1>5, <2>1 DEF OwnIsNext, OwnIsSent
<1>14. CASE Continue
  <2>1. caller = "waiting" /\ ~delayed /\ inflight = "other"
    BY <1>14 DEF Continue, callerVars
  <2> QED
    BY <1>5, <2>1 DEF OwnIsNext, OwnIsSent
<1>15. CASE Overdue
  <2>1. caller = "waiting" /\ ~delayed /\ inflight # "none" /\ submitted' = submitted /\ now' = now
    BY <1>2, <1>15 DEF Overdue, Told, Close
  <2>2. OwnIsSent
    BY <1>5, <2>1 DEF OwnIsNext
  <2>3. tries_left > 0 /\ tries_left' = tries_left - 1 /\ due' = now + gvcp_timeout /\ UNCHANGED <<inflight, sent>>
    BY <1>15, <2>1, <2>2 DEF Overdue, OwnIsSent, Told, Close
  <2>4. Used' = Used + 1
    BY <1>0, <2>3 DEF Used
  <2>5. Allowance(Used)' = Allowance(Used) + Cost /\ Cost = gvcp_timeout + Lag
    BY <1>3, <2>4, AllowanceFacts DEF Allowance, Cost
  <2>6. now <= due + Lag /\ due <= sent + gvcp_timeout + Allowance(Used)
    BY <1>1, <1>2, <2>2 DEF OwnIsSent
  <2>7. due' <= sent' + gvcp_timeout + Allowance(Used)'
    <3>1. now <= sent + gvcp_timeout + Allowance(Used) + Lag
      BY <1>0, <1>3, <2>6
    <3> QED
      BY <1>0, <1>3, <2>3, <2>5, <3>1
  <2>8. inflight' = "own" /\ sent' <= submitted' + Lag
    BY <2>1, <2>2, <2>3 DEF OwnIsSent
  <2> QED
    BY <2>7, <2>8 DEF OwnIsSent
<1>16. ASSUME NEW ms \in PendingTimes, PendingAck(ms) PROVE FALSE
  <2>1. caller = "waiting" /\ ~delayed /\ inflight # "own" /\ inflight # "none"
    BY <1>2, <1>16 DEF PendingAck
  <2> QED
    BY <1>5, <2>1 DEF OwnIsNext, OwnIsSent
<1> QED
  BY <1>8, <1>9, <1>10, <1>11, <1>12, <1>13, <1>14, <1>15, <1>16 DEF Next, Quiet

\* The retransmissions of a request that was not delayed, and the turns of the
\* loop they take, are over before its caller gives up.
LEMMA BudgetStep == IInv /\ [Next]_vars => BudgetCoversRetries'
<1> SUFFICES ASSUME IInv, [Next]_vars, caller' = "gave_up", (retries + 2) * Lag < Slack PROVE delayed'
  BY DEF BudgetCoversRetries
<1> USE TimerAssumption
<1>0. /\ now \in Nat /\ due \in Nat /\ sent \in Nat /\ tries_left \in 0..retries /\ submitted \in Nat
  BY DEF IInv, TypeOK
<1>1. CASE caller = "gave_up"
  <2>1. delayed
    BY <1>1 DEF IInv, BudgetCoversRetries
  <2>2. delayed' \in {delayed, TRUE}
    BY <1>1, <2>1 DEF Next, Tick, Submit, SubmitOther, Heartbeat, Pump, Ack, Continue, Overdue, GiveUp, Quiet, PendingAck,
                      vars, callerVars
  <2> QED
    BY <2>1, <2>2
<1>2. CASE caller # "gave_up"
  <2>1. GiveUp
    BY <1>2 DEF Next, Tick, Submit, SubmitOther, Heartbeat, Pump, Ack, Continue, Overdue, Quiet, PendingAck, Close, Told,
                vars, callerVars
  <2>2. caller = "waiting" /\ now >= submitted + transaction_budget /\ delayed' = delayed
    BY <2>1 DEF GiveUp
  <2> SUFFICES ASSUME ~delayed PROVE FALSE
    BY <2>2
  <2>3. OwnIsNext \/ OwnIsSent
    BY <2>2 DEF IInv, Undelayed
  <2>4. now <= due + Lag
    BY <2>3 DEF IInv, Deadlines, OwnIsNext, OwnIsSent, Ops
  <2>5. /\ Used \in Nat /\ Used <= retries
    BY <1>0 DEF Used
  <2>6. Allowance(Used) \in Nat /\ Allowance(retries) \in Nat /\ Allowance(Used) <= Allowance(retries)
    BY <2>5, AllowanceFacts
  <2>7. \A r, t, l \in Nat : t + l + l + r * (t + l) = t * (r + 1) + (r + 2) * l
    BY SMT
  <2>8. gvcp_timeout + Lag + Lag + Allowance(retries) = gvcp_timeout * (retries + 1) + (retries + 2) * Lag
    BY <2>7 DEF Allowance, Cost
  <2>9. gvcp_timeout * (retries + 1) \in Nat /\ (retries + 2) * Lag \in Nat
    BY SMT
  <2>10. now < submitted + gvcp_timeout * (retries + 1) + Slack
    <3>1. due <= submitted + Lag + gvcp_timeout + Allowance(retries)
      <4>1. CASE OwnIsNext
        BY <1>0, <2>6, <4>1 DEF OwnIsNext
      <4>2. CASE OwnIsSent
        BY <1>0, <2>6, <4>2 DEF OwnIsSent
      <4> QED
        BY <2>3, <4>1, <4>2
    <3>2. now <= submitted + (gvcp_timeout + Lag + Lag + Allowance(retries))
      BY <1>0, <2>4, <2>6, <3>1
    <3> QED
      BY <1>0, <2>8, <2>9, <3>2
  <2> QED
    BY <1>0, <2>2, <2>9, <2>10 DEF transaction_budget
<1> QED
  BY <1>1, <1>2

-----------------------------------------------------------------------------
\* The inductive invariant holds throughout.
LEMMA Invariant == Spec => []IInv
<1>1. IInv /\ [Next]_vars => IInv'
  BY TypeStep, DeadlineStep, UndelayedStep, BudgetStep DEF IInv
<1> QED
  BY <1>1, InitInv, PTL DEF Spec

\* The timer's variables keep their types: the deadline never becomes negative
\* and the retransmissions never exceed the configured retries.
THEOREM TypeCorrect == Spec => []TypeOK
<1>1. IInv => TypeOK
  BY DEF IInv
<1> QED
  BY <1>1, Invariant, PTL

\* No device holds the control channel for longer than the pending budget and
\* the retransmissions allow, for any configuration.
THEOREM HoldsAreBounded == Spec => []HoldIsBounded
<1>1. IInv => HoldIsBounded
  <2> SUFFICES ASSUME IInv, inflight \in Ops PROVE now <= sent + HoldBound
    BY DEF HoldIsBounded
  <2> USE TimerAssumption
  <2>0. now \in Nat /\ due \in Nat /\ sent \in Nat /\ tries_left \in 0..retries
    BY DEF IInv, TypeOK
  <2>1. Used \in Nat /\ Used <= retries
    BY <2>0 DEF Used
  <2>2. /\ Allowance(Used) \in Nat /\ Allowance(retries) \in Nat
        /\ Allowance(Used) <= Allowance(retries)
    BY <2>1, AllowanceFacts
  <2>3. HoldBound = Larger(PENDING_ACK_BUDGET, gvcp_timeout) + Lag + Allowance(retries)
    BY DEF HoldBound, Allowance, Cost
  <2>4. Larger(PENDING_ACK_BUDGET, gvcp_timeout) \in Nat
    BY DEF Larger
  <2>5. due <= sent + Larger(PENDING_ACK_BUDGET, gvcp_timeout) + Allowance(Used) /\ now <= due + Lag
    BY DEF IInv, Deadlines
  <2> QED
    BY <2>0, <2>2, <2>3, <2>4, <2>5
<1> QED
  BY <1>1, Invariant, PTL

\* A caller whose request found the channel free, and whose device sends no
\* PENDING_ACK, is never the first to give up, for any configuration whose
\* loop turns fit in the slack of transaction_budget.
THEOREM BudgetsCoverRetries == Spec => []BudgetCoversRetries
<1>1. IInv => BudgetCoversRetries
  BY DEF IInv
<1> QED
  BY <1>1, Invariant, PTL

-----------------------------------------------------------------------------
\* The handle of one request (handle.rs), for any parties to it.

\* A fulfil call that has begun finds the cell set, and one that has notified
\* has emptied the event's list.  Whoever is about to look at the cell again
\* is on the list of those to be woken, or will see the cell set.
Wakeups ==
  /\ \A f \in Fulfillers : fulfiller[f] # "set" => is_set
  /\ \A f \in Fulfillers, w \in Waiters :
       fulfiller[f] \in {"wake", "done"} /\ waiter[w] = "blocked" => w \notin listeners
  /\ \A f \in Fulfillers, t \in Tasks : fulfiller[f] = "done" => task[t] # "pending"
  /\ \A w \in Waiters : waiter[w] \in {"recheck", "blocked"} => w \in listeners \/ is_set
  /\ \A t \in Tasks : task[t] = "recheck" => t \in wakers \/ is_set
  /\ \A t \in Tasks : task[t] = "pending" => t \in wakers

Agreement == \A u \in Users : result[u] \in {cell, Unset}

HandleInv == HandleTypeOK /\ Wakeups /\ Agreement

-----------------------------------------------------------------------------
\* A new handle has an empty cell and nobody asleep on it.
LEMMA HandleInitInv == HandleInit => HandleInv
<1> SUFFICES ASSUME HandleInit PROVE HandleInv
  OBVIOUS
<1>1. HandleTypeOK
  BY DEF HandleInit, HandleTypeOK, Results
<1>2. Wakeups /\ Agreement
  BY DEF HandleInit, Wakeups, Agreement
<1> QED
  BY <1>1, <1>2 DEF HandleInv

\* The step in which a party sets the cell is the only one that changes it,
\* and it changes an empty cell only.
LEMMA HandleStepInv == HandleInv /\ [HandleNext]_handleVars => HandleInv'
<1> SUFFICES ASSUME HandleInv, [HandleNext]_handleVars PROVE HandleInv'
  OBVIOUS
<1> USE HandleAssumption DEF HandleInv, HandleTypeOK, Users, Results, is_set
<1>1. ASSUME NEW f \in Fulfillers, FulfillSet(f) PROVE HandleInv'
  <2>1. HandleTypeOK'
    BY <1>1 DEF FulfillSet
  <2>2. cell' # Unset /\ (cell # Unset => cell' = cell)
    BY <1>1 DEF FulfillSet
  <2>3. Wakeups'
    BY <1>1, <2>2 DEF FulfillSet, Wakeups
  <2>4. Agreement'
    BY <1>1, <2>2 DEF FulfillSet, Agreement
  <2> QED
    BY <2>1, <2>3, <2>4
<1>2. ASSUME NEW f \in Fulfillers, FulfillNotify(f) PROVE HandleInv'
  BY <1>2 DEF FulfillNotify, Wakeups, Agreement
<1>3. ASSUME NEW f \in Fulfillers, FulfillWake(f) PROVE HandleInv'
  <2>1. HandleTypeOK'
    BY <1>3 DEF FulfillWake
  <2>2. \A t \in Tasks : task'[t] # "pending"
    BY <1>3 DEF FulfillWake, Wakeups
  <2>3. is_set
    BY <1>3 DEF FulfillWake, Wakeups
  <2>4. Wakeups'
    BY <1>3, <2>2, <2>3 DEF FulfillWake, Wakeups
  <2>5. Agreement'
    BY <1>3 DEF FulfillWake, Agreement
  <2> QED
    BY <2>1, <2>4, <2>5
<1>4. ASSUME NEW w \in Waiters, WaitCheck(w) \/ WaitRecheck(w) \/ WaitNotified(w) \/ WaitTimeout(w)
      PROVE  HandleInv'
  <2>1. CASE WaitReturn(w) /\ (listeners' = listeners \/ listeners' = listeners \ {w})
    <3>1. HandleTypeOK'
      BY <2>1 DEF WaitReturn
    <3>2. Wakeups'
      BY <2>1 DEF WaitReturn, Wakeups
    <3>3. Agreement'
      BY <2>1 DEF WaitReturn, Agreement
    <3> QED
      BY <3>1, <3>2, <3>3
  <2>2. CASE waiter[w] = "check" /\ WaitGoOn(w, "listen") /\ UNCHANGED listeners
    BY <2>2 DEF WaitGoOn, Wakeups, Agreement
  <2>3. CASE waiter[w] = "recheck" /\ ~is_set /\ WaitGoOn(w, "blocked") /\ UNCHANGED listeners
    <3>1. HandleTypeOK' /\ Agreement'
      BY <2>3 DEF WaitGoOn, Agreement
    <3>2. Wakeups'
      BY <2>3 DEF WaitGoOn, Wakeups
    <3> QED
      BY <3>1, <3>2
  <2> QED
    BY <1>4, <2>1, <2>2, <2>3 DEF WaitCheck, WaitRecheck, WaitNotified, WaitTimeout
<1>5. ASSUME NEW w \in Waiters, WaitListen(w) PROVE HandleInv'
  BY <1>5 DEF WaitListen, WaitGoOn, Wakeups, Agreement
<1>6. ASSUME NEW t \in Tasks, PollCheck(t) \/ PollRecheck(t) PROVE HandleInv'
  <2>1. CASE PollReady(t) /\ UNCHANGED <<cell, fulfiller, waiter, listeners, wakers>>
    <3>1. HandleTypeOK'
      BY <2>1 DEF PollReady
    <3>2. Wakeups' /\ Agreement'
      BY <2>1 DEF PollReady, Wakeups, Agreement
    <3> QED
      BY <3>1, <3>2
  <2>2. CASE /\ task[t] = "check" /\ task' = [task EXCEPT ![t] = "register"]
             /\ UNCHANGED <<cell, fulfiller, waiter, listeners, wakers, result>>
    BY <2>2 DEF Wakeups, Agreement
  <2>3. CASE /\ task[t] = "recheck" /\ ~is_set /\ task' = [task EXCEPT ![t] = "pending"]
             /\ UNCHANGED <<cell, fulfiller, waiter, listeners, wakers, result>>
    BY <2>3 DEF Wakeups, Agreement
  <2> QED
    BY <1>6, <2>1, <2>2, <2>3 DEF PollCheck, PollRecheck
<1>7. ASSUME NEW t \in Tasks, PollRegister(t) \/ PollAgain(t) PROVE HandleInv'
  BY <1>7 DEF PollRegister, PollAgain, Wakeups, Agreement
<1>8. CASE UNCHANGED handleVars
  BY <1>8 DEF handleVars, Wakeups, Agreement
<1> QED
  BY <1>1, <1>2, <1>3, <1>4, <1>5, <1>6, <1>7, <1>8
     DEF HandleNext, Fulfill, WaitProceed, PollProceed, HandleSettled

-----------------------------------------------------------------------------
\* The inductive invariant holds throughout.
LEMMA HandleInvariant == HandleSpec => []HandleInv
  BY HandleInitInv, HandleStepInv, PTL DEF HandleSpec

\* The parts of a ResponseHandle keep their types.
THEOREM HandleTypeCorrect == HandleSpec => []HandleTypeOK
<1>1. HandleInv => HandleTypeOK
  BY DEF HandleInv
<1> QED
  BY <1>1, HandleInvariant, PTL

\* Once a fulfil call is through, no thread is blocked in wait_timeout without
\* having been notified, and no task sleeps on a set cell.
THEOREM NoWakeupIsLost == HandleSpec => []NoLostWakeup
<1>1. HandleInv => NoLostWakeup
  BY DEF HandleInv, Wakeups, NoLostWakeup
<1> QED
  BY <1>1, HandleInvariant, PTL

\* Everybody who gets an outcome gets the first one recorded, and a thread
\* that was notified never comes back with a timeout.
THEOREM OutcomesAgree == HandleSpec => []OneOutcome
<1>1. HandleInv => OneOutcome
  BY DEF HandleInv, Wakeups, Agreement, OneOutcome
<1> QED
  BY <1>1, HandleInvariant, PTL

-----------------------------------------------------------------------------
\* The registers of a device and their caches (genicam/node.rs).

\* A write of register r may change what register d stands for: the two can
\* share a block, a block of r drives one of d, or r is part of d's address.
Affects(r, d) ==
  \/ r # d /\ Points[r] \cap Points[d] # {}
  \/ r # d /\ \E b \in Points[r], c \in Points[d] : c \in Drives[b]
  \/ d \in Steers[r]

\* A cached register names every register that affects it as its invalidator
\* and is not addressed through a literal of the graph; and a write the device
\* carried out is acknowledged.
WellDescribed ==
  /\ \A r, d \in Registers : Affects(r, d) => Cachable[d] = "NoCache" \/ r \in pInvalidator[d]
  /\ \A n \in Features : \A d \in Steers[n] : Cachable[d] = "NoCache"
  /\ ~AcksLost

\* A cache that is used holds nothing but what its block holds.
CoherentWith(c) ==
  /\ c \in [Registers -> SUBSET Contents]
  /\ \A r \in Registers : Cachable[r] # "NoCache" => c[r] \subseteq {mem[at[r]]}

CacheInv ==
  /\ CacheTypeOK
  /\ \A r \in Registers : at[r] \in Points[r]
  /\ CoherentWith(cache)

-----------------------------------------------------------------------------
\* While the caches are coherent a read, cached or not, yields the block.
LEMMA ReadsTheDevice ==
  ASSUME CacheInv, NEW r \in Registers
  PROVE  ReadBytes(r) = mem[at[r]] /\ ReadBytes(r) \in Contents
<1>1. mem[at[r]] \in Contents
  BY DEF CacheInv, CacheTypeOK
<1>2. Cached(r) => (CHOOSE bytes \in cache[r] : TRUE) = mem[at[r]]
  BY DEF CacheInv, CoherentWith, Cached
<1> QED
  BY <1>1, <1>2 DEF ReadBytes

\* Reading fills caches with what the device holds.
LEMMA CacheReadCoherent ==
  ASSUME CacheInv, NEW S \in SUBSET Registers
  PROVE  CoherentWith(CacheRead(S))
<1>1. \A r \in Registers : ReadBytes(r) = mem[at[r]] /\ ReadBytes(r) \in Contents
  BY ReadsTheDevice
<1> QED
  BY <1>1 DEF CacheInv, CoherentWith, CacheRead

\* The bytes a write sends differ from the block in the masked fields only.
LEMMA EncodedFacts ==
  ASSUME CacheInv, NEW r \in Registers, NEW v \in Contents
  PROVE  /\ Encoded(r, v) \in Contents
         /\ \A f \in Fields \ Mask[r] : Encoded(r, v)[f] = mem[at[r]][f]
<1>1. ReadBytes(r) = mem[at[r]] /\ ReadBytes(r) \in [Fields -> Values]
  BY ReadsTheDevice DEF Contents
<1> QED
  BY <1>1 DEF Encoded, Contents

\* What a write does to the device: the other blocks it does not drive stay.
LEMMA DeviceTakesFacts ==
  ASSUME CacheInv, NEW b \in Blocks, NEW bytes \in Contents, DeviceTakes(b, bytes)
  PROVE  /\ mem' \in [Blocks -> Contents]
         /\ mem'[b] = bytes
         /\ \A c \in Blocks \ {b} : c \notin Drives[b] => mem'[c] = mem[c]
<1>1. PICK driven \in [Drives[b] -> Contents] :
        mem' = [c \in Blocks |-> IF c = b THEN bytes ELSE IF c \in Drives[b] THEN driven[c] ELSE mem[c]]
  BY DEF DeviceTakes
<1>2. \A c \in Drives[b] : driven[c] \in Contents
  BY <1>1
<1> QED
  BY <1>1, <1>2 DEF CacheInv, CacheTypeOK

\* What a write of node n does to the addresses: only those it steers move.
LEMMA MovesFacts ==
  ASSUME CacheInv, NEW n \in Nodes, Moves(n)
  PROVE  /\ at' \in [Registers -> Blocks]
         /\ \A d \in Registers : at'[d] \in Points[d]
         /\ \A d \in Registers \ Steers[n] : at'[d] = at[d]
<1>1. PICK target \in [Steers[n] -> Blocks] :
        /\ \A d \in Steers[n] : target[d] \in Points[d]
        /\ at' = [d \in Registers |-> IF d \in Steers[n] THEN target[d] ELSE at[d]]
  BY DEF Moves
<1> QED
  BY <1>1 DEF CacheInv, CacheTypeOK

-----------------------------------------------------------------------------
\* All caches start empty.
LEMMA CacheInitInv == CacheInit => CacheInv
  BY DEF CacheInit, CacheInv, CacheTypeOK, CoherentWith

\* A write leaves every cache empty or equal to its block.
LEMMA CacheWriteInv ==
  ASSUME WellDescribed, CacheInv, NEW r \in Registers, NEW v \in Contents, WriteRegister(r, v)
  PROVE  CacheInv'
<1> DEFINE bytes == Encoded(r, v)
<1>1. bytes \in Contents /\ at[r] \in Blocks /\ r \in Nodes
  BY EncodedFacts DEF CacheInv, CacheTypeOK, Nodes
<1>2. /\ mem' \in [Blocks -> Contents]
      /\ mem'[at[r]] = bytes
      /\ \A c \in Blocks \ {at[r]} : c \notin Drives[at[r]] => mem'[c] = mem[c]
  BY <1>1, DeviceTakesFacts DEF WriteRegister
<1>3. /\ at' \in [Registers -> Blocks]
      /\ \A d \in Registers : at'[d] \in Points[d]
      /\ \A d \in Registers \ Steers[r] : at'[d] = at[d]
  BY <1>1, MovesFacts DEF WriteRegister
<1>4. PICK S \in SUBSET Registers : cache' = CacheWrite(CacheRead(S), r, bytes)
  BY DEF WriteRegister, ReadsFor, Readable
<1> DEFINE before == CacheRead(S)
<1>5. CoherentWith(before)
  BY CacheReadCoherent
<1> HIDE DEF bytes, before
<1>6. cache' \in [Registers -> SUBSET Contents]
  BY <1>1, <1>4, <1>5 DEF CacheWrite, CoherentWith, before
\* A cache that is kept belongs to a register that r does not affect.
<1>7. ASSUME NEW d \in Registers, Cachable[d] # "NoCache" PROVE cache'[d] \subseteq {mem'[at'[d]]}
  <2>1. CASE d \in Invalidates(r)
    BY <1>4, <2>1 DEF CacheWrite
  <2>2. CASE d \notin Invalidates(r)
    <3>1. ~Affects(r, d)
      BY <1>7, <2>2 DEF WellDescribed, Invalidates
    <3>2. at'[d] = at[d]
      BY <1>3, <3>1 DEF Affects
    <3>3. CASE d = r
      BY <1>2, <1>4, <2>2, <3>2, <3>3 DEF CacheWrite
    <3>4. CASE d # r
      <4>1. at[r] \in Points[r] /\ at[d] \in Points[d] /\ at[d] \in Blocks
        BY DEF CacheInv, CacheTypeOK
      <4>2. at[d] # at[r] /\ at[d] \notin Drives[at[r]]
        BY <3>1, <3>4, <4>1 DEF Affects
      <4>3. mem'[at[d]] = mem[at[d]]
        BY <1>2, <4>1, <4>2
      <4>4. cache'[d] = before[d]
        BY <1>4, <2>2, <3>4 DEF CacheWrite, before
      <4> QED
        BY <1>5, <1>7, <3>2, <4>3, <4>4 DEF CoherentWith
    <3> QED
      BY <3>3, <3>4
  <2> QED
    BY <2>1, <2>2
<1> QED
  BY <1>2, <1>3, <1>6, <1>7 DEF CacheInv, CacheTypeOK, CoherentWith

\* Each call on the graph keeps the invariant.
LEMMA CacheStepInv == ASSUME WellDescribed PROVE CacheInv /\ [CacheNext]_cacheVars => CacheInv'
<1> SUFFICES ASSUME CacheInv, [CacheNext]_cacheVars PROVE CacheInv'
  OBVIOUS
<1>1. CASE ReadRegisters
  <2>1. PICK S \in SUBSET Registers : cache' = CacheRead(S)
    BY <1>1 DEF ReadRegisters, Readable
  <2>2. CoherentWith(cache')
    BY <2>1, CacheReadCoherent
  <2> QED
    BY <1>1, <2>2 DEF ReadRegisters, CacheInv, CacheTypeOK, CoherentWith
<1>2. ASSUME NEW r \in Registers, NEW v \in Contents, WriteFails(r, v) PROVE CacheInv'
  <2>1. PICK S \in SUBSET Registers : cache' = CacheRead(S)
    BY <1>2 DEF WriteFails, ReadsFor, Readable
  <2>2. CoherentWith(cache')
    BY <2>1, CacheReadCoherent
  <2>3. mem' = mem /\ at' = at
    BY <1>2 DEF WriteFails, WellDescribed
  <2> QED
    BY <2>2, <2>3 DEF CacheInv, CacheTypeOK, CoherentWith
<1>3. ASSUME NEW n \in Features, SetLiteral(n) PROVE CacheInv'
  <2>1. PICK S \in SUBSET Registers : cache' = CacheRead(S)
    BY <1>3 DEF SetLiteral, Readable
  <2>2. CoherentWith(cache')
    BY <2>1, CacheReadCoherent
  <2>3. /\ at' \in [Registers -> Blocks]
        /\ \A d \in Registers : at'[d] \in Points[d]
        /\ \A d \in Registers \ Steers[n] : at'[d] = at[d]
    BY <1>3, MovesFacts DEF SetLiteral, Nodes
  <2>4. \A d \in Registers : Cachable[d] # "NoCache" => at'[d] = at[d]
    BY <2>3 DEF WellDescribed
  <2>5. mem' = mem
    BY <1>3 DEF SetLiteral
  <2> QED
    BY <2>2, <2>3, <2>4, <2>5 DEF CacheInv, CacheTypeOK, CoherentWith
<1>4. CASE InvalidateCaches
  BY <1>4 DEF InvalidateCaches, CacheInv, CacheTypeOK, CoherentWith
<1>5. CASE UNCHANGED cacheVars
  BY <1>5 DEF cacheVars, CacheInv, CacheTypeOK, CoherentWith
<1> QED
  BY <1>1, <1>2, <1>3, <1>4, <1>5, CacheWriteInv DEF CacheNext

\* The inductive invariant holds throughout.
LEMMA CacheInvariant == ASSUME WellDescribed PROVE CacheSpec => []CacheInv
  BY CacheInitInv, CacheStepInv, PTL DEF CacheSpec

-----------------------------------------------------------------------------
\* For every well-described device, what a register reads as is what the
\* device holds at the register's address of the moment, whatever was read,
\* written and refused before.
THEOREM CachesStayFresh == ASSUME WellDescribed PROVE CacheSpec => []ReadsAreFresh
<1>1. CacheInv => ReadsAreFresh
  BY ReadsTheDevice DEF ReadsAreFresh
<1> QED
  BY <1>1, CacheInvariant, PTL

\* The read-modify-write of a masked register changes no field outside the
\* mask, although the bytes it sends come from the cache.
LEMMA WriteKeepsSiblings ==
  ASSUME CacheInv, NEW r \in Registers, NEW v \in Contents, WriteRegister(r, v) \/ WriteFails(r, v),
         NEW f \in Fields \ Mask[r]
  PROVE  mem'[at[r]][f] = mem[at[r]][f]
<1>1. Encoded(r, v) \in Contents /\ at[r] \in Blocks
  BY EncodedFacts DEF CacheInv, CacheTypeOK
<1>2. mem' = mem \/ mem'[at[r]] = Encoded(r, v)
  BY <1>1, DeviceTakesFacts DEF WriteRegister, WriteFails
<1> QED
  BY <1>2, EncodedFacts

\* For every well-described device, setting one field of a register leaves
\* the other fields of that register as they were.
THEOREM SiblingsAreKept == ASSUME WellDescribed PROVE CacheSpec => FieldWriteKeepsSiblings
<1> DEFINE Keeps == \A r \in Registers, v \in Contents :
             WriteRegister(r, v) \/ WriteFails(r, v)
               => \A f \in Fields \ Mask[r] : mem'[at[r]][f] = mem[at[r]][f]
<1>1. CacheInv => Keeps
  BY WriteKeepsSiblings
<1> QED
  BY <1>1, CacheInvariant, PTL DEF CacheSpec, FieldWriteKeepsSiblings
=============================================================================
