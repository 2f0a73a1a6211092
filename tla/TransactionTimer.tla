--------------------------- MODULE TransactionTimer ---------------------------
(***************************************************************************)
(* The clocks of the control channel (src/gige/runner.rs): the deadline of *)
(* the transaction in flight, its retransmissions, the PENDING_ACKs with   *)
(* which a device asks for more time, and the queue behind it; and the     *)
(* clock of a caller who has submitted a request of one transaction and    *)
(* waits for it no longer than transaction_budget.  ControlWorker leaves   *)
(* all of these to choice; here they are numbers.                          *)
(*                                                                         *)
(* The worker drains the socket and the requests, looks at the deadline    *)
(* and at the heartbeat, and pumps, once per turn of its loop: what it has *)
(* to do is done at most Lag after it is due.                              *)
(***************************************************************************)
EXTENDS Naturals, Sequences

CONSTANTS
  gvcp_timeout,         \* GigeConfig::gvcp_timeout
  retries,              \* GigeConfig::retries
  PENDING_ACK_BUDGET,   \* how far PENDING_ACKs may push the deadline
  PendingTimes,         \* the extensions a PENDING_ACK may ask for
  Lag,                  \* longest turn of the worker's loop
  Slack,                \* what transaction_budget adds to the timeouts
  MaxOthers,            \* bound: transactions of other callers
  MaxBeats              \* bound: heartbeats

ASSUME TimerAssumption ==
  /\ gvcp_timeout \in Nat
  /\ retries \in Nat
  /\ PENDING_ACK_BUDGET \in Nat
  /\ PendingTimes \subseteq Nat
  /\ Lag \in Nat
  /\ Slack \in Nat
  /\ MaxOthers \in Nat
  /\ MaxBeats \in Nat

VARIABLES
  now,
  queue,        \* Runner::queue, with the requests still on their way to it
  inflight,     \* the op in flight, "none", or "closed" when the worker has stopped
  sent,         \* when the transaction in flight was sent first
  due,          \* Inflight::deadline; with none in flight, since when the queue is to be pumped
  tries_left,
  caller,       \* where the caller of the own request is
  submitted,    \* when it was submitted
  delayed,      \* it had another op before it, or the device asked for more time
  others, beats \* how many there were

callerVars == <<caller, submitted, delayed>>
sendVars == <<inflight, sent, due, tries_left>>
vars == <<now, queue, sendVars, callerVars, others, beats>>

Ops == {"own", "other", "heartbeat"}

Larger(m, n) == IF m > n THEN m ELSE n
Smaller(m, n) == IF m < n THEN m ELSE n

\* Type invariant.  The clocks of the channel and of the caller, and the retry count, stay in range.
TypeOK ==
  /\ now \in Nat
  /\ queue \in Seq(Ops)
  /\ inflight \in Ops \cup {"none", "closed"}
  /\ sent \in Nat
  /\ due \in Nat
  /\ tries_left \in 0..retries
  /\ caller \in {"idle", "waiting", "told", "gave_up"}
  /\ submitted \in Nat
  /\ delayed \in BOOLEAN
  /\ others \in Nat
  /\ beats \in Nat

Init ==
  /\ now = 0
  /\ queue = <<>>
  /\ inflight = "none"
  /\ sent = 0
  /\ due = 0
  /\ tries_left = retries
  /\ caller = "idle"
  /\ submitted = 0
  /\ delayed = FALSE
  /\ others = 0
  /\ beats = 0

\* Time passes, but what is due does not stay undone for more than Lag.  When
\* there is nothing to do the time does not matter.
Tick ==
  /\ inflight \in Ops \/ queue # <<>>
  /\ now < due + Lag
  /\ now' = now + 1
  /\ UNCHANGED <<queue, sendVars, callerVars, others, beats>>

-----------------------------------------------------------------------------
\* ControlPort::send and enqueue: requests go to the back of the queue.
Enqueue(op) ==
  /\ queue' = Append(queue, op)
  /\ due' = IF inflight = "none" /\ queue = <<>> THEN now ELSE due
  /\ UNCHANGED <<now, inflight, sent, tries_left>>

Submit ==
  /\ caller = "idle" /\ inflight # "closed"
  /\ Enqueue("own")
  /\ caller' = "waiting"
  /\ submitted' = now
  /\ delayed' = (inflight # "none" \/ queue # <<>>)
  /\ UNCHANGED <<others, beats>>

SubmitOther ==
  /\ others < MaxOthers /\ inflight # "closed"
  /\ Enqueue("other")
  /\ others' = others + 1
  /\ UNCHANGED <<callerVars, beats>>

\* check_heartbeat: a heartbeat that is due jumps the queue, unless there is one.
Heartbeat ==
  /\ beats < MaxBeats
  /\ inflight \notin {"heartbeat", "closed"} /\ \A i \in 1..Len(queue) : queue[i] # "heartbeat"
  /\ queue' = <<"heartbeat">> \o queue
  /\ due' = IF inflight = "none" /\ queue = <<>> THEN now ELSE due
  /\ delayed' = (delayed \/ inflight # "own")
  /\ beats' = beats + 1
  /\ UNCHANGED <<now, inflight, sent, tries_left, caller, submitted, others>>

\* send_op: the clocks of a new transaction.
Send(op) ==
  /\ inflight' = op
  /\ sent' = now
  /\ due' = now + gvcp_timeout
  /\ tries_left' = retries

\* The handle of an op is set: a caller who still waits for it is told.
Told(op) == caller' = IF op = "own" /\ caller = "waiting" THEN "told" ELSE caller
Free == inflight' = "none" /\ due' = now /\ UNCHANGED <<sent, tries_left>>

\* pump, whose send may fail.
Pump ==
  /\ inflight = "none" /\ queue # <<>>
  /\ queue' = Tail(queue)
  /\ \/ Send(Head(queue)) /\ UNCHANGED caller
     \/ Free /\ Told(Head(queue))
  /\ UNCHANGED <<now, submitted, delayed, others, beats>>

\* shutdown after control was lost: all that wait are told.
Close ==
  /\ inflight' = "closed"
  /\ queue' = <<>>
  /\ caller' = IF caller = "waiting" THEN "told" ELSE caller
  /\ UNCHANGED <<sent, due, tries_left>>

-----------------------------------------------------------------------------
pending_limit == sent + PENDING_ACK_BUDGET

\* Mutant: the deadline is moved as far as the device asks, each time.
PendingAckUnlimited(ms) ==
  /\ inflight \in Ops
  /\ due' = now + ms
  /\ delayed' = (delayed \/ inflight = "own")
  /\ UNCHANGED <<now, queue, inflight, sent, tries_left, caller, submitted, others, beats>>

\* on_datagram, a PENDING_ACK for the transaction in flight.
PendingAck(ms) ==
  /\ inflight \in Ops
  /\ due' = Smaller(now + ms, Larger(pending_limit, due))
  /\ delayed' = (delayed \/ inflight = "own")
  /\ UNCHANGED <<now, queue, inflight, sent, tries_left, caller, submitted, others, beats>>

\* on_datagram, the acknowledge that ends an op.  A heartbeat may find that
\* control is lost.
Ack ==
  /\ inflight \in Ops
  /\ \/ Free /\ Told(inflight) /\ UNCHANGED queue
     \/ inflight = "heartbeat" /\ Close
  /\ UNCHANGED <<now, submitted, delayed, others, beats>>

\* continue_op: another op of several transactions goes on at once, or behind
\* a heartbeat that waits.
Continue ==
  /\ inflight = "other" /\ others < MaxOthers
  /\ others' = others + 1
  /\ IF queue # <<>> /\ Head(queue) = "heartbeat"
     THEN Free /\ queue' = <<"heartbeat", "other">> \o Tail(queue)
     ELSE Send("other") /\ UNCHANGED queue
  /\ UNCHANGED <<now, callerVars, beats>>

\* Mutant: a deadline twice as long after a retransmission.
OverdueBacksOff ==
  /\ inflight \in Ops
  /\ now >= due
  /\ \/ /\ tries_left > 0
        /\ tries_left' = tries_left - 1
        /\ due' = now + 2 * gvcp_timeout
        /\ UNCHANGED <<queue, inflight, sent, caller>>
     \/ tries_left = 0 /\ inflight # "heartbeat" /\ Free /\ Told(inflight) /\ UNCHANGED queue
     \/ tries_left = 0 /\ inflight = "heartbeat" /\ Close
  /\ UNCHANGED <<now, submitted, delayed, others, beats>>

\* check_inflight_deadline.
Overdue ==
  /\ inflight \in Ops
  /\ now >= due
  /\ \/ /\ tries_left > 0
        /\ tries_left' = tries_left - 1
        /\ due' = now + gvcp_timeout
        /\ UNCHANGED <<queue, inflight, sent, caller>>
     \/ tries_left = 0 /\ inflight # "heartbeat" /\ Free /\ Told(inflight) /\ UNCHANGED queue
     \/ tries_left = 0 /\ inflight = "heartbeat" /\ Close
  /\ UNCHANGED <<now, submitted, delayed, others, beats>>

\* GigeConfig::transaction_budget, and wait_timeout with it, which begins when
\* the request is submitted.
transaction_budget == gvcp_timeout * (retries + 1) + Slack
GiveUp ==
  /\ caller = "waiting"
  /\ now >= submitted + transaction_budget
  /\ caller' = "gave_up"
  /\ UNCHANGED <<now, queue, sendVars, submitted, delayed, others, beats>>

Quiet == inflight \notin Ops /\ queue = <<>> /\ UNCHANGED vars

Next ==
  \/ Tick \/ Submit \/ SubmitOther \/ Heartbeat \/ Pump \/ Ack \/ Continue \/ Overdue \/ GiveUp \/ Quiet
  \/ \E ms \in PendingTimes : PendingAck(ms)

Spec == Init /\ [][Next]_vars

-----------------------------------------------------------------------------
\* The longest a transaction is in flight.
HoldBound == Larger(PENDING_ACK_BUDGET, gvcp_timeout) + Lag + retries * (gvcp_timeout + Lag)

\* However many PENDING_ACKs a device sends, and whatever they ask for, it
\* cannot hold the channel and the heartbeats queued behind it for longer
\* than the pending budget and the retransmissions allow.
HoldIsBounded == inflight \in Ops => now <= sent + HoldBound

\* The time that transaction_budget has a caller wait, from the submission on,
\* covers all retransmissions and the turns of the worker's loop, as long as
\* these fit in the slack: a caller who gives up, and so takes for lost what
\* the worker may still carry out, was behind another op or a heartbeat, or
\* the device had asked for more time.
BudgetCoversRetries == caller = "gave_up" /\ (retries + 2) * Lag < Slack => delayed

\* What the comment on transaction_budget says of it: the worst-case duration
\* of one transaction, whatever the device answers.
BudgetIsWorstCase == inflight \in Ops => now <= sent + transaction_budget
=============================================================================
