--------------------------- MODULE ControlService ---------------------------
(***************************************************************************)
(* What the callers of the control worker rely on: it serves them in the   *)
(* order they came, implements RequestService, and under the fairness that *)
(* the code's scheduling justifies settles every request and ends when it  *)
(* is told to.                                                             *)
(***************************************************************************)
EXTENDS ControlWorker

\* Where a request stands: in flight, queued, or still in the channel.
Line == [i \in 1..Len(queue) |-> queue[i].req] \o chan
Ahead(r, s) ==
  \/ (\E t \in inflight : t.op.req = r) /\ (\E j \in 1..Len(Line) : Line[j] = s)
  \/ \E i, j \in 1..Len(Line) : i < j /\ Line[i] = r /\ Line[j] = s

\* Requests are served in the order they were submitted: a chunked transfer
\* that steps aside for a heartbeat does not fall behind the requests that
\* came after it.
NoOvertaking == [][\A r, s \in Asked : r # s /\ Ahead(r, s) => ~Ahead(s, r)']_vars

\* The worker keeps the promise of RequestService.
Service == INSTANCE RequestService WITH
  held <- Held,
  phase <- IF pc \in LoopStages THEN "running" ELSE pc

ImplementsService == Service!Spec

\* No handle is left pending for ever (runner.rs, shutdown; ControlPort::send):
\* once a submission has returned, a handle without an outcome belongs to a
\* request in flight or queued, or to one that lies in the channel while the
\* worker has yet to drain it.
NoOrphan == Service!NoOrphan

-----------------------------------------------------------------------------
\* What the code's scheduling justifies: threads go on, every deadline passes
\* in the end, heartbeats fall due again and again but not at every single
\* turn at which a request waits to be sent.
Fairness ==
  /\ \A r \in Requests : WF_vars((SendPush(r) \/ SendRecheck(r)) /\ UNCHANGED <<scenario, workerVars, deviceVars>>)
  /\ WF_vars((DisconnectPush \/ (owner = "wait" /\ RequestStop) \/ Join(pc = "exited"))
             /\ UNCHANGED <<scenario, workerVars, deviceVars>>)
  /\ WF_vars(LoopTest)
  /\ WF_vars(SocketEmpty)
  /\ WF_vars(DrainCommands \/ CommandsEmpty)
  /\ WF_vars(DeadlineAhead \/ Overdue)
  /\ WF_vars(HeartbeatSkip \/ HeartbeatDue)
  /\ WF_vars(Pump)
  /\ WF_vars(Teardown)
  /\ []<>(inflight = {}) \/ []<><<inflight' # inflight>>_inflight
  /\ SF_vars(HeartbeatDue)
  /\ SF_vars(HeartbeatSkip /\ queue # <<>> /\ inflight = {})

FairSpec == Spec /\ Fairness

\* Every request is settled in the end, whatever the link and the device do.
EveryHandleResolves == \A r \in Requests : client[r] = "push" ~> handle[r] # Unset

\* GigECamera::disconnect returns: the worker ends and is joined, whatever it
\* is in the middle of and whatever the callers do meanwhile.
DisconnectReturns == owner = "push" ~> owner = "joined"

\* When the device has ended this host's control the worker finds out and
\* stops, although no caller asks for anything, as long as the socket takes its
\* datagrams.  (A heartbeat that the socket refuses just goes: send_op fails the
\* op, and Op::fail has nothing to do for a heartbeat.  While that lasts the
\* worker does not learn of the loss.)
ControlLossIsNoticed == ~ccp /\ ~SendErrors ~> pc = "exited"
=============================================================================
