---------------------------- MODULE RequestService ----------------------------
(***************************************************************************)
(* What the control channel promises the threads that submit requests,     *)
(* whatever goes on between the worker and the device: a request taken     *)
(* from the channel is held until the worker answers it, and the shutdown  *)
(* of the worker leaves no request behind.  The worker of runner.rs is     *)
(* shown to implement this specification in ControlWorker.                 *)
(***************************************************************************)
EXTENDS ControlPort

VARIABLES
  held,    \* requests the worker took from the channel and has not answered
  phase    \* how far the worker's life has got

vars == <<portVars, held, phase>>

Phases == {"running", "stopping", "released", "draining", "exiting", "exited"}

\* Type invariant.  The state of the callers and of the worker that serves them.
TypeOK ==
  /\ PortTypeOK
  /\ held \subseteq Requests
  /\ phase \in Phases

Init ==
  /\ PortInit
  /\ held = {}
  /\ phase = "running"

-----------------------------------------------------------------------------
\* One message of the channel while the worker runs.
Take ==
  /\ phase = "running"
  /\ chan # <<>>
  /\ chan' = Tail(chan)
  /\ IF Head(chan) = Shutdown
     THEN phase' = "stopping" /\ UNCHANGED held
     ELSE held' = held \cup {Head(chan)} /\ UNCHANGED phase
  /\ UNCHANGED <<client, owner, rx_open, is_alive, should_die, handle>>

\* The worker settles a request it holds, for better or worse.
Answer(r) ==
  /\ phase = "running"
  /\ r \in held
  /\ held' = held \ {r}
  /\ \E o \in Outcomes \ {"control_lost", "disconnected"} : handle' = Fulfill(handle, {r}, o)
  /\ UNCHANGED <<client, owner, chan, rx_open, is_alive, should_die, phase>>

\* The worker leaves its loop: it was told to, or it lost the device.
Stop ==
  /\ phase = "running"
  /\ phase' = "stopping"
  /\ UNCHANGED <<portVars, held>>

\* Shutdown, up to the release of device control: everything held fails.
FailHeld ==
  /\ phase = "stopping"
  /\ phase' = "released"
  /\ held' = {}
  /\ \E o \in {"control_lost", "disconnected"} : handle' = Fulfill(handle, held, o)
  /\ UNCHANGED <<client, owner, chan, rx_open, is_alive, should_die>>

\* ThreadHandle::has_died.
HasDied ==
  /\ phase = "released"
  /\ phase' = "draining"
  /\ is_alive' = FALSE
  /\ UNCHANGED <<client, owner, chan, rx_open, should_die, handle, held>>

\* The last drain of the channel.
Drain ==
  /\ phase = "draining"
  /\ chan # <<>>
  /\ chan' = Tail(chan)
  /\ \E o \in {"control_lost", "disconnected"} : handle' = Fulfill(handle, {Head(chan)}, o)
  /\ UNCHANGED <<client, owner, rx_open, is_alive, should_die, held, phase>>

DrainEnd ==
  /\ phase = "draining"
  /\ chan = <<>>
  /\ phase' = "exiting"
  /\ UNCHANGED <<portVars, held>>

\* The runner is dropped, and the receiving end of the channel with it.
DropReceiver ==
  /\ phase = "exiting"
  /\ phase' = "exited"
  /\ rx_open' = FALSE
  /\ UNCHANGED <<client, owner, chan, is_alive, should_die, handle, held>>

Worker == Take \/ (\E r \in Requests : Answer(r)) \/ Stop \/ FailHeld \/ HasDied
          \/ Drain \/ DrainEnd \/ DropReceiver

\* The connection is gone and nobody is left in the middle of a submission.
Terminated ==
  /\ owner = "joined"
  /\ \A r \in Requests : client[r] = "done"
  /\ UNCHANGED vars

Next ==
  \/ \E r \in Requests : Submit(r) /\ UNCHANGED <<held, phase>>
  \/ Disconnect /\ UNCHANGED <<held, phase>>
  \/ Join(phase = "exited") /\ UNCHANGED <<held, phase>>
  \/ Worker
  \/ Terminated

Spec == Init /\ [][Next]_vars

-----------------------------------------------------------------------------
InChan(m) == \E i \in 1..Len(chan) : chan[i] = m

\* No handle is left pending for ever (runner.rs, shutdown; ControlPort::send):
\* once a submission has returned, a handle without an outcome belongs to a
\* request that the worker still holds, or that lies in the channel while the
\* worker has yet to drain it.  The liveness check after the push and the
\* has_died before the last drain are what closes the gap between them.
NoOrphan ==
  \A r \in Requests :
    client[r] = "done" /\ handle[r] = Unset =>
      \/ r \in held /\ phase \in {"running", "stopping"}
      \/ InChan(r) /\ phase \in {"running", "stopping", "released", "draining"}

\* An outcome, once recorded, never changes: late answers and the double
\* failure by the sender and the drain are absorbed by the OnceLock.
OutcomeIsFinal ==
  [][\A r \in Requests : handle[r] # Unset => handle'[r] = handle[r]]_vars
=============================================================================
