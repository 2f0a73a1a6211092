----------------------------- MODULE ControlPort -----------------------------
(***************************************************************************)
(* The submission side of the GVCP control channel: any number of threads  *)
(* submitting requests through clones of ControlPort, the owner that tears *)
(* the connection down, and the state they share with the control worker:  *)
(* the flume channel, the liveness flags of ThreadHandle and one           *)
(* ResponseHandle per request.  The worker is the business of the modules  *)
(* that extend this one (RequestService, ControlWorker).                   *)
(*                                                                         *)
(* A submission is three steps of the caller, as in ControlPort::send: the *)
(* liveness check, the push, and the liveness check after the push.  Any   *)
(* step of the worker or of another caller may come between two of them.   *)
(* The requests are those that read_memory and write_memory let through:   *)
(* an address, or the length of a write, that is no multiple of four is    *)
(* refused at once and never reaches the channel.                          *)
(***************************************************************************)
EXTENDS Naturals, Sequences

CONSTANTS
  Requests,   \* the requests of a run; a request is submitted at most once
  Shutdown    \* the ToWorker::Shutdown message

ASSUME ShutdownAssumption == Shutdown \notin Requests

VARIABLES
  client,       \* where the thread submitting each request is
  owner,        \* where the owner of the connection is
  chan,         \* the flume channel to the worker
  rx_open,      \* the worker still holds the receiving end
  is_alive,     \* ThreadHandle::is_alive
  should_die,   \* ThreadHandle::should_die
  handle        \* the outcome recorded in each request's ResponseHandle

portVars == <<client, owner, chan, rx_open, is_alive, should_die, handle>>

Unset == "unset"
Failures == {"nak", "protocol", "timeout", "io", "control_lost", "disconnected"}
Outcomes == Failures \cup {"ok"}
Messages == Requests \cup {Shutdown}

PortTypeOK ==
  /\ client \in [Requests -> {"idle", "push", "recheck", "done"}]
  /\ owner \in {"connected", "push", "wait", "join", "joined"}
  /\ chan \in Seq(Messages)
  /\ rx_open \in BOOLEAN
  /\ is_alive \in BOOLEAN
  /\ should_die \in BOOLEAN
  /\ handle \in [Requests -> Outcomes \cup {Unset}]

PortInit ==
  /\ client = [r \in Requests |-> "idle"]
  /\ owner = "connected"
  /\ chan = <<>>
  /\ rx_open = TRUE
  /\ is_alive = TRUE
  /\ should_die = FALSE
  /\ handle = [r \in Requests |-> Unset]

\* ResponseHandle::fulfill on the handles of a set of requests: the OnceLock
\* keeps the first outcome.
Fulfill(h, S, o) == [r \in Requests |-> IF r \in S /\ h[r] = Unset THEN o ELSE h[r]]

-----------------------------------------------------------------------------
\* ControlPort::send, first liveness check; submit() fails the handle on Err.
SendCheck(r) ==
  /\ client[r] = "idle"
  /\ IF is_alive
     THEN client' = [client EXCEPT ![r] = "push"] /\ UNCHANGED handle
     ELSE /\ client' = [client EXCEPT ![r] = "done"]
          /\ handle' = Fulfill(handle, {r}, "disconnected")
  /\ UNCHANGED <<owner, chan, rx_open, is_alive, should_die>>

\* The push into the channel, which fails once the receiver is gone.
SendPush(r) ==
  /\ client[r] = "push"
  /\ IF rx_open
     THEN /\ chan' = Append(chan, r)
          /\ client' = [client EXCEPT ![r] = "recheck"]
          /\ UNCHANGED handle
     ELSE /\ client' = [client EXCEPT ![r] = "done"]
          /\ handle' = Fulfill(handle, {r}, "disconnected")
          /\ UNCHANGED chan
  /\ UNCHANGED <<owner, rx_open, is_alive, should_die>>

\* Mutant: no liveness check after the push.
SendUnchecked(r) ==
  /\ client[r] = "recheck"
  /\ client' = [client EXCEPT ![r] = "done"]
  /\ UNCHANGED <<owner, chan, rx_open, is_alive, should_die, handle>>

\* The liveness check after the push.
SendRecheck(r) ==
  /\ client[r] = "recheck"
  /\ client' = [client EXCEPT ![r] = "done"]
  /\ handle' = IF is_alive THEN handle ELSE Fulfill(handle, {r}, "disconnected")
  /\ UNCHANGED <<owner, chan, rx_open, is_alive, should_die>>

Submit(r) == SendCheck(r) \/ SendPush(r) \/ SendRecheck(r)

\* GigECamera::disconnect: the liveness check of send(Shutdown).
DisconnectCheck ==
  /\ owner = "connected"
  /\ owner' = IF is_alive THEN "push" ELSE "wait"
  /\ UNCHANGED <<client, chan, rx_open, is_alive, should_die, handle>>

DisconnectPush ==
  /\ owner = "push"
  /\ chan' = IF rx_open THEN Append(chan, Shutdown) ELSE chan
  /\ owner' = "wait"
  /\ UNCHANGED <<client, rx_open, is_alive, should_die, handle>>

\* request_stop, once wait_exited returned or its deadline passed; or the
\* drop of a connection that was never disconnected.
RequestStop ==
  /\ owner \in {"connected", "wait"}
  /\ should_die' = TRUE
  /\ owner' = "join"
  /\ UNCHANGED <<client, chan, rx_open, is_alive, handle>>

\* The join in the owning ThreadHandle's drop returns when the thread ended.
Join(exited) ==
  /\ owner = "join"
  /\ exited
  /\ owner' = "joined"
  /\ UNCHANGED <<client, chan, rx_open, is_alive, should_die, handle>>

Disconnect == DisconnectCheck \/ DisconnectPush \/ RequestStop
=============================================================================
