---------------------------- MODULE CameraSession ----------------------------
(***************************************************************************)
(* The life of a GenICamera (src/genicam, src/gige/mod.rs): connecting and *)
(* disconnecting, opening a stream channel, a continuous Acquisition and a *)
(* SnapshotSession.  Each of these is a sequence of register writes whose  *)
(* order, and whose undoing when one of them fails, the code spells out    *)
(* step by step; both guards borrow the camera, so there is one sequence   *)
(* at a time.                                                              *)
(*                                                                         *)
(* A step is a transaction with the device.  It succeeds, is refused or    *)
(* lost, or, when its acknowledge is lost, fails although the device       *)
(* carried it out.  Once the control worker is dead every step fails.      *)
(***************************************************************************)
EXTENDS Integers, Sequences

CONSTANTS
  Modes,           \* what AcquisitionMode may be set to before a session
  Capacity,        \* of the session's subscription
  MaxSnaps,        \* bound on the snaps taken
  Links,           \* the links looked at: may the acknowledge of a step be lost?
  Refusals         \* may a step be refused?

ASSUME SessionAssumption ==
  /\ "SingleFrame" \in Modes /\ "none" \notin Modes
  /\ Capacity \in Nat \ {0} /\ MaxSnaps \in Nat
  /\ {Refusals} \cup Links \subseteq BOOLEAN

VARIABLES
  acks_lost,      \* the link of this behaviour: never changes
  pc,             \* the step under way, or where the camera rests
  guard,          \* "none", "acquisition" or "snapshot"
  worker,         \* the control worker: "none", "alive" or "dead"
  connected,      \* GigECamera::connection is Some
  graph,          \* the feature model is loaded
  dev,            \* the device's registers
  socket,         \* the stream socket is open
  auto_stops, restore_mode,
  snaps,          \* snaps taken so far: the number of the current one
  transit,        \* the snaps whose frame is on its way or being reassembled
  frames,         \* the session's subscription: the snap each frame belongs to
  result,         \* the snap whose frame snap() returned, NoFrame for none
  late,           \* history: the earlier frames that were still to come when the snap began
  failed          \* history: the registers whose undoing failed or was left out

camera == <<pc, guard, worker, connected, graph, socket, auto_stops, restore_mode>>
traffic == <<snaps, transit, frames, result, late>>
vars == <<acks_lost, camera, dev, traffic, failed>>

NoFrame == -1

Init ==
  /\ acks_lost \in Links
  /\ pc = "idle" /\ guard = "none" /\ worker = "none"
  /\ connected = FALSE /\ graph = FALSE /\ socket = FALSE
  /\ auto_stops = FALSE /\ restore_mode = "none"
  /\ \E mode \in Modes : 
       dev = [ccp |-> FALSE, scp |-> FALSE, locked |-> FALSE, mode |-> mode,
              original |-> mode, acquiring |-> FALSE, shot |-> 0]
  /\ snaps = 0 /\ transit = {} /\ frames = <<>> /\ result = NoFrame /\ late = {}
  /\ failed = {}

-----------------------------------------------------------------------------
\* The steps.  Those on features go through the feature model.

Establishing == {"ccp", "heartbeat", "caps", "info"}
Features == {"payload", "get_mode", "set_mode", "unmode", "lock", "start", "unstart", "stop", "unlock", "restore", "arm", "halt"}
Opening == {"scda", "scp", "scps"}
Steps == Establishing \cup Features \cup Opening \cup {"xml", "clear_scp", "close"}

\* What the device does when it carries a step out.
Effect(d, step) ==
  CASE step = "ccp" -> [d EXCEPT !.ccp = TRUE]
    [] step = "scp" -> [d EXCEPT !.scp = TRUE]
    [] step \in {"clear_scp", "close"} -> [d EXCEPT !.scp = FALSE]
    [] step = "set_mode" -> [d EXCEPT !.mode = "SingleFrame"]
    [] step \in {"unmode", "restore"} -> [d EXCEPT !.mode = restore_mode]
    [] step = "lock" -> [d EXCEPT !.locked = TRUE]
    [] step \in {"unlock", "unstart"} -> [d EXCEPT !.locked = FALSE]
    [] step \in {"start", "arm"} -> [d EXCEPT !.acquiring = TRUE, !.shot = snaps]
    [] step \in {"stop", "halt"} -> [d EXCEPT !.acquiring = FALSE]
    [] OTHER -> d

\* The register an undoing step puts back.
Undoes(step) ==
  CASE step \in {"clear_scp", "close"} -> {"scp"}
    [] step \in {"unlock", "unstart"} -> {"locked"}
    [] step \in {"unmode", "restore"} -> {"mode"}
    [] step \in {"stop", "halt"} -> {"acquiring"}
    [] OTHER -> {}

\* History.  A register is owed from the failure of its undoing until it is
\* undone; for the acquisition, until the channel is closed on a quiet device.
Owed(step, ok, quiet) ==
  LET paid == IF ok THEN Undoes(step) \ {"acquiring"} ELSE {}
      owed == IF ok THEN {} ELSE Undoes(step)
  IN  ((failed \ paid) \cup owed) \ (IF quiet THEN {"acquiring"} ELSE {})

\* Mutant: a failed open leaves the mode as it is.
AbandonAtOnce == "idle"

\* Where a failure before the channel is open leads: a snapshot session that
\* changed the mode puts it back.
Abandon == IF guard = "snapshot" /\ restore_mode # "none" THEN "unmode" ELSE "idle"

\* The steps in the order the code takes them: establish and ensure_genicam;
\* open_stream_inner; StreamChannel::drop; Acquisition::start, stop_camera and
\* drop; SnapshotSession::open, snap and drop.
EstablishOrder == [ccp |-> "heartbeat", heartbeat |-> "caps", caps |-> "info", info |-> "xml"]

GenicamOrder == [xml |-> "idle"]

OpenOrder == [payload |-> "scda", scda |-> "scp", scp |-> "scps", scps |-> "lock", clear_scp |-> Abandon]

CloseOrder == [close |-> "idle"]

AcquisitionOrder ==
  [lock |-> "start", start |-> "running", unstart |-> "close", stop |-> "unlock", unlock |-> "close"]

SnapshotOrder ==
  [get_mode |-> IF dev.mode = "SingleFrame" THEN "payload" ELSE "set_mode",
   set_mode |-> "payload", unmode |-> "idle", lock |-> "session",
   arm |-> "wait", halt |-> "session",
   unlock |-> IF restore_mode # "none" THEN "restore" ELSE "close", restore |-> "close"]

AfterOk(step) ==
  CASE step \in DOMAIN EstablishOrder -> EstablishOrder[step]
    [] step \in DOMAIN GenicamOrder -> GenicamOrder[step]
    [] step \in DOMAIN OpenOrder -> OpenOrder[step]
    [] step \in DOMAIN CloseOrder -> CloseOrder[step]
    [] OTHER -> IF guard = "snapshot" THEN SnapshotOrder[step] ELSE AcquisitionOrder[step]

\* open_stream_inner: once the SCP write is acknowledged, a failure clears it.
OpenFailed(step) == IF step = "scps" THEN "clear_scp" ELSE Abandon

\* Where the guards' own steps lead when they fail; clean-up, and what is
\* optional, goes on as if it had not.
AcquisitionFailed == [start |-> "unstart"]

SnapshotFailed == [get_mode |-> "payload", arm |-> "session"]

AfterErr(step) ==
  CASE step \in Establishing -> "teardown"
    [] step \in {"payload"} \cup Opening -> OpenFailed(step)
    [] step \in DOMAIN AcquisitionFailed -> AcquisitionFailed[step]
    [] step \in DOMAIN SnapshotFailed -> SnapshotFailed[step]
    [] OTHER -> AfterOk(step)

\* What a step that returned changes in the camera itself.
Settle(step, ok) ==
  LET next == IF ok THEN AfterOk(step) ELSE AfterErr(step)
  IN  /\ pc' = next
      /\ connected' = (connected \/ (step = "info" /\ ok))
      /\ graph' = (graph \/ (step = "xml" /\ ok))
      /\ socket' = CASE step = "payload" /\ ok -> TRUE              \* bind
                     [] next \in {"idle", "unmode", "clear_scp"} -> FALSE
                     [] OTHER -> socket
      /\ auto_stops' = CASE step = "get_mode" -> ok /\ dev.mode = "SingleFrame"
                         [] step = "set_mode" -> ok
                         [] OTHER -> auto_stops
      /\ restore_mode' = CASE step = "set_mode" /\ ok -> dev.mode
                           [] next = "idle" -> "none"
                           [] OTHER -> restore_mode
      /\ guard' = IF next = "idle" THEN "none" ELSE guard
      /\ transit' = IF next = "idle" THEN {} ELSE transit
      /\ frames' = IF next = "idle" THEN <<>> ELSE frames
      /\ result' = IF next = "idle" THEN NoFrame ELSE result
      /\ late' = IF next = "idle" THEN {} ELSE late
      /\ failed' = Owed(step, ok, next = "idle" /\ ~dev'.acquiring)
      /\ UNCHANGED <<worker, snaps>>

\* The payload size may also be configured, which takes no feature model.
Reachable(step) == worker = "alive" /\ (step \in Features \ {"payload"} => graph)

StepOk ==
  /\ pc \in Steps
  /\ Reachable(pc)
  /\ dev' = Effect(dev, pc)
  /\ Settle(pc, TRUE)

StepFails ==
  /\ pc \in Steps
  /\ \/ ~Reachable(pc) /\ UNCHANGED dev
     \/ pc = "payload" /\ ~graph /\ UNCHANGED dev
     \/ Refusals /\ UNCHANGED dev
     \/ acks_lost /\ Reachable(pc) /\ dev' = Effect(dev, pc)
  /\ Settle(pc, FALSE)

-----------------------------------------------------------------------------
\* GenICamera::connect: a dead worker is joined first; a live connection goes
\* straight to the feature model, and to nothing when that is loaded.
Connect ==
  /\ pc = "idle"
  /\ ~(connected /\ worker = "alive" /\ graph)
  /\ IF connected /\ worker = "alive"
     THEN pc' = "xml" /\ UNCHANGED <<worker, connected, graph>>
     ELSE pc' = "ccp" /\ worker' = "alive" /\ connected' = FALSE /\ graph' = FALSE
  /\ UNCHANGED <<guard, dev, socket, auto_stops, restore_mode, traffic, failed>>

\* Mutant: only an established connection gives control back.
ReleaseIfConnected ==
  IF worker # "alive" \/ ~connected THEN UNCHANGED <<dev, failed>>
  ELSE \/ dev' = [dev EXCEPT !.ccp = FALSE] /\ failed' = failed \ {"ccp"}
       \/ failed' = failed \cup {"ccp"} /\ UNCHANGED dev

\* The end of a worker: of a connection that was not established, or by
\* disconnect.  A worker that has not lost control gives it back, best effort.
Release ==
  IF worker # "alive" THEN UNCHANGED <<dev, failed>>
  ELSE \/ dev' = [dev EXCEPT !.ccp = FALSE] /\ failed' = failed \ {"ccp"}
       \/ failed' = failed \cup {"ccp"} /\ UNCHANGED dev

Teardown ==
  /\ pc = "teardown" \/ (pc = "idle" /\ connected)
  /\ Release
  /\ pc' = "idle" /\ worker' = "none" /\ connected' = FALSE /\ graph' = FALSE
  /\ UNCHANGED <<guard, socket, auto_stops, restore_mode, traffic>>

\* The heartbeat finds control gone, or the device unreachable, and the worker
\* ends without releasing anything.
ControlLost ==
  /\ worker = "alive"
  /\ worker' = "dead"
  /\ failed' = failed \cup {"ccp"}
  /\ UNCHANGED <<pc, guard, connected, graph, dev, socket, auto_stops, restore_mode, traffic>>

\* start_acquisition and snapshot_session.
StartAcquisition ==
  /\ pc = "idle" /\ connected
  /\ pc' = "payload" /\ guard' = "acquisition"
  /\ UNCHANGED <<worker, connected, graph, dev, socket, auto_stops, restore_mode, traffic, failed>>

OpenSession ==
  /\ pc = "idle" /\ connected
  /\ pc' = "get_mode" /\ guard' = "snapshot"
  /\ UNCHANGED <<worker, connected, graph, dev, socket, auto_stops, restore_mode, traffic, failed>>

\* The guards are dropped.
DropGuard ==
  /\ pc \in {"running", "session"}
  /\ pc' = IF pc = "running" THEN "stop" ELSE "unlock"
  /\ UNCHANGED <<guard, worker, connected, graph, dev, socket, auto_stops, restore_mode, traffic, failed>>

-----------------------------------------------------------------------------
\* Mutant: what the subscription holds is left in it.
SnapUncleared ==
  /\ pc = "session"
  /\ snaps < MaxSnaps
  /\ pc' = "arm"
  /\ snaps' = snaps + 1
  /\ result' = NoFrame
  /\ late' = transit \cup (IF dev.acquiring THEN {dev.shot} ELSE {})
  /\ UNCHANGED <<guard, worker, connected, graph, dev, socket, auto_stops, restore_mode, transit, frames, failed>>

\* SnapshotSession::snap: clear the subscription, arm, wait.
Snap ==
  /\ pc = "session"
  /\ snaps < MaxSnaps
  /\ pc' = "arm"
  /\ snaps' = snaps + 1
  /\ frames' = <<>>
  /\ result' = NoFrame
  /\ late' = transit \cup (IF dev.acquiring THEN {dev.shot} ELSE {})
  /\ UNCHANGED <<guard, worker, connected, graph, dev, socket, auto_stops, restore_mode, transit, failed>>

\* Mutant: only a timeout stops the camera.
FrameArrivesUnstopped ==
  /\ pc = "wait"
  /\ frames # <<>>
  /\ result' = Head(frames)
  /\ frames' = Tail(frames)
  /\ pc' = "session"
  /\ UNCHANGED <<guard, worker, connected, graph, dev, socket, auto_stops, restore_mode, snaps, transit, late, failed>>

\* A camera that stops itself is taken to have done so when a frame is there;
\* if that is the frame of an earlier snap, stopping it remains owed.
FrameArrives ==
  /\ pc = "wait"
  /\ frames # <<>>
  /\ result' = Head(frames)
  /\ frames' = Tail(frames)
  /\ pc' = IF auto_stops THEN "session" ELSE "halt"
  /\ failed' = IF auto_stops /\ Head(frames) # snaps THEN failed \cup {"acquiring"} ELSE failed
  /\ UNCHANGED <<guard, worker, connected, graph, dev, socket, auto_stops, restore_mode, snaps, transit, late>>

FrameTimeout ==
  /\ pc = "wait"
  /\ frames = <<>>
  /\ pc' = "halt"
  /\ UNCHANGED <<guard, worker, connected, graph, dev, socket, auto_stops, restore_mode, traffic, failed>>

\* The device transmits a frame; in SingleFrame mode it then stops.  (external)
Transmit ==
  /\ guard = "snapshot" /\ dev.acquiring /\ dev.scp
  /\ dev.shot \notin transit
  /\ transit' = transit \cup {dev.shot}
  /\ dev' = [dev EXCEPT !.acquiring = dev.mode # "SingleFrame"]
  /\ UNCHANGED <<camera, snaps, frames, result, late, failed>>

\* The stream worker closes the frame, in whatever state, and hands it on;
\* or nothing of it arrived.
Deliver(k) ==
  /\ socket
  /\ transit' = transit \ {k}
  /\ \/ frames' = IF Len(frames) < Capacity THEN Append(frames, k) ELSE frames
     \/ UNCHANGED frames
  /\ UNCHANGED <<camera, dev, snaps, result, late, failed>>

Next ==
  /\ \/ StepOk \/ StepFails
     \/ Connect \/ Teardown \/ ControlLost
     \/ StartAcquisition \/ OpenSession \/ DropGuard
     \/ Snap \/ FrameArrives \/ FrameTimeout
     \/ Transmit \/ \E k \in transit : Deliver(k)
  /\ UNCHANGED acks_lost

Spec == Init /\ [][Next]_vars

-----------------------------------------------------------------------------
\* Type invariant.  The steps, the device's registers and the bounded subscription of a session.
TypeOK ==
  /\ acks_lost \in Links
  /\ pc \in Steps \cup {"idle", "teardown", "running", "session", "wait"}
  /\ guard \in {"none", "acquisition", "snapshot"}
  /\ worker \in {"none", "alive", "dead"}
  /\ {connected, graph, socket, auto_stops} \subseteq BOOLEAN
  /\ restore_mode \in Modes \cup {"none"}
  /\ dev \in [ccp : BOOLEAN, scp : BOOLEAN, locked : BOOLEAN, mode : Modes,
              original : Modes, acquiring : BOOLEAN, shot : 0..MaxSnaps]
  /\ snaps \in 0..MaxSnaps /\ transit \subseteq 0..MaxSnaps /\ late \subseteq 0..MaxSnaps
  /\ frames \in Seq(0..MaxSnaps) /\ Len(frames) <= Capacity
  /\ result \in 0..MaxSnaps \cup {NoFrame}
  /\ failed \subseteq {"ccp", "scp", "locked", "mode", "acquiring"}

\* A worker that is gone has given control of the device back, however far
\* establish had come and whether or not the CCP write was acknowledged,
\* unless the release was lost or control with it.
ControlIsReturned ==
  pc = "idle" /\ worker # "alive" /\ dev.ccp => "ccp" \in failed

\* A stream channel that is not open, because open_stream failed or the
\* StreamChannel was dropped, is closed on the device too (SCP = 0).
ChannelIsClosed == pc = "idle" /\ dev.scp => "scp" \in failed

\* When no guard is held the device is as it was found: transport parameters
\* unlocked, AcquisitionMode restored, not acquiring, channel closed; only what
\* a failed clean-up step owes is left.  Whichever step of start, open_stream
\* or drop failed, as long as a step that fails was not carried out.
LeftAsFound ==
  ~acks_lost =>
    /\ ChannelIsClosed
    /\ pc = "idle" =>
         /\ dev.locked => "locked" \in failed
         /\ dev.mode # dev.original => "mode" \in failed
         /\ dev.acquiring => "acquiring" \in failed

\* Between snaps the camera is idle: an open session uses no bandwidth.  Stopping
\* it failed otherwise, or was left out because a late frame was taken for the
\* one of the snap.
CameraIsIdle ==
  pc = "session" /\ guard = "snapshot" /\ dev.acquiring => "acquiring" \in failed

\* The camera transmits only while somebody waits for frames: it is idle between
\* snaps (snap), and quiet before its channel is closed, because Acquisition's
\* drop stops it first.  (No acknowledge lost.)
QuietOutsideAcquisition ==
  ~acks_lost =>
    /\ CameraIsIdle
    /\ pc = "close" /\ dev.acquiring => "acquiring" \in failed

\* snap never returns a frame that the session's subscription already held when
\* it was called: what it returns is the frame of its own AcquisitionStart, or
\* one of an earlier snap that had been given up while it was still to come.
SnapIsOwnOrLate == result \in {NoFrame, snaps} \cup late

\* What the documentation of snap says: it waits for the resulting frame.  The
\* frame of an earlier snap that comes late refutes it.
SnapReturnsItsFrame == result \in {NoFrame, snaps}
=============================================================================
