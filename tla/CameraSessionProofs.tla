------------------------ MODULE CameraSessionProofs ------------------------
(***************************************************************************)
(* The sequences of CameraSession for any set of modes, any subscription   *)
(* and any number of snaps: whichever steps fail, control is given back,   *)
(* the device is left as it was found but for what a failed clean-up owes, *)
(* and a snap returns a frame of its own or one that was late for an       *)
(* earlier snap, never one an earlier snap left in the subscription.       *)
(***************************************************************************)
EXTENDS CameraSession, TLAPS

Resting == {"idle", "teardown", "xml"} \cup Establishing
Opened == {"payload", "scda", "scp", "scps", "clear_scp"}

\* The guard that is held tells which sequence is under way.
Placed ==
  /\ guard = "none" => pc \in Resting
  /\ guard = "acquisition" =>
       pc \in Opened \cup {"lock", "start", "unstart", "running", "stop", "unlock", "close"}
  /\ guard = "snapshot" =>
       pc \in Opened \cup {"get_mode", "set_mode", "unmode", "lock", "session", "arm", "wait", "halt",
                           "unlock", "restore", "close"}
  /\ pc \in {"unmode", "restore"} => restore_mode # "none"
  /\ guard # "snapshot" => restore_mode = "none" /\ transit = {} /\ frames = <<>> /\ result = NoFrame

\* Control is with a live worker, or it is owed.
Controlled == worker # "alive" /\ dev.ccp => "ccp" \in failed

\* What a sequence changes on the device is put back before it is left.
Locked == {"start", "unstart", "running", "stop", "unlock", "session", "arm", "wait", "halt"}

PutBack ==
  /\ dev.scp => "scp" \in failed \/ pc \in Locked \cup {"scps", "clear_scp", "lock", "restore", "close"}
  /\ dev.locked => "locked" \in failed \/ pc \in Locked
  /\ dev.mode \in {dev.original, "SingleFrame"}
  /\ dev.mode # dev.original => "mode" \in failed \/ (restore_mode # "none" /\ pc # "close")
  /\ restore_mode \in {dev.original, "none"}
  /\ pc \in {"get_mode", "set_mode"} => restore_mode = "none"
  /\ pc = "set_mode" => dev.mode # "SingleFrame"

\* The device acquires only while somebody waits for frames, unless stopping
\* it failed.
Quiet == "acquiring" \notin failed /\ dev.acquiring => pc \in {"running", "stop", "wait", "halt"}

\* What a subscription holds.
Elems(s) == {s[i] : i \in 1..Len(s)}

\* A camera that stops itself has done so once the frame of the snap is on its
\* way: the frame does not exist before.
SelfStopped ==
  guard = "snapshot" /\ auto_stops /\ "acquiring" \notin failed =>
    /\ pc \notin {"get_mode", "set_mode", "unmode", "restore", "close", "clear_scp", "unlock"} => dev.mode = "SingleFrame"
    /\ pc = "arm" => snaps \notin transit \cup Elems(frames)
    /\ pc = "wait" /\ dev.acquiring => dev.shot = snaps /\ snaps \notin transit \cup Elems(frames)

\* Frames come from snaps that were taken; during a snap all there is, and all
\* that can still come, is of this snap or was to come when it began.
Known ==
  /\ transit \subseteq 0..snaps /\ Elems(frames) \subseteq 0..snaps /\ dev.shot \in 0..snaps
  /\ SnapIsOwnOrLate
  /\ pc \in {"arm", "wait"} =>
       /\ transit \subseteq {snaps} \cup late /\ Elems(frames) \subseteq {snaps} \cup late
       /\ dev.acquiring => dev.shot \in {snaps} \cup late

IInv == TypeOK /\ Placed /\ Controlled
Kept == ~acks_lost => PutBack
Served == ~acks_lost => Quiet /\ SelfStopped

-----------------------------------------------------------------------------
\* Where a step leads, read off the tables.
Leads(step, next, ok) ==
  /\ step = "ccp" => next = IF ok THEN "heartbeat" ELSE "teardown"
  /\ step = "heartbeat" => next = IF ok THEN "caps" ELSE "teardown"
  /\ step = "caps" => next = IF ok THEN "info" ELSE "teardown"
  /\ step = "info" => next = IF ok THEN "xml" ELSE "teardown"
  /\ step = "xml" => next = "idle"
  /\ step = "payload" => next = IF ok THEN "scda" ELSE Abandon
  /\ step = "scda" => next = IF ok THEN "scp" ELSE Abandon
  /\ step = "scp" => next = IF ok THEN "scps" ELSE Abandon
  /\ step = "scps" => next = IF ok THEN "lock" ELSE "clear_scp"
  /\ step = "clear_scp" => next = Abandon
  /\ step = "close" => next = "idle"
  /\ step = "lock" => next = IF guard = "snapshot" THEN "session" ELSE "start"
  /\ step = "start" => next = IF ok THEN "running" ELSE "unstart"
  /\ step = "unstart" => next = "close"
  /\ step = "stop" => next = "unlock"
  /\ step = "unlock" => next = IF guard = "snapshot" /\ restore_mode # "none" THEN "restore" ELSE "close"
  /\ step = "get_mode" => next = IF ok /\ dev.mode # "SingleFrame" THEN "set_mode" ELSE "payload"
  /\ step = "set_mode" => next = "payload"
  /\ step = "unmode" => next = "idle"
  /\ step = "arm" => next = IF ok THEN "wait" ELSE "session"
  /\ step = "halt" => next = "session"
  /\ step = "restore" => next = "close"

\* Where a step that succeeds leads (AfterOk).
LEMMA OkLeads ==
  ASSUME Placed, guard \in {"none", "acquisition", "snapshot"}, pc \in Steps
  PROVE  Leads(pc, AfterOk(pc), TRUE)
<1>. USE DEF AfterOk, EstablishOrder, GenicamOrder, OpenOrder, CloseOrder
<1>1. CASE pc \in Resting \cup Opened \cup {"close"}
  BY <1>1 DEF Leads, Resting, Opened, Establishing
<1>2. CASE pc \notin Resting \cup Opened \cup {"close"} /\ guard = "snapshot"
  BY <1>2 DEF Leads, Placed, Resting, Opened, Establishing, SnapshotOrder
<1>3. CASE pc \notin Resting \cup Opened \cup {"close"} /\ guard # "snapshot"
  BY <1>3 DEF Leads, Placed, Resting, Opened, Establishing, AcquisitionOrder
<1>. QED BY <1>1, <1>2, <1>3

\* Where a step that fails leads: to the clean-up it owes, or out (AfterErr).
LEMMA ErrLeads ==
  ASSUME Placed, guard \in {"none", "acquisition", "snapshot"}, pc \in Steps
  PROVE  Leads(pc, AfterErr(pc), FALSE)
<1>1. CASE pc \in Establishing
  BY <1>1 DEF AfterErr, Leads, Establishing, Opening, AcquisitionFailed, SnapshotFailed
<1>2. CASE pc \in {"payload"} \cup Opening
  <2>1. pc \notin Establishing /\ pc \in {"payload", "scda", "scp", "scps"}
    BY <1>2 DEF Establishing, Opening
  <2>2. AfterErr(pc) = OpenFailed(pc)
    BY <1>2, <2>1 DEF AfterErr, AcquisitionFailed, SnapshotFailed
  <2>. QED BY <2>1, <2>2 DEF OpenFailed, Leads
<1>3. CASE pc \in {"start", "get_mode", "arm"}
  <2>1. pc \notin Establishing \cup {"payload"} \cup Opening
    BY <1>3 DEF Establishing, Opening
  <2>2. CASE pc = "start"
    BY <2>1, <2>2 DEF AfterErr, AcquisitionFailed, SnapshotFailed, Leads
  <2>3. CASE pc = "get_mode" \/ pc = "arm"
    BY <2>1, <2>3 DEF AfterErr, AcquisitionFailed, SnapshotFailed, Leads
  <2>. QED BY <1>3, <2>2, <2>3
<1>4. CASE pc \notin Establishing \cup {"payload"} \cup Opening \cup {"start", "get_mode", "arm"}
  <2>1. AfterErr(pc) = AfterOk(pc)
    BY <1>4 DEF AfterErr, AcquisitionFailed, SnapshotFailed
  <2>. QED BY <1>4, <2>1, OkLeads DEF Leads, Establishing, Opening
<1>. QED BY <1>1, <1>2, <1>3, <1>4

\* The registers, one by one.
Registers == [ccp : BOOLEAN, scp : BOOLEAN, locked : BOOLEAN, mode : Modes,
              original : Modes, acquiring : BOOLEAN, shot : 0..MaxSnaps]

Carried(d, e, step) ==
  /\ e.ccp = (d.ccp \/ step = "ccp")
  /\ e.scp = ((d.scp \/ step = "scp") /\ step \notin {"clear_scp", "close"})
  /\ e.locked = ((d.locked \/ step = "lock") /\ step \notin {"unlock", "unstart"})
  /\ e.mode = IF step = "set_mode" THEN "SingleFrame" ELSE IF step \in {"unmode", "restore"} THEN restore_mode ELSE d.mode
  /\ e.original = d.original
  /\ e.acquiring = ((d.acquiring \/ step \in {"start", "arm"}) /\ step \notin {"stop", "halt"})
  /\ e.shot = IF step \in {"start", "arm"} THEN snaps ELSE d.shot

\* What a step changes on the device, register by register (Effect).
LEMMA EffectFacts ==
  ASSUME TypeOK, Placed, pc \in Steps
  PROVE  Effect(dev, pc) \in Registers /\ Carried(dev, Effect(dev, pc), pc)
<1>1. /\ dev \in Registers /\ snaps \in 0..MaxSnaps /\ "SingleFrame" \in Modes
      /\ pc \in {"unmode", "restore"} => restore_mode \in Modes
  BY SessionAssumption DEF TypeOK, Placed, Registers
<1>2. CASE pc \in {"ccp", "scp", "clear_scp", "close"}
  BY <1>1, <1>2 DEF Effect, Carried, Registers
<1>3. CASE pc \in {"set_mode", "unmode", "restore"}
  BY <1>1, <1>3 DEF Effect, Carried, Registers
<1>4. CASE pc \in {"lock", "unlock", "unstart"}
  BY <1>1, <1>4 DEF Effect, Carried, Registers
<1>5. CASE pc \in {"start", "arm", "stop", "halt"}
  BY <1>1, <1>5 DEF Effect, Carried, Registers
<1>6. CASE pc \notin {"ccp", "scp", "clear_scp", "close", "set_mode", "unmode", "restore", "lock", "unlock", "unstart",
                      "start", "arm", "stop", "halt"}
  <2>1. Effect(dev, pc) = dev
    BY <1>6 DEF Effect
  <2>. QED BY <1>1, <1>6, <2>1 DEF Carried, Registers
<1>. QED BY <1>2, <1>3, <1>4, <1>5, <1>6

\* The history, register by register.
Account(step, ok, quiet, after) ==
  /\ after \subseteq {"ccp", "scp", "locked", "mode", "acquiring"}
  /\ "ccp" \in after <=> "ccp" \in failed
  /\ "scp" \in after <=> IF step \in {"clear_scp", "close"} THEN ~ok ELSE "scp" \in failed
  /\ "locked" \in after <=> IF step \in {"unlock", "unstart"} THEN ~ok ELSE "locked" \in failed
  /\ "mode" \in after <=> IF step \in {"unmode", "restore"} THEN ~ok ELSE "mode" \in failed
  /\ "acquiring" \in after <=> ~quiet /\ ("acquiring" \in failed \/ (~ok /\ step \in {"stop", "halt"}))

\* What is owed after a clean-up step, whether it succeeded or not (Owed).
LEMMA OwedFacts ==
  ASSUME failed \subseteq {"ccp", "scp", "locked", "mode", "acquiring"}, NEW step, NEW ok \in BOOLEAN, NEW quiet \in BOOLEAN
  PROVE  Account(step, ok, quiet, Owed(step, ok, quiet))
<1>1. CASE step \in {"clear_scp", "close"}
  BY <1>1 DEF Account, Owed, Undoes
<1>2. CASE step \in {"unlock", "unstart"}
  BY <1>2 DEF Account, Owed, Undoes
<1>3. CASE step \in {"unmode", "restore"}
  BY <1>3 DEF Account, Owed, Undoes
<1>4. CASE step \in {"stop", "halt"}
  BY <1>4 DEF Account, Owed, Undoes
<1>5. CASE step \notin {"clear_scp", "close", "unlock", "unstart", "unmode", "restore", "stop", "halt"}
  <2>1. Undoes(step) = {}
    BY <1>5 DEF Undoes
  <2>. QED BY <1>5, <2>1 DEF Account, Owed
<1>. QED BY <1>1, <1>2, <1>3, <1>4, <1>5

\* A step that returned, in one piece.
Done(ok) ==
  /\ pc \in Steps
  /\ Leads(pc, pc', ok)
  /\ dev' \in Registers
  /\ Carried(dev, dev', pc) \/ (~ok /\ dev' = dev)
  /\ dev' = dev \/ worker = "alive"
  /\ acks_lost \/ (IF ok THEN Carried(dev, dev', pc) ELSE dev' = dev)
  /\ auto_stops' = CASE pc = "get_mode" -> ok /\ dev.mode = "SingleFrame"
                     [] pc = "set_mode" -> ok
                     [] OTHER -> auto_stops
  /\ restore_mode' = CASE pc = "set_mode" /\ ok -> dev.mode
                       [] pc' = "idle" -> "none"
                       [] OTHER -> restore_mode
  /\ guard' = IF pc' = "idle" THEN "none" ELSE guard
  /\ transit' = IF pc' = "idle" THEN {} ELSE transit
  /\ frames' = IF pc' = "idle" THEN <<>> ELSE frames
  /\ result' = IF pc' = "idle" THEN NoFrame ELSE result
  /\ late' = IF pc' = "idle" THEN {} ELSE late
  /\ Account(pc, ok, pc' = "idle" /\ ~dev'.acquiring, failed')
  /\ UNCHANGED <<worker, snaps, acks_lost>>

\* A step of a sequence, successful or not, in the terms of the lemmas above.
LEMMA StepFacts ==
  ASSUME IInv, StepOk \/ StepFails, UNCHANGED acks_lost
  PROVE  /\ \E ok \in BOOLEAN : Done(ok)
         /\ connected' \in BOOLEAN /\ graph' \in BOOLEAN /\ socket' \in BOOLEAN
<1>1. /\ TypeOK /\ Placed /\ pc \in Steps /\ guard \in {"none", "acquisition", "snapshot"} /\ dev \in Registers
      /\ failed \subseteq {"ccp", "scp", "locked", "mode", "acquiring"}
  BY DEF IInv, TypeOK, Registers, StepOk, StepFails
<1>2. ASSUME NEW ok \in BOOLEAN, Settle(pc, ok), dev' \in Registers,
             Carried(dev, dev', pc) \/ (~ok /\ dev' = dev),
             dev' = dev \/ worker = "alive",
             acks_lost \/ (IF ok THEN Carried(dev, dev', pc) ELSE dev' = dev)
      PROVE  Done(ok) /\ connected' \in BOOLEAN /\ graph' \in BOOLEAN /\ socket' \in BOOLEAN
  <2>1. pc' = IF ok THEN AfterOk(pc) ELSE AfterErr(pc)
    BY <1>2 DEF Settle
  <2>2. Leads(pc, pc', ok)
    BY <1>1, <2>1, OkLeads, ErrLeads
  <2>3. (pc' = "idle" /\ ~dev'.acquiring) \in BOOLEAN
    BY <1>2 DEF Registers
  <2>4. failed' = Owed(pc, ok, pc' = "idle" /\ ~dev'.acquiring)
    BY <1>2, <2>1 DEF Settle
  <2>5. Account(pc, ok, pc' = "idle" /\ ~dev'.acquiring, failed')
    BY <1>1, <2>3, <2>4, OwedFacts
  <2>6. connected' \in BOOLEAN /\ graph' \in BOOLEAN /\ socket' \in BOOLEAN
    <3>1. connected' \in BOOLEAN /\ graph' \in BOOLEAN
      BY <1>2 DEF Settle
    <3>2. socket \in BOOLEAN
      BY <1>1 DEF TypeOK
    <3>. QED BY <1>2, <3>1, <3>2 DEF Settle
  <2>7. /\ auto_stops' = CASE pc = "get_mode" -> ok /\ dev.mode = "SingleFrame"
                           [] pc = "set_mode" -> ok
                           [] OTHER -> auto_stops
        /\ restore_mode' = CASE pc = "set_mode" /\ ok -> dev.mode
                             [] pc' = "idle" -> "none"
                             [] OTHER -> restore_mode
    BY <1>2, <2>1 DEF Settle
  <2>8. /\ guard' = IF pc' = "idle" THEN "none" ELSE guard
        /\ transit' = IF pc' = "idle" THEN {} ELSE transit
        /\ frames' = IF pc' = "idle" THEN <<>> ELSE frames
        /\ result' = IF pc' = "idle" THEN NoFrame ELSE result
        /\ late' = IF pc' = "idle" THEN {} ELSE late
        /\ UNCHANGED <<worker, snaps>>
    BY <1>2, <2>1 DEF Settle
  <2>. QED BY <1>1, <1>2, <2>2, <2>5, <2>6, <2>7, <2>8 DEF Done
<1>3. CASE StepOk
  <2>1. Settle(pc, TRUE) /\ dev' = Effect(dev, pc) /\ worker = "alive"
    BY <1>3 DEF StepOk, Reachable
  <2>2. dev' \in Registers /\ Carried(dev, dev', pc)
    BY <1>1, <2>1, EffectFacts
  <2>. QED BY <1>2, <2>1, <2>2
<1>4. CASE StepFails
  <2>1. Settle(pc, FALSE) /\ (dev' = dev \/ (acks_lost /\ worker = "alive" /\ dev' = Effect(dev, pc)))
    BY <1>4 DEF StepFails, Reachable
  <2>2. dev' \in Registers /\ (dev' = dev \/ Carried(dev, dev', pc))
    BY <1>1, <2>1, EffectFacts
  <2>. QED BY <1>2, <2>1, <2>2
<1>. QED BY <1>3, <1>4

-----------------------------------------------------------------------------
\* One step of a sequence.
LEMMA DoneInv ==
  ASSUME IInv, NEW ok \in BOOLEAN, Done(ok), connected' \in BOOLEAN, graph' \in BOOLEAN, socket' \in BOOLEAN
  PROVE  IInv'
<1>. USE SessionAssumption
<1>1. pc' \in Steps \cup {"idle", "teardown", "running", "session", "wait"}
  BY DEF Done, Leads, Abandon, Steps, Establishing, Features, Opening
<1>2. TypeOK'
  <2>1. auto_stops' \in BOOLEAN /\ restore_mode' \in Modes \cup {"none"}
    BY DEF IInv, TypeOK, Done
  <2>2. /\ guard' \in {"none", "acquisition", "snapshot"} /\ worker' \in {"none", "alive", "dead"}
        /\ acks_lost' \in Links /\ snaps' \in 0..MaxSnaps /\ transit' \subseteq 0..MaxSnaps /\ late' \subseteq 0..MaxSnaps
        /\ result' \in 0..MaxSnaps \cup {NoFrame}
    BY DEF IInv, TypeOK, Done
  <2>3. frames' \in Seq(0..MaxSnaps) /\ Len(frames') <= Capacity
    <3>1. frames' = frames \/ frames' = <<>>
      BY DEF Done
    <3>2. <<>> \in Seq(0..MaxSnaps) /\ Len(<<>>) <= Capacity
      OBVIOUS
    <3>. QED BY <3>1, <3>2 DEF IInv, TypeOK
  <2>4. failed' \subseteq {"ccp", "scp", "locked", "mode", "acquiring"} /\ dev' \in Registers
    BY DEF Done, Account
  <2>. QED BY <1>1, <2>1, <2>2, <2>3, <2>4 DEF TypeOK, Registers
<1>3. Placed'
  <2>1. guard = "none" => guard' = "none" /\ pc' \in Resting
    BY DEF IInv, Placed, Done, Leads, Resting, Steps, Establishing, Features, Opening
  <2>2. guard = "acquisition" =>
          \/ guard' = "none" /\ pc' = "idle"
          \/ guard' = guard /\ pc' \in Opened \cup {"lock", "start", "unstart", "running", "stop", "unlock", "close"}
    BY DEF IInv, Placed, Done, Leads, Opened, Abandon, Steps, Establishing, Features, Opening
  <2>3. guard = "snapshot" =>
          \/ guard' = "none" /\ pc' = "idle"
          \/ guard' = guard /\ pc' \in Opened \cup {"get_mode", "set_mode", "unmode", "lock", "session", "arm", "wait",
                                                    "halt", "unlock", "restore", "close"}
    BY DEF IInv, Placed, Done, Leads, Opened, Abandon, Steps, Establishing, Features, Opening
  <2>4. pc' \in {"unmode", "restore"} => restore_mode # "none" /\ pc # "set_mode" /\ restore_mode' = restore_mode
    BY DEF IInv, Placed, Done, Leads, Abandon, Steps, Establishing, Features, Opening
  <2>5. guard' # "snapshot" => restore_mode' = "none" /\ transit' = {} /\ frames' = <<>> /\ result' = NoFrame
    BY DEF IInv, TypeOK, Placed, Done, Leads, Resting, Opened, Establishing
  <2>. QED BY <2>1, <2>2, <2>3, <2>4, <2>5 DEF IInv, TypeOK, Placed, Resting
<1>4. Controlled'
  BY DEF IInv, TypeOK, Controlled, Done, Account, Carried
<1>. QED BY <1>2, <1>3, <1>4 DEF IInv

\* A step of a sequence keeps count of what has to be put back.
LEMMA DoneKept ==
  ASSUME IInv, Kept, NEW ok \in BOOLEAN, Done(ok)
  PROVE  Kept'
<1>. SUFFICES ASSUME ~acks_lost, PutBack PROVE PutBack'
  BY DEF Kept, Done
<1>1. IF ok THEN Carried(dev, dev', pc) ELSE dev' = dev
  BY DEF Done
<1>2. pc \in Steps /\ Leads(pc, pc', ok) /\ Account(pc, ok, pc' = "idle" /\ ~dev'.acquiring, failed')
  BY DEF Done
<1>3. dev'.scp => "scp" \in failed' \/ pc' \in Locked \cup {"scps", "clear_scp", "lock", "restore", "close"}
  BY <1>1, <1>2 DEF Carried, Account, Leads, PutBack, Locked, Steps, Establishing, Features, Opening
<1>4. dev'.locked => "locked" \in failed' \/ pc' \in Locked
  BY <1>1, <1>2 DEF IInv, Placed, TypeOK, Carried, Account, Leads, PutBack, Locked, Steps, Establishing, Features, Opening
<1>5. dev'.mode \in {dev'.original, "SingleFrame"} /\ dev'.original = dev.original /\ dev.original \in Modes
  BY <1>1 DEF IInv, Placed, TypeOK, Carried, PutBack
<1>6. dev'.mode # dev'.original => "mode" \in failed' \/ (restore_mode' # "none" /\ pc' # "close")
  BY <1>1, <1>2, SessionAssumption DEF IInv, Placed, TypeOK, Carried, Account, Leads, PutBack, Done, Abandon, Opened,
     Resting, Steps, Establishing, Features, Opening
<1>7. restore_mode' \in {dev.original, "none"}
  BY <1>1, <1>2 DEF PutBack, Done
<1>8. /\ pc' \in {"get_mode", "set_mode"} => restore_mode' = "none"
      /\ pc' = "set_mode" => dev'.mode # "SingleFrame"
  BY <1>1, <1>2 DEF PutBack, Done, Carried, Leads, Abandon, Steps, Establishing, Features, Opening
<1>. QED BY <1>3, <1>4, <1>5, <1>6, <1>7, <1>8 DEF PutBack

\* A step of a sequence leaves the camera quiet, and arms it for one frame.
LEMMA DoneServed ==
  ASSUME IInv, Served, NEW ok \in BOOLEAN, Done(ok)
  PROVE  Served'
<1>. SUFFICES ASSUME ~acks_lost, Quiet, SelfStopped PROVE Quiet' /\ SelfStopped'
  BY DEF Served, Done
<1>1. IF ok THEN Carried(dev, dev', pc) ELSE dev' = dev
  BY DEF Done
<1>2. pc \in Steps /\ Leads(pc, pc', ok) /\ Account(pc, ok, pc' = "idle" /\ ~dev'.acquiring, failed')
  BY DEF Done
<1>3. dev \in Registers /\ dev' \in Registers
  BY DEF IInv, TypeOK, Done, Registers
<1>4. Quiet'
  <2>. SUFFICES ASSUME "acquiring" \notin failed', dev'.acquiring PROVE pc' \in {"running", "stop", "wait", "halt"}
    BY DEF Quiet
  <2>1. CASE pc' = "idle"
    <3>1. pc \notin {"start", "arm", "stop", "halt", "running", "wait"}
      BY <1>2, <2>1 DEF Leads, Steps, Establishing, Features, Opening
    <3>2. dev'.acquiring = dev.acquiring
      BY <1>1, <1>3, <3>1 DEF Carried, Registers
    <3>3. ~dev'.acquiring
      BY <1>2, <2>1, <3>1, <3>2 DEF Account, Quiet
    <3>. QED BY <3>3
  <2>2. CASE pc' # "idle"
    <3>1. "acquiring" \notin failed
      BY <1>2, <2>2 DEF Account
    <3>2. CASE pc \in {"start", "arm"}
      BY <1>1, <1>2, <3>1, <3>2 DEF Quiet, Leads
    <3>3. CASE pc \in {"stop", "halt"}
      BY <1>1, <1>2, <1>3, <2>2, <3>3 DEF Account, Carried, Registers
    <3>4. CASE pc \notin {"start", "arm", "stop", "halt"}
      <4>1. dev'.acquiring = dev.acquiring
        BY <1>1, <1>3, <3>4 DEF Carried, Registers
      <4>2. pc \notin {"running", "wait"}
        BY <1>2 DEF Steps, Establishing, Features, Opening
      <4>. QED BY <3>1, <3>4, <4>1, <4>2 DEF Quiet
    <3>. QED BY <3>2, <3>3, <3>4
  <2>. QED BY <2>1, <2>2
<1>5. SelfStopped'
  <2>. SUFFICES ASSUME guard' = "snapshot", auto_stops', "acquiring" \notin failed'
                PROVE  /\ pc' \notin {"get_mode", "set_mode", "unmode", "restore", "close", "clear_scp", "unlock"} =>
                            dev'.mode = "SingleFrame"
                       /\ pc' = "arm" => (snaps \notin transit \cup Elems(frames))'
                       /\ pc' = "wait" /\ dev'.acquiring =>
                            dev'.shot = snaps' /\ (snaps \notin transit \cup Elems(frames))'
    BY DEF SelfStopped
  <2>1. /\ pc' # "idle" /\ guard = "snapshot" /\ "acquiring" \notin failed
        /\ UNCHANGED <<transit, frames, snaps>>
    BY <1>2 DEF Done, Account
  <2>2. pc' # "arm" /\ (pc' = "wait" => pc = "arm" /\ ok)
    BY <1>2 DEF Leads, Abandon, Steps, Establishing, Features, Opening
  <2>3. CASE pc \in {"get_mode", "set_mode"}
    <3>1. ok /\ (pc = "get_mode" => dev.mode = "SingleFrame")
      BY <2>3 DEF Done
    <3>2. dev'.mode = "SingleFrame"
      BY <1>1, <1>3, <2>3, <3>1 DEF Carried, Registers
    <3>. QED BY <2>2, <2>3, <3>2
  <2>4. CASE pc \notin {"get_mode", "set_mode"}
    <3>1. auto_stops
      BY <2>4 DEF Done
    <3>2. /\ pc \notin {"unmode", "restore", "close", "clear_scp", "unlock"} => dev.mode = "SingleFrame"
          /\ pc = "arm" => snaps \notin transit \cup Elems(frames)
      BY <2>1, <2>4, <3>1 DEF SelfStopped
    <3>3. pc' \notin {"get_mode", "set_mode", "unmode", "restore", "close", "clear_scp", "unlock"} =>
            pc \notin {"unmode", "restore", "close", "clear_scp", "unlock", "set_mode"}
      BY <1>2, <2>1, <2>4 DEF Leads, Abandon
    <3>4. dev'.mode = dev.mode \/ pc \in {"unmode", "restore", "set_mode"}
      BY <1>1 DEF Carried
    <3>5. pc = "arm" /\ ok => dev'.shot = snaps
      BY <1>1 DEF Carried
    <3>. QED BY <2>1, <2>2, <3>2, <3>3, <3>4, <3>5
  <2>. QED BY <2>3, <2>4
<1>. QED BY <1>4, <1>5

\* A step of a sequence makes no frame.
LEMMA DoneKnown ==
  ASSUME IInv, Known, NEW ok \in BOOLEAN, Done(ok)
  PROVE  Known'
<1>1. /\ pc \in Steps /\ Leads(pc, pc', ok) /\ (Carried(dev, dev', pc) \/ dev' = dev)
      /\ snaps' = snaps /\ snaps \in Nat
  BY SessionAssumption DEF Done, IInv, TypeOK
<1>3. Elems(<<>>) = {}
  BY DEF Elems
<1>4. dev'.shot \in 0..snaps
  BY <1>1 DEF Known, Carried
<1>5. CASE pc' = "idle"
  <2>1. transit' = {} /\ frames' = <<>> /\ result' = NoFrame
    BY <1>5 DEF Done
  <2>. QED BY <1>1, <1>3, <1>4, <1>5, <2>1 DEF Known, SnapIsOwnOrLate
<1>6. CASE pc' # "idle"
  <2>1. UNCHANGED <<transit, frames, result, late, snaps>>
    BY <1>6 DEF Done
  <2>2. pc' \in {"arm", "wait"} => pc = "arm"
    BY <1>1 DEF Leads, Abandon, Steps, Establishing, Features, Opening
  <2>3. pc' \in {"arm", "wait"} => (dev'.acquiring => dev'.shot \in {snaps} \cup late)
    BY <1>1, <2>2 DEF Known, Carried
  <2>. QED BY <1>4, <2>1, <2>2, <2>3 DEF Known, SnapIsOwnOrLate
<1>. QED BY <1>5, <1>6

-----------------------------------------------------------------------------
\* A bounded subscription.
LEMMA QueueFacts ==
  ASSUME NEW S, NEW s \in Seq(S), NEW k \in S
  PROVE  /\ Len(s) \in Nat
         /\ Append(s, k) \in Seq(S) /\ Len(Append(s, k)) = Len(s) + 1
         /\ s # <<>> => Head(s) \in S /\ Tail(s) \in Seq(S) /\ Len(Tail(s)) = Len(s) - 1
         /\ <<>> \in Seq(S) /\ Len(<<>>) = 0
OBVIOUS

\* What it holds.
LEMMA ElemsFacts ==
  ASSUME NEW S, NEW s \in Seq(S), NEW k \in S
  PROVE  /\ Elems(<<>>) = {}
         /\ Elems(Append(s, k)) \subseteq Elems(s) \cup {k}
         /\ s # <<>> => Head(s) \in Elems(s) /\ Elems(Tail(s)) \subseteq Elems(s)
<1>1. Elems(<<>>) = {}
  BY DEF Elems
<1>2. Elems(Append(s, k)) \subseteq Elems(s) \cup {k}
  BY DEF Elems
<1>3. s # <<>> => Head(s) \in Elems(s) /\ Elems(Tail(s)) \subseteq Elems(s)
  BY DEF Elems
<1>. QED BY <1>1, <1>2, <1>3

\* The invariants hold of a camera that is not connected.
LEMMA InitInv == Init => IInv /\ Kept /\ Served /\ Known
<1>. SUFFICES ASSUME Init PROVE IInv /\ Kept /\ Served /\ Known
  OBVIOUS
<1>1. PICK mode \in Modes : dev = [ccp |-> FALSE, scp |-> FALSE, locked |-> FALSE, mode |-> mode,
                                   original |-> mode, acquiring |-> FALSE, shot |-> 0]
  BY DEF Init
<1>2. /\ dev \in Registers /\ ~dev.ccp /\ ~dev.scp /\ ~dev.locked /\ ~dev.acquiring /\ dev.mode = dev.original
      /\ dev.shot = 0
  BY <1>1, SessionAssumption DEF Registers
<1>3. TypeOK
  <2>1. <<>> \in Seq(0..MaxSnaps) /\ Len(<<>>) <= Capacity /\ 0 \in 0..MaxSnaps
    BY SessionAssumption
  <2>. QED BY <1>2, <2>1 DEF Init, TypeOK, Registers
<1>4. Placed /\ Controlled /\ PutBack /\ Quiet /\ SelfStopped
  BY <1>2 DEF Init, Placed, Controlled, PutBack, Quiet, SelfStopped, Resting, Opened
<1>5. Known
  <2>1. Elems(<<>>) = {} /\ 0 \in 0..0
    BY DEF Elems
  <2>. QED BY <1>2, <2>1 DEF Init, Known, SnapIsOwnOrLate
<1>. QED BY <1>3, <1>4, <1>5 DEF IInv, Kept, Served

\* Actions that leave the device, the registers owed and the traffic alone.
Idle == UNCHANGED <<acks_lost, dev, socket, auto_stops, restore_mode, traffic, failed>>

\* Every step keeps the types, the place of each sequence and control.
LEMMA StepIInv == IInv /\ [Next]_vars => IInv'
<1>. SUFFICES ASSUME IInv, [Next]_vars PROVE IInv'
  OBVIOUS
<1>. USE DEF Resting, Opened
<1>1. CASE StepOk \/ StepFails
  <2>1. UNCHANGED acks_lost
    BY <1>1 DEF Next, vars
  <2>. QED BY <1>1, <2>1, StepFacts, DoneInv
<1>2. CASE Connect
  <2>1. Idle /\ UNCHANGED guard /\ pc = "idle"
    BY <1>2 DEF Next, vars, Connect, Idle
  <2>2. pc' \in {"xml", "ccp"} /\ worker' = "alive" /\ connected' \in BOOLEAN /\ graph' \in BOOLEAN
    BY <1>2 DEF Connect, IInv, TypeOK
  <2>3. TypeOK'
    BY <2>1, <2>2 DEF IInv, TypeOK, Idle, traffic, Steps, Establishing
  <2>4. Placed' /\ Controlled'
    BY <2>1, <2>2 DEF IInv, TypeOK, Placed, Controlled, Idle, traffic, Establishing
  <2>. QED BY <2>3, <2>4 DEF IInv
<1>3. CASE Teardown
  <2>1. /\ pc' = "idle" /\ worker' = "none" /\ connected' = FALSE /\ graph' = FALSE
        /\ UNCHANGED <<acks_lost, guard, socket, auto_stops, restore_mode, traffic>> /\ pc \in {"idle", "teardown"}
    BY <1>3 DEF Teardown, Next, vars
  <2>2. /\ dev' \in Registers /\ failed' \subseteq {"ccp", "scp", "locked", "mode", "acquiring"}
        /\ dev'.ccp => "ccp" \in failed'
    BY <1>3 DEF Teardown, Release, IInv, TypeOK, Controlled, Registers
  <2>3. TypeOK'
    BY <2>1, <2>2 DEF IInv, TypeOK, Registers, traffic
  <2>4. Placed' /\ Controlled'
    BY <2>1, <2>2 DEF IInv, TypeOK, Placed, Controlled, traffic, Establishing
  <2>. QED BY <2>3, <2>4 DEF IInv
<1>4. CASE ControlLost
  <2>1. /\ worker' = "dead" /\ failed' = failed \cup {"ccp"}
        /\ UNCHANGED <<acks_lost, pc, guard, connected, graph, dev, socket, auto_stops, restore_mode, traffic>>
    BY <1>4 DEF ControlLost, Next, vars
  <2>. QED BY <2>1 DEF IInv, TypeOK, Placed, Controlled, traffic
<1>5. CASE StartAcquisition \/ OpenSession
  <2>1. Idle /\ UNCHANGED <<worker, connected, graph>> /\ pc = "idle"
    BY <1>5 DEF StartAcquisition, OpenSession, Next, vars, Idle
  <2>2. (pc' = "payload" /\ guard' = "acquisition") \/ (pc' = "get_mode" /\ guard' = "snapshot")
    BY <1>5 DEF StartAcquisition, OpenSession
  <2>3. guard = "none"
    BY <2>1 DEF IInv, TypeOK, Placed
  <2>4. TypeOK'
    BY <2>1, <2>2 DEF IInv, TypeOK, Idle, traffic, Steps, Features
  <2>5. Placed' /\ Controlled'
    BY <2>1, <2>2, <2>3 DEF IInv, Placed, Controlled, Idle, traffic
  <2>. QED BY <2>4, <2>5 DEF IInv
<1>6. CASE DropGuard
  <2>1. /\ Idle /\ UNCHANGED <<guard, worker, connected, graph>>
        /\ (pc = "running" /\ pc' = "stop") \/ (pc = "session" /\ pc' = "unlock")
    BY <1>6 DEF DropGuard, Next, vars, Idle
  <2>2. TypeOK'
    BY <2>1 DEF IInv, TypeOK, Idle, traffic, Steps, Features
  <2>3. Placed' /\ Controlled'
    BY <2>1 DEF IInv, TypeOK, Placed, Controlled, Idle, traffic, Establishing
  <2>. QED BY <2>2, <2>3 DEF IInv
<1>7. CASE Snap \/ FrameArrives \/ FrameTimeout
  <2>1. /\ UNCHANGED <<acks_lost, guard, worker, connected, graph, dev, socket, auto_stops, restore_mode, transit>>
        /\ failed' \in {failed, failed \cup {"acquiring"}}
        /\ pc \in {"session", "wait"} /\ pc' \in {"arm", "session", "halt"}
    BY <1>7 DEF Snap, FrameArrives, FrameTimeout, traffic, Next, vars
  <2>2. snaps' \in 0..MaxSnaps /\ late' \subseteq 0..MaxSnaps
    <3>1. /\ snaps \in 0..MaxSnaps /\ late \subseteq 0..MaxSnaps /\ transit \subseteq 0..MaxSnaps
          /\ dev.shot \in 0..MaxSnaps /\ MaxSnaps \in Nat
      BY SessionAssumption DEF IInv, TypeOK
    <3>2. \/ UNCHANGED <<snaps, late>>
          \/ /\ snaps < MaxSnaps /\ snaps' = snaps + 1
             /\ late' = transit \cup (IF dev.acquiring THEN {dev.shot} ELSE {})
      BY <1>7 DEF Snap, FrameArrives, FrameTimeout, traffic
    <3>3. snaps' \in 0..MaxSnaps
      BY <3>1, <3>2
    <3>4. late' \subseteq 0..MaxSnaps
      <4>. DEFINE S == 0..MaxSnaps
      <4>1. late \subseteq S /\ transit \subseteq S /\ dev.shot \in S
        BY <3>1
      <4>. HIDE DEF S
      <4>2. late' \subseteq S
        BY <3>2, <4>1
      <4>. QED BY <4>2 DEF S
    <3>. QED BY <3>3, <3>4
  <2>3. frames' \in Seq(0..MaxSnaps) /\ Len(frames') <= Capacity /\ result' \in 0..MaxSnaps \cup {NoFrame}
    <3>. DEFINE S == 0..MaxSnaps
    <3>1. frames \in Seq(S) /\ Len(frames) <= Capacity /\ result \in S \cup {NoFrame} /\ Capacity \in Nat /\ 0 \in S
      BY SessionAssumption DEF IInv, TypeOK
    <3>2. \/ UNCHANGED <<frames, result>>
          \/ frames' = <<>> /\ result' = NoFrame
          \/ frames # <<>> /\ frames' = Tail(frames) /\ result' = Head(frames)
      BY <1>7 DEF Snap, FrameArrives, FrameTimeout, traffic
    <3>. HIDE DEF S
    <3>3. /\ Len(frames) \in Nat /\ <<>> \in Seq(S) /\ Len(<<>>) = 0
          /\ frames # <<>> => Head(frames) \in S /\ Tail(frames) \in Seq(S) /\ Len(Tail(frames)) = Len(frames) - 1
      BY <3>1, QueueFacts
    <3>4. Len(frames') <= Capacity
      BY <3>1, <3>2, <3>3
    <3>5. frames' \in Seq(S) /\ result' \in S \cup {NoFrame}
      BY <3>1, <3>2, <3>3
    <3>. QED BY <3>4, <3>5 DEF S
  <2>4. guard = "snapshot"
    BY <2>1 DEF IInv, TypeOK, Placed, Establishing
  <2>5. TypeOK'
    BY <2>1, <2>2, <2>3 DEF IInv, TypeOK, Steps, Features
  <2>6. Placed' /\ Controlled'
    BY <2>1, <2>4 DEF IInv, Placed, Controlled
  <2>. QED BY <2>5, <2>6 DEF IInv
<1>8. CASE Transmit
  <2>1. UNCHANGED <<acks_lost, camera, snaps, frames, result, late, failed>> /\ guard = "snapshot"
    BY <1>8 DEF Transmit, Next, vars
  <2>2. transit' \subseteq 0..MaxSnaps /\ dev' \in Registers /\ dev'.ccp = dev.ccp
    BY <1>8 DEF Transmit, IInv, TypeOK, Registers
  <2>3. TypeOK'
    BY <2>1, <2>2 DEF IInv, TypeOK, camera, Registers
  <2>4. Placed' /\ Controlled'
    BY <2>1, <2>2 DEF IInv, Placed, Controlled, camera
  <2>. QED BY <2>3, <2>4 DEF IInv
<1>9. CASE \E k \in transit : Deliver(k)
  <2>1. PICK k \in transit : Deliver(k)
    BY <1>9
  <2>2. UNCHANGED <<acks_lost, camera, dev, snaps, result, late, failed>> /\ transit' = transit \ {k}
    BY <1>9, <2>1 DEF Deliver, Next, vars
  <2>3. guard = "snapshot" /\ k \in 0..MaxSnaps
    BY DEF IInv, TypeOK, Placed
  <2>4. frames' = frames \/ (Len(frames) < Capacity /\ frames' = Append(frames, k))
    BY <2>1 DEF Deliver
  <2>5. frames' \in Seq(0..MaxSnaps) /\ Len(frames') <= Capacity
    <3>. DEFINE S == 0..MaxSnaps
    <3>1. frames \in Seq(S) /\ Len(frames) <= Capacity /\ k \in S /\ Capacity \in Nat
      BY <2>3, SessionAssumption DEF IInv, TypeOK
    <3>. HIDE DEF S
    <3>2. frames' \in Seq(S) /\ Len(frames') <= Capacity
      BY <2>4, <3>1, QueueFacts
    <3>. QED BY <3>2 DEF S
  <2>6. TypeOK'
    BY <2>2, <2>5 DEF IInv, TypeOK, camera
  <2>7. Placed' /\ Controlled'
    BY <2>2, <2>3 DEF IInv, Placed, Controlled, camera
  <2>. QED BY <2>6, <2>7 DEF IInv
<1>10. CASE UNCHANGED vars
  BY <1>10 DEF vars, camera, traffic, IInv, TypeOK, Placed, Controlled
<1>. QED BY <1>1, <1>2, <1>3, <1>4, <1>5, <1>6, <1>7, <1>8, <1>9, <1>10 DEF Next

\* What is changed is put back.
LEMMA StepKept == IInv /\ Kept /\ [Next]_vars => Kept'
<1>. SUFFICES ASSUME IInv, Kept, [Next]_vars PROVE Kept'
  OBVIOUS
<1>1. CASE StepOk \/ StepFails
  <2>1. UNCHANGED acks_lost
    BY <1>1 DEF Next, vars
  <2>. QED BY <1>1, <2>1, StepFacts, DoneKept
<1>. SUFFICES ASSUME ~acks_lost, PutBack, ~(StepOk \/ StepFails) PROVE PutBack'
  BY <1>1 DEF Kept, Next, vars
<1>2. CASE Connect \/ ControlLost \/ StartAcquisition \/ OpenSession \/ DropGuard
  <2>1. /\ UNCHANGED <<dev, restore_mode>> /\ failed \subseteq failed'
        /\ \/ pc = "idle" /\ pc' \in {"xml", "ccp", "payload", "get_mode"}
           \/ pc = "running" /\ pc' = "stop"
           \/ pc = "session" /\ pc' = "unlock"
           \/ pc' = pc
    BY <1>2 DEF Connect, ControlLost, StartAcquisition, OpenSession, DropGuard
  <2>2. pc = "idle" => restore_mode = "none"
    BY DEF IInv, Placed, TypeOK, Opened
  <2>. QED BY <2>1, <2>2 DEF PutBack, Locked
<1>3. CASE Teardown
  <2>1. /\ dev'.scp = dev.scp /\ dev'.locked = dev.locked /\ dev'.mode = dev.mode /\ dev'.original = dev.original
        /\ \A x \in {"scp", "locked", "mode"} : x \in failed => x \in failed'
    BY <1>3 DEF Teardown, Release, IInv, TypeOK
  <2>2. pc' = "idle" /\ pc \in {"idle", "teardown"} /\ UNCHANGED restore_mode
    BY <1>3 DEF Teardown
  <2>. QED BY <2>1, <2>2 DEF PutBack, Locked
<1>4. CASE Snap \/ FrameArrives \/ FrameTimeout
  <2>1. /\ UNCHANGED <<dev, restore_mode>> /\ failed \subseteq failed'
        /\ pc \in {"session", "wait"} /\ pc' \in {"arm", "session", "halt"}
    BY <1>4 DEF Snap, FrameArrives, FrameTimeout
  <2>. QED BY <2>1 DEF PutBack, Locked
<1>5. CASE Transmit \/ (\E k \in transit : Deliver(k)) \/ UNCHANGED vars
  <2>1. /\ dev'.scp = dev.scp /\ dev'.locked = dev.locked /\ dev'.mode = dev.mode /\ dev'.original = dev.original
        /\ UNCHANGED <<pc, restore_mode, failed>>
    BY <1>5 DEF Transmit, Deliver, camera, vars, IInv, TypeOK
  <2>. QED BY <2>1 DEF PutBack
<1>. QED BY <1>2, <1>3, <1>4, <1>5 DEF Next

\* The camera is quiet, and stops itself where it says so.
LEMMA StepServed == IInv /\ Served /\ Known /\ [Next]_vars => Served'
<1>. SUFFICES ASSUME IInv, Served, Known, [Next]_vars PROVE Served'
  OBVIOUS
<1>1. CASE StepOk \/ StepFails
  <2>1. UNCHANGED acks_lost
    BY <1>1 DEF Next, vars
  <2>. QED BY <1>1, <2>1, StepFacts, DoneServed
<1>. SUFFICES ASSUME ~acks_lost, Quiet, SelfStopped, ~(StepOk \/ StepFails) PROVE Quiet' /\ SelfStopped'
  BY <1>1 DEF Served, Next, vars
<1>a. Elems(<<>>) = {} /\ (frames # <<>> => Head(frames) \in Elems(frames))
  BY ElemsFacts, SessionAssumption DEF IInv, TypeOK
<1>2. CASE Connect \/ ControlLost \/ StartAcquisition \/ OpenSession \/ DropGuard
  <2>1. /\ UNCHANGED <<dev, transit, frames, snaps, auto_stops>>
        /\ "acquiring" \in failed => "acquiring" \in failed'
        /\ \/ pc = "idle" /\ pc' \in {"xml", "ccp"} /\ guard' = guard
           \/ pc = "idle" /\ pc' = "payload" /\ guard' = "acquisition"
           \/ pc = "idle" /\ pc' = "get_mode" /\ guard' = "snapshot"
           \/ pc = "running" /\ pc' = "stop" /\ guard' = guard
           \/ pc = "session" /\ pc' = "unlock" /\ guard' = guard
           \/ pc' = pc /\ guard' = guard
    BY <1>2 DEF Connect, ControlLost, StartAcquisition, OpenSession, DropGuard, traffic
  <2>2. (pc = "idle" => guard = "none") /\ (pc = "running" => guard # "snapshot")
    BY DEF IInv, Placed, TypeOK, Opened
  <2>3. Elems(frames)' = Elems(frames)
    BY <2>1 DEF Elems
  <2>4. Quiet'
    BY <2>1, <2>2 DEF Quiet
  <2>5. SelfStopped'
    BY <2>1, <2>2, <2>3 DEF SelfStopped
  <2>. QED BY <2>4, <2>5
<1>3. CASE Teardown
  <2>1. /\ dev'.acquiring = dev.acquiring
        /\ "acquiring" \in failed => "acquiring" \in failed'
    BY <1>3 DEF Teardown, Release, IInv, TypeOK
  <2>2. pc' = "idle" /\ pc \in {"idle", "teardown"} /\ guard' = guard /\ guard = "none"
    BY <1>3 DEF Teardown, IInv, Placed, TypeOK, Opened
  <2>. QED BY <2>1, <2>2 DEF Quiet, SelfStopped
<1>4. CASE UNCHANGED vars
  <2>1. Elems(frames)' = Elems(frames)
    BY <1>4 DEF Elems, vars, traffic
  <2>. QED BY <1>4, <2>1 DEF vars, camera, traffic, Quiet, SelfStopped
<1>5. CASE Snap
  <2>1. /\ pc = "session" /\ pc' = "arm" /\ frames' = <<>> /\ snaps' = snaps + 1
        /\ UNCHANGED <<guard, dev, auto_stops, transit, failed>>
    BY <1>5 DEF Snap
  <2>2. snaps' \notin transit'
    BY <2>1, SessionAssumption DEF Known, IInv, TypeOK
  <2>3. Elems(frames)' = {}
    BY <1>a, <2>1 DEF Elems
  <2>. QED BY <2>1, <2>2, <2>3 DEF Quiet, SelfStopped
<1>6. CASE FrameArrives
  <2>1. /\ pc = "wait" /\ frames # <<>>
        /\ pc' = (IF auto_stops THEN "session" ELSE "halt")
        /\ failed' = IF auto_stops /\ Head(frames) # snaps THEN failed \cup {"acquiring"} ELSE failed
        /\ UNCHANGED <<guard, dev, auto_stops>>
    BY <1>6 DEF FrameArrives
  <2>2. guard = "snapshot"
    BY <2>1 DEF IInv, TypeOK, Placed, Opened, Resting, Establishing
  <2>3. ASSUME auto_stops, "acquiring" \notin failed'
        PROVE  ~dev.acquiring /\ dev.mode = "SingleFrame"
    <3>1. "acquiring" \notin failed /\ Head(frames) = snaps
      BY <2>1, <2>3
    <3>2. snaps \in Elems(frames)
      BY <1>a, <2>1, <3>1
    <3>. QED BY <2>1, <2>2, <2>3, <3>1, <3>2 DEF SelfStopped
  <2>. QED BY <2>1, <2>2, <2>3 DEF Quiet, SelfStopped
<1>7. CASE FrameTimeout
  <2>1. pc = "wait" /\ pc' = "halt" /\ UNCHANGED <<guard, dev, auto_stops, failed>>
    BY <1>7 DEF FrameTimeout
  <2>. QED BY <2>1 DEF Quiet, SelfStopped
<1>8. CASE Transmit
  <2>1. /\ guard = "snapshot" /\ dev.acquiring
        /\ dev' = [dev EXCEPT !.acquiring = dev.mode # "SingleFrame"]
        /\ UNCHANGED <<pc, guard, auto_stops, failed>>
    BY <1>8 DEF Transmit, camera
  <2>2. dev'.acquiring = (dev.mode # "SingleFrame") /\ dev'.mode = dev.mode
    BY <2>1 DEF IInv, TypeOK
  <2>3. "acquiring" \notin failed => pc \in {"wait", "halt"}
    BY <2>1 DEF Quiet, IInv, TypeOK, Placed, Opened
  <2>. QED BY <2>1, <2>2, <2>3 DEF Quiet, SelfStopped
<1>9. CASE \E k \in transit : Deliver(k)
  <2>1. PICK k \in transit : Deliver(k)
    BY <1>9
  <2>2. /\ UNCHANGED <<pc, guard, auto_stops, dev, snaps, failed>> /\ transit' = transit \ {k}
        /\ frames' = frames \/ frames' = Append(frames, k)
    BY <2>1 DEF Deliver, camera
  <2>3. Elems(frames)' \subseteq Elems(frames) \cup {k}
    <3>1. Elems(frames)' = Elems(frames')
      BY DEF Elems
    <3>2. frames \in Seq(0..MaxSnaps) /\ k \in 0..MaxSnaps
      BY <2>1 DEF IInv, TypeOK
    <3>3. Elems(Append(frames, k)) \subseteq Elems(frames) \cup {k}
      BY <3>2, ElemsFacts
    <3>. QED BY <2>2, <3>1, <3>3
  <2>. QED BY <2>1, <2>2, <2>3 DEF Quiet, SelfStopped
<1>. QED BY <1>2, <1>3, <1>4, <1>5, <1>6, <1>7, <1>8, <1>9 DEF Next

\* No step makes up a frame, or leaves one of an earlier snap to the next.
LEMMA StepKnown == IInv /\ Known /\ [Next]_vars => Known'
<1>. SUFFICES ASSUME IInv, Known, [Next]_vars PROVE Known'
  OBVIOUS
<1>1. CASE StepOk \/ StepFails
  <2>1. UNCHANGED acks_lost
    BY <1>1 DEF Next, vars
  <2>. QED BY <1>1, <2>1, StepFacts, DoneKnown
<1>a. /\ Elems(<<>>) = {}
      /\ frames # <<>> => Head(frames) \in Elems(frames) /\ Elems(Tail(frames)) \subseteq Elems(frames)
      /\ snaps \in Nat /\ frames \in Seq(0..MaxSnaps)
  BY ElemsFacts, SessionAssumption DEF IInv, TypeOK
<1>b. Elems(frames)' = Elems(frames')
  BY DEF Elems
<1>2. CASE Connect \/ ControlLost \/ StartAcquisition \/ OpenSession \/ DropGuard \/ FrameTimeout \/ UNCHANGED vars
  <2>1. UNCHANGED <<dev, traffic>> /\ (pc' \in {"arm", "wait"} => pc \in {"arm", "wait"})
    BY <1>2 DEF Connect, ControlLost, StartAcquisition, OpenSession, DropGuard, FrameTimeout, vars, camera
  <2>. QED BY <2>1, <1>b DEF Known, SnapIsOwnOrLate, traffic
<1>3. CASE Teardown
  <2>1. dev'.shot = dev.shot /\ UNCHANGED traffic /\ pc' = "idle"
    BY <1>3 DEF Teardown, Release, IInv, TypeOK
  <2>. QED BY <2>1, <1>b DEF Known, SnapIsOwnOrLate, traffic
<1>4. CASE Snap
  <2>1. /\ pc' = "arm" /\ frames' = <<>> /\ result' = NoFrame /\ snaps' = snaps + 1
        /\ late' = transit \cup (IF dev.acquiring THEN {dev.shot} ELSE {})
        /\ UNCHANGED <<dev, transit>>
    BY <1>4 DEF Snap
  <2>2. 0..snaps \subseteq 0..snaps'
    BY <1>a, <2>1
  <2>3. transit' \subseteq 0..snaps' /\ Elems(frames)' = {} /\ dev'.shot \in 0..snaps'
    BY <1>a, <1>b, <2>1, <2>2 DEF Known
  <2>4. transit' \subseteq late' /\ (dev'.acquiring => dev'.shot \in late')
    BY <2>1
  <2>. QED BY <2>1, <2>3, <2>4 DEF Known, SnapIsOwnOrLate
<1>5. CASE FrameArrives
  <2>1. /\ pc = "wait" /\ frames # <<>> /\ result' = Head(frames) /\ frames' = Tail(frames)
        /\ pc' \notin {"arm", "wait"}
        /\ UNCHANGED <<dev, snaps, transit, late>>
    BY <1>5 DEF FrameArrives
  <2>2. Elems(frames)' \subseteq Elems(frames) /\ Head(frames) \in Elems(frames)
    BY <1>a, <1>b, <2>1
  <2>. QED BY <2>1, <2>2 DEF Known, SnapIsOwnOrLate
<1>6. CASE Transmit
  <2>1. /\ dev.acquiring /\ transit' = transit \cup {dev.shot}
        /\ dev' = [dev EXCEPT !.acquiring = dev.mode # "SingleFrame"]
        /\ UNCHANGED <<pc, snaps, frames, result, late>>
    BY <1>6 DEF Transmit, camera
  <2>2. dev'.shot = dev.shot
    BY <2>1 DEF IInv, TypeOK
  <2>3. Elems(frames)' = Elems(frames)
    BY <1>b, <2>1
  <2>. QED BY <2>1, <2>2, <2>3 DEF Known, SnapIsOwnOrLate
<1>7. CASE \E k \in transit : Deliver(k)
  <2>1. PICK k \in transit : Deliver(k)
    BY <1>7
  <2>2. /\ UNCHANGED <<pc, dev, snaps, result, late>> /\ transit' = transit \ {k}
        /\ frames' = frames \/ frames' = Append(frames, k)
    BY <2>1 DEF Deliver, camera
  <2>3. Elems(frames)' \subseteq Elems(frames) \cup {k}
    <3>1. k \in 0..MaxSnaps
      BY <2>1 DEF IInv, TypeOK
    <3>2. Elems(Append(frames, k)) \subseteq Elems(frames) \cup {k}
      <4>1. frames \in Seq(0..MaxSnaps)
        BY <1>a
      <4>. QED BY <3>1, <4>1, ElemsFacts
    <3>. QED BY <1>b, <2>2, <3>2
  <2>. QED BY <2>1, <2>2, <2>3 DEF Known, SnapIsOwnOrLate
<1>. QED BY <1>1, <1>2, <1>3, <1>4, <1>5, <1>6, <1>7 DEF Next

-----------------------------------------------------------------------------
\* The invariants hold throughout.
LEMMA Invariance == Spec => [](IInv /\ Kept /\ Served /\ Known)
<1>1. IInv /\ Kept /\ Served /\ Known /\ [Next]_vars => (IInv /\ Kept /\ Served /\ Known)'
  BY StepIInv, StepKept, StepServed, StepKnown
<1>. QED BY <1>1, InitInv, PTL DEF Spec

\* The camera, the device's registers and the bounded subscription keep their
\* types, whatever happens on the link.
THEOREM TypeCorrect == Spec => []TypeOK
<1>1. IInv => TypeOK
  BY DEF IInv
<1>. QED BY <1>1, Invariance, PTL

\* Control is given back by every worker that ends, however far establish had
\* come, unless the release or control itself was lost (Runner::shutdown,
\* GigECamera::establish).  On any link, acknowledges lost or not.
THEOREM ControlReturns == Spec => []ControlIsReturned
<1>1. IInv => ControlIsReturned
  BY DEF IInv, Controlled, ControlIsReturned
<1>. QED BY <1>1, Invariance, PTL

\* Whichever step of a start, an open or a drop fails, the channel is closed, the
\* parameters are unlocked, the mode is put back and the acquisition is stopped,
\* or the failed clean-up step is on record; no matter how a snap's timeout
\* relates to the exposure (Acquisition::start, SnapshotSession::open and their
\* Drop).
THEOREM LeavesAsFound == Spec => []LeftAsFound
<1>1. IInv /\ Kept /\ Served => LeftAsFound
  <2>. SUFFICES ASSUME IInv, Kept, Served, ~acks_lost PROVE LeftAsFound
    BY DEF LeftAsFound
  <2>1. PutBack /\ Quiet
    BY DEF Kept, Served
  <2>2. pc = "idle" => restore_mode = "none"
    BY DEF IInv, TypeOK, Placed, Opened
  <2>. QED BY <2>1, <2>2 DEF PutBack, Quiet, LeftAsFound, ChannelIsClosed, Locked
<1>. QED BY <1>1, Invariance, PTL

\* The camera acquires only while somebody waits for frames: idle between snaps
\* (SnapshotSession::snap) and quiet before its channel is closed (the Drop of
\* Acquisition), except where the halt failed or a snap took a late frame for its
\* own and left its own acquisition to stop itself.
THEOREM StaysQuiet == Spec => []QuietOutsideAcquisition
<1>1. IInv /\ Served => QuietOutsideAcquisition
  BY DEF Served, Quiet, QuietOutsideAcquisition, CameraIsIdle
<1>. QED BY <1>1, Invariance, PTL

\* snap returns the frame its own AcquisitionStart produced or one that was still
\* to come when it began: what earlier snaps left in the subscription is gone
\* (clear_pending), for any number of snaps, any capacity, any timeout, and on a
\* link that loses acknowledges as well.
THEOREM SnapsAreOwn == Spec => []SnapIsOwnOrLate
<1>1. Known => SnapIsOwnOrLate
  BY DEF Known
<1>. QED BY <1>1, Invariance, PTL
=============================================================================
