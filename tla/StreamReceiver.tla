--------------------------- MODULE StreamReceiver ---------------------------
(***************************************************************************)
(* The GVSP receiver over many frames (src/gige/stream/runner.rs,          *)
(* stream/frame.rs): which frame a packet belongs to, when a frame is      *)
(* opened, when it closes and to whom its buffer goes.  A device emits     *)
(* frames whose block ids follow its counter; their packets arrive in any  *)
(* order, more than once or never.  What the bytes of one frame come to is *)
(* the subject of FrameAssembly, when packets are asked for again that of  *)
(* PacketResend.                                                           *)
(*                                                                         *)
(* A packet is <<k, p>>: packet p of the k-th frame emitted; p = 0 is the  *)
(* leader, p = Trailer the trailer.  The worker's clock is abstracted: at  *)
(* every completion check any frames but the one just fed may have been    *)
(* quiet for frame_retention.                                              *)
(***************************************************************************)
EXTENDS Integers, Sequences, SequencesExt, BlockIds

CONSTANTS
  MaxId,              \* the largest block id
  DISCARD_LATE_FRAME_THRESHOLD,
  HISTORY_LEN,
  Trailer,            \* packet id of the trailer
  Varying,            \* packets whose bytes differ from frame to frame
  Scenarios           \* the streams that are looked at

\* A scenario says how the stream was opened and what device and link may do:
\*   n_buffers, resend_enabled, capacity (of the subscriber's channel)
\*   start         first block id of the device
\*   max_frames    bound on the frames the device emits
\*   unsupported   frames whose leader has a payload type of no use here
\*   restarts      may the device's counter go back to 1?
\*   lateness      packets of the last lateness frames may arrive
\*   clean         does every packet arrive once, in time and before the next frame?
ASSUME ReceiverAssumption ==
  /\ MaxId \in Nat \ {0}
  /\ DISCARD_LATE_FRAME_THRESHOLD \in Nat
  /\ HISTORY_LEN \in Nat /\ HISTORY_LEN >= DISCARD_LATE_FRAME_THRESHOLD
  /\ Trailer \in Nat \ {0}
  /\ \A s \in Scenarios :
       /\ {s.n_buffers, s.capacity, s.max_frames} \subseteq Nat
       /\ s.start \in 1..MaxId
       /\ s.lateness \in Nat \ {0}
       /\ {s.resend_enabled, s.restarts, s.clean} \subseteq BOOLEAN

VARIABLES
  scenario,       \* the scenario of this behaviour: never changes
  emitted,        \* block ids of the frames the device has emitted
  seen,           \* packets of the newest of them that have arrived
  frames,         \* the FrameInFlight, oldest first
  last_frame_id,
  first_packet,
  history,        \* the ClosedBlocks
  free,           \* slots in the pool
  subscribed,     \* "no", "sent": the Subscribe is in the channel, "yes"
  chan,           \* frames in the subscriber's channel
  holding,        \* frames the subscriber holds
  running,
  opened,         \* history: ids of the frames opened, in order
  delivered,      \* history: the frames closed, in order
  shut_out,       \* history: newest frames taken for late though a slot was free
  blurred         \* history: block ids of which two frames of the device were about at once

device == <<emitted, seen>>
receiver == <<frames, last_frame_id, first_packet, history, running>>
consumer == <<subscribed, chan, holding>>
ghosts == <<opened, delivered, shut_out, blurred>>
vars == <<scenario, device, receiver, free, consumer, ghosts>>

n_buffers == scenario.n_buffers
resend_enabled == scenario.resend_enabled
Capacity == scenario.capacity
MaxFrames == scenario.max_frames
Unsupported == scenario.unsupported
Restarts == scenario.restarts
Lateness == scenario.lateness
Clean == scenario.clean

RESTART_BLOCK_ID == 1
None == {<<"none">>}             \* no fingerprints
Packets == 0..Trailer            \* leader, data and trailer of a frame, by packet id

\* What a fingerprint can tell of a packet.  (All the packets of the small
\* frames here are among the leading four and the trailer.)
Bytes(p, k) == IF p \in Varying THEN k ELSE 0
Fingerprints(got) == {<<g[1], Bytes(g[1], g[2])>> : g \in got}

Got(f) == {g[1] : g \in f.got}
AllReceived(f) == Got(f) = Packets
OnlyLeader(f) == 0 \in Got(f) /\ 1 \notin Got(f)      \* last_valid_packet = 0
Provisional(f) == f.replay_of # None
LastOf(s, n) == IF Len(s) > n THEN SubSeq(s, Len(s) - n + 1, Len(s)) ELSE s
\* Mutant: packets go to the newest frame.
IndexOfNewest(id) == {i \in DOMAIN frames : i = Len(frames)}
IndexOf(id) == {i \in DOMAIN frames : frames[i].frame_id = id}

-----------------------------------------------------------------------------
Init ==
  /\ scenario \in Scenarios
  /\ emitted = <<scenario.start>>
  /\ seen = {}
  /\ frames = <<>> /\ last_frame_id = 0 /\ first_packet = TRUE /\ history = <<>>
  /\ free = n_buffers
  /\ subscribed = "no" /\ chan = <<>> /\ holding = 0
  /\ running = TRUE
  /\ opened = <<>> /\ delivered = <<>> /\ shut_out = {} /\ blurred = {}

\* The device goes on to its next frame.  (external)
Emit ==
  /\ Len(emitted) < MaxFrames
  /\ Clean => seen = Packets
  /\ \E id \in {NextBlock(MaxId, Last(emitted))} \cup (IF Restarts THEN {1} ELSE {}) :
       /\ emitted' = Append(emitted, id)
       /\ blurred' = IF IndexOf(id) # {} THEN blurred \cup {id} ELSE blurred
  /\ seen' = {}
  /\ UNCHANGED <<receiver, free, consumer, opened, delivered, shut_out>>

-----------------------------------------------------------------------------
\* Which of some frames have been quiet for frame_retention.
Expiry(I) == IF Clean THEN {{}} ELSE SUBSET I

\* A frame that stays open keeps the ones behind it from closing.
\* Mutant: it does not.
HoldNothing(acc) == acc
HoldLine(acc) == [acc EXCEPT !.can_close = FALSE]

\* check_frame_completion: frames close from the head; old are the frames
\* that have been quiet for frame_retention.
CompletionCheck(fs, old, last) ==
  LET step(acc, i) ==
        LET f == fs[i]
            keep == [acc EXCEPT !.kept = Append(@, f)]
            close(status) == [acc EXCEPT !.closed = Append(@, [frame_id |-> f.frame_id, status |-> status, got |-> f.got])]
        IN  IF Provisional(f)
            THEN IF AllReceived(f) \/ i \in old THEN [acc EXCEPT !.discarded = @ + 1] ELSE keep
            ELSE IF acc.can_close /\ AllReceived(f) THEN close("Complete")
            ELSE IF /\ acc.can_close /\ ~resend_enabled
                    /\ \E j \in i + 1 .. Len(fs) : ~Provisional(fs[j])
            THEN close("MissingPackets")
            ELSE IF acc.can_close /\ i \in old /\ (f.frame_id # last \/ ~OnlyLeader(f)) THEN close("Timeout")
            ELSE HoldLine(keep)
  IN  FoldLeft(step, [kept |-> <<>>, closed |-> <<>>, discarded |-> 0, can_close |-> TRUE], [i \in DOMAIN fs |-> i])

\* What the subscriber's channel takes of some frames.
Takes(queue) == SubSeq(queue, 1, IF Len(queue) < Capacity THEN Len(queue) ELSE Capacity)

\* close_frame, for each of the closed: any Subscribe in the channel is taken
\* first; a frame the subscriber cannot take is dropped and its slot freed.
\* pool is the number of free slots before.
Close(closed, kept, pool) ==
  LET on == subscribed = "yes" \/ (subscribed = "sent" /\ closed # <<>>)
      taken == IF on THEN Takes(chan \o closed) ELSE chan
  IN  /\ frames' = kept
      /\ history' = LastOf(history \o [i \in DOMAIN closed |->
                              [frame_id |-> closed[i].frame_id, fingerprints |-> Fingerprints(closed[i].got)]],
                           HISTORY_LEN)
      /\ subscribed' = IF on THEN "yes" ELSE subscribed
      /\ chan' = taken
      /\ free' = pool + (Len(chan) + Len(closed) - Len(taken))
      /\ delivered' = delivered \o closed
      /\ UNCHANGED holding

\* process_packet once the frame is found or made: fs[i] is that frame, last,
\* pool and ids are what last_frame_id, free and opened are by then.
Feed(fs, i, last, pool, ids, k, p) ==
  LET f == fs[i]
      diverged == \E r \in f.replay_of : r[1] = p /\ r # <<p, Bytes(p, k)>>
      adopt == Provisional(f) /\ diverged
      g == [f EXCEPT !.got = @ \cup {<<p, k>>}, !.replay_of = IF adopt THEN None ELSE @]
  IN  \E old \in Expiry(DOMAIN fs \ {i}) :
        LET now_last == IF adopt THEN f.frame_id ELSE last
            r == CompletionCheck([fs EXCEPT ![i] = g], old, now_last)
        IN  /\ p \notin Got(f)
            /\ Close(r.closed, r.kept, pool + r.discarded)
            /\ last_frame_id' = now_last
            /\ opened' = IF adopt THEN Append(ids, f.frame_id) ELSE ids

\* The position the first packet of all is judged against.
LastId(id) == IF first_packet THEN id - 1 ELSE last_frame_id

\* classify_behind, and the late window it is asked about.
Behind(id) ==
  LET inc == block_id_distance(MaxId, id, LastId(id))
  IN  inc < 1 /\ inc > -DISCARD_LATE_FRAME_THRESHOLD

ClosedWith(id) == {i \in DOMAIN history : history[i].frame_id = id}
LastClosed(id) == history[CHOOSE i \in ClosedWith(id) : \A j \in ClosedWith(id) : j <= i]

\* Mutant: a restarted counter is taken for late.
ArrivalLate(id) == IF Behind(id) THEN "Late" ELSE "New"

Arrival(id) ==
  IF ~Behind(id) THEN "New"
  ELSE IF id # RESTART_BLOCK_ID THEN "Late"
  ELSE IF ClosedWith(id) = {} THEN "New"
  ELSE IF LastClosed(id).fingerprints = None THEN "Late"
  ELSE "MaybeReplay"

\* A packet of a recent frame comes in from the network.
Datagram(k, p) ==
  /\ running
  /\ k \in DOMAIN emitted /\ k > Len(emitted) - Lateness
  /\ Clean => k = Len(emitted) /\ p \notin seen
  /\ first_packet' = FALSE
  /\ seen' = IF k = Len(emitted) THEN seen \cup {p} ELSE seen
  /\ blurred' = IF \E j \in k + 1 .. Len(emitted) : emitted[j] = emitted[k]
                THEN blurred \cup {emitted[k]} ELSE blurred
  /\ UNCHANGED <<emitted, running>>

\* One for a frame in flight.
PacketOfFrame(k, p) ==
  /\ Datagram(k, p)
  /\ \E i \in IndexOf(emitted[k]) : Feed(frames, i, last_frame_id, free, opened, k, p)
  /\ UNCHANGED shut_out

DuplicatePacket(k, p) ==
  /\ Datagram(k, p)
  /\ \E i \in IndexOf(emitted[k]) : p \in Got(frames[i])
  /\ UNCHANGED <<frames, last_frame_id, history, free, consumer, opened, delivered, shut_out>>

\* One dropped as late.
LatePacket(k, p) ==
  /\ Datagram(k, p)
  /\ IndexOf(emitted[k]) = {}
  /\ Arrival(emitted[k]) = "Late"
  /\ last_frame_id' = LastId(emitted[k])
  /\ shut_out' = IF k = Len(emitted) /\ seen = {} /\ free > 0 THEN shut_out \cup {k} ELSE shut_out
  /\ UNCHANGED <<frames, history, free, consumer, opened, delivered>>

\* find_or_create_frame, for a frame that is not in flight.  A new one makes
\* an end of any that is only provisional.
RealFrames == SelectSeq(frames, LAMBDA f : ~Provisional(f))

\* A frame of no use, or one with no slot to go to: its other packets will
\* be late.
DropFrame(k, p) ==
  LET id == emitted[k]
      new == Arrival(id) = "New"
      kept == IF new THEN RealFrames ELSE frames
      pool == free + Len(frames) - Len(kept)
      useless == p = 0 /\ k \in Unsupported
  IN  /\ Datagram(k, p)
      /\ IndexOf(id) = {}
      /\ Arrival(id) # "Late"
      /\ useless \/ pool = 0
      /\ frames' = kept
      /\ free' = pool
      /\ last_frame_id' = IF new THEN id ELSE LastId(id)
      /\ history' = IF new THEN LastOf(Append(history, [frame_id |-> id, fingerprints |-> None]), HISTORY_LEN)
                    ELSE history
      /\ UNCHANGED <<consumer, opened, delivered, shut_out>>

\* A frame opened, provisionally if it may be late copies of a closed one.
OpenFrame(k, p) ==
  LET id == emitted[k]
      new == Arrival(id) = "New"
      kept == IF new THEN RealFrames ELSE frames
      pool == free + Len(frames) - Len(kept)
      f == [frame_id |-> id, got |-> {}, replay_of |-> IF new THEN None ELSE LastClosed(id).fingerprints]
  IN  /\ Datagram(k, p)
      /\ IndexOf(id) = {}
      /\ Arrival(id) # "Late"
      /\ ~(p = 0 /\ k \in Unsupported)
      /\ pool > 0
      /\ Feed(Append(kept, f), Len(kept) + 1, IF new THEN id ELSE LastId(id), pool - 1,
              IF new THEN Append(opened, id) ELSE opened, k, p)
      /\ UNCHANGED shut_out

\* The end of a turn of the worker's loop.
Idle ==
  /\ running
  /\ frames # <<>>
  /\ \E old \in Expiry(DOMAIN frames) :
       LET r == CompletionCheck(frames, old, last_frame_id)
       IN  Close(r.closed, r.kept, free + r.discarded)
  /\ UNCHANGED <<device, last_frame_id, first_packet, running, opened, shut_out, blurred>>

\* Mutant: the slots of provisional frames are not given back at the end.
StopLeaks ==
  /\ running
  /\ running' = FALSE
  /\ Close([i \in DOMAIN RealFrames |->
              [frame_id |-> RealFrames[i].frame_id, status |-> "Aborted", got |-> RealFrames[i].got]],
           <<>>, free)
  /\ UNCHANGED <<device, last_frame_id, first_packet, opened, shut_out, blurred>>

\* The Shutdown command or a stop request: flush_frames.
Stop ==
  /\ running
  /\ running' = FALSE
  /\ Close([i \in DOMAIN RealFrames |->
              [frame_id |-> RealFrames[i].frame_id, status |-> "Aborted", got |-> RealFrames[i].got]],
           <<>>, free + Len(frames) - Len(RealFrames))
  /\ UNCHANGED <<device, last_frame_id, first_packet, opened, shut_out, blurred>>

-----------------------------------------------------------------------------
\* The consumer: subscribes, takes frames and lets them go; the worker takes
\* commands before packets.
Subscribe ==
  /\ subscribed = "no"
  /\ subscribed' = "sent"
  /\ UNCHANGED <<device, receiver, free, chan, holding, ghosts>>

DrainCommands ==
  /\ running
  /\ subscribed = "sent"
  /\ subscribed' = "yes"
  /\ UNCHANGED <<device, receiver, free, chan, holding, ghosts>>

Take ==
  /\ chan # <<>>
  /\ chan' = Tail(chan)
  /\ holding' = holding + 1
  /\ UNCHANGED <<device, receiver, free, subscribed, ghosts>>

Release ==
  /\ holding > 0
  /\ holding' = holding - 1
  /\ free' = free + 1
  /\ UNCHANGED <<device, receiver, subscribed, chan, ghosts>>

Packet(k, p) ==
  \/ PacketOfFrame(k, p) \/ DuplicatePacket(k, p) \/ LatePacket(k, p)
  \/ DropFrame(k, p) \/ OpenFrame(k, p)

Done == ~running /\ UNCHANGED vars

Next ==
  /\ \/ Emit
     \/ \E k \in 1..MaxFrames, p \in Packets : Packet(k, p)
     \/ Idle \/ Stop
     \/ Subscribe \/ DrainCommands \/ Take \/ Release
     \/ Done
  /\ UNCHANGED scenario

Spec == Init /\ [][Next]_vars

-----------------------------------------------------------------------------
Statuses == {"Complete", "MissingPackets", "Timeout", "Aborted"}
Gotten == SUBSET (Packets \X (1..MaxFrames))

\* Type invariant.  The worker's frames, pool, history and subscription stay in their bounds.
TypeOK ==
  /\ \A i \in DOMAIN frames : frames[i].frame_id \in 1..MaxId /\ frames[i].got \in Gotten
  /\ last_frame_id \in 0..MaxId
  /\ Len(history) <= HISTORY_LEN
  /\ free \in 0..n_buffers
  /\ subscribed \in {"no", "sent", "yes"}
  /\ Len(chan) <= Capacity
  /\ holding \in 0..n_buffers
  /\ \A i \in DOMAIN delivered : delivered[i].status \in Statuses

\* Every buffer is in the pool, filling, or with the subscriber: none is lost
\* when a frame is discarded, dropped or refused, and none is handed out twice.
SlotsConserved == free + Len(frames) + Len(chan) + holding = n_buffers

\* Frames are closed in the order they were opened, each once, none left out.
ClosedInOrder ==
  opened = [i \in DOMAIN delivered |-> delivered[i].frame_id]
             \o [i \in DOMAIN RealFrames |-> RealFrames[i].frame_id]

\* The frames that were delivered, but for those whose block id two frames of
\* the device had at once.
Distinct == {i \in DOMAIN delivered : delivered[i].frame_id \notin blurred}

Whole(f) == \E k \in 1..MaxFrames : Fingerprints(f.got) = Fingerprints(Packets \X {k})

\* A frame delivered as Complete is one frame of the device, also when a
\* restarted counter gives its block id out again, after the frame that had it
\* before completed or was given up.  (A frame still in flight then, or
\* packets of it that come still later, are another matter.)
CompleteIsOneFrame == \A i \in Distinct : delivered[i].status = "Complete" => Whole(delivered[i])

\* The same without the exception.
RestartIsClean == \A i \in DOMAIN delivered : delivered[i].status = "Complete" => Whole(delivered[i])

\* No frame of the device is delivered twice: copies of its packets that come
\* after it closed do not reopen it.
NoFrameTwice ==
  \A i, j \in Distinct : \A p, q \in Packets, k \in 1..MaxFrames :
    <<p, k>> \in delivered[i].got /\ <<q, k>> \in delivered[j].got => i = j

\* What a subscriber sees: the frames in the order they were opened, and none
\* of the device's frames twice.
InOrderAndOnce == ClosedInOrder /\ NoFrameTwice

\* The device's counter is followed: the newest frame is never taken for late.
CounterIsFollowed == shut_out = {}
=============================================================================
