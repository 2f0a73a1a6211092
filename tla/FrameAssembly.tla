---------------------------- MODULE FrameAssembly ----------------------------
(***************************************************************************)
(* The reassembly of one GVSP frame (src/gige/stream/runner.rs,            *)
(* FrameInFlight).  A device sends a leader, payload packets without       *)
(* offsets and a trailer; packets arrive in any order, some twice, some    *)
(* never.  The receiver learns how long a block is from payload packet 1   *)
(* and how many packets there are from the trailer, whichever comes first, *)
(* and must then decide whether it has the whole image.                    *)
(*                                                                         *)
(* The frame under reassembly is a record; the handlers of the code are    *)
(* operators on it.  A byte is its position in the payload the device      *)
(* sent, 0 a byte of padding or of an earlier frame.                       *)
(***************************************************************************)
EXTENDS Integers, FiniteSets

CONSTANTS
  payload_size,        \* size of the receiver's buffer
  block_estimate,      \* block size the negotiated packet size suggests
  Blocks,              \* block sizes the device may use
  MAX_FRAME_PACKETS,
  resend_enabled,      \* may missing packets be asked for again?
  MaxHeldBytes         \* gvsp::MAXIMUM_PACKET_SIZE, the excess held bytes may reach

Ceil(m, n) == (m + n - 1) \div n

\* No frame takes more packets than the code allows for (2^20).
ASSUME AssemblyAssumption ==
  /\ payload_size \in Nat \ {0}
  /\ block_estimate \in Nat \ {0}
  /\ Blocks \subseteq Nat \ {0}
  /\ MAX_FRAME_PACKETS \in Nat
  /\ \A b \in Blocks : Ceil(payload_size, b) + 2 <= MAX_FRAME_PACKETS
  /\ resend_enabled \in BOOLEAN
  /\ MaxHeldBytes \in Nat

VARIABLES
  sent,      \* the frame the device sends: its length, block size and quirks
  frame,     \* the FrameInFlight
  status     \* "none" before the first packet, "filling", or how it closed

vars == <<sent, frame, status>>

Low(m, n) == IF m < n THEN m ELSE n
Furthest(S) == CHOOSE m \in S : \A n \in S : n <= m

-----------------------------------------------------------------------------
\* What the device sends.  Every block but the last is full; the last may be
\* padded to a full one.  A device at fault may send one inner block a byte
\* short.

NBlocks == Ceil(sent.len, sent.block)
TrailerId == NBlocks + 1

Length(k) ==
  IF k = sent.short THEN sent.block - 1
  ELSE IF k < NBlocks \/ sent.padded THEN sent.block
  ELSE sent.len - (k - 1) * sent.block

\* Byte i of packet k.
Byte(k, i) == IF (k - 1) * sent.block + i <= sent.len THEN (k - 1) * sent.block + i ELSE 0

SentFrames ==
  {s \in [len : 1..payload_size, block : Blocks, padded : BOOLEAN, short : 0..payload_size] :
     \/ s.short = 0
     \/ s.short > 1 /\ s.short < Ceil(s.len, s.block) /\ s.block > 1}

-----------------------------------------------------------------------------
\* Sizing a frame from whichever packet came first.

packet_limit == Low(payload_size + 2, MAX_FRAME_PACKETS)
Fits(block) == Low(Ceil(payload_size, block) + 2, MAX_FRAME_PACKETS)

compute_n_expected_packets(id) ==
  IF id = TrailerId /\ id + 1 \in 2..packet_limit THEN id + 1 ELSE Fits(block_estimate)

NewFrame(n) ==
  [n_packets |-> n, received |-> {}, last_valid_packet |-> -1,
   block_size |-> block_estimate, block_known |-> FALSE, held |-> {}, held_bytes |-> 0,
   trailer_seen |-> FALSE, leader |-> FALSE, error |-> FALSE,
   received_size |-> 0, data_end |-> 0, data |-> [i \in 1..payload_size |-> 0]]

SetNPackets(f, n) ==
  [f EXCEPT !.n_packets = n,
            !.received = @ \cap (0 .. n - 1),
            !.last_valid_packet = Low(@, n - 1)]

Err(f) == [f EXCEPT !.error = TRUE]

-----------------------------------------------------------------------------
\* Where the data of packet k goes, cut at the capacity.
Offset(f, k) == (k - 1) * f.block_size
End(f, k) == Low(Offset(f, k) + Length(k), payload_size)
Extent(f, k) == Offset(f, k) + 1 .. End(f, k)

\* The packets that have a place in the buffer.
Placeable(f, ids) == {k \in ids : Offset(f, k) < payload_size \/ Offset(f, k) + Length(k) <= payload_size}
Covered(f, ids) == UNION {Extent(f, k) : k \in Placeable(f, ids)}
Owner(f, ids, i) == CHOOSE k \in Placeable(f, ids) : i \in Extent(f, k)

\* Mutant: the data ends where the last packet to arrive ended.
WriteLast(f, ids) ==
  [f EXCEPT !.data = [i \in 1..payload_size |->
                        IF i \in Covered(f, ids)
                        THEN Byte(Owner(f, ids, i), i - Offset(f, Owner(f, ids, i)))
                        ELSE @[i]],
            !.received_size = @ + Cardinality(Covered(f, ids)),
            !.data_end = Furthest({0} \cup {End(f, k) : k \in Placeable(f, ids)})]

\* The copies of place, for packets no longer than a block: their extents do
\* not overlap, so the order does not matter and the sizes add up.
Write(f, ids) ==
  [f EXCEPT !.data = [i \in 1..payload_size |->
                        IF i \in Covered(f, ids)
                        THEN Byte(Owner(f, ids, i), i - Offset(f, Owner(f, ids, i)))
                        ELSE @[i]],
            !.received_size = @ + Cardinality(Covered(f, ids)),
            !.data_end = Furthest({@} \cup {End(f, k) : k \in Placeable(f, ids)})]

\* place
Place(f, k) == IF Length(k) > f.block_size THEN Err(f) ELSE Write(f, {k})

\* The held packets, once the block size is known; the first that does not
\* fit ends it.  Their order is not kept: those that fit are taken to be before.
PlaceHeld(f, ids) ==
  LET fits == {k \in ids : k <= f.n_packets - 2 /\ Length(k) <= f.block_size}
      g == IF f.error THEN f ELSE IF fits = ids THEN Write(f, ids) ELSE Err(Write(f, fits))
  IN  [g EXCEPT !.held = {}, !.held_bytes = 0]

ProcessLeader(f) == IF f.error THEN f ELSE [f EXCEPT !.leader = TRUE]

\* Payload packet 1 fixes the block size.
LearnBlock(f) ==
  LET g == [f EXCEPT !.block_known = TRUE, !.block_size = IF Length(1) = 0 THEN @ ELSE Length(1)]
  IN  IF ~f.trailer_seen THEN SetNPackets(g, Fits(g.block_size))
      ELSE IF f.n_packets > Ceil(payload_size, g.block_size) + 2 THEN Err(g)
      ELSE g

Hold(f, k) ==
  LET bytes == f.held_bytes + Length(k)
      g == [f EXCEPT !.held_bytes = bytes]
      h == IF k + 2 > g.n_packets THEN SetNPackets(g, k + 2) ELSE g
  IN  IF bytes > payload_size + MaxHeldBytes THEN Err(g) ELSE [h EXCEPT !.held = @ \cup {k}]

\* Mutant: payloads are placed by the estimated block size.
PlaceAtOnce(f, k) == IF f.error THEN f ELSE Place(f, k)

PlacePayload(f, k) ==
  LET last_payload == IF f.block_known \/ f.trailer_seen THEN f.n_packets - 2 ELSE packet_limit - 2
  IN  IF f.error THEN f
      ELSE IF k < 1 \/ k > last_payload THEN Err(f)
      ELSE IF ~f.block_known THEN Hold(f, k)
      ELSE PlaceHeld(Place(f, k), f.held)

ProcessPayload(f, k) ==
  IF f.error THEN f
  ELSE PlacePayload(IF k = 1 /\ ~f.block_known THEN LearnBlock(f) ELSE f, k)

\* The trailer's id is authoritative for how many packets the frame has.
ProcessTrailer(f, id) ==
  LET g == [f EXCEPT !.trailer_seen = TRUE]
      bound == IF f.block_known THEN Fits(f.block_size) ELSE packet_limit
  IN  IF f.error THEN g
      ELSE IF id < 1 \/ id >= bound \/ (\E p \in f.received : p >= id) THEN Err(g)
      ELSE IF f.n_packets # id + 1 THEN SetNPackets(g, id + 1)
      ELSE g

\* process_packet, after the handler: mark the packet and advance over the
\* packets received without a gap.
MarkReceived(f, id) ==
  LET got == IF id < f.n_packets THEN f.received \cup {id} ELSE f.received
  IN  [f EXCEPT !.received = got,
                !.last_valid_packet = CHOOSE m \in @ .. f.n_packets - 1 :
                                        /\ \A i \in @ + 1 .. m : i \in got
                                        /\ m + 1 \in got => m + 1 >= f.n_packets]

AllReceived(f) == f.last_valid_packet = f.n_packets - 1

\* Mutant: the sizes are not compared.
ClosingUnmeasured(f) == IF f.error THEN "WrongPacketId" ELSE "Complete"

\* check_frame_completion, for a frame at the head of the line that has all
\* its packets.
ClosingStatus(f) ==
  IF f.error THEN "WrongPacketId"
  ELSE IF f.received_size = f.data_end THEN "Complete"
  ELSE "MissingPackets"

-----------------------------------------------------------------------------
Init ==
  /\ sent \in SentFrames
  /\ status = "none"
  /\ frame = NewFrame(0)

Handle(f, id) ==
  IF id = 0 THEN ProcessLeader(f)
  ELSE IF id = TrailerId THEN ProcessTrailer(f, id)
  ELSE ProcessPayload(f, id)

\* A packet arrives for a frame that is not closed: process_packet and the
\* completion check at its end.
Arrive(id) ==
  LET f == IF status = "none" THEN NewFrame(compute_n_expected_packets(id)) ELSE frame
      g == MarkReceived(Handle(f, id), id)
  IN  /\ status \in {"none", "filling"}
      /\ id \notin f.received
      /\ frame' = g
      /\ status' = IF AllReceived(g) THEN ClosingStatus(g) ELSE "filling"
      /\ UNCHANGED sent

\* A packet that is already there changes nothing.
Duplicate(id) ==
  /\ status = "filling"
  /\ id \in frame.received
  /\ UNCHANGED vars

\* Without resends an incomplete frame is closed as soon as a newer one is
\* open, whatever else was wrong with it.
Overtaken ==
  /\ status = "filling"
  /\ ~resend_enabled
  /\ status' = "MissingPackets"
  /\ UNCHANGED <<sent, frame>>

\* The retention time passes without a packet; a frame with nothing but its
\* leader waits while it is the newest (and times out once it is not).
GiveUp ==
  /\ status = "filling"
  /\ status' = IF frame.error THEN "WrongPacketId" ELSE "Timeout"
  /\ UNCHANGED <<sent, frame>>

\* flush_frames: the stream stops.
Flush ==
  /\ status = "filling"
  /\ status' = "Aborted"
  /\ UNCHANGED <<sent, frame>>

Closed == status \notin {"none", "filling"} /\ UNCHANGED vars

Next ==
  \/ \E id \in 0..TrailerId : Arrive(id) \/ Duplicate(id)
  \/ Overtaken \/ GiveUp \/ Flush \/ Closed

Spec == Init /\ [][Next]_vars

-----------------------------------------------------------------------------
\* Type invariant.  The frame in flight: no packet, offset or length beyond the buffer.
TypeOK ==
  /\ status \in {"none", "filling", "Complete", "MissingPackets", "Timeout", "Aborted", "WrongPacketId"}
  /\ frame.received \subseteq 0 .. frame.n_packets - 1
  /\ frame.last_valid_packet \in -1 .. frame.n_packets - 1
  /\ frame.held \subseteq 1..payload_size
  /\ frame.data_end \in 0..payload_size

\* A frame delivered as Complete has its leader and every byte the device
\* sent, each in its place, in whatever order the packets came.
CompleteIsExact ==
  status = "Complete" =>
    /\ frame.leader /\ frame.trailer_seen
    /\ frame.data_end >= sent.len
    /\ \A i \in 1..sent.len : frame.data[i] = i

\* A device that keeps to the protocol is never found at fault, whichever
\* packet fixes the frame's size first: no packet of it is out of range, and a
\* frame of it is delivered as lacking packets only when packets are lacking
\* and nobody may ask for them.
ConformingIsNeverRejected ==
  sent.short = 0 =>
    /\ status # "WrongPacketId"
    /\ status = "MissingPackets" => ~resend_enabled /\ ~AllReceived(frame)

\* The documentation of Frame::data: comparing the data's length with
\* received_size tells whether bytes below it are missing, however the frame
\* was closed.  (Frames with a packet out of range excepted.)
HolesAreVisible ==
  status \notin {"none", "filling"} /\ ~frame.error =>
    (frame.received_size = frame.data_end <=>
       \A i \in 1..frame.data_end : \E k \in frame.received \cap (1..NBlocks) : i \in Extent(frame, k))
=============================================================================
