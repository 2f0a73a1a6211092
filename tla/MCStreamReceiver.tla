-------------------------- MODULE MCStreamReceiver --------------------------
(***************************************************************************)
(* Streams for TLC: a few frames, block ids that wrap after seven, a       *)
(* history and a late window of three, frames of three packets.            *)
(***************************************************************************)
EXTENDS StreamReceiver

Stream(buffers, resend, start, emitting, unsupported, restarts, lateness, clean) ==
  [n_buffers |-> buffers, resend_enabled |-> resend, capacity |-> IF clean THEN 2 ELSE 1, start |-> start,
   max_frames |-> emitting, unsupported |-> unsupported, restarts |-> restarts, lateness |-> lateness,
   clean |-> clean]

\* The packets of three frames in any order; none of them is block 1.
Reordered == Stream(2, TRUE, 3, 3, {}, FALSE, 3, FALSE)

\* Ids 7, 1, 2, without resends; the last frame has a type of no use.
Wrapping == Stream(2, FALSE, 7, 3, {3}, FALSE, 1, FALSE)

\* A device that may restart at any frame, on a clean link, with buffers enough.
Restarting == {Stream(5, TRUE, start, 5, {}, TRUE, 1, TRUE) : start \in {1, 6}}

\* One that may restart in the middle of a frame, on a link that loses packets.
Losing == Stream(2, TRUE, 1, 2, {}, TRUE, 1, FALSE)

PassingScenarios == {Reordered, Wrapping, Losing} \cup Restarting

\* Too few buffers for the frames the consumer holds as the device restarts.
StarvedScenarios == {Stream(2, TRUE, 1, 5, {}, TRUE, 1, TRUE)}

\* A restart while a frame with the same block id is being filled.
MixedScenarios == {Losing}

\* Block 1 arrives after block 2 has been opened.
ReopenedScenarios == {Stream(2, TRUE, 1, 3, {}, FALSE, 2, FALSE)}
=============================================================================
