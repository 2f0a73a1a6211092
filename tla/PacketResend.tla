---------------------------- MODULE PacketResend ----------------------------
(***************************************************************************)
(* When the stream worker asks for the missing packets of a frame, and     *)
(* when it gives the frame up (missing_packet_check and                    *)
(* check_frame_completion of src/gige/stream/runner.rs), for one frame of  *)
(* a stream with resends.  Time is discrete and kept as ages: quiet is the *)
(* time since the frame's last packet, due[p] the time left until the      *)
(* deadline of packet p (Passed once now > deadline).                      *)
(***************************************************************************)
EXTENDS Integers, FiniteSets

CONSTANTS
  n_packets,
  max_requests,             \* (n_packets * packet_request_ratio) as usize
  initial_packet_timeout,
  packet_timeout,           \* also the longest the worker sleeps in poll
  frame_retention

ASSUME ResendAssumption ==
  /\ n_packets \in Nat \ {0}
  /\ max_requests \in Nat
  /\ initial_packet_timeout \in Nat
  /\ packet_timeout \in Nat \ {0}
  /\ frame_retention \in Nat \ {0}

VARIABLES
  status,                \* "filling", "complete" or "timeout"
  received,
  quiet,
  asleep,                \* time since the worker last went round its loop
  due,
  resend_requested,
  resend_disabled,
  resend_ratio_reached,
  n_resend_requests,
  asked,                 \* packets a request was sent for
  newest,                \* frame_id = last_frame_id
  at_head                \* no older frame is still open

flags == <<resend_disabled, newest, at_head>>
books == <<due, resend_requested, resend_ratio_reached, n_resend_requests, asked>>
vars == <<status, received, quiet, asleep, books, flags>>

Packets == 0 .. n_packets - 1
Unarmed == -2
Passed == -1

LowerOf(m, n) == IF m < n THEN m ELSE n

last_valid_packet(got) == CHOOSE m \in -1 .. n_packets - 1 :
                            0..m \subseteq got /\ m + 1 \notin got

\* The packet that opens the frame arms the holes behind it.
Init ==
  /\ at_head \in BOOLEAN
  /\ status = IF n_packets = 1 /\ at_head THEN "complete" ELSE "filling"
  /\ \E first \in Packets :
       /\ received = {first}
       /\ due = [p \in Packets |-> IF p < first /\ max_requests > 0 THEN initial_packet_timeout ELSE Unarmed]
  /\ quiet = 0 /\ asleep = 0
  /\ resend_requested = {} /\ asked = {}
  /\ resend_disabled = FALSE /\ resend_ratio_reached = FALSE
  /\ n_resend_requests = 0
  /\ newest = TRUE

-----------------------------------------------------------------------------
\* The end of the run of E that e belongs to, and how much of E precedes it.
RunEnd(E, e) == CHOOSE m \in E : e <= m /\ e..m \subseteq E /\ m + 1 \notin E
UpTo(E, m) == Cardinality({x \in E : x <= m})

\* The holes among 0..limit are armed when first seen; each run of expired
\* ones is asked for if the cap allows.  A run past the cap ends the walk.
MissingPacketCheck(got, limit) ==
  LET Holes == {p \in Packets : p > last_valid_packet(got) /\ p <= limit /\ p \notin got}
      Expired == {p \in Holes : due[p] = Passed}
      total(p) == n_resend_requests + UpTo(Expired, RunEnd(Expired, p))
      Accepted == {p \in Expired : total(p) <= max_requests}
      over == CHOOSE p \in Expired \ Accepted : \A q \in Expired \ Accepted : p <= q
      walked == IF Accepted = Expired THEN limit ELSE RunEnd(Expired, over) + 1
  IN  IF resend_disabled \/ resend_ratio_reached \/ max_requests = 0
      THEN UNCHANGED books
      ELSE /\ due' = [p \in Packets |->
                        IF p \in Accepted THEN packet_timeout
                        ELSE IF p \in Holes /\ due[p] = Unarmed /\ p <= walked THEN initial_packet_timeout
                        ELSE due[p]]
           /\ resend_requested' = resend_requested \cup Accepted
           /\ \/ /\ Accepted = Expired
                 /\ n_resend_requests' = n_resend_requests + Cardinality(Expired)
                 /\ asked' = asked \cup Expired
                 /\ UNCHANGED resend_ratio_reached
              \/ /\ Accepted # Expired
                 /\ n_resend_requests' = total(over)
                 /\ resend_ratio_reached' = TRUE
                 /\ UNCHANGED asked

\* check_frame_completion, as far as this frame goes: complete, given up
\* after the retention time unless it is the newest and has only its leader,
\* or looked over for holes when it has been quiet for a while.
AllReceived(got) == Packets \subseteq got

\* Mutants: the resend timeout is taken for the retention time; the newest
\* frame never expires.
ExpiresEarly(age) == age >= packet_timeout /\ (~newest \/ last_valid_packet(received) # 0)
ExpiresIfOld(age) == age >= frame_retention /\ ~newest

Expires(age) == age >= frame_retention /\ (~newest \/ last_valid_packet(received) # 0)

-----------------------------------------------------------------------------
\* A packet of the frame that was missing.
Arrive(p) ==
  LET got == received \cup {p}
  IN  /\ status = "filling"
      /\ p \notin received
      /\ received' = got
      /\ quiet' = 0
      /\ MissingPacketCheck(got, p)
      /\ status' = IF at_head /\ AllReceived(got) THEN "complete" ELSE "filling"
      /\ UNCHANGED <<asleep, flags>>

\* A copy of one already there: only the clock of the frame notices.
Duplicate ==
  /\ status = "filling"
  /\ quiet' = 0
  /\ UNCHANGED <<status, received, asleep, books, flags>>

\* The device answers that a packet is gone from its memory.
Unavailable ==
  /\ status = "filling"
  /\ resend_disabled' = TRUE
  /\ quiet' = 0
  /\ UNCHANGED <<status, received, asleep, books, newest, at_head>>

\* A turn of the worker's loop, or a packet of another frame.
Check ==
  /\ status = "filling"
  /\ asleep' = 0
  /\ \/ /\ at_head /\ AllReceived(received)
        /\ status' = "complete"
        /\ UNCHANGED books
     \/ /\ at_head /\ ~AllReceived(received) /\ Expires(quiet)
        /\ status' = "timeout"
        /\ UNCHANGED books
     \/ /\ ~(at_head /\ (AllReceived(received) \/ Expires(quiet)))
        /\ IF quiet >= packet_timeout
           THEN MissingPacketCheck(received, n_packets - 1)
           ELSE UNCHANGED books
        /\ UNCHANGED status
  /\ UNCHANGED <<received, quiet, flags>>

\* Frames come and go around this one.
NewerFrame ==
  /\ status = "filling" /\ newest
  /\ newest' = FALSE
  /\ UNCHANGED <<status, received, quiet, asleep, books, resend_disabled, at_head>>

HeadCloses ==
  /\ status = "filling" /\ ~at_head
  /\ at_head' = TRUE
  /\ UNCHANGED <<status, received, quiet, asleep, books, resend_disabled, newest>>

\* Time passes; the poll times out after packet_timeout at the latest.
Tick ==
  /\ status = "filling"
  /\ asleep < packet_timeout
  /\ asleep' = asleep + 1
  /\ quiet' = LowerOf(quiet + 1, frame_retention)
  /\ due' = [p \in Packets |-> IF due[p] \in {Unarmed, Passed} THEN due[p] ELSE due[p] - 1]
  /\ UNCHANGED <<status, received, resend_requested, resend_ratio_reached,
                 n_resend_requests, asked, flags>>

Closed == status # "filling" /\ UNCHANGED vars

Next ==
  \/ \E p \in Packets : Arrive(p)
  \/ Duplicate \/ Unavailable
  \/ Check \/ Tick
  \/ NewerFrame \/ HeadCloses
  \/ Closed

Spec == Init /\ [][Next]_vars

-----------------------------------------------------------------------------
\* Type invariant.  The packet states of a frame (PacketState) and its counters.
TypeOK ==
  /\ status \in {"filling", "complete", "timeout"}
  /\ received \subseteq Packets
  /\ quiet \in 0..frame_retention
  /\ asleep \in 0..packet_timeout
  /\ due \in [Packets -> Int]
  /\ resend_requested \subseteq Packets
  /\ asked \subseteq Packets
  /\ {resend_disabled, resend_ratio_reached, newest, at_head} \subseteq BOOLEAN
  /\ n_resend_requests \in Nat

\* A frame is given up only after every packet it lacks was asked for, unless
\* the device or the cap ended the asking.
AskedBeforeGivingUp ==
  status = "timeout" =>
    \/ Packets \ received \subseteq asked
    \/ resend_disabled \/ resend_ratio_reached \/ max_requests = 0

\* What the comment on PacketState::resend_deadline says: a resend goes out
\* once the deadline has passed.  A packet marked as requested was.
MarkedWasAsked == resend_requested \subseteq asked

-----------------------------------------------------------------------------
\* The worker keeps turning and time passes; older frames close.
Fairness == WF_vars(Check) /\ WF_vars(Tick) /\ WF_vars(HeadCloses)
FairSpec == Spec /\ Fairness

\* A frame whose packets stop coming closes, but for the newest frame with
\* only its leader, which waits.
FrameCloses ==
  <>[][~(Duplicate \/ Unavailable)]_quiet =>
    <>(status # "filling" \/ (newest /\ last_valid_packet(received) = 0))
=============================================================================
