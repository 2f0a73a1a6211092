----------------------------- MODULE PacketSize -----------------------------
(***************************************************************************)
(* negotiate_packet_size (src/gige/mod.rs): the bisection that finds the   *)
(* stream packet size.  A probe writes a size with the fire-test bit; the  *)
(* device answers with a test packet of that size, rounded down to one it  *)
(* supports, which the path drops when it is too long.  Test packets may   *)
(* be lost, and may arrive during a later probe.                           *)
(***************************************************************************)
EXTENDS Integers, FiniteSets

CONSTANTS
  INC, MIN, MAX,     \* the grid of the probed sizes and its ends
  Candidates,        \* tried in turn when MAX gets no answer
  Fallback,          \* when nothing gets one
  Caps, Steps,       \* the largest packet the device may send, and its increment
  Paths,             \* the longest packet the path may carry
  MaxLate,           \* bound on the test packets that outlive their probe
  Reliable           \* whether every test packet that fits is delivered in time: the cases

ASSUME SizeAssumption ==
  /\ INC \in Nat \ {0} /\ MIN \in Nat \ {0} /\ MAX \in Nat
  /\ Fallback \in Nat /\ MIN <= Fallback
  /\ Candidates \subseteq MIN..MAX /\ MIN \in Candidates
  /\ \A c \in Candidates \cup {MAX} : c % INC = 0
  /\ Caps \subseteq Nat /\ Steps \subseteq 1..MIN /\ Paths \subseteq Nat
  /\ \A c \in Caps, s \in Steps : s <= c
  /\ MaxLate \in Nat /\ Reliable \subseteq BOOLEAN

VARIABLES
  cap, step, path,   \* the device's limit and increment, and the path's limit: fixed
  reliable,          \* does every test packet that fits arrive in time? fixed
  phase,             \* "max", "list", "bisect", "write", "done"
  tried,             \* the candidates that got no answer
  good, bad, best,
  size,              \* what the negotiation returns
  scps,              \* the device's register
  flying,            \* the test packets under way
  seen,              \* history: the test packets received
  probes             \* history: the probes sent

vars == <<cap, step, path, reliable, phase, tried, good, bad, best, size, scps, flying, seen, probes>>

Init ==
  /\ cap \in Caps /\ step \in Steps /\ path \in Paths /\ reliable \in Reliable
  /\ phase = "max" /\ tried = {}
  /\ good = 0 /\ bad = MAX /\ best = 0 /\ size = 0
  /\ scps = MIN /\ flying = {} /\ seen = {} /\ probes = 0

\* The device: a write rounds the size down to a whole number of its increments
\* that it can send.  (external)
Capped(n) == IF n <= cap THEN n ELSE cap
Rounded(n) == (Capped(n) \div step) * step

\* Mutant: the probed size is taken for the delivered one.
AchievedAsProbed(n, received, a) == a = IF {d \in received : d <= n} = {} THEN 0 ELSE n

\* a is the largest of the packets received that this probe can have asked
\* for; 0 is None.
Achieved(n, received, a) ==
  LET answers == {d \in received : d <= n} \cup {0}
  IN  a \in answers /\ \A d \in answers : d <= a

\* One probe: the write, and up to three receives.  A probe whose write fails
\* listens to nothing, though the device may have carried it out.
Probe(n, achieved) ==
  LET shot == {d \in {Rounded(n)} : d <= path}
  IN  /\ probes' = probes + 1
      /\ \/ /\ ~reliable
            /\ achieved = 0
            /\ UNCHANGED seen
            /\ \/ UNCHANGED <<scps, flying>>
               \/ /\ scps' = Rounded(n)
                  /\ flying' = flying \cup shot
                  /\ Cardinality(flying') <= MaxLate
         \/ \E received \in SUBSET (flying \cup shot) :
              /\ Cardinality(received) <= 3
              /\ reliable => received = shot
              /\ Achieved(n, received, achieved)
              /\ seen' = seen \cup received
              /\ scps' = Rounded(n)
              /\ \E lost \in SUBSET ((flying \cup shot) \ received) :
                   /\ flying' = (flying \cup shot) \ (received \cup lost)
                   /\ Cardinality(flying') <= MaxLate

\* What a probe may find: nothing, or a packet no longer than it asked for.
Findings(n) == {0} \cup {d \in flying \cup {Rounded(n)} : d <= n} \cup {n}

-----------------------------------------------------------------------------
ProbeMax ==
  /\ phase = "max"
  /\ \E a \in Findings(MAX) :
       /\ Probe(MAX, a)
       /\ size' = a
       /\ phase' = IF a > 0 THEN "write" ELSE "list"
  /\ UNCHANGED <<cap, step, path, reliable, tried, good, bad, best>>

ProbeCandidate ==
  /\ phase = "list"
  /\ \E c \in Candidates \ tried :
       /\ \A d \in Candidates \ tried : d <= c
       /\ \E a \in Findings(c) :
            /\ Probe(c, a)
            /\ IF a > 0
               THEN phase' = "bisect" /\ good' = c /\ best' = a /\ UNCHANGED tried
               ELSE tried' = tried \cup {c} /\ UNCHANGED <<phase, good, best>>
  /\ UNCHANGED <<cap, step, path, reliable, bad, size>>

FallBack ==
  /\ phase = "list"
  /\ tried = Candidates
  /\ size' = Fallback
  /\ phase' = "write"
  /\ UNCHANGED <<cap, step, path, reliable, tried, good, bad, best, scps, flying, seen, probes>>

Larger(m, n) == IF m >= n THEN m ELSE n

Mid == good + (((bad - good) \div 2) \div INC) * INC

\* Mutant: an unanswered probe moves the lower end.
NarrowUp(a) ==
  /\ good' = Mid
  /\ best' = Larger(best, a)
  /\ UNCHANGED bad

Narrow(a) ==
  /\ best' = Larger(best, a)
  /\ IF a > 0 THEN good' = Mid /\ UNCHANGED bad ELSE bad' = Mid /\ UNCHANGED good

\* Mutant: the search goes on while the ends are neighbours.
ApartStill == bad - good >= INC

Apart == bad - good > INC

Bisect ==
  /\ phase = "bisect"
  /\ Apart
  /\ \E a \in Findings(Mid) : Probe(Mid, a) /\ Narrow(a)
  /\ UNCHANGED <<cap, step, path, reliable, phase, tried, size>>

BisectEnd ==
  /\ phase = "bisect"
  /\ ~Apart
  /\ size' = best
  /\ phase' = "write"
  /\ UNCHANGED <<cap, step, path, reliable, tried, good, bad, best, scps, flying, seen, probes>>

\* The final write, and the residue drained from the socket.  When the write
\* fails so does open_stream.
WriteSize ==
  /\ phase = "write"
  /\ size' = Larger(size, MIN)
  /\ scps' = Rounded(size')
  /\ phase' = "done"
  /\ flying' = {}
  /\ UNCHANGED <<cap, step, path, reliable, tried, good, bad, best, seen, probes>>

Done == phase = "done" /\ UNCHANGED vars

Next == ProbeMax \/ ProbeCandidate \/ FallBack \/ Bisect \/ BisectEnd \/ WriteSize \/ Done

Spec == Init /\ [][Next]_vars

-----------------------------------------------------------------------------
\* The size negotiated is one the device delivered over this path, however late
\* test packets arrive; or the fallback when nothing was, or MIN when only
\* shorter packets were.
SizeWasDelivered ==
  phase = "done" => size \in seen \cup {Fallback} \/ (size = MIN /\ \E d \in seen : d < MIN)

\* The device transmits with the size the host reckons with, if it has
\* delivered that size before.
DeviceAgrees ==
  phase = "done" /\ size \in seen => scps = size

\* Every size that fits by a whole increment more would have been found: when
\* no test packet is lost or late the result is the best the path can carry.
SizeIsLargest ==
  reliable /\ phase = "done" /\ path >= MIN =>
    /\ size <= path
    /\ \A n \in size + INC .. MAX : n % INC = 0 => Rounded(n) > path \/ Rounded(n) <= size

\* As many probes as halving the grid takes: the bisection starts with at most
\* MAX - MIN between its ends.
ProbeLimit ==
  1 + Cardinality(Candidates) + CHOOSE k \in 0..16 : 2^k * INC >= MAX - MIN /\ (k > 0 => 2^(k - 1) * INC < MAX - MIN)

\* The negotiation ends, whatever the probes find: every probe halves what is
\* left between the ends, for both stay on the grid (the loop has no limit of
\* its own).
ProbesAreFew == probes <= ProbeLimit
=============================================================================
