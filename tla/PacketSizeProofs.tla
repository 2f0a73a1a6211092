-------------------------- MODULE PacketSizeProofs --------------------------
(***************************************************************************)
(* The packet size negotiation, for any grid, any limits of the device and *)
(* the path, and any loss or delay of the test packets.                    *)
(***************************************************************************)
EXTENDS PacketSize, TLAPS

\* What arrives was sent by the device for some probe: it has a size the device
\* rounds to.
Deliverable(d) == d \in Nat \ {0} /\ Rounded(d) = d

Ranges ==
  /\ cap \in Nat /\ step \in 1..MIN /\ step <= cap
  /\ phase \in {"max", "list", "bisect", "write", "done"}
  /\ {good, bad, best, size, scps} \subseteq Nat

\* The search knows of no size but those it has seen delivered.
Delivered ==
  /\ \A d \in flying \cup seen : Deliverable(d)
  /\ phase = "bisect" => MIN <= good /\ best \in seen
  /\ phase = "write" => size \in seen \cup {Fallback}
  /\ SizeWasDelivered

Agreed == DeviceAgrees

IInv == Ranges /\ Delivered /\ Agreed

-----------------------------------------------------------------------------
\* A number rounded down to a multiple of another.
LEMMA Floor ==
  ASSUME NEW k \in Nat \ {0}, NEW x \in Nat
  PROVE  /\ x \div k \in Nat
         /\ (x \div k) * k \in Nat /\ (x \div k) * k <= x /\ x < (x \div k) * k + k
<1>. DEFINE q == x \div k
<1>1. q \in Nat /\ k * q <= x /\ x < k * q + k
  OBVIOUS
<1>. HIDE DEF q
<1>2. k * q = q * k /\ q * k \in Nat
  BY <1>1
<1>3. q \in Nat /\ q * k \in Nat /\ q * k <= x /\ x < q * k + k
  BY <1>1, <1>2
<1>. QED BY <1>3 DEF q

\* Rounding keeps the order, and a multiple stays as it is.
LEMMA FloorOrder ==
  ASSUME NEW k \in Nat \ {0}, NEW x \in Nat, NEW y \in Nat, x <= y
  PROVE  (x \div k) * k <= (y \div k) * k
<1>. DEFINE p == x \div k
            q == y \div k
<1>1. p \in Nat /\ q \in Nat /\ p * k <= x /\ y < q * k + k /\ p * k \in Nat /\ q * k \in Nat
  BY Floor
<1>. HIDE DEF p, q
<1>2. p <= q
  <2>. SUFFICES ASSUME q + 1 <= p PROVE FALSE
    BY <1>1
  <2>1. (q + 1) * k <= p * k
    BY <1>1
  <2>2. (q + 1) * k = q * k + k
    BY <1>1
  <2>. QED BY <1>1, <2>1, <2>2
<1>3. p * k <= q * k
  BY <1>1, <1>2
<1>. QED BY <1>3 DEF p, q

\* Rounding a rounded number changes nothing.
LEMMA FloorOfFloor ==
  ASSUME NEW k \in Nat \ {0}, NEW p \in Nat
  PROVE  ((p * k) \div k) * k = p * k
<1>1. p * k \in Nat
  OBVIOUS
<1>. DEFINE q == (p * k) \div k
<1>2. q \in Nat /\ q * k <= p * k /\ p * k < q * k + k
  BY <1>1, Floor
<1>. HIDE DEF q
<1>3. q <= p
  <2>. SUFFICES ASSUME p + 1 <= q PROVE FALSE
    BY <1>2
  <2>1. (p + 1) * k <= q * k /\ (p + 1) * k = p * k + k
    BY <1>2
  <2>. QED BY <1>1, <1>2, <2>1
<1>4. p <= q
  <2>. SUFFICES ASSUME q + 1 <= p PROVE FALSE
    BY <1>2
  <2>1. (q + 1) * k <= p * k /\ (q + 1) * k = q * k + k
    BY <1>2
  <2>. QED BY <1>1, <1>2, <2>1
<1>5. q = p
  BY <1>2, <1>3, <1>4
<1>. QED BY <1>5 DEF q

\* What the device makes of a size: one it supports, no longer and not nothing.
LEMMA RoundedFacts ==
  ASSUME Ranges, NEW n \in Nat
  PROVE  /\ Rounded(n) \in Nat /\ Rounded(n) <= n
         /\ Rounded(Rounded(n)) = Rounded(n)
         /\ MIN <= n => Rounded(n) > 0
<1>1. cap \in Nat /\ step \in Nat \ {0} /\ step <= cap /\ step <= MIN /\ MIN \in Nat
  BY SizeAssumption DEF Ranges
<1>. DEFINE c == Capped(n)
            q == c \div step
<1>2. c \in Nat /\ c <= n /\ c <= cap /\ (MIN <= n => step <= c)
  BY <1>1 DEF Capped
<1>. HIDE DEF c
<1>3. q \in Nat /\ q * step \in Nat /\ q * step <= c /\ c < q * step + step
  BY <1>1, <1>2, Floor
<1>4. Rounded(n) = q * step
  BY DEF Rounded, c
<1>. HIDE DEF q
<1>5. Rounded(n) \in Nat /\ Rounded(n) <= n
  BY <1>2, <1>3, <1>4
<1>6. Rounded(q * step) = ((q * step) \div step) * step
  <2>. DEFINE r == q * step
  <2>1. r \in Nat /\ r <= cap
    BY <1>1, <1>2, <1>3
  <2>. HIDE DEF r
  <2>2. Rounded(r) = (r \div step) * step
    BY <2>1 DEF Rounded, Capped
  <2>. QED BY <2>2 DEF r
<1>7. Rounded(Rounded(n)) = Rounded(n)
  BY <1>1, <1>3, <1>4, <1>6, FloorOfFloor
<1>8. MIN <= n => q * step > 0
  BY <1>1, <1>2, <1>3
<1>. QED BY <1>4, <1>5, <1>7, <1>8

\* The middle of the bisection is a size of the range probed.
LEMMA MidIsLarge ==
  ASSUME good \in Nat, bad \in Nat, bad - good > INC
  PROVE  Mid \in Nat /\ good <= Mid
<1>. DEFINE half == (bad - good) \div 2
            steps == half \div INC
<1>1. INC \in Nat \ {0}
  BY SizeAssumption
<1>2. half \in Nat
  BY <1>1
<1>3. steps \in Nat
  <2>. HIDE DEF half
  <2>. QED BY <1>1, <1>2
<1>4. steps * INC \in Nat
  <2>. HIDE DEF steps
  <2>. QED BY <1>1, <1>3
<1>5. Mid = good + steps * INC
  BY DEF Mid
<1>. HIDE DEF steps
<1>. QED BY <1>4, <1>5

\* A probe of a size no shorter than the shortest finds nothing, or a size that
\* was delivered; and whatever is under way or received stays deliverable.
LEMMA ProbeFinds ==
  ASSUME Ranges, Delivered, NEW n \in Nat, MIN <= n, NEW a, Probe(n, a), UNCHANGED <<cap, step>>
  PROVE  /\ a \in Nat
         /\ a = 0 \/ a \in seen'
         /\ seen \subseteq seen'
         /\ \A d \in flying' \cup seen' : Deliverable(d)'
         /\ scps' \in Nat
<1>. DEFINE shot == {d \in {Rounded(n)} : d <= path}
<1>1. Deliverable(Rounded(n)) /\ Rounded(n) \in Nat
  BY RoundedFacts DEF Deliverable
<1>2. \A d \in flying \cup shot \cup seen : Deliverable(d)
  BY <1>1 DEF Delivered
<1>3. flying' \subseteq flying \cup shot /\ seen \subseteq seen' /\ seen' \subseteq seen \cup flying \cup shot
  BY DEF Probe
<1>4. \A d \in flying' \cup seen' : Deliverable(d)'
  BY <1>2, <1>3 DEF Deliverable, Rounded, Capped
<1>5. a = 0 \/ a \in seen'
  BY DEF Probe, Achieved
<1>6. a \in Nat
  BY <1>4, <1>5 DEF Deliverable
<1>7. scps' \in Nat
  BY <1>1 DEF Probe, Ranges
<1>. QED BY <1>3, <1>4, <1>5, <1>6, <1>7

\* The invariant holds before the first probe.
LEMMA InitInv == Init => IInv
BY SizeAssumption DEF Init, IInv, Ranges, Delivered, Agreed, SizeWasDelivered, DeviceAgrees

\* Every step of the search keeps the invariant.
LEMMA StepInv == IInv /\ [Next]_vars => IInv'
<1>. SUFFICES ASSUME IInv, [Next]_vars
              PROVE  IInv'
  OBVIOUS
<1>a. Ranges /\ Delivered /\ Agreed
  BY DEF IInv
<1>b. MIN \in Nat /\ MAX \in Nat /\ MIN <= MAX /\ Fallback \in Nat /\ MIN <= Fallback
  BY SizeAssumption
<1>1. CASE ProbeMax
  <2>1. PICK a \in Findings(MAX) : Probe(MAX, a) /\ size' = a /\ phase' = IF a > 0 THEN "write" ELSE "list"
    BY <1>1 DEF ProbeMax
  <2>2. UNCHANGED <<cap, step, good, bad, best>>
    BY <1>1 DEF ProbeMax
  <2>3. /\ a \in Nat
        /\ a = 0 \/ a \in seen'
        /\ \A d \in flying' \cup seen' : Deliverable(d)'
        /\ scps' \in Nat
    BY <1>a, <1>b, <2>1, <2>2, ProbeFinds
  <2>. QED BY <1>a, <2>1, <2>2, <2>3 DEF IInv, Ranges, Delivered, Agreed, SizeWasDelivered, DeviceAgrees
<1>2. CASE ProbeCandidate
  <2>1. PICK c \in Candidates \ tried : \E a \in Findings(c) :
             /\ Probe(c, a)
             /\ IF a > 0
                THEN phase' = "bisect" /\ good' = c /\ best' = a /\ UNCHANGED tried
                ELSE tried' = tried \cup {c} /\ UNCHANGED <<phase, good, best>>
    BY <1>2 DEF ProbeCandidate
  <2>2. PICK a \in Findings(c) :
             /\ Probe(c, a)
             /\ IF a > 0
                THEN phase' = "bisect" /\ good' = c /\ best' = a /\ UNCHANGED tried
                ELSE tried' = tried \cup {c} /\ UNCHANGED <<phase, good, best>>
    BY <2>1
  <2>3. phase = "list" /\ UNCHANGED <<cap, step, bad, size>>
    BY <1>2 DEF ProbeCandidate
  <2>4. c \in Nat /\ MIN <= c
    BY SizeAssumption
  <2>5. /\ a \in Nat
        /\ a = 0 \/ a \in seen'
        /\ \A d \in flying' \cup seen' : Deliverable(d)'
        /\ scps' \in Nat
    BY <1>a, <2>2, <2>3, <2>4, ProbeFinds
  <2>. QED BY <1>a, <2>2, <2>3, <2>4, <2>5 DEF IInv, Ranges, Delivered, Agreed, SizeWasDelivered, DeviceAgrees
<1>3. CASE FallBack
  BY <1>a, <1>b, <1>3 DEF FallBack, IInv, Ranges, Delivered, Agreed, SizeWasDelivered, DeviceAgrees, Deliverable, Rounded, Capped
<1>4. CASE Bisect
  <2>1. PICK a \in Findings(Mid) : Probe(Mid, a) /\ Narrow(a)
    BY <1>4 DEF Bisect
  <2>2. phase = "bisect" /\ bad - good > INC /\ UNCHANGED <<cap, step, phase, size>>
    BY <1>4 DEF Bisect, Apart
  <2>3. Mid \in Nat /\ good <= Mid
    BY <1>a, <2>2, MidIsLarge DEF Ranges
  <2>4. MIN <= Mid
    BY <1>a, <1>b, <2>2, <2>3 DEF Ranges, Delivered
  <2>5. /\ a \in Nat
        /\ a = 0 \/ a \in seen'
        /\ seen \subseteq seen'
        /\ \A d \in flying' \cup seen' : Deliverable(d)'
        /\ scps' \in Nat
    BY <1>a, <2>1, <2>2, <2>3, <2>4, ProbeFinds
  <2>6. best' \in Nat /\ best' \in seen'
    BY <1>a, <2>1, <2>2, <2>5 DEF Narrow, Larger, Ranges, Delivered
  <2>7. {good', bad'} \subseteq Nat /\ MIN <= good'
    BY <1>a, <1>b, <2>1, <2>2, <2>3, <2>4 DEF Narrow, Ranges, Delivered
  <2>. QED BY <1>a, <2>2, <2>5, <2>6, <2>7 DEF IInv, Ranges, Delivered, Agreed, SizeWasDelivered, DeviceAgrees
<1>5. CASE BisectEnd
  BY <1>a, <1>5 DEF BisectEnd, IInv, Ranges, Delivered, Agreed, SizeWasDelivered, DeviceAgrees, Deliverable, Rounded, Capped
<1>6. CASE WriteSize
  <2>1. /\ phase = "write" /\ phase' = "done" /\ size' = Larger(size, MIN) /\ scps' = Rounded(size') /\ flying' = {}
        /\ UNCHANGED <<cap, step, good, bad, best, seen>>
    BY <1>6 DEF WriteSize
  <2>2. size \in seen \cup {Fallback} /\ size \in Nat
    BY <1>a, <2>1 DEF Ranges, Delivered
  <2>3. \/ size' = size
        \/ size' = MIN /\ size < MIN /\ size \in seen
    BY <1>b, <2>1, <2>2 DEF Larger
  <2>4. size' \in Nat /\ scps' \in Nat
    BY <1>a, <1>b, <2>1, <2>2, <2>3, RoundedFacts
  <2>5. size' \in seen => scps' = size'
    BY <1>a, <2>1 DEF Delivered, Deliverable
  <2>6. \A d \in flying' \cup seen' : Deliverable(d)'
    BY <1>a, <2>1 DEF Delivered, Deliverable, Rounded, Capped
  <2>7. SizeWasDelivered' /\ DeviceAgrees'
    BY <2>1, <2>2, <2>3, <2>5 DEF SizeWasDelivered, DeviceAgrees
  <2>8. Ranges'
    BY <1>a, <2>1, <2>4 DEF Ranges
  <2>. QED BY <2>1, <2>6, <2>7, <2>8 DEF IInv, Delivered, Agreed
<1>7. CASE UNCHANGED vars
  BY <1>a, <1>7 DEF vars, IInv, Ranges, Delivered, Agreed, SizeWasDelivered, DeviceAgrees, Deliverable, Rounded, Capped
<1>. QED BY <1>1, <1>2, <1>3, <1>4, <1>5, <1>6, <1>7 DEF Next, Done

\* The invariant holds throughout.
LEMMA Invariance == Spec => []IInv
BY InitInv, StepInv, PTL DEF Spec

\* negotiate_packet_size never returns a size that no test packet arrived
\* with, but for the fallback, and the minimum when only shorter ones arrived:
\* neither a late packet of an earlier probe nor a
\* lost one makes it take a probed size for a delivered one.
THEOREM SizesWereDelivered == Spec => []SizeWasDelivered
<1>1. IInv => SizeWasDelivered
  BY DEF IInv, Delivered
<1>. QED BY <1>1, Invariance, PTL

\* A size that was delivered is the one the final write leaves in the device:
\* rounding it once more changes nothing.
THEOREM DevicesAgree == Spec => []DeviceAgrees
<1>1. IInv => DeviceAgrees
  BY DEF IInv, Agreed
<1>. QED BY <1>1, Invariance, PTL

-----------------------------------------------------------------------------
\* What a reliable path has told the search.  Fits and its converse are
\* monotone in n, so the ends of the bisection enclose every size on the grid.
Fits(n) == Rounded(n) <= path

Best(s) ==
  /\ s <= path
  /\ \A n \in 0..MAX : n % INC = 0 => ~Fits(n) \/ Rounded(n) <= s

Searched ==
  /\ path \in Nat
  /\ reliable =>
      /\ phase = "max" => bad = MAX /\ tried = {}
      /\ phase = "list" => bad = MAX /\ ~Fits(MAX) /\ \A c \in tried : ~Fits(c)
      /\ phase = "bisect" =>
           /\ good % INC = 0 /\ bad % INC = 0
           /\ Fits(good) /\ ~Fits(bad)
           /\ Rounded(good) <= best /\ best <= path
      /\ phase \in {"write", "done"} /\ MIN <= path => Best(size)

\* Two sizes of the grid differ by an increment at least.
LEMMA GridStep ==
  ASSUME NEW x \in Nat, NEW y \in Nat, x % INC = 0, y % INC = 0, x < y
  PROVE  x + INC <= y
<1>1. INC \in Nat \ {0}
  BY SizeAssumption
<1>. DEFINE p == x \div INC
            q == y \div INC
<1>2. p \in Nat /\ x = INC * p /\ q \in Nat /\ y = INC * q
  BY <1>1
<1>. HIDE DEF p, q
<1>3. p < q
  <2>1. SUFFICES ASSUME q <= p PROVE FALSE
    BY <1>2
  <2>2. INC * q <= INC * p
    BY <1>1, <1>2, <2>1
  <2>. QED BY <1>2, <2>2
<1>4. INC * (p + 1) <= INC * q
  BY <1>1, <1>2, <1>3
<1>5. INC * (p + 1) = INC * p + INC
  BY <1>1, <1>2
<1>. QED BY <1>1, <1>2, <1>4, <1>5

\* A size on the grid stays on it when moved by whole increments.
LEMMA GridSum ==
  ASSUME NEW x \in Nat, NEW k \in Nat, x % INC = 0
  PROVE  (x + k * INC) % INC = 0
<1>1. INC \in Nat \ {0}
  BY SizeAssumption
<1>. DEFINE p == x \div INC
<1>2. p \in Nat /\ x = INC * p
  BY <1>1
<1>. HIDE DEF p
<1>3. x + k * INC = INC * (p + k)
  BY <1>1, <1>2
<1>4. p + k \in Nat
  BY <1>2
<1>5. (INC * (p + k)) % INC = 0
  BY <1>1, <1>4
<1>. QED BY <1>3, <1>5

\* The middle that is probed next is on the grid.
LEMMA MidOnGrid ==
  ASSUME good \in Nat, bad \in Nat, bad - good > INC, good % INC = 0
  PROVE  Mid % INC = 0
<1>. DEFINE steps == ((bad - good) \div 2) \div INC
<1>1. INC \in Nat \ {0}
  BY SizeAssumption
<1>2. steps \in Nat
  <2>. DEFINE half == (bad - good) \div 2
  <2>1. half \in Nat
    BY <1>1
  <2>. HIDE DEF half
  <2>2. half \div INC \in Nat
    BY <1>1, <2>1
  <2>. QED BY <2>2 DEF half
<1>3. Mid = good + steps * INC
  BY DEF Mid
<1>. HIDE DEF steps
<1>. QED BY <1>2, <1>3, GridSum

\* On a reliable path a probe finds what it fires, if that fits.
LEMMA ReliableProbe ==
  ASSUME Ranges, path \in Nat, reliable, NEW n \in Nat, MIN <= n, NEW a, Probe(n, a)
  PROVE  a = IF Fits(n) THEN Rounded(n) ELSE 0
<1>. DEFINE shot == {d \in {Rounded(n)} : d <= path}
<1>1. Achieved(n, shot, a)
  BY DEF Probe
<1>2. Rounded(n) \in Nat /\ Rounded(n) <= n
  BY RoundedFacts
<1>3. a \in shot \cup {0} /\ \A d \in shot : d <= n => d <= a
  BY <1>1 DEF Achieved
<1>. QED BY <1>2, <1>3 DEF Fits

\* The larger of two sizes is the one that does not fit.
LEMMA FitsIsMonotone ==
  ASSUME Ranges, path \in Nat, NEW m \in Nat, NEW n \in Nat, m <= n
  PROVE  Rounded(m) <= Rounded(n) /\ (Fits(n) => Fits(m))
<1>1. step \in Nat \ {0} /\ cap \in Nat
  BY SizeAssumption DEF Ranges
<1>2. Capped(m) \in Nat /\ Capped(n) \in Nat /\ Capped(m) <= Capped(n)
  BY <1>1 DEF Capped
<1>3. Rounded(m) <= Rounded(n)
  BY <1>1, <1>2, FloorOrder DEF Rounded
<1>4. Rounded(m) \in Nat /\ Rounded(n) \in Nat
  BY RoundedFacts
<1>. QED BY <1>3, <1>4 DEF Fits

\* Nothing is ruled out before the first probe.
LEMMA InitSearched == Init => Searched
BY SizeAssumption DEF Init, Searched

\* Every step keeps all that fits between the two ends of the search.
LEMMA StepSearched == IInv /\ Searched /\ [Next]_vars => Searched'
<1>. SUFFICES ASSUME IInv, Searched, [Next]_vars
              PROVE  Searched'
  OBVIOUS
<1>a. Ranges /\ Delivered /\ path \in Nat
  BY DEF IInv, Searched
<1>b. /\ MIN \in Nat \ {0} /\ MAX \in Nat /\ MIN <= MAX /\ INC \in Nat \ {0} /\ MAX % INC = 0
      /\ Fallback \in Nat /\ MIN \in Candidates
      /\ \A c \in Candidates : c \in Nat /\ MIN <= c /\ c % INC = 0
  BY SizeAssumption
<1>c. cap \in Nat /\ {good, bad, best, size} \subseteq Nat
  BY <1>a DEF Ranges
<1>d. UNCHANGED <<cap, step, path, reliable>>
  BY DEF Next, ProbeMax, ProbeCandidate, FallBack, Bisect, BisectEnd, WriteSize, Done, vars
<1>e. \A n : Fits(n)' <=> Fits(n)
  BY <1>d DEF Fits, Rounded, Capped
<1>f. \A n : Rounded(n)' = Rounded(n)
  BY <1>d DEF Rounded, Capped
<1>g. SUFFICES ASSUME reliable
               PROVE  Searched'
  BY <1>a, <1>d DEF Searched
<1>h. \A n \in Nat : Rounded(n) \in Nat /\ Rounded(n) <= n /\ (n >= MIN => Rounded(n) > 0)
  BY <1>a, RoundedFacts
<1>1. CASE ProbeMax
  <2>1. PICK a \in Findings(MAX) : Probe(MAX, a) /\ size' = a /\ phase' = IF a > 0 THEN "write" ELSE "list"
    BY <1>1 DEF ProbeMax
  <2>2. UNCHANGED <<tried, bad>> /\ bad = MAX /\ tried = {}
    BY <1>1, <1>g DEF ProbeMax, Searched
  <2>3. a = IF Fits(MAX) THEN Rounded(MAX) ELSE 0
    BY <1>a, <1>b, <1>g, <2>1, ReliableProbe
  <2>4. CASE Fits(MAX)
    <3>1. a = Rounded(MAX) /\ a > 0 /\ a <= path
      BY <1>b, <1>h, <2>3, <2>4 DEF Fits
    <3>2. \A n \in 0..MAX : Rounded(n) <= Rounded(MAX)
      BY <1>a, <1>b, <1>c, FitsIsMonotone
    <3>. QED BY <1>a, <1>d, <1>f, <2>1, <3>1, <3>2 DEF Searched, Best
  <2>5. CASE ~Fits(MAX)
    BY <1>a, <1>d, <1>e, <2>1, <2>2, <2>3, <2>5 DEF Searched
  <2>. QED BY <2>4, <2>5
<1>2. CASE ProbeCandidate
  <2>1. PICK c \in Candidates \ tried : \E a \in Findings(c) :
             /\ Probe(c, a)
             /\ IF a > 0
                THEN phase' = "bisect" /\ good' = c /\ best' = a /\ UNCHANGED tried
                ELSE tried' = tried \cup {c} /\ UNCHANGED <<phase, good, best>>
    BY <1>2 DEF ProbeCandidate
  <2>2. PICK a \in Findings(c) :
             /\ Probe(c, a)
             /\ IF a > 0
                THEN phase' = "bisect" /\ good' = c /\ best' = a /\ UNCHANGED tried
                ELSE tried' = tried \cup {c} /\ UNCHANGED <<phase, good, best>>
    BY <2>1
  <2>3. phase = "list" /\ bad' = bad /\ bad = MAX /\ ~Fits(MAX) /\ \A d \in tried : ~Fits(d)
    BY <1>2, <1>g DEF ProbeCandidate, Searched
  <2>4. a = IF Fits(c) THEN Rounded(c) ELSE 0
    BY <1>a, <1>b, <1>g, <2>2, ReliableProbe
  <2>5. CASE Fits(c)
    <3>1. a = Rounded(c) /\ a > 0 /\ a <= path /\ c % INC = 0
      BY <1>b, <1>h, <2>4, <2>5 DEF Fits
    <3>2. phase' = "bisect" /\ good' = c /\ best' = a
      BY <2>2, <3>1
    <3>3. Rounded(c) <= a
      BY <1>b, <1>h, <3>1
    <3>. QED BY <1>a, <1>b, <1>d, <1>e, <1>f, <2>3, <2>5, <3>1, <3>2, <3>3 DEF Searched
  <2>6. CASE ~Fits(c)
    BY <1>a, <1>d, <1>e, <2>2, <2>3, <2>4, <2>6 DEF Searched
  <2>. QED BY <2>5, <2>6
<1>3. CASE FallBack
  <2>1. ~Fits(MIN) /\ phase' = "write"
    BY <1>3, <1>b, <1>g DEF FallBack, Searched
  <2>2. ~(MIN <= path)
    BY <1>a, <1>b, <1>h, <2>1 DEF Fits
  <2>. QED BY <1>a, <1>d, <2>1, <2>2 DEF Searched
<1>4. CASE Bisect
  <2>1. PICK a \in Findings(Mid) : Probe(Mid, a) /\ Narrow(a)
    BY <1>4 DEF Bisect
  <2>2. phase = "bisect" /\ bad - good > INC /\ UNCHANGED phase
    BY <1>4 DEF Bisect, Apart
  <2>3. /\ good % INC = 0 /\ bad % INC = 0 /\ Fits(good) /\ ~Fits(bad)
        /\ Rounded(good) <= best /\ best <= path
    BY <1>g, <2>2 DEF Searched
  <2>4. Mid \in Nat /\ MIN <= Mid /\ Mid % INC = 0
    BY <1>a, <1>b, <1>c, <2>2, <2>3, MidIsLarge, MidOnGrid DEF Delivered
  <2>5. a = IF Fits(Mid) THEN Rounded(Mid) ELSE 0
    BY <1>a, <1>g, <2>1, <2>4, ReliableProbe
  <2>6. CASE Fits(Mid)
    <3>1. a = Rounded(Mid) /\ a > 0 /\ a <= path /\ a \in Nat
      BY <1>b, <1>h, <2>4, <2>5, <2>6 DEF Fits
    <3>2. good' = Mid /\ bad' = bad /\ Rounded(Mid) <= best' /\ best' <= path
      BY <1>a, <1>c, <2>1, <2>3, <3>1 DEF Narrow, Larger
    <3>. QED BY <1>a, <1>d, <1>e, <1>f, <2>2, <2>3, <2>4, <2>6, <3>2 DEF Searched
  <2>7. CASE ~Fits(Mid)
    <3>1. good' = good /\ bad' = Mid /\ best' = best
      BY <1>c, <2>1, <2>5, <2>7 DEF Narrow, Larger
    <3>. QED BY <1>a, <1>d, <1>e, <1>f, <2>2, <2>3, <2>4, <2>7, <3>1 DEF Searched
  <2>. QED BY <2>6, <2>7
<1>5. CASE BisectEnd
  <2>1. phase = "bisect" /\ bad - good <= INC /\ size' = best /\ phase' = "write"
    BY <1>5, <1>b, <1>c DEF BisectEnd, Apart
  <2>2. /\ good % INC = 0 /\ bad % INC = 0 /\ Fits(good) /\ ~Fits(bad)
        /\ Rounded(good) <= best /\ best <= path
    BY <1>g, <2>1 DEF Searched
  <2>3. ASSUME NEW n \in 0..MAX, n % INC = 0
        PROVE  ~Fits(n) \/ Rounded(n) <= best
    <3>1. CASE bad <= n
      BY <1>a, <1>b, <1>c, <2>2, <3>1, FitsIsMonotone
    <3>2. CASE n < bad
      <4>1. n + INC <= bad
        BY <1>b, <1>c, <2>2, <2>3, <3>2, GridStep
      <4>2. n <= good
        BY <1>b, <1>c, <2>1, <4>1
      <4>3. Rounded(n) <= Rounded(good)
        BY <1>a, <1>b, <1>c, <4>2, FitsIsMonotone
      <4>. QED BY <1>b, <1>c, <1>h, <2>2, <4>3
    <3>. QED BY <1>b, <1>c, <3>1, <3>2
  <2>4. Best(size)'
    BY <1>d, <1>e, <1>f, <2>1, <2>2, <2>3 DEF Best
  <2>. QED BY <1>a, <1>d, <2>1, <2>4 DEF Searched
<1>6. CASE WriteSize
  <2>1. phase = "write" /\ phase' = "done" /\ size' = Larger(size, MIN)
    BY <1>6 DEF WriteSize
  <2>2. size' \in Nat /\ size <= size' /\ (size <= path /\ MIN <= path => size' <= path)
    BY <1>a, <1>b, <1>c, <2>1 DEF Larger
  <2>3. MIN <= path => Best(size)
    BY <1>g, <2>1 DEF Searched
  <2>4. ASSUME MIN <= path, NEW n \in 0..MAX, n % INC = 0
        PROVE  ~Fits(n) \/ Rounded(n) <= size'
    <3>1. ~Fits(n) \/ Rounded(n) <= size
      BY <2>3, <2>4 DEF Best
    <3>2. Rounded(n) \in Nat
      BY <1>b, <1>h
    <3>. QED BY <1>c, <2>2, <3>1, <3>2
  <2>5. MIN <= path => Best(size)'
    BY <1>d, <1>e, <1>f, <2>2, <2>3, <2>4 DEF Best
  <2>. QED BY <1>a, <1>d, <2>1, <2>5 DEF Searched
<1>7. CASE UNCHANGED vars
  BY <1>7 DEF vars, Searched, Best, Fits, Rounded, Capped
<1>. QED BY <1>1, <1>2, <1>3, <1>4, <1>5, <1>6, <1>7 DEF Next, Done

\* On a path that loses and delays nothing, negotiate_packet_size returns a
\* size that fits, and no size of the grid an increment larger would have got
\* a longer packet across: the bisection never steps over the boundary, for
\* its ends stay on the grid with the boundary between them.
THEOREM SizesAreLargest == Spec => []SizeIsLargest
<1>1. IInv /\ Searched => SizeIsLargest
  <2>. SUFFICES ASSUME IInv, Searched, reliable, phase = "done", path >= MIN
                PROVE  /\ size <= path
                       /\ \A n \in size + INC .. MAX : n % INC = 0 => Rounded(n) > path \/ Rounded(n) <= size
    BY DEF SizeIsLargest
  <2>1. Best(size) /\ path \in Nat /\ size \in Nat /\ Ranges
    BY SizeAssumption DEF Searched, IInv, Ranges
  <2>2. \A n \in size + INC .. MAX : n \in 0..MAX /\ Rounded(n) \in Nat
    BY <2>1, SizeAssumption, RoundedFacts
  <2>. QED BY <2>1, <2>2 DEF Best, Fits
<1>2. Init => IInv /\ Searched
  BY InitInv, InitSearched
<1>3. IInv /\ Searched /\ [Next]_vars => (IInv /\ Searched)'
  BY StepInv, StepSearched
<1>. QED BY <1>1, <1>2, <1>3, PTL DEF Spec
=============================================================================
