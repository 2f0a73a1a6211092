------------------------- MODULE FrameAssemblyProofs -------------------------
(***************************************************************************)
(* What FrameAssembly says of a frame, for every buffer, block size and    *)
(* order of the packets: a Complete frame is exact, a device that keeps to *)
(* the protocol is never found at fault, and missing bytes can be seen.    *)
(*                                                                         *)
(* The inductive invariant says how the books of a frame follow from the   *)
(* set of the packets received alone, whatever the order they came in.     *)
(***************************************************************************)
EXTENDS FrameAssembly, FiniteSetTheorems, WellFoundedInduction, TLAPS

\* How many blocks a length makes: all but the last are full.
LEMMA CeilFacts ==
  ASSUME NEW m \in Nat \ {0}, NEW n \in Nat \ {0}
  PROVE  /\ Ceil(m, n) \in Nat \ {0}
         /\ (Ceil(m, n) - 1) * n < m
         /\ m <= Ceil(m, n) * n
         /\ Ceil(m, n) <= m
<1>. DEFINE c == (m + n - 1) \div n
<1>1. c \in Nat
  OBVIOUS
<1>2. c * n <= m + n - 1 /\ m + n - 1 < (c + 1) * n
  OBVIOUS
<1>3. (c + 1) * n = c * n + n /\ (c - 1) * n = c * n - n
  BY <1>1
<1>. HIDE DEF c
<1>4. m <= c * n /\ (c - 1) * n < m
  BY <1>1, <1>2, <1>3
<1>5. c # 0
  BY <1>4
<1>6. c <= m
  <2>1. SUFFICES ASSUME c > m PROVE FALSE
    BY <1>1
  <2>2. (c - 1) * n >= c - 1
    BY <1>1, <1>5
  <2>. QED BY <2>1, <2>2, <1>1, <1>4
<1>. QED BY <1>1, <1>4, <1>5, <1>6 DEF c, Ceil

\* A factor can be compared away.
LEMMA TimesMonotone ==
  ASSUME NEW a \in Int, NEW b \in Int, NEW n \in Nat, a <= b
  PROVE  a * n <= b * n
OBVIOUS

\* More to cut makes no fewer blocks.
LEMMA CeilMonotone ==
  ASSUME NEW m \in Nat \ {0}, NEW l \in Nat \ {0}, NEW n \in Nat \ {0}, l <= m
  PROVE  Ceil(l, n) <= Ceil(m, n)
<1>1. SUFFICES ASSUME Ceil(m, n) <= Ceil(l, n) - 1 PROVE FALSE
  BY CeilFacts
<1>2. Ceil(m, n) * n <= (Ceil(l, n) - 1) * n
  <2>1. Ceil(m, n) \in Int /\ Ceil(l, n) - 1 \in Int /\ n \in Nat
    BY CeilFacts
  <2>. QED BY <1>1, <2>1, TimesMonotone, Zenon
<1>. DEFINE x == Ceil(m, n) * n
            y == (Ceil(l, n) - 1) * n
<1>3. m <= x /\ y < l /\ x \in Int /\ y \in Int
  BY CeilFacts
<1>4. x <= y
  BY <1>2
<1>. HIDE DEF x, y
<1>. QED BY <1>3, <1>4

-----------------------------------------------------------------------------
\* The frame a device sends.
LEMMA SentFacts ==
  ASSUME sent \in SentFrames
  PROVE  /\ sent.len \in 1..payload_size
         /\ sent.block \in Blocks /\ sent.block \in Nat \ {0}
         /\ sent.padded \in BOOLEAN
         /\ sent.short \in Nat
         /\ sent.short # 0 => sent.short > 1 /\ sent.short < NBlocks /\ sent.block > 1
         /\ NBlocks \in Nat \ {0} /\ NBlocks <= payload_size
         /\ (NBlocks - 1) * sent.block < sent.len
         /\ sent.len <= NBlocks * sent.block
<1>1. /\ sent.len \in 1..payload_size
      /\ sent.block \in Blocks /\ sent.block \in Nat \ {0}
      /\ sent.padded \in BOOLEAN
      /\ sent.short \in Nat
      /\ sent.short # 0 => sent.short > 1 /\ sent.short < NBlocks /\ sent.block > 1
  <2>. DEFINE R == [len : 1..payload_size, block : Blocks, padded : BOOLEAN, short : 0..payload_size]
  <2>1. sent \in R /\ (sent.short = 0 \/ (sent.short > 1 /\ sent.short < Ceil(sent.len, sent.block) /\ sent.block > 1))
    BY Zenon DEF SentFrames
  <2>2. sent.len \in 1..payload_size /\ sent.block \in Blocks /\ sent.padded \in BOOLEAN
          /\ sent.short \in 0..payload_size
    BY <2>1
  <2>3. Blocks \subseteq Nat \ {0} /\ payload_size \in Nat
    BY AssemblyAssumption
  <2>4. sent.short # 0 => sent.short > 1 /\ sent.short < NBlocks /\ sent.block > 1
    BY <2>1, Zenon DEF NBlocks
  <2>5. sent.block \in Nat \ {0}
    BY <2>2, <2>3, Zenon
  <2>6. sent.short \in Nat
    BY <2>2, <2>3
  <2>. QED BY <2>2, <2>4, <2>5, <2>6
<1>2. sent.len \in Nat \ {0} /\ sent.len <= payload_size
  BY <1>1, AssemblyAssumption
<1>3. /\ NBlocks \in Nat \ {0} /\ NBlocks <= sent.len
      /\ (NBlocks - 1) * sent.block < sent.len
      /\ sent.len <= NBlocks * sent.block
  BY <1>1, <1>2, CeilFacts DEF NBlocks
<1>. QED BY <1>1, <1>2, <1>3, AssemblyAssumption

\* No packet is longer than a block or empty; all but the last and the short
\* one are full, and the last reaches the end of the image.
LEMMA LengthFacts ==
  ASSUME sent \in SentFrames, NEW k \in 1..NBlocks
  PROVE  /\ Length(k) \in 1..sent.block
         /\ k < NBlocks /\ k # sent.short => Length(k) = sent.block
         /\ k = NBlocks => sent.len <= (k - 1) * sent.block + Length(k)
         /\ (k - 1) * sent.block < sent.len
         /\ (k - 1) * sent.block \in Nat
<1>. DEFINE before == (k - 1) * sent.block
<1>1. before \in Nat
  BY SentFacts
<1>2. before <= (NBlocks - 1) * sent.block
  <2>1. k - 1 \in Int /\ NBlocks - 1 \in Int /\ k - 1 <= NBlocks - 1 /\ sent.block \in Nat
    BY SentFacts
  <2>. QED BY <2>1, TimesMonotone, Zenon
<1>3. before < sent.len
  <2>1. (NBlocks - 1) * sent.block \in Int /\ sent.len \in Int
    BY SentFacts
  <2>. HIDE DEF before
  <2>. QED BY <1>1, <1>2, <2>1, SentFacts
<1>4. k = NBlocks => NBlocks * sent.block = before + sent.block
  BY SentFacts
<1>5. k = NBlocks => sent.len <= before + sent.block
  BY <1>4, SentFacts
<1>. HIDE DEF before
<1>6. Length(k) = IF k = sent.short THEN sent.block - 1
                  ELSE IF k < NBlocks \/ sent.padded THEN sent.block
                  ELSE sent.len - before
  BY DEF Length, before
<1>7. k = NBlocks => k # sent.short
  BY SentFacts
<1>8. sent.len \in Int /\ sent.block \in Nat \ {0} /\ (k = sent.short => sent.block > 1)
  BY SentFacts
<1>9. Length(k) \in 1..sent.block
  BY <1>1, <1>3, <1>5, <1>6, <1>8, SentFacts
<1>10. k = NBlocks => sent.len <= before + Length(k)
  BY <1>1, <1>5, <1>6, <1>7, <1>8
<1>. QED BY <1>1, <1>3, <1>6, <1>9, <1>10 DEF before

-----------------------------------------------------------------------------
\* The place of a packet in the image, by the block size the device uses.
SlotEnd(k) == Low((k - 1) * sent.block + Length(k), payload_size)
Slot(k) == (k - 1) * sent.block + 1 .. SlotEnd(k)
Bytes(ids) == UNION {Slot(k) : k \in ids}

\* A place begins inside the buffer and ends there, within its own block.
LEMMA SlotFacts ==
  ASSUME sent \in SentFrames, NEW k \in 1..NBlocks
  PROVE  /\ (k - 1) * sent.block \in Nat /\ (k - 1) * sent.block < payload_size
         /\ SlotEnd(k) \in 1..payload_size
         /\ SlotEnd(k) > (k - 1) * sent.block
         /\ SlotEnd(k) <= (k - 1) * sent.block + sent.block
<1>. DEFINE before == (k - 1) * sent.block
<1>1. before \in Nat /\ before < sent.len /\ Length(k) \in 1..sent.block
  BY LengthFacts
<1>2. sent.len \in 1..payload_size /\ sent.block \in Nat /\ payload_size \in Nat
  BY SentFacts, AssemblyAssumption
<1>3. SlotEnd(k) = IF before + Length(k) < payload_size THEN before + Length(k) ELSE payload_size
  BY DEF SlotEnd, Low
<1>. HIDE DEF before
<1>4. before \in Nat /\ before < payload_size
  BY <1>1, <1>2
<1>5. SlotEnd(k) \in 1..payload_size /\ SlotEnd(k) > before /\ SlotEnd(k) <= before + sent.block
  BY <1>1, <1>2, <1>3
<1>. QED BY <1>4, <1>5 DEF before

\* Two packets have no byte in common.
LEMMA SlotsApart ==
  ASSUME sent \in SentFrames, NEW j \in 1..NBlocks, NEW k \in 1..NBlocks, NEW i \in Slot(j), i \in Slot(k)
  PROVE  j = k
<1>1. \A a, b \in 1..NBlocks : i \in Slot(a) /\ i \in Slot(b) => ~(a < b)
  <2>1. SUFFICES ASSUME NEW a \in 1..NBlocks, NEW b \in 1..NBlocks, i \in Slot(a), i \in Slot(b), a < b
                 PROVE  FALSE
    OBVIOUS
  <2>. DEFINE x == (a - 1) * sent.block
              y == (b - 1) * sent.block
  <2>2. x \in Nat /\ y \in Nat /\ SlotEnd(a) \in Nat /\ SlotEnd(b) \in Nat /\ SlotEnd(a) <= x + sent.block
    BY SlotFacts
  <2>3. a * sent.block <= y
    <3>1. a \in Int /\ b - 1 \in Int /\ sent.block \in Nat /\ a <= b - 1
      BY <2>1, SentFacts
    <3>. QED BY <3>1, TimesMonotone, Zenon
  <2>4. a * sent.block = x + sent.block
    BY SentFacts
  <2>5. i \in x + 1 .. SlotEnd(a) /\ i \in y + 1 .. SlotEnd(b)
    BY <2>1 DEF Slot
  <2>6. sent.block \in Nat
    BY SentFacts
  <2>. HIDE DEF x, y
  <2>. QED BY <2>2, <2>3, <2>4, <2>5, <2>6
<1>2. ~(j < k) /\ ~(k < j)
  BY <1>1
<1>. QED BY <1>2, SentFacts

\* Where place puts a packet once the block size is that of packet 1.
LEMMA PlaceIsSlot ==
  ASSUME sent \in SentFrames, NEW f, f.block_size = Length(1), NEW k \in 1..NBlocks
  PROVE  /\ Offset(f, k) = (k - 1) * sent.block
         /\ End(f, k) = SlotEnd(k)
         /\ Extent(f, k) = Slot(k)
         /\ Offset(f, k) < payload_size
         /\ Length(k) <= f.block_size
<1>1. NBlocks = 1 => k = 1
  BY SentFacts
<1>2. 1 \in 1..NBlocks /\ sent.short # 1
  BY SentFacts
<1>3. NBlocks # 1 => Length(1) = sent.block
  BY <1>2, LengthFacts, SentFacts
<1>4. Length(1) \in Nat /\ Length(k) \in 1..sent.block
  BY <1>2, LengthFacts, SentFacts
<1>5. Offset(f, k) = (k - 1) * sent.block
  <2>1. CASE NBlocks = 1
    BY <2>1, <1>1, <1>4, SentFacts DEF Offset
  <2>2. CASE NBlocks # 1
    BY <2>2, <1>3 DEF Offset
  <2>. QED BY <2>1, <2>2
<1>6. Length(k) <= f.block_size
  BY <1>1, <1>3, <1>4, SentFacts
<1>. QED BY <1>5, <1>6, SlotFacts DEF End, Extent, Slot, SlotEnd

\* The bytes of a set of packets, and of two sets that share none.
LEMMA BytesFacts ==
  ASSUME sent \in SentFrames, NEW ids \in SUBSET (1..NBlocks)
  PROVE  /\ Bytes(ids) \subseteq 1..payload_size
         /\ IsFiniteSet(Bytes(ids))
         /\ Cardinality(Bytes(ids)) \in Nat
<1>1. ASSUME NEW i \in Bytes(ids) PROVE i \in 1..payload_size
  <2>1. PICK k \in ids : i \in Slot(k)
    BY <1>1 DEF Bytes
  <2>2. k \in 1..NBlocks
    OBVIOUS
  <2>. DEFINE x == (k - 1) * sent.block
  <2>3. x \in Nat /\ SlotEnd(k) \in 1..payload_size
    BY <2>2, SlotFacts
  <2>4. i \in x + 1 .. SlotEnd(k)
    BY <2>1 DEF Slot
  <2>. HIDE DEF x
  <2>. QED BY <2>3, <2>4, AssemblyAssumption
<1>2. IsFiniteSet(1..payload_size)
  BY FS_Interval, AssemblyAssumption
<1>3. Bytes(ids) \in SUBSET (1..payload_size)
  BY <1>1
<1>4. IsFiniteSet(Bytes(ids))
  BY <1>2, <1>3, FS_Subset, Zenon
<1>. QED BY <1>3, <1>4, FS_CardinalityType, Zenon

\* The bytes of separate blocks add up.
LEMMA BytesAdd ==
  ASSUME sent \in SentFrames, NEW a \in SUBSET (1..NBlocks), NEW b \in SUBSET (1..NBlocks), a \cap b = {}
  PROVE  /\ Bytes(a \cup b) = Bytes(a) \cup Bytes(b)
         /\ Cardinality(Bytes(a \cup b)) = Cardinality(Bytes(a)) + Cardinality(Bytes(b))
<1>1. Bytes(a \cup b) = Bytes(a) \cup Bytes(b)
  BY Zenon DEF Bytes
<1>2. Bytes(a) \cap Bytes(b) = {}
  <2>1. SUFFICES ASSUME NEW i \in Bytes(a), i \in Bytes(b) PROVE FALSE
    OBVIOUS
  <2>2. PICK j \in a : i \in Slot(j)
    BY DEF Bytes
  <2>3. PICK k \in b : i \in Slot(k)
    BY <2>1 DEF Bytes
  <2>4. j \in 1..NBlocks /\ k \in 1..NBlocks
    OBVIOUS
  <2>5. j = k
    BY <2>2, <2>3, <2>4, SlotsApart, Zenon
  <2>. QED BY <2>5
<1>3. IsFiniteSet(Bytes(a)) /\ IsFiniteSet(Bytes(b))
  BY BytesFacts
<1>4. Cardinality(Bytes(a) \cup Bytes(b))
        = Cardinality(Bytes(a)) + Cardinality(Bytes(b)) - Cardinality(Bytes(a) \cap Bytes(b))
  BY <1>3, FS_Union, Zenon
<1>5. Cardinality(Bytes(a)) \in Nat /\ Cardinality(Bytes(b)) \in Nat
  BY BytesFacts
<1>6. Cardinality(Bytes(a) \cap Bytes(b)) = 0
  BY <1>2, FS_EmptySet
<1>7. Cardinality(Bytes(a) \cup Bytes(b)) = Cardinality(Bytes(a)) + Cardinality(Bytes(b))
  BY <1>4, <1>5, <1>6
<1>. QED BY <1>1, <1>7, Zenon

\* Packets of the frame all have a place, and place copies the right bytes.
LEMMA CoveredIsBytes ==
  ASSUME sent \in SentFrames, NEW f, f.block_size = Length(1), NEW ids \in SUBSET (1..NBlocks)
  PROVE  /\ Placeable(f, ids) = ids
         /\ Covered(f, ids) = Bytes(ids)
         /\ \A k \in ids : End(f, k) = SlotEnd(k) /\ Extent(f, k) = Slot(k)
         /\ \A i \in Bytes(ids) :
              Byte(Owner(f, ids, i), i - Offset(f, Owner(f, ids, i))) = IF i <= sent.len THEN i ELSE 0
<1>1. \A k \in ids : /\ Offset(f, k) < payload_size /\ Offset(f, k) = (k - 1) * sent.block
                     /\ End(f, k) = SlotEnd(k) /\ Extent(f, k) = Slot(k)
  BY PlaceIsSlot
<1>2. Placeable(f, ids) = ids
  BY <1>1 DEF Placeable
<1>3. Covered(f, ids) = Bytes(ids)
  <2>1. {Extent(f, k) : k \in ids} = {Slot(k) : k \in ids}
    BY <1>1, Zenon
  <2>. QED BY <2>1, <1>2 DEF Covered, Bytes
<1>4. ASSUME NEW i \in Bytes(ids)
      PROVE  Byte(Owner(f, ids, i), i - Offset(f, Owner(f, ids, i))) = IF i <= sent.len THEN i ELSE 0
  <2>1. \E k \in ids : i \in Extent(f, k)
    BY <1>1 DEF Bytes
  <2>. DEFINE k == Owner(f, ids, i)
  <2>2. k \in ids
    BY <2>1, <1>2 DEF Owner
  <2>3. Offset(f, k) = (k - 1) * sent.block
    BY <2>2, <1>1
  <2>4. (k - 1) * sent.block \in Nat
    BY <2>2, SlotFacts
  <2>5. i \in Nat
    BY BytesFacts, AssemblyAssumption
  <2>. HIDE DEF k
  <2>6. (k - 1) * sent.block + (i - Offset(f, k)) = i
    BY <2>3, <2>4, <2>5
  <2>7. Byte(k, i - Offset(f, k)) = IF i <= sent.len THEN i ELSE 0
    BY <2>6 DEF Byte
  <2>. QED BY <2>7 DEF k
<1>. QED BY <1>1, <1>2, <1>3, <1>4

-----------------------------------------------------------------------------
\* A set of natural numbers has a least one, and a bounded one a largest.
LEMMA LeastOf ==
  ASSUME NEW S \in SUBSET Nat, S # {}
  PROVE  \E m \in S : \A n \in S : m <= n
<1>. DEFINE R == OpToRel(<, Nat)
<1>1. IsWellFoundedOn(R, Nat)
  BY NatLessThanWellFounded
<1>2. \A x, y \in Nat : <<x, y>> \in R <=> x < y
  BY DEF OpToRel
<1>. HIDE DEF R
<1>3. S \subseteq Nat
  OBVIOUS
<1>4. PICK x \in S : \A y \in S : ~(<<y, x>> \in R)
  BY <1>1, <1>3, WFMin, Zenon
<1>5. \A y \in S : ~(y < x)
  BY <1>2, <1>4
<1>. QED BY <1>5

\* A set of numbers that is bounded and not empty has a largest (Furthest).
LEMMA LargestOf ==
  ASSUME NEW n \in Nat, NEW S \in SUBSET (0..n), S # {}
  PROVE  Furthest(S) \in S /\ \A x \in S : x <= Furthest(S)
<1>. DEFINE T == {d \in Nat : n - d \in S}
<1>1. T # {}
  <2>1. PICK x \in S : TRUE
    OBVIOUS
  <2>2. n - x \in Nat /\ n - (n - x) = x
    OBVIOUS
  <2>. QED BY <2>2
<1>2. PICK d \in T : \A e \in T : d <= e
  <2>1. T \in SUBSET Nat
    OBVIOUS
  <2>. HIDE DEF T
  <2>. QED BY <1>1, <2>1, LeastOf
<1>3. n - d \in S
  OBVIOUS
<1>4. ASSUME NEW x \in S PROVE x <= n - d
  <2>1. n - x \in Nat /\ n - (n - x) = x
    OBVIOUS
  <2>2. n - x \in T
    BY <2>1
  <2>3. d <= n - x
    BY <1>2, <2>2
  <2>. QED BY <2>3
<1>5. \E m \in S : \A x \in S : x <= m
  BY <1>3, <1>4
<1>6. Furthest(S) \in S /\ \A x \in S : x <= Furthest(S)
  BY <1>5 DEF Furthest
<1>. QED BY <1>6

-----------------------------------------------------------------------------
\* The fields of a frame.
FrameType ==
  [n_packets : Nat, received : SUBSET Nat, last_valid_packet : Int,
   block_size : Nat, block_known : BOOLEAN, held : SUBSET Nat, held_bytes : Nat,
   trailer_seen : BOOLEAN, leader : BOOLEAN, error : BOOLEAN,
   received_size : Nat, data_end : Nat, data : [1..payload_size -> Nat]]

\* The buffer has the bytes of these packets and no other; the books agree.
Holds(f, ids) ==
  /\ f.received_size = Cardinality(Bytes(ids))
  /\ f.data_end \in {0} \cup {SlotEnd(k) : k \in ids}
  /\ \A k \in ids : SlotEnd(k) <= f.data_end
  /\ \A i \in 1..payload_size : f.data[i] = IF i \in Bytes(ids) /\ i <= sent.len THEN i ELSE 0

\* The fields that say what is expected and what has come.
SameBooks(g, f) ==
  /\ g.n_packets = f.n_packets /\ g.received = f.received
  /\ g.last_valid_packet = f.last_valid_packet
  /\ g.block_size = f.block_size /\ g.block_known = f.block_known
  /\ g.trailer_seen = f.trailer_seen /\ g.leader = f.leader /\ g.error = f.error

\* Copying packets into the buffer adds their bytes to those it has.
LEMMA WriteFacts ==
  ASSUME sent \in SentFrames, NEW f \in FrameType, f.block_size = Length(1),
         NEW done \in SUBSET (1..NBlocks), NEW ids \in SUBSET (1..NBlocks), done \cap ids = {},
         Holds(f, done)
  PROVE  /\ Write(f, ids) \in FrameType
         /\ SameBooks(Write(f, ids), f)
         /\ Write(f, ids).held = f.held /\ Write(f, ids).held_bytes = f.held_bytes
         /\ Holds(Write(f, ids), done \cup ids)
<1>. DEFINE g == Write(f, ids)
            ends == {f.data_end} \cup {SlotEnd(k) : k \in ids}
            data == [i \in 1..payload_size |->
                       IF i \in Bytes(ids) THEN Byte(Owner(f, ids, i), i - Offset(f, Owner(f, ids, i)))
                       ELSE f.data[i]]
<1>1. {End(f, k) : k \in Placeable(f, ids)} = {SlotEnd(k) : k \in ids} /\ Covered(f, ids) = Bytes(ids)
  <2>1. Placeable(f, ids) = ids /\ \A k \in ids : End(f, k) = SlotEnd(k)
    BY CoveredIsBytes
  <2>2. Covered(f, ids) = Bytes(ids)
    BY CoveredIsBytes
  <2>. QED BY <2>1, <2>2, Zenon
<1>2. g = [f EXCEPT !.data = data, !.received_size = f.received_size + Cardinality(Bytes(ids)),
                    !.data_end = Furthest(ends)]
  BY <1>1 DEF Write, FrameType
<1>3. ends \in SUBSET (0..payload_size) /\ ends # {}
  <2>1. \A k \in done \cup ids : SlotEnd(k) \in 0..payload_size
    BY SlotFacts, AssemblyAssumption
  <2>2. f.data_end \in 0..payload_size
    BY <2>1, AssemblyAssumption DEF Holds
  <2>. QED BY <2>1, <2>2
<1>4. Furthest(ends) \in ends /\ \A x \in ends : x <= Furthest(ends)
  <2>1. payload_size \in Nat
    BY AssemblyAssumption
  <2>. HIDE DEF ends
  <2>. QED BY <1>3, <2>1, LargestOf
<1>5. \A i \in 1..payload_size :
         data[i] = IF i \in Bytes(done \cup ids) /\ i <= sent.len THEN i ELSE 0
  <2>1. TAKE i \in 1..payload_size
  <2>2. i \in Bytes(done \cup ids) <=> i \in Bytes(done) \/ i \in Bytes(ids)
    BY BytesAdd
  <2>3. CASE i \in Bytes(ids)
    <3>1. Byte(Owner(f, ids, i), i - Offset(f, Owner(f, ids, i))) = IF i <= sent.len THEN i ELSE 0
      BY <2>3, CoveredIsBytes
    <3>. QED BY <2>2, <2>3, <3>1
  <2>4. CASE i \notin Bytes(ids)
    BY <2>2, <2>4 DEF Holds
  <2>. QED BY <2>3, <2>4
<1>6. data \in [1..payload_size -> Nat]
  <2>1. \A i \in 1..payload_size : data[i] \in Nat
    BY <1>5, AssemblyAssumption
  <2>. QED BY <2>1
<1>7. Cardinality(Bytes(ids)) \in Nat /\ Cardinality(Bytes(done)) \in Nat
  BY BytesFacts
<1>8. Cardinality(Bytes(done \cup ids)) = Cardinality(Bytes(done)) + Cardinality(Bytes(ids))
  BY BytesAdd
<1>9. Furthest(ends) \in Nat
  BY <1>3, <1>4, AssemblyAssumption
<1>10. Furthest(ends) \in {0} \cup {SlotEnd(k) : k \in done \cup ids}
  BY <1>4 DEF Holds
<1>11. \A k \in done \cup ids : SlotEnd(k) <= Furthest(ends)
  <2>1. \A k \in ids : SlotEnd(k) <= Furthest(ends)
    BY <1>4
  <2>2. f.data_end <= Furthest(ends) /\ f.data_end \in Nat
    BY <1>4 DEF FrameType
  <2>3. ASSUME NEW k \in done PROVE SlotEnd(k) <= Furthest(ends)
    <3>1. SlotEnd(k) <= f.data_end /\ SlotEnd(k) \in 1..payload_size
      BY SlotFacts DEF Holds
    <3>. HIDE DEF ends
    <3>. QED BY <3>1, <2>2, <1>9, AssemblyAssumption
  <2>. QED BY <2>1, <2>3
<1>. HIDE DEF data, ends
<1>12. g \in FrameType
  <2>1. f.received_size + Cardinality(Bytes(ids)) \in Nat
    BY <1>7 DEF FrameType
  <2>. DEFINE size == f.received_size + Cardinality(Bytes(ids))
              end == Furthest(ends)
  <2>2. g = [f EXCEPT !.data = data, !.received_size = size, !.data_end = end]
    BY <1>2
  <2>3. size \in Nat /\ end \in Nat
    BY <2>1, <1>9
  <2>. HIDE DEF g, size, end
  <2>. QED BY <2>2, <2>3, <1>6 DEF FrameType
<1>13. SameBooks(g, f) /\ g.held = f.held /\ g.held_bytes = f.held_bytes
  BY <1>2 DEF FrameType, SameBooks
<1>14. g.data = data /\ g.data_end = Furthest(ends) /\ g.received_size = f.received_size + Cardinality(Bytes(ids))
  BY <1>2 DEF FrameType
<1>. HIDE DEF g
<1>15. Holds(g, done \cup ids)
  <2>1. g.received_size = Cardinality(Bytes(done \cup ids))
    BY <1>8, <1>14 DEF Holds
  <2>. QED BY <2>1, <1>5, <1>10, <1>11, <1>14 DEF Holds
<1>. QED BY <1>12, <1>13, <1>15 DEF g

-----------------------------------------------------------------------------
\* A frame that has got these packets: how many it expects, which handlers
\* have run, and what is placed or held follow from which packets they are.
Sized(f, got) ==
  /\ got \subseteq 0..TrailerId /\ got \subseteq 0 .. f.n_packets - 1
  /\ f.n_packets >= 2
  /\ f.trailer_seen <=> TrailerId \in got
  /\ f.block_known <=> 1 \in got
  /\ f.leader <=> 0 \in got
  /\ f.trailer_seen => f.n_packets = NBlocks + 2
  /\ f.block_known => f.n_packets >= NBlocks + 2
  /\ f.last_valid_packet \in -1 .. f.n_packets - 1
  /\ f.received \subseteq got /\ 0 .. f.last_valid_packet \subseteq f.received
  /\ f.error = FALSE

Waits(f, got) ==
  /\ f.block_size = block_estimate
  /\ f.held = got \cap (1..NBlocks)
  /\ f.held_bytes <= Cardinality(f.held) * sent.block
  /\ Holds(f, {})

Filled(f, got) ==
  /\ f.block_size = Length(1)
  /\ f.held = {}
  /\ Holds(f, got \cap (1..NBlocks))

Good(f, got) ==
  /\ f \in FrameType
  /\ Sized(f, got)
  /\ ~f.block_known => Waits(f, got)
  /\ f.block_known => Filled(f, got)

\* The bounds on a frame's packets leave room for those the device sends.
LEMMA BoundFacts ==
  ASSUME sent \in SentFrames
  PROVE  /\ Length(1) \in Nat \ {0}
         /\ Ceil(payload_size, Length(1)) \in Nat /\ Ceil(payload_size, Length(1)) >= NBlocks
         /\ Fits(Length(1)) \in Nat /\ Fits(Length(1)) >= NBlocks + 2
         /\ packet_limit \in Nat /\ packet_limit >= NBlocks + 2
         /\ Fits(block_estimate) \in Nat /\ Fits(block_estimate) >= 2
<1>1. payload_size \in Nat \ {0} /\ block_estimate \in Nat \ {0}
        /\ MAX_FRAME_PACKETS \in Nat
        /\ \A b \in Blocks : Ceil(payload_size, b) + 2 <= MAX_FRAME_PACKETS
  BY AssemblyAssumption
<1>2. NBlocks \in Nat \ {0} /\ NBlocks <= payload_size /\ sent.block \in Nat \ {0}
        /\ sent.len \in Nat \ {0} /\ sent.len <= payload_size /\ sent.short # 1
  BY <1>1, SentFacts
<1>a. NBlocks <= Ceil(payload_size, sent.block)
  BY <1>1, <1>2, CeilMonotone DEF NBlocks
<1>b. NBlocks + 2 <= MAX_FRAME_PACKETS
  <2>1. Ceil(payload_size, sent.block) + 2 <= MAX_FRAME_PACKETS
    BY <1>1, SentFacts
  <2>2. Ceil(payload_size, sent.block) \in Nat
    BY <1>1, <1>2, CeilFacts
  <2>. QED BY <1>1, <1>2, <1>a, <2>1, <2>2
<1>3. 1 \in 1..NBlocks
  BY <1>2
<1>4. Length(1) \in Nat \ {0} /\ (NBlocks # 1 => Length(1) = sent.block)
  BY <1>2, <1>3, LengthFacts
<1>5. Ceil(payload_size, Length(1)) \in Nat \ {0}
  BY <1>1, <1>4, CeilFacts
<1>6. Ceil(payload_size, Length(1)) >= NBlocks
  <2>1. CASE NBlocks = 1
    BY <2>1, <1>5
  <2>2. CASE NBlocks # 1
    BY <2>2, <1>a, <1>4
  <2>. QED BY <2>1, <2>2
<1>7. Ceil(payload_size, block_estimate) \in Nat \ {0}
  BY <1>1, CeilFacts
<1>8. Fits(Length(1)) \in Nat /\ Fits(Length(1)) >= NBlocks + 2
  BY <1>1, <1>2, <1>b, <1>5, <1>6 DEF Fits, Low
<1>9. packet_limit \in Nat /\ packet_limit >= NBlocks + 2
  BY <1>1, <1>2, <1>b DEF packet_limit, Low
<1>10. Fits(block_estimate) \in Nat /\ Fits(block_estimate) >= 2
  BY <1>1, <1>2, <1>b, <1>7 DEF Fits, Low
<1>. QED BY <1>4, <1>5, <1>6, <1>8, <1>9, <1>10

\* The frame the first packet opens.
LEMMA NewFrameGood ==
  ASSUME sent \in SentFrames, NEW id \in 0..TrailerId
  PROVE  Good(NewFrame(compute_n_expected_packets(id)), {})
<1>. DEFINE n == compute_n_expected_packets(id)
<1>1. n \in Nat /\ n >= 2
  <2>1. TrailerId \in Nat
    BY SentFacts DEF TrailerId
  <2>. QED BY <2>1, BoundFacts DEF compute_n_expected_packets
<1>. HIDE DEF n
<1>2. block_estimate \in Nat
  BY AssemblyAssumption
<1>3. NewFrame(n) \in FrameType
  BY <1>1, <1>2 DEF NewFrame, FrameType
<1>4. Bytes({}) = {} /\ Cardinality({}) = 0
  BY FS_EmptySet DEF Bytes
<1>5. Holds(NewFrame(n), {})
  BY <1>4 DEF Holds, NewFrame
<1>6. Sized(NewFrame(n), {})
  BY <1>1 DEF Sized, NewFrame
<1>7. Waits(NewFrame(n), {}) /\ ~NewFrame(n).block_known
  <2>1. Cardinality({}) * sent.block = 0
    BY <1>4, SentFacts
  <2>. QED BY <2>1, <1>5 DEF Waits, NewFrame
<1>8. Good(NewFrame(n), {})
  BY <1>3, <1>6, <1>7 DEF Good
<1>. QED BY <1>8 DEF n

\* The fields that say what the frame holds.
SameData(g, f) ==
  /\ g.block_size = f.block_size /\ g.held = f.held /\ g.held_bytes = f.held_bytes
  /\ g.received_size = f.received_size /\ g.data_end = f.data_end /\ g.data = f.data

\* set_n_packets loses no packet that is within the new number.
LEMMA SetNPacketsFacts ==
  ASSUME NEW f \in FrameType, NEW n \in Nat \ {0}, f.received \subseteq 0 .. n - 1,
         f.last_valid_packet >= -1, 0 .. f.last_valid_packet \subseteq f.received
  PROVE  LET g == SetNPackets(f, n)
         IN  /\ g \in FrameType /\ SameData(g, f)
             /\ g.n_packets = n /\ g.received = f.received
             /\ g.last_valid_packet \in -1 .. n - 1 /\ 0 .. g.last_valid_packet \subseteq g.received
             /\ g.block_known = f.block_known /\ g.trailer_seen = f.trailer_seen
             /\ g.leader = f.leader /\ g.error = f.error
<1>. DEFINE g == SetNPackets(f, n)
            last == Low(f.last_valid_packet, n - 1)
<1>1. f.received \cap (0 .. n - 1) = f.received
  OBVIOUS
<1>2. f.last_valid_packet \in Int
  BY DEF FrameType
<1>3. last \in -1 .. n - 1 /\ last <= f.last_valid_packet
  BY <1>2 DEF Low
<1>4. 0..last \subseteq f.received
  BY <1>2, <1>3
<1>5. g = [f EXCEPT !.n_packets = n, !.received = f.received, !.last_valid_packet = last]
  BY <1>1 DEF SetNPackets, FrameType
<1>. HIDE DEF last
<1>6. g \in FrameType
  <2>1. last \in Int /\ f.received \in SUBSET Nat
    BY <1>3 DEF FrameType
  <2>. HIDE DEF g
  <2>. QED BY <2>1, <1>5 DEF FrameType
<1>7. g.n_packets = n /\ g.received = f.received /\ g.last_valid_packet = last
  BY <1>5 DEF FrameType
<1>8. /\ SameData(g, f) /\ g.block_known = f.block_known /\ g.trailer_seen = f.trailer_seen
      /\ g.leader = f.leader /\ g.error = f.error
  BY <1>5 DEF FrameType, SameData
<1>. HIDE DEF g
<1>9. g.last_valid_packet \in -1 .. n - 1 /\ 0 .. g.last_valid_packet \subseteq g.received
  BY <1>3, <1>4, <1>7
<1>. QED BY <1>6, <1>7, <1>8, <1>9 DEF g

\* What a frame holds does not depend on its books.
LEMMA SameHolds ==
  ASSUME NEW f, NEW g, SameData(g, f), NEW ids, Holds(f, ids)
  PROVE  Holds(g, ids)
BY DEF SameData, Holds

\* process_packet marks the packet, and advances over those without a gap.
LEMMA MarkedGood ==
  ASSUME sent \in SentFrames, NEW f, NEW id \in Nat, Good(f, f.received \cup {id})
  PROVE  /\ Good(MarkReceived(f, id), f.received \cup {id})
         /\ MarkReceived(f, id).received = f.received \cup {id}
<1>. DEFINE g == MarkReceived(f, id)
            got == f.received \cup {id}
            n == f.n_packets
            from == f.last_valid_packet
            Ends(m) == /\ \A i \in from + 1 .. m : i \in got
                       /\ m + 1 \in got => m + 1 >= n
            last == CHOOSE m \in from .. n - 1 : Ends(m)
<1>1. /\ f \in FrameType /\ Sized(f, got) /\ n \in Nat /\ from \in -1 .. n - 1
      /\ got \subseteq 0 .. n - 1 /\ id < n /\ 0..from \subseteq f.received
  <2>1. f \in FrameType /\ Sized(f, got)
    BY DEF Good
  <2>2. n \in Nat
    BY <2>1 DEF FrameType
  <2>3. from \in -1 .. n - 1 /\ got \subseteq 0 .. n - 1 /\ 0..from \subseteq f.received
    BY <2>1, Zenon DEF Sized
  <2>. QED BY <2>1, <2>2, <2>3
<1>2. \E m \in from .. n - 1 : Ends(m)
  <2>. DEFINE S == {m \in Nat : m > from /\ m \notin got}
  <2>1. S \in SUBSET Nat /\ n \in S
    BY <1>1
  <2>2. PICK m \in S : \A k \in S : m <= k
    <3>. HIDE DEF S
    <3>. QED BY <2>1, LeastOf
  <2>3. m <= n /\ m > from /\ m \in Nat /\ m \notin got
    BY <2>1, <2>2
  <2>4. m - 1 \in from .. n - 1
    BY <2>3, <1>1
  <2>5. \A i \in from + 1 .. m - 1 : i \in got
    <3>1. TAKE i \in from + 1 .. m - 1
    <3>2. i \in Nat /\ i > from /\ i < m
      BY <1>1, <2>3
    <3>3. i \in S => m <= i
      BY <2>2
    <3>. QED BY <3>2, <3>3, <2>3
  <2>6. (m - 1) + 1 \notin got
    BY <2>3
  <2>7. Ends(m - 1)
    BY <2>5, <2>6
  <2>. QED BY <2>4, <2>7
<1>3. last \in from .. n - 1 /\ \A i \in from + 1 .. last : i \in got
  BY <1>2
<1>4. g = [f EXCEPT !.received = got, !.last_valid_packet = last]
  BY <1>1 DEF MarkReceived, FrameType
<1>. HIDE DEF last
<1>5. last \in -1 .. n - 1 /\ 0..last \subseteq got
  BY <1>1, <1>3
<1>6. got \in SUBSET Nat
  BY <1>1
<1>. HIDE DEF got
<1>7. g \in FrameType
  <2>1. last \in Int
    BY <1>5
  <2>. HIDE DEF g
  <2>. QED BY <2>1, <1>1, <1>4, <1>6 DEF FrameType
<1>8. /\ g.received = got /\ g.last_valid_packet = last /\ g.n_packets = n /\ SameData(g, f)
      /\ g.block_known = f.block_known /\ g.trailer_seen = f.trailer_seen
      /\ g.leader = f.leader /\ g.error = f.error
  BY <1>1, <1>4 DEF FrameType, SameData
<1>. HIDE DEF g
<1>9. Sized(g, got)
  BY <1>1, <1>5, <1>8 DEF Sized
<1>10. ~g.block_known => Waits(g, got)
  <2>1. SUFFICES ASSUME ~g.block_known PROVE Waits(g, got)
    OBVIOUS
  <2>2. Waits(f, got)
    BY <1>8, <2>1 DEF Good, got
  <2>3. Holds(g, {})
    BY <1>8, <2>2, SameHolds DEF Waits
  <2>. QED BY <1>8, <2>2, <2>3 DEF Waits, SameData
<1>11. g.block_known => Filled(g, got)
  <2>1. SUFFICES ASSUME g.block_known PROVE Filled(g, got)
    OBVIOUS
  <2>2. Filled(f, got)
    BY <1>8, <2>1 DEF Good, got
  <2>3. Holds(g, got \cap (1..NBlocks))
    BY <1>8, <2>2, SameHolds DEF Filled
  <2>. QED BY <1>8, <2>2, <2>3 DEF Filled, SameData
<1>12. Good(g, got)
  BY <1>7, <1>9, <1>10, <1>11 DEF Good
<1>. QED BY <1>8, <1>12 DEF g, got

-----------------------------------------------------------------------------
\* What Good says of a frame and the packets it has received.
LEMMA GoodFacts ==
  ASSUME sent \in SentFrames, NEW f, Good(f, f.received)
  PROVE  /\ f \in FrameType /\ f.error = FALSE
         /\ f.n_packets \in Nat /\ f.n_packets >= 2
         /\ f.received \subseteq 0..TrailerId /\ f.received \subseteq 0 .. f.n_packets - 1
         /\ f.trailer_seen <=> TrailerId \in f.received
         /\ f.block_known <=> 1 \in f.received
         /\ f.leader <=> 0 \in f.received
         /\ f.trailer_seen => f.n_packets = NBlocks + 2
         /\ f.block_known => f.n_packets >= NBlocks + 2
         /\ f.last_valid_packet \in -1 .. f.n_packets - 1
         /\ 0 .. f.last_valid_packet \subseteq f.received
         /\ TrailerId = NBlocks + 1 /\ NBlocks \in Nat \ {0}
         /\ f.trailer_seen \in BOOLEAN /\ f.block_known \in BOOLEAN /\ f.leader \in BOOLEAN
<1>1. f \in FrameType /\ Sized(f, f.received)
  BY DEF Good
<1>2. /\ f.n_packets \in Nat /\ f.trailer_seen \in BOOLEAN /\ f.block_known \in BOOLEAN
      /\ f.leader \in BOOLEAN
  BY <1>1 DEF FrameType
<1>3. TrailerId = NBlocks + 1 /\ NBlocks \in Nat \ {0}
  BY SentFacts DEF TrailerId
<1>. QED BY <1>1, <1>2, <1>3, Zenon DEF Sized

\* A frame that keeps what it holds and gets a packet that is no payload.
LEMMA SameDataGood ==
  ASSUME sent \in SentFrames, NEW f, Good(f, f.received), NEW g \in FrameType, SameData(g, f),
         g.block_known = f.block_known, NEW id \in {0, TrailerId}, Sized(g, f.received \cup {id})
  PROVE  Good(g, f.received \cup {id})
<1>. DEFINE got == f.received \cup {id}
<1>1. got \cap (1..NBlocks) = f.received \cap (1..NBlocks)
  BY SentFacts DEF TrailerId
<1>2. ~f.block_known => Waits(g, got)
  <2>1. SUFFICES ASSUME Waits(f, f.received) PROVE Waits(g, got)
    BY DEF Good
  <2>2. Holds(g, {})
    BY <2>1, SameHolds DEF Waits
  <2>. QED BY <2>1, <2>2, <1>1 DEF Waits, SameData
<1>3. f.block_known => Filled(g, got)
  <2>1. SUFFICES ASSUME Filled(f, f.received) PROVE Filled(g, got)
    BY DEF Good
  <2>2. Holds(g, got \cap (1..NBlocks))
    BY <2>1, <1>1, SameHolds DEF Filled
  <2>. QED BY <2>1, <2>2, <1>1 DEF Filled, SameData
<1>. QED BY <1>2, <1>3 DEF Good

\* process_leader
LEMMA LeaderGood ==
  ASSUME sent \in SentFrames, NEW f, Good(f, f.received)
  PROVE  /\ Good(ProcessLeader(f), f.received \cup {0})
         /\ ProcessLeader(f).received = f.received
<1>. DEFINE g == ProcessLeader(f)
<1>1. /\ f \in FrameType /\ f.error = FALSE /\ TrailerId = NBlocks + 1 /\ NBlocks \in Nat \ {0}
      /\ f.received \subseteq 0..TrailerId /\ f.received \subseteq 0 .. f.n_packets - 1
      /\ f.n_packets \in Nat /\ f.n_packets >= 2
      /\ f.last_valid_packet \in -1 .. f.n_packets - 1
      /\ 0 .. f.last_valid_packet \subseteq f.received
  BY GoodFacts
<1>2. g = [f EXCEPT !.leader = TRUE]
  BY <1>1 DEF ProcessLeader
<1>3. g \in FrameType
  <2>. HIDE DEF g
  <2>. QED BY <1>1, <1>2 DEF FrameType
<1>4. /\ SameData(g, f) /\ g.leader = TRUE /\ g.n_packets = f.n_packets /\ g.received = f.received
      /\ g.block_known = f.block_known /\ g.trailer_seen = f.trailer_seen
      /\ g.last_valid_packet = f.last_valid_packet /\ g.error = f.error
  BY <1>1, <1>2 DEF FrameType, SameData
<1>. HIDE DEF g
<1>5. Sized(g, f.received \cup {0})
  <2>. DEFINE got == f.received \cup {0}
  <2>1. /\ got \subseteq 0..TrailerId /\ got \subseteq 0 .. g.n_packets - 1 /\ g.n_packets >= 2
        /\ g.last_valid_packet \in -1 .. g.n_packets - 1
        /\ g.received \subseteq got /\ 0 .. g.last_valid_packet \subseteq g.received
    BY <1>1, <1>4
  <2>2. 0 \in got /\ (TrailerId \in got <=> TrailerId \in f.received) /\ (1 \in got <=> 1 \in f.received)
    BY <1>1
  <2>. HIDE DEF got
  <2>3. Sized(g, got)
    BY <1>4, <2>1, <2>2, GoodFacts, Zenon DEF Sized
  <2>. QED BY <2>3 DEF got
<1>6. Good(g, f.received \cup {0})
  BY <1>3, <1>4, <1>5, SameDataGood
<1>. QED BY <1>4, <1>6 DEF g

\* process_trailer: the device's trailer is within every bound, and no packet
\* contradicts it.
LEMMA TrailerGood ==
  ASSUME sent \in SentFrames, NEW f, Good(f, f.received), TrailerId \notin f.received
  PROVE  /\ Good(ProcessTrailer(f, TrailerId), f.received \cup {TrailerId})
         /\ ProcessTrailer(f, TrailerId).received = f.received
<1>. DEFINE g == ProcessTrailer(f, TrailerId)
            h == [f EXCEPT !.trailer_seen = TRUE]
<1>1. /\ f \in FrameType /\ f.error = FALSE /\ TrailerId = NBlocks + 1 /\ NBlocks \in Nat \ {0}
      /\ f.received \subseteq 0..TrailerId /\ f.n_packets \in Nat
      /\ f.last_valid_packet \in -1 .. f.n_packets - 1
      /\ 0 .. f.last_valid_packet \subseteq f.received
  BY GoodFacts
<1>2. TrailerId < IF f.block_known THEN Fits(f.block_size) ELSE packet_limit
  <2>1. f.block_known => f.block_size = Length(1)
    BY DEF Good, Filled
  <2>. QED BY <2>1, <1>1, BoundFacts
<1>3. ~\E p \in f.received : p >= TrailerId
  BY <1>1
<1>4. g = IF f.n_packets # TrailerId + 1 THEN SetNPackets(h, TrailerId + 1) ELSE h
  <2>. DEFINE bound == IF f.block_known THEN Fits(f.block_size) ELSE packet_limit
  <2>1. bound \in Nat /\ ~(TrailerId < 1)
    <3>1. f.block_known => f.block_size = Length(1)
      BY DEF Good, Filled
    <3>. QED BY <3>1, <1>1, BoundFacts
  <2>2. ~(TrailerId >= bound)
    BY <1>1, <1>2, <2>1
  <2>. QED BY <1>1, <1>3, <2>1, <2>2, Zenon DEF ProcessTrailer
<1>5. h \in FrameType
  BY <1>1 DEF FrameType
<1>6. /\ SameData(h, f) /\ h.trailer_seen = TRUE /\ h.n_packets = f.n_packets /\ h.received = f.received
      /\ h.block_known = f.block_known /\ h.leader = f.leader
      /\ h.last_valid_packet = f.last_valid_packet /\ h.error = f.error
  BY <1>1 DEF FrameType, SameData
<1>. HIDE DEF h
<1>7. /\ g \in FrameType /\ SameData(g, f) /\ g.trailer_seen = TRUE /\ g.n_packets = TrailerId + 1
      /\ g.received = f.received /\ g.block_known = f.block_known /\ g.leader = f.leader
      /\ g.error = f.error
      /\ g.last_valid_packet \in -1 .. TrailerId /\ 0 .. g.last_valid_packet \subseteq g.received
  <2>1. CASE f.n_packets # TrailerId + 1
    <3>1. TrailerId + 1 \in Nat \ {0} /\ h.received \subseteq 0 .. (TrailerId + 1) - 1
            /\ h.last_valid_packet >= -1 /\ 0 .. h.last_valid_packet \subseteq h.received
      BY <1>1, <1>6
    <3>. DEFINE n == TrailerId + 1
    <3>2. /\ g = SetNPackets(h, n) /\ n - 1 = TrailerId /\ n \in Nat \ {0} /\ n = TrailerId + 1
          /\ h.received \subseteq 0 .. n - 1
      BY <1>1, <1>4, <2>1, <3>1
    <3>. HIDE DEF n, g
    <3>3. /\ g \in FrameType /\ SameData(g, h)
          /\ g.n_packets = n /\ g.received = h.received
          /\ g.last_valid_packet \in -1 .. n - 1 /\ 0 .. g.last_valid_packet \subseteq g.received
          /\ g.block_known = h.block_known /\ g.trailer_seen = h.trailer_seen
          /\ g.leader = h.leader /\ g.error = h.error
      BY <1>5, <3>1, <3>2, SetNPacketsFacts
    <3>. QED BY <3>2, <3>3, <1>6 DEF SameData
  <2>2. CASE f.n_packets = TrailerId + 1
    <3>1. g = h
      BY <1>4, <2>2
    <3>. HIDE DEF g
    <3>. QED BY <2>2, <3>1, <1>1, <1>5, <1>6
  <2>. QED BY <2>1, <2>2
<1>. HIDE DEF g
<1>8. Sized(g, f.received \cup {TrailerId})
  <2>. DEFINE got == f.received \cup {TrailerId}
  <2>1. /\ got \subseteq 0..TrailerId /\ got \subseteq 0 .. g.n_packets - 1 /\ g.n_packets >= 2
        /\ g.last_valid_packet \in -1 .. g.n_packets - 1
        /\ g.received \subseteq got /\ 0 .. g.last_valid_packet \subseteq g.received
        /\ g.n_packets = NBlocks + 2 /\ g.n_packets >= NBlocks + 2
    BY <1>1, <1>7
  <2>2. TrailerId \in got /\ (0 \in got <=> 0 \in f.received) /\ (1 \in got <=> 1 \in f.received)
    BY <1>1
  <2>. HIDE DEF got
  <2>3. Sized(g, got)
    BY <1>7, <2>1, <2>2, GoodFacts, Zenon DEF Sized
  <2>. QED BY <2>3 DEF got
<1>9. Good(g, f.received \cup {TrailerId})
  BY <1>7, <1>8, SameDataGood
<1>. QED BY <1>7, <1>9 DEF g

-----------------------------------------------------------------------------
\* Once the block size is known, a packet and those that were held are placed.
LEMMA PlacedHolds ==
  ASSUME sent \in SentFrames, NEW f \in FrameType, f.error = FALSE, f.block_size = Length(1),
         NEW done \in SUBSET (1..NBlocks), NEW k \in 1..NBlocks, NEW ids \in SUBSET (1..NBlocks),
         k \notin done, k \notin ids, done \cap ids = {}, Holds(f, done),
         f.n_packets >= NBlocks + 2
  PROVE  LET g == PlaceHeld(Place(f, k), ids)
         IN  /\ g \in FrameType /\ SameBooks(g, f)
             /\ g.held = {}
             /\ Holds(g, done \cup {k} \cup ids)
<1>. DEFINE p == Place(f, k)
            q == Write(p, ids)
            g == PlaceHeld(p, ids)
<1>1. p = Write(f, {k})
  <2>1. Length(k) <= f.block_size
    BY PlaceIsSlot
  <2>2. Length(k) \in Nat /\ f.block_size \in Nat
    BY LengthFacts, SentFacts DEF FrameType
  <2>. QED BY <2>1, <2>2 DEF Place
<1>2. /\ p \in FrameType /\ SameBooks(p, f) /\ Holds(p, done \cup {k})
  <2>1. {k} \in SUBSET (1..NBlocks) /\ done \cap {k} = {}
    OBVIOUS
  <2>. QED BY <1>1, <2>1, WriteFacts
<1>. HIDE DEF p
<1>3. p.error = FALSE /\ p.block_size = Length(1) /\ p.n_packets = f.n_packets
  BY <1>2 DEF SameBooks
<1>4. \A j \in ids : j <= p.n_packets - 2 /\ Length(j) <= p.block_size
  <2>1. TAKE j \in ids
  <2>2. j \in 1..NBlocks
    OBVIOUS
  <2>3. Length(j) <= p.block_size
    BY <1>3, <2>2, PlaceIsSlot
  <2>4. p.n_packets \in Nat /\ NBlocks \in Nat
    BY <1>2, SentFacts DEF FrameType
  <2>. QED BY <1>3, <2>2, <2>3, <2>4
<1>5. g = [q EXCEPT !.held = {}, !.held_bytes = 0]
  <2>1. {j \in ids : j <= p.n_packets - 2 /\ Length(j) <= p.block_size} = ids
    BY <1>4
  <2>. QED BY <1>3, <2>1 DEF PlaceHeld
<1>6. q \in FrameType /\ SameBooks(q, p) /\ Holds(q, done \cup {k} \cup ids)
  <2>1. done \cup {k} \in SUBSET (1..NBlocks) /\ (done \cup {k}) \cap ids = {}
    OBVIOUS
  <2>. QED BY <1>2, <1>3, <2>1, WriteFacts
<1>. HIDE DEF q, g
<1>7. g \in FrameType
  BY <1>5, <1>6 DEF FrameType
<1>8. /\ SameBooks(g, q) /\ g.held = {} /\ g.received_size = q.received_size
      /\ g.data_end = q.data_end /\ g.data = q.data
  BY <1>5, <1>6 DEF FrameType, SameBooks
<1>9. SameBooks(g, f)
  BY <1>2, <1>6, <1>8 DEF SameBooks
<1>10. Holds(g, done \cup {k} \cup ids)
  BY <1>6, <1>8 DEF Holds
<1>. QED BY <1>7, <1>8, <1>9, <1>10 DEF g, p

\* process_payload, when the block size is known.
LEMMA PlaceGood ==
  ASSUME sent \in SentFrames, NEW f, Good(f, f.received), f.block_known,
         NEW k \in 1..NBlocks, k \notin f.received
  PROVE  /\ Good(ProcessPayload(f, k), f.received \cup {k})
         /\ ProcessPayload(f, k).received = f.received
<1>. DEFINE g == ProcessPayload(f, k)
            got == f.received \cup {k}
            done == f.received \cap (1..NBlocks)
<1>1. /\ f \in FrameType /\ f.error = FALSE /\ TrailerId = NBlocks + 1 /\ NBlocks \in Nat \ {0}
      /\ f.received \subseteq 0..TrailerId /\ f.received \subseteq 0 .. f.n_packets - 1
      /\ f.n_packets \in Nat /\ f.n_packets >= NBlocks + 2
      /\ f.last_valid_packet \in -1 .. f.n_packets - 1
      /\ 0 .. f.last_valid_packet \subseteq f.received
  BY GoodFacts
<1>2. f.block_size = Length(1) /\ f.held = {} /\ Holds(f, done)
  BY DEF Good, Filled
<1>3. g = PlaceHeld(Place(f, k), {})
  <2>1. ~(k < 1 \/ k > f.n_packets - 2)
    BY <1>1
  <2>. QED BY <1>1, <1>2, <2>1, Zenon DEF ProcessPayload, PlacePayload
<1>4. g \in FrameType /\ SameBooks(g, f) /\ g.held = {} /\ Holds(g, done \cup {k} \cup {})
  <2>1. done \in SUBSET (1..NBlocks) /\ k \notin done /\ {} \in SUBSET (1..NBlocks) /\ done \cap {} = {}
    OBVIOUS
  <2>. HIDE DEF done, g
  <2>. QED BY <1>1, <1>2, <1>3, <2>1, PlacedHolds
<1>5. done \cup {k} \cup {} = got \cap (1..NBlocks)
  OBVIOUS
<1>. HIDE DEF g
<1>6. Filled(g, got) /\ g.block_known /\ g.received = f.received
  BY <1>2, <1>4, <1>5 DEF Filled, SameBooks
<1>7. Sized(g, got)
  <2>1. /\ got \subseteq 0..TrailerId /\ got \subseteq 0 .. g.n_packets - 1 /\ g.n_packets >= 2
        /\ g.last_valid_packet \in -1 .. g.n_packets - 1
        /\ g.received \subseteq got /\ 0 .. g.last_valid_packet \subseteq g.received
    BY <1>1, <1>4 DEF SameBooks
  <2>2. (TrailerId \in got <=> TrailerId \in f.received) /\ (0 \in got <=> 0 \in f.received) /\ 1 \in got
    <3>1. 1 \in f.received
      BY GoodFacts
    <3>. QED BY <1>1, <3>1
  <2>. HIDE DEF got
  <2>. QED BY <1>4, <2>1, <2>2, GoodFacts, Zenon DEF Sized, SameBooks
<1>8. Good(g, got)
  BY <1>4, <1>6, <1>7 DEF Good
<1>. QED BY <1>6, <1>8 DEF g

\* Payload packet 1 fixes the block size, and leaves room for every packet.
LEMMA LearnFacts ==
  ASSUME sent \in SentFrames, NEW f, Good(f, f.received), ~f.block_known
  PROVE  LET g == LearnBlock(f)
         IN  /\ g \in FrameType
             /\ g.block_known = TRUE /\ g.block_size = Length(1)
             /\ g.n_packets >= NBlocks + 2 /\ (f.trailer_seen => g.n_packets = NBlocks + 2)
             /\ g.received = f.received /\ g.held = f.held
             /\ g.last_valid_packet \in -1 .. g.n_packets - 1
             /\ 0 .. g.last_valid_packet \subseteq f.received
             /\ g.trailer_seen = f.trailer_seen /\ g.leader = f.leader /\ g.error = FALSE
             /\ Holds(g, {})
<1>. DEFINE g == LearnBlock(f)
            h == [f EXCEPT !.block_known = TRUE, !.block_size = Length(1)]
            n == Fits(Length(1))
<1>1. /\ f \in FrameType /\ f.error = FALSE /\ TrailerId = NBlocks + 1 /\ NBlocks \in Nat \ {0}
      /\ f.received \subseteq 0..TrailerId /\ f.n_packets \in Nat
      /\ f.last_valid_packet \in -1 .. f.n_packets - 1
      /\ 0 .. f.last_valid_packet \subseteq f.received
      /\ (f.trailer_seen => f.n_packets = NBlocks + 2)
  BY GoodFacts
<1>2. /\ Length(1) \in Nat \ {0} /\ n \in Nat \ {0} /\ n >= NBlocks + 2
      /\ Ceil(payload_size, Length(1)) \in Nat /\ Ceil(payload_size, Length(1)) >= NBlocks
  BY <1>1, BoundFacts
<1>3. h \in FrameType
  BY <1>1, <1>2 DEF FrameType
<1>4. /\ h.block_known = TRUE /\ h.block_size = Length(1) /\ h.n_packets = f.n_packets
      /\ h.received = f.received /\ h.held = f.held /\ h.held_bytes = f.held_bytes
      /\ h.last_valid_packet = f.last_valid_packet
      /\ h.trailer_seen = f.trailer_seen /\ h.leader = f.leader /\ h.error = f.error
      /\ h.received_size = f.received_size /\ h.data_end = f.data_end /\ h.data = f.data
  BY <1>1 DEF FrameType
<1>5. g = IF ~f.trailer_seen THEN SetNPackets(h, n)
          ELSE IF f.n_packets > Ceil(payload_size, Length(1)) + 2 THEN Err(h) ELSE h
  <2>1. h = [f EXCEPT !.block_known = TRUE, !.block_size = IF Length(1) = 0 THEN @ ELSE Length(1)]
    BY <1>2
  <2>. HIDE DEF h
  <2>. QED BY <1>4, <2>1 DEF LearnBlock
<1>6. Holds(h, {})
  <2>1. Holds(f, {})
    BY DEF Good, Waits
  <2>. HIDE DEF h
  <2>. QED BY <2>1, <1>4 DEF Holds
<1>. HIDE DEF h, g, n
<1>7. CASE ~f.trailer_seen
  <2>1. h.received \subseteq 0 .. n - 1 /\ h.last_valid_packet >= -1 /\ 0 .. h.last_valid_packet \subseteq h.received
    BY <1>1, <1>2, <1>4
  <2>2. /\ g \in FrameType /\ SameData(g, h)
        /\ g.n_packets = n /\ g.received = h.received
        /\ g.last_valid_packet \in -1 .. n - 1 /\ 0 .. g.last_valid_packet \subseteq g.received
        /\ g.block_known = h.block_known /\ g.trailer_seen = h.trailer_seen
        /\ g.leader = h.leader /\ g.error = h.error
    BY <1>2, <1>3, <1>5, <1>7, <2>1, SetNPacketsFacts
  <2>3. Holds(g, {})
    BY <1>6, <2>2, SameHolds
  <2>. QED BY <1>1, <1>2, <1>4, <1>7, <2>2, <2>3 DEF SameData, g
<1>8. CASE f.trailer_seen
  <2>1. g = h
    BY <1>1, <1>2, <1>5, <1>8
  <2>. QED BY <2>1, <1>1, <1>3, <1>4, <1>6, <1>8 DEF g
<1>. QED BY <1>7, <1>8

\* process_payload, for packet 1: it is placed with all that was held.
LEMMA LearnGood ==
  ASSUME sent \in SentFrames, NEW f, Good(f, f.received), 1 \notin f.received
  PROVE  /\ Good(ProcessPayload(f, 1), f.received \cup {1})
         /\ ProcessPayload(f, 1).received = f.received
<1>. DEFINE g == ProcessPayload(f, 1)
            l == LearnBlock(f)
            got == f.received \cup {1}
            ids == f.received \cap (1..NBlocks)
<1>1. /\ f \in FrameType /\ f.error = FALSE /\ TrailerId = NBlocks + 1 /\ NBlocks \in Nat \ {0}
      /\ f.received \subseteq 0..TrailerId /\ ~f.block_known
  BY GoodFacts
<1>2. f.held = ids
  BY <1>1 DEF Good, Waits
<1>3. /\ l \in FrameType
      /\ l.block_known = TRUE /\ l.block_size = Length(1)
      /\ l.n_packets >= NBlocks + 2 /\ (f.trailer_seen => l.n_packets = NBlocks + 2)
      /\ l.received = f.received /\ l.held = f.held
      /\ l.last_valid_packet \in -1 .. l.n_packets - 1
      /\ 0 .. l.last_valid_packet \subseteq f.received
      /\ l.trailer_seen = f.trailer_seen /\ l.leader = f.leader /\ l.error = FALSE
      /\ Holds(l, {})
  BY <1>1, LearnFacts
<1>4. l.n_packets \in Nat
  BY <1>3 DEF FrameType
<1>5. g = PlacePayload(l, 1)
  BY <1>1 DEF ProcessPayload
<1>. HIDE DEF l
<1>6. PlacePayload(l, 1) = PlaceHeld(Place(l, 1), ids)
  <2>1. ~(1 < 1 \/ 1 > l.n_packets - 2)
    BY <1>1, <1>3, <1>4
  <2>. HIDE DEF ids
  <2>. QED BY <1>2, <1>3, <2>1, Zenon DEF PlacePayload
<1>7. g \in FrameType /\ SameBooks(g, l) /\ g.held = {} /\ Holds(g, {} \cup {1} \cup ids)
  <2>1. /\ {} \in SUBSET (1..NBlocks) /\ ids \in SUBSET (1..NBlocks) /\ {} \cap ids = {}
        /\ 1 \in 1..NBlocks /\ 1 \notin {} /\ 1 \notin ids
    BY <1>1
  <2>2. g = PlaceHeld(Place(l, 1), ids)
    BY <1>5, <1>6
  <2>. HIDE DEF ids, g
  <2>. QED BY <1>3, <2>1, <2>2, PlacedHolds
<1>8. {} \cup {1} \cup ids = got \cap (1..NBlocks)
  BY <1>1
<1>. HIDE DEF g
<1>9. Filled(g, got) /\ g.block_known /\ g.received = f.received
  BY <1>3, <1>7, <1>8 DEF Filled, SameBooks
<1>10. Sized(g, got)
  <2>1. /\ got \subseteq 0..TrailerId /\ got \subseteq 0 .. g.n_packets - 1 /\ g.n_packets >= 2
        /\ g.last_valid_packet \in -1 .. g.n_packets - 1
        /\ g.received \subseteq got /\ 0 .. g.last_valid_packet \subseteq g.received
    BY <1>1, <1>3, <1>4, <1>7 DEF SameBooks
  <2>2. (TrailerId \in got <=> TrailerId \in f.received) /\ (0 \in got <=> 0 \in f.received) /\ 1 \in got
    BY <1>1
  <2>. HIDE DEF got
  <2>. QED BY <1>3, <1>7, <2>1, <2>2, GoodFacts, Zenon DEF Sized, SameBooks
<1>11. Good(g, got)
  BY <1>7, <1>9, <1>10 DEF Good
<1>. QED BY <1>9, <1>11 DEF g

\* The packets held have room: packet 1 is not among them.
LEMMA HeldFits ==
  ASSUME sent \in SentFrames, NEW f, Good(f, f.received), ~f.block_known,
         NEW k \in 1..NBlocks, k \notin f.received, k # 1
  PROVE  /\ f.held_bytes \in Nat
         /\ f.held_bytes + Length(k) <= Cardinality(f.held \cup {k}) * sent.block
         /\ f.held_bytes + Length(k) <= payload_size
<1>. DEFINE c == Cardinality(f.held)
            d == Cardinality(f.held \cup {k})
<1>1. f \in FrameType /\ 1 \notin f.received /\ NBlocks \in Nat \ {0}
  BY GoodFacts
<1>2. f.held = f.received \cap (1..NBlocks) /\ f.held_bytes <= c * sent.block
  BY DEF Good, Waits
<1>3. f.held_bytes \in Nat /\ Length(k) \in Nat /\ Length(k) <= sent.block /\ sent.block \in Nat
  <2>1. Length(k) \in 1..sent.block /\ sent.block \in Nat
    BY LengthFacts, SentFacts
  <2>2. f.held_bytes \in Nat
    BY <1>1 DEF FrameType
  <2>. QED BY <2>1, <2>2
<1>4. f.held \cup {k} \in SUBSET (2..NBlocks) /\ k \notin f.held
  BY <1>1, <1>2
<1>5. IsFiniteSet(2..NBlocks) /\ Cardinality(2..NBlocks) = NBlocks - 1
  BY <1>1, FS_Interval
<1>6. IsFiniteSet(f.held \cup {k}) /\ d <= NBlocks - 1
  BY <1>4, <1>5, FS_Subset
<1>7. IsFiniteSet(f.held)
  <2>1. f.held \in SUBSET (f.held \cup {k})
    OBVIOUS
  <2>. QED BY <1>6, <2>1, FS_Subset, Zenon
<1>8. c \in Nat /\ d = c + 1
  <2>1. c \in Nat
    BY <1>7, FS_CardinalityType
  <2>2. d = c + 1
    BY <1>4, <1>7, FS_AddElement
  <2>. QED BY <2>1, <2>2
<1>. HIDE DEF c, d
<1>9. d * sent.block = c * sent.block + sent.block /\ c * sent.block \in Nat
  <2>1. \A x, y \in Nat : (x + 1) * y = x * y + y /\ x * y \in Nat
    OBVIOUS
  <2>. QED BY <1>3, <1>8, <2>1, Zenon
<1>10. f.held_bytes + Length(k) <= d * sent.block
  BY <1>2, <1>3, <1>9
<1>11. d * sent.block <= (NBlocks - 1) * sent.block
  <2>1. d \in Int /\ NBlocks - 1 \in Int
    BY <1>1, <1>8
  <2>. QED BY <1>3, <1>6, <2>1, TimesMonotone, Zenon
<1>. DEFINE x == (NBlocks - 1) * sent.block
            y == d * sent.block
<1>12. x < sent.len /\ sent.len \in 1..payload_size /\ x \in Int /\ y \in Int
  BY <1>1, <1>3, <1>8, SentFacts
<1>13. f.held_bytes + Length(k) <= y /\ y <= x
  BY <1>10, <1>11
<1>. HIDE DEF x, y
<1>14. f.held_bytes + Length(k) <= payload_size
  BY <1>3, <1>12, <1>13, AssemblyAssumption
<1>. QED BY <1>3, <1>10, <1>14 DEF d

\* process_payload, before packet 1 has come: the packet is held.
LEMMA HoldGood ==
  ASSUME sent \in SentFrames, NEW f, Good(f, f.received), ~f.block_known,
         NEW k \in 1..NBlocks, k \notin f.received, k # 1
  PROVE  /\ Good(ProcessPayload(f, k), f.received \cup {k})
         /\ ProcessPayload(f, k).received = f.received
<1>. DEFINE g == ProcessPayload(f, k)
            got == f.received \cup {k}
            bytes == f.held_bytes + Length(k)
            a == [f EXCEPT !.held_bytes = bytes]
            b == IF k + 2 > a.n_packets THEN SetNPackets(a, k + 2) ELSE a
<1>1. /\ f \in FrameType /\ f.error = FALSE /\ TrailerId = NBlocks + 1 /\ NBlocks \in Nat \ {0}
      /\ f.received \subseteq 0..TrailerId /\ f.received \subseteq 0 .. f.n_packets - 1
      /\ f.n_packets \in Nat /\ f.n_packets >= 2
      /\ f.last_valid_packet \in -1 .. f.n_packets - 1
      /\ 0 .. f.last_valid_packet \subseteq f.received
      /\ (f.trailer_seen => f.n_packets = NBlocks + 2)
  BY GoodFacts
<1>2. bytes \in Nat /\ bytes <= Cardinality(f.held \cup {k}) * sent.block /\ bytes <= payload_size
  <2>1. Length(k) \in 1..sent.block /\ sent.block \in Nat
    BY LengthFacts, SentFacts
  <2>2. f.held_bytes \in Nat /\ bytes <= Cardinality(f.held \cup {k}) * sent.block /\ bytes <= payload_size
    BY HeldFits
  <2>. QED BY <2>1, <2>2
<1>3. Waits(f, f.received)
  BY DEF Good
<1>. HIDE DEF bytes
<1>4. a \in FrameType
  BY <1>1, <1>2 DEF FrameType
<1>5. /\ SameBooks(a, f) /\ a.held = f.held /\ a.held_bytes = bytes
      /\ a.received_size = f.received_size /\ a.data_end = f.data_end /\ a.data = f.data
  BY <1>1 DEF FrameType, SameBooks
<1>6. g = [b EXCEPT !.held = @ \cup {k}]
  <2>1. ~(k < 1 \/ k > IF f.block_known \/ f.trailer_seen THEN f.n_packets - 2 ELSE packet_limit - 2)
    BY <1>1, BoundFacts
  <2>2. ~(bytes > payload_size + MaxHeldBytes)
    BY <1>2, AssemblyAssumption
  <2>3. g = Hold(f, k)
    BY <1>1, <2>1, Zenon DEF ProcessPayload, PlacePayload
  <2>. HIDE DEF g
  <2>. QED BY <2>2, <2>3 DEF Hold, bytes
<1>. HIDE DEF a
<1>7. /\ b \in FrameType /\ SameData(b, a) /\ b.received = f.received
      /\ b.n_packets >= f.n_packets /\ b.n_packets >= k + 2
      /\ (f.trailer_seen => b.n_packets = f.n_packets)
      /\ b.last_valid_packet \in -1 .. b.n_packets - 1
      /\ 0 .. b.last_valid_packet \subseteq b.received
      /\ b.block_known = f.block_known /\ b.trailer_seen = f.trailer_seen
      /\ b.leader = f.leader /\ b.error = f.error
  <2>1. CASE k + 2 > a.n_packets
    <3>. DEFINE n == k + 2
    <3>1. /\ n \in Nat \ {0} /\ n - 1 = k + 1 /\ n > f.n_packets /\ ~f.trailer_seen
          /\ a.received \subseteq 0 .. n - 1
          /\ a.last_valid_packet >= -1 /\ 0 .. a.last_valid_packet \subseteq a.received
      BY <1>1, <1>5, <2>1 DEF SameBooks
    <3>2. b = SetNPackets(a, n)
      BY <2>1
    <3>. HIDE DEF b, n
    <3>3. /\ b \in FrameType /\ SameData(b, a)
          /\ b.n_packets = n /\ b.received = a.received
          /\ b.last_valid_packet \in -1 .. n - 1 /\ 0 .. b.last_valid_packet \subseteq b.received
          /\ b.block_known = a.block_known /\ b.trailer_seen = a.trailer_seen
          /\ b.leader = a.leader /\ b.error = a.error
      BY <1>4, <3>1, <3>2, SetNPacketsFacts
    <3>4. b.n_packets >= f.n_packets /\ b.n_packets >= k + 2
      BY <1>1, <3>1, <3>3 DEF n
    <3>. QED BY <1>5, <3>1, <3>3, <3>4 DEF SameBooks
  <2>2. CASE ~(k + 2 > a.n_packets)
    <3>1. b = a
      BY <2>2
    <3>. HIDE DEF b
    <3>. QED BY <1>1, <1>4, <1>5, <2>2, <3>1 DEF SameBooks, SameData
  <2>. QED BY <2>1, <2>2
<1>. HIDE DEF b, g
<1>8. b.n_packets \in Nat
  BY <1>7 DEF FrameType
<1>9. g \in FrameType
  BY <1>6, <1>7 DEF FrameType
<1>10. /\ SameBooks(g, b) /\ g.held = b.held \cup {k} /\ g.held_bytes = b.held_bytes
       /\ g.received_size = b.received_size /\ g.data_end = b.data_end /\ g.data = b.data
  BY <1>6, <1>7 DEF FrameType, SameBooks
<1>11. Waits(g, got)
  <2>1. g.block_size = block_estimate
    BY <1>3, <1>5, <1>7, <1>10 DEF Waits, SameBooks, SameData
  <2>2. g.held = f.held \cup {k} /\ f.held = f.received \cap (1..NBlocks)
    BY <1>3, <1>5, <1>7, <1>10 DEF Waits, SameData
  <2>3. g.held = got \cap (1..NBlocks)
    BY <2>2
  <2>4. g.held_bytes = bytes
    BY <1>5, <1>7, <1>10 DEF SameData
  <2>5. Holds(g, {})
    BY <1>3, <1>5, <1>7, <1>10 DEF Waits, SameData, Holds
  <2>. QED BY <1>2, <2>1, <2>2, <2>3, <2>4, <2>5 DEF Waits
<1>12. Sized(g, got)
  <2>1. /\ got \subseteq 0..TrailerId /\ got \subseteq 0 .. g.n_packets - 1 /\ g.n_packets >= 2
        /\ g.last_valid_packet \in -1 .. g.n_packets - 1
        /\ g.received \subseteq got /\ 0 .. g.last_valid_packet \subseteq g.received
    BY <1>1, <1>7, <1>8, <1>10 DEF SameBooks
  <2>2. /\ TrailerId \in got <=> TrailerId \in f.received
        /\ 0 \in got <=> 0 \in f.received
        /\ 1 \in got <=> 1 \in f.received
    BY <1>1
  <2>. HIDE DEF got
  <2>. QED BY <1>7, <1>10, <2>1, <2>2, GoodFacts, Zenon DEF Sized, SameBooks
<1>13. Good(g, got) /\ g.received = f.received
  BY <1>7, <1>9, <1>10, <1>11, <1>12 DEF Good, SameBooks
<1>. QED BY <1>13 DEF g

\* process_packet: a packet that was missing.
LEMMA HandledGood ==
  ASSUME sent \in SentFrames, NEW f, Good(f, f.received), NEW id \in 0..TrailerId, id \notin f.received
  PROVE  LET g == MarkReceived(Handle(f, id), id)
         IN  Good(g, g.received)
<1>. DEFINE h == Handle(f, id)
            g == MarkReceived(h, id)
<1>1. TrailerId = NBlocks + 1 /\ NBlocks \in Nat \ {0}
  BY SentFacts DEF TrailerId
<1>2. Good(h, f.received \cup {id}) /\ h.received = f.received
  <2>1. CASE id = 0
    BY <2>1, LeaderGood DEF Handle
  <2>2. CASE id = TrailerId
    <3>1. h = ProcessTrailer(f, TrailerId)
      BY <1>1, <2>2 DEF Handle
    <3>. QED BY <2>2, <3>1, TrailerGood
  <2>3. CASE id \notin {0, TrailerId}
    <3>1. h = ProcessPayload(f, id)
      BY <2>3 DEF Handle
    <3>2. id \in 1..NBlocks
      BY <1>1, <2>3
    <3>. HIDE DEF h
    <3>3. CASE id = 1
      BY <3>1, <3>3, LearnGood
    <3>4. CASE id # 1 /\ f.block_known
      BY <3>1, <3>2, <3>4, PlaceGood
    <3>5. CASE id # 1 /\ ~f.block_known
      BY <3>1, <3>2, <3>5, HoldGood
    <3>. QED BY <3>3, <3>4, <3>5
  <2>. QED BY <2>1, <2>2, <2>3
<1>. HIDE DEF h
<1>3. id \in Nat
  BY <1>1
<1>4. Good(h, h.received \cup {id})
  BY <1>2
<1>5. Good(g, h.received \cup {id}) /\ g.received = h.received \cup {id}
  BY <1>3, <1>4, MarkedGood
<1>6. Good(g, g.received)
  BY <1>5
<1>. QED BY <1>6 DEF h

-----------------------------------------------------------------------------
\* The inductive invariant.  What a frame holds follows from the packets it
\* got, and a frame is only closed by the status of a full one, or given up.
Statuses == {"none", "filling", "Complete", "MissingPackets", "Timeout", "Aborted"}

IInv ==
  /\ sent \in SentFrames
  /\ status \in Statuses
  /\ status = "none" => frame = NewFrame(0)
  /\ status # "none" => Good(frame, frame.received)
  /\ status = "filling" => ~AllReceived(frame)
  /\ status = "Complete" => AllReceived(frame)
  /\ status = "MissingPackets" /\ resend_enabled => AllReceived(frame)
  /\ status \in {"Complete", "MissingPackets"} /\ AllReceived(frame) => status = ClosingStatus(frame)

\* Good is about the frame that is sent, which stays the same.
LEMMA GoodStays ==
  ASSUME sent' = sent, NEW f, NEW got, Good(f, got)
  PROVE  Good(f, got)'
<1>1. NBlocks' = NBlocks /\ TrailerId' = TrailerId
  BY DEF NBlocks, TrailerId
<1>2. \A k : Length(k)' = Length(k)
  BY <1>1 DEF Length
<1>3. \A k : SlotEnd(k)' = SlotEnd(k)
  BY <1>2 DEF SlotEnd
<1>4. \A k : Slot(k)' = Slot(k)
  BY <1>3 DEF Slot
<1>5. \A ids : Bytes(ids)' = Bytes(ids)
  BY <1>4 DEF Bytes
<1>6. ASSUME NEW ids, Holds(f, ids) PROVE Holds(f, ids)'
  BY <1>3, <1>5, <1>6 DEF Holds
<1>7. Sized(f, got) => Sized(f, got)'
  BY <1>1 DEF Sized
<1>. QED BY <1>1, <1>2, <1>6, <1>7 DEF Good, Waits, Filled

\* The invariant holds before the first packet.
LEMMA InitInv == Init => IInv
BY DEF Init, IInv, Statuses

\* A packet arrives.
LEMMA ArriveInv ==
  ASSUME IInv, NEW id \in 0..TrailerId, Arrive(id)
  PROVE  IInv'
<1>. DEFINE f == IF status = "none" THEN NewFrame(compute_n_expected_packets(id)) ELSE frame
            g == MarkReceived(Handle(f, id), id)
<1>1. /\ status \in {"none", "filling"} /\ id \notin f.received /\ frame' = g /\ sent' = sent
      /\ status' = IF AllReceived(g) THEN ClosingStatus(g) ELSE "filling"
      /\ sent \in SentFrames
  BY DEF Arrive, IInv
<1>2. Good(f, f.received)
  <2>1. CASE status = "none"
    <3>1. Good(NewFrame(compute_n_expected_packets(id)), {})
      BY <1>1, NewFrameGood
    <3>2. NewFrame(compute_n_expected_packets(id)).received = {}
      BY DEF NewFrame
    <3>. QED BY <2>1, <3>1, <3>2
  <2>2. CASE status # "none"
    BY <2>2 DEF IInv
  <2>. QED BY <2>1, <2>2
<1>. HIDE DEF f
<1>3. Good(g, g.received)
  BY <1>1, <1>2, HandledGood
<1>. HIDE DEF g
<1>4. Good(frame, frame.received)'
  BY <1>1, <1>3, GoodStays
<1>5. g.error = FALSE
  BY <1>3 DEF Good, Sized
<1>6. SentFrames' = SentFrames
  BY DEF SentFrames
<1>7. /\ status' \in {"filling", "Complete", "MissingPackets"}
      /\ status' = "filling" <=> ~AllReceived(g)
      /\ status' \in {"Complete", "MissingPackets"} => status' = ClosingStatus(g)
  BY <1>1, <1>5 DEF ClosingStatus
<1>8. /\ status' = "filling" <=> ~AllReceived(frame)'
      /\ status' \in {"Complete", "MissingPackets"} => status' = ClosingStatus(frame)'
  BY <1>1, <1>7 DEF AllReceived, ClosingStatus
<1>. QED BY <1>1, <1>4, <1>6, <1>7, <1>8 DEF IInv, Statuses

\* Every packet that arrives and every end of the frame keeps the invariant.
LEMMA StepInv == IInv /\ [Next]_vars => IInv'
<1>1. SUFFICES ASSUME IInv, [Next]_vars PROVE IInv'
  OBVIOUS
<1>2. ASSUME NEW id \in 0..TrailerId, Arrive(id) PROVE IInv'
  BY <1>1, <1>2, ArriveInv
<1>3. CASE Overtaken \/ GiveUp \/ Flush
  <2>1. /\ sent' = sent /\ frame' = frame /\ status = "filling"
        /\ \/ ~resend_enabled /\ status' = "MissingPackets"
           \/ status' = IF frame.error THEN "WrongPacketId" ELSE "Timeout"
           \/ status' = "Aborted"
    BY <1>3 DEF Overtaken, GiveUp, Flush
  <2>2. Good(frame, frame.received) /\ sent \in SentFrames /\ ~AllReceived(frame)
    BY <1>1, <2>1 DEF IInv
  <2>3. Good(frame, frame.received)' /\ ~AllReceived(frame)'
    BY <2>1, <2>2, GoodStays DEF AllReceived
  <2>4. status' \in {"Timeout", "Aborted"} \/ (~resend_enabled /\ status' = "MissingPackets")
    BY <2>1, <2>2 DEF Good, Sized
  <2>. QED BY <2>1, <2>2, <2>3, <2>4 DEF IInv, SentFrames, Statuses
<1>4. CASE UNCHANGED vars
  <2>1. sent' = sent /\ frame' = frame /\ status' = status
    BY <1>4 DEF vars
  <2>2. status # "none" => Good(frame, frame.received)'
    BY <1>1, <2>1, GoodStays DEF IInv
  <2>3. AllReceived(frame)' = AllReceived(frame) /\ ClosingStatus(frame)' = ClosingStatus(frame)
    BY <2>1 DEF AllReceived, ClosingStatus
  <2>4. SentFrames' = SentFrames /\ NewFrame(0)' = NewFrame(0)
    BY DEF SentFrames, NewFrame
  <2>. QED BY <1>1, <2>1, <2>2, <2>3, <2>4 DEF IInv
<1>. QED BY <1>1, <1>2, <1>3, <1>4 DEF Next, Duplicate, Closed

\* The invariant holds throughout.
LEMMA Invariance == Spec => []IInv
BY InitInv, StepInv, PTL DEF Spec

-----------------------------------------------------------------------------
\* A frame without a gap has every packet the device sent.
LEMMA FullFrame ==
  ASSUME sent \in SentFrames, NEW f, Good(f, f.received), AllReceived(f)
  PROVE  /\ f.leader /\ f.trailer_seen /\ f.block_known
         /\ Holds(f, 1..NBlocks)
         /\ f.received \cap (1..NBlocks) = 1..NBlocks
<1>1. /\ TrailerId = NBlocks + 1 /\ NBlocks \in Nat \ {0}
      /\ f.n_packets \in Nat /\ f.n_packets >= 2
      /\ 0 .. f.last_valid_packet \subseteq f.received
      /\ (f.block_known => f.n_packets >= NBlocks + 2)
      /\ (f.block_known <=> 1 \in f.received)
  BY GoodFacts
<1>2. 0 .. f.n_packets - 1 \subseteq f.received
  BY <1>1 DEF AllReceived
<1>3. f.block_known
  BY <1>1, <1>2
<1>4. 0..TrailerId \subseteq f.received
  BY <1>1, <1>2, <1>3
<1>5. f.received \cap (1..NBlocks) = 1..NBlocks
  BY <1>1, <1>4
<1>6. Holds(f, 1..NBlocks)
  BY <1>3, <1>5 DEF Good, Filled
<1>7. 0 \in f.received /\ TrailerId \in f.received
  BY <1>1, <1>4
<1>. QED BY <1>3, <1>5, <1>6, <1>7, GoodFacts

\* The sizes agree exactly when no byte below the end is missing.
LEMMA SizesTellHoles ==
  ASSUME sent \in SentFrames, NEW f \in FrameType, NEW ids \in SUBSET (1..NBlocks), Holds(f, ids)
  PROVE  /\ f.data_end \in 0..payload_size
         /\ f.received_size = f.data_end <=> 1 .. f.data_end \subseteq Bytes(ids)
<1>1. f.data_end \in 0..payload_size
  <2>1. \A k \in ids : SlotEnd(k) \in 0..payload_size
    BY SlotFacts, AssemblyAssumption
  <2>. QED BY <2>1, AssemblyAssumption DEF Holds
<1>2. Bytes(ids) \in SUBSET (1 .. f.data_end)
  <2>1. SUFFICES ASSUME NEW i \in Bytes(ids) PROVE i \in 1 .. f.data_end
    OBVIOUS
  <2>2. PICK k \in ids : i \in Slot(k)
    BY DEF Bytes
  <2>. DEFINE x == (k - 1) * sent.block
  <2>3. x \in Nat /\ SlotEnd(k) \in 1..payload_size
    BY SlotFacts
  <2>4. i \in x + 1 .. SlotEnd(k) /\ SlotEnd(k) <= f.data_end
    BY <2>2 DEF Slot, Holds
  <2>. HIDE DEF x
  <2>. QED BY <1>1, <2>3, <2>4, AssemblyAssumption
<1>3. IsFiniteSet(1 .. f.data_end) /\ Cardinality(1 .. f.data_end) = f.data_end
  <2>. DEFINE e == f.data_end
  <2>1. e \in Nat
    BY <1>1, AssemblyAssumption
  <2>. HIDE DEF e
  <2>2. IsFiniteSet(1..e) /\ Cardinality(1..e) = e
    BY <2>1, FS_Interval
  <2>. QED BY <2>2 DEF e
<1>4. Cardinality(1 .. f.data_end) = Cardinality(Bytes(ids)) => 1 .. f.data_end = Bytes(ids)
  BY <1>2, <1>3, FS_Subset, Zenon
<1>5. f.received_size = Cardinality(Bytes(ids))
  BY DEF Holds
<1>6. 1 .. f.data_end \subseteq Bytes(ids) => 1 .. f.data_end = Bytes(ids)
  BY <1>2
<1>. QED BY <1>1, <1>3, <1>4, <1>5, <1>6

\* A conforming device leaves no hole.
LEMMA ConformingHasNoHole ==
  ASSUME sent \in SentFrames, sent.short = 0, NEW f \in FrameType, Holds(f, 1..NBlocks)
  PROVE  1 .. f.data_end \subseteq Bytes(1..NBlocks)
<1>1. SUFFICES ASSUME NEW i \in 1 .. f.data_end PROVE i \in Bytes(1..NBlocks)
  OBVIOUS
<1>. DEFINE B == sent.block
            k == Ceil(i, B)
<1>2. /\ B \in Nat \ {0} /\ NBlocks \in Nat \ {0} /\ payload_size \in Nat
      /\ f.data_end \in Nat
  BY SentFacts, AssemblyAssumption DEF FrameType
<1>3. i \in Nat \ {0} /\ i <= f.data_end
  BY <1>2
<1>4. k \in Nat \ {0} /\ (k - 1) * B < i /\ i <= k * B
  BY <1>2, <1>3, CeilFacts
<1>5. PICK j \in 1..NBlocks : f.data_end = SlotEnd(j)
  BY <1>3 DEF Holds
<1>6. SlotEnd(j) \in Nat /\ SlotEnd(j) <= payload_size /\ SlotEnd(j) <= j * B
  <2>1. (j - 1) * B + B = j * B
    BY <1>2
  <2>. QED BY <2>1, SlotFacts, <1>2
<1>. HIDE DEF k, B
<1>7. k <= j
  <2>1. SUFFICES ASSUME j <= k - 1 PROVE FALSE
    BY <1>4
  <2>2. j * B <= (k - 1) * B
    <3>1. j \in Int /\ k - 1 \in Int /\ B \in Nat
      BY <1>2, <1>4
    <3>. QED BY <2>1, <3>1, TimesMonotone, Zenon
  <2>. DEFINE x == j * B
              y == (k - 1) * B
  <2>3. x \in Int /\ y \in Int /\ x <= y /\ y < i /\ SlotEnd(j) <= x
    BY <1>2, <1>4, <1>6, <2>2
  <2>. HIDE DEF x, y
  <2>. QED BY <2>3, <1>3, <1>5, <1>6
<1>8. k \in 1..NBlocks
  BY <1>2, <1>4, <1>7
<1>9. i <= SlotEnd(k)
  <2>1. CASE k = j
    BY <2>1, <1>3, <1>5
  <2>2. CASE k # j
    <3>1. Length(k) = B
      BY <2>2, <1>2, <1>7, <1>8, LengthFacts, SentFacts DEF B
    <3>2. (k - 1) * B + B = k * B
      BY <1>2, <1>4
    <3>3. SlotEnd(k) = Low(k * B, payload_size)
      BY <3>1, <3>2 DEF SlotEnd, B
    <3>4. i <= payload_size
      BY <1>2, <1>3, <1>5, <1>6
    <3>. QED BY <3>3, <3>4, <1>4 DEF Low
  <2>. QED BY <2>1, <2>2
<1>10. i \in Slot(k)
  <2>. DEFINE x == (k - 1) * B
  <2>1. x \in Nat /\ x < i /\ SlotEnd(k) \in Nat
    BY <1>4, <1>8, SlotFacts, AssemblyAssumption DEF B
  <2>2. Slot(k) = x + 1 .. SlotEnd(k)
    BY DEF Slot, B
  <2>. HIDE DEF x
  <2>. QED BY <2>1, <2>2, <1>3, <1>9
<1>. QED BY <1>8, <1>10 DEF Bytes

-----------------------------------------------------------------------------
\* Type correctness: no packet, offset or length of a frame in flight is ever
\* beyond the packets expected or the buffer.
THEOREM TypeCorrect == Spec => []TypeOK
<1>1. IInv => TypeOK
  <2>1. SUFFICES ASSUME IInv PROVE TypeOK
    OBVIOUS
  <2>2. sent \in SentFrames /\ status \in Statuses
    BY <2>1 DEF IInv
  <2>3. CASE status = "none"
    <3>1. /\ frame.received = {} /\ frame.n_packets = 0 /\ frame.last_valid_packet = -1
          /\ frame.held = {} /\ frame.data_end = 0
      BY <2>1, <2>3 DEF IInv, NewFrame
    <3>. QED BY <2>2, <3>1, AssemblyAssumption DEF TypeOK, Statuses
  <2>4. CASE status # "none"
    <3>. DEFINE done == IF frame.block_known THEN frame.received \cap (1..NBlocks) ELSE {}
    <3>1. Good(frame, frame.received)
      BY <2>1, <2>4 DEF IInv
    <3>2. frame \in FrameType /\ done \in SUBSET (1..NBlocks) /\ Holds(frame, done)
      BY <3>1 DEF Good, Waits, Filled
    <3>3. frame.data_end \in 0..payload_size
      <4>. HIDE DEF done
      <4>. QED BY <2>2, <3>2, SizesTellHoles
    <3>4. frame.held \subseteq 1..payload_size
      <4>1. frame.held \subseteq 1..NBlocks
        BY <3>1 DEF Good, Waits, Filled
      <4>. QED BY <4>1, <2>2, SentFacts, AssemblyAssumption
    <3>5. /\ frame.received \subseteq 0 .. frame.n_packets - 1
          /\ frame.last_valid_packet \in -1 .. frame.n_packets - 1
      BY <2>2, <3>1, GoodFacts
    <3>. QED BY <2>2, <3>3, <3>4, <3>5 DEF TypeOK, Statuses
  <2>. QED BY <2>3, <2>4
<1>. QED BY <1>1, Invariance, PTL

\* A frame is delivered as Complete only with every byte the device sent in
\* its place, in whatever order the packets came (check_frame_completion).
THEOREM CompleteFramesAreExact == Spec => []CompleteIsExact
<1>1. IInv => CompleteIsExact
  <2>1. SUFFICES ASSUME IInv, status = "Complete"
                 PROVE  /\ frame.leader /\ frame.trailer_seen
                        /\ frame.data_end >= sent.len
                        /\ \A i \in 1..sent.len : frame.data[i] = i
    BY DEF CompleteIsExact
  <2>2. /\ sent \in SentFrames /\ Good(frame, frame.received) /\ AllReceived(frame)
        /\ ClosingStatus(frame) = "Complete"
    BY <2>1 DEF IInv
  <2>3. frame.leader /\ frame.trailer_seen /\ Holds(frame, 1..NBlocks) /\ frame \in FrameType
    BY <2>2, FullFrame DEF Good
  <2>4. frame.received_size = frame.data_end
    BY <2>2 DEF ClosingStatus
  <2>5. frame.data_end \in 0..payload_size /\ 1 .. frame.data_end \subseteq Bytes(1..NBlocks)
    <3>1. 1..NBlocks \in SUBSET (1..NBlocks)
      OBVIOUS
    <3>. QED BY <2>2, <2>3, <2>4, <3>1, SizesTellHoles
  <2>6. frame.data_end >= sent.len /\ sent.len \in 1..payload_size
    <3>. DEFINE k == NBlocks
                x == (k - 1) * sent.block + Length(k)
    <3>1. k \in 1..NBlocks
      BY <2>2, SentFacts
    <3>2. sent.len <= x /\ Length(k) \in Nat /\ (k - 1) * sent.block \in Nat
      BY <2>2, <3>1, LengthFacts, SentFacts
    <3>3. SlotEnd(k) = Low(x, payload_size) /\ SlotEnd(k) <= frame.data_end
      BY <2>3, <3>1 DEF SlotEnd, Holds
    <3>4. x \in Nat /\ sent.len \in 1..payload_size
      BY <3>2, <2>2, SentFacts
    <3>. HIDE DEF x
    <3>. QED BY <2>5, <3>2, <3>3, <3>4, AssemblyAssumption DEF Low
  <2>7. ASSUME NEW i \in 1..sent.len PROVE frame.data[i] = i
    <3>1. i \in 1 .. frame.data_end /\ i \in 1..payload_size /\ i <= sent.len
      BY <2>5, <2>6, AssemblyAssumption
    <3>2. i \in Bytes(1..NBlocks)
      BY <2>5, <3>1
    <3>. QED BY <2>3, <3>1, <3>2 DEF Holds
  <2>. QED BY <2>3, <2>6, <2>7
<1>. QED BY <1>1, Invariance, PTL

\* A device that keeps to the protocol is never found at fault, whichever
\* packet sizes the frame first (process_payload, process_trailer), and no
\* frame of it that has all its packets, or may still ask for them, is
\* delivered as lacking some (check_frame_completion).
THEOREM ConformingIsAccepted == Spec => []ConformingIsNeverRejected
<1>1. IInv => ConformingIsNeverRejected
  <2>0. IInv => status # "WrongPacketId" /\ (status = "MissingPackets" /\ resend_enabled => AllReceived(frame))
    BY DEF IInv, Statuses
  <2>1. SUFFICES ASSUME IInv, sent.short = 0, status = "MissingPackets", AllReceived(frame) PROVE FALSE
    BY <2>0, AssemblyAssumption DEF ConformingIsNeverRejected
  <2>2. /\ sent \in SentFrames /\ Good(frame, frame.received)
        /\ ClosingStatus(frame) = "MissingPackets"
    BY <2>1 DEF IInv
  <2>3. Holds(frame, 1..NBlocks) /\ frame \in FrameType
    BY <2>1, <2>2, FullFrame DEF Good
  <2>4. 1 .. frame.data_end \subseteq Bytes(1..NBlocks)
    BY <2>1, <2>2, <2>3, ConformingHasNoHole
  <2>5. frame.received_size = frame.data_end
    <3>1. 1..NBlocks \in SUBSET (1..NBlocks)
      OBVIOUS
    <3>. QED BY <2>2, <2>3, <2>4, <3>1, SizesTellHoles
  <2>. QED BY <2>2, <2>5 DEF ClosingStatus
<1>. QED BY <1>1, Invariance, PTL

\* The documentation of Frame::data: in every frame that is delivered, the
\* sizes agree exactly when no byte below the end of the data is missing.
THEOREM MissingBytesAreVisible == Spec => []HolesAreVisible
<1>1. IInv => HolesAreVisible
  <2>. DEFINE ids == frame.received \cap (1..NBlocks)
  <2>1. SUFFICES ASSUME IInv, status \notin {"none", "filling"}
                 PROVE  frame.received_size = frame.data_end <=>
                          \A i \in 1 .. frame.data_end : \E k \in ids : i \in Extent(frame, k)
    BY DEF HolesAreVisible
  <2>2. sent \in SentFrames /\ Good(frame, frame.received) /\ frame \in FrameType
    BY <2>1 DEF IInv, Good
  <2>3. CASE frame.block_known
    <3>1. frame.block_size = Length(1) /\ Holds(frame, ids) /\ ids \in SUBSET (1..NBlocks)
      BY <2>2, <2>3 DEF Good, Filled
    <3>2. frame.received_size = frame.data_end <=> 1 .. frame.data_end \subseteq Bytes(ids)
      <4>. HIDE DEF ids
      <4>. QED BY <2>2, <3>1, SizesTellHoles
    <3>3. \A k \in ids : Extent(frame, k) = Slot(k)
      BY <2>2, <3>1, PlaceIsSlot
    <3>4. \A i : i \in Bytes(ids) <=> \E k \in ids : i \in Extent(frame, k)
      BY <3>3 DEF Bytes
    <3>. HIDE DEF ids
    <3>. QED BY <3>2, <3>4
  <2>4. CASE ~frame.block_known
    <3>1. Holds(frame, {})
      BY <2>2, <2>4 DEF Good, Waits
    <3>2. Bytes({}) = {} /\ Cardinality({}) = 0
      BY FS_EmptySet DEF Bytes
    <3>3. frame.received_size = 0 /\ frame.data_end = 0
      BY <3>1, <3>2 DEF Holds
    <3>. QED BY <3>3
  <2>. QED BY <2>3, <2>4
<1>. QED BY <1>1, Invariance, PTL
=============================================================================
