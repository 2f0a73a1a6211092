---------------------------- MODULE RegisterCache ----------------------------
(***************************************************************************)
(* The register nodes of the GenICam graph and their caches                *)
(* (src/genicam/node.rs, register_read and register_write), with the       *)
(* pInvalidator links of the device description (src/genicam/xml.rs).      *)
(*                                                                         *)
(* A register of the device is a block of fields, its bits; a register     *)
(* node covers a whole block or, masked, some of its fields.  The address  *)
(* of a node is a sum of terms that may be values of other nodes, so that  *)
(* the block it stands for (`at') may move when one of those is written.   *)
(* Some blocks change when another is written.  The description declares   *)
(* both with pInvalidator.                                                 *)
(*                                                                         *)
(* A step is one call on the graph: it reads some registers, for whatever  *)
(* the evaluation needs, and then writes one register, one value kept in   *)
(* the graph, or nothing.  Which calls there are, and what they read, is   *)
(* the business of FeatureGraph, which is shown to implement this.         *)
(***************************************************************************)
EXTENDS FiniteSets

CONSTANTS
  Registers,        \* register nodes
  Features,         \* the other nodes: some keep a literal value of their own
  Blocks,           \* the addresses of the device
  Points,           \* the blocks a register node's address may come to
  Fields,           \* the fields of every block
  Mask,             \* the fields a register node covers
  Access,           \* "RO", "WO" or "RW"
  Cachable,         \* "NoCache", "WriteThrough" or "WriteAround"
  pInvalidator,     \* the nodes each register node names as its invalidators
  Steers,           \* the register nodes whose address a write of a node may move
  Drives,           \* device: the blocks that may change when a block is written
  Values,
  AcksLost          \* may a write be carried out and its acknowledge be lost?

Nodes == Registers \cup Features
Contents == [Fields -> Values]

ASSUME CacheAssumption ==
  /\ Registers \cap Features = {}
  /\ Points \in [Registers -> SUBSET Blocks]
  /\ Mask \in [Registers -> SUBSET Fields]
  /\ Access \in [Registers -> {"RO", "WO", "RW"}]
  /\ Cachable \in [Registers -> {"NoCache", "WriteThrough", "WriteAround"}]
  /\ pInvalidator \in [Registers -> SUBSET Nodes]
  /\ Steers \in [Nodes -> SUBSET Registers]
  /\ Drives \in [Blocks -> SUBSET Blocks]
  /\ AcksLost \in BOOLEAN

VARIABLES
  mem,       \* the device's registers
  at,        \* the block the address of each register node comes to now
  cache      \* RegisterCommon::cache of each register node: {} or its bytes

cacheVars == <<mem, at, cache>>

\* What finish builds: the registers whose caches a write of register r clears.
Invalidates(r) == {d \in Registers : r \in pInvalidator[d]}

CacheInit ==
  /\ mem \in [Blocks -> Contents]
  /\ at \in [Registers -> Blocks]
  /\ \A r \in Registers : at[r] \in Points[r]
  /\ cache = [r \in Registers |-> {}]

-----------------------------------------------------------------------------
\* register_read: from the cache, or from the device into the cache.
Cached(r) == Cachable[r] # "NoCache" /\ cache[r] # {}
ReadBytes(r) == IF Cached(r) THEN CHOOSE bytes \in cache[r] : TRUE ELSE mem[at[r]]

\* The caches after the registers in S were read.
CacheRead(S) ==
  [r \in Registers |-> IF r \in S /\ Cachable[r] # "NoCache" THEN {ReadBytes(r)} ELSE cache[r]]

Readable == {r \in Registers : Access[r] # "WO"}

ReadRegisters ==
  /\ \E S \in SUBSET Readable : cache' = CacheRead(S)
  /\ UNCHANGED <<mem, at>>

\* The bytes a write of v puts into the block: a masked field is inserted
\* into what the register reads as, a whole register is replaced.
Masked(r) == Mask[r] # Fields
Encoded(r, v) == [f \in Fields |-> IF f \in Mask[r] THEN v[f] ELSE ReadBytes(r)[f]]

\* What the device does with a write: the block takes the bytes, and the
\* blocks it drives may change.
DeviceTakes(b, bytes) ==
  \E driven \in [Drives[b] -> Contents] :
    mem' = [c \in Blocks |-> IF c = b THEN bytes ELSE IF c \in Drives[b] THEN driven[c] ELSE mem[c]]

\* Addresses computed from the value of node n may move with it.
Moves(n) ==
  \E target \in [Steers[n] -> Blocks] :
    /\ \A d \in Steers[n] : target[d] \in Points[d]
    /\ at' = [d \in Registers |-> IF d \in Steers[n] THEN target[d] ELSE at[d]]

\* Mutant: only the written register's own cache is looked after.
CacheWriteOwn(c, r, bytes) == [c EXCEPT ![r] = IF Cachable[r] = "WriteThrough" THEN {bytes} ELSE {}]

\* register_write, once the device has acknowledged; c is the cache before.
CacheWrite(c, r, bytes) ==
  [d \in Registers |->
     IF d \in Invalidates(r) THEN {}
     ELSE IF d # r THEN c[d]
     ELSE IF Cachable[r] = "WriteThrough" THEN {bytes} ELSE {}]

\* What may have been read before register r is written: a masked field is
\* read first.
ReadsFor(r) == {S \in SUBSET Readable : Masked(r) => r \in S}

WriteRegister(r, v) ==
  /\ Access[r] # "RO"
  /\ DeviceTakes(at[r], Encoded(r, v))
  /\ \E S \in ReadsFor(r) : cache' = CacheWrite(CacheRead(S), r, Encoded(r, v))
  /\ Moves(r)

\* The write fails: refused, or carried out and its acknowledge lost.
WriteFails(r, v) ==
  /\ Access[r] # "RO"
  /\ \/ UNCHANGED <<mem, at>>
     \/ /\ AcksLost
        /\ DeviceTakes(at[r], Encoded(r, v))
        /\ Moves(r)
  /\ \E S \in ReadsFor(r) : cache' = CacheRead(S)

\* set_ref_int on a literal: kept in the graph, and no cache is cleared.
SetLiteral(n) ==
  /\ Moves(n)
  /\ \E S \in SUBSET Readable : cache' = CacheRead(S)
  /\ UNCHANGED mem

\* invalidate_caches.
InvalidateCaches ==
  /\ cache' = [r \in Registers |-> {}]
  /\ UNCHANGED <<mem, at>>

CacheNext ==
  \/ ReadRegisters
  \/ \E r \in Registers, v \in Contents : WriteRegister(r, v) \/ WriteFails(r, v)
  \/ \E n \in Features : SetLiteral(n)
  \/ InvalidateCaches

CacheSpec == CacheInit /\ [][CacheNext]_cacheVars

-----------------------------------------------------------------------------
\* Type invariant.  The contents of the device and the caches of the register nodes.
CacheTypeOK ==
  /\ mem \in [Blocks -> Contents]
  /\ at \in [Registers -> Blocks]
  /\ cache \in [Registers -> SUBSET Contents]

\* What a register reads as is what the device holds where its address now
\* points: no sequence of reads and of writes that the device acknowledges or
\* refuses, of the register or of the registers it names as its invalidators,
\* leaves a stale cache behind.
ReadsAreFresh == \A r \in Registers : ReadBytes(r) = mem[at[r]]

\* Setting one field of a register changes no other field of it, in the
\* device, although the bytes that are sent hold the whole register.
FieldWriteKeepsSiblings ==
  [][\A r \in Registers, v \in Contents :
       WriteRegister(r, v) \/ WriteFails(r, v)
         => \A f \in Fields \ Mask[r] : mem'[at[r]][f] = mem[at[r]][f]]_cacheVars
=============================================================================
