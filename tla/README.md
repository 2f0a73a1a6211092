# A verification project for telegenic

telegenic is a GenICam camera library over GigE Vision. This directory holds
TLA+ models of its concurrent and fault-handling parts, TLC configurations that
check them on small instances, and TLAPS proofs that extend the most important
results of eight modules to every value of their constants. Source paths are
relative to the crate's `src/` directory.

## The system

| Part | State | Operations | Where it is hard |
|---|---|---|---|
| Control port (`gige/mod.rs`) | channel to the worker, liveness flag | send, submit, disconnect | a request racing the end of the worker |
| Control worker (`gige/runner.rs`) | queue, transaction in flight, request id, heartbeat | loop: socket, commands, deadline, heartbeat, pump; shutdown | lost, late, duplicated acknowledges; retries; long transfers; loss of control |
| Response handle (`handle.rs`) | cell, event, wakers | fulfill, wait_timeout, poll | lost wakeups, two fulfillers |
| Stream worker (`gige/stream/runner.rs`) | frames in flight, pool, history, subscribers | packet, completion check, resend check, close, stop | order, duplicates, wrap and restart of block ids, empty pool |
| Node graph (`genicam/node.rs`) | caches, literals, visit stack | get, set, execute, bounds, access mode | stale caches, masked writes, computed addresses, calls that fail half-way |
| Formulas (`genicam/evaluator.rs`) | none | compile, evaluate | precedence, associativity, conditionals, number types |
| Camera lifecycle (`genicam`, `gige/mod.rs`) | connection, guards, device registers | connect, open_stream, Acquisition, SnapshotSession | a step of several failing, late frames |
| Packet size (`gige/mod.rs`) | bounds of a bisection | probe, narrow, write | late test packets, termination |
| Discovery (`gige/discovery.rs`) | a socket per adapter, devices found | discover, discover_on, force_ip | one datagram per socket and round, late answers |
| Emulated device (`emulator`) | register map, last reply per source | handle_datagram | retransmissions |

`GenICamera` drives `GigECamera`, whose `ControlPort` feeds the control worker;
`open_stream` starts a stream worker. The two workers share the device and a
set of link counters (statistics, not modelled); the `StreamChannel` keeps a
`ControlPort` to close the channel's registers when it is dropped.
`PROJECT.json` lists every part, the hazards with their lines, and for each
definition the code it models.

## Modules

- `ControlPort`: the callers' side of the request channel, one action per
  atomic step of `send` and `disconnect`. Shared by the next two. Memory
  transfers that are not aligned are refused by `read_memory` and `write_memory`
  themselves and are not among the requests.
- `RequestService`: the abstract worker. It takes requests, answers them, and
  may stop at any time. This is what callers are promised.
- `ControlWorker`: the worker loop with chunked transfers, retries, heartbeat,
  shutdown, device and lossy link. The loop may end because the owner stops it,
  control is lost or polling fails; a read may be answered with fewer units than
  asked for, or with more, of which `on_ack` takes what is still wanted.
- `ControlService` (`MCControlWorker`): `ControlWorker` as an implementation of
  `RequestService` (property `ImplementsService`, by INSTANCE and a refinement
  mapping of queue and in-flight operation to the requests held).
- `TransactionTimer`: the clocks that `ControlWorker` leaves open, of the worker
  (queue, transaction, retransmissions, PENDING_ACKs) and of one caller, who
  begins to wait when the request is submitted and not when it is sent.
- `ResponseHandle`: the steps of fulfil, blocking wait and poll.
- `FrameAssembly`: one frame; where each byte goes and with which status it closes:
  when all packets are there, when a newer frame has overtaken it and nothing may
  be asked for again (`Overtaken`), when its time is up (`GiveUp`) or when the
  stream stops (`Flush`).
  The packets held back until the block size is known are placed in one go: no
  two share a byte, so their order tells nothing.
- `PacketResend`: one frame; when holes are asked for and when it is given up.
- `BlockIds`, `StreamReceiver` (`MCStreamReceiver`): many frames; which one a packet belongs to.
- `RegisterCache` (`MCRegisterCache`): what a call on the node graph may do to
  registers and caches: read some, then write at most one. Nodes may share
  blocks, name invalidators and have addresses that other nodes move.
- `FeatureGraph` (`MCFeatureGraph`): the node graph. A call is one step, evaluated
  in the order of the code by operators that thread a record through (caches,
  visit stack, last value, first error, the write to make); an operator given a
  failed call hands it on. The compiled form of a formula, which the code makes
  on first use and keeps, is part of the node. The module implements
  `RegisterCache` (property `ImplementsCache`).
- `Formula`: the compiler and evaluator behind SwissKnife and Converter nodes, on
  sequences of tokens. `FormulaTrees`: its reference, syntax trees and the way
  they are written down.
- `PacketSize`: the fire-test bisection, with a device that rounds what it is
  asked for down to its own increment. `Discovery`: discover and force_ip.
  `HostCalls` puts the two side by side for one run; they share no state, and
  `topic` says which one a behaviour is about.
- `CameraSession`: the lifecycle as sequences of register writes (`...Order`
  tables, one per function) with the path each failure takes (`...Failed`).
- `EmulatedDevice`: the command handler of the emulator, under hosts whose
  request ids come round.
- `...Proofs`: theorems. `ControlPartsProofs` has those of `TransactionTimer`,
  `ResponseHandle` and `RegisterCache`; those of the control worker are in
  `ControlWorkerLemmas`, `ControlWorkerProofs` and, what concerns its order and
  the service, `ControlServiceProofs`.

`ControlWorker` and `StreamReceiver` look at several set-ups in one run. Their
variable `scenario` is chosen from the constant `Scenarios` by `Init` and never
changes; the MC modules define the scenarios by name. `acks_lost` does the same
for the two kinds of link in `CameraSession`, and `reliable` for those in
`PacketSize`. In `MCFeatureGraph` a behaviour may be about one formula (`source`)
instead of the graph.

Definitions whose comment begins with "Mutant" are faulty variants of the
definition after them. No specification uses them: put in its place, each makes
TLC find a property violated, which shows that the property depends on that code.

## Runs that pass

| Run | Question | Bounds |
|---|---|---|
| `ControlWorker` | are answers used for the right command, do reads and writes arrive whole, is order kept, does the heartbeat cut in, is no handle left behind, is control released last, does it implement the service? | five scenarios, below |
| `ControlLiveness` | does every handle resolve, is loss of control noticed, does disconnect return? | 1 request of 2 units |
| `TransactionTimer` | does a caller give up on a request that is still to be carried out, how long can a device hold the channel? | timeout 2, 1 retry, pending budget 5, 2 other transactions, 1 heartbeat |
| `ResponseHandle` | is a wakeup lost, does everyone end with the same outcome? | 2 fulfillers, 2 waiters, 2 tasks |
| `FrameAssembly` | is a Complete frame exact, is a conforming device ever found at fault, do the sizes tell of missing bytes? | 6 bytes, block sizes 1 to 4, no resends |
| `PacketResend` | is every hole asked for, does the frame close? | 4 packets, cap 3 |
| `StreamReceiver` | are frames closed in order, once, unmixed; is a buffer lost; is a restarted device followed? | four groups of scenarios, below |
| `FeatureGraph` | are reads fresh, does what is set read back, are circles and access modes reported as they are, do formulas compile to their meaning, is `RegisterCache` implemented? | 18 nodes, below; formulas of up to 3 operators |
| `CameraSession` | is control returned, is the device left as found and idle between snaps, how old can a snap's frame be? | 2 snaps, frames of any lateness, any step refused, links with and without lost acknowledges |
| `EmulatedDevice` | is a command executed once, is what a host is told of it true? | 2 hosts, 3 transactions between them, each sent up to twice, 2 request ids |
| `HostCalls` | was the negotiated packet size delivered, is it the largest that fits; does the search end; is every device that answered in time found, is an acknowledge of force_ip that came in time reported? | a grid of 15 sizes, 3 increments of the device, 2 late test packets; 2 calls, 2 devices, 2 adapters, 1 failing socket operation |

The scenarios of `ControlWorker`: `Transactions` (two requests of two chunks,
ids wrap at 2, one retry), `Answers` (a read of three units answered wrongly,
empty, with too little or with too much), `Writes` (three units in two chunks, possibly refused), `Ending`
(two requests, the owner stops the worker) and `Refused` (a socket that refuses
datagrams and may fail to be polled). The last three wrap the request id at 1, so an answer left over
from the transaction before is seen in the first two only.

The scenarios of `StreamReceiver`: `Reordered` (three frames, two buffers,
packets of all three in any order), `Wrapping` (the same over the wrap of the
block id, one frame late at most, without resend), `Restarting` (the device
counts from 1 again; every packet arrives once and in time, five buffers) and
`Losing` (a restart in the middle of a frame, on a link that loses packets, two
buffers). In the last, packets of two frames may meet under one block id;
`blurred` records the ids of which two frames were about at once, and
`CompleteIsOneFrame` and `NoFrameTwice` leave those frames out (`StreamMixed`
below does not). `Reordered` does not start at block 1: with it `NoFrameTwice`,
which `InOrderAndOnce` includes, fails, see `StreamReopened` below.

The graph of `FeatureGraph`: a selector and a mode that are bits of one block,
one of them numbered from the other end; a signed, big-endian value whose
address the selector is a term of; a command that overwrites the selector's
block; a text; a converter with integer and float views; a formula; an indexed
value with one entry that leads back to it, and a dangling link. A byte has one
bit and a register two bytes; -1, 0 and 1 are set as integers, -1 and -1/2 as
floats, and the memory starts with any contents. The device may answer for some blocks only, so
that evaluations fail half-way. Formulas are the syntax trees of up to two
operators over every level of precedence and of up to three over a few of them,
written with the parentheses that precedence and associativity call for, and two
more: around a conditional in the middle of another (`FormulaBare` below) and a
sign under a power. `ReadsBack` is about the bounds a feature declares:
`set_int_value` does not enforce them. With bytes of one bit the order of bytes
and that of bits within a byte cannot be told apart.

`AccessModeIsHonest` compares what `access_mode` says with what a set then does.
`access_mode` takes an indexed value by what can be told without the device; the
property is stated for the states in which that is what the index selects
(`Foreseen`). `FeatureEntryAccess` below drops the condition.

`HostCalls` counts time in receive timeouts. `AnsweredInTimeIsFound` says what
"in time" can mean: an answer has its turn after one round for each datagram
before it in its socket, and a round takes at most one timeout per socket.
An acknowledge of force_ip is due in the same way: when it reports that nobody
acknowledged, none was. `SizeIsLargest` is stated for links on which no test
packet is lost or late. A device may have a limit below the smallest probe; the
size is then the minimum of the grid although only shorter packets were seen.
`ProbesAreFew` is the termination of the bisection, which the code leaves to its
arithmetic: both ends stay on the grid, so that every probe halves what is left.
The sizes of the code (560 to 9152 in steps of 16) are checked in
`PacketSizeExact`.

`TransactionTimer` has no clock that stops: its worker looks at what is due at
most `Lag` after it is. `BudgetCoversRetries` says when a caller may be the first
to give up, `HoldIsBounded` how far PENDING_ACKs can stretch a transaction.

In `CameraSession` a frame may take as long as it likes, also longer than the
timeout of its snap. What the next snap may then return is the subject of
`SnapIsOwnOrLate`: not what the subscription held already, for `snap` empties it
first, but a frame that had been given up and was still to come (`late`).

Why these bounds are enough to be of interest: TLC reaches states in which the
buffer pool is empty, the block id wraps or restarts (`StreamReceiver`), the
resend cap is met and a frame is completed after a request (`PacketResend`), the
request id is at its maximum and two acknowledges are on their way at once
(`ControlWorker`), the subscription is full and an undo has failed
(`CameraSession`), and a command is sent twice (`EmulatedDevice`). Each was
confirmed by asking TLC for a state of the kind. Sizes that only scale
(payloads, packet counts) are cut to the smallest with a first, a middle and a
last element.

Most state machines have a type invariant `TypeOK`. It is proved for
`RequestService`, `ResponseHandle`, `TransactionTimer`, `ControlWorker`,
`CameraSession` and `FrameAssembly`, and is part of the inductive invariant of
`RegisterCache`. For the others it holds in the configurations above; add
`TypeOK` to the invariants to see it.

Assumptions in these runs. `ControlWorker` supposes that no command or
acknowledge outlives a full circle of the request id (65534 transactions in the
code). `EmulatedDevice` supposes the same (`ComeRound`), and that one of the
transactions of such a circle was answered: a worker whose heartbeats are not
answered ends. In `CameraSession` only `ControlIsReturned` holds on a link that loses
the acknowledge of a step after all retries: the other properties say so in
their condition. `ControlLossIsNoticed` is stated for a socket that accepts
datagrams: a heartbeat the socket refuses is dropped (`gige/runner.rs:582`, and
`Op::fail` does nothing for it), so while every send fails nothing notices.

## A run that finds a violation

`CacheStruct` checks what `genicam/node.rs:446` says of a masked field
("read-modify-write the whole register"). The entries of a StructReg are
separate registers on one block, each with a cache of its own. Writing one
starts from its cached copy of the block, which may predate a write to another
entry, and undoes that write. No fault of the link is needed.

## Further configurations

One more configuration passes: `PacketSizeExact` checks the negotiation with the
sizes of the code.

The others describe where a property of the passing runs, or a sentence of the
documentation, stops holding. Each is run as `tlc -config X.cfg M` and ends with
a counterexample.

| Configuration | Module | Property | What the code does |
|---|---|---|---|
| `TransactionBudget` | `TransactionTimer` | `BudgetIsWorstCase` | a pending acknowledge extends a transaction past `transaction_budget`, which `gige/mod.rs:95` calls the "Worst-case duration" |
| `ResendMarked` | `PacketResend` | `MarkedWasAsked` | a range accepted before the one that would pass the cap is marked and counted as requested; the return at `stream/runner.rs:756` drops it |
| `StreamMixed` | `MCStreamReceiver` | `RestartIsClean` | a restarted block meeting a frame in flight with the same id fills its holes |
| `StreamReopened` | `MCStreamReceiver` | `NoFrameTwice` | block 1, overtaken by block 2, is taken for a restart (`stream/runner.rs:441`) and moves the newest id back to 1; a late copy of the closed block 2 then counts as new |
| `StreamStarved` | `MCStreamReceiver` | `CounterIsFollowed` | a restart that meets an empty pool is dropped without being remembered, and the blocks after it are behind |
| `CacheLostAck` | `MCRegisterCache` | `ReadsAreFresh` | a write executed but not acknowledged leaves the old value cached |
| `CacheFeatureInvalidator` | `MCRegisterCache` | `ReadsAreFresh` | an invalidator that names a feature, not the register behind it, is not applied |
| `CacheSelector` | `MCRegisterCache` | `ReadsAreFresh` | an address term that is a literal feature is set, and no cache is cleared |
| `FormulaBare` | `MCFeatureGraph` | `FormulaMeansItsTree` | a conditional that stands bare between `?` and `:` of another is grouped wrongly |
| `FeatureStringAccess` | `MCFeatureGraph` | `StringAccessIsHonest` | `access_mode` calls a string feature over a writable text register read-only, `genicam/node.rs:845` "The access mode of the node a value chain ends at" |
| `FeatureEntryAccess` | `MCFeatureGraph` | `EntryAccessIsHonest` | `access_mode` follows an indexed value without asking the device for the index, or calls one whose entry is a literal writable; setting it then fails, or succeeds where it was called read-only |
| `DiscoveryReused` | `HostCalls` | `ForcedIsApplied` | with a fixed source port the late FORCEIP_ACK of an earlier call answers the next one (`gige/discovery.rs:283`), which then returns `Ok(true)`, documented as "the device acknowledged" |
| `CameraOpenLost` | `CameraSession` | `ChannelIsClosed` | SCP stays set when the acknowledge of the SCP write is lost; with `CameraIsIdle` in its place: the camera keeps acquiring when that of AcquisitionStart is |
| `CameraFallback` | `CameraSession` | `SnapReturnsItsFrame` | a snap may return the frame of an earlier one that timed out, `genicam/snapshot.rs:81` says it waits for "the resulting frame" |

Most of these need an uncommon event: an acknowledge lost after every retry, a
device restart, or a delayed packet. The cache, formula and access ones depend on
the description alone.

## Fairness

- `ResponseHandle`: weak fairness of each thread's own steps;
  a runnable thread is scheduled.
- `PacketResend`: time passes, the worker runs its check at least every packet
  timeout (the poll timeout), and older frames close. `FrameCloses` supposes that
  duplicates do not arrive for ever.
- `ControlWorker`: each stage of the loop is left, and a transaction in flight
  ends or changes (its deadline passes; `TransactionTimer` bounds how long that
  takes). Two strong-fairness conditions replace the heartbeat's clock:
  it falls due again and again, and not at every turn at which a request waits.
  The second holds when a turn of the loop is short against the heartbeat period
  (at least 10 ms); it is an assumption about speed that the code cannot enforce.
  `DisconnectReturns` also uses that the disconnecting caller's own steps are taken.

## Proofs

All proofs are of safety. Each has the same shape: an inductive invariant `IInv`
holds initially, every step keeps it, and it implies the property.

- `RequestServiceProofs` (any set of requests; assumes `Shutdown` is not one).
  `NoOrphan` speaks of submissions that have returned. It is not inductive: a
  sender between its push and its second look at `is_alive` may find the channel
  drained. `Pending` covers those senders (then the worker is dead and they will
  see it) and `Lifecycle` ties the flags to the worker's phase.
- `ControlPartsProofs`, `ResponseHandle` (any waiters, tasks, fulfillers).
  `Wakeups` says that whoever is about to look at the cell again is registered to
  be woken or will find it set; `Agreement` that every result seen is the recorded one.
- `ControlPartsProofs`, `TransactionTimer` (any timeout, retry count, pending
  budget, slack and lag, any number of other transactions and heartbeats).
  `Deadlines` bounds the deadline by the pending budget plus the cost of the
  retransmissions used so far, which gives `HoldIsBounded`. `Undelayed` follows a
  request nobody delays: it is alone in the queue (`OwnIsNext`) or in flight with
  a deadline counted from its submission (`OwnIsSent`), which gives
  `BudgetCoversRetries`.
- `ControlPartsProofs`, `RegisterCache` (any description that satisfies
  `WellDescribed`: a cached register names as invalidator every register that can share its block, drive
  its block or move its address; no cached register is addressed through a
  literal; no acknowledge is lost). `CoherentWith`: a cache holds nothing but what
  its block holds. `CacheStruct`, `CacheFeatureInvalidator`, `CacheSelector` and
  `CacheLostAck` each drop one of these conditions. What `FeatureGraph` may do
  follows for its small instance by `ImplementsCache`.
- `PacketSizeProofs` (any grid, candidates, limits and losses that satisfy
  `SizeAssumption`). `SizeWasDelivered` speaks of the end only; `Delivered` says
  of every phase that the best size so far was received, that every packet has a
  size the device supports, so that it keeps a size received when it is
  written, and that the probes of the bisection are not below the smallest
  candidate. `SizeIsLargest` needs `Searched`: on a link without losses the lower
  end of the search fits, the upper end does not, and both are on the grid, so
  that nothing lies between them when they are an increment apart.
- `ControlWorkerLemmas`, `ControlWorkerProofs`, `ControlServiceProofs` (any
  requests, lengths, chunk sizes, id range, retries, odd answers and failing sends that satisfy `ConstantsAssumption`). All safety
  properties of the run are proved, the two step properties too.
  - `AnswersMatch`: `Current` says that whatever carries the id of the transaction
    in flight, on its way out or back, is its command or answers it.
  - `ReadsReassemble`: `Progress` says that an op on hand has collected exactly
    the units before its next one.
  - `WritesLand`: `Landing` relates three places. What the device has executed is
    a prefix; a command under way begins at most one unit past it, so that a
    retransmission repeats and never skips; an op counts executed units only.
  - `NoOvertaking`: `Single` puts a request in one place at a time. The proof
    gives each request a position in the line from the one in flight to the end
    of the channel, and shows step by step that positions keep their order. A
    transfer that steps aside for a heartbeat goes second, behind it alone,
    because `HeartbeatFirst`.
  - `ImplementsService`: the refinement, one lemma per action. A step of the
    worker settles at most one request and drops it from `Held`, or is a step of
    the port, or is not seen by the service.
  - `NoOrphan` is not proved again: the theorem of `RequestServiceProofs` is
    carried over along the refinement.
- `CameraSessionProofs` (any modes, capacity, number of snaps, refused steps).
  `Placed` says which steps belong to which guard, `PutBack` at which of them a
  register may differ from what was found, and `Quiet` at which the camera may be
  acquiring. None of them supposes anything of a snap's timeout. A camera that
  stops itself is followed by `SelfStopped`: its frame does not exist before it
  has stopped, so that a frame received, unless it is a late one, is a camera at
  rest. `Known` says where the frames of a snap can come from, which gives
  `SnapIsOwnOrLate`. The set of modes does not hold the word the
  model uses for "no mode to restore" (`"none" \notin Modes`).
- `FrameAssemblyProofs` (any buffer, block sizes, lengths, estimates and order of
  the packets; assumes that no frame takes more than `MAX_FRAME_PACKETS`). The
  inductive invariant `IInv` says that the books of a frame follow from the set of
  packets received, whatever their order: `Sized` for the number expected,
  `Waits` for a frame whose packets are held back, `Filled` for one whose bytes
  are in place. `Holds` ties the data, its length and the received size to the
  bytes of those packets; the lemmas on `Bytes` show that blocks do not overlap
  and that their sizes add up.

Each of these invariants was checked with TLC before it was proved, on the
instance of the run or a larger one.

Only model-checked, and why:

- all liveness: the prover does not treat fairness;
- `FeatureGraph` and `Formula`, and with them `ImplementsCache`: evaluation is
  recursive over the graph or the tokens, and what a recursive definition computes
  for every input needs induction over data;
- `StreamReceiver`: its completion check folds over the sequence of frames in
  flight, which again is induction;
- `AskedBeforeGivingUp` of `PacketResend`: it depends on how the timeouts compare
  (a retention time shorter than the packet timeouts gives up first);
- `ProbesAreFew` of `PacketSize`: how often a range can be halved is induction;
- `EmulatedDevice` (`ExecutedOnce`, `AnswersAreCurrent`) and the calls of
  `Discovery`: no obstacle is known, the
  proofs are not written.

## Not modelled

- Byte layouts of GVCP, GVSP and the bootstrap registers: messages are records.
- Parsing of the camera description: sequential. The tokens of formulas; the
  rounding of doubles and the signed zero (doubles are fractions); the values of
  library functions.
- Description retrieval, tuning, telemetry, counters, clocks, Python bindings:
  no state that the modelled parts depend on.
- Message-channel events: fan-out to bounded channels, apart from all modelled state.
- Panics. The crate forbids explicit ones; the exit guard would mark the worker
  dead without failing the handles it had taken.
- Transfers of length zero: the worker has something to ask for in every request.
- Devices that answer the fire test only for sizes they support exactly (a
  comment in `negotiate_packet_size` mentions them): the device of `PacketSize`
  rounds down.
- In modelled parts: events and telemetry in the control worker, statistics and
  time stamps in the stream worker, feature access between lifecycle steps,
  test packets and frame encoding of the emulator, float registers and computed
  register lengths in the graph, `is_reachable` in discovery.

## Plan

1. Components: event fan-out to bounded channels; the ids of resend requests
   beside those of the control worker (`stream/runner.rs:781` says the ranges are
   apart; they overlap from 65300 to 65534).
2. Composition: the control worker against the emulated device in place of the
   abstract one; `PacketResend` with `StreamReceiver`; the node graph over the
   control worker, where one call is several transactions.
3. Proofs, in this order: the calls of `Discovery` (an answer is found when its
   turn comes: it has a place in its socket and the rounds left are enough),
   exactly-once execution in `EmulatedDevice`, distances of block ids (`BlockIds`),
   conservation of buffers in `StreamReceiver`.
