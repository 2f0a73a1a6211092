----------------------------- MODULE FeatureGraph -----------------------------
(***************************************************************************)
(* The GenICam node graph (src/genicam/node.rs): features whose values are *)
(* chased along pValue, pIndex, pVariable and pAddress links down to       *)
(* register reads and writes.  A call on the graph is one step; it is      *)
(* evaluated the way the code does, in the same order, threading the state *)
(* of the graph through: the register caches, the visit stack that detects *)
(* circular descriptions, and what the call sets out to write at its end.  *)
(*                                                                         *)
(* The registers, their caches and the device are those of RegisterCache,  *)
(* which this module implements.  A field of a block is a bit: bit k of    *)
(* the block is bit k % ByteBits of byte k \div ByteBits.  All registers   *)
(* have the length of a block.  A text has one character per byte, none of *)
(* them zero.  Float registers are left out.                               *)
(***************************************************************************)
EXTENDS RegisterCache, Formula

CONSTANTS
  Node,         \* what each node is: its kind and links
  ByteBits,     \* bits of a byte: 8 in the code
  BlockBits,    \* bits of a register
  Ints,         \* values that are set through features
  Floats,
  Texts,
  Answering     \* the sets of blocks the device may answer for during a call

VARIABLES
  lits,         \* the value kept by each feature that has a literal one
  visit         \* Genicam::visit, between calls

graphVars == <<mem, at, cache, lits, visit>>

\* ValueRef.
NoRef == [ref |-> "None"]
LitInt(n) == [ref |-> "LitInt", v |-> I(n)]
LitFloat(n, d) == [ref |-> "LitFloat", v |-> F(n, d)]
Link(n) == [ref |-> "Link", to |-> n]
Indexed(index, entries, default) == [ref |-> "Indexed", index |-> index, entries |-> entries, default |-> default]

LitStr(s) == [ref |-> "LitStr", v |-> s]

IsLit(vr) == vr.ref \in {"LitInt", "LitFloat"}
Valued == {"Integer", "Float", "Boolean", "Enumeration", "Command", "Converter", "String"}
Literals == {n \in Features : Node[n].kind \in Valued /\ Node[n].value.ref \in {"LitInt", "LitFloat", "LitStr"}}

\* Indexed::pick.
Pick(ix, i) == IF i \in DOMAIN ix.entries THEN ix.entries[i] ELSE ix.default

-----------------------------------------------------------------------------
\* A call under way: the graph and the device as it finds them, the blocks the
\* device answers for, the value computed last, the first error, and what the
\* call is to write at its end.
NoEffect == [kind |-> "none"]
Start(c, m, l, blocks) ==
  [cache |-> c, mem |-> m, lits |-> l, answering |-> blocks, visit |-> <<>>, v |-> I(0), err |-> "", effect |-> NoEffect]

\* Nothing is done any more to a call that has failed.
Return(o, v) == IF o.err = "" THEN [o EXCEPT !.v = v] ELSE o
Fail(o, e) == IF o.err = "" THEN [o EXCEPT !.err = e] ELSE o

\* The value reference of a node, with the literal it holds now.
ValueOf(n, o) == IF n \in Literals THEN [Node[n].value EXCEPT !.v = o.lits[n]] ELSE Node[n].value

\* Mutant: a call that fails does not leave the nodes it entered.
LeaveUnlessFailed(o) == IF o.err # "" \/ o.visit = <<>> THEN o ELSE [o EXCEPT !.visit = Front(@)]

\* Genicam::enter and leave: a node met again while it is being evaluated is
\* circular, and the stack is cleared at once.
Enter(n, o) ==
  CASE o.err # "" -> o
    [] o.err = "" /\ n \in ToSet(o.visit) -> [Fail(o, "Circular") EXCEPT !.visit = <<>>]
    [] OTHER -> [o EXCEPT !.visit = Append(@, n)]
Leave(o) == IF o.visit = <<>> THEN o ELSE [o EXCEPT !.visit = Front(@)]

-----------------------------------------------------------------------------
\* load_u64 and store_u64: where bit k of the block is in the loaded number.
Position(k, endianness) ==
  IF endianness = "Little" THEN k ELSE (BlockBits - ByteBits - (k - (k % ByteBits))) + (k % ByteBits)
Load(bytes, endianness) == FromBits({Position(k, endianness) : k \in {f \in Fields : bytes[f] = 1}})
Store(n, endianness) == [k \in Fields |-> Bit(n, Position(k, endianness))]

\* bit_range: the bits a register selects, counted from the least significant.
\* Big-endian registers number theirs from the other end.  -1 stands for None.
Unmasked(reg) == reg.lsb < 0 /\ reg.msb < 0
BitRange(reg) ==
  LET lsb == IF reg.lsb >= 0 THEN reg.lsb ELSE reg.msb
      msb == IF reg.msb >= 0 THEN reg.msb ELSE reg.lsb
  IN  IF Unmasked(reg) THEN <<0, BlockBits - 1>>
      ELSE IF reg.endianness = "Big" THEN <<BlockBits - 1 - lsb, BlockBits - 1 - msb>>
      ELSE <<IF reg.lsb >= 0 THEN lsb ELSE 0, msb>>
RangeFits(reg) == LET b == BitRange(reg) IN 0 <= b[1] /\ b[1] <= b[2] /\ b[2] < BlockBits
Width(reg) == BitRange(reg)[2] - BitRange(reg)[1] + 1

\* Mutant: the sign is not extended.
ExtractUnsigned(bytes, reg) == (Load(bytes, reg.endianness) \div (2 ^ BitRange(reg)[1])) % (2 ^ Width(reg))

\* extract_int, with the sign extended from the top bit of the field.
ExtractInt(bytes, reg) ==
  LET n == (Load(bytes, reg.endianness) \div (2 ^ BitRange(reg)[1])) % (2 ^ Width(reg))
  IN  IF reg.sign = "Signed" /\ Bit(n, Width(reg) - 1) = 1 THEN n - 2 ^ Width(reg) ELSE n

\* Mutant: the rest of the register is sent as zero.
InsertAlone(current, n, reg) == Store((2 ^ BitRange(reg)[1]) * (n % (2 ^ Width(reg))), reg.endianness)

\* insert_int, and encode_int for a register without a mask.
InsertInt(current, n, reg) ==
  LET lo == 2 ^ BitRange(reg)[1]
      old == Load(current, reg.endianness)
      field == (old \div lo) % (2 ^ Width(reg))
  IN  Store(old + lo * ((n % (2 ^ Width(reg))) - field), reg.endianness)
EncodeInt(n, reg) == Store(n, reg.endianness)

-----------------------------------------------------------------------------
\* The value of a node as an integer ("I") or a double ("F").
RECURSIVE ValueAs(_, _, _)
IntValue(n, o) == ValueAs("I", n, o)
FloatValue(n, o) == ValueAs("F", n, o)
Converted(type, v) == IF type = "I" THEN I(AsI64(v)) ELSE AsF(v)

\* resolve: a link to a node that is not there fails when it is followed.
LinkedValue(type, n, o) == IF n \in Nodes THEN ValueAs(type, n, o) ELSE Fail(o, "Dangling")

\* selected: the entry that the index node's current value picks, which is a
\* link or a literal.  Other references are their own.
Picked(ix, o) == Return(o, Pick(ix, o.v.num))
Selected(vr, o) == IF vr.ref = "Indexed" THEN Picked(vr, LinkedValue("I", vr.index, o)) ELSE Return(o, vr)

\* ref_int and ref_float.
SelectedValue(type, o) ==
  CASE o.err # "" -> o
    [] o.err = "" /\ IsLit(o.v) -> Return(o, Converted(type, o.v.v))
    [] o.err = "" /\ o.v.ref = "Link" -> LinkedValue(type, o.v.to, o)
    [] OTHER -> Fail(o, "WrongType")
RefValue(type, vr, o) == SelectedValue(type, Selected(vr, o))

\* register_address: the sum of the address terms.
RECURSIVE AddTerms(_, _)
AddTerm(sum, o) == Return(o, I(sum + o.v.num))
AddTerms(terms, o) ==
  IF terms = <<>> THEN o
  ELSE AddTerms(Tail(terms), AddTerm(o.v.num, RefValue("I", Head(terms), o)))
RegisterAddress(r, o) == AddTerms(Node[r].address, Return(o, I(0)))

\* register_read: the cache is looked at before the address is computed.
PortRead(r, o) ==
  IF o.err # "" \/ o.v.num \notin o.answering THEN Fail(o, "Port")
  ELSE [o EXCEPT !.v = o.mem[o.v.num], !.cache[r] = IF Cachable[r] = "NoCache" THEN @ ELSE {o.mem[o.v.num]}]
RegisterRead(r, o) ==
  CASE Access[r] = "WO" -> Fail(o, "Access")
    [] Access[r] # "WO" /\ Cachable[r] # "NoCache" /\ o.cache[r] # {} -> Return(o, CHOOSE b \in o.cache[r] : TRUE)
    [] OTHER -> PortRead(r, RegisterAddress(r, o))

\* The value a converter or a formula sees behind a link: a double if the
\* target is a float, else an integer.
TypeOf(n) == IF n \in Nodes /\ Node[n].kind = "Float" THEN "F" ELSE "I"
TypedValue(n, o) == LinkedValue(TypeOf(n), n, o)

\* eval_formula: the variables in order, bound to a builtin, a pVariable or a
\* node of that name.  The formula is at hand as compiled on its first use.
Variable(n, name) == IF name \in DOMAIN Node[n].variables THEN Node[n].variables[name] ELSE name
Known(n, name) == name \in DOMAIN Node[n].variables \cup Nodes
With(env, name, o) == Return(o, env @@ (name :> o.v))
RECURSIVE Bind(_, _, _)
Bind(n, names, o) ==
  CASE o.err # "" \/ names = <<>> -> o
    [] o.err = "" /\ names # <<>> /\ Head(names) \in DOMAIN o.v -> Bind(n, Tail(names), o)
    [] OTHER ->
         IF Known(n, Head(names))
         THEN Bind(n, Tail(names), With(o.v, Head(names), TypedValue(Variable(n, Head(names)), o)))
         ELSE Fail(o, "Formula")
Computed(o, result) == IF result = Failed THEN Fail(o, "Formula") ELSE Return(o, result[1])
Compute(formula, o) == IF o.err # "" THEN o ELSE Computed(o, Eval(formula.rpn, o.v))
EvalFormula(n, formula, builtins, o) ==
  IF formula.ok THEN Compute(formula, Bind(n, VariablesOf(formula.rpn), Return(o, builtins))) ELSE Fail(o, "Formula")

\* eval_converter: the raw value behind pValue, converted for the user.
RawValue(o) == IF o.err = "" /\ o.v.ref = "Link" THEN TypedValue(o.v.to, o) ELSE SelectedValue("I", o)
FromRaw(n, raw) == EvalFormula(n, Node[n].formula_from, "TO" :> raw.v, raw)
EvalConverter(n, o) == FromRaw(n, RawValue(Selected(ValueOf(n, o), o)))

\* int_value and float_value; only the integer one is defined for booleans,
\* enumerations and integer registers.
FieldValue(reg, o) == IF RangeFits(reg) THEN Return(o, I(ExtractInt(o.v, reg))) ELSE Fail(o, "Formula")
AsType(type, o) == Return(o, Converted(type, o.v))
ValueInner(type, n, o) ==
  CASE Node[n].kind = "Integer" \/ (type = "I" /\ Node[n].kind \in {"Boolean", "Enumeration"}) ->
         AsType(type, RefValue("I", ValueOf(n, o), o))
    [] Node[n].kind = "Float" -> AsType(type, RefValue("F", ValueOf(n, o), o))
    [] Node[n].kind = "Register" /\ type = "I" -> FieldValue(Node[n], RegisterRead(n, o))
    [] Node[n].kind = "Converter" -> AsType(type, EvalConverter(n, o))
    [] Node[n].kind = "SwissKnife" -> AsType(type, EvalFormula(n, Node[n].formula, <<>>, o))
    [] OTHER -> Fail(o, "WrongType")
ValueEntered(type, n, o) == IF o.err # "" THEN o ELSE Leave(ValueInner(type, n, o))
ValueAs(type, n, o) == ValueEntered(type, n, Enter(n, o))

\* bool_value.
IsValue(n, o) == Return(o, o.v.num = n)
IsSet(o) == Return(o, o.v.num # 0)
BoolValue(n, o) ==
  IF Node[n].kind = "Boolean" THEN IsValue(Node[n].on_value, RefValue("I", ValueOf(n, o), o)) ELSE IsSet(IntValue(n, o))

\* string_value: of a text register up to the first zero, of an enumeration the
\* name of its entry.  Only a string feature is put on the visit stack.
Characters == BlockBits \div ByteBits
Character(bytes, i) == FromBits({j \in 0 .. ByteBits - 1 : bytes[ByteBits * (i - 1) + j] = 1})
TextOf(bytes) ==
  LET zeros == {i \in 1..Characters : Character(bytes, i) = 0}
  IN  [i \in 1 .. (IF zeros = {} THEN Characters ELSE Min(zeros) - 1) |-> Character(bytes, i)]
EncodeText(s) ==
  [k \in Fields |-> LET i == k \div ByteBits + 1 IN IF i <= Len(s) THEN Bit(s[i], k % ByteBits) ELSE 0]

EntryNames(n, i) == {e \in DOMAIN Node[n].entries : Node[n].entries[e] = i}
EntryName(n, o) ==
  IF o.err # "" \/ EntryNames(n, o.v.num) = {} THEN Fail(o, "NoSuchEntry")
  ELSE Return(o, CHOOSE e \in EntryNames(n, o.v.num) : TRUE)
AsText(o) == Return(o, TextOf(o.v))
RECURSIVE StringValue(_, _)
StringEntered(to, o) == IF o.err # "" THEN o ELSE Leave(StringValue(to, o))
LinkedString(n, to, o) == IF to \in Nodes THEN StringEntered(to, Enter(n, o)) ELSE Fail(o, "Dangling")
StringValue(n, o) ==
  CASE Node[n].kind = "String" /\ Node[n].value.ref = "LitStr" -> Return(o, ValueOf(n, o).v)
    [] Node[n].kind = "String" /\ Node[n].value.ref = "Link" -> LinkedString(n, Node[n].value.to, o)
    [] Node[n].kind = "TextRegister" -> AsText(RegisterRead(n, o))
    [] Node[n].kind = "Enumeration" -> EntryName(n, IntValue(n, o))
    [] OTHER -> Fail(o, "WrongType")

\* int_bounds, int_increment and float_bounds.
RefOr(type, vr, default, o) == IF vr.ref = "None" THEN Return(o, default) ELSE RefValue(type, vr, o)
Pair(lo, o) == Return(o, <<lo, o.v>>)
UpTo(type, vr, highest, lo) == Pair(lo.v, RefOr(type, vr, highest, lo))
Bounds(type, n, lowest, highest, o) == UpTo(type, Node[n].max, highest, RefOr(type, Node[n].min, lowest, o))

IntBounds(n, o) ==
  CASE Node[n].kind = "Integer" -> Bounds("I", n, I(MinInt), I(MaxInt), o)
    [] Node[n].kind = "Register" -> Return(o, <<I(MinInt), I(MaxInt)>>)
    [] OTHER -> Fail(o, "WrongType")
FloatBounds(n, o) ==
  IF Node[n].kind = "Float" THEN Bounds("F", n, NegF(MaxF), MaxF, o) ELSE Fail(o, "WrongType")
IntIncrement(n, o) ==
  IF Node[n].kind = "Integer" THEN RefOr("I", Node[n].inc, I(1), o) ELSE Fail(o, "WrongType")

-----------------------------------------------------------------------------
\* Setting a node to an integer or a double.
RECURSIVE SetValue(_, _, _)
SetInt(n, v, o) == SetValue(n, I(v), o)
SetFloat(n, v, o) == SetValue(n, v, o)

KeepLiteral(n, o) == IF o.err # "" THEN o ELSE [o EXCEPT !.effect = [kind |-> "literal", node |-> n, v |-> o.v]]

\* register_write, up to what goes out to the device.
PortWrite(r, bytes, o) ==
  IF o.err # "" THEN o ELSE [o EXCEPT !.effect = [kind |-> "write", reg |-> r, block |-> o.v.num, bytes |-> bytes]]
RegisterWrite(r, bytes, o) ==
  IF Access[r] = "RO" THEN Fail(o, "Access") ELSE PortWrite(r, bytes, RegisterAddress(r, o))

\* set_ref_int, set_ref_value and their like for a float: the value computed last
\* is kept in the graph where the node has a literal of its type, else handed on
\* along the link, which an indexed value must come to.  Only what comes out of
\* a converter is adapted to the target of the link.
KeptAs(n) == CASE Node[n].kind = "Float" -> {"LitFloat"} [] Node[n].kind = "Converter" -> {} [] OTHER -> {"LitInt"}
SetSelected(v, adapts, o) ==
  IF o.err # "" \/ o.v.ref # "Link" THEN Fail(o, "Access")
  ELSE IF o.v.to \notin Nodes THEN Fail(o, "Dangling")
  ELSE SetValue(o.v.to, IF adapts THEN Converted(TypeOf(o.v.to), v) ELSE v, o)
SetRef(n, o) ==
  IF Node[n].value.ref \in KeptAs(n) THEN KeepLiteral(n, o)
  ELSE SetSelected(o.v, Node[n].kind = "Converter", Selected(ValueOf(n, o), o))

\* set_int_value and set_float_value.  A masked register is read, modified and
\* written; a converter's value goes through formula_to on its way down.
WriteInt(n, i, o) ==
  IF RangeFits(Node[n]) THEN RegisterWrite(n, IF Unmasked(Node[n]) THEN EncodeInt(i, Node[n]) ELSE InsertInt(o.v, i, Node[n]), o)
  ELSE Fail(o, "Formula")
Downward(n, v, o) ==
  CASE Node[n].kind = "Converter" -> EvalFormula(n, Node[n].formula_to, "FROM" :> v, o)
    [] Node[n].kind = "Integer" -> Return(o, Converted("I", v))
    [] OTHER -> Return(o, v)
SettableAs(v) ==
  {"Integer", "Converter"} \cup (IF v.type = "I" THEN {"Boolean", "Enumeration", "Command"} ELSE {"Float"})
SetInner(n, v, o) ==
  CASE Node[n].kind \in SettableAs(v) -> SetRef(n, Downward(n, v, o))
    [] Node[n].kind = "Register" /\ v.type = "I" ->
         WriteInt(n, v.num, IF Unmasked(Node[n]) THEN o ELSE RegisterRead(n, o))
    [] OTHER -> Fail(o, "WrongType")
SetEntered(n, v, o) == IF o.err # "" THEN o ELSE Leave(SetInner(n, v, o))
SetValue(n, v, o) == SetEntered(n, v, Enter(n, o))

\* set_bool_value, set_enum_entry, execute.
SetBool(n, b, o) ==
  LET node == Node[n]
      on == IF node.kind = "Boolean" THEN node.on_value ELSE 1
      off == IF node.kind = "Boolean" THEN node.off_value ELSE 0
  IN  SetInt(n, IF b THEN on ELSE off, o)

SetEntry(n, entry, o) ==
  CASE Node[n].kind # "Enumeration" -> Fail(o, "WrongType")
    [] Node[n].kind = "Enumeration" /\ entry \notin DOMAIN Node[n].entries -> Fail(o, "NoSuchEntry")
    [] OTHER -> SetInt(n, Node[n].entries[entry], o)

\* set_string_value: a text that is too long for its register is cut off.
RECURSIVE SetString(_, _, _)
SetStringEntered(to, s, o) == IF o.err # "" THEN o ELSE Leave(SetString(to, s, o))
SetLinkedString(n, to, s, o) == IF to \in Nodes THEN SetStringEntered(to, s, Enter(n, o)) ELSE Fail(o, "Dangling")
SetString(n, s, o) ==
  CASE Node[n].kind = "String" /\ Node[n].value.ref = "LitStr" -> KeepLiteral(n, Return(o, s))
    [] Node[n].kind = "String" /\ Node[n].value.ref = "Link" -> SetLinkedString(n, Node[n].value.to, s, o)
    [] Node[n].kind = "String" /\ Node[n].value.ref \notin {"LitStr", "Link"} -> Fail(o, "Access")
    [] Node[n].kind = "TextRegister" -> RegisterWrite(n, EncodeText(s), o)
    [] Node[n].kind = "Enumeration" -> SetEntry(n, s, o)
    [] OTHER -> Fail(o, "WrongType")

Execute(n, o) ==
  IF Node[n].kind # "Command" THEN Fail(o, "WrongType") ELSE SetRef(n, RefOr("I", Node[n].command_value, I(1), o))

\* Mutant: the index is never known.
StaticDefault(vr, l) == IF vr.ref = "Indexed" THEN vr.default ELSE vr

\* access_mode, which follows the chain without asking the device, for as many
\* links as there are nodes; and the entry an indexed value has if its index
\* is a constant.
StaticEntry(vr, l) ==
  LET constant == vr.index \in Literals /\ Node[vr.index].kind = "Integer" /\ Node[vr.index].value.ref = "LitInt"
  IN  IF vr.ref # "Indexed" THEN vr ELSE IF constant THEN Pick(vr, l[vr.index].num) ELSE vr.default

RECURSIVE AccessAfter(_, _, _)
AccessAfter(n, links, l) ==
  LET vr == StaticEntry(Node[n].value, l)
  IN  CASE links = 0 -> "RO"
        [] links > 0 /\ n \in Registers -> Access[n]
        [] links > 0 /\ Node[n].kind = "Command" -> "WO"
        [] links > 0 /\ Node[n].kind \in Valued \ {"Command", "String"} ->
             (CASE IsLit(vr) -> "RW"
                [] vr.ref = "Link" /\ vr.to \in Nodes -> AccessAfter(vr.to, links - 1, l)
                [] OTHER -> "RO")
        [] OTHER -> "RO"
AccessMode(n, l) == AccessAfter(n, Cardinality(Nodes) + 1, l)

-----------------------------------------------------------------------------
\* Where the addresses of the registers come to, with the device at hand.
NoCaches == [r \in Registers |-> {}]
Addresses(m, l) == [r \in Registers |-> RegisterAddress(r, Start(NoCaches, m, l, Blocks)).v.num]

GraphInit ==
  /\ mem \in [Blocks -> Contents]
  /\ lits = [n \in Literals |-> Node[n].value.v]
  /\ at = Addresses(mem, lits)
  /\ cache = NoCaches
  /\ visit = <<>>

\* How a call ends: it failed or only read; it changed a literal; or its bytes
\* go to the device, which acknowledges them, refuses them, or carries them out
\* and is not heard.
Reads(o) ==
  /\ o.err # "" \/ o.effect = NoEffect
  /\ cache' = o.cache
  /\ UNCHANGED <<mem, at, lits>>

SetsLiteral(o) ==
  /\ o.err = "" /\ o.effect.kind = "literal"
  /\ cache' = o.cache
  /\ lits' = [lits EXCEPT ![o.effect.node] = o.effect.v]
  /\ at' = Addresses(mem, lits')
  /\ UNCHANGED mem

Writes(o) ==
  /\ o.err = "" /\ o.effect.kind = "write"
  /\ UNCHANGED lits

Acknowledged(o) ==
  /\ Writes(o)
  /\ DeviceTakes(o.effect.block, o.effect.bytes)
  /\ cache' = CacheWrite(o.cache, o.effect.reg, o.effect.bytes)
  /\ at' = Addresses(mem', lits)

Refused(o) ==
  /\ Writes(o)
  /\ cache' = o.cache
  /\ UNCHANGED <<mem, at>>

Unheard(o) ==
  /\ AcksLost
  /\ Writes(o)
  /\ DeviceTakes(o.effect.block, o.effect.bytes)
  /\ cache' = o.cache
  /\ at' = Addresses(mem', lits)

End(o) ==
  /\ visit' = o.visit
  /\ Reads(o) \/ SetsLiteral(o) \/ Acknowledged(o) \/ Refused(o) \/ Unheard(o)

\* The calls on the graph.
Call(blocks) == [Start(cache, mem, lits, blocks) EXCEPT !.visit = visit]
Ask == Call(Blocks)

Get(n) ==
  \E blocks \in Answering :
    LET Answers(o) == Reads(o) /\ visit' = o.visit
    IN  \/ Answers(IntValue(n, Call(blocks)))
        \/ Answers(FloatValue(n, Call(blocks)))
        \/ Answers(BoolValue(n, Call(blocks)))
        \/ Answers(StringValue(n, Call(blocks)))
        \/ Answers(IntBounds(n, Call(blocks)))
        \/ Answers(FloatBounds(n, Call(blocks)))
        \/ Answers(IntIncrement(n, Call(blocks)))
SetIntValue(n, v) == \E blocks \in Answering : End(SetInt(n, v, Call(blocks)))
SetFloatValue(n, v) == \E blocks \in Answering : End(SetFloat(n, v, Call(blocks)))
SetBoolValue(n, b) == \E blocks \in Answering : End(SetBool(n, b, Call(blocks)))
SetEnumEntry(n) ==
  \E blocks \in Answering, e \in DOMAIN Node[n].entries \cup {"other"} : End(SetString(n, e, Call(blocks)))
SetStringValue(n, s) == \E blocks \in Answering : End(SetString(n, s, Call(blocks)))
ExecuteCommand(n) == \E blocks \in Answering : End(Execute(n, Call(blocks)))
Invalidate == InvalidateCaches /\ UNCHANGED <<lits, visit>>

OfKind(kind) == {n \in Nodes : Node[n].kind = kind}

GraphNext ==
  \/ \E n \in Nodes : Get(n)
  \/ \E n \in Nodes, v \in Ints : SetIntValue(n, v)
  \/ \E n \in Nodes, v \in Floats : SetFloatValue(n, v)
  \/ \E n \in OfKind("Boolean"), b \in BOOLEAN : SetBoolValue(n, b)
  \/ \E n \in OfKind("Enumeration") : SetEnumEntry(n)
  \/ \E n \in OfKind("String") \cup OfKind("TextRegister"), s \in Texts : SetStringValue(n, s)
  \/ \E n \in OfKind("Command") : ExecuteCommand(n)
  \/ Invalidate

GraphSpec == GraphInit /\ [][GraphNext]_graphVars

-----------------------------------------------------------------------------
\* The graph keeps the promise of RegisterCache: whatever a call evaluates, it
\* reads registers and writes at most one, at the address its register has
\* then, and a call that fails has changed nothing but caches.
ImplementsCache == CacheSpec

\* The nodes that the value of a node depends on, with the index nodes as they
\* stand.
References(n) ==
  CASE Node[n].kind = "Register" -> ToSet(Node[n].address)
    [] Node[n].kind \in {"Integer", "Float", "Boolean", "Enumeration", "Converter"} -> {Node[n].value}
    [] OTHER -> {}
Formulas(n) ==
  CASE Node[n].kind = "SwissKnife" -> {Node[n].formula}
    [] Node[n].kind = "Converter" -> {Node[n].formula_from}
    [] OTHER -> {}
Linked(vr) == IF vr.ref = "Link" THEN {vr.to} ELSE {}
RefUses(vr) ==
  IF vr.ref = "Indexed"
  THEN {vr.index} \cup Linked(Selected(vr, Start(NoCaches, mem, lits, Blocks)).v)
  ELSE Linked(vr)
FormulaUses(n, formula) == {Variable(n, name) : name \in ToSet(VariablesOf(formula.rpn)) \ {"FROM", "TO"}}
Uses(n) == UNION ({RefUses(vr) : vr \in References(n)} \cup {FormulaUses(n, formula) : formula \in Formulas(n)})

RECURSIVE Closure(_)
ClosureOnce(S, T) == IF T = S THEN S ELSE Closure(T)
Closure(S) == ClosureOnce(S, S \cup UNION {Uses(n) : n \in S \cap Nodes})

\* A value is reported as circular exactly when the nodes it depends on, in the
\* state of the moment, lead back to one of them; a node that is reached twice
\* on the way is not a circle.
CircularMeansLoop ==
  \A n \in Nodes :
    IntValue(n, Ask).err = "Circular" <=> \E m \in Closure({n}) \cap Nodes : m \in Closure(Uses(m))

\* The set call a node is made for.
SetOfItsKind(n, v, o) ==
  IF Node[n].kind \in {"String", "TextRegister"} THEN SetString(n, <<>>, o)
  ELSE SetValue(n, IF Node[n].kind = "Float" THEN AsF(I(v)) ELSE I(v), o)

\* Whether the indexed values on the way of a set now select what can be told
\* without asking the device: the entry of an index that is a constant, or else
\* the default; and it is a link.
RECURSIVE Foreseen(_, _)
ForeseenAt(vr, now, links) ==
  /\ vr.ref = "Indexed" => now.ref = "Link" /\ (vr.index \in Literals \/ now = vr.default)
  /\ now.ref = "Link" /\ now.to \in Nodes => Foreseen(now.to, links - 1)
Foreseen(n, links) ==
  links > 0 /\ Node[n].kind \in Valued \ {"Command", "String"} =>
    ForeseenAt(Node[n].value, Selected(Node[n].value, Ask).v, links)

\* access_mode tells beforehand what a set will do: what it calls read-only
\* cannot be set, and what it calls writable is not refused for want of access
\* nor for the shape of its chain.  This is so in all states in which the
\* indexed values on the way select what can be told without the device.
SetAsPromised(mode, o) == IF mode = "RO" THEN o.err # "" ELSE o.err \notin {"Access", "Circular", "Dangling", "WrongType"}
AccessHolds(n) == \A v \in Ints : SetAsPromised(AccessMode(n, lits), SetOfItsKind(n, v, Ask))
AccessModeIsHonest ==
  \A n \in Nodes \ OfKind("String") : Foreseen(n, Cardinality(Nodes) + 1) => AccessHolds(n)

\* The same at all times: an index that the device has moved, or an entry that
\* is a literal, refutes it.
EntryAccessIsHonest == \A n \in Nodes \ OfKind("String") : AccessHolds(n)

\* The same of string features, which access_mode calls read-only whatever
\* their chain ends at: a text register that can be written refutes it.
StringAccessIsHonest == \A n \in OfKind("String") : AccessHolds(n)

\* What a set that is carried out leaves for the next call.
Effective(o) == o.err = "" /\ o.effect.kind # "none"
AfterEffect(e, o) ==
  IF e.kind = "literal"
  THEN Start(o.cache, o.mem, [o.lits EXCEPT ![e.node] = e.v], Blocks)
  ELSE Start(CacheWrite(o.cache, e.reg, e.bytes), [o.mem EXCEPT ![e.block] = e.bytes], o.lits, Blocks)
After(o) == AfterEffect(o.effect, o)
Within(v, b) == b.err = "" /\ b.v[1].num <= v /\ v <= b.v[2].num

\* What was set, v, is what the node reads as.
IntKept(n, v, o) == Effective(o) /\ Within(v, IntBounds(n, Ask)) => IntValue(n, After(o)).v = I(v)
FloatKept(n, v, o) == Effective(o) => FloatValue(n, After(o)).v = v
BoolKept(n, b, o) == Effective(o) => BoolValue(n, After(o)).v = b
TextKept(n, s, o) == Effective(o) => StringValue(n, After(o)).v = s

\* A value within the bounds its feature declares, once set and acknowledged,
\* is what the feature reads as: through caches and masks, sign and byte order,
\* converters and indexed values.
ReadsBack ==
  /\ \A n \in OfKind("Integer"), v \in Ints : IntKept(n, v, SetInt(n, v, Ask))
  /\ \A n \in OfKind("Float"), f \in Floats : FloatKept(n, f, SetFloat(n, f, Ask))
  /\ \A n \in OfKind("Boolean"), b \in BOOLEAN : BoolKept(n, b, SetBool(n, b, Ask))
  /\ \A n \in OfKind("Enumeration") : \A e \in DOMAIN Node[n].entries : TextKept(n, e, SetEntry(n, e, Ask))
  /\ \A n \in OfKind("String"), s \in Texts : TextKept(n, SubSeq(s, 1, Min({Len(s), Characters})), SetString(n, s, Ask))
=============================================================================
