---------------------------- MODULE MCFeatureGraph ----------------------------
(***************************************************************************)
(* A small device description for FeatureGraph.  A byte is one bit and a   *)
(* register two bytes, so that byte order matters; the word of the         *)
(* evaluator has four bits.  Some behaviours are about one formula instead *)
(* and leave the graph alone.                                              *)
(***************************************************************************)
EXTENDS FeatureGraph, FormulaTrees

CONSTANT BareMiddle     \* may a conditional stand bare in the middle of another?

VARIABLE source         \* the syntax tree of a formula, or none

MCLibm(op, args) == <<1, 2>>
MCFields == 0..1
MCValues == {0, 1}
MCBlocks == 0..2

Register(address, sign, endianness, lsb, msb) ==
  [kind |-> "Register", address |-> address, sign |-> sign, endianness |-> endianness, lsb |-> lsb, msb |-> msb]
IntegerNode(value, min, max, inc) == [kind |-> "Integer", value |-> value, min |-> min, max |-> max, inc |-> inc]

\* Registers: a selector bit and a mode bit that share block 0 (GenICam counts
\* the bits of a big-endian register from the other end); the value register,
\* signed and big-endian, in block 1 or 2 as the selector says; and a reset
\* register over all of block 0; the name is the text in block 1.
MCRegisterNodes ==
  [SelReg |-> Register(<<LitInt(0)>>, "Unsigned", "Little", 0, -1),
   ModeReg |-> Register(<<LitInt(0)>>, "Unsigned", "Big", 1, 1),
   ValReg |-> Register(<<LitInt(1), Link("Selector")>>, "Signed", "Big", -1, -1),
   ResetReg |-> Register(<<LitInt(0)>>, "Unsigned", "Little", -1, -1),
   NameReg |-> [kind |-> "TextRegister", address |-> <<LitInt(1)>>]]

\* Formulas, compiled.
Doubled == Parse(<<Var("FROM"), Oper("*"), Const(I(2))>>)
Halved == Parse(<<Var("TO"), Oper("/"), Const(F(2, 1))>>)
Mixed == Parse(<<Var("S"), Oper("?"), Var("Picked"), Oper("/"), Var("Mode"), Oper(":"), Oper("-"), Var("Value")>>)

\* Features.  Gain is half the raw value; Level is an integer view of Gain; Mix
\* reaches the selector twice; Picked follows the literal Index to Value, or to
\* a node that leads back to it, or is 1; Routed is Mode, or Mix, which cannot
\* be set, as the selector says.
MCFeatureNodes ==
  [Selector |-> [kind |-> "Enumeration", value |-> Link("SelReg"), entries |-> [A |-> 0, B |-> 1]],
   Mode |-> [kind |-> "Boolean", value |-> Link("ModeReg"), on_value |-> 0, off_value |-> 1],
   Value |-> IntegerNode(Link("ValReg"), LitInt(-2), Link("Mode"), NoRef),
   Reset |-> [kind |-> "Command", value |-> Link("ResetReg"), command_value |-> NoRef],
   Gain |-> [kind |-> "Converter", value |-> Link("ValReg"), variables |-> <<>>,
             formula_to |-> Doubled,
             formula_from |-> Halved],
   Level |-> IntegerNode(Link("Gain"), LitInt(-1), LitInt(0), NoRef),
   Exposure |-> [kind |-> "Float", value |-> Link("Gain"), min |-> LitFloat(-1, 1), max |-> NoRef],
   Name |-> [kind |-> "String", value |-> Link("NameReg")],
   Mix |-> [kind |-> "SwissKnife", variables |-> [S |-> "Selector"],
            formula |-> Mixed],
   Index |-> IntegerNode(LitInt(0), NoRef, NoRef, LitInt(1)),
   Picked |-> IntegerNode(Indexed("Index", 0 :> Link("Value") @@ 1 :> Link("Back"), LitInt(1)), LitInt(0), LitInt(1), NoRef),
   Routed |-> IntegerNode(Indexed("Selector", 1 :> Link("Mix"), Link("Mode")), LitInt(0), LitInt(1), NoRef),
   Back |-> IntegerNode(Link("Picked"), LitInt(0), LitInt(1), NoRef),
   Broken |-> IntegerNode(Link("Nowhere"), NoRef, NoRef, NoRef)]

MCRegisters == {"SelReg", "ModeReg", "ValReg", "ResetReg", "NameReg"}
MCFeatures ==
  {"Selector", "Mode", "Value", "Reset", "Gain", "Level", "Exposure", "Name", "Mix", "Index", "Picked", "Routed", "Back", "Broken"}
MCNode == LET nodes == MCRegisterNodes @@ MCFeatureNodes IN nodes

MCPoints == [SelReg |-> {0}, ModeReg |-> {0}, ValReg |-> {1, 2}, ResetReg |-> {0}, NameReg |-> {1}]
MCMask == [SelReg |-> {0}, ModeReg |-> {1}, ValReg |-> MCFields, ResetReg |-> MCFields, NameReg |-> MCFields]
MCAccess == [SelReg |-> "RW", ModeReg |-> "RW", ValReg |-> "RW", ResetReg |-> "WO", NameReg |-> "RW"]
MCCachable == [SelReg |-> "WriteThrough", ModeReg |-> "NoCache", ValReg |-> "WriteAround", ResetReg |-> "NoCache", NameReg |-> "NoCache"]
MCpInvalidator == [SelReg |-> {"ModeReg", "ResetReg"}, ModeReg |-> {}, ValReg |-> {"SelReg", "ResetReg", "NameReg"}, ResetReg |-> {}, NameReg |-> {}]
MCSteers == [n \in MCRegisters \cup MCFeatures |-> IF n \in {"SelReg", "ResetReg"} THEN {"ValReg"} ELSE {}]
MCDrives == [b \in MCBlocks |-> {}]

MCInts == -1..1
MCTexts == {<<>>, <<1>>, <<1, 1>>, <<1, 1, 1>>}
MCFloats == {F(-1, 1), F(-1, 2)}
MCAnswering == {MCBlocks, {0}}

-----------------------------------------------------------------------------
\* Operators of every precedence beside each other, and deeper trees over some.
Sources ==
  TreesUpTo(2, {"u-", "~", "ABS"}, {"||", "&&", "|", "^", "&", "=", "<", "<<", "-", "+", "/", "*", "**"}, {"?"})
    \cup TreesUpTo(3, {"u-"}, {"=", "-", "**"}, {"?"})
NoSource == [op |-> "none"]

MCInit == GraphInit /\ source = NoSource

\* A formula is looked at on its own, in one state of the graph, which stays.
Blank == [b \in Blocks |-> [f \in Fields |-> 0]]
Compile ==
  /\ source = NoSource /\ mem = Blank /\ cache = NoCaches /\ lits = [n \in Literals |-> Node[n].value.v]
  /\ source' \in Sources
  /\ UNCHANGED graphVars
Compiled == source # NoSource /\ source' = NoSource /\ UNCHANGED graphVars

MCNext == Compile \/ Compiled \/ (source = NoSource /\ GraphNext /\ UNCHANGED source)
MCSpec == MCInit /\ [][MCNext]_<<graphVars, source>>

\* A formula that is written with the parentheses that precedence and
\* associativity call for (and those FormulaTrees adds around a conditional in
\* the middle of another and a sign under a power) compiles to its syntax tree:
\* no operator is applied to operands that are not its own.
FormulaMeansItsTree == source # NoSource => CompilesToTree(source, BareMiddle)
=============================================================================
