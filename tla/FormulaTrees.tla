----------------------------- MODULE FormulaTrees -----------------------------
(***************************************************************************)
(* What a formula means: the reference against which the compiler of       *)
(* Formula is checked.  A formula is written down from its syntax tree     *)
(* with the parentheses that the usual precedence of the operators, that   *)
(* of C, calls for, and around a conditional in the middle of another and  *)
(* a sign under a power; compiling the text must give back the tree.  All  *)
(* operands are alike: the compiler keeps their order.                     *)
(***************************************************************************)
EXTENDS Formula

Leaf == [op |-> "x", args |-> <<>>]
Tree(op, args) == [op |-> op, args |-> args]

\* The trees over given operators with exactly n of them, for n up to max.
TreesUpTo(max, unary, binary, ternary) ==
  LET trees[n \in 0..max] ==
        IF n = 0 THEN {Leaf}
        ELSE UNION {
          {Tree(op, <<t>>) : op \in unary, t \in trees[n - 1]},
          UNION {{Tree(op, <<t, u>>) : op \in binary, t \in trees[i], u \in trees[n - 1 - i]} : i \in 0 .. n - 1},
          UNION {{Tree(op, <<t, u, v>>) : op \in ternary, t \in trees[i], u \in trees[j], v \in trees[n - 1 - i - j]} :
                   <<i, j>> \in {p \in (0 .. n - 1) \X (0 .. n - 1) : p[1] + p[2] <= n - 1}}}
  IN  UNION {trees[n] : n \in 0..max}

\* The operators from the loosest to the tightest.
Levels ==
  << {"?"}, {"||"}, {"&&"}, {"|"}, {"^"}, {"&"}, {"=", "<>"}, {"<", ">", "<=", ">="}, {"<<", ">>"},
     {"+", "-"}, {"*", "/", "%"}, {"**"}, Unary, Functions1 \cup {"x"} >>
Level(op) == CHOOSE i \in DOMAIN Levels : op \in Levels[i]

\* Does operand number i of an operator need parentheses?  The looser ones do;
\* among equals those that the associativity does not put there.  The middle
\* of a conditional stands between its marks: BareMiddle leaves it bare.
NeedsParens(op, i, sub, BareMiddle) ==
  CASE op = "?" /\ i = 2 -> sub = "?" /\ ~BareMiddle
    [] op = "?" /\ i # 2 -> i = 1 /\ sub = "?"
    [] op = "**" /\ i = 1 -> Level(sub) <= Level(op) \/ sub \in Unary
    [] op \in Unary \/ (op = "**" /\ i = 2) -> Level(sub) < Level(op)
    [] OTHER -> Level(sub) < Level(op) \/ (i = 2 /\ Level(sub) = Level(op))

Plain(op) == IF op = "u-" THEN "-" ELSE IF op = "u+" THEN "+" ELSE op

\* The text of a tree.
RECURSIVE Text(_, _)
Text(t, BareMiddle) ==
  LET Operand(i) ==
        LET s == Text(t.args[i], BareMiddle)
        IN  IF NeedsParens(t.op, i, t.args[i].op, BareMiddle) THEN <<Open>> \o s \o <<Close>> ELSE s
  IN  CASE t.op = "x" -> <<Var("x")>>
        [] t.op \in Functions1 -> <<Fn(t.op), Open>> \o Text(t.args[1], BareMiddle) \o <<Close>>
        [] t.op \in Unary -> <<Oper(Plain(t.op))>> \o Operand(1)
        [] t.op = "?" -> Operand(1) \o <<Oper("?")>> \o Operand(2) \o <<Oper(":")>> \o Operand(3)
        [] OTHER -> Operand(1) \o <<Oper(t.op)>> \o Operand(2)

\* The trees a compiled formula stands for, which should be one: an operator
\* takes its operands from the end of what is there before it.
Grow(trees, k, op) ==
  IF Len(trees) < k
  THEN <<Tree("underflow", <<>>)>>
  ELSE Append(SubSeq(trees, 1, Len(trees) - k), Tree(op, SubSeq(trees, Len(trees) - k + 1, Len(trees))))
TreesOf(rpn) ==
  LET trees[i \in 0 .. Len(rpn)] ==
        CASE i = 0 -> <<>>
          [] i > 0 /\ rpn[i].kind # "op" -> Append(trees[i - 1], Leaf)
          [] i > 0 /\ rpn[i] = Oper(":") -> trees[i - 1]
          [] OTHER -> Grow(trees[i - 1], Arity(rpn[i].op), rpn[i].op)
  IN  trees[Len(rpn)]

\* A formula compiles to what it means.
CompilesToTree(t, BareMiddle) ==
  LET compiled == Parse(Text(t, BareMiddle)) IN compiled.ok /\ TreesOf(compiled.rpn) = <<t>>
=============================================================================
