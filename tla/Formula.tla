------------------------------- MODULE Formula -------------------------------
(***************************************************************************)
(* The formulas of SwissKnife and Converter nodes                          *)
(* (src/genicam/evaluator.rs): a formula is compiled to reverse Polish     *)
(* notation with an operator stack, and the result is evaluated on a value *)
(* stack.  A formula is a sequence of tokens here; how characters make up  *)
(* tokens is left out.                                                     *)
(*                                                                         *)
(* An integer is a two's complement number of IntBits bits.  A double is a *)
(* fraction in lowest terms: +-1/0 are the infinities, 0/0 is NaN, and no  *)
(* rounding but that to an integer is modelled.  The functions of the      *)
(* mathematical library are a parameter.                                   *)
(***************************************************************************)
EXTENDS Integers, Sequences, FiniteSetsExt, SequencesExt

CONSTANTS
  IntBits,        \* the width of Value::I: 64 in the code
  Libm(_, _)      \* a library function applied to its arguments, as a fraction <<num, den>>

\* Tokens, and items of a compiled formula.
Const(v) == [kind |-> "const", v |-> v]
Var(name) == [kind |-> "var", name |-> name]
Oper(op) == [kind |-> "op", op |-> op]
Fn(op) == [kind |-> "fn", op |-> op]
Open == [kind |-> "open"]
Close == [kind |-> "close"]

LibmFunctions == {"SIN", "COS", "TAN", "ASIN", "ACOS", "ATAN", "EXP", "LN", "LG", "SQRT"}
Functions1 == LibmFunctions \cup {"SGN", "NEG", "ABS", "TRUNC", "ROUND", "FLOOR", "CEIL"}
Unary == {"u-", "u+", "~"}

-----------------------------------------------------------------------------
\* Op::binding.
Precedence(op) ==
  CASE op \in {"?", ":"} -> 5
    [] op = "||" -> 10
    [] op = "&&" -> 20
    [] op = "|" -> 40
    [] op = "^" -> 50
    [] op = "&" -> 60
    [] op \in {"=", "<>"} -> 70
    [] op \in {"<=", ">=", "<", ">"} -> 80
    [] op \in {">>", "<<"} -> 90
    [] op \in {"-", "+"} -> 100
    [] op \in {"%", "/", "*"} -> 110
    [] op = "**" -> 120
    [] op \in Unary -> 130
    [] op \in Functions1 -> 200
RightAssoc(op) == op \in {"?", ":", "**"} \cup Unary

\* Mutant: every operator groups to the left.
PopsLeft(top, op) == top.kind = "op" /\ Precedence(top.op) >= Precedence(op)

\* An entry of the operator stack that goes to the output before op is pushed.
Pops(top, op) ==
  /\ top.kind = "op"
  /\ IF RightAssoc(op) THEN Precedence(top.op) > Precedence(op) ELSE Precedence(top.op) >= Precedence(op)

\* The parser: its output, operator stack, whether the last token ended an
\* operand, and whether the formula is well-formed so far.
Parser == [output |-> <<>>, stack |-> <<>>, operand |-> FALSE, ok |-> TRUE]

\* The entries of the stack above position k go to the output, last one first.
Unstack(p, k) ==
  [p EXCEPT !.output = @ \o Reverse(SubSeq(p.stack, k + 1, Len(p.stack))), !.stack = SubSeq(@, 1, k)]

\* push_operator.
PushOperator(p, op) ==
  LET k == Max({0} \cup {i \in DOMAIN p.stack : ~Pops(p.stack[i], op)})
      q == Unstack(p, k)
  IN  [q EXCEPT !.stack = Append(@, Oper(op))]

\* A plus or minus that does not follow an operand is a sign.
Resolve(op, operand) == CASE op \in {"+", "-"} /\ ~operand -> IF op = "-" THEN "u-" ELSE "u+" [] OTHER -> op

\* A closing parenthesis unstacks down to its opening one.
CloseParen(p) ==
  LET opens == {i \in DOMAIN p.stack : p.stack[i] = Open}
  IN  IF opens = {}
      THEN [p EXCEPT !.ok = FALSE]
      ELSE LET k == Max(opens) IN [Unstack(p, k) EXCEPT !.stack = SubSeq(@, 1, k - 1), !.operand = TRUE]

\* One turn of Expr::parse.
ReadToken(p, token) ==
  CASE ~p.ok -> p
    [] token.kind \in {"const", "var"} -> [p EXCEPT !.output = Append(@, token), !.operand = TRUE]
    [] token.kind = "fn" -> PushOperator(p, token.op)
    [] token.kind = "open" -> [p EXCEPT !.stack = Append(@, Open), !.operand = FALSE]
    [] token.kind = "close" -> CloseParen(p)
    [] token.kind = "op" -> [PushOperator(p, Resolve(token.op, p.operand)) EXCEPT !.operand = FALSE]

\* Expr::parse: the compiled formula, if the parentheses are balanced.
Parse(tokens) ==
  LET p == FoldLeft(ReadToken, Parser, tokens)
  IN  IF p.ok /\ Open \notin ToSet(p.stack)
      THEN [ok |-> TRUE, rpn |-> Unstack(p, 0).output]
      ELSE [ok |-> FALSE, rpn |-> <<>>]

\* Expr::variables: the names of a formula in the order they first occur.
AddName(names, item) ==
  IF item.kind = "var" /\ item.name \notin ToSet(names) THEN Append(names, item.name) ELSE names
VariablesOf(rpn) ==
  LET names[i \in 0 .. Len(rpn)] == IF i = 0 THEN <<>> ELSE AddName(names[i - 1], rpn[i])
  IN  names[Len(rpn)]

-----------------------------------------------------------------------------
\* Values.
MinInt == -(2 ^ (IntBits - 1))
MaxInt == 2 ^ (IntBits - 1) - 1
Magnitude(n) == IF n < 0 THEN -n ELSE n
Sign(n) == IF n > 0 THEN 1 ELSE IF n < 0 THEN -1 ELSE 0

I(n) == [type |-> "I", num |-> ((n - MinInt) % (2 ^ IntBits)) + MinInt, den |-> 1]

CommonDivisors(n, d) == {k \in 1..d : n % k = 0 /\ d % k = 0}
Fraction(n, d, k) ==
  [type |-> "F", num |-> Sign(n) * (IF d = 0 THEN 1 ELSE Magnitude(n) \div k), den |-> d \div k]
F(n, d) == Fraction(n, d, IF d = 0 THEN 1 ELSE Max(CommonDivisors(Magnitude(n), d)))
AsF(v) == [v EXCEPT !.type = "F"]
Bool(b) == I(IF b THEN 1 ELSE 0)

MaxF == F(2 ^ (2 * IntBits), 1)
IsNaN(v) == v.num = 0 /\ v.den = 0
Truthy(v) == v.num # 0 \/ v.den = 0

\* f64::round and its kin on a fraction: to the nearest, halves away from zero.
TruncOf(v) == Sign(v.num) * (Magnitude(v.num) \div v.den)
RoundOf(v) == Sign(v.num) * ((2 * Magnitude(v.num) + v.den) \div (2 * v.den))
FloorOf(v) == v.num \div v.den
CeilOf(v) == -((-v.num) \div v.den)

\* Value::as_i64; the conversion saturates and takes NaN to zero.
Saturated(n) == IF n > MaxInt THEN MaxInt ELSE IF n < MinInt THEN MinInt ELSE n
AsI64(v) ==
  CASE v.type = "I" -> v.num
    [] v.type = "F" /\ v.den = 0 -> Saturated(v.num * 2 ^ IntBits)
    [] OTHER -> Saturated(RoundOf(v))

\* Arithmetic on doubles.
AddF(a, b) ==
  IF a.den = 0 /\ b.den = 0
  THEN F(IF a.num = b.num THEN a.num ELSE 0, 0)
  ELSE F(a.num * b.den + b.num * a.den, a.den * b.den)
MulF(a, b) == F(a.num * b.num, a.den * b.den)
NegF(a) == F(-a.num, a.den)
DivF(a, b) == MulF(a, F(IF b.num < 0 THEN -b.den ELSE b.den, Magnitude(b.num)))
LessF(a, b) == IF a.den = 0 /\ b.den = 0 THEN a.num < b.num ELSE a.num * b.den < b.num * a.den

\* Arithmetic on integers: operations on bits, and division towards zero.
Bit(n, k) == (n \div (2 ^ k)) % 2
FromBits(S) ==
  LET low[k \in 0..IntBits] == IF k = 0 THEN 0 ELSE low[k - 1] + (IF k - 1 \in S THEN 2 ^ (k - 1) ELSE 0)
  IN  low[IntBits]
BitsOf(n) == {k \in 0 .. IntBits - 1 : Bit(n, k) = 1}
Shift(n) == n % IntBits
DivI(a, b) == Sign(a) * Sign(b) * (Magnitude(a) \div Magnitude(b))

\* A result, or none: a division by zero, a comparison with NaN, a stack
\* that is too short.
Done(v) == <<v>>
Failed == <<>>

\* apply, the unary operators.
Rounded(op, a) ==
  CASE op = "TRUNC" -> TruncOf(a) [] op = "ROUND" -> RoundOf(a) [] op = "FLOOR" -> FloorOf(a) [] op = "CEIL" -> CeilOf(a)
FromLibm(f) == Done(F(f[1], f[2]))
Apply1(op, a) ==
  CASE op \in {"u-", "NEG"} -> Done(IF a.type = "I" THEN I(-a.num) ELSE NegF(a))
    [] op = "u+" -> Done(a)
    [] op = "~" -> Done(I(-AsI64(a) - 1))
    [] op = "SGN" -> Done(I(Sign(a.num)))
    [] op = "ABS" -> Done(IF a.type = "I" THEN I(Magnitude(a.num)) ELSE F(Magnitude(a.num), a.den))
    [] op \in {"TRUNC", "ROUND", "FLOOR", "CEIL"} /\ a.den = 0 -> Done(AsF(a))
    [] op \in {"TRUNC", "ROUND", "FLOOR", "CEIL"} /\ a.den # 0 -> Done(F(Rounded(op, a), 1))
    [] op \in LibmFunctions -> FromLibm(Libm(op, <<a>>))

\* compare, arith and int_binop: any double makes the operation one on doubles,
\* except the ones that are about bits.
Ordered(op, less, greater) ==
  CASE op = "=" -> ~less /\ ~greater
    [] op = "<>" -> less \/ greater
    [] op = "<=" -> ~greater
    [] op = ">=" -> ~less
    [] op = "<" -> less
    [] op = ">" -> greater
Compare(op, a, b) ==
  IF IsNaN(a) \/ IsNaN(b) THEN Failed ELSE Done(Bool(Ordered(op, LessF(a, b), LessF(b, a))))

ArithI(op, a, b) ==
  CASE op = "+" -> a + b [] op = "-" -> a - b [] op = "*" -> a * b [] op = "/" -> DivI(a, b)
ArithF(op, a, b) ==
  CASE op \in {"+", "-"} -> AddF(a, IF op = "+" THEN b ELSE NegF(b)) [] op = "*" -> MulF(a, b) [] op = "/" -> DivF(a, b)
Arith(op, a, b) ==
  CASE a.type = "F" \/ b.type = "F" -> Done(ArithF(op, a, b))
    [] OTHER -> IF op = "/" /\ b.num = 0 THEN Failed ELSE Done(I(ArithI(op, a.num, b.num)))

IntResult(op, a, b) ==
  CASE op = "|" -> FromBits(BitsOf(a) \cup BitsOf(b))
    [] op = "^" -> FromBits((BitsOf(a) \cup BitsOf(b)) \ (BitsOf(a) \cap BitsOf(b)))
    [] op = "&" -> FromBits(BitsOf(a) \cap BitsOf(b))
    [] op = "<<" -> a * (2 ^ Shift(b))
    [] op = ">>" -> a \div (2 ^ Shift(b))
    [] op = "%" -> a - b * DivI(a, b)
IntBinop(op, a, b) == IF op = "%" /\ b = 0 THEN Failed ELSE Done(I(IntResult(op, a, b)))

Apply2(op, a, b) ==
  CASE op = "||" -> Done(Bool(Truthy(a) \/ Truthy(b)))
    [] op = "&&" -> Done(Bool(Truthy(a) /\ Truthy(b)))
    [] op \in {"=", "<>", "<=", ">=", "<", ">"} -> Compare(op, a, b)
    [] op \in {"+", "-", "*", "/"} -> Arith(op, a, b)
    [] op \in {"|", "^", "&", "<<", ">>", "%"} -> IntBinop(op, AsI64(a), AsI64(b))
    [] op = "**" -> FromLibm(Libm(op, <<a, b>>))

Arity(op) == IF op = "?" THEN 3 ELSE IF op \in Unary \cup Functions1 THEN 1 ELSE 2

Apply(op, args) ==
  CASE Len(args) = 3 -> Done(IF Truthy(args[1]) THEN args[2] ELSE args[3])
    [] Len(args) = 2 -> Apply2(op, args[1], args[2])
    [] Len(args) = 1 -> Apply1(op, args[1])

\* One turn of Expr::eval; the colon of a conditional has nothing to do.  A
\* stack of values is a result too: <<stack>> or Failed.
ReplaceTop(s, k, result) == IF result = Failed THEN Failed ELSE Done(Append(SubSeq(s, 1, Len(s) - k), result[1]))
Operate(s, k, op) ==
  IF Len(s) < k THEN Failed ELSE ReplaceTop(s, k, Apply(op, SubSeq(s, Len(s) - k + 1, Len(s))))
EvalItem(stack, item, env) ==
  CASE stack = Failed \/ item = Oper(":") -> stack
    [] stack # Failed /\ item.kind = "const" -> Done(Append(stack[1], item.v))
    [] stack # Failed /\ item.kind = "var" -> Done(Append(stack[1], env[item.name]))
    [] stack # Failed /\ item.kind = "op" /\ item.op # ":" -> Operate(stack[1], Arity(item.op), item.op)

\* Expr::eval: exactly one value must be left.
OnlyValue(end) == IF end = Failed \/ Len(end[1]) # 1 THEN Failed ELSE end[1]
RECURSIVE EvalFrom(_, _, _)
EvalFrom(rpn, env, stack) ==
  IF rpn = <<>> THEN OnlyValue(stack) ELSE EvalFrom(Tail(rpn), env, EvalItem(stack, Head(rpn), env))
Eval(rpn, env) == EvalFrom(rpn, env, Done(<<>>))
=============================================================================
