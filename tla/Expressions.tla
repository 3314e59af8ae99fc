---------------------------- MODULE Expressions ----------------------------
(***************************************************************************)
(* Plan expressions: the postfix streams a plan carries and the stack      *)
(* machine that evaluates them in checked 64-bit arithmetic (Bind.cpp,     *)
(* evalStream), beside the expression trees the compiler writes them from. *)
(* Integers have the range MinInt .. MaxInt; every operation that leaves   *)
(* it is an error, never a wrapped value.                                  *)
(***************************************************************************)
EXTENDS Integers, Sequences, SequencesExt

CONSTANT MaxInt

ASSUME WidthAssumption == MaxInt \in Nat \ {0}

MinInt == -MaxInt - 1
Fits(v) == MinInt <= v /\ v <= MaxInt

Failed == [ok |-> FALSE]
Returns(v) == IF Fits(v) THEN [ok |-> TRUE, v |-> v] ELSE Failed

(***************************************************************************)
(* The machine                                                             *)
(***************************************************************************)
Magnitude(a) == IF a < 0 THEN -a ELSE a
\* C++ division truncates towards zero.
Truncated(a, b) ==
  LET q == Magnitude(a) \div Magnitude(b)
  IN  IF (a < 0) # (b < 0) THEN -q ELSE q

\* Defect: the quotient of operands of different signs is left truncated.
floorDivTruncates(a, b) ==
  IF b = 0 \/ (a = MinInt /\ b = -1) THEN Failed ELSE Returns(Truncated(a, b))

floorDiv(a, b) ==
  IF b = 0 \/ (a = MinInt /\ b = -1) THEN Failed
  ELSE LET q == Truncated(a, b)
       IN  IF a # q * b /\ (a < 0) # (b < 0) THEN Returns(q - 1) ELSE Returns(q)

Mod(a, b) ==
  LET q == floorDiv(a, b)
  IN  IF q.ok /\ Fits(q.v * b) THEN Returns(a - q.v * b) ELSE Failed

Apply(op, a, b) ==
  CASE op = "add" -> Returns(a + b)
    [] op = "sub" -> Returns(a - b)
    [] op = "mul" -> Returns(a * b)
    [] op = "floordiv" -> floorDiv(a, b)
    [] op = "mod" -> Mod(a, b)

Push(m, v) == [m EXCEPT !.stack = Append(@, v)]

\* One token; a machine that has failed stays failed.  Dimensions are only
\* legal in channel maps.
Step(m, token, symbols) ==
  LET n == Len(m.stack)
  IN  CASE ~m.ok -> m
        [] m.ok /\ token.op = "const" -> Push(m, token.v)
        [] m.ok /\ token.op = "sym" ->
             IF token.v \in DOMAIN symbols THEN Push(m, symbols[token.v])
             ELSE [m EXCEPT !.ok = FALSE]
        [] OTHER ->
             IF n < 2 \/ token.op = "dim" THEN [m EXCEPT !.ok = FALSE]
             ELSE LET r == Apply(token.op, m.stack[n - 1], m.stack[n])
                  IN  IF r.ok THEN [m EXCEPT !.stack = Append(SubSeq(@, 1, n - 2), r.v)]
                      ELSE [m EXCEPT !.ok = FALSE]

evalExpr(stream, symbols) ==
  LET end == FoldLeft(LAMBDA m, token : Step(m, token, symbols),
                      [ok |-> TRUE, stack |-> <<>>], stream)
  IN  IF end.ok /\ Len(end.stack) = 1 THEN [ok |-> TRUE, v |-> end.stack[1]]
      ELSE Failed

(***************************************************************************)
(* Trees: how streams are made, and what they mean                         *)
(***************************************************************************)
Const(v) == [op |-> "const", v |-> v]
Sym(i) == [op |-> "sym", v |-> i]
Binary(op, l, r) == [op |-> op, l |-> l, r |-> r]
Leaf(e) == e.op \in {"const", "sym"}

RECURSIVE Postfix(_)
Postfix(e) ==
  IF Leaf(e) THEN <<e>>
  ELSE Postfix(e.l) \o Postfix(e.r) \o <<[op |-> e.op]>>

\* The greatest integer at most a / b.
Floor(a, b) ==
  CHOOSE q \in -Magnitude(a) - 1 .. Magnitude(a) :
    IF b > 0 THEN q * b <= a /\ a < (q + 1) * b
    ELSE q * b >= a /\ a > (q + 1) * b

\* The value of a tree over the unbounded integers, where it has one.
RECURSIVE Value(_, _)
Value(e, symbols) ==
  IF e.op = "const" THEN e.v
  ELSE IF e.op = "sym" THEN symbols[e.v]
  ELSE LET a == Value(e.l, symbols)
           b == Value(e.r, symbols)
       IN  CASE e.op = "add" -> a + b
             [] e.op = "sub" -> a - b
             [] e.op = "mul" -> a * b
             [] e.op = "floordiv" -> Floor(a, b)
             [] e.op = "mod" -> a - b * Floor(a, b)

\* No unknown symbol, no division by zero, and every value the machine must hold on the way is
\* representable; a remainder needs its quotient and the multiple below it.
RECURSIVE Computable(_, _)
Computable(e, symbols) ==
  \/ e.op = "const" \/ (e.op = "sym" /\ e.v \in DOMAIN symbols)
  \/ /\ ~Leaf(e)
     /\ Computable(e.l, symbols) /\ Computable(e.r, symbols)
     /\ e.op \in {"floordiv", "mod"} =>
          LET b == Value(e.r, symbols)
              q == Floor(Value(e.l, symbols), b)
          IN  b # 0 /\ Fits(q) /\ (e.op = "mod" => Fits(q * b))
     /\ Fits(Value(e, symbols))
=============================================================================
