------------------------------ MODULE Symbolic ------------------------------
(****************************************************************************)
(* The frontend's integer expressions and recipes (symbolic.py, recipe.py): *)
(* canonical sums and products, shapes of operations, and bind_recipe, the  *)
(* guard every recipe passes before its plan is bound to a concrete source. *)
(*                                                                          *)
(* Expressions are the trees of Expressions; the divisor of a FloorDiv or a *)
(* Mod is a constant node.  Symbols are numbers and axes count from 1.  A   *)
(* recipe has source, operations, destination and direction; an operation   *)
(* is a record tagged by kind.  GuardError and UnsupportedSymbolicExpr are  *)
(* the one outcome "refused"; their wording is left out.                    *)
(****************************************************************************)
EXTENDS Expressions, FiniteSets

CONSTANT BindTasks

\* task is one call of bind_recipe; guard is how far it has come.
VARIABLES task, guard
symbolicVars == <<task, guard>>

ItemSize == [dtype \in {"f32", "f16", "i8"} |->
               CASE dtype = "f32" -> 4 [] dtype = "f16" -> 2 [] OTHER -> 1]
TypedKinds == {"cast", "quantize", "dequantize"}

(***************************************************************************)
(* Expressions                                                             *)
(***************************************************************************)
\* Every intermediate value must fit; bindings maps symbols to integers.
RECURSIVE evaluate(_, _)
evaluate(e, bindings) ==
  CASE e.op = "const" -> Returns(e.v)
    [] e.op = "sym" -> IF e.v \in DOMAIN bindings THEN Returns(bindings[e.v]) ELSE Failed
    [] OTHER ->
         LET l == evaluate(e.l, bindings)
             r == evaluate(e.r, bindings)
         IN  IF ~l.ok \/ ~r.ok THEN Failed
             ELSE CASE e.op = "add" -> Returns(l.v + r.v)
                    [] e.op = "mul" -> Returns(l.v * r.v)
                    [] e.op = "floordiv" -> Returns(l.v \div r.v)
                    [] e.op = "mod" -> Returns(l.v % r.v)

RECURSIVE Terms(_, _)
Terms(kind, e) == IF e.op = kind THEN Terms(kind, e.l) \o Terms(kind, e.r) ELSE <<e>>

\* An arrangement that depends only on which terms there are and how often:
\* the code sorts them by their printed form.
Sorted(terms) ==
  CHOOSE s \in {[k \in DOMAIN terms |-> terms[p[k]]] :
                  p \in {f \in [DOMAIN terms -> DOMAIN terms] : IsInjective(f)}} : TRUE

Chain(kind, terms) ==
  FoldLeft(LAMBDA acc, t : Binary(kind, acc, t), Head(terms), Tail(terms))

\* The sum or product of the constants among the terms, in unbounded
\* integers, and the identity that needs no writing.
Folded(kind, terms) ==
  LET numbers == SelectSeq(terms, LAMBDA t : t.op = "const")
  IN  IF kind = "add" THEN FoldLeft(LAMBDA acc, t : acc + t.v, 0, numbers)
      ELSE FoldLeft(LAMBDA acc, t : acc * t.v, 1, numbers)
Identity(kind) == IF kind = "add" THEN 0 ELSE 1

commutative(kind, lhs, rhs) ==
  LET terms == Terms(kind, lhs) \o Terms(kind, rhs)
      number == Folded(kind, terms)
      symbolic == SelectSeq(terms, LAMBDA t : t.op # "const")
  IN  IF kind = "mul" /\ number = 0 THEN Const(0)
      ELSE Chain(kind, Sorted(IF number # Identity(kind) \/ symbolic = <<>>
                              THEN Append(symbolic, Const(number)) ELSE symbolic))

add(lhs, rhs) == commutative("add", lhs, rhs)
mul(lhs, rhs) == commutative("mul", lhs, rhs)
product(shape) == FoldLeft(mul, Const(1), shape)

\* Row-major: each stride is the product of the extents after it.
dense_strides(shape) ==
  [k \in DOMAIN shape |-> FoldRight(mul, SubSeq(shape, k + 1, Len(shape)), Const(1))]

\* Where each symbol of a source shape is read from: its first axis, and the
\* other axes that must agree with it.  Only atoms may stand in the shape.
AtomicShape(shape) == \A k \in DOMAIN shape : Leaf(shape[k])
AxesOf(shape, name) == {k \in DOMAIN shape : shape[k] = Sym(name)}
NamesIn(shape) == {shape[k].v : k \in {i \in DOMAIN shape : shape[i].op = "sym"}}
First(S) == CHOOSE k \in S : \A i \in S : k <= i
symbol_sources(shape) ==
  {[name |-> name, axis |-> First(AxesOf(shape, name)),
    equal |-> AxesOf(shape, name) \ {First(AxesOf(shape, name))}] : name \in NamesIn(shape)}

\* reshape(..., -1, ...): the inferred extent is the element count divided by
\* the rest, which must be constants.  <<>> stands for a refusal.
Unknown == Const(-1)
infer_reshape(shape, target) ==
  LET inferred == {k \in DOMAIN target : target[k] = Unknown}
      rest == SelectSeq(target, LAMBDA d : d # Unknown)
      divisor == product(rest)
      count == product(shape)
  IN  IF \/ Cardinality(inferred) > 1 \/ target = <<>>
         \/ \E k \in DOMAIN target \ inferred : target[k].op = "const" /\ target[k].v <= 0
      THEN <<>>
      ELSE IF inferred = {} THEN target
      ELSE IF \E k \in DOMAIN rest : rest[k].op # "const" THEN <<>>
      ELSE [k \in DOMAIN target |->
              IF k \notin inferred THEN target[k]
              ELSE IF divisor = Const(1) THEN count
              ELSE Binary("floordiv", count, divisor)]

(***************************************************************************)
(* Operations                                                              *)
(***************************************************************************)
IsPermutation(perm, n) == Len(perm) = n /\ Range(perm) = 1 .. n

OperationDefined(shape, op) ==
  CASE op.kind = "transpose" -> IsPermutation(op.perm, Len(shape))
    [] op.kind = "pad" -> op.axis \in DOMAIN shape
    [] OTHER -> TRUE

\* The shape after an operation; value transforms are element-wise.
operation_shape(shape, op) ==
  CASE op.kind \in TypedKinds -> shape
    [] op.kind = "select" -> [shape EXCEPT ![1] = op.indices.shape[1]]
    [] op.kind = "transpose" -> [k \in DOMAIN shape |-> shape[op.perm[k]]]
    [] op.kind = "reshape" -> op.shape
    [] op.kind = "pad" -> [shape EXCEPT ![op.axis] = add(add(@, op.lo), op.hi)]

Typed(recipe) == \E k \in DOMAIN recipe.operations : recipe.operations[k].kind \in TypedKinds
Indexed(recipe) == \E k \in DOMAIN recipe.operations : recipe.operations[k].kind = "select"

\* Runtime parameters in the order of their first declaration.
OpParams(op) == IF op.kind \in {"quantize", "dequantize"} THEN <<op.scale, op.zero>> ELSE <<>>
parameter_bindings(recipe) ==
  LET named == SelectSeq(FlattenSeq([k \in DOMAIN recipe.operations |-> OpParams(recipe.operations[k])]),
                         LAMBDA p : p.kind = "binding")
  IN  FoldLeft(LAMBDA seen, p : IF \E k \in DOMAIN seen : seen[k].name = p.name THEN seen
                                ELSE Append(seen, p),
               <<>>, named)

(***************************************************************************)
(* bind_recipe                                                             *)
(***************************************************************************)
evs(values, b) == [k \in DOMAIN values |-> evaluate(values[k], b)]
AllFit(results) == \A k \in DOMAIN results : results[k].ok
Values(results) == [k \in DOMAIN results |-> results[k].v]

\* dims(): every extent evaluates and is positive.
PositiveDims(values, b) ==
  /\ values # <<>>
  /\ \A k \in DOMAIN values : evaluate(values[k], b).ok /\ evaluate(values[k], b).v > 0
\* footprint(): the bytes of the whole tensor fit.
FootprintFits(values, dtype, b) ==
  LET count == evaluate(product(values), b)
  IN  count.ok /\ Fits(count.v * ItemSize[dtype])

\* Defect: only the outermost division is looked at.
DivisionsExactOuter(e, b) ==
  e.op = "floordiv" => evaluate(e.l, b).ok /\ evaluate(e.l, b).v % e.r.v = 0

\* divisibility(): every division in the expression is exact.
RECURSIVE DivisionsExact(_, _)
DivisionsExact(e, b) ==
  CASE Leaf(e) -> TRUE
    [] e.op = "floordiv" ->
         /\ evaluate(e.l, b).ok /\ evaluate(e.l, b).v % e.r.v = 0
         /\ DivisionsExact(e.l, b)
    [] e.op = "mod" -> DivisionsExact(e.l, b)
    [] OTHER -> DivisionsExact(e.l, b) /\ DivisionsExact(e.r, b)

Refuse == guard' = [guard EXCEPT !.at = "refused"]

SymbolicInit ==
  /\ task \in BindTasks
  /\ guard = [at |-> "sources", bindings |-> task.given, shape |-> <<>>, dtype |-> "none", k |-> 0]

\* The concrete descriptor is positive and representable, and every symbol
\* has one value wherever it is read.
SourcesOK ==
  LET shape == task.concrete.shape
  IN  /\ shape # <<>> /\ \A k \in DOMAIN shape : shape[k] > 0 /\ Fits(shape[k])
      /\ \A k \in DOMAIN task.concrete.strides : Fits(task.concrete.strides[k])
      /\ \A s \in task.sources :
           /\ {s.axis} \cup s.equal \subseteq DOMAIN shape
           /\ \A a \in s.equal : shape[a] = shape[s.axis]
           /\ s.name \in DOMAIN task.given => task.given[s.name] = shape[s.axis]
BindSources ==
  /\ guard.at = "sources"
  /\ IF ~SourcesOK THEN Refuse
     ELSE guard' = [guard EXCEPT
            !.at = "source",
            !.bindings = [n \in DOMAIN @ \cup {s.name : s \in task.sources} |->
              IF n \in DOMAIN @ THEN @[n]
              ELSE task.concrete.shape[(CHOOSE s \in task.sources : s.name = n).axis]]]
  /\ UNCHANGED task

\* The recipe's source descriptor is the concrete one, dense and at offset 0.
SourceOK ==
  LET src == task.recipe.source
      b == guard.bindings
  IN  /\ PositiveDims(src.shape, b) /\ Values(evs(src.shape, b)) = task.concrete.shape
      /\ AllFit(evs(src.strides, b)) /\ Values(evs(src.strides, b)) = task.concrete.strides
      /\ evaluate(src.offset, b) = Returns(0) /\ task.concrete.offset = 0
      /\ src.dtype = task.concrete.dtype
      /\ AllFit(evs(dense_strides(src.shape), b))
      /\ Values(evs(dense_strides(src.shape), b)) = task.concrete.strides
      /\ src.dtype \in DOMAIN ItemSize /\ FootprintFits(src.shape, src.dtype, b)
CheckSource ==
  /\ guard.at = "source"
  /\ IF ~SourceOK THEN Refuse
     ELSE guard' = [guard EXCEPT !.at = "operations", !.shape = task.recipe.source.shape,
                                 !.dtype = task.recipe.source.dtype, !.k = 1]
  /\ UNCHANGED task

\* What an operation needs besides a positive result that fits.
NeedsOK(op, target, b) ==
  CASE op.kind = "reshape" ->
         /\ \A k \in DOMAIN target : DivisionsExact(target[k], b)
         /\ evaluate(product(guard.shape), b).ok
         /\ evaluate(product(target), b) = evaluate(product(guard.shape), b)
    [] op.kind = "pad" ->
         /\ evaluate(op.lo, b).ok /\ evaluate(op.lo, b).v >= 0
         /\ evaluate(op.hi, b).ok /\ evaluate(op.hi, b).v >= 0
         /\ op.fill.dtype = guard.dtype
    [] op.kind \in {"quantize", "dequantize"} -> op.axis \in 0 .. Len(guard.shape)
    [] OTHER -> TRUE
NextDtype(op) == IF op.kind \in TypedKinds THEN op.dtype ELSE guard.dtype
OperationOK(op) ==
  /\ OperationDefined(guard.shape, op)
  /\ LET target == operation_shape(guard.shape, op)
         b == guard.bindings
     IN  /\ NeedsOK(op, target, b)
         /\ PositiveDims(target, b)
         /\ NextDtype(op) \in DOMAIN ItemSize /\ FootprintFits(target, NextDtype(op), b)
BindOperation ==
  /\ guard.at = "operations" /\ guard.k <= Len(task.recipe.operations)
  /\ LET op == task.recipe.operations[guard.k]
     IN  IF ~OperationOK(op) THEN Refuse
         ELSE guard' = [guard EXCEPT !.shape = operation_shape(@, op),
                                     !.dtype = NextDtype(op), !.k = @ + 1]
  /\ UNCHANGED task

\* The chain ends in the declared destination, dense and at offset 0.
DestinationOK ==
  LET dst == task.recipe.destination
      b == guard.bindings
  IN  /\ PositiveDims(guard.shape, b) /\ PositiveDims(dst.shape, b)
      /\ Values(evs(guard.shape, b)) = Values(evs(dst.shape, b))
      /\ guard.dtype = dst.dtype
      /\ evaluate(dst.offset, b) = Returns(0)
      /\ AllFit(evs(dst.strides, b)) /\ AllFit(evs(dense_strides(dst.shape), b))
      /\ Values(evs(dst.strides, b)) = Values(evs(dense_strides(dst.shape), b))
      /\ FootprintFits(dst.shape, dst.dtype, b)
CheckDestination ==
  /\ guard.at = "operations" /\ guard.k > Len(task.recipe.operations)
  /\ IF ~DestinationOK THEN Refuse ELSE guard' = [guard EXCEPT !.at = "accepted"]
  /\ UNCHANGED task

SymbolicNext == BindSources \/ CheckSource \/ BindOperation \/ CheckDestination

(***************************************************************************)
(* Properties                                                              *)
(***************************************************************************)
\* The names an expression reads, and all the expressions a recipe holds.
RECURSIVE NamesOf(_)
NamesOf(e) ==
  CASE e.op = "const" -> {}
    [] e.op = "sym" -> {e.v}
    [] OTHER -> NamesOf(e.l) \cup NamesOf(e.r)
SpecExprs(d) == Range(d.shape) \cup Range(d.strides) \cup {d.offset}
OpExprs(op) ==
  CASE op.kind = "reshape" -> Range(op.shape)
    [] op.kind = "pad" -> {op.lo, op.hi}
    [] op.kind \in {"quantize", "dequantize"} ->
         UNION {Range(p.extents) : p \in {q \in Range(OpParams(op)) : q.kind = "binding"}}
    [] OTHER -> {}
RecipeExprs(recipe) ==
  SpecExprs(recipe.source) \cup SpecExprs(recipe.destination)
  \cup UNION {OpExprs(op) : op \in Range(recipe.operations)}
RECURSIVE Whole64(_, _)
Whole64(e, b) ==
  /\ Fits(Value(e, b))
  /\ ~Leaf(e) => Whole64(e.l, b) /\ Whole64(e.r, b)
RECURSIVE Exact(_, _)
Exact(e, b) ==
  ~Leaf(e) =>
    /\ Exact(e.l, b) /\ Exact(e.r, b)
    /\ e.op = "floordiv" => Value(e.l, b) % Value(e.r, b) = 0

\* A tensor of concrete extents: its element count, its row-major strides.
Count(dims) == FoldLeft(LAMBDA a, d : a * d, 1, dims)
RowStrides(dims) == [k \in DOMAIN dims |-> Count(SubSeq(dims, k + 1, Len(dims)))]
Sound(dims, dtype) ==
  /\ dims # <<>> /\ \A k \in DOMAIN dims : dims[k] > 0
  /\ dtype \in DOMAIN ItemSize /\ Fits(Count(dims) * ItemSize[dtype])

\* One operation on concrete extents in unbounded integers.
Ran(state, op, b) ==
  LET dims == state.dims
      next == CASE op.kind = "transpose" -> [k \in DOMAIN dims |-> dims[op.perm[k]]]
                [] op.kind = "reshape" -> [k \in DOMAIN op.shape |-> Value(op.shape[k], b)]
                [] op.kind = "pad" -> [dims EXCEPT ![op.axis] = @ + Value(op.lo, b) + Value(op.hi, b)]
                [] op.kind = "select" -> [dims EXCEPT ![1] = Value(op.indices.shape[1], b)]
                [] OTHER -> dims
      dtype == IF op.kind \in TypedKinds THEN op.dtype ELSE state.dtype
      fine == /\ OperationDefined(dims, op)
              /\ op.kind = "reshape" =>
                   /\ \A k \in DOMAIN op.shape : Exact(op.shape[k], b)
                   /\ Count(next) = Count(dims)
              /\ op.kind = "pad" =>
                   Value(op.lo, b) >= 0 /\ Value(op.hi, b) >= 0 /\ op.fill.dtype = state.dtype
              /\ op.kind \in {"quantize", "dequantize"} => op.axis \in 0 .. Len(dims)
              /\ Sound(next, dtype)
  IN  IF state.ok /\ fine THEN [ok |-> TRUE, dims |-> next, dtype |-> dtype]
      ELSE [state EXCEPT !.ok = FALSE]

\* The recipe can be carried out on the concrete source under the bindings.
Executable(recipe, concrete, b) ==
  LET at == [e \in RecipeExprs(recipe) |-> Value(e, b)]
      of == [dims |-> concrete.shape, dtype |-> concrete.dtype, ok |-> TRUE]
      end == FoldLeft(LAMBDA s, op : Ran(s, op, b), of, recipe.operations)
      Is(d, dims, dtype) ==
        /\ [k \in DOMAIN d.shape |-> at[d.shape[k]]] = dims /\ d.dtype = dtype
        /\ [k \in DOMAIN d.strides |-> at[d.strides[k]]] = RowStrides(dims) /\ at[d.offset] = 0
  IN  /\ concrete.offset = 0 /\ concrete.strides = RowStrides(concrete.shape)
      /\ Sound(concrete.shape, concrete.dtype)
      /\ Is(recipe.source, concrete.shape, concrete.dtype)
      /\ end.ok /\ Is(recipe.destination, end.dims, end.dtype)
Bindings ==
  [n \in DOMAIN task.given \cup {s.name : s \in task.sources} |->
     IF n \in DOMAIN task.given THEN task.given[n]
     ELSE task.concrete.shape[(CHOOSE s \in task.sources : s.name = n).axis]]
Known == \A e \in RecipeExprs(task.recipe) : NamesOf(e) \subseteq DOMAIN Bindings

(***************************************************************************)
(* bind_recipe accepts a recipe for a concrete source only if its          *)
(* operations can be carried out on it: counts agree, divisions are exact, *)
(* extents are positive, byte sizes fit, and the declared descriptors are  *)
(* the ones reached.  It refuses such a recipe only when an expression of  *)
(* it leaves the 64-bit range on the way (symbolic.py, bind_recipe).       *)
(***************************************************************************)
GuardsExact ==
  /\ guard.at = "accepted" => Executable(task.recipe, task.concrete, guard.bindings)
  /\ guard.at = "refused" =>
       ~ (/\ SourcesOK /\ Known
          /\ \A e \in RecipeExprs(task.recipe) : Whole64(e, Bindings)
          /\ Executable(task.recipe, task.concrete, Bindings))
=============================================================================
