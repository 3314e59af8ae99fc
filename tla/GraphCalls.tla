----------------------------- MODULE GraphCalls -----------------------------
(****************************************************************************)
(* A symbolic region from the captured graph to the call of the custom op   *)
(* that replaces it: Torch's size expressions become the recipe's           *)
(* (compat.py, SymbolicContext), the rewritten graph recomputes symbols and *)
(* output sizes from live tensors (backend.py, _insert_transfer), and the   *)
(* op reconciles them with what it binds itself (runtime.py) before it      *)
(* prepares a row selection (index_select.py) or falls back.                *)
(*                                                                          *)
(* Two kinds of region: "select", rows of a source chosen by an index       *)
(* vector, and "view", a reshape; both end in a copy to the device.  The    *)
(* binding is bind_recipe's, of Symbolic.  Dtypes and devices are constant. *)
(****************************************************************************)
EXTENDS ArtifactAdmission

CONSTANTS Captures,  \* regions as captured: see CaptureInit
          LiveExtents,   \* the values a dynamic extent takes when the graph is called
          Forgeries  \* what a direct caller of the op may get wrong; "none" is the graph

VARIABLE capture
captureVars == <<capture>>

(***************************************************************************)
(* Torch (external): size expressions and what they evaluate to            *)
(***************************************************************************)
TInt(v) == [op |-> "int", v |-> v, args |-> <<>>]
TVar(x) == [op |-> "var", x |-> x, args |-> <<>>]
TCall(op, args) == [op |-> op, args |-> args]

RECURSIVE TorchSize(_, _)
TorchSize(e, env) ==
  LET a == [k \in DOMAIN e.args |-> TorchSize(e.args[k], env)]
  IN  CASE e.op = "int" -> e.v
        [] e.op = "var" -> env[e.x]
        [] e.op = "add" -> FoldLeft(LAMBDA s, v : s + v, 0, a)
        [] e.op = "mul" -> FoldLeft(LAMBDA s, v : s * v, 1, a)
        [] e.op = "floordiv" -> a[1] \div a[2]
        [] e.op = "mod" -> a[1] % a[2]
        [] e.op = "max" -> IF a[1] > a[2] THEN a[1] ELSE a[2]
        [] e.op = "pow" -> FoldLeft(LAMBDA s, v : s * v, 1, [k \in 1 .. a[2] |-> a[1]])
TorchSizes(es, env) == [k \in DOMAIN es |-> TorchSize(es[k], env)]

(***************************************************************************)
(* SymbolicContext                                                         *)
(***************************************************************************)
\* One axis of add_tensor: an integer needs no symbol, a known symbol of the
\* same operand is one more axis that must agree, a new one gets a name.
AddAxis(known, d, axis, operand, unbacked) ==
  LET found == {i \in DOMAIN known.sources : d.op = "var" /\ known.sources[i].key = d.x}
  IN  IF d.op = "int" THEN known
      ELSE IF d.op # "var" \/ d.x \in unbacked THEN [known EXCEPT !.ok = FALSE]
      ELSE IF found = {}
      THEN [known EXCEPT !.sources = Append(@, [key |-> d.x, axis |-> axis, equal |-> {}, operand |-> operand])]
      ELSE LET i == First(found)
           IN  IF known.sources[i].operand # operand THEN known
               ELSE [known EXCEPT !.sources[i].equal = @ \cup {axis}]
add_tensor(known, dims, operand, unbacked) ==
  FoldLeft(LAMBDA acc, k : AddAxis(acc, dims[k], k, operand, unbacked), known, [k \in DOMAIN dims |-> k])

Converted(e) == [ok |-> TRUE, e |-> e]
Divisor(d) == d.op = "int" /\ d.v > 0

\* expression(): Max(1, e) stands for e only where e is among the extents
\* that binding proves positive; N**2 is N*N.
RECURSIVE SizeExpression(_, _, _)
SizeExpression(e, sources, positive) ==
  LET parts == [k \in DOMAIN e.args |-> SizeExpression(e.args[k], sources, positive)]
      known == {i \in DOMAIN sources : e.op = "var" /\ sources[i].key = e.x}
      ones == {k \in DOMAIN e.args : e.args[k] = TInt(1)}
  IN  CASE e.op = "int" -> Converted(Const(e.v))
        [] e.op = "var" -> IF known = {} THEN Failed ELSE Converted(Sym(First(known)))
        [] e.op = "max" ->
             IF Len(e.args) # 2 \/ ones = {} THEN Failed
             ELSE LET other == parts[3 - First(ones)]
                  IN  IF other.ok /\ other.e \in positive THEN other ELSE Failed
        [] e.op \in {"add", "mul"} ->
             IF ~AllFit(parts) THEN Failed
             ELSE Converted(FoldLeft(LAMBDA acc, p : IF e.op = "add" THEN add(acc, p.e) ELSE mul(acc, p.e),
                                     Head(parts).e, Tail(parts)))
        [] e.op \in {"floordiv", "mod"} ->
             IF ~parts[1].ok \/ ~Divisor(e.args[2]) THEN Failed
             ELSE Converted(Binary(e.op, parts[1].e, Const(e.args[2].v)))
        [] e.op = "pow" ->
             IF ~parts[1].ok \/ e.args[2].op # "int" \/ e.args[2].v < 0 THEN Failed
             ELSE Converted(FoldLeft(mul, Const(1), [k \in 1 .. e.args[2].v |-> parts[1].e]))
        [] OTHER -> Failed
SizeExpressions(es, sources, positive) == [k \in DOMAIN es |-> SizeExpression(es[k], sources, positive)]
Trees(results) == [k \in DOMAIN results |-> results[k].e]

\* tensor_spec() of a tensor with these sizes and strides, where it is dense.
DenseAs(dims, strides, sources, positive) ==
  LET shape == SizeExpressions(dims, sources, {})
      stride == SizeExpressions(strides, sources, positive)
  IN  AllFit(shape) /\ AllFit(stride) /\ Trees(stride) = dense_strides(Trees(shape))

(***************************************************************************)
(* Import                                                                  *)
(***************************************************************************)
CaptureInit ==
  capture \in {[at |-> "source", in |-> r, sources |-> <<>>, recipe |-> <<>>, symbols |-> <<>>,
                op |-> <<>>, env |-> <<>>, forged |-> "none", index |-> <<>>, seen |-> {},
                declared |-> <<>>, values |-> <<>>, snapshot |-> <<>>, result |-> <<>>, reason |-> "none"] :
                 r \in Captures}

In == capture.in
LeaveRegion == capture' = [capture EXCEPT !.at = "excluded"]
FromTensor == add_tensor([ok |-> TRUE, sources |-> <<>>], In.dims, "source", In.unbacked)

ImportSource ==
  /\ capture.at = "source"
  /\ IF FromTensor.ok /\ In.dims # <<>> /\ DenseAs(In.dims, In.strides, FromTensor.sources, {})
     THEN capture' = [capture EXCEPT !.at = "region", !.sources = FromTensor.sources]
     ELSE LeaveRegion
  /\ UNCHANGED symbolicVars

RecipeFrom(dims, ops, shape) ==
  [source |-> [shape |-> Trees(dims), strides |-> dense_strides(Trees(dims)), offset |-> Const(0), dtype |-> "f16"],
   operations |-> ops,
   destination |-> [shape |-> shape, strides |-> dense_strides(shape), offset |-> Const(0), dtype |-> "f16"],
   direction |-> "h2d"]

\* _indexed_recipe: a selection of rows by an index vector that is an input
\* of the graph, then at most a cast, then the copy.
ImportSelect ==
  /\ capture.at = "region" /\ In.kind = "select"
  /\ LET known == add_tensor([ok |-> TRUE, sources |-> capture.sources], <<In.length>>, "indices", In.unbacked)
         length == SizeExpression(In.length, known.sources, {})
         dims == SizeExpressions(In.dims, known.sources, {})
         indices == [shape |-> <<length.e>>, strides |-> <<Const(1)>>, offset |-> Const(0), dtype |-> "i32"]
         rest == SubSeq(Trees(dims), 2, Len(dims))
     IN  IF /\ In.dim \in {0, -Len(In.dims)} /\ In.input /\ In.followers \subseteq {"transfer"}
            /\ known.ok /\ length.ok
         THEN capture' = [capture EXCEPT
                !.at = "compile", !.sources = known.sources,
                !.recipe = RecipeFrom(dims, <<[kind |-> "select", indices |-> indices]>>, <<length.e>> \o rest)]
         ELSE LeaveRegion
  /\ UNCHANGED symbolicVars

\* A view: the captured result must be the dense tensor the recipe describes.
ImportView ==
  /\ capture.at = "region" /\ In.kind = "view"
  /\ LET dims == SizeExpressions(In.dims, capture.sources, {})
         shape == SizeExpressions(In.result, capture.sources, {})
     IN  IF AllFit(shape) /\ DenseAs(In.result, In.resultStrides, capture.sources, Range(Trees(shape)))
         THEN capture' = [capture EXCEPT
                !.at = "compile",
                !.recipe = RecipeFrom(dims, <<[kind |-> "reshape", shape |-> Trees(shape)]>>, Trees(shape))]
         ELSE LeaveRegion
  /\ UNCHANGED symbolicVars

(***************************************************************************)
(* The rewritten graph                                                     *)
(***************************************************************************)
\* The compiler recovers each symbol's place from the recipe, and orders the
\* symbols as its plan does.
Sources ==
  IF Indexed(capture.recipe) THEN sources_for(capture.recipe)
  ELSE {[name |-> s.name, axis |-> s.axis, equal |-> s.equal, operand |-> "source"] :
          s \in symbol_sources(capture.recipe.source.shape)}
SourceOf(name) == CHOOSE s \in Sources : s.name = name

\* Defect: every size is read from the source.
SizeNodeOfRoot(name) == [op |-> "size", operand |-> "source", axis |-> SourceOf(name).axis]
SizeNode(name) == [op |-> "size", operand |-> SourceOf(name).operand, axis |-> SourceOf(name).axis]

EmitBinary(op, l, r) ==
  LET node == Binary(op, l, r) IN IF l.op = "const" /\ r.op = "const" THEN Const(Value(node, <<>>)) ELSE node
RECURSIVE EmitNode(_)
EmitNode(e) ==
  CASE e.op = "const" -> e
    [] e.op = "sym" -> SizeNode(e.v)
    [] OTHER -> EmitBinary(e.op, EmitNode(e.l), EmitNode(e.r))
EmitNodes(es) == [k \in DOMAIN es |-> EmitNode(es[k])]

InsertTransfer ==
  /\ capture.at = "compile"
  /\ \E order \in {SetToSeq({s.name : s \in Sources}), Reverse(SetToSeq({s.name : s \in Sources}))} :
       capture' = [capture EXCEPT
         !.at = "compiled", !.symbols = order,
         !.op = [symbols |-> [k \in DOMAIN order |-> SizeNode(order[k])],
                 shape |-> EmitNodes(capture.recipe.destination.shape),
                 strides |-> EmitNodes(capture.recipe.destination.strides)]]
  /\ UNCHANGED symbolicVars

\* A node's value in a call with these live extents: Python's integers, unbounded.
RECURSIVE Computed(_, _, _)
Computed(node, dims, length) ==
  CASE node.op = "const" -> node.v
    [] node.op = "size" -> IF node.operand = "indices" THEN length ELSE dims[node.axis]
    [] OTHER -> Value(Binary(node.op, Const(Computed(node.l, dims, length)),
                             Const(Computed(node.r, dims, length))), <<>>)

LiveDims == TorchSizes(In.dims, capture.env)
Length == IF In.kind = "select" THEN TorchSize(In.length, capture.env) ELSE 0
Rows == LiveDims[1]
Indexings(n, rows) == {[k \in 1 .. n |-> 0], [k \in 1 .. n |-> (k * (rows - 1)) % rows], [k \in 1 .. n |-> k - 1]}

\* The graph is called with tensors its guards admit, or the op is called
\* directly with something wrong in its arguments.  The op declares its
\* output's metadata, which is also what its fake kernel returns to a tracer.
CallOp ==
  /\ capture.at = "compiled"
  /\ \E env \in [In.vars -> LiveExtents], forged \in Forgeries :
       LET dims == TorchSizes(In.dims, env)
           length == IF In.kind = "select" THEN TorchSize(In.length, env) ELSE 0
           says(nodes) == [k \in DOMAIN nodes |-> Computed(nodes[k], dims, length)]
           spoilt(values) == [values EXCEPT ![1] = @ + 1]
       IN  \E index \in Indexings(length, dims[1]) :
             capture' = [capture EXCEPT
               !.at = "called", !.env = env, !.forged = forged, !.index = index, !.seen = {index},
               !.values = IF forged = "symbols" THEN spoilt(says(capture.op.symbols)) ELSE says(capture.op.symbols),
               !.declared = [shape |-> IF forged = "shape" THEN spoilt(says(capture.op.shape)) ELSE says(capture.op.shape),
                             strides |-> says(capture.op.strides)]]
  /\ UNCHANGED symbolicVars

(***************************************************************************)
(* execute_or_fallback                                                     *)
(***************************************************************************)
FallsBack(reason) == capture' = [capture EXCEPT !.at = "fallback", !.reason = reason]
Raises(reason) == capture' = [capture EXCEPT !.at = "raised", !.reason = reason]

\* bind_index_select: the operands are what row selection is defined for, and
\* their extents go through the guards of the recipe.
BindCall ==
  /\ capture.at = "called"
  /\ IF In.kind = "select" /\ capture.forged = "index"
     THEN FallsBack("unsupported_index_select") /\ UNCHANGED symbolicVars
     ELSE /\ capture' = [capture EXCEPT !.at = "binding"]
          /\ task' = [recipe |-> capture.recipe,
                      concrete |-> [shape |-> LiveDims, strides |-> TorchSizes(In.strides, capture.env),
                                    offset |-> 0, dtype |-> "f16"],
                      sources |-> PlainSources({s \in Sources : s.operand = "source"}),
                      given |-> [n \in {s.name : s \in {t \in Sources : t.operand = "indices"}} |-> Length]]
          /\ guard' = [at |-> "sources", bindings |-> task'.given, shape |-> <<>>, dtype |-> "none", k |-> 0]

IndexAgrees ==
  In.kind = "select" => evaluate(capture.recipe.operations[1].indices.shape[1], guard.bindings) = Returns(Length)
\* _destination_metadata: what the bindings make of the recipe's destination.
DestinationMetadata(bindings) ==
  LET d == capture.recipe.destination
  IN  [shape |-> Values(evs(d.shape, bindings)), strides |-> Values(evs(d.strides, bindings))]
BoundResult == DestinationMetadata(guard.bindings)
SymbolsAgree == capture.values = [k \in DOMAIN capture.symbols |-> guard.bindings[capture.symbols[k]]]

\* Other symbols than the source's fall back; other output metadata is an
\* error; without CUDA nothing can be prepared.
Reconcile ==
  /\ capture.at = "binding" /\ guard.at \in {"accepted", "refused"}
  /\ IF guard.at = "refused" \/ ~IndexAgrees THEN FallsBack("guard")
     ELSE IF ~SymbolsAgree THEN FallsBack("symbol_mismatch")
     ELSE IF capture.declared # BoundResult THEN Raises("declared")
     ELSE \/ capture' = [capture EXCEPT !.at = "preflight"]
          \/ FallsBack("cuda_unavailable")
  /\ UNCHANGED symbolicVars

\* Defect: the range check is left to the copy.
PrepareSelectionUnchecked ==
  /\ capture.at = "preflight"
  /\ capture' = [capture EXCEPT !.at = "prepared", !.snapshot = capture.index]
  /\ UNCHANGED symbolicVars

\* prepare_index_select_transfer: the values of the index vector are copied
\* and every one of them is checked against the rows there are.
InRange(index) == \A k \in DOMAIN index : index[k] \in 0 .. Rows - 1
PrepareSelection ==
  /\ capture.at = "preflight"
  /\ IF In.kind = "select" /\ ~InRange(capture.index) THEN FallsBack("index_out_of_range")
     ELSE capture' = [capture EXCEPT !.at = "prepared", !.snapshot = capture.index]
  /\ UNCHANGED symbolicVars

\* Another thread writes the index vector during the call.
WriteIndex ==
  /\ capture.at \in {"called", "preflight", "prepared"} /\ capture.forged = "none"
  /\ Cardinality(capture.seen) = 1
  /\ \E index \in Indexings(Length, Rows) \ capture.seen :
       capture' = [capture EXCEPT !.index = index, !.seen = @ \cup {index}]
  /\ UNCHANGED symbolicVars

\* A tensor by its extents and, for a selection, the rows it holds.
Moved(shape, index) == [shape |-> shape, rows |-> index]

\* recheck(): the index vector must still hold what was prepared.
ExecutePrepared ==
  /\ capture.at = "prepared"
  /\ IF capture.index # capture.snapshot THEN Raises("stale")
     ELSE capture' = [capture EXCEPT !.at = "returned", !.result = Moved(BoundResult.shape, capture.snapshot)]
  /\ UNCHANGED symbolicVars

\* The saved region runs on the live tensors, and on scalars computed from
\* the symbols the op was given; its result must be what the op declared.
Scalars ==
  LET given == [n \in Range(capture.symbols) |->
                  capture.values[CHOOSE k \in DOMAIN capture.symbols : capture.symbols[k] = n]]
  IN  [x \in In.vars |-> LET e == SizeExpression(TVar(x), capture.sources, {}) IN Value(e.e, given)]
SavedResult ==
  IF In.kind = "select" THEN Moved(<<Length>> \o Tail(LiveDims), capture.index)
  ELSE Moved(TorchSizes(In.result, Scalars), <<>>)
SavedRuns ==
  IF In.kind = "select" THEN capture.forged # "index" /\ InRange(capture.index)
  ELSE Count(SavedResult.shape) = Count(LiveDims)
RunFallback ==
  /\ capture.at = "fallback"
  /\ IF ~SavedRuns THEN Raises("original")
     ELSE IF SavedResult.shape # capture.declared.shape THEN Raises("metadata")
     ELSE capture' = [capture EXCEPT !.at = "returned", !.result = SavedResult]
  /\ UNCHANGED symbolicVars

CaptureNext ==
  \/ ImportSource \/ ImportSelect \/ ImportView \/ InsertTransfer \/ CallOp \/ BindCall \/ Reconcile
  \/ PrepareSelection \/ WriteIndex \/ ExecutePrepared \/ RunFallback
  \/ capture.at = "binding" /\ SymbolicNext /\ UNCHANGED capture

(***************************************************************************)
(* Property                                                                *)
(***************************************************************************)
\* What Torch computes for the captured region on the live tensors.
TorchShape == IF In.kind = "select" THEN <<Length>> \o Tail(LiveDims) ELSE TorchSizes(In.result, capture.env)

Answering == {"called", "binding", "preflight", "prepared", "fallback", "returned", "raised"}
TorchRaises ==
  IF In.kind = "select" THEN \E index \in capture.seen : ~InRange(index)
  ELSE Count(TorchShape) # Count(LiveDims)

\* A call the graph makes declares exactly the extents Torch computes, so the
\* fake kernel's promise is true; it returns a tensor of those extents whose
\* rows are one state of the index vector, and it only raises where Torch
\* would or where the indices changed under it.  A direct call with wrong
\* symbols or sizes never returns anything else than it declared.
CapturedCallsExact ==
  /\ capture.at \in Answering /\ capture.forged # "shape" => capture.declared.shape = TorchShape
  /\ capture.at = "returned" =>
       /\ capture.result.shape = capture.declared.shape
       /\ capture.result.shape = TorchShape
       /\ capture.result.rows \in capture.seen /\ (In.kind = "select" => InRange(capture.result.rows))
  /\ capture.at = "raised" /\ capture.forged = "none" =>
       \/ capture.reason = "stale" /\ Cardinality(capture.seen) > 1
       \/ capture.reason = "original" /\ TorchRaises
=============================================================================
