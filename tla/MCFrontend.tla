----------------------------- MODULE MCFrontend -----------------------------
(****************************************************************************)
(* Instances of the frontend: recipes and concrete sources for bind_recipe, *)
(* compiler output, honest and altered in one place, for admission,         *)
(* regions of one to three calls for the importer, selections and views     *)
(* for the inserted calls, and every form in which a call can be written.   *)
(****************************************************************************)
EXTENDS ArtifactAdmission, Replays, GraphRewrite, GraphCalls, CallForms, TLC

N == Sym(1)
M == Sym(2)
DenseSpec(shape, dtype) ==
  [shape |-> shape, strides |-> dense_strides(shape), offset |-> Const(0), dtype |-> dtype]
Transposed(p) == [kind |-> "transpose", perm |-> p]
Reshaped(s) == [kind |-> "reshape", shape |-> s]
PadBy(axis, lo, hi, dtype) ==
  [kind |-> "pad", axis |-> axis, lo |-> lo, hi |-> hi, fill |-> [dtype |-> dtype, bits |-> 1]]
CastTo(dtype) == [kind |-> "cast", dtype |-> dtype, policy |-> "exact"]
Half == Binary("floordiv", N, Const(2))

(***************************************************************************)
(* bind_recipe                                                             *)
(***************************************************************************)
SourceShapes == {<<N, Const(2)>>, <<N, N>>, <<N, M>>, <<Const(4), N>>, <<N>>}
Targets ==
  {<<Const(2), Unknown>>, <<Unknown>>, <<Const(1), Unknown, Const(3)>>, <<Const(0), Unknown>>,
   <<M, Unknown>>, <<Unknown, Unknown>>}
Quotient(a, d) == Binary("floordiv", a, Const(d))
Chains(s) ==
  {<<>>, <<Transposed([k \in DOMAIN s |-> Len(s) + 1 - k])>>, <<Transposed(<<1>>)>>}
  \cup {<<Reshaped(infer_reshape(s, t))>> : t \in {x \in Targets : infer_reshape(s, x) # <<>>}}
  \cup {<<Reshaped(<<e, Const(2)>>)>> :
          e \in {Half, N, Binary("mul", Half, Const(3)), Binary("mod", N, Const(3)),
                 Quotient(Binary("mul", Const(2), N), 2), Quotient(Binary("mul", Const(60), N), 60),
                 Quotient(Half, 1)}}
  \cup {<<PadBy(1, lo, hi, "f16")>> :
          lo \in {Const(0), Const(-1), Binary("mod", N, Const(2))}, hi \in {Const(1), Const(100), N}}
  \cup {<<CastTo("i8"), PadBy(1, Const(1), N, d), CastTo("f32")>> : d \in {"f16", "i8"}}
DefinedFor(s, ops) ==
  \A k \in DOMAIN ops :
    OperationDefined(FoldLeft(operation_shape, s, SubSeq(ops, 1, k - 1)), ops[k])
EndDtype(ops) == IF ops # <<>> /\ ops[Len(ops)].kind = "cast" THEN ops[Len(ops)].dtype ELSE "f16"
RecipeOf(s, ops, swap) ==
  LET end == IF DefinedFor(s, ops) THEN FoldLeft(operation_shape, s, ops) ELSE s
  IN  [source |-> DenseSpec(s, "f16"), operations |-> ops, direction |-> "h2d",
       destination |-> DenseSpec(IF swap THEN Reverse(end) ELSE end, EndDtype(ops))]
MCRecipes ==
  UNION {{RecipeOf(s, ops, swap) : ops \in Chains(s), swap \in {FALSE}} : s \in SourceShapes}
  \cup {RecipeOf(s, <<>>, TRUE) : s \in SourceShapes}
ConcreteSpec(dims, dtype) ==
  [shape |-> dims, strides |-> RowStrides(dims), offset |-> 0, dtype |-> dtype]
MCBindTasks ==
  {[recipe |-> r, sources |-> {}, given |-> <<>>,
    concrete |-> [ConcreteSpec(<<2, 2>>, "f16") EXCEPT !.strides = <<1, 2>>]] :
     r \in {RecipeOf(<<Const(2), Const(2)>>, <<>>, FALSE), RecipeOf(<<N, N>>, <<>>, FALSE)}}
  \cup {[recipe |-> x[1], sources |-> symbol_sources(x[1].source.shape), given |-> <<>>,
         concrete |-> ConcreteSpec(x[2], "f16")] :
          x \in {x \in MCRecipes \X UNION {[1 .. rank -> {0, 1, 2, 3, 4, 30}] : rank \in 1 .. 2} :
                   Len(x[1].source.shape) = Len(x[2])}}

(***************************************************************************)
(* Artifacts                                                               *)
(***************************************************************************)
Scale1 == [kind |-> "binding", name |-> "scale", dtype |-> "f32", extents |-> <<N>>]
Zero0 == [kind |-> "inline", dtype |-> "i32", shape |-> <<>>, bits |-> <<3>>]
Quant(axis, scale) ==
  [kind |-> "quantize", dtype |-> "i8", scale |-> scale, zero |-> Zero0, axis |-> axis, policy |-> "affine"]
Indices == DenseSpec(<<M>>, "i32")
Select == [kind |-> "select", indices |-> Indices]
AdmittableRecipes ==
  {[RecipeOf(<<N, x[1]>>, x[2], FALSE) EXCEPT !.destination.dtype = x[3]] : x \in
     {<<Const(2), <<>>, "f16">>,
      <<N, <<Transposed(<<2, 1>>)>>, "f16">>,
      <<Const(2), <<Reshaped(infer_reshape(<<N, Const(2)>>, <<Const(4), Unknown>>))>>, "f16">>,
      <<Const(2), <<PadBy(1, Const(1), N, "f16")>>, "f16">>,
      <<Const(2), <<Quant(1, Scale1), PadBy(2, Const(0), Const(2), "i8")>>, "i8">>,
      <<Const(2), <<Reshaped(<<Half, Const(4)>>), Quant(0, [Zero0 EXCEPT !.dtype = "f32"]), CastTo("f32")>>, "f32">>,
      \* A symbol that no source axis supplies.
      <<Const(2), <<Quant(1, [Scale1 EXCEPT !.extents = <<M>>])>>, "i8">>,
      <<Const(2), <<Select>>, "f16">>,
      <<Const(2), <<Select, CastTo("f32")>>, "f32">>}}

HonestStage(recipe, k) ==
  LET op == recipe.operations[k]
      operand == Chained(recipe)[k]
  IN  [transform |-> op.kind, policy |-> op.policy, input |-> operand.dtype, output |-> op.dtype,
       shape |-> encode_exprs(operand.shape), axis |-> AxisOfOp(op),
       scale |-> encode_param(ScaleOf(op)), zero |-> encode_param(ZeroOf(op)),
       channel |-> IF AxisOfOp(op) = 0 THEN NoChannel
                   ELSE [dims |-> Len(recipe.destination.shape), expr |-> <<"dim", AxisOfOp(op)>>]]
HonestStages(recipe) ==
  LET ks == SetToSortSeq(ValueOps(recipe), LAMBDA i, j : i < j)
  IN  IF Indexed(recipe) THEN <<>> ELSE [i \in DOMAIN ks |-> HonestStage(recipe, ks[i])]
WireView(d) == [shape |-> encode_exprs(d.shape), dtype |-> d.dtype]
HonestSymbols(recipe) ==
  SetToSortSeq(recipe_symbols(recipe)
               \cup (IF Indexed(recipe) THEN NamesIn(recipe.operations[1].indices.shape) ELSE {}),
               LAMBDA i, j : i > j)
PolicyOf(recipe) == IF Indexed(recipe) THEN IndexPolicy(recipe) ELSE "exact"
HonestPlan(recipe) ==
  [header |-> "ok", version |-> Schema(recipe)[2], kind |-> PlanKind(recipe),
   symbols |-> HonestSymbols(recipe),
   stages |-> [i \in DOMAIN HonestStages(recipe) |->
                 LET j == HonestStages(recipe)[i]
                 IN  [transform |-> j.transform, policy |-> j.policy, input |-> j.input,
                      output |-> j.output, axis |-> j.axis, channel |-> j.axis > 0]],
   fills |-> Len(PadsOf(recipe)),
   parameters |-> [k \in DOMAIN Declared(recipe) |->
                     [name |-> Declared(recipe)[k].name, dtype |-> Declared(recipe)[k].dtype,
                      rank |-> Len(Declared(recipe)[k].extents)]],
   policy |-> PolicyOf(recipe), source |-> WireView(recipe.source),
   indices |-> WireView(Indices), result |-> WireView(recipe.destination)]
HonestManifest(recipe) ==
  [keys |-> "exact", schema |-> Schema(recipe)[1], wire |-> Schema(recipe)[2],
   compiler |-> "sym-reloc-export 1", status |-> "ok", count |-> 1, symbols |-> HonestSymbols(recipe),
   source |-> encode_descriptor(recipe.source), destination |-> encode_descriptor(recipe.destination),
   constraints |-> SetToSeq(UNION {{[expr |-> encode_expr(d.l), divisor |-> d.r.v] :
                                      d \in {e \in Range(op.shape) : e.op = "floordiv"}} :
                                     op \in Reshapes(recipe)}),
   planDigest |-> HonestPlan(recipe), inputDigest |-> emit_mlir(recipe),
   stages |-> HonestStages(recipe),
   fills |-> [k \in DOMAIN PadsOf(recipe) |->
                [axis |-> PadsOf(recipe)[k].axis, stage |-> 0,
                 dtype |-> PadsOf(recipe)[k].fill.dtype, bits |-> PadsOf(recipe)[k].fill.bits]],
   parameters |-> [k \in DOMAIN Declared(recipe) |->
                     [Declared(recipe)[k] EXCEPT !.extents = encode_exprs(@)]],
   select |-> [policy |-> PolicyOf(recipe), indices |-> encode_descriptor(Indices)]]

Honest(recipe) ==
  [exit |-> 0, via |-> "compiler", version |-> FormatVersion(recipe), recipe |-> encode_recipe(recipe),
   plan |-> HonestPlan(recipe), manifest |-> HonestManifest(recipe),
   concrete |-> ConcreteSpec(<<4, 2>>, "f16"), index |-> ConcreteSpec(<<3>>, "i32")]

\* Another way to write the same extent, and a different extent.
Rewritten(j) == <<"add", <<"const", 0>>, <<"mul", <<"const", 1>>, j>>>>
Wrong(j) == <<"add", j, <<"const", 1>>>>
Other(j) == <<"floordiv", <<"mul", j, <<"const", 2>>>>, 2>>
Altered(a) ==
  LET m == a.manifest
      p == a.plan
      Manifest(n) == [a EXCEPT !.manifest = n]
      \* A plan replaced together with its digest.
      Plan(q) == [a EXCEPT !.plan = q, !.manifest.planDigest = q]
      FirstOf(s, v) == IF s = <<>> THEN s ELSE [s EXCEPT ![1] = v]
      Reversed(s) == Reverse(s)
  IN  {a, [a EXCEPT !.via = "bytes"], [a EXCEPT !.via = "bytes", !.version = 3],
       [a EXCEPT !.via = "bytes", !.recipe.direction = "up"],
       [a EXCEPT !.via = "bytes", !.recipe = Malformed],
       [a EXCEPT !.exit = 2],
       [a EXCEPT !.exit = 2, !.manifest = [m EXCEPT !.keys = "unsupported", !.status = "unsupported",
                                                    !.schema = 1, !.wire = 0]],
       [a EXCEPT !.concrete = ConcreteSpec(<<3, 3>>, "f16")],
       [a EXCEPT !.concrete = ConcreteSpec(<<3, 2>>, "f16")],
       [a EXCEPT !.index = ConcreteSpec(<<3>>, "i64")],
       [a EXCEPT !.index = ConcreteSpec(<<32>>, "i32")],
       Manifest([m EXCEPT !.keys = "other"]), Manifest([m EXCEPT !.schema = 3 - @]),
       Manifest([m EXCEPT !.count = 2]), Manifest([m EXCEPT !.symbols = <<2, 1>>]),
       Manifest([m EXCEPT !.symbols = Append(@, 3)]),
       Manifest([m EXCEPT !.source = Malformed]),
       Manifest([m EXCEPT !.destination.shape[1] = Rewritten(@)]),
       Manifest([m EXCEPT !.destination.shape[1] = Wrong(@)]),
       Manifest([m EXCEPT !.destination.shape[1] = Other(@)]),
       Manifest([m EXCEPT !.source.shape[1] = Rewritten(@)]),
       Manifest([m EXCEPT !.source.shape[1] = <<"floordiv", @, 1>>]),
       Manifest([m EXCEPT !.source.shape[1] = <<"floordiv", @, 2>>]),
       Manifest([m EXCEPT !.destination.strides[1] = Rewritten(@)]),
       Manifest([m EXCEPT !.constraints = <<>>]),
       Manifest([m EXCEPT !.constraints = FirstOf(@, [expr |-> Rewritten(<<"symbol", 1>>), divisor |-> 2])]),
       Manifest([m EXCEPT !.planDigest = [@ EXCEPT !.symbols = <<>>]]),
       Manifest([m EXCEPT !.stages = FirstOf(@, Malformed)]),
       Manifest([m EXCEPT !.stages = Reversed(@)]),
       Manifest([m EXCEPT !.fills = FirstOf(@, [axis |-> 1, stage |-> 0, dtype |-> "i8", bits |-> 0])]),
       Manifest([m EXCEPT !.parameters = <<>>]),
       Manifest([m EXCEPT !.select = Malformed]),
       Plan([p EXCEPT !.kind = "layout"]), Plan([p EXCEPT !.version = @ + 1]),
       Plan([p EXCEPT !.stages = Reversed(@)]), Plan([p EXCEPT !.fills = @ + 1]),
       Plan([p EXCEPT !.parameters = <<>>]), Plan([p EXCEPT !.policy = "ieee_rne"]),
       Plan([p EXCEPT !.result.dtype = "i8"]), Plan([p EXCEPT !.symbols = <<1, 1>>])}
MCArtifacts == UNION {Altered(a) : a \in {Honest(r) : r \in AdmittableRecipes}}

(***************************************************************************)
(* Regions                                                                 *)
(***************************************************************************)
To(device, dtype, format) ==
  [kind |-> "transfer", device |-> device, dtype |-> dtype, nonblocking |-> FALSE, pinned |-> FALSE,
   format |-> format]
MoveTo == To("cuda", "f32", "preserve")
Flatten(from, to) == [kind |-> "reshape", flatten |-> TRUE, start |-> from, end |-> to, target |-> <<>>]
View(target) == [kind |-> "reshape", flatten |-> FALSE, start |-> 0, end |-> 0, target |-> target]
Contiguous == [kind |-> "materialize", target |-> "contiguous", format |-> "preserve"]
RegionMembers ==
  {MoveTo, To("cuda", "f16", "contiguous"), To("cpu", "f16", "preserve"),
   [MoveTo EXCEPT !.nonblocking = TRUE], Contiguous,
   [kind |-> "permute", dims |-> <<1, 0>>], [kind |-> "permute", dims |-> <<-1, 0, 1>>],
   [kind |-> "permute", dims |-> <<0, 0>>],
   [kind |-> "unsqueeze", dim |-> 0], [kind |-> "unsqueeze", dim |-> -1],
   [kind |-> "squeeze", dims |-> <<0>>], [kind |-> "squeeze", dims |-> <<0, -1>>],
   Flatten(0, -1), Flatten(1, 0), View(<<Const(2), Unknown>>), View(<<N, Const(1), Unknown>>),
   [kind |-> "pad", widths |-> <<1, 0>>], [kind |-> "pad", widths |-> <<0, 1, 2, 0>>],
   [kind |-> "materialize", target |-> "clone", format |-> "preserve"],
   [kind |-> "materialize", target |-> "clone", format |-> "contiguous"], [kind |-> "quantize"]}
RegionChains ==
  {<<a>> : a \in RegionMembers} \cup {<<a, b>> : a \in RegionMembers, b \in RegionMembers}
  \cup {<<a, b, c>> : a \in RegionMembers, b \in RegionMembers, c \in {MoveTo, Contiguous}}
Region(shape, members, provable, dtype) ==
  [shape |-> shape, strides |-> dense_strides(shape), dtype |-> dtype, device |-> "cpu",
   gradient |-> FALSE, provable |-> provable, members |-> members]
Deq(axis, scale) == [kind |-> "dequantize", axis |-> axis, range |-> "int8", scale |-> scale]
Crossings ==
  UNION {{<<To(device, dtype, "preserve")>>,
          <<[kind |-> "permute", dims |-> <<1, 0>>], To(device, dtype, "contiguous")>>,
          <<To("cpu", "f16", "preserve"), To(device, "f32", "preserve")>>,
          <<To("cuda", "f16", "preserve"), To("cuda", "f32", "preserve")>>} :
         device \in {"cpu", "cuda"}, dtype \in {"f16", "f32"}}
MCRegions ==
  {Region(<<N, Const(2)>>, <<Deq(a, scale), MoveTo>>, TRUE, "i8") :
          a \in {-1, 0, 3},
          scale \in {[kind |-> "inline", dtype |-> "f32", shape |-> <<>>, bits |-> <<1>>],
                     [kind |-> "binding", name |-> "s", dtype |-> "f32", extents |-> <<N>>]}}
  \cup {[Region(<<N, Const(2)>>, <<MoveTo>>, TRUE, "f32") EXCEPT !.strides = <<Const(1), N>>]}
  \* From the device, and from the narrower element type.
  \cup {[Region(<<N, Const(2)>>, ms, TRUE, from) EXCEPT !.device = device] :
          device \in {"cpu", "cuda"}, from \in {"f16", "f32"}, ms \in Crossings}
  \* Caches that KVCacheSwap evicts.
  \cup {[Region(<<Const(heads), N, Const(inner)>>, <<[kind |-> "permute", dims |-> <<1, 0, 2>>], To("cpu", "f32", "contiguous")>>,
                TRUE, "f32") EXCEPT !.device = "cuda"] : heads \in 1 .. 2, inner \in 1 .. 2}
  \* Chains of calls; the extent may be one Torch cannot prove to be at least 2.
  \cup {Region(s[1], ms, s[2], "f32") :
          s \in {<<<<N, Const(2)>>, TRUE>>, <<<<N, Const(2)>>, FALSE>>, <<<<N>>, TRUE>>, <<<<Const(1), Const(3)>>, TRUE>>,
                 <<<<N, Const(1), N>>, TRUE>>, <<<<N, Const(1), N>>, FALSE>>},
          ms \in RegionChains}

(***************************************************************************)
(* The inserted calls: selections with static, dynamic, repeated and       *)
(* shared extents, views through every form of size expression, and, one   *)
(* at a time, what the importer must leave alone.                          *)
(***************************************************************************)
TN == TVar("n")
TM == TVar("m")
TwoRows == <<TN, TInt(2)>>

SelectRegion(dims, strides, length) ==
  [kind |-> "select", dims |-> dims, strides |-> strides, length |-> length, dim |-> 0, input |-> TRUE,
   followers |-> {"transfer"}, unbacked |-> {}, vars |-> {"n", "m"}]
PlainSelect == SelectRegion(TwoRows, <<TInt(2), TInt(1)>>, TM)
ViewRegion(dims, strides, result, resultStrides) ==
  [kind |-> "view", dims |-> dims, strides |-> strides, result |-> result, resultStrides |-> resultStrides,
   unbacked |-> {}, vars |-> {"n"}]
TwiceN == TCall("mul", <<TInt(2), TN>>)
HalfN == TCall("floordiv", <<TN, TInt(2)>>)
FromTwo(result, strides) == ViewRegion(TwoRows, <<TInt(2), TInt(1)>>, result, strides)
FromSquare(result, strides) == ViewRegion(<<TN, TN>>, <<TN, TInt(1)>>, result, strides)

MCCaptures ==
  {PlainSelect,
   SelectRegion(TwoRows, <<TInt(2), TInt(1)>>, TN),
   SelectRegion(TwoRows, <<TInt(2), TInt(1)>>, TInt(2)),
   SelectRegion(<<TN, TN>>, <<TN, TInt(1)>>, TM),
   [PlainSelect EXCEPT !.dim = 1], [PlainSelect EXCEPT !.dim = -2], [PlainSelect EXCEPT !.input = FALSE],
   [PlainSelect EXCEPT !.followers = {"transfer", "reshape"}], [PlainSelect EXCEPT !.unbacked = {"m"}],
   SelectRegion(<<TwiceN, TInt(2)>>, <<TInt(2), TInt(1)>>, TM),
   SelectRegion(<<TInt(2), TN>>, <<TInt(1), TInt(2)>>, TM),
   FromTwo(<<TwiceN>>, <<TInt(1)>>),
   FromTwo(<<TInt(2), TN>>, <<TCall("max", <<TInt(1), TN>>), TInt(1)>>),
   FromTwo(<<TInt(2), TN>>, <<TCall("max", <<TInt(2), TN>>), TInt(1)>>),
   FromTwo(<<HalfN, TInt(4)>>, <<TInt(4), TInt(1)>>),
   FromTwo(<<TCall("add", <<TN, TN, TCall("mod", <<TN, TInt(1)>>)>>)>>, <<TInt(1)>>),
   FromTwo(<<TCall("mul", <<TN, TCall("floordiv", <<TInt(4), TN>>)>>)>>, <<TInt(1)>>),
   FromTwo(<<TN, TCall("other", <<TN>>)>>, <<TInt(1), TInt(1)>>),
   FromSquare(<<TCall("pow", <<TN, TInt(2)>>)>>, <<TInt(1)>>),
   FromSquare(<<TN, TN>>, <<TInt(1), TN>>)}

(***************************************************************************)
(* Every call Torch accepts over a few values of each type of argument,    *)
(* with each number of its arguments written positionally.                 *)
(***************************************************************************)
ValuesOf(type) ==
  {<<type, p>> : p \in
     CASE type = "device" -> {"cuda"} [] type = "str" -> {"cpu"} [] type = "int" -> {1}
       [] type = "dtype" -> {"f16", "f32"} [] type = "bool" -> BOOLEAN [] type = "ints" -> {<<1, 0>>}
       [] type = "format" -> {"contiguous"} [] type = "mode" -> {"constant", "reflect"}
       [] type = "attribute" -> {"shape", "data"} [] type = "float" -> {"0.5"} [] type = "none" -> {"none"}
       [] type = "tensor" -> {[device |-> "cuda", dtype |-> "f16"]}}
Unwritten == <<"unwritten", "">>
WrittenAs(param) ==
  UNION {ValuesOf(t) : t \in param.types} \cup IF param.default = Required THEN {} ELSE {Unwritten}
Given(params) ==
  FoldLeft(LAMBDA some, p : {Append(g, v) : g \in some, v \in WrittenAs(p)}, {<<>>}, Tail(params))
Self(sig) == IF sig.params[1].types = {"tensor"} THEN {Source} ELSE UNION {ValuesOf(t) : t \in sig.params[1].types}
Call(form, sig, values, positional) ==
  [form |-> form, name |-> sig.name, variant |-> IF form = "overload" THEN sig.variant ELSE "",
   args |-> SubSeq(values, 1, positional),
   kwargs |-> [k \in {NameOf(form, sig, i) : i \in {j \in positional + 1 .. Len(values) : values[j] # Unwritten}} |->
                 values[CHOOSE i \in DOMAIN values : NameOf(form, sig, i) = k]]]
Spread(c) ==
  [c EXCEPT !.args = <<c.args[1]>> \o [i \in DOMAIN Payload(c.args[2]) |-> <<"int", Payload(c.args[2])[i]>>]]
Spreadable(c) ==
  c.form = "method" /\ c.name \in {"permute", "view", "reshape", "squeeze"} /\ Len(c.args) = 2
  /\ TypeOf(c.args[2]) = "ints"
Least(form, sig) ==
  IF form = "function" /\ sig.params[1].types = {"tensor"} /\ sig.name \notin {"getattr", "getitem"} THEN 0 ELSE 1
SigCalls(form, sig) ==
  LET wholes == {<<s>> \o g : s \in Self(sig), g \in Given(sig.params)}
      plain == {Call(form, sig, w, n) : w \in wholes, n \in 0 .. Positional(form, sig)}
  IN  {c \in plain : /\ Len(c.args) >= Least(form, sig) /\ \A i \in DOMAIN c.args : c.args[i] # Unwritten
                     /\ c.name \in {"mul", "getitem", "getattr"} => Len(c.args) = 2}
WrittenCalls == UNION {UNION {SigCalls(form, sig) : form \in sig.forms} : sig \in Signatures}
MCCalls ==
  {[call |-> c, recorded |-> FALSE, known |-> TRUE] : c \in {Spread(w) : w \in {w \in WrittenCalls : Spreadable(w)}}}
  \cup {x \in {[call |-> c, recorded |-> r, known |-> k] : c \in WrittenCalls, r \in BOOLEAN, k \in BOOLEAN} :
          /\ x.recorded => x.known /\ (x.call.name # "to" \/ Len(x.call.args) < 4)
          /\ ~x.known => x.call.name \in {"to", "cpu", "cuda", "mul", "flatten"} /\ Len(x.call.args) > 1}

(***************************************************************************)
(* Properties checked together                                             *)
(***************************************************************************)
\* A recipe or an artifact is bound only where its guards hold, to what the
\* recipe says, and nothing is admitted that differs from what was asked of the
\* compiler (symbolic.py bind_recipe, artifact.py _admit).
AdmittedMeansAsked == GuardsExact /\ AdmissionSound

\* An imported region computes what the captured calls compute, the graph
\* rewritten around it gives the same results and leaves the same bytes behind,
\* the Torch replays of its recipe agree with it,
\* and the op inserted for it declares and returns what Torch would
\* (fx_import.py _recipe, _safety, import_graph; backend.py _rewrite,
\* _insert_transfer; runtime.py execute_or_fallback; placement.py and
\* weights.py replay).
ImportKeepsMeaning == RecipeIsRegion /\ ReplaysAgree /\ SwapsFaithful /\ RewriteKeepsMeaning /\ CapturedCallsExact
=============================================================================
