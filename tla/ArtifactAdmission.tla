------------------------- MODULE ArtifactAdmission -------------------------
(****************************************************************************)
(* Admission of compiler output (artifact.py, indexed_artifact.py): what a  *)
(* manifest, a plan and a serialized recipe must say before they become a   *)
(* CompiledRecipe, its serialization, and the binding of an admitted recipe *)
(* to a concrete source.                                                    *)
(*                                                                          *)
(* JSON expressions are tagged tuples; `Malformed` is any JSON value of the *)
(* wrong type or with the wrong keys.  A plan is what the runtime decodes   *)
(* from it; its digest and the digest of the emitted MLIR are the plan and  *)
(* the emitted program themselves (SHA-256 taken as collision free).        *)
(****************************************************************************)
EXTENDS Symbolic, TLC

CONSTANT Artifacts

\* art is one artifact on its way: its input `in`, the recipe read from it, the
\* types between the recipe's operations (chain), the normal form of every
\* expression at hand (normal; normalizing is pure, so it is done once), the
\* CompiledRecipe it gives, the one it was saved from, and its bound values.
VARIABLE art
artifactVars == <<symbolicVars, art>>

Malformed == [malformed |-> TRUE]
TensorDtypes == {"f32", "f16", "i8"}
IndexDtypes == {"i32", "i64"}
LAYOUT_SCHEMA == <<1, 0>>
TYPED_SCHEMA == <<2, 1>>
INDEXED_SCHEMA == <<3, 2>>

(***************************************************************************)
(* JSON expressions and descriptors                                        *)
(***************************************************************************)
RECURSIVE encode_expr(_)
encode_expr(e) ==
  CASE e.op = "const" -> <<"const", e.v>>
    [] e.op = "sym" -> <<"symbol", e.v>>
    [] e.op \in {"add", "mul"} -> <<e.op, encode_expr(e.l), encode_expr(e.r)>>
    [] OTHER -> <<e.op, encode_expr(e.l), e.r.v>>

\* Parsing refuses unknown tags, wrong lengths and divisors that are not positive.
RECURSIVE Parses(_)
Parses(j) ==
  \/ Len(j) = 2 /\ j[1] \in {"const", "symbol"}
  \/ Len(j) = 3 /\ j[1] \in {"add", "mul"} /\ Parses(j[2]) /\ Parses(j[3])
  \/ Len(j) = 3 /\ j[1] \in {"floordiv", "mod"} /\ Parses(j[2]) /\ j[3] > 0
RECURSIVE parse_expr(_)
parse_expr(j) ==
  CASE j[1] = "const" -> Const(j[2])
    [] j[1] = "symbol" -> Sym(j[2])
    [] j[1] \in {"add", "mul"} -> Binary(j[1], parse_expr(j[2]), parse_expr(j[3]))
    [] OTHER -> Binary(j[1], parse_expr(j[2]), Const(j[3]))

encode_exprs(es) == [k \in DOMAIN es |-> encode_expr(es[k])]
parse_exprs(js) == [k \in DOMAIN js |-> parse_expr(js[k])]
AllParse(js) == \A k \in DOMAIN js : Parses(js[k])

encode_descriptor(d) ==
  [shape |-> encode_exprs(d.shape), strides |-> encode_exprs(d.strides),
   offset |-> encode_expr(d.offset), dtype |-> d.dtype]
DescriptorParses(j, dtypes) ==
  /\ j # Malformed
  /\ j.shape # <<>> /\ Len(j.shape) = Len(j.strides) /\ j.dtype \in dtypes
  /\ AllParse(j.shape) /\ AllParse(j.strides) /\ Parses(j.offset)
parse_descriptor(j) ==
  [shape |-> parse_exprs(j.shape), strides |-> parse_exprs(j.strides),
   offset |-> parse_expr(j.offset), dtype |-> j.dtype]

(***************************************************************************)
(* Normal forms                                                            *)
(***************************************************************************)
\* A constant expression becomes its value unless that overflows.
FoldConstant(e) ==
  LET r == evaluate(e, <<>>) IN IF r.ok THEN Const(r.v) ELSE e
Combined(kind, l, r) ==
  LET folded == FoldConstant(Binary(kind, l, r))
  IN  IF folded.op = "const" THEN folded ELSE commutative(kind, l, r)

\* Defect: divisions are taken to be identities.
RECURSIVE NormalizeCancelling(_)
NormalizeCancelling(e) ==
  CASE Leaf(e) -> e
    [] e.op \in {"add", "mul"} -> Combined(e.op, NormalizeCancelling(e.l), NormalizeCancelling(e.r))
    [] OTHER -> NormalizeCancelling(e.l)

RECURSIVE normalize_expr(_)
normalize_expr(e) ==
  CASE Leaf(e) -> e
    [] e.op \in {"add", "mul"} -> Combined(e.op, normalize_expr(e.l), normalize_expr(e.r))
    [] e.op = "floordiv" ->
         IF e.r = Const(1) THEN normalize_expr(e.l)
         ELSE FoldConstant(Binary("floordiv", normalize_expr(e.l), e.r))
    [] e.op = "mod" ->
         IF e.r = Const(1) THEN Const(0)
         ELSE FoldConstant(Binary("mod", normalize_expr(e.l), e.r))

same_exprs(actual, expected) ==
  /\ Len(actual) = Len(expected)
  /\ \A k \in DOMAIN actual : art.normal[actual[k]] = art.normal[expected[k]]
same_descriptor(actual, expected) ==
  /\ actual.dtype = expected.dtype
  /\ same_exprs(actual.shape, expected.shape)
  /\ same_exprs(actual.strides, expected.strides)
  /\ art.normal[actual.offset] = art.normal[expected.offset]

(***************************************************************************)
(* Constraints, symbols, and the emitted program                           *)
(***************************************************************************)
RECURSIVE Quotients(_)
Quotients(e) ==
  CASE Leaf(e) -> {}
    [] e.op = "floordiv" ->
         LET lhs == art.normal[e.l]
         IN  (IF e.r # Const(1) /\ lhs.op # "const" THEN {[expr |-> lhs, divisor |-> e.r.v]} ELSE {})
             \cup Quotients(e.l)
    [] e.op = "mod" -> Quotients(e.l)
    [] OTHER -> Quotients(e.l) \cup Quotients(e.r)
Reshapes(recipe) == {op \in Range(recipe.operations) : op.kind = "reshape"}
expected_constraints(recipe) ==
  UNION {UNION {Quotients(op.shape[k]) : k \in DOMAIN op.shape} : op \in Reshapes(recipe)}

\* Constraints are compared as lists: none twice, in any order.
ConstraintsParse(js) ==
  /\ js # <<Malformed>>
  /\ \A k \in DOMAIN js : Parses(js[k].expr) /\ js[k].divisor > 0
parse_constraints(js) ==
  [k \in DOMAIN js |-> [expr |-> art.normal[parse_expr(js[k].expr)], divisor |-> js[k].divisor]]
SameConstraints(cs, recipe) ==
  Range(cs) = expected_constraints(recipe) /\ Len(cs) = Cardinality(expected_constraints(recipe))

recipe_symbols(recipe) == UNION {NamesOf(e) : e \in RecipeExprs(recipe)}

\* The symbol table at the head of the plan bytes.
WireHeaderOK(plan, version) ==
  /\ plan.header = "ok" /\ plan.version = version
  /\ Cardinality(Range(plan.symbols)) = Len(plan.symbols)

Schema(recipe) ==
  IF Indexed(recipe) THEN INDEXED_SCHEMA ELSE IF Typed(recipe) THEN TYPED_SCHEMA ELSE LAYOUT_SCHEMA
PlanKind(recipe) ==
  IF Indexed(recipe) THEN "indexed" ELSE IF Typed(recipe) THEN "typed" ELSE "layout"

IndexedChain(recipe) ==
  /\ Len(recipe.operations) \in 1 .. 2 /\ recipe.operations[1].kind = "select"
  /\ Len(recipe.operations) = 2 => recipe.operations[2].kind = "cast"
DenseAtZero(d) == d.shape # <<>> /\ d.offset = Const(0) /\ d.strides = dense_strides(d.shape)

\* Shapes and element types between the operations of a recipe.
Chained(recipe) ==
  FoldLeft(LAMBDA acc, op :
             Append(acc, [shape |-> operation_shape(acc[Len(acc)].shape, op),
                          dtype |-> IF op.kind \in TypedKinds THEN op.dtype ELSE acc[Len(acc)].dtype]),
           <<[shape |-> recipe.source.shape, dtype |-> recipe.source.dtype]>>, recipe.operations)
ChainDefined(recipe) ==
  \A k \in DOMAIN recipe.operations :
    OperationDefined(Chained([recipe EXCEPT !.operations = SubSeq(@, 1, k - 1)])[k].shape,
                     recipe.operations[k])

EndsIn(recipe) == Chained(recipe)[Len(recipe.operations) + 1].dtype = recipe.destination.dtype

\* emit_mlir: the program has the recipe's operations between its types; a
\* recipe without operations is an identity transpose.
Emits(recipe) ==
  /\ {recipe.source.dtype, recipe.destination.dtype} \subseteq TensorDtypes
  /\ ~Typed(recipe) => recipe.source.dtype = recipe.destination.dtype
  /\ DenseAtZero(recipe.source) /\ DenseAtZero(recipe.destination)
  /\ Indexed(recipe) => IndexedChain(recipe) /\ DenseAtZero(recipe.operations[1].indices)
  /\ ChainDefined(recipe) /\ EndsIn(recipe)
emit_mlir(recipe) ==
  LET rank == Len(recipe.source.shape)
      identity == [kind |-> "transpose", perm |-> [k \in 1 .. rank |-> k]]
  IN  [operations |-> IF recipe.operations = <<>> THEN <<identity>> ELSE recipe.operations,
       source |-> [shape |-> recipe.source.shape, dtype |-> recipe.source.dtype],
       result |-> [shape |-> recipe.destination.shape, dtype |-> recipe.destination.dtype]]

(***************************************************************************)
(* Typed sections                                                          *)
(***************************************************************************)
ParamWidth == [dtype \in {"f32", "f16", "i8", "i32"} |-> IF dtype = "i8" THEN 2 ELSE 3]
ParamOK(p) ==
  CASE p.kind = "none" -> TRUE
    [] p.kind = "inline" ->
         /\ p.dtype \in DOMAIN ParamWidth /\ Len(p.shape) <= 1
         /\ \A k \in DOMAIN p.shape : p.shape[k] > 0
         /\ Len(p.bits) = Count(p.shape)
         /\ \A k \in DOMAIN p.bits : p.bits[k] \in 0 .. 2 ^ ParamWidth[p.dtype] - 1
    [] p.kind = "binding" -> p.dtype \in DOMAIN ParamWidth /\ Len(p.extents) <= 1
    [] OTHER -> FALSE

encode_param(p) == IF p.kind = "binding" THEN [p EXCEPT !.extents = encode_exprs(@)] ELSE p
ParamParses(j) ==
  j # Malformed /\ (j.kind = "binding" => AllParse(j.extents)) /\ ParamOK(j)
parse_param(j) == IF j.kind = "binding" THEN [j EXCEPT !.extents = parse_exprs(@)] ELSE j
same_param(actual, expected) ==
  /\ actual.kind = expected.kind
  /\ IF actual.kind = "binding"
     THEN /\ actual.name = expected.name /\ actual.dtype = expected.dtype
          /\ same_exprs(actual.extents, expected.extents)
     ELSE actual = expected

\* A channel map is an expression over result coordinates and plan symbols.
RECURSIVE ChannelOK(_, _, _)
ChannelOK(j, dims, symbols) ==
  \/ Len(j) = 2 /\ j[1] = "const"
  \/ Len(j) = 2 /\ j[1] = "dim" /\ j[2] \in 1 .. dims
  \/ Len(j) = 2 /\ j[1] = "symbol" /\ j[2] \in Range(symbols)
  \/ Len(j) = 3 /\ j[1] \in {"add", "mul", "floordiv", "mod"}
     /\ ChannelOK(j[2], dims, symbols) /\ ChannelOK(j[3], dims, symbols)

NoParam == [kind |-> "none"]
NoChannel == [dims |-> 0, expr |-> <<>>]
ScaleOf(op) == IF op.kind = "cast" THEN NoParam ELSE op.scale
ZeroOf(op) == IF op.kind = "cast" THEN NoParam ELSE op.zero
AxisOfOp(op) == IF op.kind = "cast" THEN 0 ELSE op.axis

\* One stage of the manifest against the recipe's value transform, its
\* operand and the stage the runtime decoded from the plan.
StageView(j, op) ==
  [transform |-> j.transform, policy |-> j.policy, input |-> j.input, output |-> j.output,
   axis |-> AxisOfOp(op), channel |-> AxisOfOp(op) > 0]
check_stage(j, decoded, op, operand, rank, symbols) ==
  /\ j # Malformed
  /\ j.transform = op.kind /\ j.policy = op.policy /\ j.input = operand.dtype /\ j.output = op.dtype
  /\ AllParse(j.shape) /\ same_exprs(parse_exprs(j.shape), operand.shape)
  /\ j.axis = AxisOfOp(op)
  /\ ParamParses(j.scale) /\ same_param(parse_param(j.scale), ScaleOf(op))
  /\ ParamParses(j.zero) /\ same_param(parse_param(j.zero), ZeroOf(op))
  /\ IF AxisOfOp(op) = 0 THEN j.channel = NoChannel
     ELSE j.channel.dims = rank /\ ChannelOK(j.channel.expr, rank, symbols)
  /\ decoded = StageView(j, op)

Declared(recipe) ==
  [k \in DOMAIN parameter_bindings(recipe) |->
     LET p == parameter_bindings(recipe)[k]
     IN  [name |-> p.name, dtype |-> p.dtype, extents |-> p.extents]]
ParametersOK(recipe, js, runtime) ==
  LET expected == Declared(recipe)
  IN  /\ Len(js) = Len(expected)
      /\ \A k \in DOMAIN js :
           /\ AllParse(js[k].extents)
           /\ js[k].name = expected[k].name /\ js[k].dtype = expected[k].dtype
           /\ same_exprs(parse_exprs(js[k].extents), expected[k].extents)
      /\ runtime = [k \in DOMAIN js |->
                      [name |-> js[k].name, dtype |-> js[k].dtype, rank |-> Len(js[k].extents)]]

\* Fills are matched as a bag of (dtype, bits): axis and stage are only range
\* checked.
PadsOf(recipe) == SelectSeq(recipe.operations, LAMBDA op : op.kind = "pad")
FillsOK(recipe, js, stages) ==
  LET bits(s) == [v \in Range(s) |-> Cardinality({k \in DOMAIN s : s[k] = v})]
      wanted == [k \in DOMAIN PadsOf(recipe) |-> PadsOf(recipe)[k].fill]
      got == [k \in DOMAIN js |-> [dtype |-> js[k].dtype, bits |-> js[k].bits]]
  IN  /\ Len(js) = Len(wanted)
      /\ \A k \in DOMAIN js :
           js[k].axis \in 1 .. Len(recipe.destination.shape) /\ js[k].stage \in 0 .. stages
      /\ bits(got) = bits(wanted)

ValueOps(recipe) == {k \in DOMAIN recipe.operations : recipe.operations[k].kind \in TypedKinds}
StageIndex(recipe, k) == Cardinality({i \in ValueOps(recipe) : i <= k})
validate_typed_sections(recipe, m, plan) ==
  LET rank == Len(recipe.destination.shape)
      chain == art.chain
  IN  /\ Len(m.stages) = Cardinality(ValueOps(recipe)) /\ Len(plan.stages) = Len(m.stages)
      /\ \A k \in ValueOps(recipe) :
           check_stage(m.stages[StageIndex(recipe, k)], plan.stages[StageIndex(recipe, k)],
                       recipe.operations[k], chain[k], rank, m.symbols)
      /\ chain[Len(chain)].dtype = recipe.destination.dtype
      /\ plan.fills = Len(m.fills) /\ FillsOK(recipe, m.fills, Len(m.stages))
      /\ ParametersOK(recipe, m.parameters, plan.parameters)

(***************************************************************************)
(* Admission                                                               *)
(***************************************************************************)
\* Keys and types, versions and the compiler's identity, and one plan.
validate_base(m, schema) ==
  m.schema = schema[1] /\ m.wire = schema[2] /\ m.compiler = "sym-reloc-export 1"
BaseOK(m, schema) ==
  m.keys = "exact" /\ validate_base(m, schema) /\ m.status = "ok" /\ m.count = 1

DigestsOK(recipe, plan, m) == m.planDigest = plan /\ m.inputDigest = emit_mlir(recipe)

\* Layout-only and typed artifacts.  The sources of symbols are looked up in
\* the source shape: a recipe with a symbol from elsewhere fails there.
AdmitPlain(recipe, plan, m) ==
  /\ BaseOK(m, Schema(recipe))
  /\ plan.kind = PlanKind(recipe)
  /\ WireHeaderOK(plan, Schema(recipe)[2]) /\ m.symbols = plan.symbols
  /\ Range(m.symbols) = recipe_symbols(recipe)
  /\ DescriptorParses(m.source, TensorDtypes) /\ DescriptorParses(m.destination, TensorDtypes)
  /\ same_descriptor(parse_descriptor(m.source), recipe.source)
  /\ same_descriptor(parse_descriptor(m.destination), recipe.destination)
  /\ ConstraintsParse(m.constraints) /\ SameConstraints(parse_constraints(m.constraints), recipe)
  /\ Typed(recipe) => validate_typed_sections(recipe, m, plan)
  /\ DigestsOK(recipe, plan, m)
  /\ AtomicShape(recipe.source.shape)
  /\ Range(m.symbols) \subseteq NamesIn(recipe.source.shape)

\* Indexed artifacts: a selection, perhaps a cast, and two operands.
sources_for(recipe) ==
  LET own == symbol_sources(recipe.source.shape)
      index == symbol_sources(recipe.operations[1].indices.shape)
  IN  {[name |-> s.name, axis |-> s.axis, equal |-> s.equal, operand |-> "source"] : s \in own}
      \cup {[name |-> s.name, axis |-> s.axis, equal |-> s.equal, operand |-> "indices"] :
              s \in {i \in index : \A o \in own : o.name # i.name}}
IndexPolicy(recipe) ==
  IF Len(recipe.operations) = 2 THEN recipe.operations[2].policy ELSE "exact"
WireSpec(shape, dtype) ==
  [shape |-> shape, strides |-> dense_strides(shape), offset |-> Const(0), dtype |-> dtype]
WireSays(raw, declared) ==
  AllParse(raw.shape) /\ same_descriptor(WireSpec(parse_exprs(raw.shape), raw.dtype), declared)
AdmitIndexed(recipe, plan, m) ==
  /\ BaseOK(m, INDEXED_SCHEMA)
  /\ IndexedChain(recipe)
  /\ m.select # Malformed /\ m.select.policy = IndexPolicy(recipe)
  /\ DescriptorParses(m.source, TensorDtypes) /\ DescriptorParses(m.destination, TensorDtypes)
  /\ DescriptorParses(m.select.indices, IndexDtypes)
  /\ same_descriptor(parse_descriptor(m.source), recipe.source)
  /\ same_descriptor(parse_descriptor(m.select.indices), recipe.operations[1].indices)
  /\ same_descriptor(parse_descriptor(m.destination), recipe.destination)
  /\ m.constraints = <<>>
  /\ DigestsOK(recipe, plan, m)
  /\ plan.kind = "indexed" /\ WireHeaderOK(plan, 2) /\ m.symbols = plan.symbols
  /\ AtomicShape(recipe.source.shape) /\ AtomicShape(recipe.operations[1].indices.shape)
  /\ Range(m.symbols) = {s.name : s \in sources_for(recipe)}
  /\ plan.policy = m.select.policy
  /\ WireSays(plan.source, parse_descriptor(m.source))
  /\ WireSays(plan.indices, parse_descriptor(m.select.indices))
  /\ WireSays(plan.result, parse_descriptor(m.destination))

Admits(recipe, plan, m) ==
  IF Indexed(recipe) THEN AdmitIndexed(recipe, plan, m) ELSE AdmitPlain(recipe, plan, m)

Compiled(recipe, plan, m) ==
  [recipe |-> recipe, plan |-> plan, manifest |-> m, wire |-> m.wire, symbols |-> m.symbols,
   sources |-> IF Indexed(recipe) THEN sources_for(recipe) ELSE symbol_sources(recipe.source.shape),
   constraints |-> IF Indexed(recipe) THEN <<>> ELSE parse_constraints(m.constraints),
   source |-> parse_descriptor(m.source), destination |-> parse_descriptor(m.destination),
   parameters |-> IF Typed(recipe) /\ ~Indexed(recipe)
                  THEN [k \in DOMAIN m.parameters |->
                          [m.parameters[k] EXCEPT !.extents = parse_exprs(@)]]
                  ELSE <<>>]

\* Exit 2 of the compiler: a manifest that only says why it declined.
DeclineOK(m) ==
  m.keys = "unsupported" /\ validate_base(m, LAYOUT_SCHEMA) /\ m.status = "unsupported"

(***************************************************************************)
(* Serialization                                                           *)
(***************************************************************************)
encode_operation(op) ==
  CASE op.kind = "select" -> [op EXCEPT !.indices = encode_descriptor(@)]
    [] op.kind = "reshape" -> [op EXCEPT !.shape = encode_exprs(@)]
    [] op.kind = "pad" -> [op EXCEPT !.lo = encode_expr(@), !.hi = encode_expr(@)]
    [] op.kind \in {"quantize", "dequantize"} ->
         [op EXCEPT !.scale = encode_param(@), !.zero = encode_param(@)]
    [] OTHER -> op
encode_recipe(r) ==
  [source |-> encode_descriptor(r.source), destination |-> encode_descriptor(r.destination),
   operations |-> [k \in DOMAIN r.operations |-> encode_operation(r.operations[k])],
   direction |-> r.direction]

OperationParses(j) ==
  CASE j.kind = "select" -> DescriptorParses(j.indices, IndexDtypes) /\ Len(j.indices.shape) = 1
    [] j.kind = "reshape" -> AllParse(j.shape)
    [] j.kind = "pad" -> Parses(j.lo) /\ Parses(j.hi) /\ j.fill.dtype \in TensorDtypes
                         /\ j.fill.bits \in 0 .. 2 ^ ParamWidth[j.fill.dtype] - 1
    [] j.kind = "cast" -> j.dtype \in TensorDtypes /\ j.policy \in {"ieee_rne", "exact"}
    [] j.kind \in {"quantize", "dequantize"} ->
         /\ ParamParses(j.scale) /\ j.scale # NoParam /\ ParamParses(j.zero)
         /\ j.dtype \in TensorDtypes /\ j.policy \in {"symmetric_rne", "affine"} /\ j.axis >= 0
    [] j.kind = "transpose" -> TRUE
    [] OTHER -> FALSE
decode_operation(j) ==
  CASE j.kind = "select" -> [j EXCEPT !.indices = parse_descriptor(@)]
    [] j.kind = "reshape" -> [j EXCEPT !.shape = parse_exprs(@)]
    [] j.kind = "pad" -> [j EXCEPT !.lo = parse_expr(@), !.hi = parse_expr(@)]
    [] j.kind \in {"quantize", "dequantize"} ->
         [j EXCEPT !.scale = parse_param(@), !.zero = parse_param(@)]
    [] OTHER -> j
RecipeParses(j) ==
  /\ j # Malformed /\ j.direction \in {"h2d", "d2h"}
  /\ \A k \in DOMAIN j.operations : OperationParses(j.operations[k])
  /\ DescriptorParses(j.source, TensorDtypes) /\ DescriptorParses(j.destination, TensorDtypes)
decode_recipe(j) ==
  [source |-> parse_descriptor(j.source), destination |-> parse_descriptor(j.destination),
   operations |-> [k \in DOMAIN j.operations |-> decode_operation(j.operations[k])],
   direction |-> j.direction]

FormatVersion(recipe) == IF Indexed(recipe) THEN 3 ELSE IF Typed(recipe) THEN 2 ELSE 1
\* Defect: a typed recipe with a selection is written as typed.
to_bytesTypedFirst(compiled) ==
  [version |-> IF Typed(compiled.recipe) THEN 2 ELSE IF Indexed(compiled.recipe) THEN 3 ELSE 1,
   manifest |-> compiled.manifest, plan |-> compiled.plan,
   recipe |-> encode_recipe(compiled.recipe)]
to_bytes(compiled) ==
  [version |-> IF compiled.wire = 2 THEN 3 ELSE IF compiled.wire = 1 THEN 2 ELSE 1,
   manifest |-> compiled.manifest, plan |-> compiled.plan,
   recipe |-> encode_recipe(compiled.recipe)]
PayloadOK(payload) ==
  /\ payload.version \in 1 .. 3 /\ payload.plan # Malformed /\ RecipeParses(payload.recipe)
  /\ payload.version = FormatVersion(decode_recipe(payload.recipe))

\* The expressions an admission compares, those that parse.
Parsed(js) == {parse_expr(j) : j \in {i \in js : Parses(i)}}
SpecJson(j) == IF j = Malformed THEN {} ELSE Range(j.shape) \cup Range(j.strides) \cup {j.offset}
ParamJson(j) == IF j # Malformed /\ j.kind = "binding" THEN Range(j.extents) ELSE {}
StageJson(j) == IF j = Malformed THEN {} ELSE Range(j.shape) \cup ParamJson(j.scale) \cup ParamJson(j.zero)
ManifestJson(m) ==
  UNION ({SpecJson(m.source), SpecJson(m.destination)}
         \cup {StageJson(j) : j \in Range(m.stages)}
         \cup {Range(p.extents) : p \in Range(m.parameters)}
         \cup {{c.expr} : c \in Range(m.constraints)}
         \cup (IF m.select = Malformed THEN {} ELSE {SpecJson(m.select.indices)}))
RECURSIVE Parts(_)
Parts(e) == {e} \cup (IF Leaf(e) THEN {} ELSE Parts(e.l) \cup Parts(e.r))
WireShapes(plan) == {parse_exprs(d.shape) : d \in {plan.source, plan.indices, plan.result}}
Exprs ==
  UNION {Parts(e) : e \in RecipeExprs(art.recipe)}
  \cup Parsed(ManifestJson(art.in.manifest))
  \cup UNION {Range(c.shape) : c \in Range(art.chain)}
  \cup UNION {Range(sh) \cup Range(dense_strides(sh)) : sh \in WireShapes(art.in.plan)}
  \cup (IF Indexed(art.recipe) THEN SpecExprs(art.recipe.operations[1].indices) ELSE {})
  \cup {Const(0)}

(***************************************************************************)
(* The life of one artifact                                                *)
(***************************************************************************)
NoTask == [recipe |-> Malformed, sources |-> {}, given |-> <<>>, concrete |-> Malformed]
Idle == [at |-> "idle", bindings |-> <<>>, shape |-> <<>>, dtype |-> "none", k |-> 0]

\* An artifact comes from the compiler or from bytes; concrete and index are
\* the operands it will be bound to.
Fresh(a) ==
  [at |-> "read", in |-> a, recipe |-> Malformed, chain |-> <<>>, normal |-> <<>>,
   compiled |-> Malformed, saved |-> Malformed, values |-> <<>>]
NoArtifact == [Fresh(Malformed) EXCEPT !.at = "none"]
AdmissionInit == task = NoTask /\ guard = Idle /\ art \in {Fresh(a) : a \in Artifacts}

Decline ==
  /\ art.at = "read" /\ art.in.exit = 2
  /\ art' = [art EXCEPT !.at = IF DeclineOK(art.in.manifest) THEN "unsupported" ELSE "refused"]
  /\ UNCHANGED symbolicVars

\* The recipe the compiler was given, or the one stored with the artifact.
Read ==
  /\ art.at = "read" /\ art.in.exit = 0
  /\ IF art.in.via = "bytes" /\ ~PayloadOK(art.in) THEN art' = [art EXCEPT !.at = "refused"]
     ELSE art' = [art EXCEPT !.at = "emit", !.recipe = decode_recipe(art.in.recipe)]
  /\ UNCHANGED symbolicVars

Emit ==
  /\ art.at = "emit"
  /\ IF ~Emits(art.recipe) THEN art' = [art EXCEPT !.at = "refused"]
     ELSE art' = [art EXCEPT !.at = "normalize", !.chain = Chained(art.recipe)]
  /\ UNCHANGED symbolicVars

Normalize ==
  /\ art.at = "normalize"
  /\ art' = [art EXCEPT !.at = "admit", !.normal = [e \in Exprs |-> normalize_expr(e)]]
  /\ UNCHANGED symbolicVars

Admit ==
  /\ art.at = "admit"
  /\ LET ok == Admits(art.recipe, art.in.plan, art.in.manifest)
     IN  art' = [art EXCEPT !.at = IF ok THEN "admitted" ELSE "refused",
                            !.compiled = IF ok THEN Compiled(art.recipe, art.in.plan, art.in.manifest)
                                         ELSE Malformed]
  /\ UNCHANGED symbolicVars

\* save() and a later load() of the same artifact.
Save ==
  /\ art.at = "admitted" /\ art.saved = Malformed
  /\ art' = [Fresh(to_bytes(art.compiled) @@ [exit |-> 0, via |-> "bytes"] @@ art.in)
              EXCEPT !.saved = art.compiled]
  /\ UNCHANGED symbolicVars

\* The symbols an index operand supplies.
IndexBindings(c, source, index) ==
  [n \in {s.name : s \in {t \in c.sources : t.operand = "indices"}} |-> index.shape[1]]
IndexOK(c, index) ==
  LET declared == c.recipe.operations[1].indices
  IN  Len(index.shape) = 1 /\ index.dtype = declared.dtype
PlainSources(sources) == {[name |-> s.name, axis |-> s.axis, equal |-> s.equal] : s \in sources}

\* bind_values() hands the concrete descriptor to bind_recipe.
BindValues ==
  /\ art.at = "admitted"
  /\ LET c == art.compiled
     IN  IF Indexed(c.recipe) /\ ~IndexOK(c, art.in.index)
         THEN art' = [art EXCEPT !.at = "unbound"] /\ UNCHANGED symbolicVars
         ELSE /\ art' = [art EXCEPT !.at = "binding"]
              /\ task' = [recipe |-> c.recipe, concrete |-> art.in.concrete,
                          sources |-> IF Indexed(c.recipe)
                                      THEN PlainSources({s \in c.sources : s.operand = "source"})
                                      ELSE c.sources,
                          given |-> IF Indexed(c.recipe)
                                    THEN IndexBindings(c, art.in.concrete, art.in.index) ELSE <<>>]
              /\ guard' = [Idle EXCEPT !.at = "sources", !.bindings = task'.given]

\* Then the plan's own constraints, and the index operand, are checked.
ConstraintsHold(c, b) ==
  \A k \in DOMAIN c.constraints :
    LET dividend == evaluate(c.constraints[k].expr, b)
    IN  dividend.ok /\ dividend.v % c.constraints[k].divisor = 0
IndexMatches(c, b) ==
  Indexed(c.recipe) =>
    LET n == evaluate(c.recipe.operations[1].indices.shape[1], b)
    IN  n = Returns(art.in.index.shape[1]) /\ Fits(n.v * (IF art.in.index.dtype = "i32" THEN 4 ELSE 8))
FinishBind ==
  /\ art.at = "binding" /\ guard.at \in {"accepted", "refused"}
  /\ LET c == art.compiled
         b == guard.bindings
         ok == guard.at = "accepted" /\ ConstraintsHold(c, b) /\ IndexMatches(c, b)
     IN  art' = [art EXCEPT !.at = IF ok THEN "bound" ELSE "unbound",
                            !.values = IF ok THEN [n \in Range(c.symbols) |-> b[n]] ELSE <<>>]
  /\ UNCHANGED symbolicVars

AdmissionNext ==
  \/ Decline \/ Read \/ Emit \/ Normalize \/ Admit \/ Save \/ BindValues \/ FinishBind
  \/ art.at = "binding" /\ SymbolicNext /\ UNCHANGED art

(***************************************************************************)
(* Properties                                                              *)
(***************************************************************************)
\* Concrete extents and element types between the operations.
RanChain(recipe, concrete, b) ==
  [k \in 1 .. Len(recipe.operations) + 1 |->
     FoldLeft(LAMBDA s, op : Ran(s, op, b),
              [dims |-> concrete.shape, dtype |-> concrete.dtype, ok |-> TRUE],
              SubSeq(recipe.operations, 1, k - 1))]
Evaluated(es, b) == [k \in DOMAIN es |-> Value(es[k], b)]
StagesMean(c, chain, b) ==
  \A k \in ValueOps(c.recipe) :
    LET j == c.manifest.stages[StageIndex(c.recipe, k)]
        wire == c.plan.stages[StageIndex(c.recipe, k)]
    IN  /\ Evaluated(parse_exprs(j.shape), b) = chain[k].dims
        /\ wire.input = chain[k].dtype /\ wire.output = chain[k + 1].dtype
        /\ wire.transform = c.recipe.operations[k].kind
        /\ wire.axis <= Len(chain[k].dims)

(***************************************************************************)
(* A bound artifact means its recipe: whatever form the compiler wrote the *)
(* manifest in, its destination and the operand of each of its stages have *)
(* the concrete extents and element types that the recipe's operations     *)
(* produce on this source, every division the plan performs is exact, each *)
(* runtime parameter has the extents its operation declares, and each      *)
(* symbol of the plan's own table has a value (_admit, bind_values).       *)
(***************************************************************************)
BoundMeansRecipe ==
  art.at = "bound" =>
    LET c == art.compiled
        b == guard.bindings
        chain == RanChain(c.recipe, art.in.concrete, b)
        end == chain[Len(chain)]
    IN  /\ Evaluated(c.source.shape, b) = art.in.concrete.shape
        /\ end.ok /\ Evaluated(c.destination.shape, b) = end.dims /\ c.destination.dtype = end.dtype
        /\ Evaluated(c.destination.strides, b) = RowStrides(end.dims)
        /\ \A op \in Reshapes(c.recipe) : \A k \in DOMAIN op.shape :
             \A q \in Quotients(op.shape[k]) :
               \E i \in DOMAIN c.constraints :
                 /\ c.constraints[i].divisor = q.divisor
                 /\ Value(c.constraints[i].expr, b) = Value(q.expr, b)
                 /\ Value(q.expr, b) % q.divisor = 0
        /\ Typed(c.recipe) /\ ~Indexed(c.recipe) =>
             /\ StagesMean(c, chain, b)
             /\ \A k \in DOMAIN c.parameters :
                  Evaluated(c.parameters[k].extents, b) = Evaluated(Declared(c.recipe)[k].extents, b)
        /\ DOMAIN art.values = Range(c.plan.symbols)
        /\ c.plan.kind = PlanKind(c.recipe)

(***************************************************************************)
(* An admitted artifact survives storage: loading the bytes it serializes  *)
(* to admits it again, as the same CompiledRecipe (to_bytes, from_bytes).  *)
(***************************************************************************)
RoundTrips ==
  art.saved # Malformed =>
    art.at # "refused" /\ (art.at = "admitted" => art.compiled = art.saved)

\* An admitted artifact is what its recipe says, and stays admitted when stored.
AdmissionSound == BoundMeansRecipe /\ RoundTrips
=============================================================================
