--------------------------- MODULE MCCompilation ---------------------------
(****************************************************************************)
(* One TLC run for the sequential parts: binding and planning, recipes and  *)
(* their guards, artifact admission, the canonical forms of captured calls, *)
(* region import, graph rewriting, the admission of live tensors, the       *)
(* records of observed calls and the gates over measurements.               *)
(* They share expressions and no state: a behaviour exercises one of them.  *)
(****************************************************************************)
EXTENDS Binding, ChunkSchedule, Eligibility, Observation, Verdicts, MCFrontend

(***************************************************************************)
(* From a plan to its chunks: bind() makes a layout plan concrete and      *)
(* planChunks cuts it.  A plan may also come to the planner from a caller  *)
(* that built it (bindIndexed's row layout, the tests); those are Plans.   *)
(* A typed layout is refused by the layout-only path and is not handed on. *)
(* The instances follow: concrete plans for the planner, and requests for  *)
(* bind() that make every check of it bind.                                *)
(***************************************************************************)
ASSUME RequestsFitRank ==
  \A r \in Requests : Len(r.axes) <= Rank

allVars == <<bindVars, vars>>

\* A bound plan of fewer axes, with the unit axes the planner's loops over
\* its inner axes do not see.
Unit == [extent |-> 1, src |-> 1, dst |-> 1, lo |-> 0, hi |-> 0]
AxisOf(k) == IF k \in DOMAIN bound.axes THEN bound.axes[k] ELSE Unit

PlanningInit ==
  \/ /\ Init
     /\ req = None /\ step = "none" /\ fields = <<>> /\ axes = <<>> /\ absorbed = <<>> /\ bound = None
  \/ /\ BindInit
     /\ plan = None /\ pc = "unbound" /\ pb = 0 /\ chunks = <<>> /\ maxChunkBytes = 0

planChunks ==
  /\ step = "bound" /\ pc = "unbound" /\ req.typed = None
  /\ plan' = [extents |-> [k \in Axes |-> AxisOf(k).extent],
              src |-> [k \in Axes |-> AxisOf(k).src],
              dst |-> [k \in Axes |-> AxisOf(k).dst],
              lo |-> [k \in Axes |-> AxisOf(k).lo],
              hi |-> [k \in Axes |-> AxisOf(k).hi],
              elementSize |-> bound.elementSize, totalBytes |-> bound.totalBytes,
              nBuffers |-> req.nBuffers, override |-> req.override]
  /\ pc' = "plan"
  /\ UNCHANGED <<bindVars, pb, chunks, maxChunkBytes>>

PlanningNext ==
  \/ ResolveSymbols /\ UNCHANGED vars
  \/ CheckDivisibility /\ UNCHANGED vars
  \/ EvaluateAxes /\ UNCHANGED vars
  \/ AttachPads /\ UNCHANGED vars
  \/ Coalesce /\ UNCHANGED vars
  \/ Assemble /\ UNCHANGED vars
  \/ BindTyped /\ UNCHANGED vars
  \/ planChunks
  \/ Serialize /\ UNCHANGED bindVars
  \/ Begin /\ UNCHANGED bindVars
  \/ Cut /\ UNCHANGED bindVars
  \/ Finish /\ UNCHANGED bindVars

PlanningSpec == PlanningInit /\ [][PlanningNext]_allVars

-----------------------------------------------------------------------------
\* Matrices with pads on both axes, row- or column-major on either side, and
\* a destination stride no transfer accepts; small and huge chunk sizes.
WindowPlans ==
  {[extents |-> <<m, n, 1>>, lo |-> <<top, left, 0>>, hi |-> <<bottom, 0, 0>>,
    src |-> IF rowSrc THEN <<n, 1, 1>> ELSE <<1, m, 1>>,
    dst |-> CASE layout = "row" -> <<n + left, 1, 1>>
              [] layout = "column" -> <<1, m + top + bottom, 1>>
              [] layout = "overlap" -> <<1, 1, 1>>,
    elementSize |-> size, totalBytes |-> size * (m + top + bottom) * (n + left),
    nBuffers |-> ring, override |-> chunk] :
      m \in {1, 4}, n \in 1 .. 2, top \in 0 .. 2, bottom \in 0 .. 1,
      left \in 0 .. 1, rowSrc \in BOOLEAN,
      layout \in {"row", "column", "overlap"}, size \in {2},
      ring \in 1 .. 2, chunk \in {0, 1, 7, 100}}

\* Every stride triple up to 6 over extents up to 3, on both sides.
ParallelPlans ==
  {[extents |-> e, lo |-> <<0, 0, 0>>, hi |-> <<0, 0, 0>>, src |-> s, dst |-> s,
    elementSize |-> 1, totalBytes |-> e[1] * e[2] * e[3],
    nBuffers |-> 1, override |-> 0] :
      e \in (1 .. 2) \X (1 .. 3) \X (1 .. 2),
      s \in (0 .. 6) \X (0 .. 6) \X (0 .. 6)}

MCPlans == WindowPlans \cup ParallelPlans

(***************************************************************************)
(* Requests                                                                *)
(***************************************************************************)
Layout ==
  [symbols |-> <<>>, values |-> <<>>, axes |-> <<>>, padFill |-> <<>>, dst |-> <<>>,
   divisibility |-> <<>>, alignment |-> <<>>, padCheck |-> FALSE, bitwidth |-> 8,
   nBuffers |-> 1, override |-> 1, typed |-> None]

ConstAxes(e, s, d) ==
  [k \in DOMAIN e |-> [extent |-> Const(e[k]), src |-> Const(s[k]), dst |-> Const(d[k])]]

\* Any strides on two axes, with overlaps, broadcasts and gaps.
StrideRequests ==
  {[Layout EXCEPT !.axes = ConstAxes(e, s, d), !.alignment = <<1, 2>>] :
     e \in (1 .. 3) \X (1 .. 3), s \in (0 .. 3) \X (0 .. 2), d \in (0 .. 3) \X (0 .. 2)}

\* Dense row-major destinations of rank 3 with a pad on one axis or none.
Padding(a, lo, hi) == [dstAxis |-> a, lo |-> Const(lo), hi |-> Const(hi)]
RowMajor(e) == <<e[2] * e[3], e[3], 1>>
DenseRequests ==
  {[Layout EXCEPT
      !.axes = ConstAxes(e, CASE order = "row" -> RowMajor(e)
                              [] order = "column" -> <<1, e[1], e[1] * e[2]>>
                              [] order = "broadcast" -> <<0, e[3], 1>>,
                         RowMajor([k \in 1 .. 3 |-> IF k = a THEN e[k] + lo + 1 ELSE e[k]])),
      !.padFill = IF a = 0 THEN <<>> ELSE <<Padding(a, lo, 1)>>,
      !.alignment = <<1, 2, 3>>] :
     e \in (1 .. 2) \X (1 .. 3) \X (1 .. 2), a \in 0 .. 3, lo \in 0 .. 1,
     order \in {"row", "column", "broadcast"}}

\* Symbolic extents and pads: rounding up to a multiple, signs, overflow,
\* missing and unknown symbols, constraints.
Formulas ==
  {Sym(1), Binary("mul", Sym(1), Const(2)), Binary("sub", Const(-3), Sym(1)),
   Binary("floordiv", Sym(1), Const(-3)), Binary("mod", Sym(1), Const(-4)),
   Binary("mod", Binary("sub", Const(0), Sym(1)), Const(4)),
   Binary("add", Binary("mul", Binary("floordiv", Sym(1), Const(3)), Const(3)), Const(3)),
   Binary("floordiv", Const(6), Sym(1)), Sym(2)}
SymbolicRequests ==
  {[Layout EXCEPT
      !.symbols = <<"N">>, !.values = [name \in names |-> n],
      !.axes = <<[extent |-> extent, src |-> Const(1), dst |-> Const(1)]>>,
      !.padFill = <<[dstAxis |-> 1, lo |-> Const(0), hi |-> hi]>>,
      !.dst = <<Binary("add", extent, hi)>>, !.padCheck = check,
      !.divisibility = constraint, !.bitwidth = bits] :
     n \in {MinInt, -7, -1, 0, 1, 2, 6, MaxInt}, extent \in Formulas,
     hi \in {Const(0), Binary("mod", Binary("sub", Const(0), Sym(1)), Const(4)),
             Binary("sub", Const(1), Sym(1))},
     check \in BOOLEAN, names \in {{"N"}, {}, {"N", "M"}},
     constraint \in {<<>>, <<[expr |-> Sym(1), divisor |-> 2]>>, <<[expr |-> Sym(1), divisor |-> 0]>>},
     bits \in {32, 12}}
FewSymbolicRequests ==
  {r \in SymbolicRequests :
     /\ DOMAIN r.values # {"N"} => r.divisibility = <<>> /\ r.bitwidth = 32
     /\ r.bitwidth = 12 => r.divisibility = <<>>}

MalformedRequests ==
  {Layout, [Layout EXCEPT !.axes = ConstAxes(<<2>>, <<1>>, <<1>>), !.alignment = <<2>>],
   [Layout EXCEPT !.axes = ConstAxes(<<2>>, <<1>>, <<1>>), !.padFill = <<Padding(2, 0, 0)>>],
   [Layout EXCEPT !.axes = ConstAxes(<<2>>, <<1>>, <<1>>), !.padFill = <<Padding(1, 0, 0)>>,
                  !.padCheck = TRUE],
   [Layout EXCEPT !.axes = ConstAxes(<<2>>, <<-1>>, <<1>>)]}

\* Typed plans of two axes: a pad that enters at any stage, up to two stages,
\* per-tensor and per-channel parameters of right and wrong lengths.
Descriptor(es, strides, width) ==
  [extents |-> es, strides |-> strides, offset |-> Const(0), width |-> width]
Stage(width, params) ==
  [width |-> width, shape |-> <<Sym(1), Const(2)>>, axis |-> 1, params |-> params]
Scale(kind, rank, declared) ==
  [kind |-> kind, rank |-> rank, width |-> 4, length |-> 2, name |-> "scale",
   extent |-> declared, valid |-> TRUE]
TypedRequests ==
  {[Layout EXCEPT
      !.symbols = <<"N">>, !.values = [name \in {"N"} |-> n],
      !.axes = <<[extent |-> Sym(1), src |-> Const(2), dst |-> Const(2)],
                 [extent |-> Const(2), src |-> Const(1), dst |-> Const(1)]>>,
      !.padFill = <<Padding(1, 1, 0)>>, !.bitwidth = 8 * 2,
      !.typed = [source |-> Descriptor(<<Sym(1), Const(2)>>, strides, 4),
                 result |-> Descriptor(<<Binary("add", Sym(1), Const(1)), Const(2)>>, <<>>, 2),
                 stages |-> SubSeq(<<Stage(1, params), Stage(2, <<>>)>>, 3 - count, 2),
                 fills |-> <<[dstAxis |-> 1, stage |-> entry]>>,
                 parameters |-> [name \in names |->
                   [width |-> 4, rank |-> 1, length |-> length,
                    bytes |-> 4 * length, valid |-> valid]]]] :
     n \in {2, 3, 30}, count \in 1 .. 2, entry \in 0 .. 2,
     strides \in {<<>>, <<Const(2), Const(1)>>, <<Const(1), Const(1)>>},
     params \in {<<>>, <<Scale("inline", 1, Const(2))>>, <<Scale("binding", 1, Sym(1))>>,
                 <<Scale("binding", 1, Const(2))>>},
     length \in 2 .. 3, names \in {{}, {"scale"}}, valid \in BOOLEAN}

MCRequests ==
  MalformedRequests \cup DenseRequests \cup StrideRequests \cup TypedRequests \cup FewSymbolicRequests

\* What the planner hands to the executor: a binding that was accepted exactly
\* when every declaration agrees with the request and means the same copies
\* after coalescing (Bind.cpp), and windows whose rows each lie
\* where the request put them, scattered in parallel only where no two meet
\* (ChunkSchedule.cpp, Pipeline.cpp).
PlansExact == BindingExact /\ WindowsSafe

(***************************************************************************)
(* Live tensors and calls                                                  *)
(***************************************************************************)
Plain ==
  [plain |-> TRUE, requires_grad |-> FALSE, device |-> <<"cpu", NoIndex>>, dtype |-> "f32", layout |-> "strided",
   shape |-> <<2, 3>>, strides |-> <<3, 1>>, offset |-> 0, capacity |-> 24]
Variants(t) ==
  {t, [t EXCEPT !.plain = FALSE], [t EXCEPT !.requires_grad = TRUE], [t EXCEPT !.device = <<"cuda", 0>>],
   [t EXCEPT !.device = <<"cuda", 1>>], [t EXCEPT !.device = <<"meta", NoIndex>>], [t EXCEPT !.dtype = "f16"],
   [t EXCEPT !.dtype = "i64"], [t EXCEPT !.layout = "sparse"], [t EXCEPT !.shape = <<>>, !.strides = <<>>],
   [t EXCEPT !.shape = <<1, 3>>, !.strides = <<7, 1>>], [t EXCEPT !.shape = <<2, 1>>, !.strides = <<1, 5>>],
   [t EXCEPT !.shape = <<3, 2>>, !.strides = <<1, 3>>], [t EXCEPT !.shape = <<0, 3>>],
   [t EXCEPT !.shape = <<4>>, !.strides = <<1>>], [t EXCEPT !.shape = <<3, 3>>], [t EXCEPT !.strides = <<0, 1>>],
   [t EXCEPT !.offset = 1], [t EXCEPT !.capacity = 0]}
Varied(t) == {v \in Variants(t) : Len(v.strides) = Len(v.shape)}
TensorVariants == UNION {Varied(t) : t \in Varied(Plain)}
EagerCall(device, dtype) ==
  [operator |-> "_to_copy", device |-> device, dtype |-> dtype, format |-> "preserve", layout |-> "strided",
   pin_memory |-> FALSE, non_blocking |-> FALSE]
EagerCalls ==
  UNION {{c, [c EXCEPT !.format = "contiguous"], [c EXCEPT !.format = "channels_last"], [c EXCEPT !.layout = "sparse"],
          [c EXCEPT !.pin_memory = TRUE], [c EXCEPT !.non_blocking = TRUE], [c EXCEPT !.operator = "view"]} :
           c \in {EagerCall(d, dt) : d \in {NoDevice, <<"cpu", NoIndex>>, <<"cuda", NoIndex>>, <<"cuda", 1>>},
                                     dt \in {"none", "f32", "f16"}}}
Taken(s, c, change, g) ==
  [start |-> "called", source |-> s, call |-> c, change |-> change, grad |-> g]
ToCuda == EagerCall(<<"cuda", NoIndex>>, "none")
ToHost == EagerCall(<<"cpu", NoIndex>>, "none")
Record(s, d) ==
  [operator |-> "_to_copy", mutates |-> FALSE, failed |-> FALSE, aliases |-> FALSE, non_blocking |-> FALSE,
   source |-> s, destination |-> d]
Records ==
  {Record(s, d) : s \in Varied(Plain), d \in UNION {Varied([Plain EXCEPT !.device = <<"cuda", 0>>]), Varied(Plain)}}
  \cup LET r == Record(Plain, [Plain EXCEPT !.device = <<"cuda", 0>>])
       IN  {[r EXCEPT !.mutates = TRUE], [r EXCEPT !.failed = TRUE], [r EXCEPT !.aliases = TRUE],
            [r EXCEPT !.non_blocking = TRUE], [r EXCEPT !.operator = "copy_"]}
MCTransfers ==
  {Taken(s, c, s, g) : s \in Varied(Plain), c \in EagerCalls, g \in BOOLEAN}
  \cup {Taken(s, c, s, g) : s \in TensorVariants, c \in {ToCuda, ToHost}, g \in BOOLEAN}
  \cup {Taken(s, c, change, g) : s \in Varied(Plain), c \in {ToCuda, ToHost}, change \in Varied(Plain), g \in BOOLEAN}
  \cup {[start |-> "observed", source |-> Plain, call |-> r, change |-> Plain, grad |-> TRUE] : r \in Records}

(***************************************************************************)
(* Programs under the observer                                             *)
(***************************************************************************)
ProgramStep(op, args) == [op |-> op, args |-> args, fails |-> FALSE, to |-> "cuda"]
Newest == -1
ProgramSteps ==
  {ProgramStep(op, <<Newest>>) : op \in {"view", "_unsafe_view", "detach", "clone", "_to_copy", "zero_", "drop"}}
    \cup {ProgramStep("view", <<1>>), ProgramStep("add", <<1, Newest>>), ProgramStep("_foreach_add", <<1, 2>>), ProgramStep("copy_", <<1, Newest>>),
          ProgramStep("copy_", <<Newest, 2>>), ProgramStep("resize_", <<1>>), ProgramStep("_foreach_copy_", <<1, 2, Newest>>), ProgramStep("full", <<>>),
          ProgramStep("enter", <<>>), ProgramStep("leave", <<>>), [ProgramStep("copy_", <<1, Newest>>) EXCEPT !.fails = TRUE],
          [ProgramStep("add", <<Newest, 2>>) EXCEPT !.fails = TRUE]}
MCPrograms == {<<ProgramStep("view", <<1>>)>> \o p : p \in [1 .. 3 -> ProgramSteps]}

\* The layout calls that made a tensor, since the last write to any tensor.
LastWrite ==
  Max({0} \cup {i \in 1 .. observed.done : LET c == observed.program[i]
                                          IN  c.op \in DOMAIN Schemas /\ ~c.fails /\ Schemas[c.op].writes > 0})
Path ==
  LET p[v \in DOMAIN observed.values] ==
        LET b == observed.born[v]
            op == observed.program[b.call].op
        IN  IF b.call <= LastWrite \/ b.from = 0 THEN <<>>
            ELSE IF is_layout_operator(op) THEN Append(p[b.from], op)
            ELSE IF op = "_to_copy" THEN p[b.from] ELSE <<>>
  IN  p

\* What the observer remembers of a tensor is its own: an identity that was
\* used again has no history of its earlier tensor, nothing dead is
\* remembered, and no history outlives a write, through whatever alias
\* (TransferObserver._history, _set_history, _dispatch).
HistoriesOwn ==
  observed.at # "none" =>
    /\ \A id \in DOMAIN observed.provenance :
         LET v == observed.provenance[id].of IN v \in Live(observed.values) /\ observed.values[v].id = id
    /\ \A v \in Live(observed.values) :
         HistoryOf(observed.provenance, observed.values, v) = Trimmed(Path[v])

\* A call leaves one record per tensor it wrote or made; a record describes
\* its source as it was before the call, so that a resize shows both sizes,
\* and its destination as it is after, and says truly whether they alias.
RecordsTrue ==
  observed.at = "eager" /\ observed.done > 0 /\ observed.program[observed.done].op \in DOMAIN Schemas =>
    LET made == observed.program[observed.done]
        mine == {i \in DOMAIN observed.records : observed.records[i].call = observed.done}
        schema == Schemas[made.op]
        Was(m, values) == \E v \in DOMAIN values : Metadata(values[v]) = m
    IN  /\ ~made.fails => Cardinality(mine) = IF made.args = <<>> THEN 0 ELSE schema.writes + schema.outs
        /\ \A i \in mine :
             LET r == observed.records[i]
             IN  /\ Was(r.source, observed.was)
                 /\ ~r.failed => Was(r.destination, observed.values)
                 /\ r.op = "resize_" => r.source.size # r.destination.size
                 /\ ~r.failed /\ ~r.mutates => r.aliases = schema.shares

\* The graph inventory describes the calls as the observer saw them run: the
\* same layout history, unless an _unsafe_view took part (a view for the
\* inventory only), and no claim about aliasing that the run contradicts.
InventoryAgrees ==
  observed.at = "inventoried" =>
    \A i \in DOMAIN observed.records :
      LET r == observed.records[i]
          n == observed.inventory[r.call]
      IN  n.describes =>
            /\ (\A j \in 1 .. r.call : observed.program[j].op # "_unsafe_view") => n.history = r.history
            /\ n.aliases = "aliases" => r.aliases
            /\ n.aliases = "distinct" => ~r.aliases

ObservationFaithful == HistoriesOwn /\ RecordsTrue /\ InventoryAgrees

(***************************************************************************)
(* Measurements and evaluations                                            *)
(***************************************************************************)
\* Rows in every order, of every part of a small pool.
Base == [machine |-> "gen4", family |-> "quant", method |-> "a", n |-> 4, variant |-> "matrix", r |-> 1, ms |-> 8,
         dma |-> 0, kernel |-> TRUE, chunks |-> 4, hidden |-> 97, repeats |-> 10, c |-> 100, load |-> 5, compute |-> 6, p10 |-> FALSE]
B(method, ms) == [Base EXCEPT !.method = method, !.ms = ms]
Copied(method, ms, dma) == [B(method, ms) EXCEPT !.dma = dma]
Small == [Copied("b_pipelined", 3, 1) EXCEPT !.n = 2]
Swept(row, ms) == [row EXCEPT !.variant = "rsweep", !.r = 8, !.ms = ms]
Elsewhere(row, ms) == [row EXCEPT !.machine = "gen3", !.ms = ms]
Again(row, repeats, c) == [row EXCEPT !.repeats = repeats, !.c = c]
Pools ==
  [R1 |-> {B("a", 5), Copied("b", 8, 1), Swept(B("a", 5), 2), [B("b", 3) EXCEPT !.dma = 1]},
   R2 |-> {[B("a", 16) EXCEPT !.family = "blocked_transpose"], [B("b", 8) EXCEPT !.family = "blocked_transpose"],
           Swept([B("a", 16) EXCEPT !.family = "blocked_transpose"], 4),
           [B("a", 5) EXCEPT !.family = "transpose_quant"], [B("b", 8) EXCEPT !.family = "transpose_quant"]},
   V1 |-> {Copied("b", 20, 10), [Copied("b_fair", 11, 10) EXCEPT !.family = "transpose_quant"], Elsewhere(Copied("b_fair", 8, 4), 8), Swept(B("b_fair", 4), 4)},
   BPG1 |-> {Copied("b_pipelined", 8, 7), Small, Elsewhere(Small, 3), Swept(Copied("b_pipelined", 7, 7), 5),
             Copied("b_pipelined", 7, 7)},
   BPG2 |-> {[B("b_pipelined", 8) EXCEPT !.hidden = 80], Swept(B("b_pipelined", 8), 4), B("b_pipelined", 6),
             [B("b_pipelined", 5) EXCEPT !.chunks = 1, !.hidden = 40], [B("b_pipelined", 4) EXCEPT !.hidden = -1]},
   BPG3 |-> {B("a", 10), B("b_pipelined", 15), Swept(B("b_pipelined", 10), 5), Elsewhere(B("a", 10), 4), B("a", 11)},
   Bimodal |-> {B("a", 10), B("bxk", 14), [B("bxk", 13) EXCEPT !.p10 = TRUE]},
   G1 |-> {B("a", 60), B("a_serial", 80), B("b_pipelined", 70), B("b_serial", 90),
           [Again(B("a", 90), 40, 400) EXCEPT !.chunks = 1]},
   G2 |-> {B("a", 7), B("b_pipelined", 9), B("b_pipelined", 6), Again(B("a", 8), 5, 60), Again(B("b_pipelined", 7), 5, 120)},
   G3 |-> {B("compute_only", 100), B("compute_bare", 96), B("compute_bare", 94), Again(B("compute_only", 90), 20, 100)}]
GateOf == [Bimodal |-> "BP-BIMODAL", R1 |-> "R1", R2 |-> "R2", V1 |-> "V1", BPG1 |-> "BP-G1", BPG2 |-> "BP-G2", BPG3 |-> "BP-G3",
           G1 |-> "R7-G1", G2 |-> "R7-G2", G3 |-> "R7-G3a"]
MCMeasurements ==
  {[gate |-> GateOf[p], rows |-> rows] : <<p, rows>> \in
     UNION {{<<p, rows>> : rows \in UNION {SetToSeqs(S) : S \in {T \in SUBSET Pools[p] : Cardinality(T) >= 2}}} : p \in DOMAIN Pools}}
MCPredicted == (<<"gen4", "quant", 4>> :> 135) @@ (<<"gen3", "quant", 4>> :> 140)

\* Registrations of up to eleven sizes, some predicted for the slower method.
Line(i, method, ms, iqr) == [family |-> "quant", n |-> i, method |-> method, variant |-> "matrix", r |-> 1, ms |-> ms, iqr |-> iqr]
Lines(size, poor) ==
  FlattenSeq([i \in 1 .. size |->
    <<Line(i, "a", 100, 3), Line(i, "b_fair", IF i <= poor THEN 150 ELSE 110, 3), Line(i, "b_pipelined", 120, 3)>>])
Registered(size, wrong) ==
  {[family |-> "quant", n |-> i, r |-> 1, test |-> i > size - 2,
    winner |-> [b_fair |-> IF i <= wrong THEN "b" ELSE "a", b_pipelined |-> "a"]] : i \in 1 .. size}
SweptFamily(swept, measured, predicted, speedups) ==
  [swept |-> swept, measured |-> measured, predicted |-> predicted, speedups |-> speedups, placement |-> "b_fair"]
FamilyChoices ==
  {{}, {SweptFamily(FALSE, TRUE, 0, <<80, 90, 110, 120>>)}, {SweptFamily(TRUE, FALSE, 0, <<80, 90, 110, 120>>)}}
  \cup {{SweptFamily(TRUE, TRUE, p, s)} : p \in {NoCrossing, 2, 3, 5},
                                     s \in {<<80, 90, 110, 120>>, <<120, 110, 105, 101>>, <<90, 90, 95, 105>>}}
  \cup {{SweptFamily(TRUE, TRUE, 3, <<80, 90, 110, 120>>), [SweptFamily(TRUE, TRUE, p, <<120, 110, 105, 101>>) EXCEPT !.placement = "b_pipelined"]} :
          p \in {NoCrossing, 4}}
Reruns(size) ==
  {<<>>, <<Line(1, "a", 160, 1)>>, <<Line(1, "a", 90, 5)>>, <<Line(1, "a", 160, 3), Line(1, "a", 170, 1)>>, <<Line(size + 1, "a", 9, 1)>>}
MCEvaluations ==
  {[original |-> Lines(s[1], s[2]), rerun |-> rerun, cells |-> Registered(s[1], s[3]), families |-> {}, loads |-> {}] :
     <<s, rerun>> \in UNION {{<<s, rerun>> : rerun \in Reruns(s[1])} :
                               s \in {<<1, 0, 0>>, <<1, 1, 1>>, <<7, 0, 1>>, <<9, 1, 1>>, <<10, 1, 1>>, <<10, 1, 2>>, <<10, 2, 2>>, <<11, 1, 3>>}}}
  \cup {[original |-> Tail(Lines(2, 1)), rerun |-> <<>>, cells |-> Registered(3, 1), families |-> f, loads |-> {}] : f \in FamilyChoices}

Load(base, ms) == [base |-> base, family |-> "quant", n |-> 1, layers |-> 2, ms |-> ms, floor |-> 100]
FrozenRows ==
  {<<>>, <<Line(1, "a", 100, 3), [Line(1, "a", 60, 3) EXCEPT !.r = 4], Line(1, "b_pipelined", 120, 3)>>}
LoadEvaluations ==
  {[original |-> rows, rerun |-> rerun, cells |-> {}, families |-> {}, loads |-> loads] :
     rows \in FrozenRows, rerun \in {<<>>, <<[Line(1, "a", 70, 1) EXCEPT !.r = 4]>>},
     loads \in {{Load(b, ms)} : b \in {"a", "b_pipelined", "a_prefold", "b_fair"}, ms \in {132, 133, 154, 155, 220, 221, 264, 265}}
               \cup {{Load("a_prefold", 200), Load("b_pipelined", 270)}, {Load("a_prefold", 200), Load("a", 130)}}}
MCAllEvaluations == MCEvaluations \cup LoadEvaluations

AllMatrix(rows) == SelectSeq(rows, LAMBDA row : row.variant = "matrix")
Regraded(gate, rows) == Graded(gate, FoldLeft(LAMBDA best, row : CountRow(gate, best, row), <<>>, rows), rows)
Canonical == Ratios \cup {"BP-G2", "BP-G3"}

\* What a verdict over measured rows is worth.  It does not depend on the
\* order of the files, nor on other machines' rows where it is per machine,
\* nor, for the gates of canonical transfers, on rows at other compression
\* ratios (which are smaller and would win every cell).  A PASS is never
\* empty and no counted cell of it misses its bar (gates.py).
GatesSound ==
  grading.at = "graded" =>
    LET gate == grading.in.gate
        rows == grading.in.rows
    IN  /\ grading.verdicts = Regraded(gate, Reverse(rows))
        /\ \A g \in DOMAIN grading.verdicts :
             grading.verdicts[g] = Regraded(gate, Of(gate, rows, g))[g]
        /\ gate \in Canonical =>
             \A g \in DOMAIN grading.verdicts :
               g \in Groups(gate, AllMatrix(rows)) => grading.verdicts[g] = Regraded(gate, AllMatrix(rows))[g]
        /\ \A g \in DOMAIN grading.verdicts :
             gate = "BP-G1" /\ grading.verdicts[g]["all"] = "PASS" =>
               LET mine == {row \in Range(rows) : row.machine = g /\ row.method = "b_pipelined" /\ row.r = 1}
                   Meets(row) == \A x \in Range(rows) : x.machine = g /\ x.method \in BMethods /\ x.dma > 0 =>
                                   AsFast(<<100 * Bytes(row.n), row.ms>>, <<95 * Bytes(x.n), x.dma>>)
               IN  /\ \E row \in mine : row.n >= StrictFrom(g) /\ Meets(row)
                   /\ \A row \in mine : row.n >= StrictFrom(g) =>
                        \E other \in mine : other.n = row.n /\ other.family = row.family /\ Meets(other)

\* What the evaluation of registered predictions may claim.  Every registered
\* cell is evaluated or disclosed as excluded, under each pairing, once; the
\* adopted row of a point is the fastest of a file that was no less steady
\* than the other; the ninetieth percentile of the regret meets its bar
\* exactly if at most a tenth of the cells exceed it; a predicted crossing
\* that was not measured, or the reverse, fails the gate (cm5_eval.py).  The
\* second tool's verdicts agree, except that it has no data where every
\* family agrees that there is no crossing (v3_gate.py).
EvaluationSound ==
  /\ grading.at \in {"merged", "winners", "reported"} =>
       \A p \in DOMAIN grading.merged :
         LET row == grading.merged[p]
             Mine(file) == {x \in Range(file) : Point(x) = p}
             From(file, other) ==
               /\ row \in Mine(file) /\ \A x \in Mine(file) : row.ms <= x.ms
               /\ Mine(other) = {} \/ \E x \in Mine(other) : row.iqr <= x.iqr /\ \A y \in Mine(other) : x.ms <= y.ms
         IN  From(grading.in.original, grading.in.rerun) \/ From(grading.in.rerun, grading.in.original)
  /\ grading.at = "reported" =>
       /\ \A cell \in grading.in.cells, p \in Pairings :
            Cardinality({c \in grading.cells : c.cell = cell /\ c.pairing = p})
              + (IF <<cell, p>> \in grading.excluded THEN 1 ELSE 0) = 1
       /\ \A p \in Pairings :
            LET mine == {c \in grading.cells : c.pairing = p}
                over == {c \in mine : 100 * (IF c.predicted = "a" THEN c.a ELSE c.b) > 120 * Min({c.a, c.b})}
            IN  (grading.verdicts.regret[p] = "PASS") = (mine # {} /\ 10 * Cardinality(over) <= Cardinality(mine))
       /\ LET evaluated == {f \in grading.in.families : f.swept /\ f.measured}
              Crosses(f) == \E i \in 1 .. 3 : (f.speedups[i] <= 100) # (f.speedups[i + 1] <= 100)
          IN  /\ grading.verdicts.overall = "PASS" =>
                   \A f \in evaluated : (f.predicted # NoCrossing) = Crosses(f)
              /\ grading.verdicts.v3.rstar = "no data" =>
                   grading.verdicts.overall = "PASS" /\ \A f \in evaluated : f.predicted = NoCrossing
              /\ grading.verdicts.overall = "PASS" => \A f \in evaluated : grading.verdicts.g5[f] = "PASS"
              /\ grading.verdicts.v3.rstar # "no data" => grading.verdicts.v3.rstar = grading.verdicts.overall

\* A load alone passes only if each of its layers was measured within a tenth
\* of a transfer that was really recorded at the same size and compression,
\* in the steadier of two files, or of what the link can do; one load without
\* such a record fails the whole gate, and none at all is no PASS (r7_g3b).
LoadsSound ==
  grading.at = "loads" =>
    LET recorded == Range(grading.in.original) \cup Range(grading.in.rerun)
        AsRecorded(l) ==
          \E row \in recorded :
            /\ row.method = l.base /\ row.family = l.family /\ row.n = l.n
            /\ row.r = 4 <=> (l.base = "a" /\ l.family = "quant")
            /\ 10 * l.ms <= 11 * l.layers * row.ms
            /\ \A x \in recorded : Point(x) = Point(row) => row.iqr <= x.iqr
        AsLink(l) == l.base = "a_prefold" /\ 10 * l.ms <= 11 * l.layers * l.floor
        judged == {l \in grading.in.loads : l.base \in {"a", "b_pipelined", "a_prefold"}}
    IN  (grading.verdicts.loads = "PASS") = (judged # {} /\ \A l \in judged : AsRecorded(l) \/ AsLink(l))

VerdictsExact == GatesSound /\ EvaluationSound /\ LoadsSound

importVars == <<regionVars, captureVars>>
recordVars == <<gradingVars, observedVars>>
compilationVars == <<allVars, artifactVars, importVars, graphVars, callVars, eligibilityVars, recordVars>>

NoPlanning ==
  /\ req = None /\ step = "none" /\ fields = <<>> /\ axes = <<>> /\ absorbed = <<>> /\ bound = None
  /\ plan = None /\ pc = "unbound" /\ pb = 0 /\ chunks = <<>> /\ maxChunkBytes = 0
NoRecipe == task = NoTask /\ guard = Idle
NoAdmission == art = NoArtifact
NoCapture == capture = [at |-> "none"]
NoRegion == region = [at |-> "none"] /\ NoCapture
NoGraph == graph = [at |-> "none", nodes |-> <<>>]
NoCall == call = [at |-> "none"]
NoTransfer == transfer = [at |-> "none"]
NoRecords == grading = [at |-> "none"] /\ observed = [at |-> "none"]

CompilationInit ==
  \/ PlanningInit /\ NoRecipe /\ NoAdmission /\ NoRegion /\ NoGraph /\ NoCall /\ NoTransfer /\ NoRecords
  \/ NoPlanning /\ SymbolicInit /\ NoAdmission /\ NoRegion /\ NoGraph /\ NoCall /\ NoTransfer /\ NoRecords
  \/ NoPlanning /\ AdmissionInit /\ NoRegion /\ NoGraph /\ NoCall /\ NoTransfer /\ NoRecords
  \/ NoPlanning /\ NoRecipe /\ NoAdmission /\ RegionInit /\ NoCapture /\ NoGraph /\ NoCall /\ NoTransfer /\ NoRecords
  \/ NoPlanning /\ NoRecipe /\ NoAdmission /\ region = [at |-> "none"] /\ CaptureInit /\ NoGraph /\ NoCall /\ NoTransfer /\ NoRecords
  \/ NoPlanning /\ NoRecipe /\ NoAdmission /\ NoRegion /\ GraphInit /\ NoCall /\ NoTransfer /\ NoRecords
  \/ NoPlanning /\ NoRecipe /\ NoAdmission /\ NoRegion /\ NoGraph /\ CallFormsInit /\ NoTransfer /\ NoRecords
  \/ NoPlanning /\ NoRecipe /\ NoAdmission /\ NoRegion /\ NoGraph /\ NoCall /\ EligibilityInit /\ NoRecords
  \/ NoPlanning /\ NoRecipe /\ NoAdmission /\ NoRegion /\ NoGraph /\ NoCall /\ NoTransfer /\ GradingInit /\ observed = [at |-> "none"]
  \/ NoPlanning /\ NoRecipe /\ NoAdmission /\ NoRegion /\ NoGraph /\ NoCall /\ NoTransfer /\ ObservationInit /\ grading = [at |-> "none"]

CompilationNext ==
  \/ PlanningNext /\ UNCHANGED <<artifactVars, importVars, graphVars, callVars, eligibilityVars, recordVars>>
  \/ art.at = "none" /\ capture.at = "none" /\ SymbolicNext /\ UNCHANGED <<allVars, art, importVars, graphVars, callVars, eligibilityVars, recordVars>>
  \/ AdmissionNext /\ UNCHANGED <<allVars, importVars, graphVars, callVars, eligibilityVars, recordVars>>
  \/ RegionNext /\ UNCHANGED <<allVars, artifactVars, captureVars, graphVars, callVars, eligibilityVars, recordVars>>
  \/ CaptureNext /\ UNCHANGED <<allVars, art, regionVars, graphVars, callVars, eligibilityVars, recordVars>>
  \/ GraphNext /\ UNCHANGED <<allVars, artifactVars, importVars, callVars, eligibilityVars, recordVars>>
  \/ CallFormsNext /\ UNCHANGED <<allVars, artifactVars, importVars, graphVars, eligibilityVars, recordVars>>
  \/ EligibilityNext /\ UNCHANGED <<allVars, artifactVars, importVars, graphVars, callVars, recordVars>>
  \/ GradingNext /\ UNCHANGED <<allVars, artifactVars, importVars, graphVars, callVars, eligibilityVars, observedVars>>
  \/ ObservationNext /\ UNCHANGED <<allVars, artifactVars, importVars, graphVars, callVars, eligibilityVars, gradingVars>>

CompilationSpec == CompilationInit /\ [][CompilationNext]_compilationVars

\* Transfers are recorded as they happened, and what is admitted is what may
\* be replaced (observer.py, graph_inventory.py, eligibility.py, runtime.py).
TransfersJudged == ObservationFaithful /\ AdmissionExact
=============================================================================
