------------------------------ MODULE Verdicts ------------------------------
(****************************************************************************)
(* The pre-registered gates over measured transfers (bench/rtrack): which   *)
(* rows a gate counts, the best row of a cell, the verdict over its cells   *)
(* (gates.py); the evaluation of registered predictions against an original *)
(* and a repeated measurement (cm5_eval.py), and the gates over predictions *)
(* that are kept beside it (v3_gate.py).                                    *)
(*                                                                          *)
(* Extents are multiples of 2048, times and rates whole numbers, ratios are *)
(* compared by their cross products; the registered predictions and the     *)
(* measured rows are constants.  Tables, messages and files are left out.   *)
(****************************************************************************)
EXTENDS Integers, Sequences, FiniteSets, SequencesExt, FiniteSetsExt, Functions

CONSTANTS
  Measurements,   \* [gate, rows]: a gate and the rows of its files, in order
  Predicted,      \* BP_G3_PREDICTIONS: <<machine, family, n>> |-> ratio in percent
  Evaluations     \* [original, rerun, cells, families, loads]: what cm5_eval and r7_g3b read

VARIABLE grading
gradingVars == <<grading>>

GradingInit ==
  grading \in {[at |-> "reading", in |-> m, todo |-> m.rows, best |-> <<>>, link |-> TRUE, verdicts |-> <<>>] :
                 m \in Measurements}
         \cup {[at |-> "files", in |-> e, merged |-> <<>>, cells |-> {}, excluded |-> {}, verdicts |-> <<>>] :
                 e \in Evaluations}

Bytes(n) == n * n
BMethods == {"b", "b_fair", "b_pipelined"}
Absolute(x) == IF x < 0 THEN -x ELSE x

(***************************************************************************)
(* Gates over rows                                                         *)
(***************************************************************************)
\* "no data" is no PASS: a gate holds at every cell, and has seen one.
Verdict(cells, good) == IF cells = {} THEN "no data" ELSE IF cells \subseteq good THEN "PASS" ELSE "FAIL"

\* Small transfers are excused on the second machine, before any was measured.
StrictFrom(machine) == IF machine = "gen4" THEN 4 ELSE 0

Ratios == {"R1", "R2"}
Regime5 == {"R7-G1", "R7-G2", "R7-G3a"}
PerRun == Ratios \cup Regime5 \cup {"BP-BIMODAL"}
\* Defect: rows at other compression ratios compete with the canonical ones.
CountsSwept(gate, row) ==
  CASE gate = "V1" -> row.r = 1
    [] gate = "BP-G1" -> row.method = "b_pipelined" /\ row.r = 1 /\ row.n >= StrictFrom(row.machine)
    [] gate = "BP-G2" -> row.method = "b_pipelined" /\ row.n >= 4 /\ row.kernel /\ row.chunks > 1 /\ row.hidden >= 0
    [] OTHER -> TRUE
\* The rows a gate grades.  An occupancy below zero stands for none recorded.
Counts(gate, row) ==
  CASE gate \in Ratios \cup {"BP-G3"} -> row.variant = "matrix"
    [] gate = "V1" -> row.r = 1
    [] gate = "BP-G1" -> row.method = "b_pipelined" /\ row.r = 1 /\ row.n >= StrictFrom(row.machine)
    [] gate = "BP-G2" ->
         /\ row.variant = "matrix" /\ row.method = "b_pipelined" /\ row.n >= 4
         /\ row.kernel /\ row.chunks > 1 /\ row.hidden >= 0
    [] OTHER -> TRUE

\* V1 and BP are graded per machine, the others over the rows they are given.
Group(gate, row) == IF gate \in PerRun THEN "all" ELSE row.machine
Groups(gate, rows) == {Group(gate, row) : row \in Range(rows)}
Of(gate, rows, group) == SelectSeq(rows, LAMBDA row : Group(gate, row) = group)
\* One cell of a gate's table, as <<group, family, method, size>>.
CellOf(gate, row) ==
  <<Group(gate, row), row.family, row.method, IF gate \in Regime5 THEN row.repeats ELSE row.n>>

\* The best chunk of a cell is the fastest; the first of equals stays.
Faster(best, cell, row) ==
  IF cell \in DOMAIN best /\ best[cell].ms <= row.ms THEN best
  ELSE [c \in DOMAIN best \cup {cell} |-> IF c = cell THEN row ELSE best[c]]
CountRow(gate, best, row) == IF Counts(gate, row) THEN Faster(best, CellOf(gate, row), row) ELSE best

\* The best rate of the copies alone, as <<bytes, time>>: a gate of ratios
\* takes the staged baseline's matrix rows, the others every baseline's.
AsFast(p, q) == p[1] * q[2] >= q[1] * p[2]
Copies(gate, rows) ==
  {<<Bytes(row.n), row.dma>> : row \in
     {x \in Range(rows) : x.dma > 0 /\ IF gate \in Ratios THEN x.method = "b" /\ x.variant = "matrix" ELSE x.method \in BMethods}}
Pinned(gate, rows) ==
  LET rates == Copies(gate, rows) IN IF rates = {} THEN <<0, 1>> ELSE CHOOSE p \in rates : \A q \in rates : AsFast(p, q)
\* row's rate of input is at least a fraction (in percent) of the link's.
Reaches(row, percent, link) == AsFast(<<100 * Bytes(row.n), row.ms>>, <<percent * link[1], link[2]>>)

\* a's speed in b's lies between two bounds (in percent).
Within(a, b, lo, hi) == lo * a.ms <= 100 * b.ms /\ 100 * b.ms <= hi * a.ms
AnyFaster == 1000
Bars == [R1 |-> [quant |-> <<150, AnyFaster>>, transpose_quant |-> <<95, AnyFaster>>,
                 nchw_nhwc_quant |-> <<95, AnyFaster>>, transpose |-> <<85, 110>>],
         R2 |-> [quant |-> <<150, AnyFaster>>, transpose_quant |-> <<0, 95>>,
                 nchw_nhwc_quant |-> <<0, 95>>, blocked_transpose |-> <<40, 80>>]]
LinkBar == [R1 |-> <<11, 14>>, R2 |-> <<20, 26>>]

\* Cells of the first method for which the second has one.
Paired(best, group, first, second) ==
  {c \in DOMAIN best : c[1] = group /\ c[3] = first /\ [c EXCEPT ![3] = second] \in DOMAIN best}
Against(best, c, method) == best[[c EXCEPT ![3] = method]]
Overlapped == {<<"a", "a_serial">>, <<"b_pipelined", "b_serial">>}

\* exp_gates G2-G4, exp_v1, exp_bp's three gates, r7_g1, r7_g2 and r7_g3a.
Hidden(row) == row.ms - (IF row.load > row.compute THEN row.load ELSE row.compute)
Cells(gate, best, group) ==
  CASE gate \in Ratios -> {c \in Paired(best, group, "a", "b") : c[2] \in DOMAIN Bars[gate]}
    [] gate = "V1" -> {c \in DOMAIN best : c[1] = group /\ c[3] \in BMethods}
    [] gate \in {"BP-G1", "BP-G2"} -> {c \in DOMAIN best : c[1] = group}
    [] gate = "BP-G3" -> {c \in Paired(best, group, "a", "b_pipelined") : <<group, c[2], c[4]>> \in DOMAIN Predicted}
    [] gate = "R7-G1" ->
         UNION {{c \in Paired(best, group, p[1], p[2]) : best[c].c \in 50 .. 200} : p \in Overlapped}
    [] gate = "R7-G2" ->
         {c \in Paired(best, group, "a", "b_pipelined") : best[c].c >= 100 /\ Against(best, c, "b_pipelined").c >= 100}
    [] gate = "R7-G3a" -> Paired(best, group, "compute_only", "compute_bare")
Good(gate, best, group, link) ==
  {c \in Cells(gate, best, group) :
     CASE gate \in Ratios -> LET bar == Bars[gate][c[2]] IN Within(best[c], Against(best, c, "b"), bar[1], bar[2])
       [] gate = "V1" -> Reaches(best[c], 90, link)
       [] gate = "BP-G1" -> Reaches(best[c], 95, link)
       [] gate = "BP-G2" -> 100 - best[c].hidden <= 5
       [] gate = "BP-G3" ->
            LET p == Predicted[<<group, c[2], c[4]>>] IN Within(best[c], Against(best, c, "b_pipelined"), p - 10, p + 10)
       [] gate = "R7-G1" -> 100 * best[c].ms <= 75 * Against(best, c, IF c[3] = "a" THEN "a_serial" ELSE "b_serial").ms
       [] gate = "R7-G2" -> Hidden(Against(best, c, "b_pipelined")) > Hidden(best[c])
       [] gate = "R7-G3a" ->
            LET bare == Against(best, c, "compute_bare").ms IN 100 * Absolute(best[c].ms - bare) <= 5 * bare}

\* A gate of ratios has a verdict per family, V1 one per baseline and family.
Part(gate, cell) ==
  CASE gate \in Ratios -> cell[2]
    [] gate = "V1" -> <<cell[3], cell[2]>>
    [] OTHER -> "all"
PartsOf(gate, rows) ==
  LET ones == {row \in Range(rows) : row.r = 1}
  IN  CASE gate \in Ratios -> DOMAIN Bars[gate]
        [] gate = "V1" -> {row.method : row \in {x \in ones : x.method \in BMethods}} \X {row.family : row \in ones}
        [] OTHER -> {"all"}
\* The cells known to be bimodal may not be judged by medians: a measured one
\* must carry the tenth percentile as well.  The rule passes while none is.
Bimodal(rows) == IF \A row \in Range(rows) : row.method = "bxk" => row.p10 THEN "PASS" ELSE "FAIL"

Graded(gate, best, rows) ==
  IF gate = "BP-BIMODAL" THEN [g \in {"all"} |-> [p \in {"all"} |-> Bimodal(rows)]]
  ELSE [g \in Groups(gate, rows) |->
     LET mine == Of(gate, rows, g)
         link == Pinned(gate, mine)
     IN  [p \in PartsOf(gate, mine) |->
            Verdict({c \in Cells(gate, best, g) : Part(gate, c) = p}, Good(gate, best, g, link))]]
LinkInBand(gate, rows) ==
  IF gate \in Ratios
  THEN LET link == Pinned(gate, rows) IN AsFast(link, <<LinkBar[gate][1], 1>>) /\ AsFast(<<LinkBar[gate][2], 1>>, link)
  ELSE TRUE

ReadRow ==
  /\ grading.at = "reading" /\ grading.todo # <<>>
  /\ grading' = [grading EXCEPT !.todo = Tail(@), !.best = CountRow(grading.in.gate, @, Head(grading.todo))]
Grade ==
  /\ grading.at = "reading" /\ grading.todo = <<>>
  /\ LET m == grading.in
     IN  grading' = IF m.gate \in Ratios /\ ~ \E row \in Range(m.rows) : Counts(m.gate, row)
                    THEN [grading EXCEPT !.at = "refused"]
                    ELSE [grading EXCEPT !.at = "graded", !.link = LinkInBand(m.gate, m.rows),
                                         !.verdicts = Graded(m.gate, grading.best, m.rows)]

(***************************************************************************)
(* Evaluation of registered predictions                                    *)
(***************************************************************************)
Point(row) == <<row.family, row.n, row.method, row.variant, row.r>>
Points(rows) == {Point(row) : row \in Range(rows)}
\* The first of the fastest rows of a point.
BestChunk(rows, point) ==
  LET mine == SelectSeq(rows, LAMBDA row : Point(row) = point)
  IN  mine[CHOOSE i \in DOMAIN mine : \A j \in DOMAIN mine : mine[i].ms < mine[j].ms \/ (mine[i].ms = mine[j].ms /\ i <= j)]

\* Defect: the faster of the two measurements instead of the steadier.
AdoptedFaster(original, rerun) == IF rerun.ms < original.ms THEN rerun ELSE original
\* The steadier of the two measurements; the original if they are equally so.
Adopted(original, rerun) == IF rerun.iqr < original.iqr THEN rerun ELSE original
MergePoints ==
  /\ grading.at = "files"
  /\ LET o == grading.in.original
         n == grading.in.rerun
     IN  grading' =
           IF ~(Points(n) \subseteq Points(o)) THEN [grading EXCEPT !.at = "refused"]
           ELSE [grading EXCEPT !.at = "merged",
                   !.merged = [p \in Points(o) |-> IF p \in Points(n) THEN Adopted(BestChunk(o, p), BestChunk(n, p))
                                                   ELSE BestChunk(o, p)]]

(***************************************************************************)
(* Loads alone against the frozen single shots (r7_g3b)                    *)
(***************************************************************************)
\* The frozen row of a layer's load is of its own family's compression for
\* the prefolded placement, and uncompressed for the pipelined one.
Tier(load) == IF load.base = "a" /\ load.family = "quant" THEN 4 ELSE 1
Frozen(load, merged) ==
  {merged[p] : p \in {q \in DOMAIN merged : q[1] = load.family /\ q[2] = load.n /\ q[3] = load.base /\ q[5] = Tier(load)}}
Judged(load) == load.base \in {"a", "b_pipelined", "a_prefold"}
\* A load is timed over all its layers; a_prefold is held to the link itself.
Reference(load, merged) ==
  IF load.base = "a_prefold" THEN load.floor ELSE Min({row.ms : row \in Frozen(load, merged)})
Baseless(load, merged) == load.base # "a_prefold" /\ Frozen(load, merged) = {}
LoadVerdict(loads, merged) ==
  LET judged == {l \in loads : Judged(l)}
      slow == {l \in judged : Baseless(l, merged) \/ 100 * l.ms > 110 * l.layers * Reference(l, merged)}
  IN  IF slow # {} THEN "FAIL" ELSE IF judged = {} THEN "N/A" ELSE "PASS"
GradeLoads ==
  /\ grading.at = "merged" /\ grading.in.loads # {}
  /\ grading' = [grading EXCEPT !.at = "loads", !.verdicts = [loads |-> LoadVerdict(grading.in.loads, grading.merged)]]

(***************************************************************************)
(* Winners, regret and crossings                                           *)
(***************************************************************************)
\* The pairings of the inline method, each with the placement it measures.
Pairings == {"b_fair", "b_pipelined"}
\* A cell of the registration that was not measured is excluded and disclosed.
EvalWinnerCells ==
  /\ grading.at = "merged" /\ grading.in.loads = {}
  /\ LET Row(cell, method) == <<cell.family, cell.n, method, "matrix", cell.r>>
         all == grading.in.cells \X Pairings
         measured == {x \in all : {Row(x[1], "a"), Row(x[1], x[2])} \subseteq DOMAIN grading.merged}
         Time(cell, method) == grading.merged[Row(cell, method)].ms
         Evaluated(x) ==
           [cell |-> x[1], pairing |-> x[2], test |-> x[1].test, predicted |-> x[1].winner[x[2]],
            a |-> Time(x[1], "a"), b |-> Time(x[1], x[2]),
            winner |-> IF Time(x[1], "a") <= Time(x[1], x[2]) THEN "a" ELSE "b"]
     IN  grading' = [grading EXCEPT !.at = "winners", !.cells = {Evaluated(x) : x \in measured},
                                    !.excluded = {<<x[1], x[2]>> : x \in all \ measured}]

\* Regret of the predicted winner, in percent of the better time, rounded up.
CellRegret(c) ==
  LET t == IF c.predicted = "a" THEN c.a ELSE c.b
      least == IF c.a <= c.b THEN c.a ELSE c.b
  IN  (100 * (t - least) + least - 1) \div least

\* The least regret that so many of the cells do not exceed.
AtRank(cells, rank) ==
  Min({CellRegret(c) : c \in {x \in cells : Cardinality({y \in cells : CellRegret(y) <= CellRegret(x)}) >= rank}})
\* Defect: the rank is counted from one.
percentileNext(cells, percent) ==
  LET n == Cardinality(cells) IN AtRank(cells, Max({1, Min({n, (percent * n + 99) \div 100 + 1})}))
\* The nearest rank of the sorted regrets.
percentile(cells, percent) ==
  LET n == Cardinality(cells) IN AtRank(cells, Max({1, Min({n, (percent * n + 99) \div 100})}))
misclass(cells) ==
  IF cells = {} THEN "none"
  ELSE IF 100 * Cardinality({c \in cells : c.predicted # c.winner}) <= 15 * Cardinality(cells) THEN "PASS" ELSE "FAIL"
regret_gate(cells) ==
  IF cells = {} THEN "none" ELSE IF percentile(cells, 90) <= 20 THEN "PASS" ELSE "FAIL"

\* crossing: where the speedup (in percent) over a grid of halves of a power
\* of two first passes 100, interpolated; half steps from the grid's start,
\* and NoCrossing if it does not.
NoCrossing == -1
crossing(speedups) ==
  LET passing == {i \in 1 .. Len(speedups) - 1 :
                    /\ (speedups[i] - 100) * (speedups[i + 1] - 100) <= 0 /\ speedups[i] # speedups[i + 1]}
      i == Min(passing)
  IN  IF passing = {} THEN NoCrossing
      ELSE 2 * (i - 1) + (2 * Absolute(100 - speedups[i])) \div Absolute(speedups[i + 1] - speedups[i])

\* The ratios of the half steps, in thousandths: 1/8 to 1.
RatioAt == <<125, 177, 250, 354, 500, 707, 1000>>
Delta(f) == Absolute(RatioAt[f.predicted + 1] - RatioAt[crossing(f.speedups) + 1])
Classification(f) ==
  CASE f.predicted # NoCrossing /\ crossing(f.speedups) # NoCrossing -> "both_exist"
    [] f.predicted = NoCrossing /\ crossing(f.speedups) = NoCrossing -> "both_no_crossing"
    [] OTHER -> "mismatch_one_sided"
\* A family is evaluated if it was swept and every row of its grid measured.
Evaluable(families) == {f \in families : f.swept /\ f.measured}
OneSided(families) == {f \in families : Classification(f) = "mismatch_one_sided"}
Deltas(families) == {Delta(f) : f \in {x \in families : Classification(x) = "both_exist"}}
rstar_gate(families) ==
  IF families = {} THEN "none"
  ELSE IF OneSided(families) # {} \/ \E d \in Deltas(families) : d > 150 THEN "FAIL" ELSE "PASS"

\* v3_gate: the same bars over a report of predictions.
gate_misclass(cells) == IF misclass(cells) = "none" THEN "no data" ELSE misclass(cells)
gate_regret(cells) == IF regret_gate(cells) = "none" THEN "no data" ELSE regret_gate(cells)
gate_rstar(families) ==
  LET diffs == Deltas(families) \cup {150 : f \in OneSided(families)}
  IN  IF diffs = {} THEN "no data" ELSE IF OneSided(families) # {} \/ Max(diffs) > 150 THEN "FAIL" ELSE "PASS"

\* R2-G5: the measured crossing is within a factor of two of the predicted.
Agrees(f) ==
  CASE Classification(f) = "both_no_crossing" -> "PASS"
    [] Classification(f) = "mismatch_one_sided" -> "FAIL"
    [] OTHER ->
         LET two == {RatioAt[f.predicted + 1], RatioAt[crossing(f.speedups) + 1]}
         IN  IF Max(two) <= 2 * Min(two) THEN "PASS" ELSE "FAIL"

BuildReport ==
  /\ grading.at = "winners"
  /\ LET families == Evaluable(grading.in.families)
         Mine(p) == {c \in grading.cells : c.pairing = p}
     IN  grading' = [grading EXCEPT !.at = "reported",
           !.verdicts = [misclass |-> [p \in Pairings |-> misclass(Mine(p))],
                         held_out |-> [p \in Pairings |-> misclass({c \in Mine(p) : c.test})],
                         regret |-> [p \in Pairings |-> regret_gate(Mine(p))],
                         rstar |-> [p \in Pairings |-> rstar_gate({f \in families : f.placement = p})],
                         overall |-> IF \E p \in Pairings : rstar_gate({f \in families : f.placement = p}) = "FAIL"
                                     THEN "FAIL" ELSE "PASS",
                         g5 |-> [f \in families |-> Agrees(f)],
                         v3 |-> [rstar |-> gate_rstar(families), misclass |-> gate_misclass(grading.cells),
                                 regret |-> gate_regret(grading.cells)]]]

GradingNext == ReadRow \/ Grade \/ MergePoints \/ GradeLoads \/ EvalWinnerCells \/ BuildReport
=============================================================================
