------------------------------ MODULE Binding ------------------------------
(***************************************************************************)
(* bind() and bindTyped() (libreloc/src/Bind.cpp): a symbolic plan and the *)
(* caller's symbol values become a concrete BoundPlan, one action per      *)
(* numbered phase of the code and one per merge of the coalescing loop.    *)
(* Every failure is the one outcome "error"; its wording is left out, and  *)
(* so are the strategy and the cost decision, which change no address.     *)
(*                                                                         *)
(* A request has the plan's fields (symbols, axes of extent and strides,   *)
(* padFill, dst extents, divisibility, alignment axes, padCheck, bitwidth) *)
(* and the symbol values.  typed is the rest of a typed plan: source and   *)
(* result descriptors, value stages with their parameters, the stage at    *)
(* which each pad enters and the bound parameters.  Axes count from 1.     *)
(***************************************************************************)
EXTENDS Expressions, FiniteSets

CONSTANT Requests

\* fields holds the value of each expression of the plan: evaluation is pure,
\* so it is done once and read where the code evaluates.
VARIABLES req, step, fields, axes, absorbed, bound
bindVars == <<req, step, fields, axes, absorbed, bound>>

None == [none |-> TRUE]

Times(a, b) == a * b
Plus(a, b) == a + b

\* __builtin_*_overflow chains: the result of an overflow is no number.
Checked(Op(_, _), values, first) ==
  FoldLeft(LAMBDA acc, v : IF acc.ok THEN Returns(Op(acc.v, v)) ELSE acc,
           [ok |-> TRUE, v |-> first], values)
\* Defect: a product that does not fit is kept.
CheckedProductWraps(values) == [ok |-> TRUE, v |-> FoldLeft(Times, 1, values)]
CheckedProduct(values) == Checked(Times, values, 1)

(***************************************************************************)
(* Phases 1 to 3: symbols, divisibility, axes, pads                        *)
(***************************************************************************)
SymbolsMatch == DOMAIN req.values = Range(req.symbols)
Symbols == [i \in DOMAIN req.symbols |-> req.values[req.symbols[i]]]

\* Every expression a plan carries.
DescriptorExprs(d) == Range(d.extents) \cup Range(d.strides) \cup {d.offset}
StageExprs(s) == Range(s.shape) \cup {p.extent : p \in Range(s.params)}
PlanExprs ==
  UNION ({{a.extent, a.src, a.dst} : a \in Range(req.axes)}
         \cup {{p.lo, p.hi} : p \in Range(req.padFill)}
         \cup {{d.expr} : d \in Range(req.divisibility)}
         \cup {Range(req.dst)}
         \cup (IF req.typed = None THEN {}
               ELSE {DescriptorExprs(req.typed.source), DescriptorExprs(req.typed.result)}
                    \cup {StageExprs(s) : s \in Range(req.typed.stages)}))

Field(e) == fields[e]
Evaluates(es) == \A e \in es : Field(e).ok

Divides(d) ==
  /\ d.divisor > 0
  /\ Field(d.expr).ok /\ Field(d.expr).v - d.divisor * Truncated(Field(d.expr).v, d.divisor) = 0

BindInit ==
  /\ req \in Requests
  /\ step = "symbols" /\ fields = <<>> /\ axes = <<>> /\ absorbed = <<>> /\ bound = None

Leads(ok, next) == step' = IF ok THEN next ELSE "error"

ResolveSymbols ==
  /\ step = "symbols"
  /\ Leads(SymbolsMatch, "divisibility")
  /\ fields' = IF ~SymbolsMatch THEN fields
               ELSE [e \in PlanExprs |-> evalExpr(Postfix(e), Symbols)]
  /\ UNCHANGED <<req, axes, absorbed, bound>>

CheckDivisibility ==
  /\ step = "divisibility"
  /\ Leads((\A d \in Range(req.divisibility) : Divides(d)) /\ req.axes # <<>>, "axes")
  /\ UNCHANGED <<req, fields, axes, absorbed, bound>>

AxisOK(a) ==
  /\ Evaluates({a.extent, a.src, a.dst})
  /\ Field(a.extent).v >= 1 /\ Field(a.src).v >= 0 /\ Field(a.dst).v >= 0

Concrete(a) ==
  [extent |-> Field(a.extent).v, src |-> Field(a.src).v, dst |-> Field(a.dst).v,
   padded |-> FALSE, lo |-> 0, hi |-> 0]

EvaluateAxes ==
  /\ step = "axes"
  /\ LET ok == \A a \in Range(req.axes) : AxisOK(a)
     IN  /\ Leads(ok, "pads")
         /\ axes' = IF ok THEN [k \in DOMAIN req.axes |-> Concrete(req.axes[k])]
                    ELSE axes
  /\ UNCHANGED <<req, fields, absorbed, bound>>

\* The verifier's deferred check: extent + lo + hi is the destination extent.
PadCheck(p) ==
  /\ p.dstAxis \in DOMAIN req.dst /\ Field(req.dst[p.dstAxis]).ok
  /\ LET sum == Checked(Plus, <<Field(p.lo).v, Field(p.hi).v>>, axes[p.dstAxis].extent)
     IN  sum.ok /\ sum.v = Field(req.dst[p.dstAxis]).v

PadOK(p) ==
  /\ Evaluates({p.lo, p.hi}) /\ p.dstAxis \in DOMAIN axes
  /\ Field(p.lo).v >= 0 /\ Field(p.hi).v >= 0
  /\ req.padCheck => PadCheck(p)

AttachPads ==
  /\ step = "pads"
  /\ LET ok == \A p \in Range(req.padFill) : PadOK(p)
         pad(as, p) == [as EXCEPT ![p.dstAxis] = [@ EXCEPT !.padded = TRUE,
                          !.lo = Field(p.lo).v, !.hi = Field(p.hi).v]]
     IN  /\ Leads(ok, "coalesce")
         /\ axes' = IF ok THEN FoldLeft(pad, axes, req.padFill) ELSE axes
  /\ absorbed' = [k \in DOMAIN axes |-> 1]
  /\ UNCHANGED <<req, fields, bound>>

(***************************************************************************)
(* Phase 4: merge adjacent axes that are contiguous on both sides          *)
(***************************************************************************)
\* Defect: a padded axis takes part.
MergeablePadded(k) ==
  LET o == axes[k]
      i == axes[k + 1]
  IN  /\ Fits(i.src * i.extent) /\ Fits(i.dst * i.extent) /\ Fits(o.extent * i.extent)
      /\ o.src = i.src * i.extent /\ o.dst = i.dst * i.extent

Mergeable(k) ==
  LET o == axes[k]
      i == axes[k + 1]
  IN  /\ ~o.padded /\ ~i.padded
      /\ Fits(i.src * i.extent) /\ Fits(i.dst * i.extent) /\ Fits(o.extent * i.extent)
      /\ o.src = i.src * i.extent /\ o.dst = i.dst * i.extent

Mergeables == {k \in 1 .. Len(axes) - 1 : Mergeable(k)}

Coalesce ==
  /\ step = "coalesce"
  /\ \E k \in Mergeables :
       /\ \A j \in Mergeables : k <= j
       /\ axes' = RemoveAt([axes EXCEPT ![k] =
            [axes[k + 1] EXCEPT !.extent = axes[k].extent * axes[k + 1].extent]], k + 1)
       /\ absorbed' = RemoveAt([absorbed EXCEPT ![k] = @ + absorbed[k + 1]], k + 1)
  /\ UNCHANGED <<req, step, fields, bound>>

\* originalToCoalesced: axis c spans the next absorbed[c] original axes.
Before(c) == FoldLeft(Plus, 0, SubSeq(absorbed, 1, c - 1))
CoalescedAxis(a) ==
  CHOOSE c \in DOMAIN absorbed : Before(c) < a /\ a <= Before(c) + absorbed[c]

(***************************************************************************)
(* Phases 5 and 6: the bound plan                                          *)
(***************************************************************************)
PaddedExtent(x) == Checked(Plus, <<x.lo, x.hi>>, x.extent)

\* Defect: alignments keep the numbering of the plan.
RequiredAlignmentsOriginal == req.alignment
RequiredAlignments ==
  [n \in DOMAIN req.alignment |-> CoalescedAxis(req.alignment[n])]

Run ==
  LET inner == axes[Len(axes)]
  IN  IF inner.src = 1 /\ inner.dst = 1 THEN inner.extent ELSE 1

Assemble ==
  /\ step = "coalesce" /\ Mergeables = {}
  /\ LET padded == [k \in DOMAIN axes |-> PaddedExtent(axes[k])]
         fit == \A k \in DOMAIN axes : padded[k].ok
         bytes == CheckedProduct([k \in DOMAIN axes |-> padded[k].v]
                                   \o <<req.bitwidth \div 8>>)
         ok == /\ req.bitwidth > 0 /\ req.bitwidth % 8 = 0
               /\ \A a \in Range(req.alignment) : a \in DOMAIN req.axes
               /\ fit /\ bytes.ok
     IN  /\ Leads(ok, IF req.typed = None THEN "bound" ELSE "typing")
         /\ bound' = IF ~ok THEN bound ELSE
              [axes |-> axes, alignments |-> RequiredAlignments,
               elementSize |-> req.bitwidth \div 8,
               totalBytes |-> bytes.v, L |-> Run]
  /\ UNCHANGED <<req, fields, axes, absorbed>>

(***************************************************************************)
(* bindTyped: descriptors, stages and parameters, footprints               *)
(***************************************************************************)
\* concreteDenseDescriptor: positive extents, no offset, and strides either
\* elided or those of a dense row-major tensor.
Extents(es) == [k \in DOMAIN es |-> Field(es[k]).v]
Dense(desc) ==
  /\ Evaluates(Range(desc.extents)) /\ desc.extents # <<>>
  /\ \A e \in Range(desc.extents) : Field(e).v >= 1
  /\ Field(desc.offset).ok /\ Field(desc.offset).v = 0
  /\ desc.strides # <<>> =>
       LET suffix(k) == CheckedProduct(SubSeq(Extents(desc.extents), k, Len(desc.extents)))
       IN  /\ Evaluates(Range(desc.strides))
           /\ \A k \in DOMAIN desc.extents :
                /\ suffix(k).ok
                /\ Field(desc.strides[k]).v = suffix(k + 1).v

\* How many values a parameter of the stage must hold under these symbols.
Expected(s, p) == IF p.rank = 0 THEN 1 ELSE Field(s.shape[s.axis]).v

\* valid: scales finite and positive, zero points in range for the policy.
\* Defect: a runtime parameter is only compared with its declaration.
ParameterOKDeclared(s, p) ==
  IF p.kind = "inline" THEN p.valid /\ p.length = Expected(s, p)
  ELSE /\ p.name \in DOMAIN req.typed.parameters
       /\ LET value == req.typed.parameters[p.name]
          IN  /\ value.valid /\ value.width = p.width /\ value.rank = p.rank
              /\ p.rank = 1 => Field(p.extent).ok /\ value.length = Field(p.extent).v
              /\ value.bytes = value.length * p.width

ParameterOK(s, p) ==
  IF p.kind = "inline" THEN p.valid /\ p.length = Expected(s, p)
  ELSE /\ p.name \in DOMAIN req.typed.parameters
       /\ LET value == req.typed.parameters[p.name]
          IN  /\ value.valid /\ value.width = p.width /\ value.rank = p.rank
              /\ p.rank = 1 => Field(p.extent).ok /\ Field(p.extent).v = Expected(s, p)
              /\ value.length = Expected(s, p)
              /\ Fits(Expected(s, p) * p.width)
              /\ value.bytes = Expected(s, p) * p.width

StageOK(s) ==
  /\ Evaluates(Range(s.shape)) /\ \A e \in Range(s.shape) : Field(e).v >= 1
  /\ s.axis \in DOMAIN s.shape \cup {0}
  /\ \A p \in Range(s.params) : p.width > 0 /\ ParameterOK(s, p)

Params == FlattenSeq([n \in DOMAIN req.typed.stages |-> req.typed.stages[n].params])
Used == {p.name : p \in {x \in Range(Params) : x.kind = "binding"}}
\* The owned bytes of every parameter; expected and declared length agree.
ParameterBytes ==
  Checked(Plus, FlattenSeq([n \in DOMAIN req.typed.stages |->
    LET s == req.typed.stages[n]
    IN  [m \in DOMAIN s.params |-> Expected(s, s.params[m]) * s.params[m].width]]), 0)

PadsOn(a) == {p \in Range(req.padFill) : p.dstAxis = a}
PadWidth(a) ==
  IF PadsOn(a) = {} THEN 0
  ELSE LET p == CHOOSE x \in PadsOn(a) : TRUE IN Field(p.lo).v + Field(p.hi).v
PadStage(a) ==
  IF \E f \in Range(req.typed.fills) : f.dstAxis = a
  THEN (CHOOSE f \in Range(req.typed.fills) : f.dstAxis = a).stage ELSE 0

Width(boundary) ==
  IF boundary = 0 THEN req.typed.source.width ELSE req.typed.stages[boundary].width

\* Defect: a pad that enters at a boundary is counted from the next one on.
CutExtentLate(a, boundary) ==
  Field(req.axes[a].extent).v + IF PadStage(a) < boundary THEN PadWidth(a) ELSE 0
\* Boundary k: the tensor entering stage k with the pads entered by then.
CutExtent(a, boundary) ==
  Field(req.axes[a].extent).v + IF PadStage(a) <= boundary THEN PadWidth(a) ELSE 0

CutElements(boundary) ==
  CheckedProduct([a \in DOMAIN req.axes |-> CutExtent(a, boundary)])

BindTyped ==
  /\ step = "typing"
  /\ LET t == req.typed
         boundaries == 0 .. Len(t.stages)
         source == CheckedProduct(Extents(t.source.extents) \o <<t.source.width>>)
         result == CheckedProduct(Extents(t.result.extents))
         elements == [b \in boundaries |-> CutElements(b)]
         last == Len(t.stages)
         ok == /\ Dense(t.source) /\ Dense(t.result)
               /\ \A b \in boundaries : Width(b) > 0
               /\ \A s \in Range(t.stages) : StageOK(s)
               /\ ParameterBytes.ok /\ DOMAIN t.parameters = Used
               /\ source.ok /\ result.ok
               /\ \A b \in boundaries :
                    elements[b].ok /\ Fits(elements[b].v * Width(b))
               /\ elements[last].v * Width(last) = bound.totalBytes
               /\ result.v = elements[last].v
     IN  /\ Leads(ok, "bound")
         /\ bound' = IF ~ok THEN bound ELSE bound @@
              [sourceBytes |-> source.v, parameterBytes |-> ParameterBytes.v,
               cuts |-> [b \in boundaries |-> [elements |-> elements[b].v,
                                               bytes |-> elements[b].v * Width(b)]]]
  /\ UNCHANGED <<req, fields, axes, absorbed>>

(***************************************************************************)
(* Properties                                                              *)
(***************************************************************************)
\* The machine's answers are the exact ones, and it refuses an expression
\* only if it has no value within the width.
EvaluationExact ==
  \A e \in DOMAIN fields :
    /\ fields[e].ok = Computable(e, Symbols)
    /\ fields[e].ok => fields[e].v = Value(e, Symbols)
\* With that, the values below are those of unbounded arithmetic.
Exactly(e) == fields[e].v
TrueProduct(values) == FoldLeft(Times, 1, values)
LoHi(a) ==
  IF PadsOn(a) = {} THEN [lo |-> 0, hi |-> 0]
  ELSE LET p == CHOOSE x \in PadsOn(a) : TRUE
       IN  [lo |-> Exactly(p.lo), hi |-> Exactly(p.hi)]
PaddedBytes ==
  TrueProduct([a \in DOMAIN req.axes |->
    Exactly(req.axes[a].extent) + LoHi(a).lo + LoHi(a).hi]) * (req.bitwidth \div 8)

\* What a layout plan must satisfy, in unbounded arithmetic.
Admissible ==
  /\ SymbolsMatch
  /\ \A d \in Range(req.divisibility) :
       /\ d.divisor > 0 /\ Evaluates({d.expr})
       /\ \E q \in MinInt .. MaxInt : Exactly(d.expr) = q * d.divisor
  /\ req.axes # <<>>
  /\ \A a \in Range(req.axes) :
       /\ Evaluates({a.extent, a.src, a.dst})
       /\ Exactly(a.extent) >= 1 /\ Exactly(a.src) >= 0 /\ Exactly(a.dst) >= 0
  /\ \A p \in Range(req.padFill) :
       /\ p.dstAxis \in DOMAIN req.axes
       /\ Evaluates({p.lo, p.hi}) /\ Exactly(p.lo) >= 0 /\ Exactly(p.hi) >= 0
       /\ req.padCheck =>
            /\ p.dstAxis \in DOMAIN req.dst /\ Evaluates({req.dst[p.dstAxis]})
            /\ Exactly(req.axes[p.dstAxis].extent) + Exactly(p.lo) + Exactly(p.hi)
                 = Exactly(req.dst[p.dstAxis])
  /\ Range(req.alignment) \subseteq DOMAIN req.axes
  /\ req.bitwidth > 0 /\ req.bitwidth % 8 = 0 /\ Fits(PaddedBytes)

\* bind() "fails on a symbol-map mismatch, an evaluation error, a violated
\* correctness constraint or a v0 domain violation" (Bind.h), and on nothing
\* else: checked arithmetic accepts a layout plan exactly when every number
\* it needs is representable and every constraint holds.
BindDecides ==
  /\ step = "divisibility" => EvaluationExact
  /\ step \in {"bound", "typing"} => Admissible
  /\ step = "error" /\ req.typed = None => ~Admissible

\* The iteration an axis list describes: source offset, destination offset
\* and the turn at which each element is visited.
Visits(as) ==
  FoldLeft(LAMBDA S, x :
      {<<v[1] + i * x.src, v[2] + (i + x.lo) * x.dst, v[3] * x.extent + i>> :
         v \in S, i \in 0 .. x.extent - 1},
    {<<0, 0, 0>>}, as)
PlanAxis(a) ==
  [extent |-> Exactly(req.axes[a].extent), src |-> Exactly(req.axes[a].src),
   dst |-> Exactly(req.axes[a].dst), lo |-> LoHi(a).lo, hi |-> LoHi(a).hi]

\* Moving along axis a of the plan stays on axis c of the bound plan.
Inside(a, c) ==
  \A i \in 0 .. Exactly(req.axes[a].extent) - 1 :
    \E j \in 0 .. bound.axes[c].extent - 1 :
      /\ j * bound.axes[c].src = i * Exactly(req.axes[a].src)
      /\ j * bound.axes[c].dst = i * Exactly(req.axes[a].dst)

\* Coalescing changes nothing but the number of axes: after every merge the
\* axes visit the same source and destination elements in the same order,
\* and in the bound plan every pad sits on the axis that carries it and every
\* alignment names the axis that absorbed its own.
CoalescingPreserves ==
  /\ step \in {"coalesce", "typing", "bound"} =>
       Visits(axes) = Visits([a \in DOMAIN req.axes |-> PlanAxis(a)])
  /\ step \in {"typing", "bound"} =>
       /\ {[axis |-> CoalescedAxis(p.dstAxis), lo |-> Exactly(p.lo), hi |-> Exactly(p.hi)] :
             p \in Range(req.padFill)}
            = {[axis |-> k, lo |-> axes[k].lo, hi |-> axes[k].hi] :
                 k \in {x \in DOMAIN axes : axes[x].padded}}
       /\ \A n \in DOMAIN req.alignment :
            /\ bound.alignments[n] \in DOMAIN bound.axes
            /\ Inside(req.alignment[n], bound.alignments[n])

\* A bound plan's byte counts are the true ones: the destination holds the
\* padded axes; of a typed plan, "a variant that transfers at boundary k moves
\* exactly bytes" with the pads entered by then, the last boundary is both the
\* layout and the result descriptor, and every parameter of a channel has one
\* value per channel under these symbols.
FootprintsExact ==
  step = "bound" =>
    /\ bound.totalBytes = PaddedBytes
    /\ req.typed # None =>
         LET t == req.typed
             last == Len(t.stages)
             entered(b) == TrueProduct([a \in DOMAIN req.axes |->
               Exactly(req.axes[a].extent) +
                 IF \E f \in Range(t.fills) : f.dstAxis = a /\ f.stage > b
                 THEN 0 ELSE LoHi(a).lo + LoHi(a).hi])
         IN  /\ \A b \in 0 .. last : bound.cuts[b].elements = entered(b)
             /\ bound.cuts[last].bytes = bound.totalBytes
             /\ bound.cuts[last].elements
                  = TrueProduct([k \in DOMAIN t.result.extents |->
                                   Exactly(t.result.extents[k])])
             /\ \A s \in Range(t.stages) : \A p \in Range(s.params) :
                  p.rank = 1 /\ p.kind = "binding" =>
                    t.parameters[p.name].length = Exactly(s.shape[s.axis])

\* What a bound plan says is exact: bind() refuses nothing else and accepts
\* nothing else, moves the same elements after merging axes, and counts the
\* bytes that its variants really transfer.
BindingExact == BindDecides /\ CoalescingPreserves /\ FootprintsExact
=============================================================================
