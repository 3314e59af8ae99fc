---------------------------- MODULE FastPrograms ----------------------------
(****************************************************************************)
(* The prepared programs of a FastTransfers owner (reloc_torch/fast.py) and *)
(* the custom ops that run them inside compiled graphs (fast_ops.py).       *)
(*                                                                          *)
(* A typed or layout program is bound to one signature and to a snapshot of *)
(* its parameters; an indexed program binds the live indices at every call  *)
(* and keeps only metadata, in _specs; a pooled program keeps views of its  *)
(* tables.  Between calls the tensors change as they like.  A row of a      *)
(* tensor is <<row, version of the tensor>>, so an output says which bytes  *)
(* it was made of; a raised error is Raised whatever its type.              *)
(*                                                                          *)
(* Calls are atomic: the caller keeps operands still until wait() ("sources *)
(* may change afterwards").  FastTransfers models what happens in flight.   *)
(****************************************************************************)
EXTENDS Integers, SequencesExt, FiniteSetsExt

CONSTANTS
  SourceForms,     \* shape, strides, offset, dtype and device a source can have
  IndexForms,      \* values, rank, dtype, contiguity and offset of an index
  BagForms,        \* indices and offsets of one table
  ScaleExtents,    \* lengths of the parameter tensor
  TableRows,       \* rows of the pooled tables
  MaxTensorChanges \* bound of the model

\* Extents are natural numbers; indices and offsets are any int64.  A pooled
\* program has at least one table, and no table is empty.
ASSUME ProgramConstants ==
  /\ \A source \in SourceForms : source.rows \in Nat
  /\ \A index \in IndexForms : index.values \in Seq(Int)
  /\ \A bag \in BagForms : bag.indices \in Seq(Int) /\ bag.offsets \in Seq(Int)
  /\ TableRows \in Seq(Nat \ {0}) /\ TableRows # <<>>
  /\ MaxTensorChanges \in Nat

Columns == 2                       \* the constant trailing extent of every recipe
Raised == [raised |-> TRUE]
Unprepared == [prepared |-> FALSE]

VARIABLES
  tensors,      \* the operands as they are now, and how often they changed
  producer,         \* the kind of program this caller uses
  program,      \* what the prepared program keeps
  preparedFrom, \* the operands it was prepared from (history)
  ownerOpen,
  captured,     \* output metadata the tracer was told (None: no graph)
  answer        \* the last call, and what it returned

programVars == <<tensors, producer, program, preparedFrom, ownerOpen, captured, answer>>

None == [none |-> TRUE]
Producers == {"typed", "layout", "indexed", "pooled"}

\* Operands a kind of program does not have stay what they are.
Varies(operand) ==
  CASE operand = "source" -> producer # "pooled"
    [] operand = "index"  -> producer = "indexed"
    [] operand = "scale"  -> producer = "typed"

ProgramsInit ==
  /\ producer \in Producers
  /\ \E s \in SourceForms, i \in IndexForms, n \in ScaleExtents :
       /\ Varies("source") \/ s = CHOOSE f \in SourceForms : TRUE
       /\ Varies("index") \/ i = CHOOSE f \in IndexForms : TRUE
       /\ Varies("scale") \/ n = CHOOSE f \in ScaleExtents : TRUE
       /\ tensors = [source |-> s, version |-> 0, index |-> i, scale |-> n, scaleVersion |-> 0,
                     changes |-> 0]
  /\ program = Unprepared /\ preparedFrom = Unprepared
  /\ ownerOpen = TRUE
  /\ captured = None /\ answer = None

(* The tensors' owner resizes, replaces or writes them.                     *)
ChangeTensors ==
  /\ tensors.changes < MaxTensorChanges
  /\ \/ Varies("source") /\ \E s \in SourceForms :
          tensors' = [tensors EXCEPT !.source = s, !.version = @ + 1, !.changes = @ + 1]
     \/ Varies("index") /\ \E i \in IndexForms :
          tensors' = [tensors EXCEPT !.index = i, !.changes = @ + 1]
     \/ Varies("scale") /\ \E n \in ScaleExtents :
          tensors' = [tensors EXCEPT !.scale = n, !.scaleVersion = @ + 1, !.changes = @ + 1]
  /\ answer' = None
  /\ UNCHANGED <<producer, program, preparedFrom, ownerOpen, captured>>

-----------------------------------------------------------------------------
(* Metadata.                                                                *)

_signature(t) == <<t.rows, t.columns, t.strides, t.dtype, t.device>>

\* The guards of bind_values: a recipe's source is dense, starts its storage
\* and has the recipe's constants.
BindsSource(t, device) ==
  /\ t.columns = Columns /\ t.strides = "dense" /\ t.offset = 0 /\ t.dtype = "f32"
  /\ t.device = device
BindsIndex(i) == i.rank = 1 /\ i.dtype = "i64" /\ i.offset = 0 /\ i.contiguous /\ i.values # <<>>

Metadata(shape, dtype, device) == [shape |-> shape, dtype |-> dtype, device |-> device]
destination(rows) ==
  CASE producer = "typed"   -> Metadata(<<Columns, rows>>, "i8", "cuda")
    [] producer = "layout"  -> Metadata(<<Columns, rows>>, "f32", "cpu")
    [] producer = "indexed" -> Metadata(<<rows, Columns>>, "f16", "cuda")
    [] producer = "pooled"  -> Metadata(<<rows, Len(TableRows), Columns>>, "f16", "cuda")

Device == IF producer = "layout" THEN "cuda" ELSE "cpu"

\* out=: none given, one that fits, one of another element type but the same
\* width, one that does not fit.  The native check sees widths, not types.
Outs == {"none", "fits", "same width", "other"}
DestinationOK(out) ==
  out \in {"none", "fits"} \cup (IF producer = "pooled" THEN {} ELSE {"same width"})

Row(r) == <<r, tensors.version>>
Result(metadata, cells) == [metadata |-> metadata, cells |-> cells]

-----------------------------------------------------------------------------
(* Preparation.                                                             *)

Answers(call, value) == answer' = [call |-> call, value |-> value]

_parameter_snapshotLive(n) == [extent |-> n, version |-> <<>>]
_parameter_snapshot(n) == [extent |-> n, version |-> <<tensors.scaleVersion>>]

\* What typed(), layout() and their constructors keep, if they accept.  A
\* scale is declared with one entry for every row.
_init_common ==
  IF /\ BindsSource(tensors.source, Device)
     /\ producer = "typed" => tensors.scale = tensors.source.rows
  THEN [prepared |-> TRUE, signature |-> _signature(tensors.source),
        destination |-> destination(tensors.source.rows),
        parameters |-> IF producer = "typed" THEN _parameter_snapshot(tensors.scale) ELSE None]
  ELSE Unprepared

Operands == [rows |-> tensors.source.rows, form |-> _signature(tensors.source),
             scale |-> tensors.scaleVersion]

PrepareProgram ==
  /\ ownerOpen /\ program = Unprepared
  /\ program' = CASE producer = "indexed" -> [prepared |-> TRUE, specs |-> {}]
                   [] producer = "pooled"  -> [prepared |-> TRUE, views |-> TableRows]
                   [] OTHER            -> _init_common
  /\ program'.prepared
  /\ preparedFrom' = Operands /\ answer' = None
  /\ UNCHANGED <<tensors, producer, ownerOpen, captured>>

-----------------------------------------------------------------------------
(* Execution.                                                               *)

\* A snapshot has bytes of its own (<<>>: it would share the tensor's).
ScaleVersion ==
  IF program.parameters.version = <<>> THEN tensors.scaleVersion ELSE program.parameters.version[1]

\* A prepared program and its native template on the source they were
\* prepared for: every column of the result is one row of the source.
check == _signature(tensors.source) = program.signature

RunBound(out) ==
  IF ~check \/ ~DestinationOK(out) THEN Raised
  ELSE Result(program.destination,
         [c \in 1 .. Columns |-> [r \in 1 .. tensors.source.rows |->
            IF producer = "typed" THEN <<Row(r), ScaleVersion>> ELSE Row(r)]])

SpecKeyNoLength(source, index) == <<_signature(source), index.dtype>>
SpecKey(source, index) == <<_signature(source), Len(index.values), index.dtype>>

\* The metadata of this call: from _specs, or bound and added to it.  Whether
\* a view with a storage offset is refused depends on what was bound before.
Spec(source, index) ==
  LET known == {s \in program.specs : s.key = SpecKey(source, index)}
  IN  IF known # {} THEN CHOOSE s \in known : TRUE
      ELSE [key |-> SpecKey(source, index), rows |-> source.rows, count |-> Len(index.values)]
Admits(source, index) ==
  \/ \E s \in program.specs : s.key = SpecKey(source, index)
  \/ BindsSource(source, "cpu") /\ BindsIndex(index)

\* Both request builders look at every index; the source's layout and device
\* are part of the key.  The values are copied once, then checked.
IndexOK(index) == index.rank = 1 /\ index.contiguous
bind_indexed(spec, source, index) ==
  /\ Len(index.values) = spec.count /\ source.rows = spec.rows
  /\ \A k \in DOMAIN index.values : index.values[k] \in 0 .. spec.rows - 1

RunIndexed(out) ==
  LET source == tensors.source
      index == tensors.index
      spec == Spec(source, index)
  IN  IF \/ ~Admits(source, index) \/ ~IndexOK(index)
         \/ ~bind_indexed(spec, source, index) \/ ~DestinationOK(out)
      THEN Raised
      ELSE Result(destination(spec.count),
                  [k \in DOMAIN index.values |-> Row(index.values[k] + 1)])
\* A refused bind adds nothing; indices out of range are found afterwards.
SpecsAfter ==
  IF Admits(tensors.source, tensors.index)
  THEN program.specs \cup {Spec(tensors.source, tensors.index)} ELSE program.specs

\* preparePooledBags: offsets start at 0 and never fall or pass the indices.
OffsetsOK(bag) ==
  /\ bag.offsets[1] = 0
  /\ \A b \in DOMAIN bag.offsets :
       /\ bag.offsets[b] <= Len(bag.indices)
       /\ b > 1 => bag.offsets[b] >= bag.offsets[b - 1]
BagEndOffsets(bag, b) == bag.offsets[IF b < Len(bag.offsets) THEN b + 1 ELSE b]
BagEnd(bag, b) == IF b < Len(bag.offsets) THEN bag.offsets[b + 1] ELSE Len(bag.indices)
Bag(bag, b) == SubSeq(bag.indices, bag.offsets[b] + 1, BagEnd(bag, b))

\* bags[t] is the operand of table t; each cell of the result is the rows
\* that are summed, in index order.
RunPooled(bags, out) ==
  IF \/ bags[1].offsets = <<>>
     \/ \E t \in DOMAIN bags :
          \/ Len(bags[t].offsets) # Len(bags[1].offsets)
          \/ ~OffsetsOK(bags[t])
          \/ \E k \in DOMAIN bags[t].indices : bags[t].indices[k] \notin 0 .. program.views[t] - 1
     \/ ~DestinationOK(out)
  THEN Raised
  ELSE Result(destination(Len(bags[1].offsets)),
         [b \in DOMAIN bags[1].offsets |-> [t \in DOMAIN bags |-> Bag(bags[t], b)]])

Run(call) ==
  IF ~ownerOpen THEN Raised
  ELSE CASE producer = "indexed" -> RunIndexed(call.out)
         [] producer = "pooled"  -> RunPooled(call.bags, call.out)
         [] OTHER            -> RunBound(call.out)

Effects ==
  program' = IF producer = "indexed" /\ ownerOpen THEN [program EXCEPT !.specs = SpecsAfter]
             ELSE program

Calls(op, outs) ==
  [op : {op}, out : outs,
   bags : IF producer = "pooled" THEN [DOMAIN TableRows -> BagForms] ELSE {<<>>}]

ExecuteProgram ==
  /\ program.prepared
  /\ \E call \in Calls(FALSE, Outs) : Answers(call, Run(call))
  /\ Effects
  /\ UNCHANGED <<tensors, producer, preparedFrom, ownerOpen, captured>>

(* op() inside a trace: the fake kernel promises metadata computed from the *)
(* program (typed) or from the operands' lengths (indexed, pooled).         *)
Promise(bags) ==
  CASE producer = "typed"   -> program.destination
    [] producer = "indexed" -> destination(Len(tensors.index.values))
    [] producer = "pooled"  -> destination(Len(bags[1].offsets))

Capture ==
  /\ program.prepared /\ captured = None /\ producer # "layout"
  /\ \E call \in Calls(TRUE, {"none"}) : captured' = Promise(call.bags)
  /\ answer' = None
  /\ UNCHANGED <<tensors, producer, program, preparedFrom, ownerOpen>>

\* An output with other metadata never leaves the op.
_verifyDtype(value, promise) ==
  IF value # Raised /\ value.metadata.dtype # promise.dtype THEN Raised ELSE value
_verify(value, promise) ==
  IF value # Raised /\ value.metadata # promise THEN Raised ELSE value

(* The captured graph runs, maybe on other operands, maybe after close().   *)
RunOp ==
  /\ captured # None
  /\ \E call \in Calls(TRUE, {"none"}) : Answers(call, _verify(Run(call), captured))
  /\ Effects
  /\ UNCHANGED <<tensors, producer, preparedFrom, ownerOpen, captured>>

CloseOwner ==
  /\ ownerOpen /\ ownerOpen' = FALSE /\ answer' = None
  /\ UNCHANGED <<tensors, producer, program, preparedFrom, captured>>

ProgramsNext == ChangeTensors \/ CloseOwner \/ PrepareProgram \/ ExecuteProgram \/ Capture \/ RunOp

ProgramsSpec == ProgramsInit /\ [][ProgramsNext]_programVars

-----------------------------------------------------------------------------
(* What each producer is documented to return, from the live operands.      *)

\* A result made of the rows of the source as it is, with the scales the
\* program was prepared with.
BoundMeaning ==
  Result(destination(tensors.source.rows),
    [c \in 1 .. Columns |-> [r \in 1 .. tensors.source.rows |->
       IF producer = "typed" THEN <<Row(r), preparedFrom.scale>> ELSE Row(r)]])
BoundLegal == _signature(tensors.source) = preparedFrom.form

\* torch.index_select, for operands the recipe admits.
IndexedMeaning ==
  Result(destination(Len(tensors.index.values)),
    [k \in DOMAIN tensors.index.values |-> Row(tensors.index.values[k] + 1)])
IndexedLegal ==
  /\ BindsSource(tensors.source, "cpu") /\ BindsIndex(tensors.index)
  /\ \A k \in DOMAIN tensors.index.values : tensors.index.values[k] \in 0 .. tensors.source.rows - 1

\* EmbeddingBag: index k belongs to the last bag that starts before it.
BagOf(bag, k) == Max({b \in DOMAIN bag.offsets : bag.offsets[b] < k})
PooledMeaning(bags) ==
  Result(destination(Len(bags[1].offsets)),
    [b \in DOMAIN bags[1].offsets |-> [t \in DOMAIN bags |->
       LET mine == {k \in DOMAIN bags[t].indices : BagOf(bags[t], k) = b}
       IN  [n \in 1 .. Cardinality(mine) |-> bags[t].indices[Min(mine) + n - 1]]]])

Meaning(call) ==
  CASE producer = "indexed" -> IndexedMeaning
    [] producer = "pooled"  -> PooledMeaning(call.bags)
    [] OTHER            -> BoundMeaning
Legal == IF producer = "indexed" THEN IndexedLegal ELSE producer # "pooled" /\ BoundLegal

(* A call of a prepared program returns what its recipe says of the live    *)
(* operands and of the parameters as they were at preparation, or raises:   *)
(* whatever the program cached for operands of another length, type or      *)
(* layout, with any out= and after close().                                 *)
(* It does not raise for operands the recipe admits.  An op in a captured   *)
(* graph returns nothing but the metadata its fake kernel promised          *)
(* (TypedProgram, IndexedProgram, PooledProgram, fast_ops).                 *)
ProgramsExact ==
  answer # None =>
    /\ answer.value # Raised =>
         /\ ownerOpen
         /\ answer.value = Meaning(answer.call)
         /\ answer.call.op => answer.value.metadata = captured
    /\ ownerOpen /\ ~answer.call.op /\ answer.call.out \in {"none", "fits"} /\ Legal
         => answer.value # Raised
=============================================================================
