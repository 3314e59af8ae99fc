--------------------------- MODULE ChunkSchedule ---------------------------
(***************************************************************************)
(* The chunk planner of the staging pipeline (libreloc/src/                *)
(* ChunkSchedule.cpp, planChunks), one action per turn of its loop, and    *)
(* the address arithmetic of the executors it feeds (Execute.cpp,          *)
(* Pipeline.cpp).  A plan is a BoundPlan of rank Rank: extents, source and *)
(* destination strides, leading and trailing pads, element size and total  *)
(* bytes, with the caller's ring size and chunk size override.  Axis 1     *)
(* here is axis 0 of the code.                                             *)
(***************************************************************************)
EXTENDS Integers, Sequences, FiniteSets, Folds

CONSTANTS
  Rank, Plans,
  kMinChunkBytes, kMaxChunkBytes, kChunksPerBuffer

Axes == 1 .. Rank

ASSUME PlanConstants ==
  /\ Rank \in Nat \ {0}
  /\ kMinChunkBytes \in Nat \ {0} /\ kMaxChunkBytes \in Nat
  /\ kMinChunkBytes <= kMaxChunkBytes
  /\ kChunksPerBuffer \in Nat \ {0}
  /\ \A p \in Plans :
       /\ p.extents \in [Axes -> Nat] /\ p.lo \in [Axes -> Nat]
       /\ p.hi \in [Axes -> Nat]
       /\ p.src \in [Axes -> Int] /\ p.dst \in [Axes -> Nat]
       /\ p.elementSize \in Nat \ {0} /\ p.totalBytes \in Nat
       /\ p.nBuffers \in Nat \ {0} /\ p.override \in Nat

VARIABLES plan, pc, pb, chunks, maxChunkBytes

vars == <<plan, pc, pb, chunks, maxChunkBytes>>

Lesser(a, b) == IF a < b THEN a ELSE b
Greater(a, b) == IF a < b THEN b ELSE a

Total(f, S) == MapThenFoldSet(LAMBDA a, b : a + b, 0, LAMBDA x : f[x],
                              LAMBDA T : CHOOSE x \in T : TRUE, S)

(***************************************************************************)
(* What the planner computes before its loop                               *)
(***************************************************************************)
Padded(p, a) == p.extents[a] + p.lo[a] + p.hi[a]
PaddedOuter(p) == Padded(p, 1)
RowBytes(p) == p.dst[1] * p.elementSize

\* The furthest element of one outer row, pads included.
InnerSpan(p) ==
  Total([a \in Axes |-> (Padded(p, a) - 1) * p.dst[a]], Axes \ {1})

\* Defect: a row may start on the last element of the row before.
DisjointLoose(p) == p.dst[1] >= InnerSpan(p)

Disjoint(p) == p.dst[1] >= InnerSpan(p) + 1

Target(p) ==
  IF p.override # 0 THEN p.override
  ELSE Lesser(Greater(p.totalBytes \div (kChunksPerBuffer * p.nBuffers),
                      kMinChunkBytes), kMaxChunkBytes)

RowsPerChunk(p) ==
  IF RowBytes(p) > 0
  THEN Lesser(PaddedOuter(p), Greater(1, Target(p) \div RowBytes(p)))
  ELSE PaddedOuter(p)

(***************************************************************************)
(* The loop                                                                *)
(***************************************************************************)
Whole(p) ==
  [paddedBegin |-> 0, paddedEnd |-> PaddedOuter(p),
   validBegin |-> 0, validEnd |-> p.extents[1],
   byteOffset |-> 0, bytes |-> p.totalBytes]

\* Defect: a window of leading pad rows ends before it begins.
ChunkUnclamped(p, b) ==
  LET e == b + Lesser(RowsPerChunk(p), PaddedOuter(p) - b)
      vb == Lesser(Greater(b - p.lo[1], 0), p.extents[1])
  IN  [paddedBegin |-> b, paddedEnd |-> e,
       validBegin |-> vb, validEnd |-> Lesser(e - p.lo[1], p.extents[1]),
       byteOffset |-> b * RowBytes(p), bytes |-> (e - b) * RowBytes(p)]

ChunkFrom(p, b) ==
  LET e == b + Lesser(RowsPerChunk(p), PaddedOuter(p) - b)
      vb == Lesser(Greater(b - p.lo[1], 0), p.extents[1])
      ve == Lesser(e - p.lo[1], p.extents[1])
  IN  [paddedBegin |-> b, paddedEnd |-> e,
       validBegin |-> vb, validEnd |-> Greater(ve, vb),
       byteOffset |-> b * RowBytes(p), bytes |-> (e - b) * RowBytes(p)]

Init ==
  /\ plan \in Plans
  /\ pc = "plan" /\ pb = 0 /\ chunks = <<>> /\ maxChunkBytes = 0

Serialize ==
  /\ pc = "plan" /\ (~Disjoint(plan) \/ PaddedOuter(plan) <= 0)
  /\ chunks' = <<Whole(plan)>> /\ maxChunkBytes' = plan.totalBytes
  /\ pc' = "serialized"
  /\ UNCHANGED <<plan, pb>>

Begin ==
  /\ pc = "plan" /\ Disjoint(plan) /\ PaddedOuter(plan) > 0
  /\ maxChunkBytes' = RowsPerChunk(plan) * RowBytes(plan)
  /\ pc' = "cut"
  /\ UNCHANGED <<plan, pb, chunks>>

\* Defect: the valid rows of a window ignore the leading pad.
CutUnshifted ==
  /\ pc = "cut" /\ pb < PaddedOuter(plan)
  /\ LET c == ChunkFrom(plan, pb)
     IN  /\ chunks' = Append(chunks, [c EXCEPT
              !.validBegin = Lesser(c.paddedBegin, plan.extents[1]),
              !.validEnd = Lesser(c.paddedEnd, plan.extents[1])])
         /\ pb' = c.paddedEnd
  /\ UNCHANGED <<plan, pc, maxChunkBytes>>

Cut ==
  /\ pc = "cut" /\ pb < PaddedOuter(plan)
  /\ chunks' = Append(chunks, ChunkFrom(plan, pb))
  /\ pb' = ChunkFrom(plan, pb).paddedEnd
  /\ UNCHANGED <<plan, pc, maxChunkBytes>>

Finish ==
  /\ pc = "cut" /\ pb >= PaddedOuter(plan)
  /\ pc' = "done"
  /\ UNCHANGED <<plan, pb, chunks, maxChunkBytes>>

Next == Serialize \/ Begin \/ Cut \/ Finish

Spec == Init /\ [][Next]_vars

(***************************************************************************)
(* The executors: which source element reaches which destination element   *)
(***************************************************************************)
Tuples(p) ==
  {i \in [Axes -> 0 .. Total(p.extents, Axes)] :
     \A a \in Axes : i[a] < p.extents[a]}
SrcOffset(p, i) == Total([a \in Axes |-> i[a] * p.src[a]], Axes)
DstOffset(p, i) == Total([a \in Axes |-> (i[a] + p.lo[a]) * p.dst[a]], Axes)

HasPads(p) == \E a \in Axes : p.lo[a] + p.hi[a] > 0
Elements(p) == p.totalBytes \div p.elementSize

\* What element o can hold after the fill and the gather of rows I, when the
\* buffer starts at element base of the destination.
Image(p, I, base, o) ==
  LET writers == {i \in I : DstOffset(p, i) - base = o}
  IN  IF writers # {} THEN {SrcOffset(p, i) : i \in writers}
      ELSE IF HasPads(p) THEN {"fill"} ELSE {"untouched"}

executeH2D(p) ==
  [o \in 0 .. Elements(p) - 1 |-> Image(p, Tuples(p), 0, o)]

\* Defect: the staging window is rebased by valid rows, not padded ones.
RebaseValid(p, c) == c.validBegin * p.dst[1]

\* rebase(): where the window's element 0 sits in the destination.
Rebase(p, c) == c.paddedBegin * p.dst[1]

ChunkTuples(p, c) ==
  {i \in Tuples(p) : c.validBegin <= i[1] /\ i[1] < c.validEnd}
Window(p, c) ==
  [o \in 0 .. c.bytes \div p.elementSize - 1 |->
     Image(p, ChunkTuples(p, c), Rebase(p, c), o)]

\* executeH2DPrepared's capacity checks on one chunk.
Admitted(p, c) ==
  /\ c.byteOffset >= 0 /\ c.byteOffset + c.bytes <= p.totalBytes
  /\ c.bytes <= maxChunkBytes
  /\ c.validBegin >= 0 /\ c.validBegin <= c.validEnd
  /\ c.validEnd <= p.extents[1]

\* describeTransfer's checks: the plan covers its dense destination.
Product(p) ==
  MapThenFoldSet(LAMBDA a, b : a * b, 1, LAMBDA a : Padded(p, a),
                 LAMBDA T : CHOOSE x \in T : TRUE, Axes)
Span(p) == Total([a \in Axes |-> (Padded(p, a) - 1) * p.dst[a]], Axes) + 1
Accepted(p) ==
  /\ \A a \in Axes : p.extents[a] > 0
  /\ Product(p) * p.elementSize = p.totalBytes
  /\ Span(p) * p.elementSize = p.totalBytes
  /\ Disjoint(p) => PaddedOuter(p) * RowBytes(p) = p.totalBytes

\* Defect: axes that only touch count as apart.
ApartTouching(p, S) ==
  \A a \in S : p.src[a] >= Total([b \in Axes |-> (p.extents[b] - 1) * p.src[b]],
    {b \in S : p.src[b] < p.src[a] \/ (p.src[b] = p.src[a] /\ b < a)})

\* The mixed-radix test over axes sorted by stride.
Apart(p, S) ==
  \A a \in S : p.src[a] > Total([b \in Axes |-> (p.extents[b] - 1) * p.src[b]],
    {b \in S : p.src[b] < p.src[a] \/ (p.src[b] = p.src[a] /\ b < a)})

srcRowsWriteDisjoint(p) ==
  LET wide == {a \in Axes : p.extents[a] > 1}
  IN  (\A a \in wide : p.src[a] > 0) /\ Apart(p, wide)

(***************************************************************************)
(* Properties                                                              *)
(***************************************************************************)
Chunk ==
  [paddedBegin : Nat, paddedEnd : Nat, validBegin : Nat, validEnd : Nat,
   byteOffset : Nat, bytes : Nat]
TypeOK ==
  /\ plan \in Plans /\ chunks \in Seq(Chunk)
  /\ pc \in {"plan", "cut", "done", "serialized"}
  /\ pb \in Nat /\ maxChunkBytes \in Nat

\* Row r of the source belongs in the window that holds padded row r + lo.
OwnRows(p, c) ==
  \A r \in 0 .. p.extents[1] - 1 :
    (c.validBegin <= r /\ r < c.validEnd)
      <=> (c.paddedBegin <= r + p.lo[1] /\ r + p.lo[1] < c.paddedEnd)

\* The planned windows are non-empty, follow each other without gap or
\* overlap from padded row 0 on, and each gathers exactly the valid rows it
\* holds; when the loop ends they cover every padded row.
RowsTiled ==
  /\ pc \in {"cut", "done"} =>
       /\ \A n \in 1 .. Len(chunks) :
            /\ chunks[n].paddedBegin < chunks[n].paddedEnd
            /\ chunks[n].paddedBegin
                 = IF n = 1 THEN 0 ELSE chunks[n - 1].paddedEnd
            /\ chunks[n].validBegin <= chunks[n].validEnd
            /\ OwnRows(plan, chunks[n])
       /\ pb = IF chunks = <<>> THEN 0 ELSE chunks[Len(chunks)].paddedEnd
  /\ pc = "done" => pb = PaddedOuter(plan)

\* For every plan a transfer accepts, the pipeline is byte-exact
\* (ChunkSchedule.h): executeH2DPrepared admits every chunk, gathers only
\* inside its staging window, and the windows laid side by side are what
\* executeH2D would have written.
WindowsExact ==
  pc \in {"done", "serialized"} /\ Accepted(plan) =>
    LET whole == executeH2D(plan)
    IN  \A n \in 1 .. Len(chunks) :
          LET c == chunks[n]
              window == Window(plan, c)
              at == c.byteOffset \div plan.elementSize
          IN  /\ Admitted(plan, c)
              /\ \A i \in ChunkTuples(plan, c) :
                   DstOffset(plan, i) - Rebase(plan, c) \in DOMAIN window
              /\ \A o \in DOMAIN window : window[o] = whole[at + o]

\* What the driver may run in parallel never writes one element twice: row
\* ranges of a chunk are gathered by several workers unless the schedule is
\* serialized, and scattered by several when srcRowsWriteDisjoint says so.
ParallelRowsSafe ==
  /\ pc = "cut" =>
       \A i, j \in Tuples(plan) :
         i[1] # j[1] => DstOffset(plan, i) # DstOffset(plan, j)
  /\ pc = "plan" /\ srcRowsWriteDisjoint(plan) =>
       \A i, j \in Tuples(plan) :
         i # j => SrcOffset(plan, i) # SrcOffset(plan, j)

\* Cutting a plan into windows and handing rows to several workers are both
\* invisible in the bytes of the destination.
WindowsSafe == WindowsExact /\ ParallelRowsSafe
=============================================================================
