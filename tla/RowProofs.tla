----------------------------- MODULE RowProofs -----------------------------
(***************************************************************************)
(* Proofs about how the rows of a transfer are divided: into the windows   *)
(* of ChunkSchedule, for every plan, ring and chunk size; and the rows of  *)
(* one window among the threads of GatherPool, for every number of         *)
(* workers and drivers and every bound on rows, floors and calls.          *)
(***************************************************************************)
EXTENDS ChunkSchedule, GatherPool, FiniteSetTheorems, TLAPS

(***************************************************************************)
(* The planner.  For every plan and every chunk size, its windows          *)
(* tile the padded rows.  Nothing is assumed about the tests that come     *)
(* before the loop: the fold behind InnerSpan is never expanded.           *)
(***************************************************************************)

(***************************************************************************)
(* Facts about one plan                                                    *)
(***************************************************************************)
LEMMA PlanFields ==
  ASSUME NEW p \in Plans
  PROVE  /\ p.extents[1] \in Nat /\ p.lo[1] \in Nat /\ p.hi[1] \in Nat
         /\ p.dst[1] \in Nat /\ p.elementSize \in Nat \ {0}
         /\ p.totalBytes \in Nat /\ p.nBuffers \in Nat \ {0}
         /\ p.override \in Nat
         /\ PaddedOuter(p) = p.extents[1] + p.lo[1] + p.hi[1]
         /\ PaddedOuter(p) \in Nat
<1>1. 1 \in Axes
  BY PlanConstants DEF Axes
<1>. QED
  BY <1>1, PlanConstants DEF PaddedOuter, Padded

\* Products of extents are natural numbers.
LEMMA ProductNat ==
  ASSUME NEW a \in Nat, NEW b \in Nat
  PROVE  a * b \in Nat
OBVIOUS

\* A product of positive numbers is positive.
LEMMA PositiveProduct ==
  ASSUME NEW a \in Nat \ {0}, NEW b \in Nat \ {0}
  PROVE  a * b \in Nat \ {0}
OBVIOUS

\* A row of a plan has a natural number of bytes.
LEMMA RowBytesNat ==
  ASSUME NEW p \in Plans
  PROVE  RowBytes(p) \in Nat
BY PlanFields, ProductNat DEF RowBytes

\* The chunk size the loop aims at is an integer.
LEMMA TargetInt ==
  ASSUME NEW p \in Plans
  PROVE  Target(p) \in Int
<1>1. kChunksPerBuffer * p.nBuffers \in Nat \ {0}
  BY PlanFields, PositiveProduct, PlanConstants
<1>2. p.totalBytes \div (kChunksPerBuffer * p.nBuffers) \in Int
  BY <1>1, PlanFields
<1>. QED
  BY <1>2, PlanFields, PlanConstants DEF Target, Lesser, Greater

\* A window is never empty: the loop advances whatever chunk size was asked.
LEMMA RowsPerChunkPositive ==
  ASSUME NEW p \in Plans, PaddedOuter(p) > 0
  PROVE  RowsPerChunk(p) \in Nat \ {0}
<1>1. CASE RowBytes(p) > 0
  <2>1. Target(p) \div RowBytes(p) \in Int
    BY <1>1, TargetInt, RowBytesNat
  <2>. QED
    BY <1>1, <2>1, PlanFields DEF RowsPerChunk, Lesser, Greater
<1>2. CASE ~(RowBytes(p) > 0)
  BY <1>2, PlanFields DEF RowsPerChunk
<1>. QED
  BY <1>1, <1>2

(***************************************************************************)
(* One turn of the loop                                                    *)
(***************************************************************************)
LEMMA ChunkRows ==
  ASSUME NEW p \in Plans, NEW b \in Nat, b < PaddedOuter(p)
  PROVE  /\ ChunkFrom(p, b) \in Chunk
         /\ ChunkFrom(p, b).paddedBegin = b
         /\ b < ChunkFrom(p, b).paddedEnd
         /\ ChunkFrom(p, b).paddedEnd <= PaddedOuter(p)
         /\ ChunkFrom(p, b).validBegin <= ChunkFrom(p, b).validEnd
         /\ OwnRows(p, ChunkFrom(p, b))
<1> DEFINE e == b + Lesser(RowsPerChunk(p), PaddedOuter(p) - b)
           vb == Lesser(Greater(b - p.lo[1], 0), p.extents[1])
           ve == Greater(Lesser(e - p.lo[1], p.extents[1]), vb)
<1>1. /\ RowsPerChunk(p) \in Nat \ {0} /\ PaddedOuter(p) \in Nat
      /\ p.extents[1] \in Nat /\ p.lo[1] \in Nat /\ RowBytes(p) \in Nat
  BY RowsPerChunkPositive, PlanFields, RowBytesNat
<1>2. e \in Nat /\ b < e /\ e <= PaddedOuter(p)
  BY <1>1 DEF Lesser
<1>. HIDE DEF e
<1>3. vb \in Nat /\ ve \in Nat /\ vb <= ve
  BY <1>1, <1>2 DEF Lesser, Greater
<1>4. \A r \in 0 .. p.extents[1] - 1 :
        (vb <= r /\ r < ve) <=> (b <= r + p.lo[1] /\ r + p.lo[1] < e)
  BY <1>1, <1>2 DEF Lesser, Greater
<1>. HIDE DEF vb, ve
<1>5. b * RowBytes(p) \in Nat /\ (e - b) * RowBytes(p) \in Nat
  <2>1. e - b \in Nat
    BY <1>2
  <2>. QED
    BY <2>1, <1>1, ProductNat
<1>6. ChunkFrom(p, b)
        = [paddedBegin |-> b, paddedEnd |-> e, validBegin |-> vb,
           validEnd |-> ve, byteOffset |-> b * RowBytes(p),
           bytes |-> (e - b) * RowBytes(p)]
  BY DEF ChunkFrom, e, vb, ve
<1>. QED
  BY <1>2, <1>3, <1>4, <1>5, <1>6 DEF Chunk, OwnRows

(***************************************************************************)
(* RowsTiled is inductive once the types and the loop's bound are added.   *)
(***************************************************************************)
LoopInv ==
  /\ plan \in Plans /\ chunks \in Seq(Chunk) /\ pb \in Nat
  /\ pc = "plan" => pb = 0 /\ chunks = <<>>
  /\ pc = "cut" => PaddedOuter(plan) > 0 /\ pb <= PaddedOuter(plan)
  /\ RowsTiled

\* Cutting one more chunk keeps the tiling.
LEMMA CutKeeps ==
  ASSUME LoopInv, Cut
  PROVE  LoopInv'
<1> DEFINE c == ChunkFrom(plan, pb)
<1>1. /\ plan \in Plans /\ plan' = plan /\ chunks \in Seq(Chunk) /\ pb \in Nat
      /\ pc = "cut" /\ pc' = "cut" /\ pb < PaddedOuter(plan)
      /\ PaddedOuter(plan) > 0 /\ PaddedOuter(plan)' = PaddedOuter(plan)
  BY DEF LoopInv, Cut, PaddedOuter, Padded
<1>2. /\ c \in Chunk /\ c.paddedBegin = pb /\ pb < c.paddedEnd
      /\ c.paddedEnd <= PaddedOuter(plan) /\ c.validBegin <= c.validEnd
      /\ OwnRows(plan, c)
  BY <1>1, ChunkRows
<1>3. chunks' = Append(chunks, c) /\ pb' = c.paddedEnd
  BY DEF Cut
<1>. HIDE DEF c
<1>4. /\ chunks' \in Seq(Chunk) /\ Len(chunks') = Len(chunks) + 1
      /\ chunks'[Len(chunks) + 1] = c /\ chunks' # <<>>
      /\ \A n \in 1 .. Len(chunks) : chunks'[n] = chunks[n]
  BY <1>1, <1>2, <1>3
<1>5. pb' \in Nat
  BY <1>2, <1>3 DEF Chunk
<1>6. /\ pb = IF chunks = <<>> THEN 0 ELSE chunks[Len(chunks)].paddedEnd
      /\ \A n \in 1 .. Len(chunks) :
           /\ chunks[n].paddedBegin < chunks[n].paddedEnd
           /\ chunks[n].paddedBegin
                = IF n = 1 THEN 0 ELSE chunks[n - 1].paddedEnd
           /\ chunks[n].validBegin <= chunks[n].validEnd
           /\ OwnRows(plan, chunks[n])
  BY <1>1 DEF LoopInv, RowsTiled
<1>7. ASSUME NEW n \in 1 .. Len(chunks')
      PROVE  /\ chunks'[n].paddedBegin < chunks'[n].paddedEnd
             /\ chunks'[n].paddedBegin
                  = IF n = 1 THEN 0 ELSE chunks'[n - 1].paddedEnd
             /\ chunks'[n].validBegin <= chunks'[n].validEnd
             /\ OwnRows(plan', chunks'[n])
  <2>1. CASE n = Len(chunks) + 1
    <3>1. n = 1 => chunks = <<>>
      BY <2>1, <1>1
    <3>2. n # 1 => chunks # <<>> /\ chunks'[n - 1] = chunks[Len(chunks)]
      BY <2>1, <1>1, <1>4
    <3>. QED
      BY <2>1, <3>1, <3>2, <1>1, <1>2, <1>4, <1>6
  <2>2. CASE n # Len(chunks) + 1
    <3>1. n \in 1 .. Len(chunks) /\ (n # 1 => n - 1 \in 1 .. Len(chunks))
      BY <2>2, <1>1, <1>4
    <3>. QED
      BY <3>1, <1>1, <1>4, <1>6
  <2>. QED
    BY <2>1, <2>2
<1>8. pb' = IF chunks' = <<>> THEN 0 ELSE chunks'[Len(chunks')].paddedEnd
  BY <1>3, <1>4
<1>9. RowsTiled'
  BY <1>1, <1>7, <1>8 DEF RowsTiled
<1>. QED
  BY <1>1, <1>2, <1>3, <1>4, <1>5, <1>9 DEF LoopInv

\* Every step of planChunks keeps the loop's invariant.
LEMMA LoopInductive == LoopInv /\ [Next]_vars => LoopInv'
<1> SUFFICES ASSUME LoopInv, [Next]_vars PROVE LoopInv'
  OBVIOUS
<1>1. CASE Serialize
  <2>1. /\ plan \in Plans /\ plan' = plan /\ pb' = pb /\ pb \in Nat
        /\ pc' = "serialized" /\ chunks' = <<Whole(plan)>>
    BY <1>1 DEF Serialize, LoopInv
  <2>2. Whole(plan) \in Chunk
    BY <2>1, PlanFields DEF Whole, Chunk
  <2>3. chunks' \in Seq(Chunk)
    BY <2>1, <2>2
  <2>. QED
    BY <2>1, <2>3 DEF LoopInv, RowsTiled
<1>2. CASE Begin
  <2>1. /\ plan \in Plans /\ plan' = plan /\ pb' = 0 /\ pb = 0
        /\ pc' = "cut" /\ chunks' = <<>>
        /\ PaddedOuter(plan) > 0 /\ PaddedOuter(plan)' = PaddedOuter(plan)
    BY <1>2 DEF Begin, LoopInv, PaddedOuter, Padded
  <2>2. chunks' \in Seq(Chunk) /\ Len(chunks') = 0
    BY <2>1
  <2>3. PaddedOuter(plan) \in Nat
    BY <2>1, PlanFields
  <2>. QED
    BY <2>1, <2>2, <2>3 DEF LoopInv, RowsTiled
<1>3. CASE Cut
  BY <1>3, CutKeeps
<1>4. CASE Finish
  <2>1. /\ plan \in Plans /\ plan' = plan /\ pb' = pb /\ chunks' = chunks
        /\ pb \in Nat /\ pc = "cut" /\ pc' = "done"
        /\ PaddedOuter(plan)' = PaddedOuter(plan)
        /\ pb >= PaddedOuter(plan) /\ pb <= PaddedOuter(plan)
    BY <1>4 DEF Finish, LoopInv, PaddedOuter, Padded
  <2>2. pb = PaddedOuter(plan)
    BY <2>1, PlanFields
  <2>. QED
    BY <2>1, <2>2 DEF LoopInv, RowsTiled
<1>5. CASE UNCHANGED vars
  BY <1>5 DEF vars, LoopInv, RowsTiled, PaddedOuter, Padded
<1>. QED
  BY <1>1, <1>2, <1>3, <1>4, <1>5 DEF Next

\* The planner's windows tile the destination's rows, for every plan, ring
\* size and chunk size override (planChunks).
THEOREM WindowsTile == Spec => []RowsTiled
<1>1. Init => LoopInv
  BY DEF Init, LoopInv, RowsTiled
<1>2. LoopInv => RowsTiled
  BY DEF LoopInv
<1>. QED
  BY <1>1, <1>2, LoopInductive, PTL DEF Spec

(***************************************************************************)
(* The partition of rows 0 .. n - 1                                        *)
(***************************************************************************)
\* Row r lies in sub-range p of n rows.
InRange(n, min, p, r) == Part(n, min, p).from <= r /\ r < Part(n, min, p).to

\* Division rounds down.
LEMMA Quotient ==
  ASSUME NEW a \in Nat, NEW b \in Nat \ {0}
  PROVE  /\ a \div b \in Nat
         /\ b * (a \div b) <= a
         /\ a < b * (a \div b) + b
OBVIOUS

\* The parts are at least one, and together they have room for every row.
LEMMA PartsCover ==
  ASSUME NEW n \in Nat \ {0}, NEW min \in Nat
  PROVE  /\ Parts(n, min) \in Nat \ {0} /\ Parts(n, min) <= PoolThreads
         /\ Per(n, min) \in Nat \ {0}
         /\ n <= Parts(n, min) * Per(n, min)
<1>1. Most(1, min) \in Nat \ {0}
  BY DEF Most
<1>2. n \div Most(1, min) \in Nat
  BY <1>1, Quotient
<1>3. Parts(n, min) \in Nat \ {0} /\ Parts(n, min) <= PoolThreads
  BY <1>2, GatherPoolConstants DEF Parts, Least, Most
<1> DEFINE P == Parts(n, min)
           q == (n + P - 1) \div P
<1>4. P \in Nat \ {0} /\ n + P - 1 \in Nat
  BY <1>3
<1> HIDE DEF P
<1>5. q \in Nat /\ n + P - 1 < P * q + P
  BY <1>4, Quotient
<1> HIDE DEF q
<1>6. P * q \in Nat
  BY <1>4, <1>5
<1>7. n <= P * q
  BY <1>4, <1>5, <1>6
<1>8. q # 0
  <2> SUFFICES ASSUME q = 0 PROVE FALSE
    OBVIOUS
  <2>1. P * q = 0
    BY <1>4
  <2> QED BY <1>7, <2>1
<1>9. Per(n, min) = q
  BY DEF Per, P, q
<1>10. QED
  BY <1>3, <1>5, <1>7, <1>8, <1>9 DEF P

\* A sub-range lies inside the call's rows.
LEMMA PartInside ==
  ASSUME NEW n \in 0 .. MaxRows, n # 0, NEW min \in Nat, NEW p \in Nat
  PROVE  /\ Part(n, min, p) \in [from : 0 .. MaxRows, to : 0 .. MaxRows]
         /\ Part(n, min, p).to <= n
         /\ Part(n, min, p) # NoRange <=> Part(n, min, p).from < Part(n, min, p).to
         /\ p = 0 => Part(n, min, p).from = 0
<1>1. Per(n, min) \in Nat \ {0} /\ n \in Nat \ {0} /\ MaxRows \in Nat
  BY PartsCover, GatherPoolConstants
<1> DEFINE per == Per(n, min)
           a == p * per
           b == Least((p + 1) * per, n)
<1>2. a \in Nat /\ (p + 1) * per \in Nat /\ (p = 0 => a = 0)
  BY <1>1
<1>3. b \in Nat /\ b <= n
  BY <1>1, <1>2 DEF Least
<1>4. Part(n, min, p) = IF p < Parts(n, min) /\ a < b THEN [from |-> a, to |-> b] ELSE NoRange
  BY DEF Part
<1> HIDE DEF a, b
<1>5. CASE p < Parts(n, min) /\ a < b
  BY <1>1, <1>2, <1>3, <1>4, <1>5 DEF NoRange
<1>6. CASE ~(p < Parts(n, min) /\ a < b)
  BY <1>1, <1>4, <1>6 DEF NoRange
<1>7. QED
  BY <1>5, <1>6

\* Every row of a call lies in a sub-range of the driver or of a worker ...
LEMMA PartsTile ==
  ASSUME NEW n \in Nat \ {0}, NEW min \in Nat, NEW r \in Nat, r < n
  PROVE  \E p \in 0 .. PoolThreads - 1 : InRange(n, min, p, r)
<1> DEFINE P == Parts(n, min)
           per == Per(n, min)
           p == r \div per
<1>1. P \in Nat \ {0} /\ P <= PoolThreads /\ per \in Nat \ {0} /\ n <= P * per
  BY PartsCover
<1> HIDE DEF P, per
<1>2. p \in Nat /\ per * p <= r /\ r < per * p + per
  BY <1>1, Quotient
<1> HIDE DEF p
<1>3. p * per = per * p /\ (p + 1) * per = per * p + per /\ p * per \in Nat
  BY <1>1, <1>2
<1>4. p < P
  <2> SUFFICES ASSUME P <= p PROVE FALSE
    BY <1>1, <1>2
  <2>1. p * per = P * per + (p - P) * per
    BY <1>1, <1>2
  <2>2. (p - P) * per \in Nat /\ P * per \in Nat
    BY <1>1, <1>2
  <2> QED BY <1>1, <1>2, <1>3, <2>1, <2>2
<1>5. p * per <= r /\ r < Least((p + 1) * per, n)
  BY <1>2, <1>3 DEF Least
<1>l. Least((p + 1) * per, n) \in Nat
  BY <1>1, <1>2, <1>3 DEF Least
<1>6. p * per < Least((p + 1) * per, n)
  BY <1>3, <1>5, <1>l
<1>7. Part(n, min, p) = [from |-> p * per, to |-> Least((p + 1) * per, n)]
  BY <1>4, <1>6 DEF Part, P, per
<1>8. p \in 0 .. PoolThreads - 1
  BY <1>1, <1>2, <1>4, GatherPoolConstants
<1>9. QED
  BY <1>5, <1>7, <1>8 DEF InRange

\* ... and in one only.
LEMMA PartsDisjoint ==
  ASSUME NEW n \in Nat \ {0}, NEW min \in Nat, NEW r \in Nat,
         NEW p \in Nat, NEW q \in Nat, p < q
  PROVE  ~(InRange(n, min, p, r) /\ InRange(n, min, q, r))
<1> DEFINE per == Per(n, min)
<1>1. per \in Nat \ {0}
  BY PartsCover
<1> HIDE DEF per
<1>2. (p + 1) * per <= q * per
  <2>1. q * per = (p + 1) * per + (q - p - 1) * per
    BY <1>1
  <2>2. (q - p - 1) * per \in Nat /\ (p + 1) * per \in Nat
    BY <1>1
  <2> QED BY <2>1, <2>2
<1>3. (p + 1) * per \in Nat /\ q * per \in Nat
  BY <1>1
<1>4. InRange(n, min, p, r) => r < (p + 1) * per
  <2> DEFINE a == p * per
             b == (p + 1) * per
  <2>1. Part(n, min, p) = NoRange \/ Part(n, min, p).to = Least(b, n)
    BY DEF Part, per
  <2>2. b \in Nat
    BY <1>3
  <2> HIDE DEF b
  <2> QED BY <2>1, <2>2 DEF InRange, NoRange, Least, b
<1>5. InRange(n, min, q, r) => q * per <= r
  <2> DEFINE a == q * per
  <2>1. Part(n, min, q) = NoRange \/ Part(n, min, q).from = a
    BY DEF Part, per
  <2> HIDE DEF a
  <2> QED BY <2>1 DEF InRange, NoRange, a
<1>6. QED
  BY <1>2, <1>3, <1>4, <1>5

(***************************************************************************)
(* The inductive invariant                                                 *)
(***************************************************************************)
DriverPCs == {"idle", "inline", "lock", "notify", "part", "barrier", "returned",
              "close", "closeNotify", "join", "closedPool"}
WorkerPCs == {"wait", "run", "failed", "finished", "exited"}

Dispatching(d) == dpc[d] \in {"notify", "part", "barrier"}

\* Workers the barrier still waits for.
Owes(w) == HasWork(w) \/ wpc[w] \in {"run", "failed", "finished"}
Owing == {w \in PoolWorkers : Owes(w)}

PartOf(d, p) == Part(call[d].n, call[d].min, p)
InPart(d, p, r) == PartOf(d, p).from <= r /\ r < PartOf(d, p).to

\* Rows of call d whose callback has still to run.
Left(d, r) ==
  \/ dpc[d] \in {"notify", "part"} /\ InPart(d, 0, r)
  \/ \E w \in PoolWorkers : (HasWork(w) \/ wpc[w] = "run") /\ InPart(d, w, r)

Shape ==
  /\ driverMu \in Drivers \cup {NoDriver} /\ poolClosed \in BOOLEAN
  /\ assigned \in [PoolWorkers -> Ranges]
  /\ fn \in Drivers \cup {NoDriver}
  /\ stop \in BOOLEAN /\ failure \in BOOLEAN
  /\ asleep \subseteq Drivers \cup PoolWorkers
  /\ wpc \in [PoolWorkers -> WorkerPCs]
  /\ job \in [PoolWorkers -> [fn : Drivers \cup {NoDriver}, range : Ranges]]
  /\ dpc \in [Drivers -> DriverPCs]
  /\ call \in [Drivers -> [n : 0 .. MaxRows, min : 0 .. MaxFloor]]
  /\ thrown \in [Drivers -> BOOLEAN] /\ threw \in [Drivers -> BOOLEAN]
  /\ outcome \in [Drivers -> {"none", "ok", "throws"}]
  /\ ran \in [Drivers -> [Rows -> Nat]]
  /\ calls \in 0 .. MaxCalls

\* driverMu belongs to the driver in the middle of a dispatch or of close(),
\* or to one that found the pool closed and runs its call inline.
DriverOK(d) ==
  /\ dpc[d] \in {"notify", "part", "barrier", "closeNotify", "join"} => driverMu = d
  /\ driverMu = d =>
       dpc[d] \in {"notify", "part", "barrier", "closeNotify", "join", "inline"}
  /\ fn = d <=> Dispatching(d)
  /\ dpc[d] \in {"inline", "lock", "notify", "part", "barrier"} => call[d].n # 0
  /\ dpc[d] = "closedPool" => poolClosed

\* A worker has, or runs, its own sub-range of the current dispatch only.
WorkerOK(w) ==
  /\ HasWork(w) => wpc[w] = "wait" /\ fn # NoDriver /\ assigned[w] = PartOf(fn, w)
  /\ wpc[w] \in {"run", "failed", "finished"} =>
       fn # NoDriver /\ job[w] = [fn |-> fn, range |-> PartOf(fn, w)]
  /\ wpc[w] \in {"wait", "exited"} => job[w].fn = NoDriver
  /\ wpc[w] = "exited" => stop

\* outstanding_ counts the workers that owe their sub-range; nothing is owed
\* once the pool closed.
Counted == outstanding = Cardinality(Owing)
Stopped ==
  /\ stop => poolClosed \/ \E d \in Drivers : dpc[d] \in {"closeNotify", "join"}
  /\ poolClosed => fn = NoDriver /\ \A w \in PoolWorkers : wpc[w] = "exited"

\* The rows and failures of a call, at every point of it.
CallOK(d) ==
  /\ dpc[d] \in {"inline", "lock"} =>
       ~threw[d] /\ ~thrown[d] /\ \A r \in Rows : ran[d][r] = 0
  /\ Dispatching(d) =>
       /\ threw[d] <=> thrown[d] \/ failure \/ \E w \in PoolWorkers : wpc[w] = "failed"
       /\ dpc[d] # "barrier" => ~thrown[d]
       /\ \A r \in Rows :
            ran[d][r] = IF r < call[d].n /\ ~Left(d, r) THEN 1 ELSE 0
  /\ dpc[d] = "returned" =>
       /\ outcome[d] = "throws" <=> threw[d]
       /\ \A r \in Rows : ran[d][r] = IF r < call[d].n THEN 1 ELSE 0

GatherInv ==
  /\ Shape
  /\ \A d \in Drivers : DriverOK(d)
  /\ \A w \in PoolWorkers : WorkerOK(w)
  /\ Counted /\ Stopped
  /\ \A d \in Drivers : CallOK(d)

\* Nothing happened yet.
LEMMA GatherInitInv == GatherInit => GatherInv
<1> SUFFICES ASSUME GatherInit PROVE GatherInv
  OBVIOUS
<1>0. NoRange \in Ranges /\ MaxRows \in Nat
  BY GatherPoolConstants DEF NoRange, Ranges
<1>1. Shape
  <2>1. /\ assigned \in [PoolWorkers -> Ranges]
        /\ job \in [PoolWorkers -> [fn : Drivers \cup {NoDriver}, range : Ranges]]
    BY <1>0 DEF GatherInit
  <2>2. call \in [Drivers -> [n : 0 .. MaxRows, min : 0 .. MaxFloor]]
    BY GatherPoolConstants DEF GatherInit
  <2>3. ran \in [Drivers -> [Rows -> Nat]]
    BY DEF GatherInit
  <2>4. calls \in 0 .. MaxCalls
    BY GatherPoolConstants DEF GatherInit
  <2>5. /\ wpc \in [PoolWorkers -> WorkerPCs] /\ dpc \in [Drivers -> DriverPCs]
        /\ outcome \in [Drivers -> {"none", "ok", "throws"}]
        /\ thrown \in [Drivers -> BOOLEAN] /\ threw \in [Drivers -> BOOLEAN]
    BY DEF GatherInit, DriverPCs, WorkerPCs
  <2> QED BY <2>1, <2>2, <2>3, <2>4, <2>5 DEF GatherInit, Shape
<1>2. \A d \in Drivers : DriverOK(d) /\ CallOK(d)
  BY GatherPoolConstants DEF GatherInit, DriverOK, CallOK, Dispatching
<1>3. \A w \in PoolWorkers : WorkerOK(w) /\ ~Owes(w)
  BY DEF GatherInit, WorkerOK, Owes, HasWork, NoRange
<1>4. Counted
  <2>1. Owing = {}
    BY <1>3 DEF Owing
  <2> QED BY <2>1, FS_EmptySet DEF Counted, GatherInit
<1>5. QED
  BY <1>1, <1>2, <1>3, <1>4 DEF GatherInv, GatherInit, Stopped

\* What a step of one driver that leaves workers and calls alone keeps.
LEMMA DriverMoves ==
  ASSUME GatherInv, NEW d \in Drivers, NEW p \in DriverPCs, dpc' = [dpc EXCEPT ![d] = p],
         UNCHANGED <<assigned, fn, outstanding, failure, wpc, job, call, thrown, ran, threw>>,
         driverMu' \in Drivers \cup {NoDriver}, asleep' \subseteq Drivers \cup PoolWorkers,
         poolClosed' \in BOOLEAN, poolClosed => poolClosed', stop' \in BOOLEAN, stop => stop',
         outcome' \in [Drivers -> {"none", "ok", "throws"}], calls' \in 0 .. MaxCalls,
         \A e \in Drivers \ {d} : outcome'[e] = outcome[e] /\ (driverMu' = e <=> driverMu = e),
         DriverOK(d)', CallOK(d)', Stopped'
  PROVE  GatherInv'
<1>1. /\ Shape' /\ \A e \in Drivers \ {d} : dpc'[e] = dpc[e]
  BY DEF GatherInv, Shape
<1>2. ASSUME NEW e \in Drivers, e # d PROVE DriverOK(e)' /\ CallOK(e)'
  BY <1>1, <1>2 DEF GatherInv, DriverOK, CallOK, Dispatching, Left, HasWork, InPart, PartOf
<1>3. \A w \in PoolWorkers : WorkerOK(w)'
  BY DEF GatherInv, WorkerOK, HasWork, PartOf
<1>4. Owing' = Owing
  BY DEF Owing, Owes, HasWork
<1>5. QED
  BY <1>1, <1>2, <1>3, <1>4 DEF GatherInv, Counted

(***************************************************************************)
(* One lemma per action of a driver                                        *)
(***************************************************************************)
\* The flags of the pool and of the calls are Booleans.
LEMMA Booleans ==
  ASSUME Shape
  PROVE  /\ poolClosed \in BOOLEAN /\ stop \in BOOLEAN /\ failure \in BOOLEAN
         /\ \A d \in Drivers : thrown[d] \in BOOLEAN /\ threw[d] \in BOOLEAN
BY DEF Shape

\* parallelFor() picks the partition; a call of no row returns at once.
LEMMA ParallelForKeeps ==
  ASSUME GatherInv, NEW d \in Drivers, ParallelFor(d)
  PROVE  GatherInv'
<1>1. PICK n \in 0 .. MaxRows, min \in 0 .. MaxFloor :
        /\ call' = [call EXCEPT ![d] = [n |-> n, min |-> min]]
        /\ IF n = 0 THEN Return(d, FALSE)
           ELSE /\ Go(d, IF Rest(n, min) = {} THEN "inline" ELSE "lock")
                /\ outcome' = [outcome EXCEPT ![d] = "none"]
  BY DEF ParallelFor
<1>2. PICK p \in {"returned", "inline", "lock"} :
        /\ dpc' = [dpc EXCEPT ![d] = p]
        /\ n = 0 <=> p = "returned"
  BY <1>1 DEF Return, Go
<1>3. PICK o \in {"none", "ok"} :
        /\ outcome' = [outcome EXCEPT ![d] = o]
        /\ p = "returned" => o = "ok"
  BY <1>1, <1>2 DEF Return, Go
<1>4. /\ UNCHANGED <<sharedVars, asleep, workerVars>>
      /\ dpc[d] = "idle" /\ calls' \in 0 .. MaxCalls
      /\ ran' = [ran EXCEPT ![d] = [r \in Rows |-> 0]]
      /\ threw' = [threw EXCEPT ![d] = FALSE]
      /\ thrown' = [thrown EXCEPT ![d] = FALSE]
  BY GatherPoolConstants DEF ParallelFor, GatherInv, Shape
<1>5. Shape'
  <2>1. call' \in [Drivers -> [n : 0 .. MaxRows, min : 0 .. MaxFloor]]
    BY <1>1 DEF GatherInv, Shape
  <2>2. ran' \in [Drivers -> [Rows -> Nat]]
    BY <1>4 DEF GatherInv, Shape
  <2>3. /\ dpc' \in [Drivers -> DriverPCs]
        /\ outcome' \in [Drivers -> {"none", "ok", "throws"}]
        /\ thrown' \in [Drivers -> BOOLEAN] /\ threw' \in [Drivers -> BOOLEAN]
    BY <1>2, <1>3, <1>4 DEF GatherInv, Shape, DriverPCs
  <2> QED BY <1>4, <2>1, <2>2, <2>3 DEF GatherInv, Shape, sharedVars, workerVars
<1>6. \A e \in Drivers \ {d} :
        /\ dpc'[e] = dpc[e] /\ call'[e] = call[e] /\ ran'[e] = ran[e]
        /\ threw'[e] = threw[e] /\ thrown'[e] = thrown[e] /\ outcome'[e] = outcome[e]
  BY <1>1, <1>2, <1>3, <1>4 DEF GatherInv, Shape
<1>7. /\ dpc'[d] = p /\ call'[d].n = n /\ outcome'[d] = o
      /\ threw'[d] = FALSE /\ thrown'[d] = FALSE
      /\ \A r \in Rows : ran'[d][r] = 0
  BY <1>1, <1>2, <1>3, <1>4 DEF GatherInv, Shape
<1>8. ASSUME NEW e \in Drivers, e # d PROVE DriverOK(e)' /\ CallOK(e)'
  BY <1>4, <1>6, <1>8 DEF GatherInv, DriverOK, CallOK, Dispatching, Left, HasWork, InPart,
    PartOf, sharedVars, workerVars
<1>9. fn # d /\ driverMu # d
  BY <1>4 DEF GatherInv, DriverOK, Dispatching
<1>10. DriverOK(d)' /\ CallOK(d)'
  <2>1. \A r \in Rows : r \in Nat
    BY DEF Rows
  <2>2. n = 0 => \A r \in Rows : ~(r < n)
    BY <2>1
  <2> QED BY <1>2, <1>3, <1>4, <1>7, <1>9, <2>2 DEF DriverOK, CallOK, Dispatching, sharedVars
<1>11. \A w \in PoolWorkers : WorkerOK(w)'
  <2>1. fn # NoDriver => fn \in Drivers \ {d}
    BY <1>9 DEF GatherInv, Shape
  <2>2. UNCHANGED <<assigned, fn, stop, wpc, job>>
    BY <1>4 DEF sharedVars, workerVars
  <2>3. fn # NoDriver => \A w \in PoolWorkers : PartOf(fn, w)' = PartOf(fn, w)
    BY <1>6, <2>1, <2>2 DEF PartOf
  <2>4. \A w \in PoolWorkers : HasWork(w)' <=> HasWork(w)
    BY <2>2 DEF HasWork
  <2>5. \A w \in PoolWorkers : WorkerOK(w)
    BY DEF GatherInv
  <2> QED BY <2>2, <2>3, <2>4, <2>5 DEF WorkerOK
<1>12. Owing' = Owing
  BY <1>4 DEF Owing, Owes, HasWork, sharedVars, workerVars
<1>13. Stopped'
  BY <1>4, <1>6 DEF GatherInv, Stopped, sharedVars, workerVars
<1>14. QED
  BY <1>4, <1>5, <1>8, <1>10, <1>11, <1>12, <1>13 DEF GatherInv, Counted, sharedVars

\* The whole call on the calling thread.
LEMMA InlineKeeps ==
  ASSUME GatherInv, NEW d \in Drivers, Inline(d)
  PROVE  GatherInv'
<1>1. PICK bad \in BOOLEAN : Invoke(d, 0, call[d].n, bad) /\ Return(d, bad)
  BY DEF Inline
<1>2. /\ dpc[d] = "inline" /\ dpc' = [dpc EXCEPT ![d] = "returned"]
      /\ outcome' = [outcome EXCEPT ![d] = IF bad THEN "throws" ELSE "ok"]
      /\ threw' = [threw EXCEPT ![d] = @ \/ bad]
      /\ ran' = [ran EXCEPT ![d] = [r \in Rows |->
                   IF 0 <= r /\ r < call[d].n THEN @[r] + 1 ELSE @[r]]]
      /\ driverMu' = IF driverMu = d THEN NoDriver ELSE driverMu
      /\ UNCHANGED <<poolClosed, assigned, fn, outstanding, stop, failure, asleep,
                     workerVars, call, thrown, calls>>
  BY <1>1 DEF Inline, Invoke, Return, Go
<1>3. /\ threw[d] = FALSE /\ fn # d
      /\ \A r \in Rows : ran[d][r] = 0 /\ r \in Nat
  BY <1>2, Booleans DEF GatherInv, CallOK, DriverOK, Dispatching, Rows
<1>4. /\ dpc'[d] = "returned" /\ outcome'[d] = (IF bad THEN "throws" ELSE "ok")
      /\ threw'[d] = bad /\ driverMu' # d
      /\ \A r \in Rows : ran'[d][r] = IF r < call[d].n THEN 1 ELSE 0
  <2>1. dpc'[d] = "returned" /\ outcome'[d] = (IF bad THEN "throws" ELSE "ok")
    BY <1>2 DEF GatherInv, Shape
  <2>2. threw'[d] = bad
    BY <1>2, <1>3, Zenon DEF GatherInv, Shape
  <2>3. driverMu' # d
    BY <1>2, GatherPoolConstants
  <2>4. ran'[d] = [r \in Rows |-> IF 0 <= r /\ r < call[d].n THEN ran[d][r] + 1 ELSE ran[d][r]]
    BY <1>2 DEF GatherInv, Shape
  <2> QED BY <1>3, <2>1, <2>2, <2>3, <2>4
<1>5. Shape'
  <2>1. ran' \in [Drivers -> [Rows -> Nat]]
    <3>1. ran[d] \in [Rows -> Nat]
      BY DEF GatherInv, Shape
    <3>2. [r \in Rows |-> IF 0 <= r /\ r < call[d].n THEN ran[d][r] + 1 ELSE ran[d][r]]
            \in [Rows -> Nat]
      BY <3>1
    <3> QED BY <1>2, <3>2 DEF GatherInv, Shape
  <2>2. /\ dpc' \in [Drivers -> DriverPCs]
        /\ outcome' \in [Drivers -> {"none", "ok", "throws"}]
    BY <1>2 DEF GatherInv, Shape, DriverPCs
  <2>3. threw' \in [Drivers -> BOOLEAN]
    BY <1>2, Zenon DEF GatherInv, Shape
  <2>4. driverMu' \in Drivers \cup {NoDriver}
    BY <1>2 DEF GatherInv, Shape
  <2> QED BY <1>2, <2>1, <2>2, <2>3, <2>4 DEF GatherInv, Shape, workerVars
<1>6. \A e \in Drivers \ {d} :
        /\ dpc'[e] = dpc[e] /\ ran'[e] = ran[e] /\ threw'[e] = threw[e]
        /\ outcome'[e] = outcome[e] /\ (driverMu' = e <=> driverMu = e)
  BY <1>2, GatherPoolConstants DEF GatherInv, Shape
<1>7. ASSUME NEW e \in Drivers, e # d PROVE DriverOK(e)' /\ CallOK(e)'
  BY <1>2, <1>6, <1>7 DEF GatherInv, DriverOK, CallOK, Dispatching, Left, HasWork, InPart,
    PartOf, workerVars
<1>8. DriverOK(d)' /\ CallOK(d)'
  BY <1>2, <1>3, <1>4 DEF DriverOK, CallOK, Dispatching
<1>9. \A w \in PoolWorkers : WorkerOK(w)'
  BY <1>2 DEF GatherInv, WorkerOK, HasWork, PartOf, workerVars
<1>10. Owing' = Owing
  BY <1>2 DEF Owing, Owes, HasWork, workerVars
<1>11. Stopped'
  BY <1>2, <1>6 DEF GatherInv, Stopped, workerVars
<1>12. QED
  BY <1>2, <1>5, <1>7, <1>8, <1>9, <1>10, <1>11 DEF GatherInv, Counted

\* A dispatch starts when no worker owes anything and hands each worker its
\* sub-range; on a closed pool the call runs inline.
LEMMA DispatchKeeps ==
  ASSUME GatherInv, NEW d \in Drivers, Dispatch(d)
  PROVE  GatherInv'
<1>1. /\ dpc[d] = "lock" /\ driverMu = NoDriver /\ driverMu' = d
      /\ UNCHANGED <<poolClosed, stop, asleep, workerVars, call, thrown, outcome,
                     calls, ghostVars>>
  BY DEF Dispatch
<1>2. call[d].n \in 0 .. MaxRows /\ call[d].n # 0 /\ call[d].min \in Nat
  <2>1. call[d] \in [n : 0 .. MaxRows, min : 0 .. MaxFloor]
    BY DEF GatherInv, Shape
  <2> QED BY <1>1, <2>1, GatherPoolConstants DEF GatherInv, DriverOK
<1>3. \A e \in Drivers : ~Dispatching(e) /\ dpc[e] \notin {"closeNotify", "join"}
  BY <1>1, GatherPoolConstants DEF GatherInv, DriverOK, Dispatching
<1>4. fn = NoDriver
  BY <1>3 DEF GatherInv, DriverOK, Shape
<1>5. \A w \in PoolWorkers : ~HasWork(w) /\ wpc[w] \in {"wait", "exited"}
  <2>1. \A w \in PoolWorkers : WorkerOK(w) /\ wpc[w] \in WorkerPCs
    BY DEF GatherInv, Shape
  <2> QED BY <1>4, <2>1 DEF WorkerOK, WorkerPCs
<1>6. CASE poolClosed
  <2>1. dpc' = [dpc EXCEPT ![d] = "inline"] /\ UNCHANGED <<assigned, fn, outstanding, failure>>
    BY <1>6 DEF Dispatch, Go
  <2>2. dpc'[d] = "inline"
    BY <2>1 DEF GatherInv, Shape
  <2>3. DriverOK(d)'
    BY <1>1, <1>2, <1>3, <1>4, <2>1, <2>2, GatherPoolConstants DEF DriverOK, Dispatching
  <2>4. CallOK(d)'
    BY <1>1, <2>2 DEF GatherInv, CallOK, Dispatching, ghostVars
  <2>5. Stopped'
    BY <1>1, <1>6, <2>1 DEF GatherInv, Stopped, workerVars
  <2>6. \A e \in Drivers \ {d} : outcome'[e] = outcome[e] /\ (driverMu' = e <=> driverMu = e)
    BY <1>1, GatherPoolConstants
  <2>7. "inline" \in DriverPCs
    BY DEF DriverPCs
  <2>8. /\ driverMu' \in Drivers \cup {NoDriver} /\ asleep' \subseteq Drivers \cup PoolWorkers
        /\ outcome' \in [Drivers -> {"none", "ok", "throws"}] /\ calls' \in 0 .. MaxCalls
    BY <1>1 DEF GatherInv, Shape
  <2>9. /\ UNCHANGED <<assigned, fn, outstanding, failure, wpc, job, call, thrown, ran, threw>>
        /\ UNCHANGED <<poolClosed, stop>> /\ poolClosed' \in BOOLEAN /\ stop' \in BOOLEAN
    BY <1>1, <2>1, Booleans DEF GatherInv, workerVars, ghostVars
  <2> QED BY <2>1, <2>3, <2>4, <2>5, <2>6, <2>7, <2>8, <2>9, DriverMoves
<1>7. CASE ~poolClosed
  <2>1. /\ fn' = d /\ dpc' = [dpc EXCEPT ![d] = "notify"] /\ failure' = FALSE
        /\ assigned' = [w \in PoolWorkers |-> Part(call[d].n, call[d].min, w)]
        /\ outstanding' = Cardinality(Rest(call[d].n, call[d].min))
    BY <1>7 DEF Dispatch, Go
  <2>2. /\ dpc'[d] = "notify" /\ \A e \in Drivers \ {d} : dpc'[e] = dpc[e]
    BY <2>1 DEF GatherInv, Shape
  <2>3. \A w \in PoolWorkers : w \in Nat
    BY GatherPoolConstants DEF PoolWorkers
  <2>4. ~stop
    BY <1>3, <1>7, Booleans DEF GatherInv, Stopped
  <2>5. \A w \in PoolWorkers : wpc[w] = "wait"
    BY <1>5, <2>4 DEF GatherInv, WorkerOK
  <2>6. \A w \in PoolWorkers :
          /\ PartOf(d, w) \in Ranges
          /\ PartOf(d, w) # NoRange <=> PartOf(d, w).from < PartOf(d, w).to
    BY <1>2, <2>3, PartInside DEF PartOf, Ranges
  <2>7. /\ assigned' \in [PoolWorkers -> Ranges]
        /\ \A w \in PoolWorkers : assigned'[w] = PartOf(d, w)
    BY <2>1, <2>6 DEF PartOf
  <2>8. \A w \in PoolWorkers : HasWork(w)' <=> w \in Rest(call[d].n, call[d].min)
    BY <2>6, <2>7 DEF HasWork, Rest, PartOf
  <2>9. Owing' = Rest(call[d].n, call[d].min)
    <3>1. \A w \in PoolWorkers : Owes(w)' <=> w \in Rest(call[d].n, call[d].min)
      BY <1>1, <2>5, <2>8 DEF Owes, workerVars
    <3> QED BY <3>1 DEF Owing, Rest
  <2>10. Shape'
    <3>1. dpc' \in [Drivers -> DriverPCs]
      BY <2>1 DEF GatherInv, Shape, DriverPCs
    <3> QED BY <1>1, <2>1, <2>7, <3>1 DEF GatherInv, Shape, workerVars, ghostVars
  <2>11. ASSUME NEW e \in Drivers, e # d PROVE DriverOK(e)' /\ CallOK(e)'
    BY <1>1, <1>3, <2>1, <2>2, <2>11, GatherPoolConstants
    DEF GatherInv, DriverOK, CallOK, Dispatching, ghostVars
  <2>12. DriverOK(d)'
    BY <1>1, <1>2, <2>1, <2>2 DEF DriverOK, Dispatching
  <2>13. \A w \in PoolWorkers : WorkerOK(w)'
    <3>1. PartOf(d, 0)' = PartOf(d, 0) /\ \A w \in PoolWorkers : PartOf(d, w)' = PartOf(d, w)
      BY <1>1 DEF PartOf
    <3> QED BY <1>1, <2>1, <2>4, <2>5, <2>7, <3>1, GatherPoolConstants
        DEF GatherInv, WorkerOK, workerVars, PartOf
  <2>14. \A r \in Rows : r < call[d].n => Left(d, r)'
    <3> SUFFICES ASSUME NEW r \in Rows, r < call[d].n PROVE Left(d, r)'
      OBVIOUS
    <3>1. r \in Nat /\ call[d].n \in Nat \ {0}
      BY <1>2 DEF Rows
    <3>2. PICK p \in 0 .. PoolThreads - 1 : InRange(call[d].n, call[d].min, p, r)
      BY <1>2, <3>1, PartsTile
    <3>3. InPart(d, p, r)'
      BY <1>1, <3>2 DEF InPart, InRange, PartOf
    <3>4. CASE p = 0
      BY <2>2, <3>3, <3>4 DEF Left
    <3>5. CASE p # 0
      <4>1. p \in PoolWorkers
        BY <3>5, GatherPoolConstants DEF PoolWorkers
      <4>2. PartOf(d, p).from \in Nat /\ PartOf(d, p).to \in Nat
        BY <2>6, <4>1, GatherPoolConstants DEF Ranges
      <4>3. HasWork(p)'
        BY <1>1, <2>7, <3>1, <3>3, <4>1, <4>2 DEF HasWork, InPart, PartOf
      <4> QED BY <3>3, <4>1, <4>3 DEF Left
    <3> QED BY <3>4, <3>5
  <2>15. CallOK(d)'
    <3>1. ~threw[d] /\ ~thrown[d] /\ \A r \in Rows : ran[d][r] = 0
      BY <1>1 DEF GatherInv, CallOK
    <3> QED BY <1>1, <2>1, <2>2, <2>5, <2>14, <3>1 DEF CallOK, Dispatching, ghostVars, workerVars
  <2>16. Stopped' /\ Counted'
    BY <1>1, <1>7, <2>1, <2>4, <2>9 DEF Stopped, Counted
  <2> QED BY <2>10, <2>11, <2>12, <2>13, <2>15, <2>16 DEF GatherInv
<1>8. QED
  BY <1>6, <1>7

\* What a step of one driver keeps when only its own pc and the set of
\* sleeping threads change.
LEMMA DriverGoes ==
  ASSUME GatherInv, NEW d \in Drivers, NEW p \in DriverPCs, dpc' = [dpc EXCEPT ![d] = p],
         UNCHANGED <<sharedVars, workerVars, call, thrown, outcome, calls, ghostVars>>,
         asleep' \subseteq Drivers \cup PoolWorkers,
         DriverOK(d)', CallOK(d)', Stopped'
  PROVE  GatherInv'
<1>1. /\ driverMu' \in Drivers \cup {NoDriver} /\ calls' \in 0 .. MaxCalls
      /\ outcome' \in [Drivers -> {"none", "ok", "throws"}]
      /\ \A e \in Drivers \ {d} : outcome'[e] = outcome[e] /\ (driverMu' = e <=> driverMu = e)
  BY DEF GatherInv, Shape, sharedVars
<1>2. /\ UNCHANGED <<assigned, fn, outstanding, failure, wpc, job, call, thrown, ran, threw>>
      /\ UNCHANGED <<poolClosed, stop>> /\ poolClosed' \in BOOLEAN /\ stop' \in BOOLEAN
  BY Booleans DEF GatherInv, sharedVars, workerVars, ghostVars
<1>3. QED
  BY <1>1, <1>2, DriverMoves

\* The workers are notified of the dispatch.
LEMMA NotifyKeeps ==
  ASSUME GatherInv, NEW d \in Drivers, Notify(d)
  PROVE  GatherInv'
<1>1. /\ dpc[d] = "notify" /\ dpc' = [dpc EXCEPT ![d] = "part"]
      /\ asleep' = asleep \ PoolWorkers
      /\ UNCHANGED <<sharedVars, workerVars, call, thrown, outcome, calls, ghostVars>>
  BY DEF Notify, Go
<1>2. dpc'[d] = "part" /\ \A e \in Drivers \ {d} : dpc'[e] = dpc[e]
  BY <1>1 DEF GatherInv, Shape
<1>3. DriverOK(d)'
  BY <1>1, <1>2 DEF GatherInv, DriverOK, Dispatching, sharedVars
<1>4. \A r \in Rows : Left(d, r)' <=> Left(d, r)
  BY <1>1, <1>2 DEF Left, InPart, PartOf, HasWork, sharedVars, workerVars
<1>5. CallOK(d)'
  BY <1>1, <1>2, <1>4 DEF GatherInv, CallOK, Dispatching, sharedVars, workerVars, ghostVars
<1>6. Stopped'
  BY <1>1, <1>2 DEF GatherInv, Stopped, sharedVars, workerVars
<1>7. asleep' \subseteq Drivers \cup PoolWorkers /\ "part" \in DriverPCs
  BY <1>1 DEF GatherInv, Shape, DriverPCs
<1>8. QED
  BY <1>1, <1>3, <1>5, <1>6, <1>7, DriverGoes

\* The calling thread runs sub-range 0; no worker holds a row of it.
LEMMA InlinePartKeeps ==
  ASSUME GatherInv, NEW d \in Drivers, InlinePart(d)
  PROVE  GatherInv'
<1>1. PICK bad \in BOOLEAN :
        /\ Invoke(d, 0, Part(call[d].n, call[d].min, 0).to, bad)
        /\ thrown' = [thrown EXCEPT ![d] = bad]
  BY DEF InlinePart
<1> DEFINE part == PartOf(d, 0)
<1>2. /\ dpc[d] = "part" /\ dpc' = [dpc EXCEPT ![d] = "barrier"]
      /\ threw' = [threw EXCEPT ![d] = @ \/ bad]
      /\ thrown' = [thrown EXCEPT ![d] = bad]
      /\ ran' = [ran EXCEPT ![d] = [r \in Rows |->
                   IF 0 <= r /\ r < part.to THEN @[r] + 1 ELSE @[r]]]
      /\ UNCHANGED <<sharedVars, asleep, workerVars, call, outcome, calls>>
  BY <1>1 DEF InlinePart, Invoke, Go, PartOf
<1>3. call[d].n \in 0 .. MaxRows /\ call[d].n # 0 /\ call[d].n \in Nat \ {0} /\ call[d].min \in Nat
  <2>1. call[d] \in [n : 0 .. MaxRows, min : 0 .. MaxFloor]
    BY DEF GatherInv, Shape
  <2> QED BY <1>2, <2>1, GatherPoolConstants DEF GatherInv, DriverOK
<1>4. part.from = 0 /\ part.to \in Nat /\ part.to <= call[d].n
  <2>1. /\ part \in [from : 0 .. MaxRows, to : 0 .. MaxRows]
        /\ part.to <= call[d].n /\ part.from = 0
    BY <1>3, PartInside DEF PartOf
  <2> HIDE DEF part
  <2> QED BY <2>1, GatherPoolConstants
<1>5. \A r \in Rows : r \in Nat
  BY DEF Rows
<1>6. \A r \in Rows, w \in PoolWorkers : InPart(d, 0, r) => ~InPart(d, w, r)
  <2> SUFFICES ASSUME NEW r \in Rows, NEW w \in PoolWorkers PROVE ~(InPart(d, 0, r) /\ InPart(d, w, r))
    OBVIOUS
  <2>1. w \in Nat /\ 0 < w
    BY GatherPoolConstants DEF PoolWorkers
  <2>2. ~(InRange(call[d].n, call[d].min, 0, r) /\ InRange(call[d].n, call[d].min, w, r))
    BY <1>3, <1>5, <2>1, PartsDisjoint
  <2> QED BY <2>2 DEF InPart, InRange, PartOf
<1> DEFINE After == [r \in Rows |-> IF 0 <= r /\ r < part.to THEN ran[d][r] + 1 ELSE ran[d][r]]
<1>7. ran'[d] = After /\ ran[d] \in [Rows -> Nat]
  BY <1>2 DEF GatherInv, Shape
<1>8. /\ dpc'[d] = "barrier" /\ thrown'[d] = bad
      /\ \A e \in Drivers \ {d} : /\ dpc'[e] = dpc[e] /\ thrown'[e] = thrown[e]
                                  /\ threw'[e] = threw[e] /\ ran'[e] = ran[e]
  BY <1>2 DEF GatherInv, Shape
<1>9. Shape'
  <2>1. After \in [Rows -> Nat]
    BY <1>7
  <2>2. ran' \in [Drivers -> [Rows -> Nat]]
    <3> HIDE DEF After
    <3> QED BY <1>2, <2>1 DEF GatherInv, Shape, After
  <2>3. threw' \in [Drivers -> BOOLEAN]
    BY <1>2, Zenon DEF GatherInv, Shape
  <2>4. dpc' \in [Drivers -> DriverPCs] /\ thrown' \in [Drivers -> BOOLEAN]
    BY <1>2 DEF GatherInv, Shape, DriverPCs
  <2> QED BY <1>2, <2>2, <2>3, <2>4 DEF GatherInv, Shape, sharedVars, workerVars
<1>10. ASSUME NEW e \in Drivers, e # d PROVE DriverOK(e)' /\ CallOK(e)'
  BY <1>2, <1>8, <1>10 DEF GatherInv, DriverOK, CallOK, Dispatching, Left, HasWork, InPart,
    PartOf, sharedVars, workerVars
<1>11. DriverOK(d)'
  BY <1>2, <1>8 DEF GatherInv, DriverOK, Dispatching, sharedVars
<1>12. \A r \in Rows : Left(d, r)' <=> Left(d, r) /\ ~InPart(d, 0, r)
  <2> SUFFICES ASSUME NEW r \in Rows PROVE Left(d, r)' <=> Left(d, r) /\ ~InPart(d, 0, r)
    OBVIOUS
  <2>1. \A w \in PoolWorkers : (HasWork(w)' <=> HasWork(w)) /\ (InPart(d, w, r)' <=> InPart(d, w, r))
    BY <1>2 DEF HasWork, InPart, PartOf, sharedVars
  <2> QED BY <1>2, <1>6, <1>8, <2>1 DEF Left, workerVars
<1>13. \A r \in Rows : ran'[d][r] = IF r < call'[d].n /\ ~Left(d, r)' THEN 1 ELSE 0
  <2> SUFFICES ASSUME NEW r \in Rows
               PROVE ran'[d][r] = IF r < call'[d].n /\ ~Left(d, r)' THEN 1 ELSE 0
    OBVIOUS
  <2>1. ran[d][r] = IF r < call[d].n /\ ~Left(d, r) THEN 1 ELSE 0
    BY <1>2 DEF GatherInv, CallOK, Dispatching
  <2>2. InPart(d, 0, r) <=> r < part.to
    BY <1>4, <1>5 DEF InPart
  <2>3. InPart(d, 0, r) => Left(d, r) /\ r < call[d].n
    BY <1>2, <1>3, <1>4, <1>5, <2>2 DEF Left
  <2>4. ran'[d][r] = IF r < part.to THEN ran[d][r] + 1 ELSE ran[d][r]
    BY <1>5, <1>7
  <2> HIDE DEF part
  <2> QED BY <1>2, <1>12, <2>1, <2>2, <2>3, <2>4
<1>14. threw'[d] <=> thrown'[d] \/ failure' \/ \E w \in PoolWorkers : wpc'[w] = "failed"
  <2>1. threw'[d] <=> threw[d] \/ bad
    BY <1>2, Zenon DEF GatherInv, Shape
  <2>2. threw[d] <=> thrown[d] \/ failure \/ \E w \in PoolWorkers : wpc[w] = "failed"
    BY <1>2 DEF GatherInv, CallOK, Dispatching
  <2>3. ~thrown[d]
    BY <1>2 DEF GatherInv, CallOK, Dispatching
  <2>4. failure' = failure /\ wpc' = wpc
    BY <1>2 DEF sharedVars, workerVars
  <2> QED BY <1>8, <2>1, <2>2, <2>3, <2>4, Zenon
<1>15. CallOK(d)'
  BY <1>8, <1>13, <1>14 DEF CallOK, Dispatching
<1>16. \A w \in PoolWorkers : WorkerOK(w)'
  BY <1>2 DEF GatherInv, WorkerOK, HasWork, PartOf, sharedVars, workerVars
<1>17. Owing' = Owing
  BY <1>2 DEF Owing, Owes, HasWork, sharedVars, workerVars
<1>18. Stopped'
  BY <1>2, <1>8 DEF GatherInv, Stopped, sharedVars, workerVars
<1>19. QED
  BY <1>2, <1>9, <1>10, <1>11, <1>15, <1>16, <1>17, <1>18 DEF GatherInv, Counted, sharedVars

\* The driver sleeps at the barrier.
LEMMA BarrierSleepKeeps ==
  ASSUME GatherInv, NEW d \in Drivers, BarrierSleep(d)
  PROVE  GatherInv'
<1>1. /\ asleep' = asleep \cup {d}
      /\ UNCHANGED <<sharedVars, workerVars, driverVars, ghostVars>>
  BY DEF BarrierSleep
<1>2. dpc' = [dpc EXCEPT ![d] = dpc[d]] /\ dpc[d] \in DriverPCs
  BY <1>1 DEF GatherInv, Shape, driverVars
<1>3. DriverOK(d)' /\ CallOK(d)' /\ Stopped'
  BY <1>1 DEF GatherInv, DriverOK, CallOK, Stopped, Dispatching, Left, HasWork, InPart, PartOf,
    sharedVars, workerVars, driverVars, ghostVars
<1>4. /\ asleep' \subseteq Drivers \cup PoolWorkers
      /\ UNCHANGED <<sharedVars, workerVars, call, thrown, outcome, calls, ghostVars>>
  BY <1>1 DEF GatherInv, Shape, driverVars
<1>5. QED
  BY <1>2, <1>3, <1>4, DriverGoes

\* The barrier opens: the count is zero, so no worker owes a row.
LEMMA BarrierKeeps ==
  ASSUME GatherInv, NEW d \in Drivers, Barrier(d)
  PROVE  GatherInv'
<1> DEFINE bad == thrown[d] \/ failure
<1>1. /\ dpc[d] = "barrier" /\ outstanding = 0
      /\ dpc' = [dpc EXCEPT ![d] = "returned"]
      /\ outcome' = [outcome EXCEPT ![d] = IF bad THEN "throws" ELSE "ok"]
      /\ fn' = NoDriver /\ failure' = FALSE /\ driverMu' = NoDriver
      /\ UNCHANGED <<poolClosed, assigned, outstanding, stop, asleep, workerVars,
                     call, thrown, calls, ghostVars>>
  BY DEF Barrier, Return, Go
<1>2. Owing = {}
  <2>1. IsFiniteSet(PoolWorkers)
    BY GatherPoolConstants, FS_Interval DEF PoolWorkers
  <2>2. IsFiniteSet(Owing)
    BY <2>1, FS_Subset DEF Owing
  <2> QED BY <1>1, <2>2, FS_EmptySet DEF GatherInv, Counted
<1>3. \A w \in PoolWorkers : ~HasWork(w) /\ wpc[w] \in {"wait", "exited"}
  BY <1>2 DEF Owing, Owes, GatherInv, Shape, WorkerPCs
<1>4. /\ dpc'[d] = "returned" /\ outcome'[d] = (IF bad THEN "throws" ELSE "ok")
      /\ \A e \in Drivers \ {d} : dpc'[e] = dpc[e] /\ outcome'[e] = outcome[e]
  BY <1>1 DEF GatherInv, Shape
<1>5. Shape'
  <2>1. /\ dpc' \in [Drivers -> DriverPCs]
        /\ outcome' \in [Drivers -> {"none", "ok", "throws"}]
    BY <1>1 DEF GatherInv, Shape, DriverPCs
  <2> QED BY <1>1, <2>1 DEF GatherInv, Shape, workerVars, ghostVars
<1>6. fn = d /\ driverMu = d
  BY <1>1 DEF GatherInv, DriverOK, Dispatching
<1>7. ASSUME NEW e \in Drivers, e # d PROVE DriverOK(e)' /\ CallOK(e)'
  <2>1. ~Dispatching(e) /\ driverMu # e
    BY <1>6, <1>7 DEF GatherInv, DriverOK
  <2> QED BY <1>1, <1>4, <1>7, <2>1, GatherPoolConstants
      DEF GatherInv, DriverOK, CallOK, Dispatching, ghostVars
<1>8. DriverOK(d)'
  BY <1>1, <1>4, GatherPoolConstants DEF DriverOK, Dispatching
<1>9. CallOK(d)'
  <2>1. \A r \in Rows : ~Left(d, r)
    BY <1>1, <1>3 DEF Left
  <2>2. threw[d] <=> bad
    BY <1>1, <1>3 DEF GatherInv, CallOK, Dispatching
  <2>3. \A r \in Rows : ran[d][r] = IF r < call[d].n THEN 1 ELSE 0
    BY <1>1, <2>1 DEF GatherInv, CallOK, Dispatching
  <2> QED BY <1>1, <1>4, <2>2, <2>3 DEF CallOK, Dispatching, ghostVars
<1>10. \A w \in PoolWorkers : WorkerOK(w)'
  <2>1. \A w \in PoolWorkers : HasWork(w)' <=> HasWork(w)
    BY <1>1 DEF HasWork
  <2> QED BY <1>1, <1>3, <2>1 DEF GatherInv, WorkerOK, workerVars
<1>11. Owing' = Owing
  BY <1>1 DEF Owing, Owes, HasWork, workerVars
<1>12. Stopped'
  BY <1>1, <1>4 DEF GatherInv, Stopped, workerVars
<1>13. QED
  BY <1>1, <1>5, <1>7, <1>8, <1>9, <1>10, <1>11, <1>12 DEF GatherInv, Counted

\* The call is over and its driver may start another.
LEMMA LeaveKeeps ==
  ASSUME GatherInv, NEW d \in Drivers, Leave(d) \/ CloseLeave(d)
  PROVE  GatherInv'
<1>1. /\ dpc[d] \in {"returned", "closedPool"} /\ dpc' = [dpc EXCEPT ![d] = "idle"]
      /\ UNCHANGED <<sharedVars, asleep, workerVars, call, thrown, outcome, calls, ghostVars>>
  BY DEF Leave, CloseLeave, Go
<1>2. dpc'[d] = "idle" /\ \A e \in Drivers \ {d} : dpc'[e] = dpc[e]
  BY <1>1 DEF GatherInv, Shape
<1>3. DriverOK(d)' /\ CallOK(d)'
  BY <1>1, <1>2 DEF GatherInv, DriverOK, CallOK, Dispatching, sharedVars
<1>4. Stopped'
  BY <1>1, <1>2 DEF GatherInv, Stopped, sharedVars, workerVars
<1>5. asleep' \subseteq Drivers \cup PoolWorkers /\ "idle" \in DriverPCs
  BY <1>1 DEF GatherInv, Shape, DriverPCs
<1>6. QED
  BY <1>1, <1>3, <1>4, <1>5, DriverGoes

(***************************************************************************)
(* close                                                                   *)
(***************************************************************************)
\* A driver asks to close the pool.
LEMMA CloseKeeps ==
  ASSUME GatherInv, NEW d \in Drivers, Close(d)
  PROVE  GatherInv'
<1>1. /\ dpc[d] = "idle" /\ dpc' = [dpc EXCEPT ![d] = "close"]
      /\ outcome' = [outcome EXCEPT ![d] = "none"]
      /\ calls' \in 0 .. MaxCalls
      /\ UNCHANGED <<sharedVars, asleep, workerVars, call, thrown, ghostVars>>
  BY GatherPoolConstants DEF Close, Go, GatherInv, Shape
<1>2. dpc'[d] = "close" /\ \A e \in Drivers \ {d} : dpc'[e] = dpc[e] /\ outcome'[e] = outcome[e]
  BY <1>1 DEF GatherInv, Shape
<1>3. DriverOK(d)' /\ CallOK(d)'
  BY <1>1, <1>2 DEF GatherInv, DriverOK, CallOK, Dispatching, sharedVars
<1>4. Stopped'
  BY <1>1, <1>2 DEF GatherInv, Stopped, sharedVars, workerVars
<1>5. /\ "close" \in DriverPCs /\ asleep' \subseteq Drivers \cup PoolWorkers
      /\ driverMu' \in Drivers \cup {NoDriver}
      /\ outcome' \in [Drivers -> {"none", "ok", "throws"}]
      /\ \A e \in Drivers \ {d} : outcome'[e] = outcome[e] /\ (driverMu' = e <=> driverMu = e)
  BY <1>1, <1>2 DEF GatherInv, Shape, DriverPCs, sharedVars
<1>6. /\ UNCHANGED <<assigned, fn, outstanding, failure, wpc, job, call, thrown, ran, threw>>
      /\ UNCHANGED <<poolClosed, stop>> /\ poolClosed' \in BOOLEAN /\ stop' \in BOOLEAN
  BY <1>1, Booleans DEF GatherInv, sharedVars, workerVars, ghostVars
<1>7. QED
  BY <1>1, <1>3, <1>4, <1>5, <1>6, DriverMoves

\* Under driverMu, close() tells the workers to stop, unless it was done.
LEMMA CloseStopKeeps ==
  ASSUME GatherInv, NEW d \in Drivers, CloseStop(d)
  PROVE  GatherInv'
<1>1. /\ dpc[d] = "close" /\ driverMu = NoDriver
      /\ UNCHANGED <<poolClosed, assigned, fn, outstanding, failure, asleep,
                     workerVars, call, thrown, outcome, calls, ghostVars>>
  BY DEF CloseStop
<1>2. /\ asleep' \subseteq Drivers \cup PoolWorkers /\ calls' \in 0 .. MaxCalls
      /\ outcome' \in [Drivers -> {"none", "ok", "throws"}]
      /\ \A e \in Drivers \ {d} : outcome'[e] = outcome[e]
  BY <1>1 DEF GatherInv, Shape
<1>3. /\ UNCHANGED <<assigned, fn, outstanding, failure, wpc, job, call, thrown, ran, threw>>
      /\ UNCHANGED poolClosed /\ poolClosed' \in BOOLEAN
  BY <1>1, Booleans DEF GatherInv, workerVars, ghostVars
<1>4. CASE poolClosed
  <2>1. dpc' = [dpc EXCEPT ![d] = "closedPool"] /\ UNCHANGED <<driverMu, stop>>
    BY <1>4 DEF CloseStop, Go
  <2>2. dpc'[d] = "closedPool" /\ "closedPool" \in DriverPCs
    BY <2>1 DEF GatherInv, Shape, DriverPCs
  <2>3. DriverOK(d)' /\ CallOK(d)' /\ Stopped'
    BY <1>1, <1>3, <1>4, <2>1, <2>2
    DEF GatherInv, DriverOK, CallOK, Dispatching, Stopped
  <2>4. /\ stop' \in BOOLEAN /\ driverMu' \in Drivers \cup {NoDriver}
        /\ \A e \in Drivers \ {d} : outcome'[e] = outcome[e] /\ (driverMu' = e <=> driverMu = e)
    BY <1>2, <2>1, Booleans DEF GatherInv, Shape
  <2> QED BY <1>2, <1>3, <2>1, <2>2, <2>3, <2>4, DriverMoves
<1>5. CASE ~poolClosed
  <2>1. dpc' = [dpc EXCEPT ![d] = "closeNotify"] /\ driverMu' = d /\ stop' = TRUE
    BY <1>5 DEF CloseStop, Go
  <2>2. dpc'[d] = "closeNotify" /\ "closeNotify" \in DriverPCs
    BY <2>1 DEF GatherInv, Shape, DriverPCs
  <2>3. DriverOK(d)' /\ CallOK(d)' /\ Stopped'
    BY <1>1, <1>3, <1>5, <2>1, <2>2
    DEF GatherInv, DriverOK, CallOK, Dispatching, Stopped
  <2>4. /\ stop' \in BOOLEAN /\ driverMu' \in Drivers \cup {NoDriver} /\ (stop => stop')
        /\ \A e \in Drivers \ {d} : outcome'[e] = outcome[e] /\ (driverMu' = e <=> driverMu = e)
    BY <1>1, <1>2, <2>1, GatherPoolConstants
  <2> QED BY <1>2, <1>3, <2>1, <2>2, <2>3, <2>4, DriverMoves
<1>6. QED
  BY <1>4, <1>5

\* The workers are notified of the stop.
LEMMA CloseNotifyKeeps ==
  ASSUME GatherInv, NEW d \in Drivers, CloseNotify(d)
  PROVE  GatherInv'
<1>1. /\ dpc[d] = "closeNotify" /\ dpc' = [dpc EXCEPT ![d] = "join"]
      /\ asleep' = asleep \ PoolWorkers
      /\ UNCHANGED <<sharedVars, workerVars, call, thrown, outcome, calls, ghostVars>>
  BY DEF CloseNotify, Go
<1>2. dpc'[d] = "join" /\ \A e \in Drivers \ {d} : dpc'[e] = dpc[e]
  BY <1>1 DEF GatherInv, Shape
<1>3. DriverOK(d)' /\ CallOK(d)' /\ Stopped'
  BY <1>1, <1>2 DEF GatherInv, DriverOK, CallOK, Dispatching, Stopped, sharedVars, workerVars
<1>4. asleep' \subseteq Drivers \cup PoolWorkers /\ "join" \in DriverPCs
  BY <1>1 DEF GatherInv, Shape, DriverPCs
<1>5. QED
  BY <1>1, <1>3, <1>4, DriverGoes

\* Every worker exited, none owes a row: the pool is closed.
LEMMA CloseJoinKeeps ==
  ASSUME GatherInv, NEW d \in Drivers, CloseJoin(d)
  PROVE  GatherInv'
<1>1. /\ dpc[d] = "join" /\ \A w \in PoolWorkers : wpc[w] = "exited"
      /\ poolClosed' = TRUE /\ driverMu' = NoDriver /\ dpc' = [dpc EXCEPT ![d] = "closedPool"]
      /\ UNCHANGED <<assigned, fn, outstanding, stop, failure, asleep, workerVars,
                     call, thrown, outcome, calls, ghostVars>>
  BY DEF CloseJoin, Go
<1>2. /\ asleep' \subseteq Drivers \cup PoolWorkers /\ calls' \in 0 .. MaxCalls
      /\ outcome' \in [Drivers -> {"none", "ok", "throws"}]
      /\ dpc'[d] = "closedPool" /\ "closedPool" \in DriverPCs
  BY <1>1 DEF GatherInv, Shape, DriverPCs
<1>3. /\ driverMu = d /\ fn = NoDriver
  BY <1>1 DEF GatherInv, Shape, DriverOK, Dispatching
<1>4. \A e \in Drivers \ {d} : outcome'[e] = outcome[e] /\ (driverMu' = e <=> driverMu = e)
  BY <1>1, <1>3, GatherPoolConstants
<1>5. DriverOK(d)' /\ CallOK(d)' /\ Stopped'
  BY <1>1, <1>2, <1>3, GatherPoolConstants
  DEF DriverOK, CallOK, Dispatching, Stopped, workerVars
<1>6. /\ UNCHANGED <<assigned, fn, outstanding, failure, wpc, job, call, thrown, ran, threw>>
      /\ UNCHANGED stop /\ poolClosed' \in BOOLEAN /\ (poolClosed => poolClosed')
      /\ stop' \in BOOLEAN
      /\ driverMu' \in Drivers \cup {NoDriver}
  BY <1>1, Booleans DEF GatherInv, workerVars, ghostVars
<1>7. QED
  <2>1. stop => stop'
    BY <1>6
  <2> QED BY <1>1, <1>2, <1>4, <1>5, <1>6, <2>1, DriverMoves

(***************************************************************************)
(* One lemma per action of a worker                                        *)
(***************************************************************************)
\* What a worker holds is a driver's call and its own sub-range of it.
LEMMA RunsPart ==
  ASSUME GatherInv, NEW w \in PoolWorkers, wpc[w] \in {"run", "failed", "finished"}
  PROVE  /\ fn \in Drivers /\ dpc[fn] \in {"notify", "part", "barrier"}
         /\ job[w].fn = fn /\ job[w].range = PartOf(fn, w)
         /\ call[fn].n \in 0 .. MaxRows /\ call[fn].n # 0 /\ call[fn].min \in Nat
<1>1. fn # NoDriver /\ job[w] = [fn |-> fn, range |-> PartOf(fn, w)]
  BY DEF GatherInv, WorkerOK
<1>2. fn \in Drivers /\ dpc[fn] \in {"notify", "part", "barrier"}
  BY <1>1 DEF GatherInv, Shape, DriverOK, Dispatching
<1>3. call[fn].n # 0
  BY <1>2 DEF GatherInv, DriverOK
<1>4. call[fn] \in [n : 0 .. MaxRows, min : 0 .. MaxFloor]
  BY <1>2 DEF GatherInv, Shape
<1>5. QED
  BY <1>1, <1>2, <1>3, <1>4, GatherPoolConstants

\* A worker without work sleeps.
LEMMA WorkerSleepKeeps ==
  ASSUME GatherInv, NEW w \in PoolWorkers, WorkerSleep(w)
  PROVE  GatherInv'
<1>1. /\ asleep' = asleep \cup {w}
      /\ UNCHANGED <<sharedVars, workerVars, driverVars, ghostVars>>
  BY DEF WorkerSleep
<1>2. Shape'
  BY <1>1 DEF GatherInv, Shape, sharedVars, workerVars, driverVars, ghostVars
<1>3. \A d \in Drivers : DriverOK(d)' /\ CallOK(d)'
  BY <1>1 DEF GatherInv, DriverOK, CallOK, Dispatching, Left, HasWork, InPart, PartOf,
    sharedVars, workerVars, driverVars, ghostVars
<1>4. \A v \in PoolWorkers : WorkerOK(v)'
  BY <1>1 DEF GatherInv, WorkerOK, HasWork, PartOf, sharedVars, workerVars, driverVars
<1>5. Owing' = Owing
  BY <1>1 DEF Owing, Owes, HasWork, sharedVars, workerVars
<1>6. Stopped'
  BY <1>1 DEF GatherInv, Stopped, sharedVars, workerVars, driverVars
<1>7. QED
  BY <1>1, <1>2, <1>3, <1>4, <1>5, <1>6 DEF GatherInv, Counted, sharedVars

\* A worker leaves only when it owes nothing.
LEMMA WorkerExitKeeps ==
  ASSUME GatherInv, NEW w \in PoolWorkers, WorkerExit(w)
  PROVE  GatherInv'
<1>1. /\ wpc[w] = "wait" /\ stop /\ ~HasWork(w)
      /\ wpc' = [wpc EXCEPT ![w] = "exited"]
      /\ UNCHANGED <<sharedVars, asleep, job, driverVars, ghostVars>>
  BY DEF WorkerExit
<1>2. wpc'[w] = "exited" /\ \A v \in PoolWorkers \ {w} : wpc'[v] = wpc[v]
  BY <1>1 DEF GatherInv, Shape
<1>3. Shape'
  <2>1. wpc' \in [PoolWorkers -> WorkerPCs]
    BY <1>1 DEF GatherInv, Shape, WorkerPCs
  <2> QED BY <1>1, <2>1 DEF GatherInv, Shape, sharedVars, driverVars, ghostVars
<1>4. \A d \in Drivers : DriverOK(d)'
  BY <1>1 DEF GatherInv, DriverOK, Dispatching, sharedVars, driverVars
<1>5. \A v \in PoolWorkers : HasWork(v)' <=> HasWork(v)
  BY <1>1 DEF HasWork, sharedVars
<1>6. ASSUME NEW d \in Drivers PROVE CallOK(d)'
  <2>1. \A r \in Rows : Left(d, r)' <=> Left(d, r)
    BY <1>1, <1>2, <1>5 DEF Left, InPart, PartOf, driverVars
  <2>2. \A v \in PoolWorkers : wpc'[v] = "failed" <=> wpc[v] = "failed"
    BY <1>1, <1>2
  <2> QED BY <1>1, <2>1, <2>2 DEF GatherInv, CallOK, Dispatching, sharedVars, driverVars, ghostVars
<1>7. \A v \in PoolWorkers : WorkerOK(v)'
  <2>1. \A v \in PoolWorkers : PartOf(fn, v)' = PartOf(fn, v)
    BY <1>1 DEF PartOf, sharedVars, driverVars
  <2> QED BY <1>1, <1>2, <1>5, <2>1 DEF GatherInv, WorkerOK, sharedVars
<1>8. Owing' = Owing
  BY <1>1, <1>2, <1>5 DEF Owing, Owes
<1>9. Stopped'
  BY <1>1, <1>2 DEF GatherInv, Stopped, sharedVars, driverVars
<1>10. QED
  BY <1>1, <1>3, <1>4, <1>6, <1>7, <1>8, <1>9 DEF GatherInv, Counted, sharedVars

\* A worker takes the sub-range assigned to it and the callback of the call.
LEMMA WorkerTakeKeeps ==
  ASSUME GatherInv, NEW w \in PoolWorkers, WorkerTake(w)
  PROVE  GatherInv'
<1>1. /\ wpc[w] = "wait" /\ HasWork(w)
      /\ job' = [job EXCEPT ![w] = [fn |-> fn, range |-> assigned[w]]]
      /\ assigned' = [assigned EXCEPT ![w] = NoRange]
      /\ wpc' = [wpc EXCEPT ![w] = "run"]
      /\ UNCHANGED <<driverMu, poolClosed, fn, outstanding, stop, failure, asleep,
                     driverVars, ghostVars>>
  BY DEF WorkerTake
<1>2. /\ wpc'[w] = "run" /\ assigned'[w] = NoRange
      /\ job'[w] = [fn |-> fn, range |-> assigned[w]]
      /\ \A v \in PoolWorkers \ {w} :
           wpc'[v] = wpc[v] /\ assigned'[v] = assigned[v] /\ job'[v] = job[v]
  BY <1>1 DEF GatherInv, Shape
<1>3. fn # NoDriver /\ assigned[w] = PartOf(fn, w)
  BY <1>1 DEF GatherInv, WorkerOK
<1>4. Shape'
  <2>1. NoRange \in Ranges
    BY GatherPoolConstants DEF NoRange, Ranges
  <2>2. /\ wpc' \in [PoolWorkers -> WorkerPCs] /\ assigned' \in [PoolWorkers -> Ranges]
    BY <1>1, <2>1 DEF GatherInv, Shape, WorkerPCs
  <2>3. job' \in [PoolWorkers -> [fn : Drivers \cup {NoDriver}, range : Ranges]]
    BY <1>1 DEF GatherInv, Shape
  <2> QED BY <1>1, <2>2, <2>3 DEF GatherInv, Shape, driverVars, ghostVars
<1>5. \A d \in Drivers : DriverOK(d)'
  BY <1>1 DEF GatherInv, DriverOK, Dispatching, driverVars
<1>6. \A v \in PoolWorkers : HasWork(v)' <=> HasWork(v) /\ v # w
  BY <1>2 DEF HasWork, NoRange
<1>7. ASSUME NEW d \in Drivers PROVE CallOK(d)'
  <2>1. \A r \in Rows : Left(d, r)' <=> Left(d, r)
    <3>1. \A v \in PoolWorkers : HasWork(v)' \/ wpc'[v] = "run" <=> HasWork(v) \/ wpc[v] = "run"
      BY <1>1, <1>2, <1>6
    <3> QED BY <1>1, <3>1 DEF Left, InPart, PartOf, driverVars
  <2>2. \A v \in PoolWorkers : wpc'[v] = "failed" <=> wpc[v] = "failed"
    BY <1>1, <1>2
  <2> QED BY <1>1, <2>1, <2>2 DEF GatherInv, CallOK, Dispatching, driverVars, ghostVars
<1>8. \A v \in PoolWorkers : WorkerOK(v)'
  <2>1. \A v \in PoolWorkers : PartOf(fn, v)' = PartOf(fn, v)
    BY <1>1 DEF PartOf, driverVars
  <2> QED BY <1>1, <1>2, <1>3, <1>6, <2>1 DEF GatherInv, WorkerOK
<1>9. Owing' = Owing
  BY <1>1, <1>2, <1>6 DEF Owing, Owes
<1>10. Stopped'
  BY <1>1, <1>2 DEF GatherInv, Stopped, driverVars
<1>11. QED
  BY <1>1, <1>4, <1>5, <1>7, <1>8, <1>9, <1>10 DEF GatherInv, Counted

\* The callback runs over the worker's sub-range, whose rows nobody else has.
LEMMA WorkerRunKeeps ==
  ASSUME GatherInv, NEW w \in PoolWorkers, WorkerRun(w)
  PROVE  GatherInv'
<1>1. wpc[w] = "run"
  BY DEF WorkerRun
<1>0. PICK d \in Drivers : d = fn
  BY <1>1, RunsPart
<1> DEFINE part == PartOf(d, w)
<1>2. /\ d \in Drivers /\ dpc[d] \in {"notify", "part", "barrier"}
      /\ job[w].fn = d /\ job[w].range = part
      /\ call[d].n \in 0 .. MaxRows /\ call[d].n # 0 /\ call[d].min \in Nat
  BY <1>0, <1>1, RunsPart
<1>3. PICK bad \in BOOLEAN :
        /\ Invoke(d, part.from, part.to, bad)
        /\ wpc' = [wpc EXCEPT ![w] = IF bad THEN "failed" ELSE "finished"]
  BY <1>2 DEF WorkerRun
<1> HIDE DEF part
<1>4. /\ threw' = [threw EXCEPT ![d] = @ \/ bad]
      /\ ran' = [ran EXCEPT ![d] = [r \in Rows |->
                   IF part.from <= r /\ r < part.to THEN @[r] + 1 ELSE @[r]]]
      /\ UNCHANGED <<sharedVars, asleep, job, driverVars>>
  BY <1>3 DEF WorkerRun, Invoke
<1>5. w \in Nat /\ 0 < w /\ \A r \in Rows : r \in Nat
  BY GatherPoolConstants DEF PoolWorkers, Rows
<1>6. part \in [from : 0 .. MaxRows, to : 0 .. MaxRows] /\ part.to <= call[d].n
  BY <1>2, <1>5, PartInside DEF part, PartOf
<1>7. part.from \in Nat /\ part.to \in Nat /\ call[d].n \in Nat \ {0}
  BY <1>2, <1>6, GatherPoolConstants
<1>8. \A r \in Rows : InPart(d, w, r) <=> part.from <= r /\ r < part.to
  BY DEF InPart, part
<1>9. \A r \in Rows, v \in (PoolWorkers \cup {0}) \ {w} : InPart(d, w, r) => ~InPart(d, v, r)
  <2> SUFFICES ASSUME NEW r \in Rows, NEW v \in (PoolWorkers \cup {0}) \ {w}
               PROVE ~(InPart(d, w, r) /\ InPart(d, v, r))
    OBVIOUS
  <2>1. v \in Nat /\ (v < w \/ w < v)
    BY <1>5, GatherPoolConstants DEF PoolWorkers
  <2>2. ~(InRange(call[d].n, call[d].min, w, r) /\ InRange(call[d].n, call[d].min, v, r))
    BY <1>2, <1>5, <1>7, <2>1, PartsDisjoint
  <2> QED BY <2>2 DEF InPart, InRange, PartOf
<1> DEFINE After == [r \in Rows |-> IF part.from <= r /\ r < part.to THEN ran[d][r] + 1 ELSE ran[d][r]]
<1>10. ran'[d] = After /\ ran[d] \in [Rows -> Nat]
  BY <1>2, <1>4 DEF GatherInv, Shape
<1>11. /\ wpc'[w] = (IF bad THEN "failed" ELSE "finished")
       /\ \A v \in PoolWorkers \ {w} : wpc'[v] = wpc[v]
       /\ \A e \in Drivers \ {d} : threw'[e] = threw[e] /\ ran'[e] = ran[e]
  BY <1>3, <1>4 DEF GatherInv, Shape
<1>12. Shape'
  <2>1. After \in [Rows -> Nat]
    BY <1>10
  <2>2. ran' \in [Drivers -> [Rows -> Nat]]
    BY <1>2, <1>4, <2>1 DEF GatherInv, Shape
  <2>3. threw' \in [Drivers -> BOOLEAN]
    BY <1>2, <1>4, Zenon DEF GatherInv, Shape
  <2>4. wpc' \in [PoolWorkers -> WorkerPCs]
    BY <1>3 DEF GatherInv, Shape, WorkerPCs
  <2> QED BY <1>4, <2>2, <2>3, <2>4 DEF GatherInv, Shape, sharedVars, driverVars
<1>13. \A e \in Drivers : DriverOK(e)'
  BY <1>4 DEF GatherInv, DriverOK, Dispatching, sharedVars, driverVars
<1>14. \A v \in PoolWorkers : HasWork(v)' <=> HasWork(v)
  BY <1>4 DEF HasWork, sharedVars
<1>15. ~HasWork(w)
  BY <1>1 DEF GatherInv, WorkerOK
<1>16. ASSUME NEW e \in Drivers, e # d PROVE CallOK(e)'
  <2>1. ~Dispatching(e)
    BY <1>0, <1>16 DEF GatherInv, DriverOK
  <2> QED BY <1>4, <1>11, <1>16, <2>1 DEF GatherInv, CallOK, Dispatching, driverVars
<1>17. \A r \in Rows : Left(d, r)' <=> Left(d, r) /\ ~InPart(d, w, r)
  <2> SUFFICES ASSUME NEW r \in Rows PROVE Left(d, r)' <=> Left(d, r) /\ ~InPart(d, w, r)
    OBVIOUS
  <2>1. /\ \A v \in PoolWorkers \cup {0} : InPart(d, v, r)' <=> InPart(d, v, r)
        /\ dpc' = dpc
    BY <1>4 DEF InPart, PartOf, driverVars
  <2>2. /\ ~(HasWork(w)' \/ wpc'[w] = "run")
        /\ \A v \in PoolWorkers \ {w} : HasWork(v)' \/ wpc'[v] = "run" <=> HasWork(v) \/ wpc[v] = "run"
    BY <1>11, <1>14, <1>15
  <2>3. 0 # w
    BY <1>5
  <2>4. \A v \in (PoolWorkers \cup {0}) \ {w} : InPart(d, w, r) => ~InPart(d, v, r)
    BY <1>9
  <2> QED BY <1>1, <2>1, <2>2, <2>3, <2>4 DEF Left
<1>18. \A r \in Rows : ran'[d][r] = IF r < call'[d].n /\ ~Left(d, r)' THEN 1 ELSE 0
  <2> SUFFICES ASSUME NEW r \in Rows
               PROVE ran'[d][r] = IF r < call'[d].n /\ ~Left(d, r)' THEN 1 ELSE 0
    OBVIOUS
  <2>1. ran[d][r] = IF r < call[d].n /\ ~Left(d, r) THEN 1 ELSE 0
    BY <1>2 DEF GatherInv, CallOK, Dispatching
  <2>2. InPart(d, w, r) => Left(d, r) /\ r < call[d].n
    <3>1. InPart(d, w, r) => Left(d, r)
      BY <1>1 DEF Left
    <3>2. InPart(d, w, r) => r < call[d].n
      BY <1>5, <1>6, <1>7, <1>8
    <3> QED BY <3>1, <3>2
  <2>3. ran'[d][r] = IF InPart(d, w, r) THEN ran[d][r] + 1 ELSE ran[d][r]
    BY <1>8, <1>10
  <2>4. call' = call
    BY <1>4 DEF driverVars
  <2> QED BY <1>17, <2>1, <2>2, <2>3, <2>4
<1>19. threw'[d] <=> thrown'[d] \/ failure' \/ \E v \in PoolWorkers : wpc'[v] = "failed"
  <2>1. threw'[d] <=> threw[d] \/ bad
    BY <1>2, <1>4, Zenon DEF GatherInv, Shape
  <2>2. threw[d] <=> thrown[d] \/ failure \/ \E v \in PoolWorkers : wpc[v] = "failed"
    BY <1>2 DEF GatherInv, CallOK, Dispatching
  <2>3. wpc'[w] = "failed" <=> bad
    BY <1>11
  <2>4. (\E v \in PoolWorkers : wpc'[v] = "failed") <=> bad \/ \E v \in PoolWorkers : wpc[v] = "failed"
    BY <1>1, <1>11, <2>3
  <2>5. failure' = failure /\ thrown' = thrown
    BY <1>4 DEF sharedVars, driverVars
  <2> QED BY <2>1, <2>2, <2>4, <2>5, Zenon
<1>20. dpc' = dpc /\ thrown' = thrown
  BY <1>4 DEF driverVars
<1>21. CallOK(d)'
  <2>1. dpc[d] # "barrier" => ~thrown[d]
    BY <1>2 DEF GatherInv, CallOK, Dispatching
  <2> QED BY <1>2, <1>18, <1>19, <1>20, <2>1 DEF CallOK, Dispatching
<1>22. \A v \in PoolWorkers : WorkerOK(v)'
  <2>1. \A v \in PoolWorkers : PartOf(fn, v)' = PartOf(fn, v)
    BY <1>4 DEF PartOf, sharedVars, driverVars
  <2> QED BY <1>1, <1>4, <1>11, <1>14, <1>15, <2>1 DEF GatherInv, WorkerOK, sharedVars
<1>23. Owing' = Owing
  BY <1>1, <1>11, <1>14 DEF Owing, Owes
<1>24. Stopped'
  BY <1>1, <1>4, <1>11 DEF GatherInv, Stopped, sharedVars, driverVars
<1>25. QED
  BY <1>4, <1>12, <1>13, <1>16, <1>21, <1>22, <1>23, <1>24 DEF GatherInv, Counted, sharedVars

\* A worker reports: one fewer is owed, and its failure is kept.
LEMMA WorkerDoneKeeps ==
  ASSUME GatherInv, NEW w \in PoolWorkers, WorkerDone(w)
  PROVE  GatherInv'
<1>1. /\ wpc[w] \in {"failed", "finished"}
      /\ failure' = (failure \/ wpc[w] = "failed")
      /\ outstanding' = outstanding - 1
      /\ asleep' \subseteq asleep
      /\ wpc' = [wpc EXCEPT ![w] = "wait"]
      /\ job' = [job EXCEPT ![w] = [fn |-> NoDriver, range |-> NoRange]]
      /\ UNCHANGED <<driverMu, poolClosed, assigned, fn, stop, driverVars, ghostVars>>
  BY DEF WorkerDone
<1>2. /\ wpc'[w] = "wait" /\ job'[w].fn = NoDriver
      /\ \A v \in PoolWorkers \ {w} : wpc'[v] = wpc[v] /\ job'[v] = job[v]
  BY <1>1 DEF GatherInv, Shape
<1>3. failure' \in BOOLEAN /\ (failure' <=> failure \/ wpc[w] = "failed")
  BY <1>1, Booleans DEF GatherInv
<1>4. fn \in Drivers /\ dpc[fn] \in {"notify", "part", "barrier"} /\ ~HasWork(w)
  BY <1>1, RunsPart DEF GatherInv, WorkerOK
<1>5. Shape'
  <2>1. NoRange \in Ranges
    BY GatherPoolConstants DEF NoRange, Ranges
  <2>2. /\ wpc' \in [PoolWorkers -> WorkerPCs]
        /\ job' \in [PoolWorkers -> [fn : Drivers \cup {NoDriver}, range : Ranges]]
        /\ asleep' \subseteq Drivers \cup PoolWorkers
    BY <1>1, <2>1 DEF GatherInv, Shape, WorkerPCs
  <2> QED BY <1>1, <1>3, <2>2 DEF GatherInv, Shape, driverVars, ghostVars
<1>6. \A d \in Drivers : DriverOK(d)'
  BY <1>1 DEF GatherInv, DriverOK, Dispatching, driverVars
<1>7. \A v \in PoolWorkers : HasWork(v)' <=> HasWork(v)
  BY <1>1 DEF HasWork
<1>8. ASSUME NEW d \in Drivers PROVE CallOK(d)'
  <2>1. CASE d = fn
    <3>1. \A r \in Rows : Left(d, r)' <=> Left(d, r)
      <4>1. \A v \in PoolWorkers : wpc'[v] = "run" <=> wpc[v] = "run"
        BY <1>1, <1>2
      <4> QED BY <1>1, <1>7, <4>1 DEF Left, InPart, PartOf, driverVars
    <3>2. failure' \/ (\E v \in PoolWorkers : wpc'[v] = "failed")
            <=> failure \/ \E v \in PoolWorkers : wpc[v] = "failed"
      <4>1. \A v \in PoolWorkers : wpc'[v] = "failed" <=> v # w /\ wpc[v] = "failed"
        BY <1>2
      <4> QED BY <1>3, <4>1
    <3>3. /\ threw[d] <=> thrown[d] \/ failure \/ \E v \in PoolWorkers : wpc[v] = "failed"
          /\ dpc[d] # "barrier" => ~thrown[d]
          /\ \A r \in Rows : ran[d][r] = IF r < call[d].n /\ ~Left(d, r) THEN 1 ELSE 0
      BY <1>4, <2>1 DEF GatherInv, CallOK, Dispatching
    <3>4. dpc' = dpc /\ threw' = threw /\ thrown' = thrown /\ ran' = ran /\ call' = call
      BY <1>1 DEF driverVars, ghostVars
    <3>5. threw'[d] <=> thrown'[d] \/ failure' \/ \E v \in PoolWorkers : wpc'[v] = "failed"
      BY <3>2, <3>3, <3>4, Zenon
    <3>6. dpc[d] \notin {"inline", "lock", "returned"}
      BY <1>4, <2>1
    <3> QED BY <3>1, <3>3, <3>4, <3>5, <3>6 DEF CallOK, Dispatching
  <2>2. CASE d # fn
    <3>1. ~Dispatching(d)
      BY <2>2 DEF GatherInv, DriverOK
    <3> QED BY <1>1, <3>1 DEF GatherInv, CallOK, Dispatching, driverVars, ghostVars
  <2> QED BY <2>1, <2>2
<1>9. \A v \in PoolWorkers : WorkerOK(v)'
  <2>1. \A v \in PoolWorkers : PartOf(fn, v)' = PartOf(fn, v)
    BY <1>1 DEF PartOf, driverVars
  <2> QED BY <1>1, <1>2, <1>4, <1>7, <2>1 DEF GatherInv, WorkerOK
<1>10. Counted'
  <2>1. Owing' = Owing \ {w} /\ w \in Owing
    BY <1>1, <1>2, <1>4, <1>7 DEF Owing, Owes
  <2>2. IsFiniteSet(PoolWorkers)
    BY GatherPoolConstants, FS_Interval DEF PoolWorkers
  <2>3. IsFiniteSet(Owing)
    BY <2>2, FS_Subset DEF Owing
  <2>4. Cardinality(Owing \ {w}) = Cardinality(Owing) - 1
    BY <2>1, <2>3, FS_RemoveElement
  <2> QED BY <1>1, <2>1, <2>4 DEF GatherInv, Counted
<1>11. Stopped'
  BY <1>1, <1>2 DEF GatherInv, Stopped, driverVars
<1>12. QED
  BY <1>5, <1>6, <1>8, <1>9, <1>10, <1>11 DEF GatherInv

(***************************************************************************)
(* The theorems                                                            *)
(***************************************************************************)
\* Stuttering keeps the invariant.
LEMMA GatherStutters ==
  ASSUME GatherInv, UNCHANGED gatherVars
  PROVE  GatherInv'
<1>1. UNCHANGED <<sharedVars, asleep, workerVars, driverVars, ghostVars>>
  BY DEF gatherVars
<1>2. Shape' /\ Stopped'
  BY <1>1 DEF GatherInv, Shape, Stopped, sharedVars, workerVars, driverVars, ghostVars
<1>3. \A d \in Drivers : DriverOK(d)' /\ CallOK(d)'
  BY <1>1 DEF GatherInv, DriverOK, CallOK, Dispatching, Left, HasWork, InPart, PartOf,
    sharedVars, workerVars, driverVars, ghostVars
<1>4. \A v \in PoolWorkers : WorkerOK(v)'
  BY <1>1 DEF GatherInv, WorkerOK, HasWork, PartOf, sharedVars, workerVars, driverVars
<1>5. Owing' = Owing
  BY <1>1 DEF Owing, Owes, HasWork, sharedVars, workerVars
<1>6. QED
  BY <1>1, <1>2, <1>3, <1>4, <1>5 DEF GatherInv, Counted, sharedVars

\* Every step of the pool keeps the invariant.
LEMMA GatherInvKeeps ==
  ASSUME GatherInv, [GatherNext]_gatherVars
  PROVE  GatherInv'
<1>1. ASSUME NEW d \in Drivers, ParallelFor(d) \/ Close(d) \/ GatherDriver(d)
      PROVE GatherInv'
  BY <1>1, ParallelForKeeps, InlineKeeps, DispatchKeeps, NotifyKeeps, InlinePartKeeps,
     BarrierSleepKeeps, BarrierKeeps, LeaveKeeps, CloseKeeps, CloseStopKeeps,
     CloseNotifyKeeps, CloseJoinKeeps DEF GatherDriver
<1>2. ASSUME NEW w \in PoolWorkers, Worker(w)
      PROVE GatherInv'
  BY <1>2, WorkerSleepKeeps, WorkerExitKeeps, WorkerTakeKeeps, WorkerRunKeeps,
     WorkerDoneKeeps DEF Worker
<1>3. QED
  BY <1>1, <1>2, GatherStutters DEF GatherNext

\* The invariant says that the variables are well typed: outstanding_ counts
\* workers, so it never leaves 0 .. threads_ - 1.
LEMMA GatherInvTypes == GatherInv => GatherTypeOK
<1> SUFFICES ASSUME GatherInv PROVE GatherTypeOK
  OBVIOUS
<1>1. IsFiniteSet(PoolWorkers) /\ Cardinality(PoolWorkers) = PoolThreads - 1
  <2>1. 1 \in Int /\ PoolThreads - 1 \in Int /\ ~(1 > PoolThreads - 1 /\ PoolThreads # 1)
    BY GatherPoolConstants
  <2> QED BY <2>1, GatherPoolConstants, FS_Interval DEF PoolWorkers
<1>2. IsFiniteSet(Owing) /\ Cardinality(Owing) <= Cardinality(PoolWorkers)
  BY <1>1, FS_Subset DEF Owing
<1>3. outstanding \in 0 .. PoolThreads - 1
  <2>1. Cardinality(Owing) \in Nat
    BY <1>2, FS_CardinalityType
  <2> QED BY <1>1, <1>2, <2>1, GatherPoolConstants DEF GatherInv, Counted
<1>4. QED
  BY <1>3 DEF GatherInv, Shape, GatherTypeOK, WorkerPCs

\* The invariant says what a caller of the pool relies on.
LEMMA GatherInvSafe == GatherInv => GathersSafe
<1> SUFFICES ASSUME GatherInv PROVE GathersSafe
  OBVIOUS
<1>1. EveryRowOnce
  <2> SUFFICES ASSUME NEW d \in Drivers, dpc[d] = "returned"
               PROVE /\ \A r \in Rows : ran[d][r] = IF r < call[d].n THEN 1 ELSE 0
                     /\ \A w \in PoolWorkers : job[w].fn # d
    BY DEF EveryRowOnce
  <2>1. fn # d
    BY DEF GatherInv, DriverOK, Dispatching
  <2>2. ASSUME NEW w \in PoolWorkers PROVE job[w].fn # d
    <3>1. job[w].fn \in {fn, NoDriver}
      BY DEF GatherInv, Shape, WorkerPCs, WorkerOK
    <3> QED BY <2>1, <3>1, GatherPoolConstants
  <2> QED BY <2>2 DEF GatherInv, CallOK
<1>2. OwnFailuresOnly
  BY DEF OwnFailuresOnly, GatherInv, CallOK
<1>3. CloseMeansGone
  <2> SUFFICES ASSUME NEW d \in Drivers, dpc[d] = "closedPool"
               PROVE /\ \A w \in PoolWorkers : wpc[w] = "exited"
                     /\ outstanding = 0 /\ \A w \in PoolWorkers : ~HasWork(w)
    BY DEF CloseMeansGone
  <2>1. fn = NoDriver /\ \A w \in PoolWorkers : wpc[w] = "exited"
    BY DEF GatherInv, DriverOK, Stopped
  <2>2. \A w \in PoolWorkers : ~HasWork(w)
    BY <2>1 DEF GatherInv, WorkerOK
  <2>3. Owing = {}
    BY <2>1, <2>2 DEF Owing, Owes
  <2> QED BY <2>1, <2>2, <2>3, FS_EmptySet DEF GatherInv, Counted
<1>4. QED
  BY <1>1, <1>2, <1>3 DEF GathersSafe

\* The inductive invariant of the pool (parallelFor(), close() and
\* workerLoop() of GatherPool.cpp): driverMu is held by the one dispatch in
\* flight, outstanding_ counts the workers that still owe a sub-range of it,
\* and the rows already run are those nobody has left to run.
THEOREM GatherInvariant == GatherSpec => []GatherInv
<1>1. GatherInit => GatherInv
  BY GatherInitInv
<1>2. GatherInv /\ [GatherNext]_gatherVars => GatherInv'
  BY GatherInvKeeps
<1>3. QED
  BY <1>1, <1>2, PTL DEF GatherSpec

\* The type invariant: outstanding_ and the ranges stay within their bounds.
THEOREM GatherPoolTyped == GatherSpec => []GatherTypeOK
<1>1. QED
  BY GatherInvariant, GatherInvTypes, PTL

\* For every number of workers, drivers, rows and calls: when parallelFor()
\* comes back every row of the call ran exactly once, no worker holds its
\* callback, it throws exactly when one of its own ranges threw, and when
\* close() comes back every worker is gone with nothing left to run.
THEOREM GathersAreSafe == GatherSpec => []GathersSafe
<1>1. QED
  BY GatherInvariant, GatherInvSafe, PTL
=============================================================================
