------------------------------- MODULE Replays -------------------------------
(****************************************************************************)
(* The other ways a recipe is carried out without its plan: placement.py    *)
(* replays it with Torch on the host or on the device and accounts the      *)
(* bytes that cross the link; weights.py replays a layout recipe on a       *)
(* weight that has no compiled transfer; fast.py swaps caches with two      *)
(* recipes of its own.  Each is a function of the recipe and of a concrete  *)
(* tensor, checked for every recipe the importer accepts.                   *)
(****************************************************************************)
EXTENDS RegionRecipes

(***************************************************************************)
(* placement.py                                                            *)
(***************************************************************************)
Stages(recipe) == SelectSeq(recipe.operations, LAMBDA op : op.kind = "cast")

\* family(): "parameter-free dense permutations and C1 casts".
Qualified(recipe) == \A k \in DOMAIN recipe.operations : recipe.operations[k].kind \in {"transpose", "cast"}

\* Defect: the link carries the destination's elements on every path that
\* transforms on the host.
WireDtypeHost(recipe, path) ==
  IF path \in {"torch_gpu", "sym_gpu"} /\ recipe.direction = "h2d" THEN recipe.source.dtype
  ELSE recipe.destination.dtype
\* wire_bytes(): of the element type before or after the value stages.
WireDtype(recipe, path) ==
  IF (path \in {"torch_gpu", "sym_gpu"}) = (recipe.direction = "h2d") THEN recipe.source.dtype
  ELSE recipe.destination.dtype
wire_bytes(recipe, dims, path) == Count(dims) * ItemSize[WireDtype(recipe, path)]

\* How many stages the native implementation of a path runs before the link:
\* cpu_reference all on the host; gpu_implementation() all on the device.
StagesBefore(recipe, path) ==
  IF (path = "sym_gpu") = (recipe.direction = "d2h") THEN Len(Stages(recipe)) ELSE 0
DtypeAfter(recipe, n) == IF n = 0 THEN recipe.source.dtype ELSE Stages(recipe)[n].dtype

\* Tensor.to(device), and what it moved.
MovedTo(v, device) ==
  IF v.device = device THEN v
  ELSE [v EXCEPT !.device = device, !.crossed = Append(@, Count(v.dims) * ItemSize[v.dtype])]
replay(recipe, tensor, device, path) ==
  LET start == [dims |-> tensor.dims, strides |-> tensor.strides, data |-> tensor.data, dtype |-> tensor.dtype,
                device |-> tensor.device, crossed |-> <<>>]
      at == IF path = "torch_cpu" THEN "cpu" ELSE IF recipe.direction = "h2d" THEN device ELSE tensor.device
      ReplayOp(v, op) == IF op.kind = "transpose" THEN TorchPermute(v, op.perm) ELSE [v EXCEPT !.dtype = op.dtype]
      done == FoldLeft(ReplayOp, MovedTo(start, at), recipe.operations)
  IN  MovedTo([done EXCEPT !.strides = RowStrides(done.dims)], device)

(***************************************************************************)
(* weights.py                                                              *)
(***************************************************************************)
Replayable(recipe) ==
  \A k \in DOMAIN recipe.operations : recipe.operations[k].kind \in {"transpose", "reshape", "pad"}

\* Defect: the widths are not counted from the last axis.
WidthsOfFirst(op, rank, b) ==
  [i \in 1 .. 2 * op.axis |-> CASE i = 2 * op.axis - 1 -> Value(op.lo, b)
                                [] i = 2 * op.axis -> Value(op.hi, b) [] OTHER -> 0]
\* Torch lists pairs of widths from the last axis backwards.
WidthsOf(op, rank, b) ==
  LET pair == 2 * (rank - op.axis)
  IN  [i \in 1 .. pair + 2 |-> CASE i = pair + 1 -> Value(op.lo, b) [] i = pair + 2 -> Value(op.hi, b) [] OTHER -> 0]
replay_weight(recipe, tensor) ==
  LET sources == symbol_sources(recipe.source.shape)
      b == [n \in {s.name : s \in sources} |-> tensor.dims[(CHOOSE s \in sources : s.name = n).axis]]
      WeightOp(t, op) ==
        CASE op.kind = "transpose" -> TorchPermute(t, op.perm)
          [] op.kind = "reshape" -> TorchReshape(t, [k \in DOMAIN op.shape |-> Value(op.shape[k], b)])
          [] op.kind = "pad" -> TorchPad(t, WidthsOf(op, Len(t.dims), b))
      done == FoldLeft(WeightOp, tensor, recipe.operations)
  IN  [done EXCEPT !.strides = RowStrides(done.dims)]

(***************************************************************************)
(* fast.py KVCacheSwap: caches [H, S, Dh] leave the GPU as [S, H, Dh] in   *)
(* one packed block, and come back; n is the length S of a cache.          *)
(***************************************************************************)
\* Defect: an odd head dimension is halved like any other.
InnerRounded(dtype, head_dim) == IF dtype = "f32" THEN head_dim ELSE head_dim \div 2
\* The extent relocated: 16-bit caches move as float32 pairs; 0: refused.
Inner(dtype, head_dim) ==
  IF dtype = "f32" THEN head_dim ELSE IF head_dim % 2 = 0 THEN head_dim \div 2 ELSE 0
SwapRecipe(heads, inner, direction) ==
  LET cache == <<Const(heads), Extent, Const(inner)>>
      stored == <<Extent, Const(heads), Const(inner)>>
      Spec32(shape) == [shape |-> shape, strides |-> dense_strides(shape), offset |-> Const(0), dtype |-> "f32"]
  IN  [source |-> Spec32(IF direction = "d2h" THEN cache ELSE stored),
       operations |-> <<[kind |-> "transpose", perm |-> <<2, 1, 3>>]>>, direction |-> direction,
       destination |-> Spec32(IF direction = "d2h" THEN stored ELSE cache)]

_pairs(t, dtype) ==
  IF dtype = "f32" THEN t
  ELSE LET dims == [t.dims EXCEPT ![3] = @ \div 2]
           at(c, i) == t.data[[c EXCEPT ![3] = 2 * @ + i]]
       IN  [t EXCEPT !.dims = dims, !.dtype = "f32", !.data = [c \in Coords(dims) |-> <<at(c, 0), at(c, 1)>>]]
_unpair(t, dtype) ==
  IF dtype = "f32" THEN t
  ELSE LET dims == [t.dims EXCEPT ![3] = @ * 2]
       IN  [t EXCEPT !.dims = dims, !.dtype = dtype,
                     !.data = [c \in Coords(dims) |-> t.data[[c EXCEPT ![3] = @ \div 2]][1 + (c[3] % 2)]]]
\* Both recipes are one transposition.
RunProgram(recipe, t) == FoldLeft(LAMBDA u, op : TorchPermute(u, op.perm), t, recipe.operations)

\* Defect: every cache is laid at the start of the block.
OffsetNone(counts, k) == 0
Offset(counts, k) == FoldLeft(+, 0, SubSeq(counts, 1, k - 1))
\* What the views of the block hold once every cache has been copied to its part.
Packed(moved, counts, dtype) ==
  LET Holds(k, i) == Offset(counts, k) < i /\ i <= Offset(counts, k) + counts[k]
      block == [i \in 1 .. FoldLeft(+, 0, counts) |->
                  LET ks == {k \in DOMAIN moved : Holds(k, i)}
                      k == CHOOSE k \in ks : \A l \in ks : l <= k
                  IN  IF ks = {} THEN 0 ELSE moved[k].data[Unflat(i - 1 - Offset(counts, k), moved[k].dims)]]
      Part(k) == [moved[k] EXCEPT !.data = [c \in Coords(moved[k].dims) |->
                                              block[Offset(counts, k) + Flat(c, RowStrides(moved[k].dims)) + 1]]]
  IN  [k \in DOMAIN moved |-> _unpair(Part(k), dtype)]
evict(recipe, caches, dtype) ==
  LET moved == [k \in DOMAIN caches |-> RunProgram(recipe, _pairs(caches[k], dtype))]
  IN  Packed(moved, [k \in DOMAIN moved |-> Count(moved[k].dims)], dtype)
restore(recipe, stored, dtype) ==
  [k \in DOMAIN stored |-> _unpair(RunProgram(recipe, _pairs(stored[k], dtype)), dtype)]

(***************************************************************************)
(* Whichever way a recipe is carried out, its result is the same dense     *)
(* tensor, and what crosses the link is what the measured costs were       *)
(* accounted with: the placement policy chooses between equals             *)
(* (placement.py replay, wire_bytes, gpu_implementation; weights.py replay)*)
(***************************************************************************)
SameTensor(t, u) == t.dims = u.dims /\ t.data = u.data /\ t.dtype = u.dtype
ReplaysAgree ==
  region.at = "candidate" =>
    \A n \in region.family :
      LET dims == Concretely(region.in.shape, n)
          tensor == Tensor(dims, RowStrides(dims), region.in.dtype, region.in.device)
          source == [shape |-> dims, strides |-> RowStrides(dims), offset |-> 0, dtype |-> region.in.dtype]
      IN  Executable(Recipe, source, <<n>>) =>
        LET moved == Relocated(n)
            Agrees(result) == SameTensor(result, moved) /\ result.strides = RowStrides(result.dims)
        IN  /\ Replayable(Recipe) => Agrees(replay_weight(Recipe, tensor))
            /\ Qualified(Recipe) =>
                 /\ \A path \in {"torch_cpu", "torch_gpu"} :
                      LET result == replay(Recipe, tensor, region.device, path)
                      IN  /\ Agrees(result) /\ result.device = region.device
                          /\ result.crossed = <<wire_bytes(Recipe, dims, path)>>
                 /\ \A path \in {"sym_cpu", "sym_gpu"} :
                      wire_bytes(Recipe, dims, path)
                        = Count(dims) * ItemSize[DtypeAfter(Recipe, StagesBefore(Recipe, path))]

(***************************************************************************)
(* The recipe KVCacheSwap writes by hand is what the importer makes of     *)
(* permute and transfer, and with it caches of several lengths, of any     *)
(* accepted head dimension and element type, are evicted to their          *)
(* permutation, each to its part of the block, and restored as they were   *)
(* (fast.py KVCacheSwap.evict, restore).                                   *)
(***************************************************************************)
Cache(k, heads, n, head_dim, dtype) ==
  LET t == Tensor(<<heads, n, head_dim>>, RowStrides(<<heads, n, head_dim>>), dtype, "cuda")
  IN  [t EXCEPT !.data = [c \in DOMAIN t.data |-> <<k, t.data[c]>>]]
SwapsFaithful ==
  region.at = "candidate" /\ region.direction = "d2h" /\ Len(region.in.shape) = 3 =>
    \A heads, inner \in 1 .. 2 :
      region.in.shape = <<Const(heads), Extent, Const(inner)>> /\ Recipe.operations # <<>> =>
        /\ Recipe = SwapRecipe(heads, inner, "d2h")
        /\ \A dtype \in {"f32", "f16"}, head_dim \in 1 .. 2 * inner + 1, lengths \in {<<1, 2>>, <<3, 1>>} :
             Inner(dtype, head_dim) = inner =>
               LET caches == [k \in DOMAIN lengths |-> Cache(k, heads, lengths[k], head_dim, dtype)]
                   stored == evict(Recipe, caches, dtype)
                   back == restore(SwapRecipe(heads, inner, "h2d"), stored, dtype)
               IN  \A k \in DOMAIN caches :
                     SameTensor(stored[k], TorchPermute(caches[k], <<2, 1, 3>>)) /\ SameTensor(back[k], caches[k])
=============================================================================
