--------------------------- MODULE RegionRecipes ---------------------------
(****************************************************************************)
(* From a linear region of a captured graph to a recipe (fx_import.py,      *)
(* _recipe): one action per member, by its kind.  The importer follows      *)
(* shape, strides and element type symbolically and accepts the region only *)
(* if the result is provably dense; extents on which that depends become    *)
(* guards that must bind to at least two.                                   *)
(*                                                                          *)
(* Axes in a member are Torch's: they count from 0 and may be negative.     *)
(* bf16 behaves as f16 does and is left out.  The storage offset is 0       *)
(* throughout: regions start from dense tensors and have no slicing.        *)
(****************************************************************************)
EXTENDS Symbolic

CONSTANT Regions

VARIABLE region
regionVars == <<region>>

\* The one symbolic extent of a region; provable: Torch knows it is at least 2.
Extent == Sym(1)
\* The extents a captured graph is run with, and the one it was captured with.
Family == 1 .. 4
CapturedExtent == 4

RegionInit ==
  region \in {[at |-> "start", in |-> r, k |-> 1, shape |-> r.shape, strides |-> <<>>, ops |-> <<>>,
               dtype |-> r.dtype, device |-> r.device, direction |-> "none", guards |-> {}, family |-> Family] : r \in Regions}

Member == region.in.members[region.k]
Turn(kind) ==
  region.at = "members" /\ region.k <= Len(region.in.members) /\ Member.kind = kind
Rejected == region' = [region EXCEPT !.at = "excluded"]

\* _view_dim: an axis of Torch as an axis of ours.
AxisIn(dim, rank) == -rank <= dim /\ dim < rank
ViewDim(dim, rank) == (dim % rank) + 1

\* An expression without symbols becomes its value.
ConstantFold(e) == LET r == evaluate(e, <<>>) IN IF r.ok THEN Const(r.v) ELSE e

\* compat.statically_at_least(extent, 2)
AtLeastTwo(e) == IF e.op = "const" THEN e.v >= 2 ELSE e = Extent /\ region.in.provable

\* The elements of seq at the positions ks.
Keep(seq, ks) == LET kept == SetToSortSeq(ks, LAMBDA i, j : i < j)
                 IN  [i \in DOMAIN kept |-> seq[kept[i]]]

(***************************************************************************)
(* Eager execution (external): what Torch computes for the same calls on a *)
(* concrete tensor: extents, strides, and which source element each        *)
(* logical element is (0: the fill value).                                 *)
(***************************************************************************)
Coords(dims) == {c \in [DOMAIN dims -> 0 .. Count(dims)] : \A k \in DOMAIN dims : c[k] < dims[k]}
Flat(c, strides) == FoldLeft(LAMBDA a, k : a + c[k] * strides[k], 0, [k \in DOMAIN c |-> k])
Unflat(i, dims) == [k \in DOMAIN dims |-> (i \div RowStrides(dims)[k]) % dims[k]]
Iota(dims) == [c \in Coords(dims) |-> Flat(c, RowStrides(dims)) + 1]
Tensor(dims, strides, dtype, device) ==
  [dims |-> dims, strides |-> strides, data |-> Iota(dims), dtype |-> dtype, device |-> device]

\* Strides of extents 1 do not matter to Torch's is_contiguous.
IsContiguous(dims, strides) ==
  \A k \in DOMAIN dims : dims[k] = 1 \/ strides[k] = RowStrides(dims)[k]
Redim(t, dims) == [c \in Coords(dims) |-> t.data[Unflat(Flat(c, RowStrides(dims)), t.dims)]]
\* A reshape is a view when addresses remain linear in the new coordinates.
Address(t, c, dims) == Flat(Unflat(Flat(c, RowStrides(dims)), t.dims), t.strides)
UnitStrides(t, dims) ==
  [k \in DOMAIN dims |->
     IF dims[k] = 1 THEN 1 ELSE Address(t, [i \in DOMAIN dims |-> IF i = k THEN 1 ELSE 0], dims)]
Viewable(t, dims) ==
  \A c \in Coords(dims) : Address(t, c, dims) = Flat(c, UnitStrides(t, dims))

TorchPermute(t, p) ==
  [t EXCEPT !.dims = [k \in DOMAIN p |-> t.dims[p[k]]], !.strides = [k \in DOMAIN p |-> t.strides[p[k]]],
            !.data = LET dims == [k \in DOMAIN p |-> t.dims[p[k]]]
                     IN  [c \in Coords(dims) |->
                            t.data[[a \in DOMAIN p |-> c[CHOOSE k \in DOMAIN p : p[k] = a]]]]]
TorchReshape(t, dims) ==
  [t EXCEPT !.dims = dims, !.data = Redim(t, dims),
            !.strides = IF IsContiguous(t.dims, t.strides) \/ ~Viewable(t, dims)
                        THEN RowStrides(dims) ELSE UnitStrides(t, dims)]
\* Views that insert or drop extents of 1.
TorchInsert(t, at) ==
  LET dims == InsertAt(t.dims, at, 1)
      stride == IF at = Len(dims) THEN 1 ELSE t.dims[at] * t.strides[at]
  IN  [t EXCEPT !.dims = dims, !.data = Redim(t, dims), !.strides = InsertAt(@, at, stride)]
TorchSqueeze(t, axes) ==
  LET rest == {k \in DOMAIN t.dims : k \notin axes \/ t.dims[k] # 1}
      dims == Keep(t.dims, rest)
  IN  [t EXCEPT !.dims = dims, !.data = Redim(t, dims), !.strides = Keep(@, rest)]
\* Pads of all axes at once.
TorchPad(t, widths) ==
  LET rank == Len(t.dims)
      lo(k) == IF 2 * (rank + 1 - k) <= Len(widths) THEN widths[2 * (rank + 1 - k) - 1] ELSE 0
      hi(k) == IF 2 * (rank + 1 - k) <= Len(widths) THEN widths[2 * (rank + 1 - k)] ELSE 0
      dims == [k \in DOMAIN t.dims |-> t.dims[k] + lo(k) + hi(k)]
      from(c) == [k \in DOMAIN t.dims |-> c[k] - lo(k)]
  IN  [t EXCEPT !.dims = dims, !.strides = RowStrides(dims),
                !.data = [c \in Coords(dims) |->
                            IF from(c) \in Coords(t.dims) THEN t.data[from(c)] ELSE 0]]
TorchTarget(t, m, b) ==
  LET rank == Len(t.dims)
      known == Count([k \in DOMAIN m.target |-> IF m.target[k] = Unknown THEN 1 ELSE Value(m.target[k], b)])
  IN  IF m.flatten
      THEN LET from == ViewDim(m.start, rank) IN LET to == ViewDim(m.end, rank)
           IN  SubSeq(t.dims, 1, from - 1) \o <<Count(SubSeq(t.dims, from, to))>> \o SubSeq(t.dims, to + 1, rank)
      ELSE [k \in DOMAIN m.target |->
              IF m.target[k] = Unknown THEN Count(t.dims) \div known ELSE Value(m.target[k], b)]
TorchCall(t, m, b) ==
  LET rank == Len(t.dims)
      dense == RowStrides(t.dims)
  IN  CASE m.kind = "transfer" ->
             [t EXCEPT !.dtype = m.dtype, !.device = m.device,
                       !.strides = IF m.format = "contiguous" THEN dense ELSE @]
        [] m.kind = "dequantize" -> [t EXCEPT !.dtype = "f32"]
        [] m.kind = "permute" -> TorchPermute(t, [k \in DOMAIN m.dims |-> ViewDim(m.dims[k], rank)])
        [] m.kind = "unsqueeze" -> TorchInsert(t, ViewDim(m.dim, rank + 1))
        [] m.kind = "squeeze" -> TorchSqueeze(t, {ViewDim(m.dims[k], rank) : k \in DOMAIN m.dims})
        [] m.kind = "reshape" -> TorchReshape(t, TorchTarget(t, m, b))
        [] m.kind = "pad" -> TorchPad(t, m.widths)
        [] m.kind = "materialize" ->
             [t EXCEPT !.strides = IF \/ m.target = "contiguous" /\ ~IsContiguous(t.dims, @)
                                      \/ m.target = "clone" /\ m.format = "contiguous"
                                   THEN dense ELSE @]
Concretely(shape, n) == [k \in DOMAIN shape |-> Value(shape[k], <<n>>)]
Eager(r, n, count) ==
  LET dims == Concretely(r.shape, n)
  IN  FoldLeft(LAMBDA t, m : TorchCall(t, m, <<n>>), Tensor(dims, RowStrides(dims), r.dtype, r.device),
               SubSeq(r.members, 1, count))

(***************************************************************************)
(* The source                                                              *)
(***************************************************************************)
Start ==
  /\ region.at = "start"
  /\ IF \/ region.shape = <<>> \/ \E k \in DOMAIN region.shape : region.shape[k] = Const(0)
        \/ region.in.strides # dense_strides(region.shape)
        \/ region.dtype \notin DOMAIN ItemSize \/ region.in.gradient
     THEN Rejected
     ELSE region' = [region EXCEPT !.at = "members", !.strides = dense_strides(region.shape)]

(***************************************************************************)
(* Members                                                                 *)
(***************************************************************************)
IsDense == region.strides = dense_strides(region.shape)
Casts == {<<"f32", "f16">>, <<"f16", "f32">>}
CastOp(before, after) ==
  [kind |-> "cast", dtype |-> after, policy |-> IF after = "f16" THEN "ieee_rne" ELSE "exact"]

\* _to_copy, to(): one move between the host and a device, or a cast.
Transfer ==
  /\ Turn("transfer")
  /\ LET m == Member
         moves == m.device # region.device
         casts == m.dtype # region.dtype
     IN  IF \/ moves /\ (region.direction # "none" \/ m.nonblocking \/ m.pinned)
            \/ moves /\ {m.device, region.device} # {"cpu", "cuda"}
            \/ ~moves /\ ~casts
            \/ m.format \notin {"preserve", "contiguous"}
            \/ casts /\ <<region.dtype, m.dtype>> \notin Casts
         THEN Rejected
         ELSE region' = [region EXCEPT
                !.k = @ + 1, !.device = m.device, !.dtype = m.dtype,
                !.direction = IF ~moves THEN @ ELSE IF region.device = "cpu" THEN "h2d" ELSE "d2h",
                !.ops = IF casts THEN Append(@, CastOp(region.dtype, m.dtype)) ELSE @,
                !.strides = IF m.format = "contiguous" THEN dense_strides(region.shape) ELSE @]

\* dequantize_per_tensor/_channel; a scale is a Python scalar or a graph input.
Dequantize ==
  /\ Turn("dequantize")
  /\ LET m == Member
         perChannel == m.axis # -1
     IN  IF \/ region.dtype # "i8" \/ m.range # "int8"
            \/ perChannel /\ (m.axis \notin 0 .. Len(region.shape) - 1 \/ m.scale.kind # "binding")
            \/ m.scale.kind = "binding" /\ m.scale.dtype # "f32"
            \/ m.scale.kind = "binding" /\
                 m.scale.extents # (IF perChannel THEN <<region.shape[m.axis + 1]>> ELSE <<>>)
         THEN Rejected
         ELSE region' = [region EXCEPT
                !.k = @ + 1, !.dtype = "f32",
                !.ops = Append(@, [kind |-> "dequantize", dtype |-> "f32", scale |-> m.scale,
                                   zero |-> [kind |-> "none"], axis |-> m.axis + 1, policy |-> "affine"])]

\* The reciprocal is rounded twice: its semantics are not the plan's.
Quantize == Turn("quantize") /\ Rejected

\* permute and transpose
Permute ==
  /\ Turn("permute")
  /\ LET rank == Len(region.shape)
         valid == \A k \in DOMAIN Member.dims : AxisIn(Member.dims[k], rank)
         perm == [k \in DOMAIN Member.dims |-> ViewDim(Member.dims[k], rank)]
         op == [kind |-> "transpose", perm |-> perm]
     IN  IF ~valid \/ ~IsPermutation(perm, rank) THEN Rejected
         ELSE region' = [region EXCEPT
                !.k = @ + 1, !.ops = Append(@, op), !.shape = operation_shape(@, op),
                !.strides = IF @ = <<>> THEN @ ELSE [k \in DOMAIN @ |-> @[perm[k]]]]

Unsqueeze ==
  /\ Turn("unsqueeze")
  /\ LET rank == Len(region.shape)
         at == ViewDim(Member.dim, rank + 1)
         inserted == IF at = rank + 1 THEN Const(1) ELSE mul(region.shape[at], region.strides[at])
         shape == InsertAt(region.shape, at, Const(1))
     IN  IF ~AxisIn(Member.dim, rank + 1) THEN Rejected
         ELSE region' = [region EXCEPT
                !.k = @ + 1, !.shape = shape, !.ops = Append(@, [kind |-> "reshape", shape |-> shape]),
                !.strides = IF @ = <<>> THEN @ ELSE InsertAt(@, at, inserted)]

\* Defect: an extent that is not squeezed is not guarded.
SqueezeGuardsNone(kept) == {}
\* Symbolic extents stay only because they are at least two.
SqueezeGuards(kept) == {e \in kept : e.op # "const"}

Squeeze ==
  /\ Turn("squeeze")
  /\ LET rank == Len(region.shape)
         valid == \A k \in DOMAIN Member.dims : AxisIn(Member.dims[k], rank)
         axes == {ViewDim(Member.dims[k], rank) : k \in DOMAIN Member.dims}
         extent(a) == ConstantFold(region.shape[a])
         removed == {a \in axes : extent(a) = Const(1)}
         rest == DOMAIN region.shape \ removed
         shape == Keep(region.shape, rest)
     IN  IF \/ ~valid \/ Cardinality(axes) # Len(Member.dims)
            \/ \E a \in axes \ removed : extent(a).op # "const" /\ ~AtLeastTwo(extent(a))
            \/ rest = {}
         THEN Rejected
         ELSE region' = [region EXCEPT
                !.k = @ + 1, !.shape = shape, !.ops = Append(@, [kind |-> "reshape", shape |-> shape]),
                !.strides = IF @ = <<>> THEN @ ELSE Keep(@, rest),
                !.guards = @ \cup SqueezeGuards({extent(a) : a \in axes \ removed})]

\* flatten merges a range of axes; reshape and view infer at most one extent.
Flattened(m) ==
  LET rank == Len(region.shape)
      from == ViewDim(m.start, rank)
      to == ViewDim(m.end, rank)
  IN  IF ~AxisIn(m.start, rank) \/ ~AxisIn(m.end, rank) \/ from > to THEN <<>>
      ELSE SubSeq(region.shape, 1, from - 1) \o <<product(SubSeq(region.shape, from, to))>>
           \o SubSeq(region.shape, to + 1, rank)
\* External: Torch decides between a view and a copy for the extent it captured
\* with, and Dynamo's guards keep to the extents of the same decision.  The
\* importer reads the resulting strides; only whether they are dense matters.
AsCaptured(shape, family) ==
  LET copies(n) == ~Viewable(Eager(region.in, n, region.k - 1), Concretely(shape, n))
  IN  {n \in family : copies(n) = copies(CapturedExtent)}
ReadsDense(shape, family) ==
  \A n \in family :
    LET dims == Concretely(shape, n)
    IN  TorchReshape(Eager(region.in, n, region.k - 1), dims).strides = RowStrides(dims)
ReshapedTo(shape, family) ==
  [region EXCEPT
     !.k = @ + 1, !.shape = shape, !.ops = Append(@, [kind |-> "reshape", shape |-> shape]), !.family = family,
     !.strides = IF IsDense \/ ReadsDense(shape, family) THEN dense_strides(shape) ELSE <<>>]
ConstantsFolded(target) == [k \in DOMAIN target |-> ConstantFold(target[k])]
AsReshape(shape) == ReshapedTo(shape, IF IsDense THEN region.family ELSE AsCaptured(shape, region.family))
Reshape ==
  /\ Turn("reshape")
  /\ LET target == IF Member.flatten THEN Flattened(Member) ELSE infer_reshape(region.shape, Member.target)
     IN  IF target = <<>> THEN Rejected ELSE region' = AsReshape(ConstantsFolded(target))

\* constant_pad_nd: pairs of widths from the last axis backwards.
PadOps(widths, rank, dtype) ==
  [i \in 1 .. Len(widths) \div 2 |->
     [kind |-> "pad", axis |-> rank + 1 - i, lo |-> Const(widths[2 * i - 1]), hi |-> Const(widths[2 * i]),
      fill |-> [dtype |-> dtype, bits |-> 0]]]
PadMember ==
  /\ Turn("pad")
  /\ LET m == Member
         rank == Len(region.shape)
         pads == PadOps(m.widths, rank, region.dtype)
         shape == FoldLeft(operation_shape, region.shape, pads)
     IN  IF \/ Len(m.widths) % 2 # 0 \/ Len(m.widths) > 2 * rank
            \/ \E k \in DOMAIN m.widths : m.widths[k] < 0
         THEN Rejected
         ELSE region' = [region EXCEPT !.k = @ + 1, !.ops = @ \o pads, !.shape = shape,
                                       !.strides = dense_strides(shape)]

\* Defect: the family of extents for which contiguous() copies is not guarded.
ContiguousGuardsNone(shape) == {}

\* contiguous() copies only a tensor that is not contiguous, which depends on
\* which extents are 1; clone() keeps the strides unless told otherwise.
ContiguousGuards(shape) == {e \in Range(shape) : e.op # "const"}
Static(shape) == \A k \in DOMAIN shape : shape[k].op = "const"
Materialize ==
  /\ Turn("materialize")
  /\ LET m == Member
         certain == \A k \in DOMAIN region.shape : AtLeastTwo(region.shape[k])
     IN  IF \/ m.format = "other"
            \/ m.target = "contiguous" /\ ~IsDense /\ ~certain /\ ~Static(region.in.shape)
         THEN Rejected
         ELSE IF m.target = "contiguous"
         THEN region' = [region EXCEPT
                !.k = @ + 1,
                \* With constant extents the actual descriptor is at hand.
                !.strides = IF IsDense \/ certain THEN dense_strides(region.shape)
                            ELSE IF @ = <<>> THEN @
                            ELSE IF IsContiguous(Concretely(region.shape, 0), Concretely(@, 0)) THEN @
                            ELSE dense_strides(region.shape),
                !.guards = IF ~IsDense /\ certain THEN @ \cup ContiguousGuards(region.shape) ELSE @]
         ELSE region' = [region EXCEPT
                !.k = @ + 1,
                !.strides = IF m.format = "contiguous" THEN dense_strides(region.shape) ELSE @]

\* The region moves between devices and ends dense.
Finished ==
  /\ region.at = "members" /\ region.k > Len(region.in.members)
  /\ IF region.direction = "none" \/ ~IsDense THEN Rejected
     ELSE region' = [region EXCEPT !.at = "candidate"]

RegionNext ==
  \/ Start \/ Transfer \/ Dequantize \/ Quantize \/ Permute \/ Unsqueeze \/ Squeeze
  \/ Reshape \/ PadMember \/ Materialize \/ Finished

(***************************************************************************)
(* Properties                                                              *)
(***************************************************************************)
\* The recipe on a concrete source, element by element.
Recipe ==
  [source |-> [shape |-> region.in.shape, strides |-> dense_strides(region.in.shape),
               offset |-> Const(0), dtype |-> region.in.dtype],
   operations |-> region.ops, direction |-> region.direction,
   destination |-> [shape |-> region.shape, strides |-> region.strides,
                    offset |-> Const(0), dtype |-> region.dtype]]
RecipeCall(t, op, b) ==
  CASE op.kind = "transpose" -> TorchPermute(t, op.perm)
    [] op.kind = "reshape" ->
         LET dims == [k \in DOMAIN op.shape |-> Value(op.shape[k], b)]
         IN  [t EXCEPT !.dims = dims, !.data = Redim(t, dims)]
    [] op.kind = "pad" ->
         LET dims == [t.dims EXCEPT ![op.axis] = @ + Value(op.lo, b) + Value(op.hi, b)]
             from(c) == [c EXCEPT ![op.axis] = @ - Value(op.lo, b)]
         IN  [t EXCEPT !.dims = dims,
                       !.data = [c \in Coords(dims) |->
                                   IF from(c) \in Coords(t.dims) THEN t.data[from(c)] ELSE 0]]
    [] OTHER -> [t EXCEPT !.dtype = op.dtype]
Relocated(n) ==
  FoldLeft(LAMBDA t, op : RecipeCall(t, op, <<n>>),
           LET dims == Concretely(region.in.shape, n)
           IN  Tensor(dims, RowStrides(dims), region.in.dtype, region.in.device), region.ops)

(***************************************************************************)
(* A candidate's recipe computes what the region computes: for every       *)
(* extent that bind_recipe accepts and the guards admit, the relocated     *)
(* tensor has the elements, extents, strides and element type of the       *)
(* region run eagerly, even where Torch's contiguous() and squeeze()       *)
(* behave differently for extents of 1 (fx_import.py, _recipe).            *)
(***************************************************************************)
RecipeIsRegion ==
  region.at = "candidate" =>
    \A n \in region.family :
      LET dims == Concretely(region.in.shape, n)
          source == [shape |-> dims, strides |-> RowStrides(dims), offset |-> 0, dtype |-> region.in.dtype]
      IN  /\ \A e \in region.guards : Value(e, <<n>>) >= 2
          /\ Executable(Recipe, source, <<n>>)
          => LET eager == Eager(region.in, n, Len(region.in.members))
                 moved == Relocated(n)
             IN  /\ moved.dims = eager.dims /\ moved.data = eager.data /\ moved.dtype = eager.dtype
                 /\ Concretely(region.strides, n) = eager.strides /\ eager.device = region.device
=============================================================================
