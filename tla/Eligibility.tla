---------------------------- MODULE Eligibility ----------------------------
(****************************************************************************)
(* Which transfers are taken over: the decision on an intercepted eager     *)
(* call (eager.py, decide), the classification of an observed transfer      *)
(* (eligibility.py), the guard every execution repeats on the live tensor   *)
(* (runtime.py, source_reason), and the reuse of that admission while the   *)
(* request is prepared.  The first two read a record of the tensor, the     *)
(* third the tensor itself: the same rules, written twice.                  *)
(*                                                                          *)
(* A tensor is a record of the metadata the rules read.  The index of a     *)
(* device is NoIndex where Torch has None.  One other thread may replace    *)
(* the tensor's metadata in place (resize_, set_, requires_grad_).          *)
(****************************************************************************)
EXTENDS Integers, Sequences, SequencesExt

CONSTANTS
  Transfers,       \* what is decided on: see EligibilityInit
  CurrentDevice    \* index of the current CUDA device

ASSUME CurrentDeviceAssumption == CurrentDevice \in Nat

VARIABLE transfer
eligibilityVars == <<transfer>>

NoIndex == -1
NoDevice == <<"none", NoIndex>>
NoTarget == [shape |-> <<>>, strides |-> <<>>, dtype |-> "none", device |-> NoDevice]

\* An eager call on a tensor, or a record that the observer made of one; what
\* another thread makes of the tensor meanwhile, if anything.
EligibilityInit ==
  transfer \in {[at |-> t.start, in |-> t, source |-> t.source, grad |-> t.grad, direction |-> "none",
                 target |-> NoTarget, checked |-> NoTarget, reason |-> "none"] : t \in Transfers}
Asked == transfer.in.call

(***************************************************************************)
(* Torch's view of strides (external)                                      *)
(***************************************************************************)
NumElements(shape) == FoldLeft(LAMBDA a, d : a * d, 1, shape)
DenseStride(shape, k) == NumElements(SubSeq(shape, k + 1, Len(shape)))
IsContiguousTensor(t) == \A k \in DOMAIN t.shape : t.shape[k] = 1 \/ t.strides[k] = DenseStride(t.shape, k)

\* The first rule that applies gives the reason: rules are <<condition, reason>>.
FirstReason(rules) ==
  LET applying == {i \in DOMAIN rules : rules[i][1]}
  IN  IF applying = {} THEN "none" ELSE rules[CHOOSE i \in applying : \A j \in applying : i <= j][2]

(***************************************************************************)
(* Records                                                                 *)
(***************************************************************************)
\* compat.tensor_metadata: what cannot be read of a tensor takes a default.
TensorMetadata(t) ==
  [shape |-> t.shape, strides |-> IF t.layout = "strided" THEN t.strides ELSE <<>>, offset |-> t.offset,
   dtype |-> t.dtype, device |-> t.device, requires_grad |-> t.requires_grad, layout |-> t.layout,
   capacity |-> IF t.layout = "strided" THEN t.capacity ELSE NoIndex, is_subclass |-> ~t.plain]

DenseStrides(shape) == [k \in DOMAIN shape |-> DenseStride(shape, k)]

\* What a record is of; only a change of device is a transfer ("none").
Category(r) ==
  FirstReason(<<<<r.mutates, "mutation">>, <<r.source.device # r.destination.device, "none">>,
                <<r.source.dtype # r.destination.dtype, "typed_transform_unavailable">>,
                <<r.operator = "view", "layout_only">>, <<r.operator = "_to_copy", "same_device_copy">>,
                <<TRUE, "unsupported_operator">>>>)

UnsupportedDevice(d) ==
  \/ d[1] \notin {"cpu", "cuda"}
  \/ d[1] = "cpu" /\ d[2] # NoIndex
  \/ d[1] = "cuda" /\ d[2] < 0
SupportedDtypes == {"f32", "f16", "bf16", "i8"}
TransferCasts == {<<"f32", "f16">>, <<"f16", "f32">>, <<"f32", "bf16">>, <<"bf16", "f32">>}

\* The strides of extents above 1 are those of a dense tensor.
IsDenseContiguous(m) ==
  Len(m.shape) = Len(m.strides) /\ \A k \in DOMAIN m.shape : m.shape[k] = 1 \/ m.strides[k] = DenseStride(m.shape, k)
MetadataReason(m) ==
  FirstReason(<<<<m.requires_grad, "requires_grad">>, <<UnsupportedDevice(m.device), "unsupported_device">>,
                <<m.dtype \notin SupportedDtypes, "unsupported_dtype">>,
                <<m.layout # "strided", "unsupported_layout">>, <<m.shape = <<>>, "unsupported_rank">>,
                <<(\E k \in DOMAIN m.shape : m.shape[k] = 0) \/ m.capacity = 0, "empty_tensor">>,
                <<m.offset # 0, "storage_offset">>, <<m.is_subclass, "tensor_subclass">>,
                <<~IsDenseContiguous(m), "unsupported_layout">>>>)

\* classify: why the record is excluded, "none" for a candidate.
classify(r) ==
  FirstReason(<<<<r.failed, "operator_failed">>, <<Category(r) # "none", Category(r)>>,
                <<MetadataReason(r.source) # "none", MetadataReason(r.source)>>,
                <<MetadataReason(r.destination) # "none", MetadataReason(r.destination)>>,
                <<{r.source.device[1], r.destination.device[1]} # {"cpu", "cuda"}, "unsupported_device">>,
                <<r.non_blocking, "nonblocking_unavailable">>, <<r.aliases, "unsupported_layout">>,
                <<r.source.dtype # r.destination.dtype /\ <<r.source.dtype, r.destination.dtype>> \notin TransferCasts,
                  "typed_transform_unavailable">>,
                <<r.operator # "_to_copy", "unsupported_operator">>>>)

(***************************************************************************)
(* decide                                                                  *)
(***************************************************************************)
\* The device asked for; a CUDA device without an index is the current one.
Destination ==
  IF Asked.device = NoDevice THEN transfer.source.device
  ELSE IF Asked.device = <<"cuda", NoIndex>> THEN <<"cuda", CurrentDevice>> ELSE Asked.device
DestinationType == IF Asked.dtype = "none" THEN transfer.source.dtype ELSE Asked.dtype

\* Defect: a gradient that nothing records still excludes the source.
ObservedAlways == TensorMetadata(transfer.source)
\* Without grad mode a parameter is an ordinary source.
Observed ==
  [TensorMetadata(transfer.source) EXCEPT !.requires_grad = @ /\ transfer.grad]
EagerRecord ==
  [operator |-> "_to_copy", mutates |-> FALSE, failed |-> FALSE, aliases |-> FALSE,
   non_blocking |-> Asked.non_blocking, source |-> Observed,
   destination |-> [Observed EXCEPT !.strides = DenseStrides(Observed.shape), !.offset = 0, !.dtype = DestinationType,
                                    !.device = IF Destination[1] = "cpu" THEN <<"cpu", NoIndex>> ELSE Destination]]

Excluded ==
  FirstReason(<<<<Asked.operator # "_to_copy", "unsupported_operator">>,
                <<~transfer.source.plain, "tensor_subclass">>, <<Asked.layout # "strided", "unsupported_layout">>,
                <<Asked.pin_memory, "pinned_transfer_unavailable">>,
                <<Asked.format \notin {"preserve", "contiguous"}, "unsupported_memory_format">>,
                <<DestinationType # transfer.source.dtype, "typed_transform_unavailable">>,
                <<Destination = transfer.source.device, "same_device_copy">>,
                <<classify(EagerRecord) # "none", classify(EagerRecord)>>>>)
Decide ==
  /\ transfer.at = "called"
  /\ transfer' = IF Excluded # "none" THEN [transfer EXCEPT !.at = "redispatched", !.reason = Excluded]
                 ELSE [transfer EXCEPT !.at = "decided", !.target.device = Destination,
                         !.direction = IF transfer.source.device[1] = "cpu" THEN "h2d" ELSE "d2h"]

\* Observed transfers are classified and only reported.
Classify ==
  /\ transfer.at = "observed"
  /\ LET reason == classify([Asked EXCEPT !.source = TensorMetadata(Asked.source),
                                         !.destination = TensorMetadata(Asked.destination)])
     IN  transfer' = [transfer EXCEPT !.at = "classified", !.reason = reason]

(***************************************************************************)
(* Admission of the live tensor                                            *)
(***************************************************************************)
source_reason(t, grad) ==
  FirstReason(<<<<~t.plain, "tensor_subclass">>, <<t.requires_grad /\ grad, "requires_grad">>,
                <<UnsupportedDevice(t.device), "unsupported_device">>,
                <<t.dtype \notin SupportedDtypes, "unsupported_dtype">>,
                <<t.layout # "strided", "unsupported_layout">>, <<t.shape = <<>>, "unsupported_rank">>,
                <<(\E k \in DOMAIN t.shape : t.shape[k] = 0) \/ t.capacity = 0, "empty_tensor">>,
                <<t.offset # 0, "storage_offset">>,
                <<t.layout = "strided" /\ ~IsContiguousTensor(t), "unsupported_layout">>>>)

\* compat.storage_snapshot, and the two flags that it does not contain.
Snapshot(t) == [t EXCEPT !.requires_grad = FALSE]

\* The identity recipe's symbols are the extents; it was compiled for the
\* rank, type and direction that were decided on.
Described(t, device) ==
  [shape |-> t.shape, strides |-> DenseStrides(t.shape), dtype |-> t.dtype, device |-> device]
Matches(t) ==
  Len(t.shape) = Len(transfer.in.source.shape) /\ t.dtype = transfer.in.source.dtype
FallBack == [transfer EXCEPT !.at = "fallback"]
AdmitLive ==
  /\ transfer.at = "decided"
  /\ transfer' =
       IF source_reason(transfer.source, transfer.grad) # "none" \/ ~Matches(transfer.source) THEN FallBack
       ELSE [transfer EXCEPT !.at = "bound", !.target = Described(transfer.source, @.device),
               !.checked = [source |-> Snapshot(transfer.source), grad |-> <<transfer.source.requires_grad, transfer.grad>>]]

\* Another thread changes the tensor between two steps of the call.
Change ==
  /\ transfer.at \in {"decided", "bound"} /\ transfer.source # transfer.in.change
  /\ transfer.source = transfer.in.source
  /\ transfer' = [transfer EXCEPT !.source = transfer.in.change]

\* Defect: gradients that appeared since are not looked at.
ReusableMetadata == transfer.checked.source = Snapshot(transfer.source)
\* _validated_preparation: only this invocation's admission of this very tensor.
Reusable ==
  /\ transfer.checked.source = Snapshot(transfer.source)
  /\ transfer.checked.grad = <<transfer.source.requires_grad, transfer.grad>>

\* prepare_transfer and the adapter's copy of it: admission and binding again
\* unless they may be reused; then the frontend compares the bindings.
Prepare ==
  /\ transfer.at = "bound"
  /\ LET bound == IF Reusable THEN transfer.checked.source ELSE transfer.source
         ends == IF transfer.direction = "h2d" THEN <<"cpu", "cuda">> ELSE <<"cuda", "cpu">>
     IN  transfer' =
           IF \/ ~Reusable /\ source_reason(transfer.source, transfer.grad) # "none"
              \/ <<transfer.source.device[1], transfer.target.device[1]>> # ends \/ ~Matches(bound)
           THEN FallBack
           ELSE [transfer EXCEPT !.at = IF bound.shape = transfer.target.shape THEN "prepared" ELSE "raised"]

(***************************************************************************)
(* The result                                                              *)
(***************************************************************************)
\* External: the native copy allocates what was promised; Torch keeps the
\* strides of a source without gaps unless a dense result is asked for.
NativeResult == transfer.target
TorchResult ==
  [shape |-> transfer.source.shape, dtype |-> DestinationType, device |-> Destination,
   strides |-> IF Asked.format = "contiguous" THEN DenseStrides(transfer.source.shape) ELSE transfer.source.strides]

\* verify_result: strides count only where an extent is above 1.
Verified(result) ==
  /\ result.shape = transfer.target.shape /\ result.dtype = transfer.target.dtype
  /\ \A k \in DOMAIN result.shape : result.shape[k] = 1 \/ result.strides[k] = transfer.target.strides[k]
  /\ result.device = transfer.target.device
Return(ok) == transfer' = [transfer EXCEPT !.at = IF ok THEN "returned" ELSE "raised"]
Executed == transfer.at = "prepared" /\ Return(Verified(NativeResult))
\* Nothing is promised before the descriptor was computed.
OriginalRan == transfer.at = "fallback" /\ Return(transfer.target.shape = <<>> \/ Verified(TorchResult))

EligibilityNext == Decide \/ Classify \/ AdmitLive \/ Change \/ Prepare \/ Executed \/ OriginalRan

(***************************************************************************)
(* Properties                                                              *)
(***************************************************************************)
\* "Only real, blocking, dtype-preserving CPU<->CUDA aten._to_copy calls on
\* plain dense tensors are intercepted."
Interceptable ==
  /\ Asked.operator = "_to_copy" /\ Asked.layout = "strided" /\ ~Asked.pin_memory /\ ~Asked.non_blocking
  /\ Asked.format \in {"preserve", "contiguous"} /\ DestinationType = transfer.source.dtype
  /\ {transfer.source.device[1], Destination[1]} = {"cpu", "cuda"}
  /\ source_reason(transfer.source, transfer.grad) = "none"

\* Every interceptable transfer is intercepted and no other: the rules of the
\* record and the rules of the live tensor (eligibility.py, runtime.py) admit
\* the same tensors.  A transfer is classified a candidate only if its source
\* and its destination are admissible.  What is prepared is admissible at that
\* moment and bound to the tensor's present extents, even if the admission was
\* reused and the tensor changed in between.  A tensor that nobody changes is
\* never the reason for an error: any result of Torch's own passes the check.
AdmissionExact ==
  /\ transfer.at # "none" /\ transfer.source = transfer.in.source =>
       /\ transfer.at = "decided" => Interceptable
       /\ transfer.at = "redispatched" => ~Interceptable
       /\ transfer.at \notin {"fallback", "raised"}
  /\ transfer.at = "classified" /\ transfer.reason = "none" =>
       /\ ~Asked.mutates /\ ~Asked.aliases /\ ~Asked.failed
       /\ source_reason(Asked.source, TRUE) = "none" /\ source_reason(Asked.destination, TRUE) = "none"
  /\ transfer.at = "prepared" =>
       /\ source_reason(transfer.source, transfer.grad) = "none"
       /\ transfer.source.shape = transfer.target.shape /\ transfer.source.dtype = transfer.target.dtype
       /\ {transfer.source.device[1], transfer.target.device[1]} = {"cpu", "cuda"}
=============================================================================
