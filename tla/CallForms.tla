----------------------------- MODULE CallForms -----------------------------
(****************************************************************************)
(* From the many ways a program may write a tensor call to the one form     *)
(* that the importer reads (compat.py, fx_canonical_call), and the metadata *)
(* it derives for calls that were captured without any (fx_fake_call).      *)
(*                                                                          *)
(* A value is a pair of its type and its payload.  A call has a form (a     *)
(* method, a Python function, an operator packet or a resolved overload), a *)
(* name, a variant if it is an overload, positional and keyword arguments.  *)
(* Which calls Torch accepts and what they mean to it is external: a table  *)
(* of signatures, bound as its argument parser binds them.                  *)
(****************************************************************************)
EXTENDS Integers, Sequences, FiniteSets, SequencesExt

CONSTANT Calls  \* calls as captured: [call, recorded, known] (see CallFormsInit)

VARIABLE call
callVars == <<call>>

NoValue == <<"none", "none">>
False == <<"bool", FALSE>>
TypeOf(v) == v[1]
Payload(v) == v[2]
With(kwargs, k, v) == [n \in DOMAIN kwargs \cup {k} |-> IF n = k THEN v ELSE kwargs[n]]
Without(kwargs, k) == [n \in DOMAIN kwargs \ {k} |-> kwargs[n]]
Get(kwargs, k, default) == IF k \in DOMAIN kwargs THEN kwargs[k] ELSE default

\* The tensor that every call is made on.
Source == <<"tensor", [device |-> "cpu", dtype |-> "f32"]>>

\* A captured call and whether its own and its source's metadata are recorded.
CallFormsInit ==
  call \in {[at |-> "written", in |-> c, canon |-> c.call, value |-> NoValue] : c \in Calls}
Written == call.in.call

(***************************************************************************)
(* Torch's signatures (external)                                           *)
(***************************************************************************)
Required == <<"required", "">>
P(name, types, default) == [name |-> name, types |-> types, default |-> default]
R(name, types) == P(name, types, Required)
Row(forms, name, variant, params) ==
  [forms |-> forms, name |-> name, variant |-> variant, params |-> <<R("self", {"tensor"})>> \o params]
Format == P("memory_format", {"format", "none"}, NoValue)
Options == <<P("non_blocking", {"bool"}, False), P("copy", {"bool"}, False), Format>>
AnyDevice == P("device", {"str", "device", "int", "none"}, NoValue)
Index == <<R("dim", {"int"}), R("index", {"tensor"})>>
Numbers == {"tensor", "int", "float"}
Each == {"method", "function", "overload"}
Quantized == {"dequantize_per_tensor", "quantize_per_tensor"}
PerChannel == {"dequantize_per_channel", "quantize_per_channel"}
Signatures ==
  {Row({"method"}, "to", "any", <<AnyDevice, P("dtype", {"dtype", "none"}, NoValue)>> \o Options),
   Row({"method", "overload"}, "to", "dtype", <<R("dtype", {"dtype"})>> \o Options),
   Row({"method", "overload"}, "to", "other", <<R("other", {"tensor"})>> \o Options),
   Row({"overload"}, "to", "device", <<R("device", {"device"}), R("dtype", {"dtype"})>> \o Options),
   Row({"method"}, "cpu", "", <<Format>>),
   Row({"method"}, "cuda", "", <<AnyDevice, Options[1], Format>>),
   Row(Each, "permute", "default", <<R("dims", {"ints"})>>),
   Row(Each, "transpose", "int", <<R("dim0", {"int"}), R("dim1", {"int"})>>),
   Row(Each, "t", "default", <<>>),
   Row({"method", "overload"}, "view", "default", <<R("size", {"ints"})>>),
   Row({"method"}, "view", "dtype", <<R("dtype", {"dtype"})>>),
   Row(Each, "reshape", "default", <<R("shape", {"ints"})>>),
   Row(Each, "squeeze", "default", <<>>),
   Row(Each, "squeeze", "dim", <<R("dim", {"int"})>>),
   Row(Each, "squeeze", "dims", <<R("dim", {"ints"})>>),
   Row(Each, "unsqueeze", "default", <<R("dim", {"int"})>>),
   Row(Each, "flatten", "using_ints", <<P("start_dim", {"int"}, <<"int", 0>>), P("end_dim", {"int"}, <<"int", -1>>)>>),
   Row(Each, "index_select", "default", Index),
   Row({"function"}, "index_select", "out", Append(Index, R("out", {"tensor"}))),
   Row({"method", "overload"}, "contiguous", "default", <<Format>>),
   Row(Each, "clone", "default", <<Format>>),
   Row({"function"}, "pad", "", <<R("pad", {"ints"}), P("mode", {"mode"}, <<"mode", "constant">>),
                                  P("value", {"int", "none"}, NoValue)>>),
   Row({"overload"}, "constant_pad_nd", "default", <<R("pad", {"ints"}), P("value", {"int"}, <<"int", 0>>)>>),
   Row({"method"}, "size", "", <<>>),
   Row({"method"}, "size", "int", <<R("dim", {"int"})>>),
   Row({"overload"}, "sym_size", "int", <<R("dim", {"int"})>>),
   Row({"function"}, "getattr", "", <<R("attribute", {"attribute"})>>),
   Row({"function"}, "getitem", "", <<R("index", {"int"})>>),
   [Row({"function"}, "getitem", "sizes", <<R("index", {"int"})>>) EXCEPT !.params[1].types = {"ints"}],
   [Row({"function"}, "mul", "", <<R("other", Numbers)>>) EXCEPT !.params[1].types = Numbers],
   Row({"method"}, "relu", "", <<>>)}
  \cup {Row({"packet", "overload"}, n, "default", <<R("scale", {"float"})>>) : n \in Quantized}
  \cup {Row({"packet", "overload"}, n, "tensor", <<R("scale", {"tensor"})>>) : n \in Quantized}
  \cup {Row({"packet", "overload"}, n, "default", <<R("scale", {"tensor"})>>) : n \in PerChannel}

\* Python writes memory_format and out as keywords only.
Positional(form, sig) ==
  IF form = "overload" THEN Len(sig.params)
  ELSE Cardinality({i \in DOMAIN sig.params : sig.params[i].name \notin {"memory_format", "out"}})
NameOf(form, sig, i) == IF i = 1 /\ form = "function" THEN "input" ELSE sig.params[i].name

BindsTo(c, args, sig) ==
  /\ c.form \in sig.forms /\ c.name = sig.name /\ (c.form = "overload" => c.variant = sig.variant)
  /\ Len(args) <= Positional(c.form, sig)
  /\ \A i \in DOMAIN args : TypeOf(args[i]) \in sig.params[i].types
  /\ \A i \in Len(args) + 1 .. Len(sig.params) :
       IF NameOf(c.form, sig, i) \in DOMAIN c.kwargs
       THEN TypeOf(c.kwargs[NameOf(c.form, sig, i)]) \in sig.params[i].types
       ELSE sig.params[i].default # Required
  /\ DOMAIN c.kwargs \subseteq {NameOf(c.form, sig, i) : i \in Len(args) + 1 .. Len(sig.params)}
Bind(c, args, sig) ==
  [i \in 2 .. Len(sig.params) |->
     IF i <= Len(args) THEN args[i] ELSE Get(c.kwargs, sig.params[i].name, sig.params[i].default)]
\* A method whose only argument is a list of integers takes them spread out.
Gathered(c) ==
  IF /\ c.form = "method" /\ c.name \in {"permute", "view", "reshape", "squeeze"} /\ Len(c.args) >= 2
     /\ \A i \in 2 .. Len(c.args) : TypeOf(c.args[i]) = "int"
     /\ c.name = "squeeze" => Len(c.args) > 2
  THEN <<c.args[1], <<"ints", [i \in 1 .. Len(c.args) - 1 |-> Payload(c.args[i + 1])]>>>>
  ELSE c.args
Accepting(c) == {sig \in Signatures : BindsTo(c, Gathered(c), sig)}
Accepts(c) == Accepting(c) # {}

\* What a call does, whatever it is written as.
DeviceOf(v, default) ==
  CASE TypeOf(v) = "none" -> default
    [] TypeOf(v) = "int" -> <<"cuda", Payload(v)>>
    [] OTHER -> Payload(v)
Move(device, dtype, nonblocking, copy, format) ==
  [does |-> "to", device |-> device, dtype |-> dtype, non_blocking |-> nonblocking, copy |-> copy, format |-> format]
Does(what, with) == [does |-> what, with |-> with]
Meaning(c) ==
  LET sig == CHOOSE s \in Accepting(c) : TRUE
      o == Bind(c, Gathered(c), sig)
      from == Payload(c.args[1])
  IN  CASE c.name = "to" /\ sig.variant = "other" ->
             Move(Payload(o[2]).device, Payload(o[2]).dtype, o[3], o[4], o[5])
        [] c.name = "to" /\ sig.variant = "dtype" -> Move(from.device, Payload(o[2]), o[3], o[4], o[5])
        [] c.name = "to" /\ sig.variant \in {"any", "device"} ->
             Move(DeviceOf(o[2], from.device), IF o[3] = NoValue THEN from.dtype ELSE Payload(o[3]), o[4], o[5], o[6])
        [] c.name = "cpu" -> Move("cpu", from.dtype, False, False, o[2])
        [] c.name = "cuda" -> Move(DeviceOf(o[2], "cuda"), from.dtype, o[3], False, o[4])
        [] c.name = "t" -> Does("transpose", <<<<"int", 0>>, <<"int", 1>>>>)
        [] c.name = "transpose" -> Does("transpose", <<o[2], o[3]>>)
        [] c.name = "squeeze" ->
             Does("squeeze", CASE sig.variant = "default" -> {"every"} [] sig.variant = "dim" -> {<<Payload(o[2])>>}
                               [] OTHER -> {Payload(o[2])})
        [] c.name = "pad" -> Does("pad", <<o[2], o[3], IF o[4] = NoValue THEN <<"int", 0>> ELSE o[4]>>)
        [] c.name = "constant_pad_nd" -> Does("pad", <<o[2], <<"mode", "constant">>, o[3]>>)
        [] c.name \in {"size", "sym_size"} /\ sig.variant = "int" -> Does("size", o[2])
        [] OTHER -> Does(<<c.name, sig.variant>>, o)

(***************************************************************************)
(* The canonical call                                                      *)
(***************************************************************************)
\* fx_kind: the closed vocabulary; anything else stays as written.
CallKind(c) ==
  CASE c.name = "to" \/ (c.form = "method" /\ c.name \in {"cpu", "cuda"}) -> "transfer"
    [] c.name \in {"permute", "transpose", "t", "squeeze", "unsqueeze", "flatten", "index_select"} -> c.name
    [] c.name \in {"view", "reshape"} -> "reshape"
    [] c.name = "contiguous" \/ (c.name = "clone" /\ c.form # "method") -> "materialize"
    [] c.name \in {"pad", "constant_pad_nd"} -> "pad"
    [] c.name \in {"size", "sym_size", "getattr", "getitem", "mul"} -> "scalar"
    [] c.name \in Quantized \cup PerChannel -> "typed"
    [] OTHER -> "unknown"

Kind == CallKind(Written)
Resolved == Written.form = "overload"
Exclude == call' = [call EXCEPT !.at = "excluded"]
Become(name, variant, args, kwargs) ==
  call' = [call EXCEPT !.at = "canonical",
             !.canon = [form |-> "overload", name |-> name, variant |-> variant, args |-> args, kwargs |-> kwargs]]

\* The source is the first argument, or a keyword: [args, kwargs, ok].
SourceFirst(c, keyword) ==
  IF c.args # <<>> THEN [args |-> c.args, kwargs |-> c.kwargs, ok |-> TRUE]
  ELSE IF keyword \in DOMAIN c.kwargs
  THEN [args |-> <<c.kwargs[keyword]>>, kwargs |-> Without(c.kwargs, keyword), ok |-> TRUE]
  ELSE [args |-> <<>>, kwargs |-> c.kwargs, ok |-> FALSE]
SelfKey(c) == IF "self" \in DOMAIN c.kwargs THEN "self" ELSE "input"

Writing == call.at = "written"
Unrecognized == Writing /\ Kind = "unknown" /\ Exclude

\* t() is transpose(0, 1).
MatrixTranspose ==
  /\ Writing /\ Kind = "t"
  /\ LET s == SourceFirst(Written, SelfKey(Written))
     IN  IF s.ok THEN Become("transpose", "int", <<s.args[1], <<"int", 0>>, <<"int", 1>>>>, [k \in {} |-> NoValue])
         ELSE Exclude

\* quantized_overload: a packet resolves as the dispatcher does, by its scale.
QuantizedVariant(c) ==
  LET scale == IF Len(c.args) > 1 THEN c.args[2] ELSE Get(c.kwargs, "scale", NoValue)
  IN  IF c.name \in Quantized /\ TypeOf(scale) = "tensor" THEN "tensor" ELSE "default"
QuantizedPacket ==
  Writing /\ Written.form = "packet" /\ Become(Written.name, QuantizedVariant(Written), Written.args, Written.kwargs)

IndexSelect ==
  /\ Writing /\ Kind = "index_select"
  /\ LET s == SourceFirst(Written, SelfKey(Written))
     IN  IF "out" \in DOMAIN Written.kwargs \/ ~s.ok THEN Exclude
         ELSE Become("index_select", "default", s.args, s.kwargs)

\* Defect: an explicit dim of squeeze given by keyword is not looked at.
SqueezeVariantPositional(args, kwargs) ==
  IF Len(args) = 1 THEN "default" ELSE IF TypeOf(args[2]) = "int" THEN "dim" ELSE "dims"
SqueezeVariant(args, kwargs) ==
  IF Len(args) = 1 /\ "dim" \notin DOMAIN kwargs THEN "default"
  ELSE LET dim == IF Len(args) > 1 THEN args[2] ELSE kwargs["dim"]
       IN  CASE TypeOf(dim) = "int" -> "dim" [] TypeOf(dim) = "ints" -> "dims" [] OTHER -> "unsupported"
ViewDimension ==
  /\ Writing /\ Kind \in {"squeeze", "unsqueeze", "flatten"}
  /\ LET s == SourceFirst(Written, SelfKey(Written))
         variant == CASE Resolved -> Written.variant
                      [] Kind = "squeeze" -> SqueezeVariant(s.args, s.kwargs)
                      [] Kind = "unsqueeze" -> "default"
                      [] Kind = "flatten" -> "using_ints"
     IN  IF ~s.ok \/ variant = "unsupported" THEN Exclude
         ELSE Become(Written.name, variant, s.args, s.kwargs)

\* Every other resolved overload is canonical as it is.
OtherKinds == {"transfer", "permute", "reshape", "transpose", "materialize", "pad", "scalar", "typed"}
AlreadyResolved ==
  Writing /\ Kind \in OtherKinds /\ Resolved /\ Become(Written.name, Written.variant, Written.args, Written.kwargs)
Unresolved == Writing /\ Kind \in OtherKinds /\ Written.form \in {"method", "function"}

\* Tensor.to: copy is cut off before the rest is bound as Torch's own parser
\* binds it, which takes no copy.
CopyIndex(args) == IF args # <<>> /\ TypeOf(args[1]) \in {"str", "device"} THEN 3 ELSE 2
ParseTo(args, kwargs) == [form |-> "method", name |-> "to", variant |-> "", args |-> <<Source>> \o args, kwargs |-> kwargs]
MoveToAny ==
  /\ Unresolved /\ Written.name = "to"
  /\ LET given == Tail(Written.args)
         index == CopyIndex(given)
         cut == Len(given) > index
         copy == IF cut THEN given[Len(given)] ELSE Get(Written.kwargs, "copy", False)
         parsed == ParseTo(IF cut THEN SubSeq(given, 1, index) ELSE given, Without(Written.kwargs, "copy"))
         m == Meaning(parsed)
     IN  IF \/ ~call.in.known
            \/ cut /\ (Len(given) # index + 1 \/ "copy" \in DOMAIN Written.kwargs)
            \/ TypeOf(copy) # "bool" \/ ~Accepts(parsed)
         THEN Exclude
         ELSE Become("to", "device", <<Source, <<"device", m.device>>, <<"dtype", m.dtype>>>>,
                     [non_blocking |-> m.non_blocking, copy |-> copy, memory_format |-> m.format])

MoveToCpu ==
  /\ Unresolved /\ Written.name = "cpu"
  /\ IF ~call.in.known THEN Exclude
     ELSE Become("to", "device", <<Source, <<"device", "cpu">>, <<"dtype", Payload(Source).dtype>>>>,
                 IF Len(Written.args) > 1 THEN With(Written.kwargs, "memory_format", Written.args[2]) ELSE Written.kwargs)

CudaOptions(c) ==
  LET rest == Without(c.kwargs, "device")
      second == IF Len(c.args) > 2 THEN With(rest, "non_blocking", c.args[3]) ELSE rest
  IN  IF Len(c.args) > 3 THEN With(second, "memory_format", c.args[4]) ELSE second
MoveToCuda ==
  /\ Unresolved /\ Written.name = "cuda"
  /\ LET device == IF Len(Written.args) > 1 THEN Written.args[2] ELSE Get(Written.kwargs, "device", NoValue)
     IN  IF ~call.in.known THEN Exclude
         ELSE Become("to", "device", <<Source, <<"device", DeviceOf(device, "cuda")>>, <<"dtype", Payload(Source).dtype>>>>,
                     CudaOptions(Written))

\* permute, view and reshape take their integers in a list or spread out.  A
\* missing keyword raises KeyError, which the importer does not expect.
Rearrange ==
  /\ Unresolved /\ Kind \in {"permute", "reshape"}
  /\ LET key == CASE Kind = "permute" -> "dims" [] Written.name = "view" -> "size" [] OTHER -> "shape"
         s == SourceFirst(Written, "input")
         given == Tail(s.args)
         values == CASE given = <<>> -> s.kwargs[key]
                     [] Len(given) = 1 /\ TypeOf(given[1]) = "ints" -> given[1]
                     [] given # <<>> /\ \A i \in DOMAIN given : TypeOf(given[i]) = "int" -> <<"ints", [i \in DOMAIN given |-> Payload(given[i])]>>
                     [] OTHER -> <<"mixed", given>>
     IN  IF given = <<>> /\ key \notin DOMAIN s.kwargs THEN call' = [call EXCEPT !.at = "raised"]
         ELSE Become(Written.name, "default", <<s.args[1], values>>, Without(s.kwargs, key))

TransposeAxes ==
  /\ Unresolved /\ Kind = "transpose"
  /\ LET s == SourceFirst(Written, "input") IN Become("transpose", "int", s.args, s.kwargs)

Materializing ==
  /\ Unresolved /\ Kind = "materialize"
  /\ LET s == SourceFirst(Written, "input")
     IN  Become(Written.name, "default", <<s.args[1]>>,
                IF Len(s.args) > 1 THEN With(s.kwargs, "memory_format", s.args[2]) ELSE s.kwargs)

PadConstant ==
  /\ Unresolved /\ Kind = "pad"
  /\ LET s == SourceFirst(Written, "input")
         At(i, key, default) == IF Len(s.args) >= i THEN s.args[i] ELSE Get(s.kwargs, key, default)
         value == At(4, "value", NoValue)
     IN  IF At(3, "mode", <<"mode", "constant">>) # <<"mode", "constant">> THEN Exclude
         ELSE Become("constant_pad_nd", "default",
                     <<s.args[1], At(2, "pad", NoValue), IF value = NoValue THEN <<"int", 0>> ELSE value>>,
                     [k \in DOMAIN s.kwargs \ {"pad", "mode", "value"} |-> s.kwargs[k]])

SizeOf ==
  /\ Unresolved /\ Written.name = "size"
  /\ IF Len(Written.args) = 2 THEN Become("sym_size", "int", Written.args, Written.kwargs) ELSE Exclude

\* fx_validate_scalar: Python operators are recognised on integers only.
ScalarValid(c) ==
  CASE c.name = "getattr" -> Len(c.args) = 2 /\ c.args[2] = <<"attribute", "shape">> /\ TypeOf(c.args[1]) = "tensor"
    [] c.name = "getitem" -> TypeOf(c.args[1]) = "ints" /\ TypeOf(c.args[2]) = "int"
    [] c.name = "mul" -> \A i \in DOMAIN c.args : TypeOf(c.args[i]) = "int"
    [] OTHER -> TRUE
\* Python's own operators keep their target: there is no overload of them.
Arithmetic ==
  /\ Unresolved /\ Kind = "scalar" /\ Written.form = "function"
  /\ IF ~call.in.known \/ ~ScalarValid(Written) THEN Exclude
     ELSE call' = [call EXCEPT !.at = "canonical"]

(***************************************************************************)
(* Metadata                                                                *)
(***************************************************************************)
ArgumentOf(c, name) ==
  LET sig == CHOOSE s \in Accepting(c) : TRUE
      i == CHOOSE i \in DOMAIN sig.params : sig.params[i].name = name
  IN  Bind(c, c.args, sig)[i]
Recorded == call.in.recorded
Kept == call.at = "canonical" /\ Recorded /\ call' = [call EXCEPT !.at = "known", !.value = <<"recorded", "">>]

\* A conversion that converts nothing returns its source.
ReturnsSource(m) ==
  /\ m.device = Payload(Source).device /\ m.dtype = Payload(Source).dtype
  /\ m.copy = False /\ m.format \in {NoValue, <<"format", "preserve">>}
FakeConversion ==
  /\ call.at = "canonical" /\ ~Recorded /\ call.canon.name = "to"
  /\ IF ~call.in.known \/ ~Accepts(call.canon) THEN Exclude
     ELSE LET m == Meaning(call.canon)
          IN  call' = [call EXCEPT !.at = "known",
                         !.value = <<"tensor", [device |-> m.device, dtype |-> m.dtype, aliases |-> ReturnsSource(m)]>>]
\* Every other audited call is Torch's to evaluate on fake tensors.
FakeCall ==
  /\ call.at = "canonical" /\ ~Recorded /\ call.canon.name # "to"
  /\ IF ~call.in.known \/ ~Accepts(call.canon) THEN Exclude
     ELSE call' = [call EXCEPT !.at = "known", !.value = <<"evaluated", "">>]

CallFormsNext ==
  \/ Unrecognized \/ MatrixTranspose \/ QuantizedPacket \/ IndexSelect \/ ViewDimension \/ AlreadyResolved
  \/ MoveToAny \/ MoveToCpu \/ MoveToCuda \/ Rearrange \/ TransposeAxes \/ Materializing \/ PadConstant
  \/ SizeOf \/ Arithmetic \/ Kept \/ FakeConversion \/ FakeCall

(***************************************************************************)
(* graph_nonblocking: may a captured call return before its copy is done?  *)
(***************************************************************************)
NonblockingIndex(given) == IF given # <<>> /\ TypeOf(given[1]) \in {"str", "device"} THEN 3 ELSE 2
graph_nonblocking(c) ==
  IF c.form = "overload" THEN Accepts(c) /\ c.name = "to" /\ ArgumentOf(c, "non_blocking") # False
  ELSE IF "non_blocking" \in DOMAIN c.kwargs THEN c.kwargs["non_blocking"] # False
  ELSE LET i == IF c.name = "to" THEN NonblockingIndex(Tail(c.args)) ELSE 2
       IN  c.name \in {"to", "cuda"} /\ Len(c.args) > i /\ c.args[i + 1] # False

(***************************************************************************)
(* Properties                                                              *)
(***************************************************************************)
\* Two spellings leave the vocabulary: view(dtype), and axes of squeeze spread
\* out.  Their canonical forms are no calls; what is read of them disagrees
\* with the recorded shape, and the importer refuses the region; view(dtype) by
\* keyword is the one call whose normalisation raises.
ShapeChecked(c) == \E sig \in Accepting(c) : \/ c.name = "view" /\ sig.variant = "dtype"
                                             \/ c.name = "squeeze" /\ Len(c.args) > 2

\* A move may become stronger: a copy nobody asked for, a wait nobody needs.
AtLeast(c, w) ==
  IF w.does = "to"
  THEN /\ c = [w EXCEPT !.copy = c.copy, !.non_blocking = c.non_blocking]
       /\ w.copy # False => c.copy # False
       /\ c.non_blocking # False => w.non_blocking # False
  ELSE c = w

\* The canonical form of a call Torch accepts does what the call does: the same
\* operation on the same axes, extents, device and element type, however its
\* arguments were written (compat.py fx_canonical_call).  Metadata derived for
\* a move is that of the move, and claims to be the source only if the move
\* really is one that Torch may leave out; Python operators are admitted on
\* integers only; and a call that may return early is reported as such.
CanonicalCalls ==
  /\ call.at = "raised" => ShapeChecked(Written)
  /\ call.at \in {"canonical", "known"} /\ ~ShapeChecked(Written) =>
       /\ Accepts(call.canon)
       /\ AtLeast(Meaning(call.canon), Meaning(Written))
  /\ call.at = "known" /\ TypeOf(call.value) = "tensor" =>
       LET m == Meaning(Written) v == Payload(call.value)
       IN  /\ <<v.device, v.dtype>> = <<m.device, m.dtype>>
           /\ v.aliases => m.copy = False /\ m.format # <<"format", "contiguous">>
  /\ call.at \in {"canonical", "known"} /\ Written.name = "mul" =>
       \A i \in DOMAIN Written.args : TypeOf(Written.args[i]) = "int"
  /\ call.at # "none" /\ Written.name \in {"to", "cuda"} /\ Meaning(Written).non_blocking # False =>
       graph_nonblocking(Written)
=============================================================================
