---------------------------- MODULE Observation ----------------------------
(****************************************************************************)
(* What is recorded of transfers: the scoped eager observer (observer.py),  *)
(* which watches calls as they run, and the inventory of a captured graph   *)
(* (graph_inventory.py with the alias rules of compat.py), which reads the  *)
(* same calls before they run.                                              *)
(*                                                                          *)
(* A program is a sequence of calls on tensors named by their number.  A    *)
(* tensor has an identity (id(): reused after its death), a storage and     *)
(* metadata, here its device and size.                                      *)
(****************************************************************************)
EXTENDS Integers, Sequences, FiniteSets, SequencesExt, FiniteSetsExt, Functions

CONSTANTS
  Programs,       \* sequences of [op, args, fails, to]
  HistoryLimit    \* _HISTORY_LIMIT

VARIABLE observed
observedVars == <<observed>>

\* What Torch's schemas say: leading arguments written, results made, whether
\* a result shares its first argument's storage, and whether they admit it.
Op(writes, outs, shares, annotated) == [writes |-> writes, outs |-> outs, shares |-> shares, annotated |-> annotated]
Schemas ==
  [view |-> Op(0, 1, TRUE, TRUE), _unsafe_view |-> Op(0, 1, TRUE, FALSE), detach |-> Op(0, 1, TRUE, TRUE),
   clone |-> Op(0, 1, FALSE, FALSE), _to_copy |-> Op(0, 1, FALSE, FALSE), add |-> Op(0, 1, FALSE, FALSE),
   full |-> Op(0, 1, FALSE, FALSE), _foreach_add |-> Op(0, 2, FALSE, FALSE),
   copy_ |-> Op(1, 0, FALSE, TRUE), zero_ |-> Op(1, 0, FALSE, TRUE), resize_ |-> Op(1, 0, FALSE, TRUE),
   _foreach_copy_ |-> Op(2, 0, FALSE, FALSE)]
is_layout_operator(op) == op \in {"view", "clone"}
Views == {"view", "_unsafe_view"}
KnownViews == {"view", "_unsafe_view"}

Metadata(value) == [device |-> value.device, size |-> value.size]
Shared(v, w) == v.storage = w.storage
Live(values) == {i \in DOMAIN values : values[i].live}
Trimmed(history) ==
  SubSeq(history, (IF Len(history) > HistoryLimit THEN Len(history) - HistoryLimit ELSE 0) + 1, Len(history))

InputTensor(i) == [id |-> i, storage |-> i, device |-> "cpu", size |-> 1, live |-> TRUE]
ObservationInit ==
  observed \in {[at |-> "eager", program |-> p, done |-> 0, values |-> [i \in 1 .. 2 |-> InputTensor(i)], was |-> <<>>,
                 provenance |-> <<>>, born |-> [i \in 1 .. 2 |-> [call |-> 0, from |-> 0]], phases |-> <<"input">>, records |-> <<>>, inventory |-> <<>>] :
                  p \in Programs}

Watched == observed.program[observed.done + 1]
Running(ops) == observed.at = "eager" /\ observed.done < Len(observed.program) /\ Watched.op \in ops
\* Negative arguments count from the newest live tensor.
Named(values, arg) == IF arg > 0 THEN arg ELSE Max(Live(values))
Args == [i \in DOMAIN Watched.args |-> Named(observed.values, Watched.args[i])]
Applicable == \A i \in DOMAIN Args : Args[i] \in Live(observed.values)

\* _history: of the tensor itself, not of an earlier one with its identity.
HistoryOf(provenance, values, v) ==
  IF values[v].id \in DOMAIN provenance /\ provenance[values[v].id].of = v THEN provenance[values[v].id].history ELSE <<>>
Remember(provenance, values, v, history) ==
  [id \in DOMAIN provenance \cup {values[v].id} |->
     IF id = values[v].id THEN [of |-> v, history |-> Trimmed(history)] ELSE provenance[id]]

\* The tensors after the call: results are new, with any free identity.
AfterWrite(values, call, args) ==
  [v \in DOMAIN values |->
     IF call.op = "resize_" /\ v = args[1] THEN [values[v] EXCEPT !.size = 3 - @] ELSE values[v]]
Result(values, call, args, id, v) ==
  [id |-> id,
   storage |-> IF Schemas[call.op].shares THEN values[args[1]].storage ELSE v,
   device |-> IF call.op = "_to_copy" THEN call.to ELSE IF args = <<>> THEN "cpu" ELSE values[args[1]].device,
   size |-> IF args = <<>> THEN 1 ELSE values[args[1]].size, live |-> TRUE]
FreeIds(values) == 1 .. Len(values) + 1 \ {values[v].id : v \in Live(values)}

\* The pairs of the call: each written tensor with the input it takes, or, for
\* a call that writes nothing, its first input alone.
MutatingPairs(op, args) ==
  LET writes == Schemas[op].writes
      inputs == SubSeq(args, writes + 1, Len(args))
      From(i) == IF op = "_foreach_copy_" THEN IF i <= Len(inputs) THEN inputs[i] ELSE args[i]
                 ELSE IF inputs = <<>> THEN args[i]
                 ELSE IF Len(inputs) = writes THEN inputs[i] ELSE inputs[1]
  IN  [i \in 1 .. writes |-> <<From(i), args[i]>>]
PairsBefore(op, args) ==
  IF Schemas[op].writes > 0 THEN MutatingPairs(op, args)
  ELSE IF args = <<>> THEN <<>> ELSE <<<<args[1], 0>>>>
PairsAfter(op, args, results) ==
  IF Schemas[op].writes > 0 THEN MutatingPairs(op, args)
  ELSE IF args = <<>> THEN <<>>
  ELSE [i \in DOMAIN results |-> <<IF Len(args) = Len(results) THEN args[i] ELSE args[1], results[i]>>]
RecordOf(call, source, destination, aliases, history, failed) ==
  [call |-> observed.done + 1, op |-> call.op, phase |-> Last(observed.phases), source |-> source,
   destination |-> destination, mutates |-> Schemas[call.op].writes > 0, aliases |-> aliases,
   history |-> history, failed |-> failed]

DispatchFailed ==
  /\ Running(DOMAIN Schemas) /\ Applicable /\ Watched.fails
  /\ LET pairs == PairsBefore(Watched.op, Args)
         Refused(i) == LET m == Metadata(observed.values[pairs[i][1]])
                       IN  RecordOf(Watched, m, m, TRUE, HistoryOf(observed.provenance, observed.values, pairs[i][1]), TRUE)
     IN  observed' = [observed EXCEPT !.done = @ + 1, !.was = observed.values,
                                      !.records = @ \o [i \in DOMAIN pairs |-> Refused(i)]]

\* Defect: the metadata of the sources is read after the call.
ReadBeforeLate(before, after) == after
ReadBefore(before, after) == before
\* Defect: a write forgets the history of the written tensors only.
ForgottenWritten(provenance, written) == [id \in DOMAIN provenance \ written |-> provenance[id]]
\* A write may reach any tensor through an alias: every history is forgotten.
Forgotten(provenance, written) == <<>>
NewHistory(op, history) ==
  IF is_layout_operator(op) THEN Append(history, op) ELSE IF op = "_to_copy" THEN history ELSE <<>>
Dispatched ==
  /\ Running(DOMAIN Schemas) /\ Applicable /\ ~Watched.fails
  /\ \E ids \in {s \in [1 .. Schemas[Watched.op].outs -> FreeIds(observed.values)] : IsInjective(s)} :
       LET values == observed.values
           op == Watched.op
           results == [i \in 1 .. Schemas[op].outs |-> Len(values) + i]
           now == AfterWrite(values, Watched, Args)
                    \o [i \in DOMAIN results |-> Result(values, Watched, Args, ids[i], results[i])]
           pairs == PairsAfter(op, Args, results)
           mutates == Schemas[op].writes > 0
           read == ReadBefore(values, now)
           kept == IF mutates /\ pairs # <<>>
                   THEN Forgotten(observed.provenance, {values[pairs[i][2]].id : i \in DOMAIN pairs})
                   ELSE observed.provenance
           \* every result of a call that writes nothing is recorded with its first input
           Source(i) == IF mutates THEN pairs[i][1] ELSE Args[1]
           history == [i \in DOMAIN pairs |-> IF mutates THEN <<>>
                         ELSE NewHistory(op, HistoryOf(observed.provenance, values, Source(i)))]
       IN  observed' = [observed EXCEPT
             !.done = @ + 1, !.was = values, !.values = now,
             !.born = @ \o [i \in DOMAIN results |-> [call |-> observed.done + 1, from |-> IF Args = <<>> THEN 0 ELSE Args[1]]],
             !.provenance = FoldLeft(LAMBDA p, i : Remember(p, now, pairs[i][2], history[i]), kept,
                                     [i \in DOMAIN pairs |-> i]),
             !.records = @ \o [i \in DOMAIN pairs |->
               RecordOf(Watched, Metadata(read[Source(i)]), Metadata(now[pairs[i][2]]),
                      Shared(now[pairs[i][1]], now[pairs[i][2]]), Trimmed(history[i]), FALSE)]]

\* A tensor dies: the callback of its weak reference removes its entry.
Dropped ==
  /\ Running({"drop"}) /\ Applicable
  /\ LET v == Args[1]
         id == observed.values[v].id
     IN  observed' = [observed EXCEPT
           !.done = @ + 1, !.values[v].live = FALSE,
           !.provenance = IF id \in DOMAIN @ /\ @[id].of = v THEN [x \in DOMAIN @ \ {id} |-> @[x]] ELSE @]
PhaseEntered ==
  /\ Running({"enter"})
  /\ observed' = [observed EXCEPT !.done = @ + 1, !.phases = Append(@, "model")]
PhaseLeft ==
  /\ Running({"leave"}) /\ Len(observed.phases) > 1
  /\ observed' = [observed EXCEPT !.done = @ + 1, !.phases = Front(@)]

(***************************************************************************)
(* The inventory of the same calls as a graph                              *)
(***************************************************************************)
\* graph_alias_semantics.  Snapshots of real-mode values share no storage.
graph_alias_semantics(op, source, destination, independent) ==
  CASE op \in KnownViews -> "aliases"
    [] ~independent /\ Shared(source, destination) -> "aliases"
    [] source.device # destination.device -> "distinct"
    [] Schemas[op].annotated -> "unknown"
    [] OTHER -> "distinct"
\* One node: its history, the transfer it describes, if it is one, and what
\* the nodes so far are known to be made by.  A written argument is returned.
GraphNode(op, args, result, values, histories, independent) ==
  LET own == IF args # <<>> /\ args[1] \in DOMAIN histories THEN histories[args[1]] ELSE <<>>
      history == CASE Schemas[op].writes > 0 -> <<>>
                   [] op \in Views \cup {"clone"} -> Trimmed(Append(own, op))
                   [] op = "_to_copy" -> own
                   [] OTHER -> <<>>
      source == IF op = "copy_" THEN args[2] ELSE args[1]
      describes == args # <<>> /\ result # 0
  IN  [history |-> history, describes |-> describes,
       aliases |-> IF describes THEN graph_alias_semantics(op, values[source], values[result], independent) ELSE "unknown"]
graph_inventory(independent) ==
  LET values == observed.values
      Number(call, made) == [i \in DOMAIN call.args |-> IF call.args[i] > 0 THEN call.args[i] ELSE made]
      Add(state, call) ==
        LET args == Number(call, state.made)
            outs == Schemas[call.op].outs
            result == CASE outs = 1 -> state.made + 1
                        [] outs = 0 /\ call.op # "_foreach_copy_" -> args[1]
                        [] OTHER -> 0
            node == GraphNode(call.op, args, result, values, state.histories, independent)
            kept == IF Schemas[call.op].writes > 0 THEN <<>> ELSE state.histories
            mine == IF result = 0 THEN kept
                    ELSE [v \in DOMAIN kept \cup {result} |-> IF v = result THEN node.history ELSE kept[v]]
        IN  [made |-> state.made + outs, histories |-> mine, nodes |-> Append(state.nodes, node)]
  IN  FoldLeft(Add, [made |-> 2, histories |-> <<>>, nodes |-> <<>>], observed.program).nodes
Inventoried ==
  /\ observed.at = "eager" /\ observed.done = Len(observed.program)
  /\ \A i \in DOMAIN observed.program : observed.program[i].op \in DOMAIN Schemas /\ ~observed.program[i].fails
  /\ \E independent \in BOOLEAN :
       observed' = [observed EXCEPT !.at = "inventoried", !.inventory = graph_inventory(independent)]

ObservationNext == DispatchFailed \/ Dispatched \/ Dropped \/ PhaseEntered \/ PhaseLeft \/ Inventoried
=============================================================================
