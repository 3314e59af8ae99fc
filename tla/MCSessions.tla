----------------------------- MODULE MCSessions -----------------------------
(****************************************************************************)
(* Instances of the session objects a program keeps between transfers:      *)
(* prepared requests, prepared weights, wire weights, fast transfers and    *)
(* the programs those run.  They share no state, so one run explores each   *)
(* by itself: `kind` says which, and the others stay in initial states.     *)
(****************************************************************************)
EXTENDS TransferRequests, PreparedWeights, FastTransfers, FastPrograms, TLC

CONSTANTS g1, g2, q, t, u, w1, w2, w3
VARIABLE kind

MCMembers == g1 :> <<q, t>> @@ g2 :> <<t, q>>
MCBytes == 0 :> 1 @@ 1 :> 2 @@ 2 :> 1
MCSizeOf == "p" :> 2 @@ "r" :> 1
MCPrefetched == <<w1, w2, w3>>
MCCallers == Permutations(Callers)

Source(rows, strides, offset, device) ==
  [rows |-> rows, columns |-> 2, strides |-> strides, offset |-> offset, dtype |-> "f32",
   device |-> device]
MCSourceForms == {Source(1, "dense", 0, "cpu"), Source(2, "dense", 0, "cpu"),
  Source(2, "dense", 1, "cpu"), Source(2, "other", 0, "cpu"), Source(2, "dense", 0, "cuda")}
Index(values, rank, offset) ==
  [values |-> values, rank |-> rank, offset |-> offset, dtype |-> "i64", contiguous |-> TRUE]
MCIndexForms == {Index(<<0>>, 1, 0), Index(<<1, 0>>, 1, 0), Index(<<1>>, 1, 1), Index(<<0, 1>>, 2, 0)}
MCTableRows == <<2, 1>>
MCBagForms == [indices : {<<>>, <<0, 0>>, <<0, 1, 0>>}, offsets : {<<0>>, <<0, 2>>, <<0, 0>>}]

sessionVars == <<kind, requestVars, weightVars, wireVars, fastVars, programVars>>

SessionsInit ==
  /\ kind \in {"requests", "weights", "wire", "fast", "programs"}
  /\ RequestsInit /\ WeightsInit /\ WireInit /\ FastInit /\ ProgramsInit
  /\ kind # "weights" => slot.contents = CHOOSE v \in Contents : TRUE
  /\ kind # "programs" => producer = "pooled"

SessionsNext ==
  \/ kind = "requests" /\ RequestsNext /\ UNCHANGED <<kind, weightVars, wireVars, fastVars, programVars>>
  \/ kind = "weights" /\ WeightsNext /\ UNCHANGED <<kind, requestVars, wireVars, fastVars, programVars>>
  \/ kind = "wire" /\ WireNext /\ UNCHANGED <<kind, requestVars, weightVars, fastVars, programVars>>
  \/ kind = "fast" /\ FastNext /\ UNCHANGED <<kind, requestVars, weightVars, wireVars, programVars>>
  \/ kind = "programs" /\ ProgramsNext /\ UNCHANGED <<kind, requestVars, weightVars, wireVars, fastVars>>

SessionsSpec == SessionsInit /\ [][SessionsNext]_sessionVars
=============================================================================
