----------------------------- MODULE MCDataPath -----------------------------
(****************************************************************************)
(* The protocols one blocking transfer runs through: the choice of the path  *)
(* it takes, the guarded call around it and the staging pipeline inside it. *)
(* They share no state, so a behaviour exercises one of them.               *)
(****************************************************************************)
EXTENDS StagingPipeline, GuardedExecution, Placement

VARIABLE part
dataVars == <<part, vars, guardedVars, placementVars>>

\* A step of one part leaves the others alone.
Pipelines(step) == part = "pipeline" /\ step /\ UNCHANGED <<part, guardedVars, placementVars>>
Guards(step) == part = "guarded" /\ step /\ UNCHANGED <<part, vars, placementVars>>
Places(step) == part = "placement" /\ step /\ UNCHANGED <<part, vars, guardedVars>>

(* Two profiles of one machine: a warm path is cheap, a cold one dear.       *)
Measured(native, paths) ==
  LET cost(path, state) == CASE path = "torch_cpu" -> native
                             [] state = "warm"     -> 1
                             [] path = "native"    -> 2
                             [] OTHER              -> 3
      Rows == Families \X paths \X {"cold", "warm"} \X {"idle"}
  IN  [hardware |-> "m0", costs |-> [r \in Rows |-> cost(r[2], r[3])]]
MCProfiles == {Measured(4, {"native", "torch_cpu", "sym_cpu"}),
               Measured(2, {"native", "torch_cpu", "sym_gpu"})}

DataInit ==
  /\ part \in {"pipeline", "guarded", "placement"}
  /\ Init /\ GuardedInit /\ PlacementInit
  /\ part # "pipeline" => api = "raw" /\ ~ordered
  /\ world.context = "idle" /\ world.machine = "m0"
  /\ part # "placement" => policy.profile = NoProfile /\ ~resources.retained

DataNext ==
  \/ Pipelines(Next)
  \/ Guards(GuardedNext)
  \/ Places(PlacementNext)

(* The fairness of each part, while it is the one that runs.                *)
DataFairness ==
  /\ WF_dataVars(Pipelines(Driver)) /\ WF_dataVars(Pipelines(Produce))
  /\ \A q \in Queues : WF_dataVars(Pipelines(Queue(q)))
  /\ WF_dataVars(Guards(CloseStep))
  /\ \A t \in Callers : WF_dataVars(Guards(CallStep(t)))

DataSpec == DataInit /\ [][DataNext]_dataVars /\ DataFairness

(* The transfer that was called and the close() of its backend return.      *)
EveryCallReturns == CallReturns /\ BackendCloseReturns
=============================================================================
