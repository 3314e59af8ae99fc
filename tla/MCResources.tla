---------------------------- MODULE MCResources ----------------------------
(****************************************************************************)
(* What a layout transfer waits for, under fair scheduling: a lease of the  *)
(* resource cache, and the gather pool that the leased context owns.  The   *)
(* two share no state; `waits` says which of them a behaviour exercises.    *)
(****************************************************************************)
EXTENDS MCTransferResourceCache, GatherPool

VARIABLE waits
resourceVars == <<waits, vars, gatherVars>>

\* A step of one part leaves the other alone.
Leases(step) == waits = "lease" /\ step /\ UNCHANGED <<waits, gatherVars>>
Gathers(step) == waits = "gather" /\ step /\ UNCHANGED <<waits, vars>>

ResourcesInit ==
  /\ waits \in {"lease", "gather"}
  /\ Init /\ GatherInit

ResourcesNext == Leases(Next) \/ Gathers(GatherNext)

(* Threads inside a call and workers with something to do are scheduled.    *)
ResourcesFairness ==
  /\ \A t \in Threads : WF_resourceVars(Leases(Step(t)))
  /\ \A d \in Drivers : WF_resourceVars(Gathers(GatherDriver(d)))
  /\ \A w \in PoolWorkers : WF_resourceVars(Gathers(Worker(w)))

ResourcesSpec == ResourcesInit /\ [][ResourcesNext]_resourceVars /\ ResourcesFairness

(* Nobody waits for ever, neither for a lease of the cache nor for the rows *)
(* of a gather.                                                             *)
WaitersEnd == CallsEnd /\ GathersEnd
=============================================================================
