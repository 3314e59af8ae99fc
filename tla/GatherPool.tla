---------------------------- MODULE GatherPool ----------------------------
(***************************************************************************)
(* The persistent worker pool behind every gather and scatter              *)
(* (libreloc/src/GatherPool.cpp): driver threads call parallelFor() and    *)
(* close(); worker w runs the sub-range assigned to it.  driverMu is held  *)
(* for a whole dispatch, mu only inside one action.  A thread in asleep    *)
(* waits on a condition variable until some step notifies it.              *)
(***************************************************************************)
EXTENDS Integers, FiniteSets

CONSTANTS
  Drivers, NoDriver,
  PoolThreads,  \* threads_: the driver and PoolThreads - 1 workers
  MaxRows,    \* bound on the rows of one call
  MaxFloor,   \* bound on minPerWorker
  MaxCalls    \* bound on calls of parallelFor() and close()

ASSUME GatherPoolConstants ==
  /\ NoDriver \notin Drivers /\ Drivers \cap Nat = {}
  /\ PoolThreads \in Nat \ {0} /\ MaxRows \in Nat /\ MaxFloor \in Nat
  /\ MaxCalls \in Nat

PoolWorkers == 1 .. PoolThreads - 1
Rows == 0 .. MaxRows - 1

VARIABLES
  driverMu, poolClosed,                  \* the dispatch lock; closed_
  assigned, fn, outstanding, stop, failure,  \* guarded by mu
  asleep,                                \* threads inside cv_ or done_ waits
  wpc, job,                              \* workers: where, and on what
  dpc, call, thrown, outcome,             \* drivers
  ran, threw,                            \* what the callbacks did
  calls

sharedVars == <<driverMu, poolClosed, assigned, fn, outstanding, stop, failure>>
workerVars == <<wpc, job>>
driverVars == <<dpc, call, thrown, outcome, calls>>
ghostVars == <<ran, threw>>
gatherVars == <<sharedVars, asleep, workerVars, driverVars, ghostVars>>

NoRange == [from |-> 0, to |-> 0]

(***************************************************************************)
(* The partition of rows 0 .. n - 1                                        *)
(***************************************************************************)
Least(a, b) == IF a < b THEN a ELSE b
Most(a, b) == IF a < b THEN b ELSE a

Parts(n, min) == Least(PoolThreads, Most(1, n \div Most(1, min)))

Per(n, min) == (n + Parts(n, min) - 1) \div Parts(n, min)

\* Sub-range p; rounding up can leave the last ones empty.
Part(n, min, p) ==
  LET per == Per(n, min)
      from == p * per
      to == Least((p + 1) * per, n)
  IN  IF p < Parts(n, min) /\ from < to THEN [from |-> from, to |-> to]
      ELSE NoRange

Rest(n, min) == {p \in PoolWorkers : Part(n, min, p) # NoRange}

GatherInit ==
  /\ driverMu = NoDriver /\ poolClosed = FALSE
  /\ assigned = [w \in PoolWorkers |-> NoRange]
  /\ fn = NoDriver /\ outstanding = 0 /\ stop = FALSE /\ failure = FALSE
  /\ asleep = {}
  /\ wpc = [w \in PoolWorkers |-> "wait"]
  /\ job = [w \in PoolWorkers |-> [fn |-> NoDriver, range |-> NoRange]]
  /\ dpc = [d \in Drivers |-> "idle"]
  /\ call = [d \in Drivers |-> [n |-> 0, min |-> 0]]
  /\ thrown = [d \in Drivers |-> FALSE]
  /\ outcome = [d \in Drivers |-> "none"]
  /\ ran = [d \in Drivers |-> [r \in Rows |-> 0]]
  /\ threw = [d \in Drivers |-> FALSE]
  /\ calls = 0

Go(d, to) == dpc' = [dpc EXCEPT ![d] = to]

\* invoke(): the callback of call d runs over a range, and may throw.
Invoke(d, from, to, bad) ==
  /\ ran' = [ran EXCEPT ![d] = [r \in Rows |->
               IF from <= r /\ r < to THEN @[r] + 1 ELSE @[r]]]
  /\ threw' = [threw EXCEPT ![d] = @ \/ bad]

Return(d, bad) ==
  /\ Go(d, "returned")
  /\ outcome' = [outcome EXCEPT ![d] = IF bad THEN "throws" ELSE "ok"]

(***************************************************************************)
(* parallelFor                                                             *)
(***************************************************************************)
ParallelFor(d) ==
  /\ dpc[d] = "idle" /\ calls < MaxCalls /\ calls' = calls + 1
  /\ \E n \in 0 .. MaxRows, min \in 0 .. MaxFloor :
       /\ call' = [call EXCEPT ![d] = [n |-> n, min |-> min]]
       /\ IF n = 0 THEN Return(d, FALSE)
          ELSE /\ Go(d, IF Rest(n, min) = {} THEN "inline" ELSE "lock")
               /\ outcome' = [outcome EXCEPT ![d] = "none"]
  /\ ran' = [ran EXCEPT ![d] = [r \in Rows |-> 0]]
  /\ threw' = [threw EXCEPT ![d] = FALSE]
  /\ thrown' = [thrown EXCEPT ![d] = FALSE]
  /\ UNCHANGED <<sharedVars, asleep, workerVars>>

\* The whole range on the calling thread; driverMu is held when the pool
\* closed under the call.
Inline(d) ==
  /\ dpc[d] = "inline"
  /\ \E bad \in BOOLEAN : Invoke(d, 0, call[d].n, bad) /\ Return(d, bad)
  /\ driverMu' = IF driverMu = d THEN NoDriver ELSE driverMu
  /\ UNCHANGED <<poolClosed, assigned, fn, outstanding, stop, failure, asleep,
                 workerVars, call, thrown, calls>>

Dispatch(d) ==
  /\ dpc[d] = "lock" /\ driverMu = NoDriver /\ driverMu' = d
  /\ IF poolClosed
     THEN Go(d, "inline") /\ UNCHANGED <<assigned, fn, outstanding, failure>>
     ELSE /\ fn' = d
          /\ assigned' = [w \in PoolWorkers |-> Part(call[d].n, call[d].min, w)]
          /\ outstanding' = Cardinality(Rest(call[d].n, call[d].min))
          /\ failure' = FALSE
          /\ Go(d, "notify")
  /\ UNCHANGED <<poolClosed, stop, asleep, workerVars, call, thrown, outcome,
                 calls, ghostVars>>

\* cv_.notify_all() after mu is released.
Notify(d) ==
  /\ dpc[d] = "notify" /\ Go(d, "part")
  /\ asleep' = asleep \ PoolWorkers
  /\ UNCHANGED <<sharedVars, workerVars, call, thrown, outcome, calls,
                 ghostVars>>

\* Sub-range 0 on the calling thread.
InlinePart(d) ==
  /\ dpc[d] = "part" /\ Go(d, "barrier")
  /\ \E bad \in BOOLEAN :
       /\ Invoke(d, 0, Part(call[d].n, call[d].min, 0).to, bad)
       /\ thrown' = [thrown EXCEPT ![d] = bad]
  /\ UNCHANGED <<sharedVars, asleep, workerVars, call, outcome, calls>>

BarrierSleep(d) ==
  /\ dpc[d] = "barrier" /\ outstanding # 0 /\ d \notin asleep
  /\ asleep' = asleep \cup {d}
  /\ UNCHANGED <<sharedVars, workerVars, driverVars, ghostVars>>

\* Defect: an exception of the inline range skips the barrier.
BarrierUnwinds(d) ==
  /\ dpc[d] = "barrier" /\ d \notin asleep
  /\ outstanding = 0 \/ thrown[d]
  /\ Return(d, thrown[d] \/ failure)
  /\ fn' = NoDriver /\ failure' = FALSE /\ driverMu' = NoDriver
  /\ UNCHANGED <<poolClosed, assigned, outstanding, stop, asleep, workerVars,
                 call, thrown, calls, ghostVars>>

\* Defect: a failure of a worker's range is dropped.
BarrierForgets(d) ==
  /\ dpc[d] = "barrier" /\ outstanding = 0 /\ d \notin asleep
  /\ Return(d, thrown[d])
  /\ fn' = NoDriver /\ failure' = FALSE /\ driverMu' = NoDriver
  /\ UNCHANGED <<poolClosed, assigned, outstanding, stop, asleep, workerVars,
                 call, thrown, calls, ghostVars>>

\* The barrier opens: every sub-range ended, the first failure is rethrown.
Barrier(d) ==
  /\ dpc[d] = "barrier" /\ outstanding = 0 /\ d \notin asleep
  /\ Return(d, thrown[d] \/ failure)
  /\ fn' = NoDriver /\ failure' = FALSE /\ driverMu' = NoDriver
  /\ UNCHANGED <<poolClosed, assigned, outstanding, stop, asleep, workerVars,
                 call, thrown, calls, ghostVars>>

Leave(d) ==
  /\ dpc[d] = "returned" /\ Go(d, "idle")
  /\ UNCHANGED <<sharedVars, asleep, workerVars, call, thrown, outcome, calls,
                 ghostVars>>

(***************************************************************************)
(* close                                                                   *)
(***************************************************************************)
Close(d) ==
  /\ dpc[d] = "idle" /\ calls < MaxCalls /\ calls' = calls + 1
  /\ Go(d, "close")
  /\ outcome' = [outcome EXCEPT ![d] = "none"]
  /\ UNCHANGED <<sharedVars, asleep, workerVars, call, thrown, ghostVars>>

CloseStop(d) ==
  /\ dpc[d] = "close" /\ driverMu = NoDriver
  /\ IF poolClosed
     THEN Go(d, "closedPool") /\ UNCHANGED <<driverMu, stop>>
     ELSE Go(d, "closeNotify") /\ driverMu' = d /\ stop' = TRUE
  /\ UNCHANGED <<poolClosed, assigned, fn, outstanding, failure, asleep,
                 workerVars, call, thrown, outcome, calls, ghostVars>>

CloseNotify(d) ==
  /\ dpc[d] = "closeNotify" /\ Go(d, "join")
  /\ asleep' = asleep \ PoolWorkers
  /\ UNCHANGED <<sharedVars, workerVars, call, thrown, outcome, calls,
                 ghostVars>>

\* Defect: close() does not join its workers.
CloseDetach(d) ==
  /\ dpc[d] = "join"
  /\ poolClosed' = TRUE /\ driverMu' = NoDriver /\ Go(d, "closedPool")
  /\ UNCHANGED <<assigned, fn, outstanding, stop, failure, asleep, workerVars,
                 call, thrown, outcome, calls, ghostVars>>

CloseJoin(d) ==
  /\ dpc[d] = "join" /\ \A w \in PoolWorkers : wpc[w] = "exited"
  /\ poolClosed' = TRUE /\ driverMu' = NoDriver /\ Go(d, "closedPool")
  /\ UNCHANGED <<assigned, fn, outstanding, stop, failure, asleep, workerVars,
                 call, thrown, outcome, calls, ghostVars>>

CloseLeave(d) ==
  /\ dpc[d] = "closedPool" /\ Go(d, "idle")
  /\ UNCHANGED <<sharedVars, asleep, workerVars, call, thrown, outcome, calls,
                 ghostVars>>

(***************************************************************************)
(* workerLoop                                                              *)
(***************************************************************************)
HasWork(w) == assigned[w].from < assigned[w].to

WorkerSleep(w) ==
  /\ wpc[w] = "wait" /\ w \notin asleep /\ ~stop /\ ~HasWork(w)
  /\ asleep' = asleep \cup {w}
  /\ UNCHANGED <<sharedVars, workerVars, driverVars, ghostVars>>

WorkerExit(w) ==
  /\ wpc[w] = "wait" /\ w \notin asleep /\ stop /\ ~HasWork(w)
  /\ wpc' = [wpc EXCEPT ![w] = "exited"]
  /\ UNCHANGED <<sharedVars, asleep, job, driverVars, ghostVars>>

WorkerTake(w) ==
  /\ wpc[w] = "wait" /\ w \notin asleep /\ HasWork(w)
  /\ job' = [job EXCEPT ![w] = [fn |-> fn, range |-> assigned[w]]]
  /\ assigned' = [assigned EXCEPT ![w] = NoRange]
  /\ wpc' = [wpc EXCEPT ![w] = "run"]
  /\ UNCHANGED <<driverMu, poolClosed, fn, outstanding, stop, failure, asleep,
                 driverVars, ghostVars>>

\* The callback runs without mu; an exception is kept in wpc.
WorkerRun(w) ==
  /\ wpc[w] = "run"
  /\ \E bad \in BOOLEAN :
       /\ Invoke(job[w].fn, job[w].range.from, job[w].range.to, bad)
       /\ wpc' = [wpc EXCEPT ![w] = IF bad THEN "failed" ELSE "finished"]
  /\ UNCHANGED <<sharedVars, asleep, job, driverVars>>

\* Defect: the count is tested before it is decremented, so no range is last.
WorkerDoneUncounted(w) ==
  /\ wpc[w] \in {"failed", "finished"}
  /\ failure' = (failure \/ wpc[w] = "failed")
  /\ outstanding' = outstanding - 1
  /\ asleep' = IF outstanding = 0 THEN asleep \ Drivers ELSE asleep
  /\ wpc' = [wpc EXCEPT ![w] = "wait"]
  /\ job' = [job EXCEPT ![w] = [fn |-> NoDriver, range |-> NoRange]]
  /\ UNCHANGED <<driverMu, poolClosed, assigned, fn, stop, driverVars, ghostVars>>

\* Only the last range to end wakes the barrier.
WorkerDone(w) ==
  /\ wpc[w] \in {"failed", "finished"}
  /\ failure' = (failure \/ wpc[w] = "failed")
  /\ outstanding' = outstanding - 1
  /\ asleep' = IF outstanding = 1 THEN asleep \ Drivers ELSE asleep
  /\ wpc' = [wpc EXCEPT ![w] = "wait"]
  /\ job' = [job EXCEPT ![w] = [fn |-> NoDriver, range |-> NoRange]]
  /\ UNCHANGED <<driverMu, poolClosed, assigned, fn, stop, driverVars, ghostVars>>

GatherDriver(d) ==
  \/ Inline(d) \/ Dispatch(d) \/ Notify(d) \/ InlinePart(d)
  \/ BarrierSleep(d) \/ Barrier(d) \/ Leave(d)
  \/ CloseStop(d) \/ CloseNotify(d) \/ CloseJoin(d) \/ CloseLeave(d)

Worker(w) ==
  \/ WorkerSleep(w) \/ WorkerExit(w) \/ WorkerTake(w) \/ WorkerRun(w)
  \/ WorkerDone(w)

GatherNext ==
  \/ \E d \in Drivers : ParallelFor(d) \/ Close(d) \/ GatherDriver(d)
  \/ \E w \in PoolWorkers : Worker(w)

GatherSpec == GatherInit /\ [][GatherNext]_gatherVars

\* Every thread that can run is scheduled at last.
GatherFairSpec ==
  /\ GatherSpec
  /\ \A d \in Drivers : WF_gatherVars(GatherDriver(d))
  /\ \A w \in PoolWorkers : WF_gatherVars(Worker(w))

(***************************************************************************)
(* Properties                                                              *)
(***************************************************************************)
Ranges == [from : 0 .. MaxRows, to : 0 .. MaxRows]
GatherTypeOK ==
  /\ driverMu \in Drivers \cup {NoDriver} /\ poolClosed \in BOOLEAN
  /\ assigned \in [PoolWorkers -> Ranges]
  /\ fn \in Drivers \cup {NoDriver}
  /\ outstanding \in 0 .. PoolThreads - 1
  /\ stop \in BOOLEAN /\ failure \in BOOLEAN
  /\ asleep \subseteq Drivers \cup PoolWorkers
  /\ wpc \in [PoolWorkers -> {"wait", "run", "failed", "finished", "exited"}]
  /\ outcome \in [Drivers -> {"none", "ok", "throws"}]
  /\ calls \in 0 .. MaxCalls

\* The barrier the pipeline relies on (GatherPool.h): when parallelFor()
\* comes back, every row of the call ran exactly once, whoever closed the
\* pool meanwhile, and no worker still runs or holds the callback, which dies
\* with the call.
EveryRowOnce ==
  \A d \in Drivers : dpc[d] = "returned" =>
    /\ \A r \in Rows : ran[d][r] = IF r < call[d].n THEN 1 ELSE 0
    /\ \A w \in PoolWorkers : job[w].fn # d

\* A call throws exactly when one of its own ranges threw: no failure is
\* lost at the barrier and none leaks into the next call.
OwnFailuresOnly ==
  \A d \in Drivers :
    dpc[d] = "returned" => (outcome[d] = "throws" <=> threw[d])

\* "close() returned" means "workers are gone", with no work left behind
\* that nobody will run.
CloseMeansGone ==
  \A d \in Drivers : dpc[d] = "closedPool" =>
    /\ \A w \in PoolWorkers : wpc[w] = "exited"
    /\ outstanding = 0 /\ \A w \in PoolWorkers : ~HasWork(w)

(* A gather does all its rows once, reports its own failure only, and never *)
(* outlives the pool.                                                       *)
GathersSafe == EveryRowOnce /\ OwnFailuresOnly /\ CloseMeansGone

\* Every dispatch and every close() ends.
GathersEnd == \A d \in Drivers : dpc[d] # "idle" ~> dpc[d] = "idle"
=============================================================================
