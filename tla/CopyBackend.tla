---------------------------- MODULE CopyBackend ----------------------------
(***************************************************************************)
(* The queues of a CopyBackend (libreloc/include/reloc/Backend.h): ordered *)
(* queues of copies and events that run beside the driver thread.  With    *)
(* Cuda = FALSE this is HostBackend, one worker thread per queue, which    *)
(* never fails.  With Cuda = TRUE it is CudaBackend: every call may fail,  *)
(* and the first failure is sticky.  The operators below are one driver    *)
(* call each; the driver's module supplies the memory that copies touch.   *)
(***************************************************************************)
EXTENDS Integers, Sequences

CONSTANTS NumQueues, Cuda

ASSUME BackendConstants == NumQueues \in Nat \ {0} /\ Cuda \in BOOLEAN

Queues == 0 .. NumQueues - 1

VARIABLES
  tasks,      \* Queues -> tasks not started
  executing,  \* Queues -> <<>>, or <<the started task>>
  live,       \* recorded events that nobody waited for yet
  done,       \* events that completed
  nextEvent,
  failed      \* the sticky failure state

backendVars == <<tasks, executing, live, done, nextEvent, failed>>

CopyTask(b, k) == [kind |-> "copy", buf |-> b, chunk |-> k]
EventTask(e) == [kind |-> "event", ev |-> e]
WaitTask == [kind |-> "wait"]

BackendInit ==
  /\ tasks = [q \in Queues |-> <<>>]
  /\ executing = [q \in Queues |-> <<>>]
  /\ live = {} /\ done = {} /\ nextEvent = 1
  /\ failed = FALSE

\* Every task of a queue that has not finished.
Pending(q) == executing[q] \o tasks[q]
InFlight ==
  UNION {{Pending(q)[i] : i \in DOMAIN Pending(q)} : q \in Queues}
CopiesInFlight == {t \in InFlight : t.kind = "copy"}
Idle == InFlight = {}

(***************************************************************************)
(* Driver calls.  Each sets tasks, live, done, nextEvent and failed.       *)
(***************************************************************************)
\* check(): the first error sticks.
Fail == Cuda /\ failed' = TRUE

Enqueue(q, t) == tasks' = [tasks EXCEPT ![q] = Append(@, t)]

\* A failed submission may or may not have reached the queue.
copyAsync(q, b, k) ==
  /\ \/ ~failed /\ Enqueue(q, CopyTask(b, k)) /\ failed' = FALSE
     \/ ~failed /\ Enqueue(q, CopyTask(b, k)) /\ Fail
     \/ UNCHANGED tasks /\ Fail
  /\ UNCHANGED <<live, done, nextEvent>>

recordOK(q) ==
  /\ ~failed
  /\ Enqueue(q, EventTask(nextEvent))
  /\ live' = live \cup {nextEvent} /\ nextEvent' = nextEvent + 1
  /\ UNCHANGED <<done, failed>>

\* The handle is 0.
recordFails ==
  /\ Fail
  /\ UNCHANGED <<tasks, live, done, nextEvent>>

\* Defect: only records that still exist can complete.
waitEventOnce(ev) ==
  /\ \/ ev \in live /\ ev \in done /\ UNCHANGED failed
     \/ ev \in live /\ Fail
  /\ live' = live \ {ev}
  /\ UNCHANGED <<tasks, done, nextEvent>>

\* Blocks until ev completed, or returns because the wait failed.  Handles
\* already waited for return at once; either way the record is retired.
waitEvent(ev) ==
  /\ \/ (ev \in live => ev \in done) /\ UNCHANGED failed
     \/ ev \in live /\ Fail
  /\ live' = live \ {ev}
  /\ UNCHANGED <<tasks, done, nextEvent>>

quiesceComplete ==
  /\ Idle
  /\ UNCHANGED <<tasks, live, done, nextEvent, failed>>

quiesceUnknown ==
  /\ Fail
  /\ UNCHANGED <<tasks, live, done, nextEvent>>

\* Every queue waits for the caller's stream, or an error leaves some out.
waitStream(ok) ==
  /\ ~failed
  /\ \E n \in 0 .. NumQueues :
       /\ ok <=> n = NumQueues
       /\ tasks' = [q \in Queues |->
                      IF q < n THEN Append(tasks[q], WaitTask) ELSE tasks[q]]
  /\ failed' = ~ok
  /\ UNCHANGED <<live, done, nextEvent>>

(***************************************************************************)
(* Queue workers: a task starts, then finishes.                            *)
(***************************************************************************)
TaskStart(q) ==
  /\ executing[q] = <<>> /\ tasks[q] # <<>>
  /\ executing' = [executing EXCEPT ![q] = <<Head(tasks[q])>>]
  /\ tasks' = [tasks EXCEPT ![q] = Tail(@)]
  /\ UNCHANGED <<live, done, nextEvent, failed>>

TaskFinish(q) ==
  /\ executing[q] # <<>>
  /\ executing' = [executing EXCEPT ![q] = <<>>]
  /\ done' = IF executing[q][1].kind = "event"
             THEN done \cup {executing[q][1].ev} ELSE done
  /\ UNCHANGED <<tasks, live, nextEvent, failed>>
=============================================================================
