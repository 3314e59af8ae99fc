-------------------------- MODULE StagingPipeline --------------------------
(***************************************************************************)
(* One chunked transfer through a ring of staging buffers: the loops of    *)
(* libreloc/src/Pipeline.cpp and Transfer.cpp, the ring itself             *)
(* (PinnedBufferPool.cpp) and the end of its life.  api is the entry       *)
(* point:                                                                  *)
(*   "raw"      executeH2DPipelined: runH2DPrepared, the caller's backend  *)
(*   "h2d"      executeTransfer, host to device                            *)
(*   "forward"  executeTransfer, device to host: one window, gathered      *)
(*              after it arrived                                           *)
(*   "inverse"  executeD2HPipelined: windows scattered as they arrive      *)
(* One driver thread; the backend's queues run beside it.  The bytes of    *)
(* window k of the destination are abstracted to the number k, of a window *)
(* whose rows are not all gathered yet to -k, anything else to 0.          *)
(***************************************************************************)
EXTENDS CopyBackend, FiniteSets

CONSTANTS NumChunks, NumBuffers, Apis

ASSUME PipelineConstants ==
  /\ NumChunks \in Nat \ {0} /\ NumBuffers \in Nat \ {0}
  /\ Apis \subseteq {"raw", "h2d", "forward", "inverse"}

Buffers == 0 .. NumBuffers - 1

VARIABLES
  api, pc,
  ordered,               \* the caller gave a stream to wait for
  produced,              \* that stream's earlier work is done
  k,                     \* the chunk the loop is at
  next, events, pending, missing,  \* PinnedBufferPool's fields
  staging,               \* Buffers -> contents
  reading,               \* Queues -> contents when the running copy started
  dst,                   \* destination windows -> contents
  arrived,               \* InFlight deque of the inverse loop
  completion,            \* TransferCompletion
  error,                 \* the call ends with an error or an exception
  result, storage        \* what the caller got; what became of the ring

poolVars == <<next, events, pending, missing>>
callVars == <<api, ordered>>
vars == <<backendVars, api, pc, ordered, produced, k, poolVars, staging,
          reading, dst, arrived, completion, error, result, storage>>

Chunks == IF api = "forward" THEN 1 .. 1 ELSE 1 .. NumChunks
ActiveSlots ==
  IF api = "forward" THEN 1
  ELSE IF api = "h2d" /\ NumChunks < NumBuffers THEN NumChunks ELSE NumBuffers
ToDevice == api \in {"raw", "h2d"}
Owned == api \in {"h2d", "forward"}

Init ==
  /\ BackendInit
  /\ api \in Apis
  /\ ordered \in (IF Cuda /\ Owned THEN BOOLEAN ELSE {FALSE})
  /\ produced = ~ordered
  /\ pc = "start" /\ k = 1
  /\ next = -1 /\ events = [b \in Buffers |-> 0]
  /\ pending = FALSE /\ missing = FALSE
  /\ staging = [b \in Buffers |-> 0]
  /\ reading = [q \in Queues |-> 0]
  /\ dst = [c \in Chunks |-> 0]
  /\ arrived = <<>>
  /\ completion = "NotLaunched" /\ error = FALSE
  /\ result = "running" /\ storage = "held"

(***************************************************************************)
(* The ring                                                                *)
(***************************************************************************)
NextSlot == (next + 1) % ActiveSlots

\* Defect: a buffer is handed out while its copy is still queued.
AcquireEager ==
  /\ next' = NextSlot /\ events' = [events EXCEPT ![NextSlot] = 0]
  /\ UNCHANGED <<tasks, live, done, nextEvent, failed>>

\* acquire(): the buffer comes back only after its copy's event.
Acquire ==
  /\ next' = NextSlot /\ events' = [events EXCEPT ![NextSlot] = 0]
  /\ IF events[NextSlot] = 0
     THEN UNCHANGED <<tasks, live, done, nextEvent, failed>>
     ELSE waitEvent(events[NextSlot])

SetEvent(ev) ==
  /\ events' = [events EXCEPT ![next] = ev]
  /\ pending' = TRUE /\ missing' = (missing \/ ev = 0)

(***************************************************************************)
(* The loops                                                               *)
(***************************************************************************)
\* The ring's buffers are allocated, or the call fails before any launch.
Start ==
  /\ pc = "start"
  /\ \/ /\ pc' = (IF ordered THEN "order" ELSE "acquire")
        /\ UNCHANGED failed
     \/ Cuda /\ failed' = TRUE /\ pc' = "guard"
  /\ UNCHANGED <<tasks, executing, live, done, nextEvent, callVars, produced,
                 k, poolVars, staging, reading, dst, arrived, completion,
                 error, result, storage>>

\* Defect: copies are not ordered after the caller's stream.
OrderSkipped ==
  /\ pc = "order"
  /\ completion' = "Unknown" /\ pc' = "acquire"
  /\ UNCHANGED <<backendVars, callVars, produced, k, poolVars, staging,
                 reading, dst, arrived, error, result, storage>>

Order ==
  /\ pc = "order"
  /\ completion' = "Unknown"
  /\ \/ waitStream(TRUE) /\ pc' = "acquire"
     \/ waitStream(FALSE) /\ pc' = "guard"
  /\ UNCHANGED <<executing, callVars, produced, k, poolVars, staging, reading,
                 dst, arrived, error, result, storage>>

\* forward uses buffer 0 without acquire().
AcquireSlot ==
  /\ pc = "acquire"
  /\ IF api = "forward"
     THEN /\ next' = 0 /\ pc' = "submit"
          /\ UNCHANGED <<tasks, live, done, nextEvent, failed, events>>
     ELSE /\ Acquire
          /\ pc' = IF failed' THEN "guard"
                   ELSE IF ToDevice THEN "fill" ELSE "submit"
  /\ UNCHANGED <<executing, callVars, produced, k, pending, missing, staging,
                 reading, dst, arrived, completion, error, result, storage>>

\* fillStagingWindow, then the rows; the gather's barrier ends the second.
Fill ==
  /\ pc = "fill"
  /\ staging' = [staging EXCEPT ![next] = -k]
  /\ pc' = "gather"
  /\ UNCHANGED <<backendVars, callVars, produced, k, poolVars, reading, dst,
                 arrived, completion, error, result, storage>>

Gather ==
  /\ pc = "gather"
  /\ staging' = [staging EXCEPT ![next] = k]
  /\ pc' = "submit"
  /\ UNCHANGED <<backendVars, callVars, produced, k, poolVars, reading, dst,
                 arrived, completion, error, result, storage>>

\* The inverse loop reports nothing between submission and event.
Submit ==
  /\ pc = "submit"
  /\ pending' = TRUE
  /\ completion' = IF api = "inverse" THEN completion ELSE "Unknown"
  /\ copyAsync((k - 1) % NumQueues, next, k)
  /\ pc' = IF failed' /\ api # "inverse" THEN "guard" ELSE "record"
  /\ UNCHANGED <<executing, callVars, produced, k, next, events, missing,
                 staging, reading, dst, arrived, error, result, storage>>

\* After a recorded event: the next chunk, unless the ring is full of
\* windows to scatter or this was the last.
After(c, queued) ==
  IF api = "inverse" /\ Len(queued) = NumBuffers THEN "scatter"
  ELSE IF c < Cardinality(Chunks) THEN "acquire"
  ELSE IF api = "inverse" /\ queued # <<>> THEN "scatter"
  ELSE "drain"

Record ==
  /\ pc = "record"
  /\ \/ /\ recordOK((k - 1) % NumQueues)
        /\ SetEvent(nextEvent)
        /\ arrived' = IF api = "inverse"
                      THEN Append(arrived, [buf |-> next, ev |-> nextEvent,
                                            chunk |-> k])
                      ELSE arrived
        /\ pc' = After(k, arrived')
        /\ k' = k + 1
     \/ /\ recordFails
        /\ IF api = "forward" THEN UNCHANGED <<events, pending, missing>>
           ELSE SetEvent(0)
        /\ pc' = "guard"
        /\ UNCHANGED <<arrived, k>>
  /\ UNCHANGED <<executing, callVars, produced, next, staging, reading, dst,
                 completion, error, result, storage>>

\* scatterOne: wait for the oldest window, then scatter its rows.
ScatterWait ==
  /\ pc = "scatter"
  /\ waitEvent(Head(arrived).ev)
  /\ pc' = IF failed' THEN "guard" ELSE "rows"
  /\ UNCHANGED <<executing, callVars, produced, k, poolVars, staging, reading,
                 dst, arrived, completion, error, result, storage>>

ScatterRows ==
  /\ pc = "rows"
  /\ dst' = [dst EXCEPT ![Head(arrived).chunk] = staging[Head(arrived).buf]]
  /\ arrived' = Tail(arrived)
  /\ pc' = After(k - 1, Tail(arrived))
  /\ UNCHANGED <<backendVars, callVars, produced, k, poolVars, staging,
                 reading, completion, error, result, storage>>

DrainSet == {b \in Buffers : events[b] # 0}

\* drain(), one wait at a time, in index order.
Drain ==
  /\ pc = "drain" /\ DrainSet # {}
  /\ LET b == CHOOSE x \in DrainSet : \A y \in DrainSet : x <= y
     IN  waitEvent(events[b]) /\ events' = [events EXCEPT ![b] = 0]
  /\ UNCHANGED <<executing, callVars, pc, produced, k, next, pending, missing,
                 staging, reading, dst, arrived, completion, error, result, storage>>

Drained ==
  /\ pc = "drain" /\ DrainSet = {}
  /\ IF failed \/ missing THEN UNCHANGED <<pending, missing>>
     ELSE pending' = FALSE /\ missing' = FALSE
  /\ pc' = IF failed /\ api # "inverse" THEN "guard"
           ELSE IF api = "forward" THEN "rowsForward" ELSE "retire"
  /\ completion' = IF ~failed /\ ToDevice THEN "Complete" ELSE completion
  /\ UNCHANGED <<backendVars, callVars, produced, k, next, events, staging,
                 reading, dst, arrived, error, result, storage>>

\* forwardHostGather: only after the download proved complete.
GatherForward ==
  /\ pc = "rowsForward"
  /\ dst' = [dst EXCEPT ![1] = staging[0]]
  /\ completion' = "Complete"
  /\ pc' = "retire"
  /\ UNCHANGED <<backendVars, callVars, produced, k, poolVars, staging,
                 reading, arrived, error, result, storage>>

(***************************************************************************)
(* Errors and the end of the ring                                          *)
(***************************************************************************)
\* Defect: an error after a submission counts as a completion.
GuardOptimistic ==
  /\ pc = "guard"
  /\ error' = TRUE /\ pc' = "retire"
  /\ completion' = IF completion = "Unknown" THEN "Complete" ELSE completion
  /\ UNCHANGED <<backendVars, callVars, produced, k, poolVars, staging,
                 reading, dst, arrived, result, storage>>

\* CompletionGuard: after a launch only quiesce() proves completion.  The
\* inverse loop has no guard; its ring's destructor does the same.
Guard ==
  /\ pc = "guard"
  /\ error' = TRUE /\ pc' = "retire"
  /\ IF completion = "Unknown"
     THEN \/ quiesceComplete /\ completion' = "Complete"
          \/ quiesceUnknown /\ UNCHANGED completion
     ELSE UNCHANGED <<tasks, live, done, nextEvent, failed, completion>>
  /\ UNCHANGED <<executing, callVars, produced, k, poolVars, staging, reading,
                 dst, arrived, result, storage>>

\* executeTransfer gives an unknown ring away for good; the raw entry points
\* leave it to ~PinnedBufferPool, which frees only what is not in flight.
Retire ==
  /\ pc = "retire" /\ pc' = "returned"
  /\ LET busy == IF Owned THEN completion = "Unknown"
                 ELSE pending /\ completion # "Complete"
     IN  IF ~busy
         THEN /\ storage' = "freed"
              /\ UNCHANGED <<tasks, live, done, nextEvent, failed>>
         ELSE IF Owned
         THEN /\ storage' = "retained"
              /\ UNCHANGED <<tasks, live, done, nextEvent, failed>>
         ELSE \/ quiesceComplete /\ storage' = "freed"
              \/ quiesceUnknown /\ storage' = "retained"
  /\ result' = IF ~error THEN "ok"
               ELSE IF completion = "Unknown" THEN "unknown" ELSE "failed"
  /\ UNCHANGED <<executing, callVars, produced, k, poolVars, staging, reading,
                 dst, arrived, completion, error>>

(***************************************************************************)
(* The queues and the caller's stream                                      *)
(***************************************************************************)
\* A copy reads its source from here on; a wait runs once it may.
Begin(q) ==
  /\ TaskStart(q)
  /\ LET t == Head(tasks[q])
     IN  reading' = [reading EXCEPT ![q] =
                       IF t.kind # "copy" THEN 0
                       ELSE IF ToDevice THEN staging[t.buf] ELSE t.chunk]
  /\ UNCHANGED <<callVars, pc, produced, k, poolVars, staging, dst, arrived,
                 completion, error, result, storage>>

\* What a copy delivers: nothing of use when its source changed under it or
\* when it ran before the caller's stream.
Delivered(q) ==
  LET t == executing[q][1]
  IN  IF ~produced \/ (ToDevice /\ staging[t.buf] # reading[q])
      THEN 0 ELSE reading[q]

Finish(q) ==
  /\ TaskFinish(q)
  /\ LET t == executing[q][1]
     IN  /\ t.kind = "wait" => produced
         /\ dst' = IF t.kind = "copy" /\ ToDevice
                   THEN [dst EXCEPT ![t.chunk] = Delivered(q)] ELSE dst
         /\ staging' = IF t.kind = "copy" /\ ~ToDevice
                       THEN [staging EXCEPT ![t.buf] = Delivered(q)]
                       ELSE staging
  /\ reading' = [reading EXCEPT ![q] = 0]
  /\ UNCHANGED <<callVars, pc, produced, k, poolVars, arrived, completion,
                 error, result, storage>>

Produce ==
  /\ ~produced /\ produced' = TRUE
  /\ UNCHANGED <<backendVars, callVars, pc, k, poolVars, staging, reading,
                 dst, arrived, completion, error, result, storage>>

Driver ==
  \/ Start \/ Order \/ AcquireSlot \/ Fill \/ Gather \/ Submit \/ Record
  \/ ScatterWait \/ ScatterRows \/ Drain \/ Drained \/ GatherForward
  \/ Guard \/ Retire

Queue(q) == Begin(q) \/ Finish(q)

Next == Driver \/ Produce \/ \E q \in Queues : Queue(q)

Spec == Init /\ [][Next]_vars

\* The driver thread runs, queues make progress, the caller's stream ends.
FairSpec ==
  /\ Spec
  /\ WF_vars(Driver) /\ WF_vars(Produce)
  /\ \A q \in Queues : WF_vars(Queue(q))

(***************************************************************************)
(* Properties                                                              *)
(***************************************************************************)
Contents == -NumChunks .. NumChunks
TypeOK ==
  /\ api \in Apis /\ ordered \in BOOLEAN /\ produced \in BOOLEAN
  /\ k \in 1 .. NumChunks + 1
  /\ next \in -1 .. NumBuffers - 1
  /\ events \in [Buffers -> 0 .. NumChunks]
  /\ pending \in BOOLEAN /\ missing \in BOOLEAN /\ error \in BOOLEAN
  /\ staging \in [Buffers -> Contents] /\ reading \in [Queues -> Contents]
  /\ dst \in [Chunks -> Contents]
  /\ Len(arrived) <= NumBuffers
  /\ live \subseteq 1 .. NumChunks /\ done \subseteq 1 .. NumChunks
  /\ completion \in {"NotLaunched", "Unknown", "Complete"}
  /\ storage \in {"held", "freed", "retained"}

\* Whatever fails, the call implements what a transfer promises its caller
\* (TransferPromise).
Promise ==
  INSTANCE TransferPromise
    WITH Windows <- 1 .. NumChunks,
         moved <- {c \in 1 .. NumChunks :
                     IF api = "forward" THEN dst[1] = 1 ELSE dst[c] = c}
PromiseSpec == Promise!Spec

\* A call that started returns: no wait of the driver is for an event nobody recorded
\* or a queue nobody drains.
CallReturns == pc # "start" ~> result # "running"
=============================================================================
