---------------------------- MODULE TransferQueue ----------------------------
(****************************************************************************)
(* Explicit asynchronous transfers (reloc_torch/asynchronous.py): a         *)
(* TransferQueue admits groups within a slot and an output-byte budget, a   *)
(* TransferCompletion keeps a group's tensors until its producer and its    *)
(* consumers are known to be finished, and a PrefetchWindow submits the     *)
(* next group while the previous one is consumed.                           *)
(*                                                                          *)
(* Users share handles, one more thread iterates a window, and the GPU runs *)
(* the copies and the consumer streams by itself.  A consumer stream is the *)
(* sequence of what is enqueued on it: uses of a group's tensors, which     *)
(* start once the group's copy is done, and marks (an event record, or the  *)
(* end of a stream at the time it is synchronised).  Every method holds the *)
(* queue's lock from its first check to its return, blocking waits          *)
(* included; the window's own methods do not.                               *)
(****************************************************************************)
EXTENDS Naturals, FiniteSets, SequencesExt, Charges

CONSTANTS
  Users, Window,            \* threads: direct callers, and the window's
  UserGroups, WindowGroups, \* groups to submit; the window's is a sequence
  Streams, StreamOf,        \* each thread's current consumer stream
  Size,                     \* output bytes of a group
  MaxInFlight, MaxOutputBytes,
  None,
  MaxOps, MaxFaults         \* bounds of the model: calls of the users, failures

Threads == Users \cup {Window}
Groups == UserGroups \cup Range(WindowGroups)

ASSUME QueueConstants ==
  /\ Window \notin Users /\ None \notin Threads \cup Groups
  /\ StreamOf \in [Threads -> Streams] /\ Size \in [Groups -> Nat]
  /\ WindowGroups \in Seq(Range(WindowGroups))
  /\ IsInjective(WindowGroups) /\ UserGroups \cap Range(WindowGroups) = {}
  /\ {MaxInFlight, MaxOutputBytes} \subseteq Nat \ {0}
  /\ {MaxOps, MaxFaults} \subseteq Nat

VARIABLES
  closed, held, bytes, lock,  \* the queue
  handle,    \* the completion of each group
  pc,        \* what each thread is doing
  job,       \* the close() a thread is inside of
  taken, handles, last,       \* the window: groups taken, deque, last yielded
  quarantine,                 \* groups whose owners are kept for ever
  copy,      \* each group's producer on the GPU
  stream,    \* each consumer stream
  ops, faults

queueVars == <<closed, held, bytes>>
windowVars == <<taken, handles, last>>
gpuVars == <<copy, stream>>
boundVars == <<ops, faults>>
vars == <<queueVars, lock, handle, pc, job, windowVars, quarantine, gpuVars, boundVars>>

NoJob == [group |-> None, todo |-> {}, back |-> "idle", failed |-> FALSE]
Fresh == [state |-> "new", released |-> FALSE, consumers |-> {}, retired |-> {}]

Init ==
  /\ closed = FALSE /\ held = {} /\ bytes = 0 /\ lock = None
  /\ handle = [g \in Groups |-> Fresh]
  /\ pc = [t \in Threads |-> IF t = Window THEN "next" ELSE "idle"]
  /\ job = [t \in Threads |-> NoJob]
  /\ taken = 0 /\ handles = <<>> /\ last = None
  /\ quarantine = {}
  /\ copy = [g \in Groups |-> "none"]
  /\ stream = [s \in Streams |-> <<>>]
  /\ ops = 0 /\ faults = 0

Go(t, to) == pc' = [pc EXCEPT ![t] = to]
Fault == faults < MaxFaults /\ faults' = faults + 1
Open(g) == handle[g].state = "open"
Use(g) == [op |-> "use", group |-> g]
Mark(g) == [op |-> "mark", group |-> g]
Enqueued(x, S) == [s \in Streams |-> IF s \in S THEN Append(stream[s], x) ELSE stream[s]]
Reached(g, S) == \A s \in S : ~Contains(stream[s], Mark(g))

-----------------------------------------------------------------------------
(* TransferQueue.can_submit and submit.                                     *)

\* Defect: the incoming group's own bytes are not counted
CanSubmitFull(g) == ~closed /\ Cardinality(held) < MaxInFlight /\ bytes <= MaxOutputBytes
CanSubmit(g) ==
  ~closed /\ Cardinality(held) < MaxInFlight /\ bytes + Size[g] <= MaxOutputBytes

(* The native submission starts the copy; the handle joins the queue.       *)
Submitted(g) ==
  /\ held' = held \cup {g} /\ bytes' = bytes + Size[g]
  /\ handle' = [handle EXCEPT ![g].state = "open"]
  /\ copy' = [copy EXCEPT ![g] = "running"]

Submit(u, g) ==
  /\ pc[u] = "idle" /\ lock = None /\ ops < MaxOps /\ ops' = ops + 1
  /\ handle[g].state = "new" /\ CanSubmit(g)
  /\ Submitted(g)
  /\ UNCHANGED <<closed, lock, pc, job, windowVars, quarantine, stream, faults>>

-----------------------------------------------------------------------------
(* TransferCompletion.wait_stream, wait and release, while it is open.      *)

WaitStream(u, g) ==
  /\ pc[u] = "idle" /\ lock = None /\ ops < MaxOps /\ ops' = ops + 1
  /\ Open(g) /\ ~handle[g].released
  /\ handle' = [handle EXCEPT ![g].consumers = @ \cup {StreamOf[u]}]
  /\ UNCHANGED <<queueVars, lock, pc, job, windowVars, quarantine, gpuVars, faults>>

Wait(u, g) ==
  /\ pc[u] = "idle" /\ lock = None /\ ops < MaxOps /\ ops' = ops + 1
  /\ Open(g)
  /\ lock' = u /\ Go(u, "wait")
  /\ job' = [job EXCEPT ![u].group = g]
  /\ UNCHANGED <<queueVars, handle, windowVars, quarantine, gpuVars, faults>>

WaitReturns(u) ==
  LET g == job[u].group IN
  /\ pc[u] = "wait" /\ copy[g] \in {"done", "lost"}
  /\ lock' = None /\ Go(u, "idle")
  /\ job' = [job EXCEPT ![u] = NoJob]
  /\ handle' = IF copy[g] = "done" /\ ~handle[g].released
               THEN [handle EXCEPT ![g].consumers = @ \cup {StreamOf[u]}] ELSE handle
  /\ UNCHANGED <<queueVars, windowVars, quarantine, gpuVars, boundVars>>

(* What release() leaves behind: an event per consumer stream, or, when an  *)
(* event cannot be recorded, the events recorded before it.                 *)
Released(g, failed) ==
  LET h == handle[g] IN
  \/ /\ ~failed /\ h.released /\ UNCHANGED <<handle, stream, faults>>
  \/ /\ ~failed /\ ~h.released
     /\ handle' = [handle EXCEPT ![g].released = TRUE, ![g].retired = h.consumers]
     /\ stream' = Enqueued(Mark(g), h.consumers)
     /\ UNCHANGED faults
  \/ /\ failed /\ ~h.released /\ h.consumers # {} /\ Fault
     /\ \E S \in SUBSET h.consumers :
          /\ S # h.consumers
          /\ handle' = [handle EXCEPT ![g].retired = @ \cup S]
          /\ stream' = Enqueued(Mark(g), S)

Release(u, g) ==
  /\ pc[u] = "idle" /\ lock = None /\ ops < MaxOps /\ ops' = ops + 1
  /\ Open(g) /\ \E failed \in BOOLEAN : Released(g, failed)
  /\ UNCHANGED <<queueVars, lock, pc, job, windowVars, quarantine, copy>>

BeingClosed(g) ==
  \E t \in Threads : job[t].group = g /\ pc[t] \in {"release", "producer", "consumers"}

(* A consumer kernel of a thread that obtained the tensors on this stream.  *)
(* What is enqueued after release() or close() began relies on the caller's *)
(* own references to the tensors and is not the queue's to drain.           *)
Consume(t, g) ==
  /\ pc[t] = IF t = Window THEN "consume" ELSE "idle"
  /\ t = Window => g = last
  /\ Open(g) /\ ~BeingClosed(g) /\ ~handle[g].released /\ StreamOf[t] \in handle[g].consumers
  /\ ~Contains(stream[StreamOf[t]], Use(g))
  /\ stream' = Enqueued(Use(g), {StreamOf[t]})
  /\ ops < MaxOps /\ ops' = ops + 1
  /\ UNCHANGED <<queueVars, lock, handle, pc, job, windowVars, quarantine, copy, faults>>

-----------------------------------------------------------------------------
(* TransferCompletion.close: release, wait for the producer, wait for the   *)
(* consumers, give the slot back.  The lock is held throughout.             *)

StartClose(t, g, todo, back, failed) ==
  /\ job' = [job EXCEPT ![t] = [group |-> g, todo |-> todo, back |-> back, failed |-> failed]]
  /\ IF Open(g) THEN lock' = t /\ Go(t, "release") ELSE lock' = None /\ Go(t, back)

CloseHandle(u, g) ==
  /\ pc[u] = "idle" /\ lock = None /\ ops < MaxOps /\ ops' = ops + 1
  /\ handle[g].state # "new"
  /\ StartClose(u, g, {}, "idle", FALSE)
  /\ UNCHANGED <<queueVars, handle, windowVars, quarantine, gpuVars, faults>>

CloseReleases(t) ==
  /\ pc[t] = "release" /\ Go(t, "producer")
  /\ \E failed \in BOOLEAN :
       /\ Released(job[t].group, failed)
       /\ job' = [job EXCEPT ![t].failed = @ \/ failed]
  /\ UNCHANGED <<queueVars, lock, windowVars, quarantine, copy, ops>>

(* native.wait(); then the streams of a handle that could not be released   *)
(* are synchronised themselves.                                             *)
\* Defect: only the events that were recorded are waited for
CloseWaitsRecorded(t) ==
  LET g == job[t].group IN
  /\ pc[t] = "producer" /\ copy[g] \in {"done", "lost"}
  /\ Go(t, "consumers")
  /\ job' = [job EXCEPT ![t].failed = @ \/ copy[g] = "lost"]
  /\ UNCHANGED <<stream, queueVars, lock, handle, windowVars, quarantine, copy, boundVars>>
CloseWaits(t) ==
  LET g == job[t].group IN
  /\ pc[t] = "producer" /\ copy[g] \in {"done", "lost"}
  /\ Go(t, "consumers")
  /\ job' = [job EXCEPT ![t].failed = @ \/ copy[g] = "lost"]
  /\ stream' = IF handle[g].released THEN stream ELSE Enqueued(Mark(g), handle[g].consumers)
  /\ UNCHANGED <<queueVars, lock, handle, windowVars, quarantine, copy, boundVars>>

\* Defect: the first handle that fails ends the queue's close()
RetireStops(t, failed) ==
  LET g == job[t].group
      rest == job[t].todo \cap (held \ {g}) IN
  /\ held' = held \ {g} /\ bytes' = bytes - Size[g]
  /\ handle' = [handle EXCEPT ![g] = [Fresh EXCEPT !.state = "closed"]]
  /\ IF rest = {} \/ failed
     THEN /\ lock' = None /\ Go(t, job[t].back)
          /\ job' = [job EXCEPT ![t] = [NoJob EXCEPT !.failed = failed]]
     ELSE \E n \in rest : StartClose(t, n, rest \ {n}, job[t].back, failed)

(* _release and the end of close(), in a queue's close() the next handle's. *)
Retire(t, failed) ==
  LET g == job[t].group
      rest == job[t].todo \cap (held \ {g}) IN
  /\ held' = held \ {g} /\ bytes' = bytes - Size[g]
  /\ handle' = [handle EXCEPT ![g] = [Fresh EXCEPT !.state = "closed"]]
  /\ IF rest = {}
     THEN /\ lock' = None /\ Go(t, job[t].back)
          /\ job' = [job EXCEPT ![t] = [NoJob EXCEPT !.failed = failed]]
     ELSE \E n \in rest : StartClose(t, n, rest \ {n}, job[t].back, failed)

Consumers(g) == IF handle[g].released THEN handle[g].retired ELSE handle[g].consumers

CloseSynced(t) ==
  /\ pc[t] = "consumers" /\ Reached(job[t].group, Consumers(job[t].group))
  /\ Retire(t, job[t].failed)
  /\ UNCHANGED <<closed, windowVars, quarantine, gpuVars, boundVars>>

\* Defect: the queue stays open after consumers of unknown state
CloseLosesOpen(t) ==
  /\ pc[t] = "consumers" /\ Consumers(job[t].group) # {} /\ Fault
  /\ quarantine' = quarantine \cup {job[t].group}
  /\ Retire(t, TRUE)
  /\ UNCHANGED <<closed, windowVars, gpuVars, ops>>
(* A consumer cannot be synchronised: its owners are kept for ever and the  *)
(* queue admits nothing any more.                                           *)
CloseLoses(t) ==
  /\ pc[t] = "consumers" /\ Consumers(job[t].group) # {} /\ Fault
  /\ quarantine' = quarantine \cup {job[t].group}
  /\ closed' = TRUE
  /\ Retire(t, TRUE)
  /\ UNCHANGED <<windowVars, gpuVars, ops>>

(* TransferQueue.close: refuse new work, then close every held handle.      *)
CloseQueue(u) ==
  /\ pc[u] = "idle" /\ lock = None /\ ops < MaxOps /\ ops' = ops + 1
  /\ closed' = TRUE
  /\ IF held = {} THEN Go(u, "closed") /\ UNCHANGED <<lock, job>>
     ELSE \E g \in held : StartClose(u, g, held \ {g}, "closed", FALSE)
  /\ UNCHANGED <<held, bytes, handle, windowVars, quarantine, gpuVars, faults>>

-----------------------------------------------------------------------------
(* PrefetchWindow.__next__ : five separate critical sections.               *)

NextReleases ==
  /\ pc[Window] = "next"
  /\ IF last = None
     THEN Go(Window, "take") /\ UNCHANGED <<handle, last, stream, faults>>
     ELSE /\ lock = None
          /\ \/ ~Open(last) /\ Go(Window, "exit") /\ UNCHANGED <<handle, last, stream, faults>>
             \/ Open(last) /\ Released(last, FALSE) /\ Go(Window, "take") /\ last' = None
             \/ Open(last) /\ Released(last, TRUE) /\ Go(Window, "exit") /\ UNCHANGED last
  /\ UNCHANGED <<queueVars, lock, job, taken, handles, quarantine, copy, ops>>

NextTakes ==
  /\ pc[Window] = "take"
  /\ IF taken = Len(WindowGroups) THEN Go(Window, "exit") /\ UNCHANGED taken
     ELSE Go(Window, "room") /\ taken' = taken + 1
  /\ UNCHANGED <<queueVars, lock, handle, job, handles, last, quarantine, gpuVars, boundVars>>

Taken == WindowGroups[taken]

(* At capacity the oldest handle of the window is closed, then asked again. *)
\* Defect: the oldest handle is only released, its slot is not given back
NextRoomReleases ==
  /\ pc[Window] = "room" /\ lock = None
  /\ IF job[Window].failed THEN Go(Window, "exit")
     ELSE Go(Window, IF CanSubmit(Taken) \/ handles = <<>> THEN "submit" ELSE "room")
  /\ UNCHANGED <<queueVars, lock, handle, job, windowVars, quarantine, gpuVars, boundVars>>
NextMakesRoom ==
  /\ pc[Window] = "room" /\ lock = None
  /\ \/ /\ job[Window].failed
        /\ Go(Window, "exit") /\ UNCHANGED <<lock, job, handles>>
     \/ /\ ~job[Window].failed /\ (CanSubmit(Taken) \/ handles = <<>>)
        /\ Go(Window, "submit") /\ UNCHANGED <<lock, job, handles>>
     \/ /\ ~job[Window].failed /\ ~CanSubmit(Taken) /\ handles # <<>>
        /\ StartClose(Window, Head(handles), {}, "room", FALSE)
        /\ handles' = Tail(handles)
  /\ UNCHANGED <<queueVars, handle, taken, last, quarantine, gpuVars, boundVars>>

(* A slot that another thread took meanwhile raises BufferError; the native *)
(* submission may fail, leaving nothing behind.                             *)
NextSubmits ==
  /\ pc[Window] = "submit" /\ lock = None
  /\ \/ /\ CanSubmit(Taken) /\ Submitted(Taken)
        /\ handles' = Append(handles, Taken) /\ last' = Taken
        /\ Go(Window, "order") /\ UNCHANGED faults
     \/ /\ IF CanSubmit(Taken) THEN Fault ELSE UNCHANGED faults
        /\ Go(Window, "exit") /\ UNCHANGED <<held, bytes, handle, copy, handles, last>>
  /\ UNCHANGED <<closed, lock, job, taken, quarantine, stream, ops>>

(* wait_stream on the new handle, unless the queue was closed meanwhile.    *)
NextOrders ==
  /\ pc[Window] = "order" /\ lock = None
  /\ \/ /\ Open(last)
        /\ handle' = [handle EXCEPT ![last].consumers = @ \cup {StreamOf[Window]}]
        /\ Go(Window, "consume") /\ UNCHANGED faults
     \/ /\ IF Open(last) THEN Fault ELSE UNCHANGED faults
        /\ Go(Window, "exit") /\ UNCHANGED handle
  /\ UNCHANGED <<queueVars, lock, job, windowVars, quarantine, gpuVars, ops>>

(* The loop body ends: the next iteration, or a break or an exception.      *)
Iterate ==
  /\ pc[Window] = "consume"
  /\ \E to \in {"next", "exit"} : Go(Window, to)
  /\ UNCHANGED <<queueVars, lock, handle, job, windowVars, quarantine, gpuVars, boundVars>>

(* PrefetchWindow.close: every handle of the deque, whatever fails.         *)
WindowCloses ==
  /\ pc[Window] = "exit" /\ lock = None
  /\ IF handles = <<>>
     THEN Go(Window, "left") /\ last' = None /\ UNCHANGED <<lock, job, handles>>
     ELSE /\ StartClose(Window, Head(handles), {}, "exit", FALSE)
          /\ handles' = Tail(handles) /\ UNCHANGED last
  /\ UNCHANGED <<queueVars, handle, taken, quarantine, gpuVars, boundVars>>

-----------------------------------------------------------------------------
(* The GPU.  A copy ends, or native.wait() will report it as failed: the    *)
(* native runtime has then drained it or keeps its owners itself.           *)
CopyEnds(g) ==
  /\ copy[g] = "running"
  /\ \/ copy' = [copy EXCEPT ![g] = "done"] /\ UNCHANGED faults
     \/ copy' = [copy EXCEPT ![g] = "lost"] /\ Fault
  /\ UNCHANGED <<queueVars, lock, handle, pc, job, windowVars, quarantine, stream, ops>>

StreamRuns(s) ==
  /\ stream[s] # <<>>
  /\ Head(stream[s]).op = "use" => copy[Head(stream[s]).group] # "running"
  /\ stream' = [stream EXCEPT ![s] = Tail(@)]
  /\ UNCHANGED <<queueVars, lock, handle, pc, job, windowVars, quarantine, copy, boundVars>>

-----------------------------------------------------------------------------
Closing(t) == CloseReleases(t) \/ CloseWaits(t) \/ CloseSynced(t) \/ CloseLoses(t)
WindowStep ==
  \/ NextReleases \/ NextTakes \/ NextMakesRoom \/ NextSubmits \/ NextOrders
  \/ Iterate \/ WindowCloses \/ Closing(Window)
UserStep(u) == WaitReturns(u) \/ Closing(u)
UserCall(u) ==
  \/ CloseQueue(u)
  \/ \E g \in UserGroups :
       \/ Submit(u, g) \/ WaitStream(u, g) \/ Wait(u, g) \/ Release(u, g)
       \/ Consume(u, g) \/ CloseHandle(u, g)

Next ==
  \/ \E u \in Users : UserStep(u) \/ UserCall(u)
  \/ WindowStep
  \/ \E g \in Groups : Consume(Window, g) \/ CopyEnds(g)
  \/ \E s \in Streams : StreamRuns(s)

Spec == Init /\ [][Next]_vars

(* Threads inside a call go on, and the GPU makes progress on its own.      *)
FairSpec ==
  /\ Spec
  /\ WF_vars(WindowStep) /\ \A u \in Users : WF_vars(UserStep(u))
  /\ \A g \in Groups : WF_vars(CopyEnds(g))
  /\ \A s \in Streams : WF_vars(StreamRuns(s))

-----------------------------------------------------------------------------
(* The state is well formed; a thread holds the lock exactly while it is    *)
(* inside a blocking method.                                                *)
TypeOK ==
  /\ closed \in BOOLEAN /\ held \subseteq Groups /\ bytes \in Nat
  /\ \A t \in Threads :
       (lock = t) <=> pc[t] \in {"wait", "release", "producer", "consumers"}
  /\ \A g \in Groups :
       /\ handle[g].state \in {"new", "open", "closed"}
       /\ handle[g].retired \subseteq handle[g].consumers
       /\ handle[g].consumers \subseteq Streams
       /\ copy[g] \in {"none", "running", "done", "lost"}
  /\ taken \in 0..Len(WindowGroups) /\ Range(handles) \subseteq Groups

(* max_in_flight and max_output_bytes bound what is outstanding, and the    *)
(* two accounts agree: bytes is the sum over the held handles, and a handle *)
(* is held exactly while it is open, however handles are closed by their    *)
(* owner, by the window and by the queue.                                   *)
OutstandingBounded ==
  /\ held = {g \in Groups : Open(g)}
  /\ bytes = Total(held, Size)
  /\ Cardinality(held) <= MaxInFlight /\ bytes <= MaxOutputBytes

(* "Unknown work must never see freed tensor storage": as long as a group's *)
(* copy runs or a use of its tensors is enqueued, its owners are kept, by   *)
(* its open handle or by the quarantine, although events fail to record and *)
(* other threads close the queue at any time.                               *)
OwnersOutliveWork ==
  \A g \in Groups :
    \/ copy[g] = "running"
    \/ \E s \in Streams : Contains(stream[s], Use(g))
    => Open(g) \/ g \in quarantine

(* "unknown consumer completion retains its tensor owners and disables the  *)
(* queue": what was quarantined stays, and nothing is submitted after it.   *)
QuarantineDisables ==
  [][/\ quarantine \subseteq quarantine'
     /\ quarantine # {} => held' \subseteq held]_vars

(* "Closing a queue drains its handles": when close() returns, nothing is   *)
(* held and no work of a released group is left on the GPU.                 *)
CloseDrains ==
  \A u \in Users : pc[u] = "closed" =>
    /\ held = {} /\ bytes = 0
    /\ \A g \in Groups : copy[g] # "running"

(* The queue's reservations agree with the handles that are open, and       *)
(* close() ends them all.                                                   *)
ReservationsSettle == OutstandingBounded /\ CloseDrains

(* Every blocking method returns, and every step of the window ends in a    *)
(* yield or in the window's exit: the lock held across waits cannot stop    *)
(* the GPU it waits for, and making room ends.                              *)
CallsReturn ==
  /\ \A u \in Users : lock = u ~> lock # u
  /\ pc[Window] = "next" ~> pc[Window] \in {"consume", "left"}
  /\ pc[Window] = "exit" ~> pc[Window] = "left"
=============================================================================
