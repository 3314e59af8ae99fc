---------------------------- MODULE FastTransfers ----------------------------
(****************************************************************************)
(* Fast transfers (reloc_torch/fast.py, fast_ops.py): an owner submits      *)
(* groups of prepared programs on one native resource set.  A completion is *)
(* shared by the deques that may retire it: the owner's _inflight, the      *)
(* swap's _inflight, and a prefetch window's _pending and _consumed.        *)
(*                                                                          *)
(* One thread drives the owner, the swap and the window; `todo` is the rest *)
(* of the method it is inside of, so that the GPU completes and fails       *)
(* groups between any two of its steps.  Another thread runs a compiled     *)
(* graph that resolves program handles.  Waiting on a group that is still   *)
(* running blocks: its step is not enabled.                                 *)
(****************************************************************************)
EXTENDS Naturals, FiniteSets, SequencesExt

CONSTANTS
  Direct, Restores,          \* groups: of direct callers and evict(), of restore()
  Prefetched,                \* the groups a prefetch window iterates, a sequence
  MaxInflight, Slots,        \* max_inflight, and the window's slots
  Programs,                  \* programs a compiled graph may refer to
  MaxFailures, MaxOpCalls    \* bounds of the model

FastGroups == Direct \cup Restores \cup Range(Prefetched)

\* A submission makes a completion of its own, whoever makes it.
ASSUME FastConstants ==
  /\ Prefetched \in Seq(Range(Prefetched)) /\ IsInjective(Prefetched)
  /\ (Direct \cup Restores) \cap Range(Prefetched) = {}
  /\ {MaxInflight, Slots} \subseteq Nat \ {0} /\ {MaxFailures, MaxOpCalls} \subseteq Nat

VARIABLES
  todo,      \* the steps left of the method the user's thread is inside of
  native,    \* each group's native completion
  finished,  \* groups whose FastCompletion is _done
  totals,    \* how often each group was added to the owner's totals
  deques,    \* owner, swap, pending, consumed: sequences of groups
  taken,     \* groups the window's iterator has produced
  handed,    \* how each group's outputs were handed out, last
  ownerState, windowOpen, registered, op,
  failures, opCalls

fastVars == <<todo, native, finished, totals, deques, taken, handed, ownerState, windowOpen,
              registered, op, failures, opCalls>>

Idle == todo = <<>>
Do(k) == [k |-> k, g |-> "none"]
On(k, g) == [k |-> k, g |-> g]
Doing(k) == todo # <<>> /\ Head(todo).k = k
NextStep == todo' = Tail(todo)

FastInit ==
  /\ todo = <<>> /\ native = [g \in FastGroups |-> "none"]
  /\ finished = {} /\ totals = [g \in FastGroups |-> 0]
  /\ deques = [owner |-> <<>>, swap |-> <<>>, pending |-> <<>>, consumed |-> <<>>]
  /\ taken = 0 /\ handed = [g \in FastGroups |-> "no"]
  /\ ownerState = "open" /\ windowOpen = "no" /\ registered = {} /\ op = "idle"
  /\ failures = 0 /\ opCalls = 0

opVars == <<registered, op, opCalls>>
stateVars == <<ownerState, windowOpen>>

-----------------------------------------------------------------------------
(* External: the GPU completes a group; a failure is sticky, every later    *)
(* query or wait of that completion raises it.                              *)
Completes(g) ==
  /\ native[g] = "running"
  /\ \/ native' = [native EXCEPT ![g] = "ok"] /\ UNCHANGED failures
     \/ /\ failures < MaxFailures /\ failures' = failures + 1
        /\ native' = [native EXCEPT ![g] = "failed"]
  /\ UNCHANGED <<todo, finished, totals, deques, taken, handed, stateVars, opVars>>

(* FastCompletion._finish, reached from done(), wait() and wait_stream() of *)
(* a completion that is not _done yet.                                      *)
\* Defect: the completion forgets that it is done
FinishAgain(g) == finished' = finished /\ totals' = [totals EXCEPT ![g] = @ + 1]
Finish(g) ==
  IF g \in finished THEN UNCHANGED <<finished, totals>>
  ELSE finished' = finished \cup {g} /\ totals' = [totals EXCEPT ![g] = @ + 1]

(* An exception leaves the method; close() runs its finally clause.         *)
Raise == todo' = IF ownerState = "closing" THEN <<Do("closeNative")>> ELSE <<>>

Pop(q) == deques' = [deques EXCEPT ![q] = Tail(@)]
Oldest(q) == Head(deques[q])

(* while q and q[0].done(): q.popleft(), also _retire() without block.  A   *)
(* failed head stays where it is and raises again at the next call.         *)
Poll(k, q) ==
  /\ Doing(k)
  /\ \/ deques[q] = <<>> /\ NextStep /\ UNCHANGED <<finished, totals, deques>>
     \/ /\ deques[q] # <<>> /\ native[Oldest(q)] = "running" /\ NextStep
        /\ UNCHANGED <<finished, totals, deques>>
     \/ /\ deques[q] # <<>> /\ native[Oldest(q)] = "ok"
        /\ Finish(Oldest(q)) /\ Pop(q) /\ UNCHANGED todo
     \/ deques[q] # <<>> /\ native[Oldest(q)] = "failed" /\ Raise /\ UNCHANGED <<finished, totals, deques>>
  /\ UNCHANGED <<native, taken, handed, stateVars, opVars, failures>>

(* while q has more than `keep` completions: q.popleft().wait().            *)
Block(k, q, keep) ==
  /\ Doing(k)
  /\ \/ Len(deques[q]) <= keep /\ NextStep /\ UNCHANGED <<finished, totals, deques>>
     \/ /\ Len(deques[q]) > keep /\ native[Oldest(q)] = "ok"
        /\ Finish(Oldest(q)) /\ Pop(q) /\ UNCHANGED todo
     \/ /\ Len(deques[q]) > keep /\ native[Oldest(q)] = "failed"
        /\ Pop(q) /\ Raise /\ UNCHANGED <<finished, totals>>
  /\ UNCHANGED <<native, taken, handed, stateVars, opVars, failures>>

RetireOwner == Poll("retire", "owner")
RetireSwap == Poll("retireSwap", "swap")
\* Defect: the oldest retained completion is dropped instead of waited for
MakeRoomDropping ==
  /\ Doing("makeRoom") /\ NextStep
  /\ deques' = [deques EXCEPT !.owner = IF Len(@) >= MaxInflight THEN Tail(@) ELSE @]
  /\ UNCHANGED <<native, finished, totals, taken, handed, stateVars, opVars, failures>>
MakeRoom == Block("makeRoom", "owner", MaxInflight - 1)
DrainOwner == Block("drainOwner", "owner", 0)
DrainSwap == Block("drainSwap", "swap", 0)
DrainPending == Block("drainPending", "pending", 0)
DrainConsumed == Block("drainConsumed", "consumed", 0)

-----------------------------------------------------------------------------
(* submit() after _check_open and _retire: one native submission, which may *)
(* be refused.  The steps that follow it in `todo` use its completion.      *)
Submitting(g) == <<Do("checkOpen"), Do("retire"), On("launch", g)>>
CheckOpen ==
  /\ Doing("checkOpen")
  /\ IF ownerState = "open" THEN NextStep ELSE Raise
  /\ UNCHANGED <<native, finished, totals, deques, taken, handed, stateVars, opVars, failures>>
Launch ==
  /\ Doing("launch")
  /\ \/ NextStep /\ native' = [native EXCEPT ![Head(todo).g] = "running"] /\ UNCHANGED failures
     \/ failures < MaxFailures /\ failures' = failures + 1 /\ Raise /\ UNCHANGED native
  /\ UNCHANGED <<finished, totals, deques, taken, handed, stateVars, opVars>>

(* FastCompletion.wait(), and wait_stream() of a group with a host result.  *)
\* Defect: the outputs are handed out without waiting
WaitSkipped ==
  /\ Doing("wait")
  /\ handed' = [handed EXCEPT ![Head(todo).g] = "host"] /\ NextStep
  /\ UNCHANGED <<native, finished, totals, deques, taken, stateVars, opVars, failures>>
Wait ==
  /\ Doing("wait")
  /\ LET g == Head(todo).g IN
     \/ native[g] = "ok" /\ Finish(g) /\ handed' = [handed EXCEPT ![g] = "host"] /\ NextStep
     \/ native[g] = "failed" /\ Raise /\ UNCHANGED <<finished, totals, handed>>
  /\ UNCHANGED <<native, deques, taken, stateVars, opVars, failures>>

(* wait_stream() of an H2D group: the stream waits for the copy, then the   *)
(* owner retains the completion, unless it is already known to be done.  A  *)
(* failure the completion has not noticed yet may let the wait be enqueued. *)
Order ==
  /\ Doing("order")
  /\ LET g == Head(todo).g IN
     \/ g \in finished /\ NextStep
     \/ /\ g \notin finished
        /\ todo' = <<Do("retire"), Do("makeRoom"), On("retain", g)>> \o Tail(todo)
     \/ native[g] = "failed" /\ Raise
  /\ UNCHANGED <<native, finished, totals, deques, taken, handed, stateVars, opVars, failures>>
Push(k, q) ==
  /\ Doing(k) /\ NextStep
  /\ deques' = [deques EXCEPT ![q] = Append(@, Head(todo).g)]
  /\ UNCHANGED <<native, finished, totals, taken, handed, stateVars, opVars, failures>>
Retain == Push("retain", "owner")
KeepRestored == Push("keepRestored", "swap")
KeepPending == Push("keepPending", "pending")
KeepConsumed == Push("keepConsumed", "consumed")
HandOut ==
  /\ Doing("handOut") /\ NextStep
  /\ handed' = [handed EXCEPT ![Head(todo).g] = "stream"]
  /\ UNCHANGED <<native, finished, totals, deques, taken, stateVars, opVars, failures>>
Ordering(g) == <<On("order", g), On("handOut", g)>>

-----------------------------------------------------------------------------
(* The calls of the user's thread.                                          *)
Call(steps) ==
  /\ Idle /\ todo' = steps
  /\ UNCHANGED <<native, finished, totals, deques, taken, handed, stateVars, opVars, failures>>

DirectSubmit(g) == native[g] = "none" /\ Call(Submitting(g))
DirectWait(g) == native[g] # "none" /\ handed[g] # "host" /\ Call(<<On("wait", g)>>)
DirectWaitStream(g) == native[g] # "none" /\ handed[g] = "no" /\ Call(Ordering(g))
DirectDone(g) ==
  /\ Idle /\ native[g] = "ok" /\ Finish(g)
  /\ UNCHANGED <<todo, native, deques, taken, handed, stateVars, opVars, failures>>

Restore(g) ==
  /\ native[g] = "none"
  /\ Call(<<Do("retireSwap")>> \o Submitting(g) \o Ordering(g) \o <<On("keepRestored", g)>>)
Evict(g) == native[g] = "none" /\ Call(<<Do("retireSwap")>> \o Submitting(g) \o <<On("wait", g)>>)
Drain == deques.swap # <<>> /\ Call(<<Do("drainSwap")>>)

(* FastPrefetch: _fill takes groups while slots are free; the window opens  *)
(* with one submission and a full window waits only at the start of next(). *)
\* Defect: only the groups not yet handed out count against the slots
InWindowPending == Len(deques.pending)
InWindow == Len(deques.pending) + Len(deques.consumed)
FillLimit == IF Doing("fillOne") THEN 1 ELSE Slots
Fill ==
  /\ Doing("fillOne") \/ Doing("fill") \/ Doing("fillNow")
  /\ \/ (taken = Len(Prefetched) \/ Len(deques.pending) >= FillLimit)
        /\ NextStep /\ UNCHANGED <<deques, finished, totals, taken>>
     \/ /\ taken < Len(Prefetched) /\ Len(deques.pending) < FillLimit
        /\ LET c == deques.consumed
               head == IF c = <<>> THEN "none" ELSE native[Head(c)]
           IN
           \/ head = "ok" /\ Finish(Head(c)) /\ Pop("consumed") /\ UNCHANGED <<todo, taken>>
           \/ head = "failed" /\ Raise /\ UNCHANGED <<deques, finished, totals, taken>>
           \/ /\ head \in {"none", "running"} /\ InWindow >= Slots
              /\ Doing("fillNow") \/ c = <<>>
              /\ NextStep /\ UNCHANGED <<deques, finished, totals, taken>>
           \/ /\ head \in {"none", "running"} /\ InWindow < Slots
              /\ taken' = taken + 1
              /\ LET g == Prefetched[taken + 1]
                 IN  todo' = Submitting(g) \o <<On("keepPending", g)>> \o todo
              /\ UNCHANGED <<deques, finished, totals>>
  /\ UNCHANGED <<native, handed, stateVars, opVars, failures>>

OpenWindow ==
  /\ Idle /\ windowOpen = "no" /\ windowOpen' = "open" /\ todo' = <<Do("fillOne")>>
  /\ UNCHANGED <<native, finished, totals, deques, taken, handed, ownerState, opVars, failures>>
NextGroup == windowOpen = "open" /\ Call(<<Do("fill"), Do("take")>>)
CloseSteps == <<Do("drainPending"), Do("drainConsumed")>>
Take ==
  /\ Doing("take")
  /\ IF deques.pending = <<>>
     THEN windowOpen' = "closed" /\ todo' = CloseSteps /\ UNCHANGED deques
     ELSE LET g == Oldest("pending")
          IN  /\ Pop("pending") /\ UNCHANGED windowOpen
              /\ todo' = Ordering(g) \o <<On("keepConsumed", g), Do("fillNow")>>
  /\ UNCHANGED <<native, finished, totals, taken, handed, ownerState, opVars, failures>>
CloseWindow ==
  /\ Idle /\ windowOpen = "open" /\ windowOpen' = "closed" /\ todo' = CloseSteps
  /\ UNCHANGED <<native, finished, totals, deques, taken, handed, ownerState, opVars, failures>>

(* close() keeps the owner's lock: handles are released, the retained       *)
(* completions are waited for, and the native resources drain the rest.     *)
Close ==
  /\ Idle /\ ownerState = "open" /\ ownerState' = "closing"
  /\ registered' = {} /\ todo' = <<Do("drainOwner"), Do("closeNative")>>
  /\ UNCHANGED <<native, finished, totals, deques, taken, handed, windowOpen, op, opCalls, failures>>
CloseNative ==
  /\ Doing("closeNative") /\ NextStep /\ ownerState' = "closed"
  /\ op # "executing" /\ \A g \in FastGroups : native[g] # "running"
  /\ UNCHANGED <<native, finished, totals, deques, taken, handed, windowOpen, opVars, failures>>

-----------------------------------------------------------------------------
(* The other thread: preparing a program registers its handle under the     *)
(* owner's lock, and a compiled graph resolves the handle and executes.     *)
OpUnchanged == UNCHANGED <<todo, native, finished, totals, deques, taken, handed, stateVars, failures>>
\* Defect: the owner is not checked again under its lock
RegisterUnchecked(p) ==
  /\ op = "building" /\ ownerState # "closing" /\ op' = "idle"
  /\ registered' = registered \cup {p} /\ UNCHANGED opCalls /\ OpUnchanged
Prepare ==
  /\ op = "idle" /\ ownerState = "open" /\ opCalls < MaxOpCalls
  /\ op' = "building" /\ UNCHANGED <<registered, opCalls>> /\ OpUnchanged
Register(p) ==
  /\ op = "building" /\ ownerState # "closing" /\ op' = "idle"
  /\ registered' = IF ownerState = "open" THEN registered \cup {p} ELSE registered
  /\ UNCHANGED opCalls /\ OpUnchanged
Collected(p) == op = "idle" /\ registered' = registered \ {p} /\ UNCHANGED <<op, opCalls>> /\ OpUnchanged
Lookup(p) ==
  /\ op = "idle" /\ p \in registered /\ ownerState = "open" /\ opCalls < MaxOpCalls
  /\ op' = "found" /\ opCalls' = opCalls + 1 /\ UNCHANGED registered /\ OpUnchanged
\* Defect: a resolved program executes without asking its owner
OpExecuteUnchecked == op = "found" /\ op' = "executing" /\ UNCHANGED <<registered, opCalls>> /\ OpUnchanged
OpExecute ==
  /\ op = "found" /\ op' = IF ownerState = "open" THEN "executing" ELSE "idle"
  /\ UNCHANGED <<registered, opCalls>> /\ OpUnchanged
OpEnds == op = "executing" /\ op' = "idle" /\ UNCHANGED <<registered, opCalls>> /\ OpUnchanged

FastNext ==
  \/ \E g \in FastGroups : Completes(g)
  \/ \E g \in Direct :
       DirectSubmit(g) \/ DirectWait(g) \/ DirectWaitStream(g) \/ DirectDone(g) \/ Evict(g)
  \/ \E g \in Restores : Restore(g)
  \/ Drain \/ OpenWindow \/ NextGroup \/ CloseWindow \/ Close \/ CloseNative
  \/ CheckOpen \/ Launch \/ Wait \/ Order \/ HandOut \/ Take \/ Fill
  \/ RetireOwner \/ RetireSwap \/ MakeRoom \/ DrainOwner \/ DrainSwap \/ DrainPending \/ DrainConsumed
  \/ Retain \/ KeepRestored \/ KeepPending \/ KeepConsumed
  \/ Prepare \/ OpExecute \/ OpEnds
  \/ \E p \in Programs : Register(p) \/ Collected(p) \/ Lookup(p)

FastSpec == FastInit /\ [][FastNext]_fastVars

-----------------------------------------------------------------------------
(* However many deques share a completion, its group is added to the        *)
(* owner's totals once, and only when its copies succeeded                  *)
(* (FastCompletion.done, wait and _finish).                                 *)
CountedOnce == \A g \in FastGroups : totals[g] > 0 => totals[g] = 1 /\ native[g] = "ok"

(* The owner retains at most max_inflight completions and a window has at   *)
(* most `slots` groups that are submitted and not known to be complete,     *)
(* whatever is interleaved (_retain, FastPrefetch._fill).                   *)
InFlightBounded ==
  Len(deques.owner) <= MaxInflight /\ Len(deques.pending) + Len(deques.consumed) <= Slots

(* A group is counted once and bounded while it is in flight, through which *)
(* ever of the deques that share its completion it is retired.              *)
FlightsCounted == CountedOnce /\ InFlightBounded

(* Host outputs are handed out after their copies landed; a stream-ordered  *)
(* group that is still running is retained by its owner, so dropping its    *)
(* completion never turns into a host wait (wait, wait_stream, _retain).    *)
HandedOutSafely ==
  \A g \in FastGroups :
    /\ handed[g] = "host" => native[g] = "ok"
    /\ handed[g] = "stream" /\ native[g] = "running" /\ ownerState = "open" => g \in Range(deques.owner)

(* Once close() returned nothing runs on the owner's resources and no       *)
(* program handle of it resolves, even when a retained group failed while   *)
(* it was drained (close, fast_ops.register, HandleRegistry.lookup).        *)
FastCloseDrains ==
  ownerState = "closed" =>
    registered = {} /\ op # "executing" /\ \A g \in FastGroups : native[g] # "running"

(* No output is seen before its bytes, or freed under them, and close()     *)
(* leaves nothing in flight.                                                *)
OutputsSafe == HandedOutSafely /\ FastCloseDrains
=============================================================================
