-------------------------- MODULE GuardedExecution --------------------------
(****************************************************************************)
(* The guarded execution of a compiled transfer (reloc_torch/runtime.py)    *)
(* and everything that surrounds it: the custom ops and their handle        *)
(* registry (ops.py, cache.py), eager interception (eager.py), the          *)
(* preparation of a request (transport.py, dispatch.py, index_select.py),   *)
(* the adapter and its lazily created resources (resources.py) and the      *)
(* lifetime of the backend (backend.py).  Which path a profile of           *)
(* measurements selects is Placement's.                                     *)
(*                                                                          *)
(* Threads call ops of registered graphs or eager transfers on one source   *)
(* tensor and one parameter tensor, which another thread changes at any     *)
(* time.  One more thread closes the backend.  A tensor is the number of    *)
(* changes it has seen; Admitted says at which of them the source passes    *)
(* the frontend's guards.  Each call runs on its caller's thread, so a step *)
(* is what the code does between two points where other threads matter.     *)
(****************************************************************************)
EXTENDS Naturals, FiniteSets, Sequences

CONSTANTS
  Callers, Handles,
  Eager,             \* the handle of an unregistered eager entry
  Admitted,          \* source versions that pass the guards
  MaxChanges, MaxRequests, MaxFaults   \* bounds of the model

ASSUME GuardedConstants ==
  /\ Eager \notin Handles /\ Admitted \subseteq Nat
  /\ {MaxChanges, MaxRequests, MaxFaults} \subseteq Nat

(* "torch" stands for the three paths that run no native transfer.          *)
Paths == {"torch", "sym"}

VARIABLES
  backendClosed,            \* the backend's flag and its _execution_closed event
  liveHandles, registry,    \* handles of live graphs; handles the ops can look up
  adapter,           \* "none", "open" or "closed": the backend's runtime
  owner,             \* the adapter's TransferResources
  inflight,          \* threads whose native work uses the owner
  source, parameter, \* versions of the two tensors
  gpc, request, depth,   \* per thread: step, call, interception suspension
  effects,           \* what the current call of each thread has run, in order
  closer,            \* what the closing thread is doing
  requests, faults

lifeVars == <<backendClosed, liveHandles, registry, adapter, owner>>
tensorVars == <<source, parameter>>
requestVars == <<gpc, request, depth, effects>>
boundVars == <<requests, faults>>
guardedVars == <<lifeVars, inflight, tensorVars, requestVars, closer, boundVars>>

NoCall == [handle |-> Eager, bound |-> 0, view |-> 0, snap |-> 0, values |-> 0,
           path |-> "none", outcome |-> "none", raced |-> FALSE]

(* A backend without an injected runtime: adapter and owner are made lazily.*)
RuntimeInit ==
  /\ backendClosed = FALSE /\ liveHandles = {} /\ registry = {}
  /\ adapter = "none" /\ owner = "none"

GuardedInit ==
  /\ RuntimeInit /\ inflight = {}
  /\ source = 0 /\ parameter = 0
  /\ gpc = [t \in Callers |-> "idle"] /\ request = [t \in Callers |-> NoCall]
  /\ depth = [t \in Callers |-> 0] /\ effects = [t \in Callers |-> <<>>]
  /\ closer = "open" /\ requests = 0 /\ faults = 0

Fault == faults < MaxFaults /\ faults' = faults + 1
Step(t, from, to) == gpc[t] = from /\ gpc' = [gpc EXCEPT ![t] = to]
Assign(t, c) == request' = [request EXCEPT ![t] = c]
Run(t, e) == effects' = [effects EXCEPT ![t] = Append(@, e)]

(* The saved region or graph.  Its own transfers are dispatched like any    *)
(* other and would be intercepted again unless suspended.                   *)
RunOriginal(t) == Run(t, IF depth[t] > 0 THEN "original" ELSE "intercepted")

(* A call ends: the suspension that execute_or_fallback entered is undone   *)
(* on every path out of it.                                                 *)
\* Defect: the suspension is undone on the normal path only
LeaveReturning(t, outcome) ==
  /\ gpc' = [gpc EXCEPT ![t] = "idle"]
  /\ request' = [request EXCEPT ![t] = [NoCall EXCEPT !.outcome = outcome]]
  /\ depth' = [depth EXCEPT ![t] = IF outcome = "raised" THEN @ ELSE 0]
LeaveCall(t, outcome) ==
  /\ gpc' = [gpc EXCEPT ![t] = "idle"]
  /\ request' = [request EXCEPT ![t] = [NoCall EXCEPT !.outcome = outcome]]
  /\ depth' = [depth EXCEPT ![t] = 0]

-----------------------------------------------------------------------------
(* The tensors: any thread may change them at any time.  A call inside      *)
(* preflight cannot tell, which `raced` records.                            *)
Change ==
  /\ source + parameter < MaxChanges
  /\ \/ source' = source + 1 /\ UNCHANGED parameter
     \/ parameter' = parameter + 1 /\ UNCHANGED source
  /\ request' = [t \in Callers |-> IF gpc[t] = "snapshot"
                                THEN [request[t] EXCEPT !.raced = TRUE] ELSE request[t]]
  /\ UNCHANGED <<lifeVars, inflight, gpc, depth, effects, closer, boundVars>>

-----------------------------------------------------------------------------
(* RelocBackend: the lazy adapter, the graphs it compiles and their end.    *)

EnsureAdapter == adapter' = IF adapter = "none" THEN "open" ELSE adapter

\* Defect: a graph compiled across close() still registers its handle
CompileGraphUnchecked(h) ==
  /\ h \notin liveHandles /\ (backendClosed \/ adapter = "open")
  /\ liveHandles' = liveHandles \cup {h} /\ registry' = registry \cup {h}
  /\ UNCHANGED <<adapter, backendClosed, owner, inflight, tensorVars, requestVars, closer, boundVars>>
CompileGraph(h) ==
  /\ h \notin liveHandles /\ ~backendClosed
  /\ EnsureAdapter
  /\ liveHandles' = liveHandles \cup {h} /\ registry' = registry \cup {h}
  /\ UNCHANGED <<backendClosed, owner, inflight, tensorVars, requestVars, closer,
                 boundVars>>

(* A graph is dropped, or released: its registrations leave the registry.   *)
ReleaseGraph(h) ==
  /\ h \in liveHandles
  /\ liveHandles' = liveHandles \ {h} /\ registry' = registry \ {h}
  /\ UNCHANGED <<backendClosed, adapter, owner, inflight, tensorVars, requestVars, closer, boundVars>>

(* close(): the flag, the event and the live map change together; handles   *)
(* are released one by one, then the adapter closes, then its resources     *)
(* drain.                                                                   *)
CloseBackend ==
  /\ closer = "open" /\ closer' = "releasing"
  /\ backendClosed' = TRUE /\ liveHandles' = {}
  /\ UNCHANGED <<registry, adapter, owner, inflight, tensorVars, requestVars, boundVars>>

CloseReleases ==
  /\ closer = "releasing"
  /\ \/ \E h \in registry : registry' = registry \ {h} /\ UNCHANGED closer
     \/ registry = {} /\ closer' = "adapter" /\ UNCHANGED registry
  /\ UNCHANGED <<backendClosed, liveHandles, adapter, owner, inflight, tensorVars, requestVars,
                 boundVars>>

(* TransportAdapter.close: the flag under its lock; the owner that exists   *)
(* by then is closed after the lock is dropped.                             *)
\* Defect: the owner is read before the flag is set
CloseAdapterEarly ==
  /\ closer = "adapter" /\ closer' = IF owner = "none" THEN "closed" ELSE "draining"
  /\ UNCHANGED <<backendClosed, liveHandles, registry, adapter, owner, inflight, tensorVars,
                 requestVars, boundVars>>
CloseAdapter ==
  /\ closer = "adapter" /\ closer' = IF owner = "none" THEN "closed" ELSE "draining"
  /\ adapter' = IF adapter = "none" THEN "none" ELSE "closed"
  /\ owner' = IF owner = "none" THEN "none" ELSE "closed"
  /\ UNCHANGED <<backendClosed, liveHandles, registry, inflight, tensorVars, requestVars, boundVars>>

(* TransferResources.close: the layout cache, then the typed pool, each     *)
(* refusing new leases and waiting for its own.                             *)
CloseDrained ==
  /\ closer = "draining" /\ inflight = {} /\ closer' = "closed"
  /\ UNCHANGED <<lifeVars, inflight, tensorVars, requestVars, boundVars>>

-----------------------------------------------------------------------------
(* Entry points.                                                            *)

BeginCall(t, h) ==
  /\ request' = [request EXCEPT ![t] = [NoCall EXCEPT !.handle = h]]
  /\ effects' = [effects EXCEPT ![t] = <<>>]
  /\ requests < MaxRequests /\ requests' = requests + 1

(* GraphCallable: the original graph when autograd is live or nothing was   *)
(* rewritten, else the rewritten one, whose op names a handle.              *)
GraphCall(t, h) ==
  /\ gpc[t] = "idle" /\ BeginCall(t, h)
  /\ \E to \in {"lookup", "redispatch"} : gpc' = [gpc EXCEPT ![t] = to]
  /\ UNCHANGED <<lifeVars, inflight, tensorVars, depth, closer, faults>>

(* ops._execute and _execute_typed: the handle must be registered and open. *)
Lookup(t) ==
  /\ gpc[t] = "lookup"
  /\ IF request[t].handle \in registry /\ ~backendClosed
     THEN gpc' = [gpc EXCEPT ![t] = "enter"] /\ UNCHANGED <<request, depth>>
     ELSE LeaveCall(t, "raised")
  /\ UNCHANGED <<lifeVars, inflight, tensorVars, effects, closer, boundVars>>

(* EagerTransferMode: an ineligible transfer, or one whose recipe cannot be *)
(* compiled, is redispatched once; a closed backend raises.                 *)
EagerCall(t) ==
  /\ BeginCall(t, Eager)
  /\ gpc[t] = "idle" /\ depth[t] = 0
  /\ \/ /\ source \in Admitted /\ ~backendClosed
        /\ gpc' = [gpc EXCEPT ![t] = "enter"] /\ EnsureAdapter
     \/ /\ gpc' = [gpc EXCEPT ![t] = "redispatch"] /\ UNCHANGED adapter
  /\ UNCHANGED <<backendClosed, liveHandles, registry, owner, inflight, tensorVars, depth, closer, faults>>

Redispatch(t) ==
  /\ gpc[t] = "redispatch" /\ Run(t, "original") /\ LeaveCall(t, "returned")
  /\ UNCHANGED <<lifeVars, inflight, tensorVars, closer, boundVars>>

-----------------------------------------------------------------------------
(* execute_or_fallback.                                                     *)

(* entry.closed and the parameter count are checked before the suspension.  *)
\* Defect: the original region runs without suspending interception
EnterUnsuspended(t) ==
  /\ gpc[t] = "enter"
  /\ \/ ~backendClosed /\ gpc' = [gpc EXCEPT ![t] = "guard"] /\ UNCHANGED <<request, depth>>
     \/ LeaveCall(t, "raised")
  /\ UNCHANGED <<lifeVars, inflight, tensorVars, effects, closer, boundVars>>
Enter(t) ==
  /\ gpc[t] = "enter"
  /\ \/ /\ ~backendClosed /\ gpc' = [gpc EXCEPT ![t] = "guard"]
        /\ depth' = [depth EXCEPT ![t] = @ + 1] /\ UNCHANGED request
     \/ LeaveCall(t, "raised")
  /\ UNCHANGED <<lifeVars, inflight, tensorVars, effects, closer, boundVars>>

(* What the guards admitted and bound, kept for this thread's preflight     *)
(* with a snapshot of the source.                                           *)
ValidatedBinding(t) == Assign(t, [request[t] EXCEPT !.bound = source])

(* Non-blocking calls, rejected sources, guards and symbol mismatches fall  *)
(* back; a declared descriptor that differs raises.                         *)
CheckGuards(t) ==
  /\ gpc[t] = "guard"
  /\ \/ /\ source \in Admitted
        /\ ValidatedBinding(t)
        /\ gpc' = [gpc EXCEPT ![t] = "place"] /\ UNCHANGED depth
     \/ gpc' = [gpc EXCEPT ![t] = "fallback"] /\ UNCHANGED <<request, depth>>
     \/ source \in Admitted /\ LeaveCall(t, "raised")
  /\ UNCHANGED <<lifeVars, inflight, tensorVars, effects, closer, boundVars>>

(* PlacementPolicy.choose: no policy or an unqualified recipe decides       *)
(* nothing; a closed adapter, a forced path that is not qualified and an    *)
(* invalid context raise.                                                   *)
Place(t) ==
  /\ gpc[t] = "place"
  /\ \/ gpc' = [gpc EXCEPT ![t] = "preflight"] /\ UNCHANGED <<request, depth>>
     \/ /\ adapter = "open"
        /\ \E p \in Paths :
             /\ Assign(t, [request[t] EXCEPT !.path = p])
             /\ gpc' = [gpc EXCEPT ![t] = IF p = "sym" THEN "preflight" ELSE "replay"]
        /\ UNCHANGED depth
     \/ LeaveCall(t, "raised")
  /\ UNCHANGED <<lifeVars, inflight, tensorVars, effects, closer, boundVars>>

(* The saved region or placement.replay, once: "Any launch failure is       *)
(* terminal; never retry another implementation".                           *)
\* Defect: a failed replay runs the saved region instead
ReplayRetries(t) ==
  /\ gpc[t] = "replay" /\ RunOriginal(t)
  /\ \/ gpc' = [gpc EXCEPT ![t] = "finish"] /\ UNCHANGED <<request, depth, faults>>
     \/ Fault /\ gpc' = [gpc EXCEPT ![t] = "fallback"] /\ UNCHANGED <<request, depth>>
  /\ UNCHANGED <<lifeVars, inflight, tensorVars, closer, requests>>
Replay(t) ==
  /\ gpc[t] = "replay" /\ RunOriginal(t)
  /\ \/ gpc' = [gpc EXCEPT ![t] = "finish"] /\ UNCHANGED <<request, depth, faults>>
     \/ Fault /\ LeaveCall(t, "raised")
  /\ UNCHANGED <<lifeVars, inflight, tensorVars, closer, requests>>

\* Defect: the validated binding is reused without looking at the source
PreparedForAlways(t) == request[t].bound
(* Admission and binding are repeated unless the validated binding is still *)
(* this source's.                                                           *)
PreparedFor(t) == IF request[t].bound = source THEN request[t].bound ELSE source

(* TransportAdapter.preflight, up to the request.  Unsupported recipes fall *)
(* back, unless a path was already chosen.                                  *)
Preflight(t) ==
  /\ gpc[t] = "preflight"
  /\ \/ /\ adapter = "open" /\ PreparedFor(t) \in Admitted
        /\ Assign(t, [request[t] EXCEPT !.view = PreparedFor(t), !.values = parameter])
        /\ gpc' = [gpc EXCEPT ![t] = "snapshot"] /\ UNCHANGED depth
     \/ /\ adapter = "open" /\ request[t].path = "none"
        /\ gpc' = [gpc EXCEPT ![t] = "fallback"] /\ UNCHANGED <<request, depth>>
     \/ (adapter # "open" \/ request[t].path # "none") /\ LeaveCall(t, "raised")
  /\ UNCHANGED <<lifeVars, inflight, tensorVars, effects, closer, boundVars>>

(* The request takes its snapshot when it is built, and the frontend        *)
(* compares the adapter's binding with its own.                             *)
Snapshot(t) ==
  /\ gpc[t] = "snapshot"
  /\ \/ /\ request[t].view = request[t].bound
        /\ Assign(t, [request[t] EXCEPT !.snap = source])
        /\ gpc' = [gpc EXCEPT ![t] = "recheck"] /\ UNCHANGED depth
     \/ request[t].view # request[t].bound /\ LeaveCall(t, "raised")
  /\ UNCHANGED <<lifeVars, inflight, tensorVars, effects, closer, boundVars>>

(* PreparedCall.recheck and consume; then TransportAdapter.execute checks   *)
(* under its lock that it is open and creates the owner on first use.       *)
ExecuteOpens(t) ==
  /\ gpc[t] = "recheck"
  /\ \/ /\ request[t].snap = source /\ adapter = "open"
        /\ owner' = IF owner = "none" THEN "open" ELSE owner
        /\ gpc' = [gpc EXCEPT ![t] = "launch"] /\ UNCHANGED <<request, depth>>
     \/ request[t].snap # source /\ LeaveCall(t, "raised") /\ UNCHANGED owner
     \/ adapter # "open" /\ LeaveCall(t, "raised") /\ UNCHANGED owner
  /\ UNCHANGED <<backendClosed, liveHandles, registry, adapter, inflight, tensorVars, effects,
                 closer, boundVars>>

(* execute_transfer and execute_typed_transfer: the request's own recheck,  *)
(* the output allocation, the native request; from then on it is consumed   *)
(* and runs on a lease of the owner, which a closed owner refuses.          *)
\* Defect: parameter values are not compared again
LaunchUnchecked(t) ==
  /\ gpc[t] = "launch"
  /\ \/ /\ request[t].snap = source /\ owner = "open"
        /\ inflight' = inflight \cup {t} /\ Run(t, "launch")
        /\ gpc' = [gpc EXCEPT ![t] = "running"] /\ UNCHANGED <<request, depth, faults>>
     \/ /\ request[t].snap # source \/ owner # "open"
        /\ LeaveCall(t, "raised") /\ UNCHANGED <<inflight, effects, faults>>
     \/ Fault /\ LeaveCall(t, "raised") /\ UNCHANGED <<inflight, effects>>
  /\ UNCHANGED <<lifeVars, tensorVars, closer, requests>>
Launch(t) ==
  /\ gpc[t] = "launch"
  /\ \/ /\ request[t].snap = source /\ request[t].values = parameter /\ owner = "open"
        /\ inflight' = inflight \cup {t} /\ Run(t, "launch")
        /\ gpc' = [gpc EXCEPT ![t] = "running"] /\ UNCHANGED <<request, depth, faults>>
     \/ /\ request[t].snap # source \/ request[t].values # parameter \/ owner # "open"
        /\ LeaveCall(t, "raised") /\ UNCHANGED <<inflight, effects, faults>>
     \/ Fault /\ LeaveCall(t, "raised") /\ UNCHANGED <<inflight, effects>>
  /\ UNCHANGED <<lifeVars, tensorVars, closer, requests>>

(* The blocking native call ends; its failure is an ExecutionError.         *)
\* Defect: a native failure runs the original region
NativeEndsFalling(t) ==
  /\ gpc[t] = "running" /\ inflight' = inflight \ {t}
  /\ \/ gpc' = [gpc EXCEPT ![t] = "finish"] /\ UNCHANGED <<request, depth, faults>>
     \/ Fault /\ gpc' = [gpc EXCEPT ![t] = "fallback"] /\ UNCHANGED <<request, depth>>
  /\ UNCHANGED <<lifeVars, tensorVars, effects, closer, requests>>
\* Defect: a failed call keeps its lease
NativeEndsLeaking(t) ==
  /\ gpc[t] = "running"
  /\ \/ gpc' = [gpc EXCEPT ![t] = "finish"] /\ inflight' = inflight \ {t}
        /\ UNCHANGED <<request, depth, faults>>
     \/ Fault /\ LeaveCall(t, "raised") /\ UNCHANGED inflight
  /\ UNCHANGED <<lifeVars, tensorVars, effects, closer, requests>>
NativeEnds(t) ==
  /\ gpc[t] = "running" /\ inflight' = inflight \ {t}
  /\ \/ gpc' = [gpc EXCEPT ![t] = "finish"] /\ UNCHANGED <<request, depth, faults>>
     \/ Fault /\ LeaveCall(t, "raised")
  /\ UNCHANGED <<lifeVars, tensorVars, effects, closer, requests>>

(* verify_result, then placement.succeeded, which raises when the adapter   *)
(* was closed meanwhile.                                                    *)
FinishCall(t) ==
  /\ gpc[t] = "finish"
  /\ \/ /\ request[t].path = "none" \/ adapter = "open"
        /\ LeaveCall(t, "returned")
        /\ UNCHANGED faults
     \/ /\ IF request[t].path # "none" /\ adapter # "open" THEN UNCHANGED faults ELSE Fault
        /\ LeaveCall(t, "raised")
  /\ UNCHANGED <<lifeVars, inflight, tensorVars, effects, closer, requests>>

(* _fallback: counted, run once, verified against the promised metadata.    *)
Fallback(t) ==
  /\ gpc[t] = "fallback" /\ RunOriginal(t)
  /\ \/ LeaveCall(t, "returned") /\ UNCHANGED faults
     \/ Fault /\ LeaveCall(t, "raised")
  /\ UNCHANGED <<lifeVars, inflight, tensorVars, closer, requests>>

-----------------------------------------------------------------------------
CallStep(t) ==
  \/ Lookup(t) \/ Redispatch(t) \/ Enter(t) \/ CheckGuards(t) \/ Place(t) \/ Replay(t) \/ Preflight(t)
  \/ Snapshot(t) \/ ExecuteOpens(t) \/ Launch(t) \/ NativeEnds(t) \/ FinishCall(t) \/ Fallback(t)
CloseStep == CloseReleases \/ CloseAdapter \/ CloseDrained

GuardedNext ==
  \/ \E t \in Callers : CallStep(t) \/ EagerCall(t) \/ \E h \in Handles : GraphCall(t, h)
  \/ \E h \in Handles : CompileGraph(h) \/ ReleaseGraph(h)
  \/ Change \/ CloseBackend \/ CloseStep

(* A thread inside a call runs on; the closing thread too.                  *)
GuardedFairness == WF_guardedVars(CloseStep) /\ \A t \in Callers : WF_guardedVars(CallStep(t))
GuardedSpec == GuardedInit /\ [][GuardedNext]_guardedVars /\ GuardedFairness

-----------------------------------------------------------------------------
(* "Preflight, then either dispatch once or run the original region once":  *)
(* whatever fails, whichever thread closes the backend or changes the       *)
(* tensors, a call launches native work or runs the original region, never  *)
(* both and never twice; a call that returns did one of them; the region    *)
(* is never intercepted again, and a call that ended leaves its thread      *)
(* intercepting.                                                            *)
OneEffect ==
  \A t \in Callers :
    /\ Len(effects[t]) <= 1
    /\ \A i \in 1..Len(effects[t]) : effects[t][i] # "intercepted"
    /\ gpc[t] = "idle" =>
         /\ depth[t] = 0
         /\ request[t].outcome = "returned" => Len(effects[t]) = 1

(* "Source storage and every parameter VALUE must be what was prepared": a  *)
(* launch runs on the view and the values of the tensors as they are at the *)
(* launch, however they changed since the call began.  A change of the      *)
(* source inside preflight itself is the caller's to exclude.               *)
LaunchesFresh ==
  [][\A t \in Callers : gpc[t] = "launch" /\ gpc'[t] = "running" =>
       /\ request[t].view = source \/ request[t].raced
       /\ request[t].values = parameter]_guardedVars

(* RelocBackend.close "invalidates every live handle and later use": when   *)
(* it returns, no handle can be looked up, none of the owned resources is   *)
(* in use, and this stays so although calls and compilations are under way. *)
CloseDrainsBackend ==
  closer = "closed" => registry = {} /\ liveHandles = {} /\ inflight = {}

(* close() returns although calls are executing: no Python lock is held     *)
(* while the native owner drains, and every call in flight ends.            *)
BackendCloseReturns == closer = "releasing" ~> closer = "closed"
=============================================================================
