--------------------------- MODULE DataPathProofs ---------------------------
(***************************************************************************)
(* Proofs about the protocols one blocking transfer runs through, for all  *)
(* threads, queues, buffers, chunks, profiles and bounds: the guarded call *)
(* (GuardedExecution), the choice of its path (Placement) and the staging  *)
(* pipeline with what it promises (StagingPipeline).                       *)
(***************************************************************************)
EXTENDS StagingPipeline, GuardedExecution, Placement, SequenceTheorems, FiniteSetTheorems,
        WellFoundedInduction, TLAPS

(***************************************************************************)
(* The guarded call                                                        *)
(***************************************************************************)
\* The steps of a call before the suspension, inside it while nothing ran,
\* and inside it once something ran.
Entering == {"lookup", "redispatch", "enter"}
Undecided == {"guard", "place", "replay", "preflight", "snapshot", "recheck", "launch", "fallback"}
Acted == {"running", "finish"}

\* What a call may have run: nothing, native work or the original region.
NoEffect == <<>>
Effect == {<<"launch">>, <<"original">>}

CallRecord ==
  [handle : Handles \cup {Eager}, bound : Nat, view : Nat, snap : Nat, values : Nat,
   path : Paths \cup {"none"}, outcome : {"none", "returned", "raised"}, raced : BOOLEAN]

GuardedTypeOK ==
  /\ source \in Nat /\ parameter \in Nat
  /\ gpc \in [Callers -> Entering \cup Undecided \cup Acted \cup {"idle"}]
  /\ request \in [Callers -> CallRecord]
  /\ depth \in [Callers -> Nat]
  /\ effects \in [Callers -> Effect \cup {NoEffect}]

\* Interception is suspended exactly while a call is inside
\* execute_or_fallback, and something ran exactly once the call acted.
EffectOf(t) ==
  /\ gpc[t] \in Entering => depth[t] = 0 /\ effects[t] = NoEffect
  /\ gpc[t] \in Undecided => depth[t] = 1 /\ effects[t] = NoEffect
  /\ gpc[t] \in Acted => depth[t] = 1 /\ effects[t] # NoEffect
  /\ gpc[t] = "idle" =>
       depth[t] = 0 /\ (request[t].outcome = "returned" => effects[t] # NoEffect)

\* From preflight on, the view that was bound is the one of the snapshot,
\* unless the source changed between the two.
ViewOf(t) ==
  /\ gpc[t] = "snapshot" => request[t].view = source \/ request[t].raced
  /\ gpc[t] \in {"recheck", "launch"} =>
       request[t].view = request[t].snap \/ request[t].raced

CallInv == GuardedTypeOK /\ \A t \in Callers : EffectOf(t) /\ ViewOf(t)

\* Nothing runs on an owner that was never made.  From close() on no graph
\* is live; once the registry was emptied it stays empty, and once the
\* adapter was closed neither it nor its owner is open again.
DrainInv ==
  /\ closer \in {"open", "releasing", "adapter", "draining", "closed"}
  /\ adapter \in {"none", "open", "closed"} /\ owner \in {"none", "open", "closed"}
  /\ owner = "none" => inflight = {}
  /\ closer # "open" => backendClosed /\ liveHandles = {}
  /\ closer \in {"adapter", "draining", "closed"} => registry = {}
  /\ closer \in {"draining", "closed"} => adapter # "open" /\ owner # "open"
  /\ closer = "closed" => inflight = {}

GuardedInv == CallInv /\ DrainInv

\* What runs the original region inside the suspension is not intercepted.
LEMMA EffectOnce ==
  /\ Append(NoEffect, "launch") = <<"launch">>
  /\ Append(NoEffect, "original") = <<"original">>
  /\ \A e \in Effect : e # NoEffect /\ Len(e) = 1 /\ e[1] # "intercepted"
BY DEF Effect, NoEffect

\* A step of one call keeps what is known of every call if it keeps what is
\* known of its own; f is a variable that holds a value for each thread.
OneThread(f, g, t) == \A u \in Callers \ {t} : g[u] = f[u]
LEMMA OneCall ==
  ASSUME CallInv, NEW t \in Callers, GuardedTypeOK', source' = source,
         OneThread(gpc, gpc', t), OneThread(request, request', t),
         OneThread(depth, depth', t), OneThread(effects, effects', t),
         EffectOf(t)', ViewOf(t)'
  PROVE  CallInv'
<1>1. ASSUME NEW u \in Callers \ {t}
      PROVE  EffectOf(u)' /\ ViewOf(u)'
  BY <1>1 DEF CallInv, EffectOf, ViewOf, OneThread
<1>. QED
  BY <1>1 DEF CallInv

\* A call that ends undoes the suspension; if it returns, it ran something.
LEMMA LeaveKeeps ==
  ASSUME CallInv, NEW t \in Callers, NEW o \in {"returned", "raised"}, LeaveCall(t, o),
         source' = source, parameter' = parameter, NEW e \in Effect \cup {NoEffect},
         \/ effects' = [effects EXCEPT ![t] = e]
         \/ effects' = effects /\ e = effects[t],
         o = "returned" => e # NoEffect
  PROVE  CallInv'
<1>1. [NoCall EXCEPT !.outcome = o] \in CallRecord /\ [NoCall EXCEPT !.outcome = o].outcome = o
  BY DEF NoCall, CallRecord
<1>2. GuardedTypeOK'
  BY <1>1 DEF CallInv, GuardedTypeOK, LeaveCall
<1>3. /\ gpc'[t] = "idle" /\ request'[t].outcome = o /\ depth'[t] = 0
      /\ effects'[t] = e
  BY <1>1 DEF CallInv, GuardedTypeOK, LeaveCall
<1>4. EffectOf(t)' /\ ViewOf(t)'
  BY <1>3 DEF EffectOf, ViewOf, Entering, Undecided, Acted
<1>5. /\ OneThread(gpc, gpc', t) /\ OneThread(request, request', t)
      /\ OneThread(depth, depth', t) /\ OneThread(effects, effects', t)
  BY DEF OneThread, CallInv, GuardedTypeOK, LeaveCall
<1>. QED
  BY <1>2, <1>4, <1>5, OneCall

\* A call goes on, to step `to`, with the request, the suspension and the
\* effect it has there.
Moves(t, to, r, d, e) ==
  /\ gpc' = [gpc EXCEPT ![t] = to] /\ source' = source /\ parameter' = parameter
  /\ request' = [request EXCEPT ![t] = r] \/ (request' = request /\ r = request[t])
  /\ depth' = [depth EXCEPT ![t] = d] \/ (depth' = depth /\ d = depth[t])
  /\ effects' = [effects EXCEPT ![t] = e] \/ (effects' = effects /\ e = effects[t])
LEMMA MoveKeeps ==
  ASSUME CallInv, NEW t \in Callers, NEW to \in Entering \cup Undecided \cup Acted,
         NEW r \in CallRecord, NEW d \in Nat, NEW e \in Effect \cup {NoEffect},
         Moves(t, to, r, d, e),
         to \in Entering => d = 0 /\ e = NoEffect,
         to \in Undecided => d = 1 /\ e = NoEffect,
         to \in Acted => d = 1 /\ e # NoEffect,
         to = "snapshot" => r.view = source \/ r.raced,
         to \in {"recheck", "launch"} => r.view = r.snap \/ r.raced
  PROVE  CallInv'
<1>1. GuardedTypeOK'
  BY DEF CallInv, GuardedTypeOK, Moves
<1>2. gpc'[t] = to /\ request'[t] = r /\ depth'[t] = d /\ effects'[t] = e
  BY DEF CallInv, GuardedTypeOK, Moves
<1>3. EffectOf(t)' /\ ViewOf(t)'
  BY <1>2 DEF EffectOf, ViewOf, Entering, Undecided, Acted, Moves
<1>4. /\ OneThread(gpc, gpc', t) /\ OneThread(request, request', t)
      /\ OneThread(depth, depth', t) /\ OneThread(effects, effects', t)
  BY DEF OneThread, CallInv, GuardedTypeOK, Moves
<1>. QED
  BY <1>1, <1>3, <1>4, OneCall DEF Moves

\* What is known of a call at each of its steps.
LEMMA CallFacts ==
  ASSUME CallInv, NEW t \in Callers
  PROVE  /\ request[t] \in CallRecord /\ depth[t] \in Nat
         /\ effects[t] \in Effect \cup {NoEffect} /\ source \in Nat /\ parameter \in Nat
         /\ gpc[t] \in Entering => depth[t] = 0 /\ effects[t] = NoEffect
         /\ gpc[t] \in Undecided => depth[t] = 1 /\ effects[t] = NoEffect
         /\ gpc[t] \in Acted => depth[t] = 1 /\ effects[t] # NoEffect
BY DEF CallInv, GuardedTypeOK, EffectOf

\* The steps of one call keep what is known of every call.
LEMMA CallStepKeeps ==
  ASSUME CallInv, NEW t \in Callers,
         \/ CallStep(t) \/ EagerCall(t) \/ \E h \in Handles : GraphCall(t, h)
  PROVE  CallInv'
<1> USE CallFacts DEF boundVars, tensorVars, lifeVars
<1>1. NoCall \in CallRecord /\ \A h \in Handles \cup {Eager} : [NoCall EXCEPT !.handle = h] \in CallRecord
  BY DEF NoCall, CallRecord
<1>2. NoEffect # <<"launch">> /\ NoEffect # <<"original">> /\ NoEffect = <<>>
  BY DEF NoEffect
<1>3. /\ Entering = {"lookup", "redispatch", "enter"} /\ Acted = {"running", "finish"}
      /\ Undecided = {"guard", "place", "replay", "preflight", "snapshot", "recheck", "launch",
                      "fallback"}
      /\ Effect = {<<"launch">>, <<"original">>}
  BY DEF Entering, Undecided, Acted, Effect
<1> USE <1>2, <1>3
<1>a. CASE Lookup(t)
  <2>1. CASE gpc' = [gpc EXCEPT ![t] = "enter"] /\ UNCHANGED <<request, depth>>
    <3>1. Moves(t, "enter", request[t], depth[t], effects[t])
      BY <1>a, <2>1 DEF Lookup, Moves
    <3>. QED
      BY <1>a, <3>1, MoveKeeps DEF Lookup
  <2>. QED
    BY <1>a, <2>1, LeaveKeeps DEF Lookup
<1>b. CASE Redispatch(t)
  BY <1>b, LeaveKeeps, EffectOnce DEF Redispatch, Run
<1>c. CASE Enter(t)
  <2>1. CASE gpc' = [gpc EXCEPT ![t] = "guard"] /\ depth' = [depth EXCEPT ![t] = @ + 1] /\ UNCHANGED request
    <3>1. depth[t] + 1 = 1 /\ effects[t] = NoEffect
      BY <1>c DEF Enter
    <3>2. Moves(t, "guard", request[t], 1, effects[t])
      BY <1>c, <2>1, <3>1 DEF Enter, Moves
    <3>. QED
      BY <3>1, <3>2, MoveKeeps
  <2>. QED
    BY <1>c, <2>1, LeaveKeeps DEF Enter
<1>d. CASE CheckGuards(t)
  <2> DEFINE r == [request[t] EXCEPT !.bound = source]
  <2>1. r \in CallRecord
    BY DEF CallRecord
  <2>2. gpc[t] = "guard" /\ depth[t] = 1 /\ effects[t] = NoEffect
    BY <1>d DEF CheckGuards
  <2>3. CASE ValidatedBinding(t) /\ gpc' = [gpc EXCEPT ![t] = "place"] /\ UNCHANGED depth
    <3>1. Moves(t, "place", r, depth[t], effects[t])
      BY <1>d, <2>3 DEF CheckGuards, ValidatedBinding, Assign, Moves
    <3>. QED
      BY <2>1, <2>2, <3>1, MoveKeeps
  <2>4. CASE gpc' = [gpc EXCEPT ![t] = "fallback"] /\ UNCHANGED <<request, depth>>
    <3>1. Moves(t, "fallback", request[t], depth[t], effects[t])
      BY <1>d, <2>4 DEF CheckGuards, Moves
    <3>. QED
      BY <2>2, <3>1, MoveKeeps
  <2>. QED
    BY <1>d, <2>3, <2>4, LeaveKeeps DEF CheckGuards
<1>e. CASE Place(t)
  <2>1. gpc[t] = "place" /\ depth[t] = 1 /\ effects[t] = NoEffect
    BY <1>e DEF Place
  <2>2. CASE gpc' = [gpc EXCEPT ![t] = "preflight"] /\ UNCHANGED <<request, depth>>
    <3>1. Moves(t, "preflight", request[t], depth[t], effects[t])
      BY <1>e, <2>2 DEF Place, Moves
    <3>. QED
      BY <2>1, <3>1, MoveKeeps
  <2>3. ASSUME NEW p \in Paths, Assign(t, [request[t] EXCEPT !.path = p]), UNCHANGED depth,
               gpc' = [gpc EXCEPT ![t] = IF p = "sym" THEN "preflight" ELSE "replay"]
        PROVE  CallInv'
    <3> DEFINE r == [request[t] EXCEPT !.path = p]
               to == IF p = "sym" THEN "preflight" ELSE "replay"
    <3>1. r \in CallRecord /\ to \in {"preflight", "replay"}
      BY DEF CallRecord
    <3>2. Moves(t, to, r, depth[t], effects[t])
      BY <1>e, <2>3 DEF Place, Assign, Moves
    <3> HIDE DEF r, to
    <3>. QED
      BY <2>1, <3>1, <3>2, MoveKeeps
  <2>. QED
    BY <1>e, <2>2, <2>3, LeaveKeeps DEF Place
<1>f. CASE Replay(t)
  <2>1. depth[t] = 1 /\ effects[t] = NoEffect
    BY <1>f DEF Replay
  <2>2. effects' = [effects EXCEPT ![t] = <<"original">>]
    BY <1>f, <2>1, EffectOnce DEF Replay, RunOriginal, Run
  <2>3. CASE gpc' = [gpc EXCEPT ![t] = "finish"] /\ UNCHANGED <<request, depth>>
    <3>1. Moves(t, "finish", request[t], depth[t], <<"original">>)
      BY <1>f, <2>2, <2>3 DEF Replay, Moves
    <3>. QED
      BY <2>1, <3>1, MoveKeeps
  <2>. QED
    BY <1>f, <2>2, <2>3, LeaveKeeps DEF Replay
<1>g. CASE Preflight(t)
  <2> DEFINE r == [request[t] EXCEPT !.view = PreparedFor(t), !.values = parameter]
  <2>1. depth[t] = 1 /\ effects[t] = NoEffect
    BY <1>g DEF Preflight
  <2>2. PreparedFor(t) = source
    BY DEF PreparedFor
  <2>3. r \in CallRecord /\ r.view = source
    BY <2>2 DEF CallRecord
  <2>4. CASE Assign(t, r) /\ gpc' = [gpc EXCEPT ![t] = "snapshot"] /\ UNCHANGED depth
    <3>1. Moves(t, "snapshot", r, depth[t], effects[t])
      BY <1>g, <2>4 DEF Preflight, Assign, Moves
    <3> HIDE DEF r
    <3>. QED
      BY <2>1, <2>3, <3>1, MoveKeeps
  <2>5. CASE gpc' = [gpc EXCEPT ![t] = "fallback"] /\ UNCHANGED <<request, depth>>
    <3>1. Moves(t, "fallback", request[t], depth[t], effects[t])
      BY <1>g, <2>5 DEF Preflight, Moves
    <3>. QED
      BY <2>1, <3>1, MoveKeeps
  <2>. QED
    BY <1>g, <2>4, <2>5, LeaveKeeps DEF Preflight
<1>h. CASE Snapshot(t)
  <2> DEFINE r == [request[t] EXCEPT !.snap = source]
  <2>1. r \in CallRecord /\ r.snap = source /\ r.view = request[t].view /\ r.raced = request[t].raced
    BY DEF CallRecord
  <2>2. /\ gpc[t] = "snapshot" /\ (request[t].view = source \/ request[t].raced)
        /\ depth[t] = 1 /\ effects[t] = NoEffect
    BY <1>h DEF Snapshot, CallInv, ViewOf
  <2>3. CASE Assign(t, r) /\ gpc' = [gpc EXCEPT ![t] = "recheck"] /\ UNCHANGED depth
    <3>1. Moves(t, "recheck", r, depth[t], effects[t])
      BY <1>h, <2>3 DEF Snapshot, Assign, Moves
    <3> HIDE DEF r
    <3>. QED
      BY <2>1, <2>2, <3>1, MoveKeeps
  <2>. QED
    BY <1>h, <2>3, LeaveKeeps DEF Snapshot
<1>i. CASE ExecuteOpens(t)
  <2>1. /\ gpc[t] = "recheck" /\ (request[t].view = request[t].snap \/ request[t].raced)
        /\ depth[t] = 1 /\ effects[t] = NoEffect
    BY <1>i DEF ExecuteOpens, CallInv, ViewOf
  <2>2. CASE gpc' = [gpc EXCEPT ![t] = "launch"] /\ UNCHANGED <<request, depth>>
    <3>1. Moves(t, "launch", request[t], depth[t], effects[t])
      BY <1>i, <2>2 DEF ExecuteOpens, Moves
    <3>. QED
      BY <2>1, <3>1, MoveKeeps
  <2>. QED
    BY <1>i, <2>2, LeaveKeeps DEF ExecuteOpens
<1>j. CASE Launch(t)
  <2>1. depth[t] = 1 /\ effects[t] = NoEffect
    BY <1>j DEF Launch
  <2>2. CASE Run(t, "launch") /\ gpc' = [gpc EXCEPT ![t] = "running"] /\ UNCHANGED <<request, depth>>
    <3>1. effects' = [effects EXCEPT ![t] = <<"launch">>]
      BY <2>1, <2>2, EffectOnce DEF Run
    <3>2. Moves(t, "running", request[t], depth[t], <<"launch">>)
      BY <1>j, <2>2, <3>1 DEF Launch, Moves
    <3>. QED
      BY <2>1, <3>2, MoveKeeps
  <2>. QED
    BY <1>j, <2>2, LeaveKeeps DEF Launch
<1>l. CASE NativeEnds(t)
  <2>1. depth[t] = 1 /\ effects[t] # NoEffect
    BY <1>l DEF NativeEnds
  <2>2. CASE gpc' = [gpc EXCEPT ![t] = "finish"] /\ UNCHANGED <<request, depth>>
    <3>1. Moves(t, "finish", request[t], depth[t], effects[t])
      BY <1>l, <2>2 DEF NativeEnds, Moves
    <3>. QED
      BY <2>1, <3>1, MoveKeeps
  <2>. QED
    BY <1>l, <2>2, LeaveKeeps DEF NativeEnds
<1>m. CASE FinishCall(t)
  BY <1>m, LeaveKeeps DEF FinishCall
<1>n. CASE Fallback(t)
  <2>1. depth[t] = 1 /\ effects[t] = NoEffect
    BY <1>n DEF Fallback
  <2>2. effects' = [effects EXCEPT ![t] = <<"original">>]
    BY <1>n, <2>1, EffectOnce DEF Fallback, RunOriginal, Run
  <2>. QED
    BY <1>n, <2>2, LeaveKeeps DEF Fallback
<1>o. ASSUME NEW h \in Handles \cup {Eager}, BeginCall(t, h), gpc[t] = "idle",
             UNCHANGED <<source, parameter, depth>>,
             NEW to \in Entering, gpc' = [gpc EXCEPT ![t] = to]
      PROVE  CallInv'
  <2>1. depth[t] = 0
    BY <1>o DEF CallInv, EffectOf
  <2>2. Moves(t, to, [NoCall EXCEPT !.handle = h], depth[t], NoEffect)
    BY <1>o DEF BeginCall, Moves
  <2>. QED
    BY <1>1, <2>1, <2>2, MoveKeeps
<1>p. CASE EagerCall(t)
  <2>1. PICK to \in {"enter", "redispatch"} : gpc' = [gpc EXCEPT ![t] = to]
    BY <1>p DEF EagerCall
  <2>. QED
    BY <1>o, <1>p, <2>1 DEF EagerCall
<1>q. CASE \E h \in Handles : GraphCall(t, h)
  BY <1>o, <1>q DEF GraphCall
<1>. QED
  BY <1>a, <1>b, <1>c, <1>d, <1>e, <1>f, <1>g, <1>h, <1>i, <1>j, <1>l, <1>m, <1>n, <1>p, <1>q
     DEF CallStep

\* The rest of the program does not touch a call; a change of the source
\* marks the calls that are between their view and their snapshot.
LEMMA OthersKeepCalls ==
  ASSUME CallInv,
         \/ \E h \in Handles : CompileGraph(h) \/ ReleaseGraph(h)
         \/ Change \/ CloseBackend \/ CloseStep \/ UNCHANGED guardedVars
  PROVE  CallInv'
<1>1. CASE Change
  <2>1. source' \in Nat /\ parameter' \in Nat /\ UNCHANGED <<gpc, depth, effects>>
    BY <1>1 DEF Change, CallInv, GuardedTypeOK
  <2>2. \A t \in Callers :
          request'[t] = IF gpc[t] = "snapshot" THEN [request[t] EXCEPT !.raced = TRUE]
                        ELSE request[t]
    BY <1>1 DEF Change
  <2>3. request' \in [Callers -> CallRecord]
    <3>1. \A t \in Callers : [request[t] EXCEPT !.raced = TRUE] \in CallRecord
      BY ZenonT(30) DEF CallInv, GuardedTypeOK, CallRecord
    <3>2. \A t \in Callers : request[t] \in CallRecord
      BY DEF CallInv, GuardedTypeOK
    <3>. QED
      BY <1>1, <3>1, <3>2 DEF Change
  <2>4. ASSUME NEW t \in Callers
        PROVE  EffectOf(t)' /\ ViewOf(t)'
    <3>1. CASE gpc[t] = "snapshot"
      <4>1. request[t] \in CallRecord
        BY DEF CallInv, GuardedTypeOK
      <4>2. request'[t].raced = TRUE
        BY <2>2, <3>1, <4>1 DEF CallRecord
      <4>. QED
        BY <2>1, <3>1, <4>2 DEF CallInv, EffectOf, ViewOf, Entering, Undecided, Acted
    <3>2. CASE gpc[t] # "snapshot"
      BY <2>1, <2>2, <3>2 DEF CallInv, EffectOf, ViewOf
    <3>. QED
      BY <3>1, <3>2
  <2>. QED
    BY <2>1, <2>3, <2>4 DEF CallInv, GuardedTypeOK
<1>2. CASE UNCHANGED <<tensorVars, requestVars>>
  BY <1>2 DEF tensorVars, requestVars, CallInv, GuardedTypeOK, EffectOf, ViewOf
<1>. QED
  BY <1>1, <1>2 DEF CompileGraph, ReleaseGraph, CloseBackend, CloseStep, CloseReleases,
     CloseAdapter, CloseDrained, guardedVars

\* Only an open backend gains graphs and adapters, only an open adapter an
\* owner and only an open owner work; close() takes them in that order.
LEMMA DrainKept == DrainInv /\ [GuardedNext]_guardedVars => DrainInv'
<1> SUFFICES ASSUME DrainInv, [GuardedNext]_guardedVars
             PROVE  DrainInv'
  OBVIOUS
<1> USE DEF DrainInv, lifeVars
<1>1. CASE UNCHANGED <<lifeVars, inflight, closer>>
  BY <1>1
<1>2. ASSUME NEW t \in Callers, CallStep(t)
      PROVE  DrainInv'
  <2>1. CASE ExecuteOpens(t)
    BY <2>1 DEF ExecuteOpens
  <2>2. CASE Launch(t)
    BY <2>2 DEF Launch
  <2>3. CASE NativeEnds(t)
    BY <2>3 DEF NativeEnds
  <2>. QED
    BY <1>1, <1>2, <2>1, <2>2, <2>3 DEF CallStep, Lookup, Redispatch, Enter, CheckGuards, Place,
       Replay, Preflight, Snapshot, FinishCall, Fallback
<1>3. ASSUME NEW t \in Callers, EagerCall(t)
      PROVE  DrainInv'
  BY <1>3 DEF EagerCall, EnsureAdapter
<1>4. ASSUME NEW h \in Handles, CompileGraph(h)
      PROVE  DrainInv'
  BY <1>4 DEF CompileGraph, EnsureAdapter
<1>5. ASSUME NEW h \in Handles, ReleaseGraph(h)
      PROVE  DrainInv'
  BY <1>5 DEF ReleaseGraph
<1>6. CASE CloseBackend
  BY <1>6 DEF CloseBackend
<1>7. CASE CloseStep
  <2>1. CASE CloseReleases
    BY <2>1 DEF CloseReleases
  <2>2. CASE CloseAdapter
    BY <2>2 DEF CloseAdapter
  <2>3. CASE CloseDrained
    BY <2>3 DEF CloseDrained
  <2>. QED
    BY <1>7, <2>1, <2>2, <2>3 DEF CloseStep
<1>. QED
  BY <1>1, <1>2, <1>3, <1>4, <1>5, <1>6, <1>7 DEF GuardedNext, GraphCall, Change, guardedVars

\* The invariant of guarded execution holds, for every set of threads and
\* handles and every number of calls, changes and faults.
THEOREM GuardedInvariant == GuardedSpec => []GuardedInv
<1>1. GuardedInit => GuardedInv
  <2> SUFFICES ASSUME GuardedInit
               PROVE  GuardedInv
    OBVIOUS
  <2>1. NoCall \in CallRecord /\ NoCall.outcome = "none"
    BY DEF NoCall, CallRecord
  <2>. QED
    BY <2>1 DEF GuardedInit, RuntimeInit, GuardedInv, CallInv, GuardedTypeOK, EffectOf, ViewOf,
       Entering, Undecided, Acted, NoEffect, DrainInv
<1>2. GuardedInv /\ [GuardedNext]_guardedVars => GuardedInv'
  <2> SUFFICES ASSUME GuardedInv, [GuardedNext]_guardedVars
               PROVE  GuardedInv'
    OBVIOUS
  <2>1. CallInv'
    BY CallStepKeeps, OthersKeepCalls DEF GuardedInv, GuardedNext
  <2>. QED
    BY <2>1, DrainKept DEF GuardedInv
<1>. QED
  BY <1>1, <1>2, PTL DEF GuardedSpec

\* A call launches native work or runs the original region, never both and
\* never twice, and leaves its thread intercepting (execute_or_fallback).
THEOREM EffectsHappenOnce == GuardedSpec => []OneEffect
<1>1. GuardedInv => OneEffect
  <2> SUFFICES ASSUME GuardedInv, NEW t \in Callers
               PROVE  /\ Len(effects[t]) <= 1
                      /\ \A i \in 1..Len(effects[t]) : effects[t][i] # "intercepted"
                      /\ gpc[t] = "idle" =>
                           /\ depth[t] = 0
                           /\ request[t].outcome = "returned" => Len(effects[t]) = 1
    BY DEF OneEffect
  <2>1. effects[t] \in Effect \cup {NoEffect} /\ EffectOf(t)
    BY DEF GuardedInv, CallInv, GuardedTypeOK
  <2>2. NoEffect # <<"launch">> /\ Len(NoEffect) = 0
    BY DEF NoEffect
  <2>3. CASE effects[t] = NoEffect
    BY <2>1, <2>2, <2>3 DEF EffectOf
  <2>4. CASE effects[t] \in Effect
    <3>1. Len(effects[t]) = 1 /\ effects[t][1] # "intercepted"
      BY <2>4, EffectOnce
    <3>. QED
      BY <2>1, <3>1 DEF EffectOf
  <2>. QED
    BY <2>1, <2>3, <2>4
<1>. QED
  BY <1>1, GuardedInvariant, PTL

\* When close() of the backend returned, no handle can be looked up, no
\* graph is live and none of its resources is in use (RelocBackend.close).
THEOREM CloseDrains == GuardedSpec => []CloseDrainsBackend
<1>1. GuardedInv => CloseDrainsBackend
  BY DEF GuardedInv, DrainInv, CloseDrainsBackend
<1>. QED
  BY <1>1, GuardedInvariant, PTL

\* Native work starts on the view and the parameter values of that moment
\* (PreparedCall.recheck, execute_transfer).
THEOREM LaunchesAreFresh == GuardedSpec => LaunchesFresh
<1>1. ASSUME GuardedInv, [GuardedNext]_guardedVars, NEW t \in Callers,
             gpc[t] = "launch", gpc'[t] = "running"
      PROVE  (request[t].view = source \/ request[t].raced) /\ request[t].values = parameter
  <2>1. gpc \in [Callers -> Entering \cup Undecided \cup Acted \cup {"idle"}] /\ ViewOf(t)
    BY <1>1 DEF GuardedInv, CallInv, GuardedTypeOK
  <2>2. CASE Launch(t)
    BY <1>1, <2>1, <2>2 DEF Launch, LeaveCall, ViewOf
  <2>3. ASSUME NEW u \in Callers, u # t, CallStep(u) \/ EagerCall(u) \/ \E h \in Handles : GraphCall(u, h)
        PROVE  gpc'[t] = gpc[t]
    BY <2>1, <2>3 DEF CallStep, Lookup, Redispatch, Enter, CheckGuards, Place, Replay, Preflight,
       Snapshot, ExecuteOpens, Launch, NativeEnds, FinishCall, Fallback, EagerCall, GraphCall,
       LeaveCall
  <2>4. ASSUME CallStep(t) \/ EagerCall(t) \/ \E h \in Handles : GraphCall(t, h)
        PROVE  Launch(t)
    BY <1>1, <2>4 DEF CallStep, Lookup, Redispatch, Enter, CheckGuards, Place, Replay, Preflight,
       Snapshot, ExecuteOpens, NativeEnds, FinishCall, Fallback, EagerCall, GraphCall
  <2>5. CASE \/ \E h \in Handles : CompileGraph(h) \/ ReleaseGraph(h)
             \/ Change \/ CloseBackend \/ CloseStep \/ UNCHANGED guardedVars
    BY <1>1, <2>5 DEF CompileGraph, ReleaseGraph, Change, CloseBackend, CloseStep, CloseReleases,
       CloseAdapter, CloseDrained, guardedVars, requestVars
  <2>. QED
    BY <1>1, <2>2, <2>3, <2>4, <2>5 DEF GuardedNext
<1>2. GuardedInv /\ [GuardedNext]_guardedVars =>
        [\A t \in Callers : gpc[t] = "launch" /\ gpc'[t] = "running" =>
           /\ request[t].view = source \/ request[t].raced
           /\ request[t].values = parameter]_guardedVars
  BY <1>1
<1>. QED
  BY <1>2, GuardedInvariant, PTL DEF GuardedSpec, LaunchesFresh

(***************************************************************************)
(* The choice of a path                                                    *)
(***************************************************************************)
\* A non-empty set of natural numbers has a least element.
LEMMA LeastNumber ==
  ASSUME NEW S, S \subseteq Nat, S # {}
  PROVE  \E least \in S : \A x \in S : least <= x
<1> DEFINE before == {ss \in Nat \X Nat : ss[1] < ss[2]}
<1>1. IsWellFoundedOn(before, Nat)
  BY NatLessThanWellFounded DEF OpToRel
<1>2. \A x, y \in Nat : x < y => <<x, y>> \in before
  OBVIOUS
<1> HIDE DEF before
<1>3. PICK least \in S : \A x \in S : <<x, least>> \notin before
  BY <1>1, WFMin
<1>4. ASSUME NEW x \in S
      PROVE  least <= x
  <2>1. x \in Nat /\ least \in Nat
    OBVIOUS
  <2>2. ~(x < least)
    BY <1>2, <1>3, <2>1
  <2>. QED
    BY <2>1, <2>2
<1>. QED
  BY <1>4

\* The parts of a history are entries of that history.
LEMMA HistoryParts ==
  ASSUME NEW S, NEW history \in Seq(S), NEW a \in Nat, NEW b \in Int, b <= Len(history), a >= 1
  PROVE  SubSeq(history, a, b) \in Seq(S)
<1>1. Len(history) \in Nat /\ \A i \in 1..Len(history) : history[i] \in S
  BY LenProperties, ElementOfSeq
<1>. QED
  BY <1>1, SubSeqProperties

\* Moving an entry to the end, assigning one to its key and evicting the
\* oldest leave a history of the same kind of entries.
LEMMA TouchedKeeps ==
  ASSUME NEW S, NEW history \in Seq(S), NEW entry \in S
  PROVE  Touched(history, entry) \in Seq(S)
<1> DEFINE I == {i \in 1..Len(history) : history[i] = entry}
<1>1. RemoveFirst(history, entry) \in Seq(S)
  <2>1. CASE I # {}
    <3>1. RemoveFirst(history, entry) = RemoveAt(history, Min(I))
      BY <2>1 DEF RemoveFirst, SelectInSeq
    <3>2. I \subseteq Nat
      OBVIOUS
    <3>3. Min(I) \in 1..Len(history)
      BY <2>1, <3>2, LeastNumber DEF Min
    <3>4. PICK m \in 1..Len(history) : RemoveFirst(history, entry) = RemoveAt(history, m)
      BY <3>1, <3>3
    <3>5. Len(history) \in Nat
      OBVIOUS
    <3>6. SubSeq(history, 1, m - 1) \in Seq(S) /\ SubSeq(history, m + 1, Len(history)) \in Seq(S)
      BY <3>5, HistoryParts
    <3>. QED
      BY <3>4, <3>6 DEF RemoveAt
  <2>2. CASE I = {}
    BY <2>2 DEF RemoveFirst
  <2>. QED
    BY <2>1, <2>2
<1>. QED
  BY <1>1 DEF Touched

LEMMA IndexFound ==
  ASSUME NEW S, NEW predictions \in Seq(S), NEW key, Has(predictions, key)
  PROVE  /\ Index(predictions, key) \in 1..Len(predictions)
         /\ predictions[Index(predictions, key)] \in S
         /\ predictions[Index(predictions, key)].key = key
<1>1. DOMAIN predictions = 1..Len(predictions)
  OBVIOUS
<1>2. /\ Index(predictions, key) \in 1..Len(predictions)
      /\ predictions[Index(predictions, key)].key = key
  BY <1>1 DEF Has, Index
<1>. QED
  BY <1>2, ElementOfSeq

LEMMA AssignedKeeps ==
  ASSUME NEW S, NEW predictions \in Seq(S), NEW entry \in S
  PROVE  Assigned(predictions, entry) \in Seq(S)
<1>1. CASE Has(predictions, entry.key)
  <2>1. PICK i \in 1..Len(predictions) : Assigned(predictions, entry) = [predictions EXCEPT ![i] = entry]
    BY <1>1, IndexFound DEF Assigned
  <2>. QED
    BY <2>1, ExceptSeq
<1>2. CASE ~Has(predictions, entry.key)
  BY <1>2 DEF Assigned
<1>. QED
  BY <1>1, <1>2

LEMMA BoundedKeeps ==
  ASSUME NEW S, NEW history \in Seq(S)
  PROVE  Bounded(history) \in Seq(S)
<1>1. CASE history = <<>>
  <2>1. Len(history) = 0 /\ Capacity \in Nat
    BY <1>1, PlacementConstants
  <2>. QED
    BY <2>1 DEF Bounded
<1>2. CASE history # <<>>
  BY <1>2, HeadTailProperties DEF Bounded
<1>. QED
  BY <1>1, <1>2

\* The values of a call that is being placed.
Qualified == {"layout", "typed"}
Measurable == {"native", "torch_cpu", "torch_gpu", "sym_cpu", "sym_gpu"}
States == UNION {[S -> {"cold", "warm"}] : S \in SUBSET Measurable}
CostTables == UNION {[S -> Nat] : S \in SUBSET Measurable}
PlacementCall ==
  [pc : {"states", "lookup", "predict", "run", "succeeded"}, family : Qualified, forced : Forces,
   context : Contexts, epoch : Nat, retained : BOOLEAN, profile : Profiles \cup {NoProfile},
   states : States, path : Measurable \cup {"none"}, predicted : CostTables]

\* What history a call may read: paths of calls that succeeded, and the
\* predictions of the profile they were saved under.
SeenFacts == {<<[family |-> w.family, context |-> w.context, epoch |-> w.returned], w.path>> : w \in warmed}
PredictionKeys == [key : [family : Qualified, context : Contexts, epoch : Nat], states : States]
Prediction(profile, k_) ==
  [key |-> k_, costs |-> Predict(profile, k_.key.family, k_.states, k_.key.context)]
SoundPredictions(profile) == {Prediction(profile, k_) : k_ \in PredictionKeys}

PlacementTypeOK ==
  /\ policy \in [profile : Profiles \cup {NoProfile}, cached : Profiles \cup {NoProfile},
                 seen : Seq(SeenFacts), predictions : Seq(SoundPredictions(policy.cached))]
  /\ resources \in [retained : BOOLEAN, made : BOOLEAN, generation : Nat, open : BOOLEAN]
  /\ world \in [context : Contexts, machine : Machines, shifts : Nat, calls : Nat]
  /\ placing \in [Placers -> PlacementCall \cup {NotPlacing}]

\* The path was taken on the evidence that PlacementJustified asks for.
Choice(c) ==
  /\ c.path \in candidates(c.family)
  /\ c.predicted # NoCosts => c.predicted = Predict(c.profile, c.family, c.states, c.context)
  /\ c.forced = "no" /\ c.path # Conservative(c.family)
       => /\ Conservative(c.family) \in DOMAIN c.predicted
          /\ \A p \in DOMAIN c.predicted : c.predicted[c.path] <= c.predicted[p]

\* While it chooses, a call uses the installed profile, under which the
\* predictions were saved once it looked; its warm paths have succeeded.
Evidence(c) ==
  /\ c.pc \in {"states", "lookup", "predict"} => c.profile = policy.profile
  /\ c.pc \in {"lookup", "predict"} => c.profile # NoProfile /\ c.forced = "no"
  /\ c.pc = "predict" => policy.cached = policy.profile
  /\ c.pc \in {"run", "succeeded"} => Choice(c)
  /\ \A p \in DOMAIN c.states : c.states[p] = "warm" =>
       \E w \in warmed : /\ w.family = c.family /\ w.context = c.context /\ w.path = p
                         /\ w.returned = c.epoch

PlacementInv ==
  PlacementTypeOK /\ \A t \in Placers : placing[t].pc # "none" => Evidence(placing[t])

\* The paths of a qualified recipe; the conservative one is among them.
LEMMA Candidates ==
  ASSUME NEW f \in Qualified
  PROVE  candidates(f) \in SUBSET Measurable /\ Conservative(f) \in candidates(f)
BY DEF Qualified, candidates, Conservative, Measurable

\* Predictions are numbers for some of those paths.
LEMMA PredictionTyped ==
  ASSUME NEW profile \in Profiles, NEW f \in Qualified, NEW states, NEW c
  PROVE  /\ Predict(profile, f, states, c) \in CostTables
         /\ DOMAIN Predict(profile, f, states, c) \subseteq candidates(f)
<1> DEFINE measured(p) == <<f, p, states[p], c>>
           known == {p \in candidates(f) : measured(p) \in DOMAIN profile.costs}
<1>1. Predict(profile, f, states, c) = [p \in known |-> profile.costs[measured(p)]]
  BY DEF Predict
<1>2. known \in SUBSET Measurable /\ known \subseteq candidates(f)
  BY Candidates
<1>3. \A p \in known : profile.costs[measured(p)] \in Nat
  BY PlacementConstants
<1> HIDE DEF known, measured
<1>4. Predict(profile, f, states, c) \in [known -> Nat]
  BY <1>1, <1>3
<1>. QED
  BY <1>1, <1>2, <1>4 DEF CostTables

\* The path that is chosen: the cheapest, if the conservative one is known.
LEMMA ChosenIsCheapest ==
  ASSUME NEW call \in PlacementCall, NEW costs \in CostTables, DOMAIN costs \subseteq candidates(call.family)
  PROVE  /\ Chosen(call, costs) \in candidates(call.family)
         /\ Chosen(call, costs) # Conservative(call.family)
              => /\ Conservative(call.family) \in DOMAIN costs
                 /\ \A p \in DOMAIN costs : costs[Chosen(call, costs)] <= costs[p]
<1>1. call.family \in Qualified
  BY DEF PlacementCall
<1>2. CASE Conservative(call.family) \in DOMAIN costs
  <2>1. PICK D \in SUBSET Measurable : costs \in [D -> Nat]
    BY DEF CostTables
  <2> DEFINE S == {costs[p] : p \in D}
  <2>2. S \subseteq Nat /\ S # {}
    BY <1>2, <2>1
  <2> HIDE DEF S
  <2>3. PICK least \in S : \A x \in S : least <= x
    BY <2>2, LeastNumber
  <2>4. \E p \in DOMAIN costs : \A q \in DOMAIN costs : costs[p] <= costs[q]
    BY <2>1, <2>3 DEF S
  <2>5. Cheapest(costs) \in DOMAIN costs /\ \A q \in DOMAIN costs : costs[Cheapest(costs)] <= costs[q]
    BY <2>4 DEF Cheapest
  <2>. QED
    BY <1>2, <2>5 DEF Chosen
<1>3. CASE Conservative(call.family) \notin DOMAIN costs
  BY <1>1, <1>3, Candidates DEF Chosen
<1>. QED
  BY <1>2, <1>3

\* A step of one call keeps what is known of all calls, if what the policy
\* and the history gain is sound.
LEMMA PlaceKeeps ==
  ASSUME PlacementInv, NEW t \in Placers, NEW c \in PlacementCall \cup {NotPlacing},
         Becomes(t, c), c.pc # "none" => Evidence(c)', PlacementTypeOK',
         policy'.profile = policy.profile,
         policy'.cached = policy.cached \/ policy'.cached = policy.profile,
         warmed \subseteq warmed'
  PROVE  PlacementInv'
<1>1. placing \in [Placers -> PlacementCall \cup {NotPlacing}]
  BY DEF PlacementInv, PlacementTypeOK
<1>2. ASSUME NEW u \in Placers, placing'[u].pc # "none"
      PROVE  Evidence(placing[u])'
  <2>1. CASE u = t
    BY <1>1, <1>2, <2>1 DEF Becomes
  <2>2. CASE u # t
    <3>1. placing'[u] = placing[u]
      BY <1>1, <2>2 DEF Becomes
    <3>2. Evidence(placing[u])
      BY <1>2, <3>1 DEF PlacementInv
    <3>. QED
      BY <3>1, <3>2 DEF Evidence, Choice
  <2>. QED
    BY <2>1, <2>2
<1>. QED
  BY <1>2 DEF PlacementInv

\* Deciding on a path with evidence for it.
LEMMA DecideKeeps ==
  ASSUME PlacementInv, NEW t \in Placers, NEW c \in PlacementCall, NEW path \in Measurable,
         NEW costs \in CostTables, Decide(t, c, path, costs),
         path \in candidates(c.family),
         costs # NoCosts => costs = Predict(c.profile, c.family, c.states, c.context),
         c.forced = "no" /\ path # Conservative(c.family)
           => /\ Conservative(c.family) \in DOMAIN costs
              /\ \A p \in DOMAIN costs : costs[path] <= costs[p],
         \A p \in DOMAIN c.states : c.states[p] = "warm" =>
           \E w \in warmed : /\ w.family = c.family /\ w.context = c.context /\ w.path = p
                             /\ w.returned = c.epoch,
         policy' \in [profile : Profiles \cup {NoProfile}, cached : Profiles \cup {NoProfile},
                      seen : Seq(SeenFacts), predictions : Seq(SoundPredictions(policy'.cached))],
         policy'.profile = policy.profile,
         policy'.cached = policy.cached \/ policy'.cached = policy.profile,
         UNCHANGED <<resources, world, warmed>>
  PROVE  PlacementInv'
<1> DEFINE d == [c EXCEPT !.pc = "run", !.path = path, !.predicted = costs]
<1>1. /\ d \in PlacementCall
      /\ d.pc = "run" /\ d.path = path /\ d.predicted = costs /\ d.family = c.family
      /\ d.forced = c.forced /\ d.states = c.states /\ d.profile = c.profile
      /\ d.context = c.context /\ d.epoch = c.epoch
  BY DEF PlacementCall
<1>2. Becomes(t, d)
  BY DEF Decide
<1> HIDE DEF d
<1>3. Evidence(d)'
  BY <1>1 DEF Evidence, Choice
<1>4. PlacementTypeOK'
  BY <1>1, <1>2 DEF PlacementInv, PlacementTypeOK, Becomes, SeenFacts
<1>. QED
  BY <1>1, <1>2, <1>3, <1>4, PlaceKeeps

\* The record of a call at each place, and what is known of it there.
LEMMA PlacingFacts ==
  ASSUME PlacementInv, NEW t \in Placers, placing[t].pc # "none"
  PROVE  placing[t] \in PlacementCall /\ placing[t].family \in Qualified /\ Evidence(placing[t])
BY DEF PlacementInv, PlacementTypeOK, PlacementCall, NotPlacing

\* The table that is empty, before anything is known.
LEMMA NothingKnown ==
  /\ NoStates \in States /\ DOMAIN NoStates = {}
  /\ NoCosts \in CostTables /\ DOMAIN NoCosts = {}
BY DEF NoStates, NoCosts, States, CostTables

LEMMA ChooseKeeps ==
  ASSUME PlacementInv, NEW t \in Placers, NEW f \in Families, NEW forced \in Forces, Choose(t, f, forced)
  PROVE  PlacementInv'
<1>0. PICK c : c = [pc |-> "states", family |-> f, forced |-> forced, context |-> world.context,
                 epoch |-> Epoch, retained |-> resources.retained, profile |-> policy.profile,
                 states |-> NoStates, path |-> "none", predicted |-> NoCosts]
  OBVIOUS
<1>1. f \in Qualified
  BY DEF Choose, candidates, Qualified
<1>2. Epoch \in Nat /\ resources.retained \in BOOLEAN /\ world.context \in Contexts
  BY DEF Epoch, PlacementInv, PlacementTypeOK
<1>3. c \in PlacementCall
  BY <1>0, <1>1, <1>2, NothingKnown DEF PlacementCall, PlacementInv, PlacementTypeOK
<1>4. Becomes(t, c)
  BY <1>0 DEF Choose
<1>5. Evidence(c)'
  <2>1. c.profile = policy.profile /\ policy' = policy /\ c.pc = "states" /\ c.states = NoStates
    BY <1>0 DEF Choose
  <2>. QED
    BY <2>1, NothingKnown DEF Evidence
<1>7. PlacementTypeOK'
  <2>1. UNCHANGED <<policy, resources, warmed>> /\ world' = [world EXCEPT !.calls = @ + 1]
    BY DEF Choose
  <2>2. /\ placing \in [Placers -> PlacementCall \cup {NotPlacing}]
        /\ world \in [context : Contexts, machine : Machines, shifts : Nat, calls : Nat]
    BY DEF PlacementInv, PlacementTypeOK
  <2>3. placing' \in [Placers -> PlacementCall \cup {NotPlacing}]
    BY <1>3, <1>4, <2>2 DEF Becomes
  <2>4. world' \in [context : Contexts, machine : Machines, shifts : Nat, calls : Nat]
    BY <2>1, <2>2
  <2>. QED
    BY <2>1, <2>3, <2>4 DEF PlacementInv, PlacementTypeOK, SeenFacts
<1>8. UNCHANGED <<policy, warmed>>
  BY DEF Choose
<1>9. c \in PlacementCall \cup {NotPlacing}
  BY <1>3
<1>. QED
  BY <1>4, <1>5, <1>7, <1>8, <1>9, PlaceKeeps

LEMMA ReturnKeeps ==
  ASSUME PlacementInv, NEW t \in Placers, Returns(t), PlacementTypeOK',
         policy'.profile = policy.profile,
         policy'.cached = policy.cached \/ policy'.cached = policy.profile,
         warmed \subseteq warmed'
  PROVE  PlacementInv'
<1>1. NotPlacing.pc = "none"
  BY DEF NotPlacing
<1>. QED
  BY <1>1, PlaceKeeps DEF Returns

\* A path is believed warm on the word of an entry of the history.
LEMMA ReadStatesKeeps ==
  ASSUME PlacementInv, NEW t \in Placers, ReadStates(t)
  PROVE  PlacementInv'
<1> DEFINE call == placing[t]
           table == [p \in candidates(call.family) |-> IF Warm(call, p) THEN "warm" ELSE "cold"]
<1>1. call.pc = "states" /\ call \in PlacementCall /\ call.family \in Qualified /\ Evidence(call)
  BY PlacingFacts DEF ReadStates, At
<1>2. table \in States /\ DOMAIN table = candidates(call.family)
  BY <1>1, Candidates DEF States
<1>3. ASSUME NEW p \in DOMAIN table, table[p] = "warm"
      PROVE  \E w \in warmed : /\ w.family = call.family /\ w.context = call.context /\ w.path = p
                               /\ w.returned = call.epoch
  <2>1. <<Key(call, call.epoch), p>> \in Range(policy.seen)
    BY <1>2, <1>3 DEF Warm
  <2>2. policy.seen \in Seq(SeenFacts)
    BY DEF PlacementInv, PlacementTypeOK
  <2>3. <<Key(call, call.epoch), p>> \in SeenFacts
    BY <2>1, <2>2 DEF Range
  <2>4. PICK w \in warmed :
          <<Key(call, call.epoch), p>>
            = <<[family |-> w.family, context |-> w.context, epoch |-> w.returned], w.path>>
    BY <2>3 DEF SeenFacts
  <2>5. p = w.path /\ Key(call, call.epoch) = [family |-> w.family, context |-> w.context, epoch |-> w.returned]
    BY <2>4
  <2>6. call.family = w.family /\ call.context = w.context /\ call.epoch = w.returned
    BY <2>5 DEF Key
  <2>. QED
    BY <2>5, <2>6
<1> HIDE DEF table
<1>0. PICK c : c = [call EXCEPT !.pc = "lookup", !.states = table]
  OBVIOUS
<1>4. /\ c \in PlacementCall /\ c.pc = "lookup" /\ c.states = table /\ c.family = call.family
      /\ c.context = call.context /\ c.epoch = call.epoch /\ c.forced = call.forced
      /\ c.profile = call.profile
  BY <1>0, <1>1, <1>2 DEF PlacementCall
<1>5. /\ UNCHANGED <<policy, resources, world, warmed>>
      /\ policy \in [profile : Profiles \cup {NoProfile}, cached : Profiles \cup {NoProfile},
                     seen : Seq(SeenFacts), predictions : Seq(SoundPredictions(policy.cached))]
  BY DEF ReadStates, PlacementInv, PlacementTypeOK
<1>6. \/ c.forced # "no" /\ c.forced \in candidates(c.family) /\ Decide(t, c, c.forced, NoCosts)
      \/ Returns(t)
      \/ policy.profile = NoProfile /\ Decide(t, c, Conservative(c.family), NoCosts)
      \/ c.forced = "no" /\ policy.profile # NoProfile /\ Becomes(t, c)
  BY <1>0, <1>4 DEF ReadStates, table
<1>7. \A p \in DOMAIN c.states : c.states[p] = "warm" =>
        \E w \in warmed : /\ w.family = c.family /\ w.context = c.context /\ w.path = p
                          /\ w.returned = c.epoch
  BY <1>3, <1>4
<1>8. CASE c.forced # "no" /\ c.forced \in candidates(c.family) /\ Decide(t, c, c.forced, NoCosts)
  <2>1. c.forced \in Measurable
    BY <1>1, <1>4, <1>8, Candidates
  <2>. QED
    BY <1>4, <1>5, <1>7, <1>8, <2>1, NothingKnown, DecideKeeps
<1>9. CASE Decide(t, c, Conservative(c.family), NoCosts)
  <2>1. Conservative(c.family) \in candidates(c.family) /\ Conservative(c.family) \in Measurable
    BY <1>1, <1>4, Candidates
  <2>. QED
    BY <1>4, <1>5, <1>7, <1>9, <2>1, NothingKnown, DecideKeeps
<1>10. CASE Returns(t)
  <2>1. PlacementTypeOK'
    BY <1>5, <1>10 DEF PlacementInv, PlacementTypeOK, Returns, Becomes, SeenFacts
  <2>. QED
    BY <1>5, <1>10, <2>1, ReturnKeeps
<1>11. CASE c.forced = "no" /\ policy.profile # NoProfile /\ Becomes(t, c)
  <2>1. PlacementTypeOK'
    BY <1>4, <1>5, <1>11 DEF PlacementInv, PlacementTypeOK, Becomes, SeenFacts
  <2>2. c.profile = policy.profile
    BY <1>1, <1>4 DEF Evidence
  <2>3. Evidence(c)'
    BY <1>4, <1>5, <1>7, <1>11, <2>2 DEF Evidence
  <2>4. c \in PlacementCall \cup {NotPlacing}
    BY <1>4
  <2>. QED
    BY <1>5, <1>11, <2>1, <2>3, <2>4, PlaceKeeps
<1>. QED
  BY <1>6, <1>8, <1>9, <1>10, <1>11

\* Looking up keeps the predictions sound for the profile they belong to.
LEMMA KnownSound ==
  ASSUME PlacementInv
  PROVE  /\ Known \in [profile : Profiles \cup {NoProfile}, cached : Profiles \cup {NoProfile},
                       seen : Seq(SeenFacts), predictions : Seq(SoundPredictions(Known.cached))]
         /\ Known.profile = policy.profile /\ Known.cached = policy.profile
<1>1. policy \in [profile : Profiles \cup {NoProfile}, cached : Profiles \cup {NoProfile},
                  seen : Seq(SeenFacts), predictions : Seq(SoundPredictions(policy.cached))]
  BY DEF PlacementInv, PlacementTypeOK
<1>2. CASE policy.cached = policy.profile
  BY <1>1, <1>2 DEF Known
<1>3. CASE policy.cached # policy.profile
  <2>1. Known = [policy EXCEPT !.predictions = <<>>, !.cached = policy.profile]
    BY <1>3 DEF Known
  <2>2. /\ Known.profile = policy.profile /\ Known.cached = policy.profile
        /\ Known.seen = policy.seen /\ Known.predictions = <<>>
        /\ Known = [profile |-> Known.profile, cached |-> Known.cached, seen |-> Known.seen,
                    predictions |-> Known.predictions]
    BY <1>1, <2>1
  <2>3. <<>> \in Seq(SoundPredictions(Known.cached))
    BY EmptySeq
  <2>. QED
    BY <1>1, <2>2, <2>3
<1>. QED
  BY <1>2, <1>3

\* What a saved prediction says of the call that finds it.
LEMMA FoundIsPredicted ==
  ASSUME NEW call \in PlacementCall, NEW profile, NEW entry \in SoundPredictions(profile),
         entry.key = PredictionKey(call)
  PROVE  entry.costs = Predict(profile, call.family, call.states, call.context)
<1>1. PICK k_ \in PredictionKeys : entry = Prediction(profile, k_)
  BY DEF SoundPredictions
<1>2. entry.key = k_ /\ entry.costs = Predict(profile, k_.key.family, k_.states, k_.key.context)
  BY <1>1 DEF Prediction
<1>3. /\ PredictionKey(call).states = call.states /\ PredictionKey(call).key.family = call.family
      /\ PredictionKey(call).key.context = call.context
  BY DEF PredictionKey, Key
<1>. QED
  BY <1>2, <1>3

LEMMA LookUpKeeps ==
  ASSUME PlacementInv, NEW t \in Placers, LookUp(t)
  PROVE  PlacementInv'
<1>0. PICK c : c = placing[t]
  OBVIOUS
<1>1. c.pc = "lookup" /\ c \in PlacementCall /\ c.family \in Qualified /\ Evidence(c)
  BY <1>0, PlacingFacts DEF LookUp, At
<1>2. /\ c.profile = policy.profile /\ policy.profile # NoProfile /\ policy.profile \in Profiles
      /\ \A p \in DOMAIN c.states : c.states[p] = "warm" =>
           \E w \in warmed : /\ w.family = c.family /\ w.context = c.context /\ w.path = p
                             /\ w.returned = c.epoch
      /\ policy \in [profile : Profiles \cup {NoProfile}, cached : Profiles \cup {NoProfile},
                     seen : Seq(SeenFacts), predictions : Seq(SoundPredictions(policy.cached))]
  BY <1>1 DEF Evidence, PlacementInv, PlacementTypeOK
<1>3. UNCHANGED <<resources, world, warmed>>
  BY DEF LookUp
<1>4. \/ Decide(t, c, Conservative(c.family), NoCosts) /\ UNCHANGED policy
      \/ \E entry : /\ Has(Known.predictions, PredictionKey(c))
                    /\ entry = Known.predictions[Index(Known.predictions, PredictionKey(c))]
                    /\ policy' = [Known EXCEPT !.predictions = Touched(@, entry)]
                    /\ Decide(t, c, Chosen(c, entry.costs), entry.costs)
      \/ policy' = Known /\ Becomes(t, [c EXCEPT !.pc = "predict"])
  BY <1>0 DEF LookUp
<1>5. CASE Decide(t, c, Conservative(c.family), NoCosts) /\ UNCHANGED policy
  <2>1. Conservative(c.family) \in candidates(c.family) /\ Conservative(c.family) \in Measurable
    BY <1>1, Candidates
  <2>2. policy' \in [profile : Profiles \cup {NoProfile}, cached : Profiles \cup {NoProfile},
                     seen : Seq(SeenFacts), predictions : Seq(SoundPredictions(policy'.cached))]
    BY <1>2, <1>5
  <2>. QED
    BY <1>1, <1>2, <1>3, <1>5, <2>1, <2>2, NothingKnown, DecideKeeps
<1>6. ASSUME NEW entry, Has(Known.predictions, PredictionKey(c)),
             entry = Known.predictions[Index(Known.predictions, PredictionKey(c))],
             policy' = [Known EXCEPT !.predictions = Touched(@, entry)],
             Decide(t, c, Chosen(c, entry.costs), entry.costs)
      PROVE  PlacementInv'
  <2>1. /\ Known \in [profile : Profiles \cup {NoProfile}, cached : Profiles \cup {NoProfile},
                      seen : Seq(SeenFacts), predictions : Seq(SoundPredictions(Known.cached))]
        /\ Known.profile = policy.profile /\ Known.cached = policy.profile
    BY KnownSound
  <2>2. Known.predictions \in Seq(SoundPredictions(policy.profile))
    BY <2>1
  <2>3. entry \in SoundPredictions(policy.profile) /\ entry.key = PredictionKey(c)
    BY <1>6, <2>2, IndexFound
  <2>4. entry.costs = Predict(policy.profile, c.family, c.states, c.context)
    BY <1>1, <2>3, FoundIsPredicted
  <2>5. entry.costs \in CostTables /\ DOMAIN entry.costs \subseteq candidates(c.family)
    BY <1>1, <1>2, <2>4, PredictionTyped
  <2>6. /\ Chosen(c, entry.costs) \in candidates(c.family)
        /\ Chosen(c, entry.costs) \in Measurable
        /\ Chosen(c, entry.costs) # Conservative(c.family)
             => /\ Conservative(c.family) \in DOMAIN entry.costs
                /\ \A p \in DOMAIN entry.costs : entry.costs[Chosen(c, entry.costs)] <= entry.costs[p]
    BY <1>1, <2>5, ChosenIsCheapest, Candidates
  <2>7. Touched(Known.predictions, entry) \in Seq(SoundPredictions(policy.profile))
    BY <2>2, <2>3, TouchedKeeps
  <2>8. /\ policy'.profile = policy.profile /\ policy'.cached = policy.profile
        /\ policy' \in [profile : Profiles \cup {NoProfile}, cached : Profiles \cup {NoProfile},
                        seen : Seq(SeenFacts), predictions : Seq(SoundPredictions(policy.profile))]
    BY <1>6, <2>1, <2>7
  <2>9. PICK path \in Measurable : path = Chosen(c, entry.costs)
    BY <2>6
  <2>10. PICK costs \in CostTables : costs = entry.costs
    BY <2>5
  <2>11. Decide(t, c, path, costs)
    BY <1>6, <2>9, <2>10
  <2>12. costs = Predict(c.profile, c.family, c.states, c.context)
    BY <1>2, <2>4, <2>10
  <2>13. /\ path \in candidates(c.family)
         /\ path # Conservative(c.family)
              => /\ Conservative(c.family) \in DOMAIN costs
                 /\ \A p \in DOMAIN costs : costs[path] <= costs[p]
    BY <2>6, <2>9, <2>10
  <2>14. /\ policy'.profile = policy.profile /\ policy'.cached = policy.profile
         /\ policy' \in [profile : Profiles \cup {NoProfile}, cached : Profiles \cup {NoProfile},
                         seen : Seq(SeenFacts), predictions : Seq(SoundPredictions(policy'.cached))]
    BY <2>8
  <2>. QED
    BY <1>1, <1>2, <1>3, <2>11, <2>12, <2>13, <2>14, DecideKeeps
<1>7. CASE policy' = Known /\ Becomes(t, [c EXCEPT !.pc = "predict"])
  <2>0. PICK d : d = [c EXCEPT !.pc = "predict"]
    OBVIOUS
  <2>1. /\ d \in PlacementCall /\ d.pc = "predict" /\ d.states = c.states /\ d.family = c.family
        /\ d.context = c.context /\ d.epoch = c.epoch /\ d.forced = c.forced /\ d.profile = c.profile
    BY <1>1, <2>0 DEF PlacementCall
  <2>2. /\ policy' \in [profile : Profiles \cup {NoProfile}, cached : Profiles \cup {NoProfile},
                        seen : Seq(SeenFacts), predictions : Seq(SoundPredictions(policy'.cached))]
        /\ policy'.profile = policy.profile /\ policy'.cached = policy.profile
    BY <1>7, KnownSound
  <2>3. Becomes(t, d)
    BY <1>7, <2>0
  <2>4. PlacementTypeOK'
    BY <1>3, <2>1, <2>2, <2>3 DEF PlacementInv, PlacementTypeOK, Becomes, SeenFacts
  <2>5. Evidence(d)'
    BY <1>1, <1>2, <1>3, <2>1, <2>2 DEF Evidence
  <2>6. d \in PlacementCall \cup {NotPlacing}
    BY <2>1
  <2>. QED
    BY <1>3, <2>2, <2>3, <2>4, <2>5, <2>6, PlaceKeeps
<1>. QED
  BY <1>4, <1>5, <1>6, <1>7

LEMMA RecordPredictionKeeps ==
  ASSUME PlacementInv, NEW t \in Placers, RecordPrediction(t)
  PROVE  PlacementInv'
<1>0. PICK c : c = placing[t]
  OBVIOUS
<1>1. c.pc = "predict" /\ c \in PlacementCall /\ c.family \in Qualified /\ Evidence(c)
  BY <1>0, PlacingFacts DEF RecordPrediction, At
<1>2. /\ c.profile = policy.profile /\ policy.profile # NoProfile /\ policy.profile \in Profiles
      /\ policy.cached = policy.profile
      /\ \A p \in DOMAIN c.states : c.states[p] = "warm" =>
           \E w \in warmed : /\ w.family = c.family /\ w.context = c.context /\ w.path = p
                             /\ w.returned = c.epoch
      /\ policy \in [profile : Profiles \cup {NoProfile}, cached : Profiles \cup {NoProfile},
                     seen : Seq(SeenFacts), predictions : Seq(SoundPredictions(policy.cached))]
  BY <1>1 DEF Evidence, PlacementInv, PlacementTypeOK
<1>3. UNCHANGED <<resources, world, warmed>>
  BY DEF RecordPrediction
<1>4. PICK costs : costs = Predict(policy.profile, c.family, c.states, c.context)
  OBVIOUS
<1>5. PICK entry : entry = [key |-> PredictionKey(c), costs |-> costs]
  OBVIOUS
<1>6. /\ policy' = [policy EXCEPT !.predictions = Bounded(Assigned(@, entry))]
      /\ Decide(t, c, Chosen(c, costs), costs)
  BY <1>0, <1>4, <1>5 DEF RecordPrediction
<1>7. costs \in CostTables /\ DOMAIN costs \subseteq candidates(c.family)
  BY <1>1, <1>2, <1>4, PredictionTyped
<1>8. PICK path : path = Chosen(c, costs)
  OBVIOUS
<1>9. /\ path \in candidates(c.family) /\ path \in Measurable
      /\ path # Conservative(c.family)
           => /\ Conservative(c.family) \in DOMAIN costs
              /\ \A p \in DOMAIN costs : costs[path] <= costs[p]
  BY <1>1, <1>7, <1>8, ChosenIsCheapest, Candidates
<1>10. entry \in SoundPredictions(policy.profile)
  <2>1. PredictionKey(c) \in PredictionKeys
    BY <1>1 DEF PredictionKey, Key, PredictionKeys, PlacementCall
  <2>2. /\ PredictionKey(c).states = c.states /\ PredictionKey(c).key.family = c.family
        /\ PredictionKey(c).key.context = c.context
    BY DEF PredictionKey, Key
  <2>3. entry = Prediction(policy.profile, PredictionKey(c))
    BY <1>4, <1>5, <2>2 DEF Prediction
  <2>. QED
    BY <2>1, <2>3 DEF SoundPredictions
<1>11. /\ policy'.profile = policy.profile /\ policy'.cached = policy.profile
       /\ policy' \in [profile : Profiles \cup {NoProfile}, cached : Profiles \cup {NoProfile},
                       seen : Seq(SeenFacts), predictions : Seq(SoundPredictions(policy.profile))]
  <2>1. policy.predictions \in Seq(SoundPredictions(policy.profile))
    BY <1>2
  <2>2. Bounded(Assigned(policy.predictions, entry)) \in Seq(SoundPredictions(policy.profile))
    BY <1>10, <2>1, AssignedKeeps, BoundedKeeps
  <2>. QED
    BY <1>2, <1>6, <2>2
<1>12. Decide(t, c, path, costs)
  BY <1>6, <1>8
<1>. QED
  BY <1>1, <1>2, <1>3, <1>4, <1>7, <1>9, <1>11, <1>12, DecideKeeps

\* A call that runs or succeeded keeps what it chose.
LEMMA RunPathKeeps ==
  ASSUME PlacementInv, NEW t \in Placers, RunPath(t)
  PROVE  PlacementInv'
<1>0. PICK c : c = placing[t]
  OBVIOUS
<1>1. c.pc = "run" /\ c \in PlacementCall /\ Evidence(c)
  BY <1>0, PlacingFacts DEF RunPath, At
<1>2. UNCHANGED <<policy, world, warmed>>
  BY DEF RunPath
<1>3. /\ resources' \in [retained : BOOLEAN, made : BOOLEAN, generation : Nat, open : BOOLEAN]
      /\ Becomes(t, [c EXCEPT !.pc = "succeeded"]) \/ Returns(t)
  <2>1. resources \in [retained : BOOLEAN, made : BOOLEAN, generation : Nat, open : BOOLEAN]
    BY DEF PlacementInv, PlacementTypeOK
  <2>2. CASE resources' = [resources EXCEPT !.made = @ \/ (c.path \in Sym /\ resources.retained)]
    <3>1. PICK b \in BOOLEAN : b = (resources.made \/ (c.path \in Sym /\ resources.retained))
      OBVIOUS
    <3>2. resources' = [resources EXCEPT !.made = b]
      BY <2>2, <3>1, Zenon
    <3>. QED
      BY <1>0, <2>1, <3>2 DEF RunPath
  <2>3. CASE UNCHANGED resources
    BY <1>0, <2>1, <2>3 DEF RunPath
  <2>. QED
    BY <1>0, <2>2, <2>3 DEF RunPath
<1>4. CASE Becomes(t, [c EXCEPT !.pc = "succeeded"])
  <2>0. PICK d : d = [c EXCEPT !.pc = "succeeded"]
    OBVIOUS
  <2>1. /\ d \in PlacementCall /\ d.pc = "succeeded" /\ d.path = c.path
        /\ d.predicted = c.predicted /\ d.family = c.family
        /\ d.forced = c.forced /\ d.states = c.states /\ d.profile = c.profile
        /\ d.context = c.context /\ d.epoch = c.epoch
    BY <1>1, <2>0 DEF PlacementCall
  <2>2. Becomes(t, d)
    BY <1>4, <2>0
  <2>3. Evidence(d)'
    BY <1>1, <1>2, <2>1 DEF Evidence, Choice
  <2>4. PlacementTypeOK'
    BY <1>2, <1>3, <2>1, <2>2 DEF PlacementInv, PlacementTypeOK, Becomes, SeenFacts
  <2>5. d \in PlacementCall \cup {NotPlacing}
    BY <2>1
  <2>. QED
    BY <1>2, <2>2, <2>3, <2>4, <2>5, PlaceKeeps
<1>5. CASE Returns(t)
  <2>1. PlacementTypeOK'
    BY <1>2, <1>3, <1>5 DEF PlacementInv, PlacementTypeOK, Returns, Becomes, SeenFacts
  <2>. QED
    BY <1>2, <1>5, <2>1, ReturnKeeps
<1>. QED
  BY <1>3, <1>4, <1>5

\* The history of what succeeded grows, and the paths seen with it.
LEMMA SucceededKeeps ==
  ASSUME PlacementInv, NEW t \in Placers, Succeeded(t)
  PROVE  PlacementInv'
<1>0. PICK c : c = placing[t]
  OBVIOUS
<1>1. c.pc = "succeeded" /\ c \in PlacementCall
  BY <1>0, PlacingFacts DEF Succeeded, At
<1>2. Returns(t) /\ UNCHANGED <<resources, world>>
  BY DEF Succeeded
<1>3. /\ policy \in [profile : Profiles \cup {NoProfile}, cached : Profiles \cup {NoProfile},
                     seen : Seq(SeenFacts), predictions : Seq(SoundPredictions(policy.cached))]
      /\ placing \in [Placers -> PlacementCall \cup {NotPlacing}]
  BY DEF PlacementInv, PlacementTypeOK
<1>4. /\ warmed \subseteq warmed' /\ policy'.profile = policy.profile /\ policy'.cached = policy.cached
      /\ policy' \in [profile : Profiles \cup {NoProfile}, cached : Profiles \cup {NoProfile},
                      seen : Seq(SeenFacts'), predictions : Seq(SoundPredictions(policy.cached))]
  <2>1. CASE resources.open
    <3>1. PICK e : e = Epoch
      OBVIOUS
    <3>2. PICK w : w = [family |-> c.family, context |-> c.context, path |-> c.path, returned |-> e]
      OBVIOUS
    <3>3. PICK entry : entry = <<KeyNow(c), c.path>>
      OBVIOUS
    <3>4. /\ policy' = [policy EXCEPT !.seen = Bounded(Touched(@, entry))]
          /\ warmed' = warmed \cup {w}
      BY <1>0, <2>1, <3>1, <3>2, <3>3 DEF Succeeded
    <3>5. SeenFacts \subseteq SeenFacts'
      BY <3>4 DEF SeenFacts
    <3>6. entry \in SeenFacts'
      <4>1. entry = <<[family |-> w.family, context |-> w.context, epoch |-> w.returned], w.path>>
        BY <3>1, <3>2, <3>3 DEF KeyNow, Key
      <4>. QED
        BY <3>4, <4>1 DEF SeenFacts
    <3>7. policy.seen \in Seq(SeenFacts')
      BY <1>3, <3>5, SeqMonotonic
    <3>8. PICK S : S = SeenFacts'
      OBVIOUS
    <3>9. Bounded(Touched(policy.seen, entry)) \in Seq(S)
      BY <3>6, <3>7, <3>8, TouchedKeeps, BoundedKeeps
    <3>. QED
      BY <1>3, <3>4, <3>8, <3>9
  <2>2. CASE ~resources.open
    BY <1>3, <2>2 DEF Succeeded, SeenFacts
  <2>. QED
    BY <2>1, <2>2
<1>5. PlacementTypeOK'
  BY <1>2, <1>3, <1>4 DEF PlacementInv, PlacementTypeOK, Returns, Becomes
<1>. QED
  BY <1>2, <1>4, <1>5, ReturnKeeps

\* What the rest of the program does changes no call that is being placed.
LEMMA ElsewhereKeeps ==
  ASSUME PlacementInv, ClearOwner \/ ClosePlacementOwner \/ Shift
  PROVE  PlacementInv'
<1>1. /\ UNCHANGED <<policy, placing, warmed>>
      /\ resources' \in [retained : BOOLEAN, made : BOOLEAN, generation : Nat, open : BOOLEAN]
      /\ world' \in [context : Contexts, machine : Machines, shifts : Nat, calls : Nat]
  <2>1. /\ resources \in [retained : BOOLEAN, made : BOOLEAN, generation : Nat, open : BOOLEAN]
        /\ world \in [context : Contexts, machine : Machines, shifts : Nat, calls : Nat]
    BY DEF PlacementInv, PlacementTypeOK
  <2>2. CASE ClearOwner
    BY <2>1, <2>2 DEF ClearOwner
  <2>3. CASE ClosePlacementOwner
    BY <2>1, <2>3 DEF ClosePlacementOwner
  <2>4. CASE Shift
    <3>1. /\ UNCHANGED <<policy, resources, placing, warmed>>
          /\ \E c \in Contexts, m \in Machines :
               world' = [world EXCEPT !.context = c, !.machine = m, !.shifts = @ + 1]
      BY <2>4 DEF Shift
    <3>2. PICK c \in Contexts, m \in Machines :
            world' = [world EXCEPT !.context = c, !.machine = m, !.shifts = @ + 1]
      BY <3>1
    <3>3. world' = [context |-> c, machine |-> m, shifts |-> world.shifts + 1, calls |-> world.calls]
      BY <2>1, <3>2
    <3>. QED
      BY <2>1, <3>1, <3>3
  <2>. QED
    BY <2>2, <2>3, <2>4
<1>. QED
  BY <1>1 DEF PlacementInv, PlacementTypeOK, SeenFacts, Evidence, Choice

\* The profile is replaced while no call is choosing by it.
LEMMA ReplaceProfileKeeps ==
  ASSUME PlacementInv, ReplaceProfile
  PROVE  PlacementInv'
<1>1. PICK p \in Profiles : policy' = [policy EXCEPT !.profile = p]
  BY DEF ReplaceProfile
<1>2. /\ UNCHANGED <<resources, placing, warmed>> /\ world' = [world EXCEPT !.shifts = @ + 1]
      /\ \A t \in Placers : placing[t].pc \notin {"states", "lookup", "predict"}
  BY DEF ReplaceProfile, At
<1>3. world' \in [context : Contexts, machine : Machines, shifts : Nat, calls : Nat]
  BY <1>2 DEF PlacementInv, PlacementTypeOK
<1>4. /\ policy' \in [profile : Profiles \cup {NoProfile}, cached : Profiles \cup {NoProfile},
                      seen : Seq(SeenFacts), predictions : Seq(SoundPredictions(policy'.cached))]
  BY <1>1 DEF PlacementInv, PlacementTypeOK
<1>. QED
  BY <1>2, <1>3, <1>4 DEF PlacementInv, PlacementTypeOK, SeenFacts, Evidence, Choice

\* What every caller knows and chose, in every reachable state: the types,
\* predictions saved under the profile they were made from, and a history
\* of paths that did succeed (choose, succeeded).
THEOREM PlacementInvariant == PlacementSpec => []PlacementInv
<1>1. PlacementInit => PlacementInv
  <2> SUFFICES ASSUME PlacementInit PROVE PlacementInv
    OBVIOUS
  <2>1. \A t \in Placers : placing[t].pc = "none" /\ placing[t] = NotPlacing
    BY DEF PlacementInit, NotPlacing
  <2>2. \A S : <<>> \in Seq(S)
    BY EmptySeq
  <2>3. policy \in [profile : Profiles \cup {NoProfile}, cached : Profiles \cup {NoProfile},
                    seen : Seq(SeenFacts), predictions : Seq(SoundPredictions(policy.cached))]
    BY <2>2 DEF PlacementInit
  <2>. QED
    BY <2>1, <2>3 DEF PlacementInit, PlacementInv, PlacementTypeOK
<1>2. PlacementInv /\ [PlacementNext]_placementVars => PlacementInv'
  <2> SUFFICES ASSUME PlacementInv, [PlacementNext]_placementVars PROVE PlacementInv'
    OBVIOUS
  <2>1. CASE UNCHANGED placementVars
    BY <2>1 DEF placementVars, PlacementInv, PlacementTypeOK, SeenFacts, Evidence, Choice
  <2>2. CASE PlacementNext
    BY <2>2, ChooseKeeps, ReadStatesKeeps, LookUpKeeps, RecordPredictionKeeps, RunPathKeeps,
       SucceededKeeps, ElsewhereKeeps, ReplaceProfileKeeps DEF PlacementNext
  <2>. QED
    BY <2>1, <2>2
<1>. QED
  BY <1>1, <1>2, PTL DEF PlacementSpec

\* A path other than the conservative one was cheapest by the profile that
\* was installed while the call chose, for its own states and context, and
\* was believed warm only after a matching call that no clear() followed.
THEOREM PlacementIsJustified == PlacementSpec => []PlacementJustified
<1>1. PlacementInv => PlacementJustified
  BY DEF PlacementInv, Evidence, Choice, PlacementJustified, Decided, At
<1>. QED
  BY <1>1, PlacementInvariant, PTL

(***************************************************************************)
(* The staging pipeline                                                    *)
(***************************************************************************)
\* The windows of a call, and each queue with its running task in front.
Newest == IF api = "forward" THEN 1 ELSE NumChunks
Lines == [q \in Queues |-> Pending(q)]
Task == [kind : {"copy"}, buf : Buffers, chunk : Nat] \cup [kind : {"event"}, ev : Nat] \cup {WaitTask}
Rank(t) == IF t.kind = "copy" THEN 2 * t.chunk
           ELSE IF t.kind = "event" THEN 2 * t.ev + 1 ELSE 0
Slot(c) == (c - 1) % NumBuffers
Flying(c) == \E q \in Queues : \E i \in 1 .. Len(Lines[q]) :
               Lines[q][i].kind = "copy" /\ Lines[q][i].chunk = c

Opening == {"start", "order"}
Loading == {"fill", "gather", "submit"}
Ending == {"guard", "retire", "returned"}
Places == Opening \cup {"acquire"} \cup Loading \cup {"record", "scatter", "rows", "drain", "rowsForward"}
            \cup Ending

PipeTypeOK ==
  /\ api \in Apis /\ pc \in Places /\ k \in Nat \ {0} /\ next \in -1 .. NumBuffers - 1
  /\ {ordered, produced, pending, missing, error, failed} \subseteq BOOLEAN
  /\ events \in [Buffers -> Nat] /\ staging \in [Buffers -> Int] /\ reading \in [Queues -> Int]
  /\ dst \in [Chunks -> Int] /\ arrived \in Seq([buf : Buffers, ev : Nat, chunk : Nat])
  /\ tasks \in [Queues -> Seq(Task)] /\ executing \in [Queues -> Seq(Task)]
  /\ \A q \in Queues : Len(executing[q]) <= 1
  /\ live \subseteq Nat /\ done \subseteq Nat /\ nextEvent = k
  /\ completion \in {"NotLaunched", "Unknown", "Complete"}

\* Where the driver is says how far it came, which loop it is in, and that
\* nothing failed yet.
PlaceOK ==
  /\ k <= Newest + 1
  /\ pc \in Opening => k = 1 /\ next = -1
  /\ pc = "order" => ordered
  /\ pc \in {"acquire", "record"} \cup Loading => k <= Newest
  /\ pc \in {"drain", "rowsForward"} => k = Newest + 1
  /\ pc \in {"fill", "gather"} => ToDevice
  /\ pc \in {"scatter", "rows"} => api = "inverse"
  /\ pc = "rowsForward" => api = "forward"
  /\ pc \in Loading \cup {"record"} => next # -1 /\ (api = "forward" => next = 0)
  /\ failed => \/ pc \in Ending
               \/ pc = "drain" /\ api # "inverse"
               \/ pc = "record" /\ api = "inverse"
  /\ error => pc \in {"retire", "returned"}
  /\ (pc = "returned") <=> (result # "running")
  /\ (ordered => Owned) /\ (~produced => ordered)

\* What is on the queues: an event behind its copy, the copies of a buffer
\* whose event is not waited for, and before the caller's stream is done a
\* wait for it in front.
LinesOK ==
  /\ \A q \in Queues : \A i, j \in 1 .. Len(Lines[q]) : i < j => Rank(Lines[q][i]) < Rank(Lines[q][j])
  /\ \A q \in Queues : \A i \in 1 .. Len(Lines[q]) : LET t == Lines[q][i] IN
       /\ t.kind = "copy" =>
            /\ t.chunk \in 1 .. Newest /\ q = (t.chunk - 1) % NumQueues
            /\ t.chunk < k \/ (t.chunk = k /\ pc \in {"record"} \cup Ending)
            /\ t.chunk < k /\ ~failed => events[t.buf] = t.chunk
            /\ t.chunk = k /\ pc = "record" => t.buf = next
            /\ t.buf = next => pc \notin Loading
            /\ ~ToDevice => t.buf = Slot(t.chunk)
       /\ t.kind = "event" => t.ev \in 1 .. k - 1 /\ q = (t.ev - 1) % NumQueues
  /\ ~produced => \A q \in Queues : /\ Lines[q] # <<>> => Lines[q][1] = WaitTask
                                    /\ pc \notin Opening \cup Ending => Lines[q] # <<>>
  /\ pc \in Opening => \A q \in Queues : Lines[q] = <<>>

\* An event that completed is behind its copy; without a failure one that
\* is not waited for any more has completed, and the ring knows the others.
EventsOK ==
  /\ \A e \in live : e \in 1 .. k - 1
  /\ \A e \in done : e \in 1 .. k - 1 /\ ~Flying(e)
  /\ ~failed => /\ \A e \in 1 .. k - 1 : e \in live \cup done
                /\ \A e \in live : \E b \in Buffers : events[b] = e
  /\ \A b \in Buffers : events[b] < k
  /\ pc \in Loading \cup {"record"} => events[next] = 0

\* The windows of the inverse loop that are submitted and not yet scattered.
First == IF api = "inverse" THEN k - Len(arrived) ELSE 1
ArrivedOK ==
  /\ api # "inverse" => arrived = <<>>
  /\ Len(arrived) < k /\ Len(arrived) <= NumBuffers
  /\ \A i \in 1 .. Len(arrived) :
       LET c == k - Len(arrived) + i - 1 IN arrived[i] = [buf |-> Slot(c), ev |-> c, chunk |-> c]
  /\ pc \in {"acquire", "submit", "record"} => Len(arrived) < NumBuffers
  /\ pc \in {"scatter", "rows"} => arrived # <<>>
  /\ pc = "drain" => arrived = <<>>
  /\ api = "inverse" =>
       /\ pc \in Opening \cup {"acquire", "scatter", "rows"} => (next + 1) % NumBuffers = Slot(k)
       /\ pc \in {"submit", "record"} => next = Slot(k)
       /\ pc \notin Ending => ~missing
       /\ pc \notin Ending => \A e \in live : e >= First
       /\ pc = "rows" => First \notin live
       /\ pc \notin Ending => \A c \in 1 .. First - 1 : dst[c] = c
       /\ pc \notin Ending => \A c \in 1 .. First - 1 : ~Flying(c)

\* Where the bytes of a submitted window are.
Landed(c) == IF ToDevice THEN dst[c] = c ELSE staging[Slot(c)] = c
ContentOK ==
  /\ \A q \in Queues : executing[q] # <<>> /\ executing[q][1].kind = "copy" =>
       reading[q] = executing[q][1].chunk
  /\ ToDevice => \A q \in Queues : \A i \in 1 .. Len(Lines[q]) :
       Lines[q][i].kind = "copy" => staging[Lines[q][i].buf] = Lines[q][i].chunk
  /\ pc = "submit" /\ ToDevice => staging[next] = k
  /\ pc \notin Ending => \A c \in First .. k - 1 : Flying(c) \/ Landed(c)
  /\ pc = "record" /\ ~failed => Flying(k) \/ Landed(k)
  /\ pc = "rowsForward" => staging[0] = 1

\* What the end of the call knows.
EndOK ==
  /\ ToDevice /\ completion # "Unknown" => \A c \in 1 .. Newest : ~Flying(c)
  /\ api = "raw" /\ completion = "Unknown" => pending
  /\ pc = "retire" /\ ~error =>
       /\ \A c \in Chunks : dst[c] = c
       /\ IF api = "inverse" THEN ~pending ELSE completion = "Complete"
  /\ pc # "returned" => storage = "held"
  /\ ToDevice /\ pc = "returned" /\ (\E c \in 1 .. Newest : Flying(c)) =>
       result = "unknown" /\ storage = "retained"

PipelineInv ==
  PipeTypeOK /\ PlaceOK /\ LinesOK /\ EventsOK /\ ArrivedOK /\ ContentOK /\ EndOK

\* The kinds of tasks differ, and a task has the fields of its kind.
LEMMA TaskFacts ==
  ASSUME NEW t \in Task
  PROVE  /\ t.kind \in {"copy", "event", "wait"} /\ Rank(t) \in Nat
         /\ t.kind = "copy" => t.buf \in Buffers /\ t.chunk \in Nat
         /\ t.kind = "event" => t.ev \in Nat
         /\ t.kind = "wait" => t = WaitTask
BY DEF Task, Rank, WaitTask

LEMMA LinesTyped ==
  ASSUME PipeTypeOK
  PROVE  /\ Lines \in [Queues -> Seq(Task)]
         /\ \A q \in Queues : Len(Lines[q]) \in Nat
         /\ \A q \in Queues : \A i \in 1 .. Len(Lines[q]) : Lines[q][i] \in Task
<1>1. Lines \in [Queues -> Seq(Task)]
  BY ConcatProperties DEF PipeTypeOK, Lines, Pending
<1>2. ASSUME NEW q \in Queues
      PROVE  Len(Lines[q]) \in Nat /\ \A i \in 1 .. Len(Lines[q]) : Lines[q][i] \in Task
  <2>1. Lines[q] \in Seq(Task)
    BY <1>1
  <2>. QED
    BY <2>1, LenProperties, ElementOfSeq
<1>. QED
  BY <1>1, <1>2

\* A queue without a running task has its waiting tasks, one with a running
\* task has that one in front.
LEMMA QueueFront ==
  ASSUME PipeTypeOK, NEW q \in Queues
  PROVE  /\ executing[q] = <<>> => Lines[q] = tasks[q]
         /\ executing[q] # <<>> => /\ executing[q] = <<executing[q][1]>> /\ executing[q][1] \in Task
                                   /\ Lines[q] = <<executing[q][1]>> \o tasks[q]
                                   /\ Lines[q] # <<>> /\ Lines[q][1] = executing[q][1]
                                   /\ Tail(Lines[q]) = tasks[q]
<1>1. tasks[q] \in Seq(Task) /\ executing[q] \in Seq(Task) /\ Len(executing[q]) <= 1
  BY DEF PipeTypeOK
<1>2. Lines[q] = executing[q] \o tasks[q]
  BY DEF Lines, Pending
<1>3. CASE executing[q] = <<>>
  BY <1>1, <1>2, <1>3, ConcatEmptySeq
<1>4. CASE executing[q] # <<>>
  <2>1. Len(executing[q]) = 1
    <3>1. PICK e \in Seq(Task) : e = executing[q]
      BY <1>1
    <3>2. PICK n \in Nat : n = Len(e)
      OBVIOUS
    <3>3. n <= 1
      BY <1>1, <3>1, <3>2
    <3>4. n # 0
      BY <1>4, <3>1, <3>2, EmptySeq
    <3>5. n = 1
      BY <3>3, <3>4
    <3>. QED
      BY <3>1, <3>2, <3>5
  <2>2. executing[q] = <<executing[q][1]>> /\ executing[q][1] \in Task
    BY <1>1, <2>1
  <2>3. PICK t \in Task : t = executing[q][1]
    BY <2>2
  <2>4. PICK s \in Seq(Task) : s = tasks[q]
    BY <1>1
  <2>5. <<t>> \o s # <<>> /\ (<<t>> \o s)[1] = t
    OBVIOUS
  <2>6. Tail(<<t>> \o s) = s
    OBVIOUS
  <2>7. Lines[q] = <<t>> \o s
    BY <1>2, <2>2, <2>3, <2>4
  <2>. QED
    BY <1>4, <2>2, <2>3, <2>4, <2>5, <2>6, <2>7
<1>. QED
  BY <1>3, <1>4

\* What each kind of step does to the queues.
LEMMA LinesStay ==
  ASSUME UNCHANGED <<tasks, executing>>
  PROVE  Lines' = Lines
BY DEF Lines, Pending

LEMMA LinesBegin ==
  ASSUME PipeTypeOK, NEW q \in Queues, TaskStart(q)
  PROVE  Lines' = Lines
<1>1. /\ tasks[q] \in Seq(Task) /\ tasks[q] # <<>> /\ executing[q] = <<>>
      /\ executing' = [executing EXCEPT ![q] = <<Head(tasks[q])>>]
      /\ tasks' = [tasks EXCEPT ![q] = Tail(tasks[q])]
      /\ tasks \in [Queues -> Seq(Task)] /\ executing \in [Queues -> Seq(Task)]
  BY DEF PipeTypeOK, TaskStart
<1>2. ASSUME NEW r \in Queues
      PROVE  executing'[r] \o tasks'[r] = executing[r] \o tasks[r]
  <2>1. CASE r = q
    <3>1. executing'[r] = <<Head(tasks[q])>> /\ tasks'[r] = Tail(tasks[q])
      BY <1>1, <2>1
    <3>2. PICK s \in Seq(Task) : s = tasks[q]
      BY <1>1
    <3>3. <<Head(s)>> \o Tail(s) = s
      BY <1>1, <3>2
    <3>4. <<>> \o s = s
      BY <3>2, ConcatEmptySeq
    <3>. QED
      BY <1>1, <2>1, <3>1, <3>2, <3>3, <3>4
  <2>2. CASE r # q
    BY <1>1, <2>2
  <2>. QED
    BY <2>1, <2>2
<1>. QED
  BY <1>2 DEF Lines, Pending

LEMMA LinesEnqueue ==
  ASSUME PipeTypeOK, NEW q \in Queues, NEW t \in Task, Enqueue(q, t), UNCHANGED executing
  PROVE  Lines' = [Lines EXCEPT ![q] = Append(Lines[q], t)]
<1>1. /\ tasks \in [Queues -> Seq(Task)] /\ executing \in [Queues -> Seq(Task)]
      /\ tasks' = [tasks EXCEPT ![q] = Append(tasks[q], t)]
  BY DEF PipeTypeOK, Enqueue
<1>2. ASSUME NEW r \in Queues
      PROVE  executing'[r] \o tasks'[r] = IF r = q THEN Append(executing[r] \o tasks[r], t)
                                          ELSE executing[r] \o tasks[r]
  <2>1. PICK e \in Seq(Task), s \in Seq(Task) : e = executing[r] /\ s = tasks[r]
    BY <1>1
  <2>2. e \o Append(s, t) = Append(e \o s, t)
    OBVIOUS
  <2>. QED
    BY <1>1, <2>1, <2>2
<1>. QED
  BY <1>2 DEF Lines, Pending

LEMMA LinesFinish ==
  ASSUME PipeTypeOK, NEW q \in Queues, TaskFinish(q)
  PROVE  Lines' = [Lines EXCEPT ![q] = Tail(Lines[q])]
<1>1. /\ executing[q] # <<>> /\ executing' = [executing EXCEPT ![q] = <<>>] /\ tasks' = tasks
      /\ tasks \in [Queues -> Seq(Task)] /\ executing \in [Queues -> Seq(Task)]
  BY DEF PipeTypeOK, TaskFinish
<1>2. Tail(Lines[q]) = tasks[q]
  BY <1>1, QueueFront
<1>3. <<>> \o tasks[q] = tasks[q]
  BY <1>1, ConcatEmptySeq
<1>. QED
  BY <1>1, <1>2, <1>3 DEF Lines, Pending

\* The windows of a call, its slots and the ring.
LEMMA Shape ==
  /\ Newest \in Nat \ {0} /\ Chunks = 1 .. Newest /\ Cardinality(Chunks) = Newest
  /\ ActiveSlots \in 1 .. NumBuffers /\ 0 \in Buffers
  /\ Queues \subseteq Nat /\ NumQueues \in Nat \ {0} /\ NumBuffers \in Nat \ {0}
  /\ \A c \in Int : Slot(c) \in Buffers /\ (c - 1) % NumQueues \in Queues
<1>1. Newest \in Nat \ {0} /\ Chunks = 1 .. Newest
  <2>1. CASE api = "forward"
    BY <2>1 DEF Newest, Chunks
  <2>2. CASE api # "forward"
    BY <2>2, PipelineConstants DEF Newest, Chunks
  <2>. QED
    BY <2>1, <2>2
<1>2. Cardinality(Chunks) = Newest
  BY <1>1, FS_Interval
<1>3. /\ ActiveSlots \in 1 .. NumBuffers /\ 0 \in Buffers
      /\ Queues \subseteq Nat /\ NumQueues \in Nat \ {0} /\ NumBuffers \in Nat \ {0}
  BY PipelineConstants, BackendConstants DEF ActiveSlots, Buffers, Queues
<1>4. \A c \in Int : Slot(c) \in Buffers /\ (c - 1) % NumQueues \in Queues
  BY <1>3 DEF Slot, Buffers, Queues
<1>. QED
  BY <1>1, <1>2, <1>3, <1>4

\* Division with remainder, and that it has one result.
LEMMA Remainder ==
  ASSUME NEW x \in Nat, NEW n \in Nat \ {0}
  PROVE  x % n \in 0 .. n - 1 /\ x \div n \in Nat /\ x = (n * (x \div n)) + (x % n)
OBVIOUS

LEMMA NotBefore ==
  ASSUME NEW n \in Nat \ {0}, NEW a \in Nat, NEW b \in Nat, NEW r \in 0 .. n - 1,
         NEW s \in 0 .. n - 1, (n * a) + r = (n * b) + s
  PROVE  ~(a < b)
<1> SUFFICES ASSUME a < b PROVE FALSE
  OBVIOUS
<1>1. PICK d \in Nat \ {0} : b = a + d
  <2>1. b - a \in Nat \ {0} /\ b = a + (b - a)
    OBVIOUS
  <2>. QED
    BY <2>1
<1>2. n * b = (n * a) + (n * d)
  BY <1>1
<1>3. n * d >= n /\ n * a \in Nat /\ n * d \in Nat
  OBVIOUS
<1>. QED
  BY <1>2, <1>3

LEMMA OneRemainder ==
  ASSUME NEW n \in Nat \ {0}, NEW a \in Nat, NEW b \in Nat, NEW r \in 0 .. n - 1,
         NEW s \in 0 .. n - 1, (n * a) + r = (n * b) + s
  PROVE  a = b /\ r = s
<1>1. ~(a < b) /\ ~(b < a)
  BY NotBefore
<1>2. n * a \in Nat /\ n * b \in Nat
  OBVIOUS
<1>. QED
  BY <1>1, <1>2

\* A turn of the ring, and the slots of less than a ring of windows.
LEMMA SlotNext ==
  ASSUME NEW c \in Nat \ {0}, NEW b \in Nat, b = Slot(c)
  PROVE  (b + 1) % NumBuffers = Slot(c + 1)
<1> DEFINE n == NumBuffers
<1>1. n \in Nat \ {0} /\ c - 1 \in Nat /\ c \in Nat /\ b + 1 \in Nat
  BY PipelineConstants
<1>2. PICK d \in Nat : c - 1 = (n * d) + b /\ b \in 0 .. n - 1
  <2>1. b = (c - 1) % n
    BY DEF Slot
  <2>. QED
    BY <1>1, <2>1, Remainder
<1>3. PICK e \in Nat, r \in 0 .. n - 1 : c = (n * e) + r /\ r = c % n
  BY <1>1, Remainder
<1>4. PICK f \in Nat, s \in 0 .. n - 1 : b + 1 = (n * f) + s /\ s = (b + 1) % n
  BY <1>1, Remainder
<1> HIDE DEF n
<1>5. c = (n * (d + f)) + s
  <2>1. n * (d + f) = (n * d) + (n * f) /\ n * d \in Nat /\ n * f \in Nat
    BY <1>1
  <2>. QED
    BY <1>1, <1>2, <1>4, <2>1
<1>6. s = r
  <2>1. PICK g \in Nat : g = d + f
    OBVIOUS
  <2>2. (n * g) + s = (n * e) + r
    BY <1>3, <1>5, <2>1
  <2>. QED
    BY <1>1, <2>2, OneRemainder
<1>7. c + 1 - 1 = c
  BY <1>1
<1>. QED
  BY <1>3, <1>4, <1>6, <1>7 DEF Slot, n

LEMMA SlotsDiffer ==
  ASSUME NEW c \in Nat \ {0}, NEW d \in Nat \ {0}, c < d, d < c + NumBuffers
  PROVE  Slot(c) # Slot(d)
<1> SUFFICES ASSUME Slot(c) = Slot(d) PROVE FALSE
  OBVIOUS
<1> DEFINE n == NumBuffers
<1>1. n \in Nat \ {0} /\ c - 1 \in Nat /\ d - 1 \in Nat /\ d < c + n
  BY PipelineConstants
<1>2. PICK a \in Nat, r \in 0 .. n - 1 : c - 1 = (n * a) + r /\ r = Slot(c)
  BY <1>1, Remainder DEF Slot
<1>3. PICK b \in Nat : d - 1 = (n * b) + r
  <2>1. PICK b \in Nat, s \in 0 .. n - 1 : d - 1 = (n * b) + s /\ s = Slot(d)
    BY <1>1, Remainder DEF Slot
  <2>. QED
    BY <1>2, <2>1
<1> HIDE DEF n
<1>4. n * a \in Nat /\ n * b \in Nat
  BY <1>1
<1>5. a < b
  <2> SUFFICES ASSUME b <= a PROVE FALSE
    OBVIOUS
  <2>1. n * b <= n * a
    BY <1>1
  <2>. QED
    BY <1>1, <1>2, <1>3, <1>4, <2>1
<1>6. n * b >= (n * a) + n
  <2>1. PICK e \in Nat : b = (a + 1) + e
    <3>1. b - (a + 1) \in Nat /\ b = (a + 1) + (b - (a + 1))
      BY <1>5
    <3>. QED
      BY <3>1
  <2>2. n * b = (n * (a + 1)) + (n * e) /\ n * (a + 1) = (n * a) + n /\ n * e \in Nat
    BY <1>1, <2>1
  <2>. QED
    BY <1>1, <1>4, <2>2
<1>. QED
  BY <1>1, <1>2, <1>3, <1>4, <1>6

\* What a step leaves alone when it leaves the entry point, or the queues.
LEMMA SameCall ==
  ASSUME api' = api
  PROVE  /\ Newest' = Newest /\ Chunks' = Chunks /\ ActiveSlots' = ActiveSlots
         /\ ToDevice' = ToDevice /\ Owned' = Owned
BY DEF Newest, Chunks, ActiveSlots, ToDevice, Owned

LEMMA SameFlights ==
  ASSUME Lines' = Lines
  PROVE  \A c : Flying(c)' <=> Flying(c)
BY DEF Flying

LEMMA StartKeeps ==
  ASSUME PipelineInv, Start
  PROVE  PipelineInv'
<1>1. /\ UNCHANGED <<tasks, executing, live, done, nextEvent, api, ordered, produced, k, next, events,
                     pending, missing, staging, reading, dst, arrived, completion, error, result, storage>>
      /\ pc = "start"
      /\ \/ UNCHANGED failed /\ pc' = (IF ordered THEN "order" ELSE "acquire")
         \/ failed' = TRUE /\ pc' = "guard"
  BY DEF Start, callVars, poolVars
<1>2. /\ Lines' = Lines /\ \A c : Flying(c)' <=> Flying(c)
  BY <1>1, LinesStay, SameFlights
<1>3. /\ Newest' = Newest /\ Chunks' = Chunks /\ ToDevice' = ToDevice /\ Owned' = Owned
  BY <1>1, SameCall
<1>4. PipeTypeOK /\ PlaceOK /\ LinesOK /\ EventsOK /\ ArrivedOK /\ ContentOK /\ EndOK
  BY DEF PipelineInv
<1>5. PipeTypeOK'
  BY <1>1, <1>3, <1>4 DEF PipeTypeOK, Places, Opening, Ending
<1>6. PlaceOK'
  <2>1. CASE UNCHANGED failed /\ pc' = (IF ordered THEN "order" ELSE "acquire")
    BY <1>1, <1>3, <1>4, <2>1, Shape DEF PlaceOK, Opening, Loading, Ending
  <2>2. CASE failed' = TRUE /\ pc' = "guard"
    BY <1>1, <1>3, <1>4, <2>2, Shape DEF PlaceOK, Opening, Loading, Ending
  <2>. QED
    BY <1>1, <2>1, <2>2
<1>7. LinesOK'
  BY <1>1, <1>2, <1>3, <1>4 DEF LinesOK, PlaceOK, Opening, Loading, Ending
<1>8. EventsOK'
  BY <1>1, <1>2, <1>3, <1>4 DEF EventsOK, Loading
<1>9. ArrivedOK'
  <2>1. Len(arrived) \in Nat /\ k = 1 /\ Len(arrived) < k /\ NumBuffers \in Nat \ {0}
    BY <1>1, <1>4, Shape DEF ArrivedOK, PlaceOK, Opening, PipeTypeOK
  <2>2. Len(arrived) < NumBuffers
    BY <2>1
  <2>. QED
    BY <1>1, <1>2, <1>3, <1>4, <2>2 DEF ArrivedOK, First, Opening, Ending
<1>10. ContentOK'
  BY <1>1, <1>2, <1>3, <1>4 DEF ContentOK, Landed, First, Ending, PlaceOK
<1>11. EndOK'
  BY <1>1, <1>2, <1>3, <1>4 DEF EndOK
<1>. QED
  BY <1>5, <1>6, <1>7, <1>8, <1>9, <1>10, <1>11 DEF PipelineInv

LEMMA FillKeeps ==
  ASSUME PipelineInv, Fill
  PROVE  PipelineInv'
<1>1. /\ UNCHANGED <<backendVars, api, ordered, produced, k, next, events, pending, missing, reading,
                     dst, arrived, completion, error, result, storage>>
      /\ pc = "fill" /\ pc' = "gather" /\ staging' = [staging EXCEPT ![next] = -k]
  BY DEF Fill, callVars, poolVars
<1>2. /\ Lines' = Lines /\ \A c : Flying(c)' <=> Flying(c)
  BY <1>1, LinesStay, SameFlights DEF backendVars
<1>3. /\ Newest' = Newest /\ Chunks' = Chunks /\ ToDevice' = ToDevice /\ Owned' = Owned
  BY <1>1, SameCall
<1>4. PipeTypeOK /\ PlaceOK /\ LinesOK /\ EventsOK /\ ArrivedOK /\ ContentOK /\ EndOK
  BY DEF PipelineInv
<1>5. PipeTypeOK'
  <2>1. staging \in [Buffers -> Int] /\ -k \in Int
    BY <1>4 DEF PipeTypeOK
  <2>2. staging' \in [Buffers -> Int]
    BY <1>1, <2>1
  <2>. QED
    BY <1>1, <1>3, <1>4, <2>2 DEF PipeTypeOK, Places, Loading, backendVars
<1>6. PlaceOK'
  BY <1>1, <1>3, <1>4 DEF PlaceOK, Opening, Loading, Ending, backendVars
<1>7. LinesOK'
  BY <1>1, <1>2, <1>3, <1>4 DEF LinesOK, Opening, Loading, Ending, backendVars
<1>8. EventsOK'
  BY <1>1, <1>2, <1>3, <1>4 DEF EventsOK, Loading, backendVars
<1>9. ArrivedOK'
  BY <1>1, <1>2, <1>3, <1>4 DEF ArrivedOK, First, Opening, Ending, PlaceOK, ToDevice, backendVars
<1>10. ContentOK'
  <2>1. ToDevice
    BY <1>1, <1>4 DEF PlaceOK
  <2>2. \A q \in Queues : \A i \in 1 .. Len(Lines[q]) :
          Lines[q][i].kind = "copy" => Lines[q][i].buf # next /\ Lines[q][i].buf \in Buffers
    BY <1>1, <1>4, LinesTyped, TaskFacts DEF LinesOK, Loading
  <2>. QED
    BY <1>1, <1>2, <1>3, <1>4, <2>1, <2>2 DEF ContentOK, Landed, First, Ending, PipeTypeOK, backendVars
<1>11. EndOK'
  BY <1>1, <1>2, <1>3, <1>4 DEF EndOK, backendVars
<1>. QED
  BY <1>5, <1>6, <1>7, <1>8, <1>9, <1>10, <1>11 DEF PipelineInv

LEMMA GatherKeeps ==
  ASSUME PipelineInv, Gather
  PROVE  PipelineInv'
<1>1. /\ UNCHANGED <<backendVars, api, ordered, produced, k, next, events, pending, missing, reading,
                     dst, arrived, completion, error, result, storage>>
      /\ pc = "gather" /\ pc' = "submit" /\ staging' = [staging EXCEPT ![next] = k]
  BY DEF Gather, callVars, poolVars
<1>2. /\ Lines' = Lines /\ \A c : Flying(c)' <=> Flying(c)
  BY <1>1, LinesStay, SameFlights DEF backendVars
<1>3. /\ Newest' = Newest /\ Chunks' = Chunks /\ ToDevice' = ToDevice /\ Owned' = Owned
  BY <1>1, SameCall
<1>4. PipeTypeOK /\ PlaceOK /\ LinesOK /\ EventsOK /\ ArrivedOK /\ ContentOK /\ EndOK
  BY DEF PipelineInv
<1>5. ToDevice /\ api # "inverse" /\ next \in Buffers
  BY <1>1, <1>4 DEF PlaceOK, PipeTypeOK, ToDevice, Loading, Buffers
<1>6. PipeTypeOK'
  <2>1. staging \in [Buffers -> Int] /\ k \in Int
    BY <1>4 DEF PipeTypeOK
  <2>2. staging' \in [Buffers -> Int]
    BY <1>1, <2>1
  <2>. QED
    BY <1>1, <1>3, <1>4, <2>2 DEF PipeTypeOK, Places, Loading, backendVars
<1>7. PlaceOK'
  BY <1>1, <1>3, <1>4 DEF PlaceOK, Opening, Loading, Ending, backendVars
<1>8. LinesOK'
  BY <1>1, <1>2, <1>3, <1>4 DEF LinesOK, Opening, Loading, Ending, backendVars
<1>9. EventsOK'
  BY <1>1, <1>2, <1>3, <1>4 DEF EventsOK, Loading, backendVars
<1>10. ArrivedOK'
  <2>1. Len(arrived) < NumBuffers
    BY <1>4, <1>5, Shape, EmptySeq DEF ArrivedOK
  <2>. QED
    BY <1>1, <1>2, <1>3, <1>4, <1>5, <2>1 DEF ArrivedOK, First, Opening, Ending, backendVars
<1>11. ContentOK'
  <2>1. \A q \in Queues : \A i \in 1 .. Len(Lines[q]) :
          Lines[q][i].kind = "copy" => Lines[q][i].buf # next /\ Lines[q][i].buf \in Buffers
    BY <1>1, <1>4, LinesTyped, TaskFacts DEF LinesOK, Loading
  <2>. QED
    BY <1>1, <1>2, <1>3, <1>4, <1>5, <2>1 DEF ContentOK, Landed, First, Ending, PipeTypeOK, backendVars
<1>12. EndOK'
  BY <1>1, <1>2, <1>3, <1>4 DEF EndOK, backendVars
<1>. QED
  BY <1>6, <1>7, <1>8, <1>9, <1>10, <1>11, <1>12 DEF PipelineInv

\* The copy takes its source when it starts.
LEMMA BeginKeeps ==
  ASSUME PipelineInv, NEW q \in Queues, Begin(q)
  PROVE  PipelineInv'
<1>1. /\ UNCHANGED <<live, done, nextEvent, failed, api, pc, ordered, produced, k, next, events, pending,
                     missing, staging, dst, arrived, completion, error, result, storage>>
      /\ TaskStart(q)
  BY DEF Begin, TaskStart, callVars, poolVars
<1>2. PipeTypeOK /\ PlaceOK /\ LinesOK /\ EventsOK /\ ArrivedOK /\ ContentOK /\ EndOK
  BY DEF PipelineInv
<1>3. /\ Lines' = Lines /\ \A c : Flying(c)' <=> Flying(c)
  BY <1>1, <1>2, LinesBegin, SameFlights
<1>4. /\ Newest' = Newest /\ Chunks' = Chunks /\ ToDevice' = ToDevice /\ Owned' = Owned
  BY <1>1, SameCall
<1>5. PICK s \in Seq(Task) : s = tasks[q] /\ s # <<>> /\ executing[q] = <<>> /\ Lines[q] = s
  BY <1>1, <1>2, QueueFront DEF TaskStart, PipeTypeOK
<1>6. PICK t \in Task : t = Head(s) /\ t = Lines[q][1] /\ 1 \in 1 .. Len(Lines[q])
  BY <1>5
<1>7. /\ tasks' = [tasks EXCEPT ![q] = Tail(s)] /\ executing' = [executing EXCEPT ![q] = <<t>>]
      /\ reading' = [reading EXCEPT ![q] = IF t.kind # "copy" THEN 0
                                           ELSE IF ToDevice THEN staging[t.buf] ELSE t.chunk]
  BY <1>1, <1>5, <1>6 DEF Begin, TaskStart
<1>8. PipeTypeOK'
  <2>1. /\ tasks \in [Queues -> Seq(Task)] /\ executing \in [Queues -> Seq(Task)]
        /\ reading \in [Queues -> Int] /\ staging \in [Buffers -> Int]
        /\ \A r \in Queues : Len(executing[r]) <= 1
    BY <1>2 DEF PipeTypeOK
  <2>2. Tail(s) \in Seq(Task) /\ <<t>> \in Seq(Task) /\ Len(<<t>>) <= 1
    BY <1>5
  <2>3. /\ tasks' \in [Queues -> Seq(Task)] /\ executing' \in [Queues -> Seq(Task)]
        /\ \A r \in Queues : Len(executing'[r]) <= 1
    BY <1>7, <2>1, <2>2
  <2>4. reading' \in [Queues -> Int]
    BY <1>7, <2>1, TaskFacts
  <2>. QED
    BY <1>1, <1>2, <1>4, <2>3, <2>4 DEF PipeTypeOK
<1>9. PlaceOK'
  BY <1>1, <1>2, <1>4 DEF PlaceOK
<1>10. LinesOK'
  BY <1>1, <1>2, <1>3, <1>4 DEF LinesOK
<1>11. EventsOK'
  BY <1>1, <1>2, <1>3, <1>4 DEF EventsOK
<1>12. ArrivedOK'
  BY <1>1, <1>2, <1>3, <1>4 DEF ArrivedOK, First
<1>13. ContentOK'
  <2>1. ASSUME NEW r \in Queues, executing'[r] # <<>>, executing'[r][1].kind = "copy"
        PROVE  reading'[r] = executing'[r][1].chunk
    <3>1. CASE r = q
      <4>1. executing'[r][1] = t /\ t.kind = "copy"
        BY <1>2, <1>7, <2>1, <3>1 DEF PipeTypeOK
      <4>2. ToDevice => staging[t.buf] = t.chunk
        BY <1>2, <1>6, <4>1 DEF ContentOK
      <4>. QED
        BY <1>2, <1>7, <3>1, <4>1, <4>2 DEF PipeTypeOK
    <3>2. CASE r # q
      BY <1>2, <1>7, <2>1, <3>2 DEF PipeTypeOK, ContentOK
    <3>. QED
      BY <3>1, <3>2
  <2>. QED
    BY <1>1, <1>2, <1>3, <1>4, <2>1 DEF ContentOK, Landed, First
<1>14. EndOK'
  BY <1>1, <1>2, <1>3, <1>4 DEF EndOK
<1>. QED
  BY <1>8, <1>9, <1>10, <1>11, <1>12, <1>13, <1>14 DEF PipelineInv

\* The caller's stream ends.
LEMMA ProduceKeeps ==
  ASSUME PipelineInv, Produce
  PROVE  PipelineInv'
<1>1. /\ UNCHANGED <<backendVars, api, pc, ordered, k, next, events, pending, missing, staging, reading,
                     dst, arrived, completion, error, result, storage>>
      /\ produced' = TRUE
  BY DEF Produce, callVars, poolVars
<1>2. /\ Lines' = Lines /\ \A c : Flying(c)' <=> Flying(c)
  BY <1>1, LinesStay, SameFlights DEF backendVars
<1>3. /\ Newest' = Newest /\ Chunks' = Chunks /\ ToDevice' = ToDevice /\ Owned' = Owned
  BY <1>1, SameCall
<1>4. PipeTypeOK'
  BY <1>1, <1>2, <1>3 DEF PipelineInv, PipeTypeOK, backendVars
<1>5. PlaceOK'
  BY <1>1, <1>2, <1>3 DEF PipelineInv, PlaceOK, backendVars
<1>6. LinesOK'
  BY <1>1, <1>2, <1>3 DEF PipelineInv, LinesOK, backendVars
<1>7. EventsOK'
  BY <1>1, <1>2, <1>3 DEF PipelineInv, EventsOK, backendVars
<1>8. ArrivedOK'
  BY <1>1, <1>2, <1>3 DEF PipelineInv, ArrivedOK, First, backendVars
<1>9. ContentOK'
  BY <1>1, <1>2, <1>3 DEF PipelineInv, ContentOK, First, Landed, backendVars
<1>10. EndOK'
  BY <1>1, <1>2, <1>3 DEF PipelineInv, EndOK, backendVars
<1>. QED
  BY <1>4, <1>5, <1>6, <1>7, <1>8, <1>9, <1>10 DEF PipelineInv

\* The rows of the one window of a download are gathered.
LEMMA GatherForwardKeeps ==
  ASSUME PipelineInv, GatherForward
  PROVE  PipelineInv'
<1>1. /\ UNCHANGED <<backendVars, api, ordered, produced, k, next, events, pending, missing, staging, reading,
                     arrived, error, result, storage>>
      /\ pc = "rowsForward" /\ pc' = "retire" /\ completion' = "Complete"
      /\ dst' = [dst EXCEPT ![1] = staging[0]]
  BY DEF GatherForward, callVars, poolVars
<1>2. /\ Lines' = Lines /\ \A c : Flying(c)' <=> Flying(c)
  BY <1>1, LinesStay, SameFlights DEF backendVars
<1>3. /\ Newest' = Newest /\ Chunks' = Chunks /\ ToDevice' = ToDevice /\ Owned' = Owned
  BY <1>1, SameCall
<1>4. PipeTypeOK /\ PlaceOK /\ LinesOK /\ EventsOK /\ ArrivedOK /\ ContentOK /\ EndOK
  BY DEF PipelineInv
<1>5. api = "forward" /\ ~ToDevice /\ Chunks = 1 .. 1 /\ staging[0] = 1
  BY <1>1, <1>4 DEF PlaceOK, ToDevice, Chunks, ContentOK
<1>6. PipeTypeOK'
  BY <1>1, <1>3, <1>4, <1>5 DEF PipeTypeOK, Places, Ending, backendVars
<1>7. PlaceOK'
  BY <1>1, <1>3, <1>4 DEF PlaceOK, Opening, Loading, Ending, backendVars
<1>8. LinesOK'
  BY <1>1, <1>2, <1>3, <1>4 DEF LinesOK, Opening, Loading, Ending, backendVars
<1>9. EventsOK'
  BY <1>1, <1>2, <1>3, <1>4 DEF EventsOK, Loading, backendVars
<1>10. ArrivedOK'
  BY <1>1, <1>2, <1>3, <1>4, <1>5 DEF ArrivedOK, First, Opening, Ending, backendVars
<1>11. ContentOK'
  BY <1>1, <1>2, <1>3, <1>4, <1>5 DEF ContentOK, Ending, backendVars
<1>12. EndOK'
  BY <1>1, <1>2, <1>3, <1>4, <1>5 DEF EndOK, PipeTypeOK, backendVars
<1>. QED
  BY <1>6, <1>7, <1>8, <1>9, <1>10, <1>11, <1>12 DEF PipelineInv

\* Every queue waits for the caller's stream, or the call fails.
LEMMA OrderKeeps ==
  ASSUME PipelineInv, Order
  PROVE  PipelineInv'
<1>1. /\ UNCHANGED <<executing, live, done, nextEvent, api, ordered, produced, k, next, events, pending, missing,
                     staging, reading, dst, arrived, error, result, storage>>
      /\ pc = "order" /\ completion' = "Unknown"
      /\ \/ waitStream(TRUE) /\ pc' = "acquire"
         \/ waitStream(FALSE) /\ pc' = "guard"
  BY DEF Order, waitStream, callVars, poolVars
<1>2. PipeTypeOK /\ PlaceOK /\ LinesOK /\ EventsOK /\ ArrivedOK /\ ContentOK /\ EndOK
  BY DEF PipelineInv
<1>3. /\ Newest' = Newest /\ Chunks' = Chunks /\ ToDevice' = ToDevice /\ Owned' = Owned
  BY <1>1, SameCall
<1>4. PICK n \in 0 .. NumQueues :
        /\ tasks' = [q \in Queues |-> IF q < n THEN Append(tasks[q], WaitTask) ELSE tasks[q]]
        /\ \/ failed' = FALSE /\ n = NumQueues /\ pc' = "acquire"
           \/ failed' = TRUE /\ pc' = "guard"
  BY <1>1 DEF waitStream
<1>5. ASSUME NEW q \in Queues
      PROVE  /\ executing[q] = <<>> /\ tasks[q] = <<>>
             /\ tasks'[q] \in {<<>>, <<WaitTask>>} /\ Lines'[q] = tasks'[q]
             /\ q < n => Lines'[q] = <<WaitTask>>
  <2>1. Lines[q] = <<>>
    BY <1>1, <1>2 DEF LinesOK, Opening
  <2>2. executing[q] = <<>> /\ tasks[q] = <<>>
    BY <1>2, <2>1, QueueFront
  <2>3. tasks'[q] = IF q < n THEN <<WaitTask>> ELSE <<>>
    <3>1. tasks'[q] = IF q < n THEN Append(tasks[q], WaitTask) ELSE tasks[q]
      BY <1>4
    <3>2. Append(<<>>, WaitTask) = <<WaitTask>>
      OBVIOUS
    <3>. QED
      BY <2>2, <3>1, <3>2
  <2>4. Lines'[q] = <<>> \o tasks'[q]
    BY <1>1, <2>2 DEF Lines, Pending
  <2>. QED
    BY <2>2, <2>3, <2>4
<1>6. WaitTask \in Task /\ WaitTask.kind = "wait"
  BY DEF Task, WaitTask
<1>7. /\ \A q \in Queues : \A i \in 1 .. Len(Lines'[q]) : i = 1 /\ Lines'[q][i] = WaitTask
      /\ \A c : ~Flying(c)'
  <2>1. ASSUME NEW q \in Queues, NEW i \in 1 .. Len(Lines'[q])
        PROVE  i = 1 /\ Lines'[q][i] = WaitTask
    <3>1. CASE Lines'[q] = <<>>
      BY <2>1, <3>1
    <3>2. CASE Lines'[q] = <<WaitTask>>
      BY <2>1, <3>2
    <3>. QED
      BY <1>5, <3>1, <3>2
  <2>. QED
    BY <1>6, <2>1 DEF Flying
<1>8. k = 1 /\ next = -1
  BY <1>1, <1>2 DEF PlaceOK, Opening
<1>9. PipeTypeOK'
  <2>1. tasks' \in [Queues -> Seq(Task)]
    <3>1. <<>> \in Seq(Task) /\ <<WaitTask>> \in Seq(Task)
      BY <1>6
    <3>2. \A q \in Queues : tasks'[q] \in Seq(Task)
      BY <1>5, <3>1
    <3>. QED
      BY <1>4, <3>2
  <2>. QED
    BY <1>1, <1>2, <1>3, <1>4, <2>1 DEF PipeTypeOK, Places, Ending
<1>10. PlaceOK'
  <2>1. CASE failed' = FALSE /\ pc' = "acquire"
    BY <1>1, <1>2, <1>3, <1>8, <2>1, Shape DEF PlaceOK, Opening, Loading, Ending
  <2>2. CASE failed' = TRUE /\ pc' = "guard"
    BY <1>1, <1>2, <1>3, <1>8, <2>2, Shape DEF PlaceOK, Opening, Loading, Ending
  <2>. QED
    BY <1>4, <2>1, <2>2
<1>11. LinesOK'
  <2>1. /\ \A q \in Queues : \A i, j \in 1 .. Len(Lines'[q]) : i < j => Rank(Lines'[q][i]) < Rank(Lines'[q][j])
        /\ \A q \in Queues : \A i \in 1 .. Len(Lines'[q]) :
             Lines'[q][i].kind # "copy" /\ Lines'[q][i].kind # "event"
    BY <1>6, <1>7
  <2>2. \A q \in Queues : Lines'[q] # <<>> => Lines'[q][1] = WaitTask
    BY <1>5
  <2>3. ASSUME pc' = "acquire", NEW q \in Queues
        PROVE  Lines'[q] # <<>>
    <3>1. q < n
      BY <1>4, <2>3 DEF Queues
    <3>2. <<WaitTask>> # <<>>
      OBVIOUS
    <3>. QED
      BY <1>5, <3>1, <3>2
  <2>4. pc' \notin Opening
    BY <1>4 DEF Opening
  <2>. QED
    BY <1>4, <2>1, <2>2, <2>3, <2>4 DEF LinesOK, Opening, Ending
<1>12. EventsOK'
  BY <1>1, <1>2, <1>3, <1>4, <1>7, <1>8 DEF EventsOK, Loading
<1>13. ArrivedOK'
  <2>1. Len(arrived) \in Nat /\ Len(arrived) < k /\ NumBuffers \in Nat \ {0}
    BY <1>1, <1>2, Shape DEF ArrivedOK, PipeTypeOK
  <2>2. Len(arrived) < NumBuffers
    BY <1>8, <2>1
  <2>. QED
    BY <1>1, <1>2, <1>3, <1>4, <1>7, <2>2 DEF ArrivedOK, First, Opening, Ending
<1>14. ContentOK'
  <2>1. First' \in Int /\ ~(First' <= 0)
    BY <1>1, <1>2, <1>8 DEF First, ArrivedOK, PipeTypeOK
  <2>2. \A q \in Queues : executing'[q] = <<>>
    BY <1>1, <1>5
  <2>. QED
    BY <1>1, <1>2, <1>3, <1>4, <1>6, <1>7, <1>8, <2>1, <2>2 DEF ContentOK
<1>15. EndOK'
  <2>1. Owned
    BY <1>1, <1>2 DEF PlaceOK
  <2>. QED
    BY <1>1, <1>2, <1>3, <1>4, <1>7, <2>1 DEF EndOK, Owned
<1>. QED
  BY <1>9, <1>10, <1>11, <1>12, <1>13, <1>14, <1>15 DEF PipelineInv

\* An event that is not waited for any more has its copy behind it.
LEMMA Waited ==
  ASSUME PipelineInv, NEW e \in Nat, ~failed, e # 0, e < k, e \in live => e \in done
  PROVE  e \in done /\ ~Flying(e)
BY DEF PipelineInv, EventsOK, PipeTypeOK

\* A buffer comes back only when no copy with it is on a queue.
LEMMA AcquireKeeps ==
  ASSUME PipelineInv, AcquireSlot
  PROVE  PipelineInv'
<1>1. /\ UNCHANGED <<executing, tasks, done, nextEvent, api, ordered, produced, k, pending, missing,
                     staging, reading, dst, arrived, completion, error, result, storage>>
      /\ pc = "acquire"
  BY DEF AcquireSlot, Acquire, waitEvent, callVars, poolVars
<1>2. PipeTypeOK /\ PlaceOK /\ LinesOK /\ EventsOK /\ ArrivedOK /\ ContentOK /\ EndOK
  BY DEF PipelineInv
<1>3. /\ Newest' = Newest /\ Chunks' = Chunks /\ ToDevice' = ToDevice /\ Owned' = Owned
  BY <1>1, SameCall
<1>4. /\ Lines' = Lines /\ \A c : Flying(c)' <=> Flying(c)
  BY <1>1, LinesStay, SameFlights
<1>5. next' \in Buffers /\ next' # -1
  <2>1. NextSlot \in Buffers
    <3>1. next + 1 \in Nat
      BY <1>2, Shape DEF PipeTypeOK
    <3>2. PICK n \in 1 .. NumBuffers : n = ActiveSlots
      BY Shape
    <3>3. n \in Nat \ {0} /\ NumBuffers \in Nat /\ n <= NumBuffers
      BY Shape
    <3>4. PICK m \in Nat : m = next + 1
      BY <3>1
    <3>5. m % n \in 0 .. n - 1
      BY <3>3, Remainder
    <3>6. NextSlot = m % n
      BY <3>2, <3>4 DEF NextSlot
    <3>7. m % n \in 0 .. NumBuffers - 1
      BY <3>3, <3>5
    <3>. QED
      BY <3>6, <3>7 DEF Buffers
  <2>2. next' \in {0, NextSlot}
    BY DEF AcquireSlot, Acquire
  <2>3. next' \in Buffers
    BY <2>1, <2>2, Shape
  <2>. QED
    BY <2>3, Shape DEF Buffers
<1>6. PICK e \in Nat : e = events[next']
  BY <1>2, <1>5 DEF PipeTypeOK
<1>7. /\ events' = [events EXCEPT ![next'] = 0]
      /\ live' \in {live, live \ {e}}
      /\ \/ /\ UNCHANGED failed /\ pc' = (IF ToDevice THEN "fill" ELSE "submit")
            /\ e # 0 => (e \in live => e \in done)
         \/ failed' = TRUE /\ pc' = "guard"
  <2>1. CASE api = "forward"
    <3>1. next' = 0 /\ pc' = "submit" /\ UNCHANGED <<live, failed, events>>
      BY <1>1, <2>1 DEF AcquireSlot
    <3>2. e = 0
      <4>1. k = 1 /\ \A b \in Buffers : events[b] < k /\ events[b] \in Nat
        BY <1>1, <1>2, <2>1 DEF PlaceOK, EventsOK, PipeTypeOK, Newest
      <4>. QED
        BY <1>5, <1>6, <4>1
    <3>3. events = [events EXCEPT ![next'] = 0]
      BY <1>2, <1>5, <1>6, <3>2 DEF PipeTypeOK
    <3>. QED
      BY <2>1, <3>1, <3>2, <3>3 DEF ToDevice
  <2>2. CASE api # "forward"
    <3>1. Acquire /\ pc' = IF failed' THEN "guard" ELSE IF ToDevice THEN "fill" ELSE "submit"
      BY <1>1, <2>2 DEF AcquireSlot
    <3>2. next' = NextSlot /\ events' = [events EXCEPT ![next'] = 0]
      BY <3>1 DEF Acquire
    <3>3. ~failed
      BY <1>1, <1>2 DEF PlaceOK, Ending
    <3>4. CASE e = 0
      <4>1. UNCHANGED <<live, failed>>
        BY <1>6, <3>1, <3>2, <3>4 DEF Acquire
      <4>. QED
        BY <3>1, <3>2, <3>3, <3>4, <4>1
    <3>5. CASE e # 0
      <4>1. waitEvent(e)
        BY <1>6, <3>1, <3>2, <3>5 DEF Acquire
      <4>2. live' = live \ {e} /\ (((e \in live => e \in done) /\ UNCHANGED failed) \/ failed' = TRUE)
        BY <4>1 DEF waitEvent, Fail
      <4>3. CASE (e \in live => e \in done) /\ UNCHANGED failed
        BY <3>1, <3>2, <3>3, <4>2, <4>3
      <4>4. CASE failed' = TRUE
        BY <3>1, <3>2, <4>2, <4>4
      <4>. QED
        BY <4>2, <4>3, <4>4
    <3>. QED
      BY <3>4, <3>5
  <2>. QED
    BY <2>1, <2>2
<1>8. pc' # "guard" => \A q \in Queues : \A i \in 1 .. Len(Lines[q]) :
        Lines[q][i].kind = "copy" => Lines[q][i].buf # next'
  <2> SUFFICES ASSUME pc' # "guard", NEW q \in Queues, NEW i \in 1 .. Len(Lines[q]),
                      Lines[q][i].kind = "copy", Lines[q][i].buf = next'
               PROVE  FALSE
    OBVIOUS
  <2>1. ~failed
    BY <1>1, <1>2 DEF PlaceOK, Ending
  <2>2. Lines[q][i].chunk < k /\ Lines[q][i].chunk \in 1 .. Newest
    BY <1>1, <1>2, <2>1 DEF LinesOK, Ending
  <2>3. events[next'] = Lines[q][i].chunk
    BY <1>2, <2>1, <2>2 DEF LinesOK
  <2>4. e # 0 /\ e < k /\ (e \in live => e \in done)
    BY <1>6, <1>7, <2>2, <2>3
  <2>5. ~Flying(e)
    BY <2>1, <2>4, Waited
  <2>. QED
    BY <1>6, <2>3, <2>5 DEF Flying
<1>9. PipeTypeOK'
  <2>1. events' \in [Buffers -> Nat] /\ live' \subseteq Nat /\ next' \in -1 .. NumBuffers - 1
    BY <1>2, <1>5, <1>7 DEF PipeTypeOK, Buffers
  <2>2. failed' \in BOOLEAN /\ pc' \in Places
    BY <1>2, <1>7 DEF PipeTypeOK, Places, Loading, Ending
  <2>. QED
    BY <1>1, <1>2, <1>3, <2>1, <2>2 DEF PipeTypeOK
<1>10. PlaceOK'
  <2>0. api = "forward" => next' = 0
    BY <1>1 DEF AcquireSlot
  <2>1. CASE UNCHANGED failed /\ pc' = (IF ToDevice THEN "fill" ELSE "submit")
    BY <1>1, <1>2, <1>3, <1>5, <2>0, <2>1 DEF PlaceOK, Opening, Loading, Ending
  <2>2. CASE failed' = TRUE /\ pc' = "guard"
    BY <1>1, <1>2, <1>3, <1>5, <2>0, <2>2 DEF PlaceOK, Opening, Loading, Ending
  <2>. QED
    BY <1>7, <2>1, <2>2
<1>11. LinesOK'
  <2>1. ASSUME NEW q \in Queues, NEW i \in 1 .. Len(Lines[q]), Lines[q][i].kind = "copy"
        PROVE  /\ Lines[q][i].chunk < k /\ Lines[q][i].chunk \in 1 .. Newest
               /\ ~failed' => events'[Lines[q][i].buf] = Lines[q][i].chunk
               /\ Lines[q][i].buf = next' => pc' \notin Loading
    <3>1. Lines[q][i].chunk < k /\ Lines[q][i].chunk \in 1 .. Newest
      BY <1>1, <1>2, <2>1 DEF LinesOK, Ending
    <3>2. ~failed /\ Lines[q][i].buf \in Buffers
      BY <1>1, <1>2, <2>1, LinesTyped, TaskFacts DEF PlaceOK, Ending
    <3>3. events[Lines[q][i].buf] = Lines[q][i].chunk
      BY <1>2, <2>1, <3>1, <3>2 DEF LinesOK
    <3>4. ~failed' => Lines[q][i].buf # next'
      BY <1>7, <1>8, <2>1, Shape DEF ToDevice
    <3>. QED
      BY <1>2, <1>7, <1>8, <2>1, <3>1, <3>2, <3>3, <3>4 DEF PipeTypeOK, Loading
  <2>2. pc' \notin Opening \cup {"acquire", "record"} /\ pc \notin Opening \cup Ending
    BY <1>1, <1>7 DEF Opening, Ending
  <2>. QED
    BY <1>1, <1>2, <1>3, <1>4, <2>1, <2>2 DEF LinesOK
<1>12. EventsOK'
  <2>1. ~failed /\ (~failed' => UNCHANGED failed /\ (e # 0 => (e \in live => e \in done)))
    BY <1>1, <1>2, <1>7 DEF PlaceOK, Ending
  <2>2. /\ \A x \in live' : x \in 1 .. k - 1
        /\ \A x \in done' : x \in 1 .. k - 1 /\ ~Flying(x)
    BY <1>1, <1>2, <1>7 DEF EventsOK
  <2>3. e # 0 => e \in 1 .. k - 1
    BY <1>2, <1>5, <1>6 DEF EventsOK, PipeTypeOK
  <2>4. e = 0 => e \notin live
    BY <1>2 DEF EventsOK
  <2>5. ~failed' => \A x \in 1 .. k - 1 : x \in live' \cup done'
    BY <1>1, <1>2, <1>7, <2>1, <2>3, <2>4 DEF EventsOK
  <2>6. ASSUME ~failed', NEW x \in live'
        PROVE  \E b \in Buffers : events'[b] = x
    <3>1. PICK b \in Buffers : events[b] = x
      BY <1>2, <1>7, <2>1, <2>6 DEF EventsOK
    <3>2. CASE b = next'
      <4>1. x = e /\ x \in live /\ e # 0
        BY <1>6, <1>7, <2>4, <2>6, <3>1, <3>2
      <4>2. UNCHANGED live
        BY <1>7, <2>6, <4>1
      <4>. QED
        BY <1>1, <1>2, <1>5, <1>6, <1>7, <2>1, <2>6, <3>1, <3>2, <4>1, <4>2 DEF AcquireSlot, Acquire, waitEvent
    <3>3. CASE b # next'
      BY <1>2, <1>7, <3>1, <3>3 DEF PipeTypeOK
    <3>. QED
      BY <3>2, <3>3
  <2>7. /\ \A b \in Buffers : events'[b] < k
        /\ events'[next'] = 0
    BY <1>2, <1>5, <1>7 DEF EventsOK, PipeTypeOK
  <2>. QED
    BY <1>1, <1>4, <2>2, <2>5, <2>6, <2>7 DEF EventsOK
<1>13. ArrivedOK'
  <2>1. api = "inverse" /\ pc' = "submit" => next' = Slot(k)
    <3> SUFFICES ASSUME api = "inverse" PROVE next' = Slot(k)
      OBVIOUS
    <3>1. next' = (next + 1) % ActiveSlots /\ ActiveSlots = NumBuffers
      BY <1>1 DEF AcquireSlot, Acquire, NextSlot, ActiveSlots
    <3>. QED
      BY <1>1, <1>2, <3>1 DEF ArrivedOK
  <2>2. pc' \in {"fill", "submit", "guard"} /\ \A x \in live' : x \in live
    BY <1>7
  <2>. QED
    BY <1>1, <1>2, <1>3, <1>4, <2>1, <2>2 DEF ArrivedOK, First, Opening, Ending
<1>14. ContentOK'
  <2>1. pc' \in {"fill", "submit", "guard"} /\ (pc' = "submit" => ~ToDevice)
    BY <1>7
  <2>. QED
    BY <1>1, <1>2, <1>3, <1>4, <2>1 DEF ContentOK, Landed, First, Ending
<1>15. EndOK'
  <2>1. pc' \in {"fill", "submit", "guard"}
    BY <1>7
  <2>. QED
    BY <1>1, <1>2, <1>3, <1>4, <2>1 DEF EndOK
<1>. QED
  BY <1>9, <1>10, <1>11, <1>12, <1>13, <1>14, <1>15 DEF PipelineInv

\* The tasks of a queue when one more is enqueued, and when one finished.
LEMMA Enqueued ==
  ASSUME PipeTypeOK, NEW q \in Queues, NEW t \in Task, Enqueue(q, t), UNCHANGED executing
  PROVE  /\ \A r \in Queues : \A i \in 1 .. Len(Lines'[r]) :
              \/ i \in 1 .. Len(Lines[r]) /\ Lines'[r][i] = Lines[r][i]
              \/ r = q /\ i = Len(Lines[q]) + 1 /\ Lines'[r][i] = t
         /\ \A r \in Queues : \A i \in 1 .. Len(Lines[r]) :
              i \in 1 .. Len(Lines'[r]) /\ Lines'[r][i] = Lines[r][i]
         /\ Len(Lines[q]) + 1 \in 1 .. Len(Lines'[q]) /\ Lines'[q][Len(Lines[q]) + 1] = t
         /\ \A r \in Queues : Lines[r] # <<>> => Lines'[r] # <<>> /\ Lines'[r][1] = Lines[r][1]
<1>1. Lines' = [Lines EXCEPT ![q] = Append(Lines[q], t)] /\ Lines \in [Queues -> Seq(Task)]
  BY LinesEnqueue, LinesTyped
<1>2. PICK L \in Seq(Task) : L = Lines[q]
  BY <1>1
<1>3. PICK n \in Nat : n = Len(L)
  OBVIOUS
<1>4. /\ Append(L, t) \in Seq(Task) /\ Len(Append(L, t)) = n + 1
      /\ \A i \in 1 .. n : Append(L, t)[i] = L[i]
      /\ Append(L, t)[n + 1] = t
  BY <1>3, AppendProperties
<1>5. Lines'[q] = Append(L, t) /\ \A r \in Queues : r # q => Lines'[r] = Lines[r]
  BY <1>1, <1>2
<1>6. ASSUME NEW r \in Queues, NEW i \in 1 .. Len(Lines'[r])
      PROVE  \/ i \in 1 .. Len(Lines[r]) /\ Lines'[r][i] = Lines[r][i]
             \/ r = q /\ i = Len(Lines[q]) + 1 /\ Lines'[r][i] = t
  BY <1>2, <1>3, <1>4, <1>5, <1>6
<1>7. ASSUME NEW r \in Queues, NEW i \in 1 .. Len(Lines[r])
      PROVE  i \in 1 .. Len(Lines'[r]) /\ Lines'[r][i] = Lines[r][i]
  BY <1>2, <1>3, <1>4, <1>5, <1>7
<1>8. Len(Lines[q]) + 1 \in 1 .. Len(Lines'[q]) /\ Lines'[q][Len(Lines[q]) + 1] = t
  BY <1>2, <1>3, <1>4, <1>5
<1>9. ASSUME NEW r \in Queues, Lines[r] # <<>>
      PROVE  Lines'[r] # <<>> /\ Lines'[r][1] = Lines[r][1]
  <2>1. CASE r = q
    <3>1. n # 0
      BY <1>2, <1>3, <1>9, <2>1, EmptySeq
    <3>2. Append(L, t) # <<>>
      <4>1. n + 1 # 0
        OBVIOUS
      <4>. QED
        BY <1>4, <4>1, EmptySeq
    <3>. QED
      BY <1>2, <1>4, <1>5, <2>1, <3>1, <3>2
  <2>2. CASE r # q
    BY <1>5, <1>9, <2>2
  <2>. QED
    BY <2>1, <2>2
<1>. QED
  BY <1>6, <1>7, <1>8, <1>9

LEMMA Finished ==
  ASSUME PipeTypeOK, NEW q \in Queues, TaskFinish(q)
  PROVE  /\ executing[q] # <<>> /\ Lines[q] # <<>> /\ executing[q][1] = Lines[q][1] /\ 1 \in 1 .. Len(Lines[q])
         /\ \A r \in Queues : r # q => Lines'[r] = Lines[r]
         /\ \A i \in 1 .. Len(Lines'[q]) : i + 1 \in 1 .. Len(Lines[q]) /\ Lines'[q][i] = Lines[q][i + 1]
         /\ \A i \in 1 .. Len(Lines[q]) : i # 1 => i - 1 \in 1 .. Len(Lines'[q]) /\ Lines'[q][i - 1] = Lines[q][i]
<1>1. Lines' = [Lines EXCEPT ![q] = Tail(Lines[q])] /\ Lines \in [Queues -> Seq(Task)]
  BY LinesFinish, LinesTyped
<1>2. executing[q] # <<>> /\ executing[q][1] = Lines[q][1] /\ Lines[q] # <<>>
  BY QueueFront DEF TaskFinish
<1>3. PICK L \in Seq(Task) : L = Lines[q] /\ L # <<>>
  BY <1>1, <1>2
<1>4. PICK n \in Nat : n = Len(L) /\ n # 0
  BY <1>3, EmptySeq
<1>5. /\ Tail(L) \in Seq(Task) /\ Len(Tail(L)) = n - 1
      /\ \A i \in 1 .. n - 1 : Tail(L)[i] = L[i + 1]
  BY <1>3, <1>4, HeadTailProperties
<1>6. Lines'[q] = Tail(L) /\ \A r \in Queues : r # q => Lines'[r] = Lines[r]
  BY <1>1, <1>3
<1>7. Len(Lines'[q]) = n - 1 /\ Len(Lines[q]) = n
  BY <1>3, <1>4, <1>5, <1>6
<1>8. ASSUME NEW i \in 1 .. Len(Lines'[q])
      PROVE  i + 1 \in 1 .. Len(Lines[q]) /\ Lines'[q][i] = Lines[q][i + 1]
  BY <1>3, <1>5, <1>6, <1>7, <1>8
<1>9. ASSUME NEW i \in 1 .. Len(Lines[q]), i # 1
      PROVE  i - 1 \in 1 .. Len(Lines'[q]) /\ Lines'[q][i - 1] = Lines[q][i]
  <2>1. i - 1 \in 1 .. n - 1 /\ i - 1 + 1 = i
    BY <1>7, <1>9
  <2>. QED
    BY <1>3, <1>5, <1>6, <1>7, <2>1
<1>. QED
  BY <1>2, <1>4, <1>6, <1>7, <1>8, <1>9

\* A copy is enqueued, or the submission fails with or without it.
LEMMA SubmitKeeps ==
  ASSUME PipelineInv, Submit
  PROVE  PipelineInv'
<1>1. /\ UNCHANGED <<executing, live, done, nextEvent, api, ordered, produced, k, next, events, missing,
                     staging, reading, dst, arrived, error, result, storage>>
      /\ pc = "submit" /\ pending' = TRUE
      /\ completion' = IF api = "inverse" THEN completion ELSE "Unknown"
      /\ pc' = IF failed' /\ api # "inverse" THEN "guard" ELSE "record"
  BY DEF Submit, copyAsync, callVars, poolVars
<1>2. PipeTypeOK /\ PlaceOK /\ LinesOK /\ EventsOK /\ ArrivedOK /\ ContentOK /\ EndOK
  BY DEF PipelineInv
<1>3. /\ Newest' = Newest /\ Chunks' = Chunks /\ ToDevice' = ToDevice /\ Owned' = Owned
  BY <1>1, SameCall
<1>4. PICK q0 \in Queues, t \in Task : q0 = (k - 1) % NumQueues /\ t = CopyTask(next, k)
  <2>1. CopyTask(next, k) \in Task
    BY <1>1, <1>2 DEF CopyTask, Task, PipeTypeOK, PlaceOK, Buffers, Loading
  <2>. QED
    BY <1>2, <2>1, Shape DEF PipeTypeOK
<1>5. t.kind = "copy" /\ t.buf = next /\ t.chunk = k /\ k \in 1 .. Newest /\ next \in Buffers
  BY <1>1, <1>2, <1>4, Shape DEF CopyTask, PlaceOK, Loading, PipeTypeOK, Buffers
<1>6. \/ Enqueue(q0, t) /\ failed' = FALSE
      \/ Enqueue(q0, t) /\ failed' = TRUE
      \/ UNCHANGED tasks /\ failed' = TRUE
  BY <1>4 DEF Submit, copyAsync, Fail
<1>7. /\ \A r \in Queues : \A i \in 1 .. Len(Lines'[r]) :
           \/ i \in 1 .. Len(Lines[r]) /\ Lines'[r][i] = Lines[r][i]
           \/ r = q0 /\ i = Len(Lines[q0]) + 1 /\ Lines'[r][i] = t
      /\ \A r \in Queues : \A i \in 1 .. Len(Lines[r]) :
           i \in 1 .. Len(Lines'[r]) /\ Lines'[r][i] = Lines[r][i]
      /\ \A r \in Queues : Lines[r] # <<>> => Lines'[r] # <<>> /\ Lines'[r][1] = Lines[r][1]
      /\ ~failed' => Flying(k)'
  <2>1. CASE Enqueue(q0, t)
    <3>1. Len(Lines[q0]) + 1 \in 1 .. Len(Lines'[q0]) /\ Lines'[q0][Len(Lines[q0]) + 1] = t
      BY <1>1, <1>2, <2>1, Enqueued
    <3>2. Flying(k)'
      BY <1>1, <1>5, <3>1 DEF Flying
    <3>. QED
      BY <1>1, <1>2, <2>1, <3>2, Enqueued
  <2>2. CASE UNCHANGED tasks /\ failed' = TRUE
    BY <1>1, <2>2, LinesStay
  <2>. QED
    BY <1>6, <2>1, <2>2
<1>8. /\ \A c : Flying(c) => Flying(c)'
      /\ \A c : c # k => (Flying(c)' => Flying(c))
  <2>1. ASSUME NEW c, Flying(c)
        PROVE  Flying(c)'
    <3>1. PICK r \in Queues : \E i \in 1 .. Len(Lines[r]) : Lines[r][i].kind = "copy" /\ Lines[r][i].chunk = c
      BY <2>1 DEF Flying
    <3>2. PICK i \in 1 .. Len(Lines[r]) : Lines[r][i].kind = "copy" /\ Lines[r][i].chunk = c
      BY <3>1
    <3>3. i \in 1 .. Len(Lines'[r]) /\ Lines'[r][i].kind = "copy" /\ Lines'[r][i].chunk = c
      BY <1>7, <3>2
    <3>. QED
      BY <3>3 DEF Flying
  <2>2. ASSUME NEW c, c # k, Flying(c)'
        PROVE  Flying(c)
    <3>1. PICK r \in Queues : \E i \in 1 .. Len(Lines'[r]) : Lines'[r][i].kind = "copy" /\ Lines'[r][i].chunk = c
      BY <2>2 DEF Flying
    <3>2. PICK i \in 1 .. Len(Lines'[r]) : Lines'[r][i].kind = "copy" /\ Lines'[r][i].chunk = c
      BY <3>1
    <3>3. i \in 1 .. Len(Lines[r]) /\ Lines[r][i].kind = "copy" /\ Lines[r][i].chunk = c
      BY <1>5, <1>7, <2>2, <3>2
    <3>. QED
      BY <3>3 DEF Flying
  <2>. QED
    BY <2>1, <2>2
<1>9. ~failed /\ failed' \in BOOLEAN /\ pc' \in {"guard", "record"} /\ (pc' = "record" /\ failed' => api = "inverse")
  BY <1>1, <1>2, <1>6 DEF PlaceOK, Loading, Ending
<1>10. PipeTypeOK'
  <2>1. tasks' \in [Queues -> Seq(Task)]
    <3>1. tasks \in [Queues -> Seq(Task)] /\ \A r \in Queues : Append(tasks[r], t) \in Seq(Task)
      BY <1>2 DEF PipeTypeOK
    <3>2. CASE Enqueue(q0, t)
      BY <3>1, <3>2 DEF Enqueue
    <3>. QED
      BY <1>6, <3>1, <3>2
  <2>2. pc' \in Places /\ completion' \in {"NotLaunched", "Unknown", "Complete"}
    BY <1>1, <1>2, <1>9 DEF PipeTypeOK, Places, Ending
  <2>. QED
    BY <1>1, <1>2, <1>3, <1>9, <2>1, <2>2 DEF PipeTypeOK
<1>11. PlaceOK'
  BY <1>1, <1>2, <1>3, <1>9 DEF PlaceOK, Opening, Loading, Ending
<1>12. \A r \in Queues : \A i \in 1 .. Len(Lines[r]) :
         /\ Rank(Lines[r][i]) < Rank(t)
         /\ Lines[r][i].kind = "copy" => Lines[r][i].chunk < k /\ Lines[r][i].chunk # k
  <2> SUFFICES ASSUME NEW r \in Queues, NEW i \in 1 .. Len(Lines[r])
               PROVE  /\ Rank(Lines[r][i]) < Rank(t)
                      /\ Lines[r][i].kind = "copy" => Lines[r][i].chunk < k /\ Lines[r][i].chunk # k
    OBVIOUS
  <2>1. PICK x \in Task : x = Lines[r][i]
    BY <1>2, LinesTyped
  <2>2. Rank(t) = 2 * k /\ k \in Nat \ {0}
    BY <1>2, <1>5 DEF Rank, PipeTypeOK
  <2>3. CASE x.kind = "copy"
    <3>1. x.chunk < k /\ x.chunk \in Nat /\ Rank(x) = 2 * x.chunk
      BY <1>1, <1>2, <2>1, <2>3, TaskFacts DEF LinesOK, Rank, Loading, Ending
    <3>. QED
      BY <2>1, <2>2, <3>1
  <2>4. CASE x.kind = "event"
    <3>1. x.ev \in 1 .. k - 1 /\ Rank(x) = 2 * x.ev + 1
      BY <1>2, <2>1, <2>4 DEF LinesOK, Rank
    <3>. QED
      BY <2>1, <2>2, <2>4, <3>1
  <2>5. CASE x.kind = "wait"
    BY <2>1, <2>2, <2>5 DEF Rank
  <2>. QED
    BY <2>1, <2>3, <2>4, <2>5, TaskFacts
<1>13. LinesOK'
  <2>1. ASSUME NEW r \in Queues, NEW i \in 1 .. Len(Lines'[r]), NEW j \in 1 .. Len(Lines'[r]), i < j
        PROVE  Rank(Lines'[r][i]) < Rank(Lines'[r][j])
    <3>1. i \in 1 .. Len(Lines[r]) /\ Lines'[r][i] = Lines[r][i]
      <4> SUFFICES ASSUME r = q0, i = Len(Lines[q0]) + 1 PROVE FALSE
        BY <1>7
      <4>1. j \in 1 .. Len(Lines[q0]) \/ j = Len(Lines[q0]) + 1
        BY <1>7
      <4>. QED
        BY <1>2, <2>1, <4>1, LinesTyped
    <3>2. CASE j \in 1 .. Len(Lines[r]) /\ Lines'[r][j] = Lines[r][j]
      BY <1>2, <2>1, <3>1, <3>2 DEF LinesOK
    <3>3. CASE Lines'[r][j] = t
      BY <1>12, <3>1, <3>3
    <3>. QED
      BY <1>7, <3>2, <3>3
  <2>2. ASSUME NEW r \in Queues, NEW i \in 1 .. Len(Lines'[r]), Lines'[r][i].kind = "copy"
        PROVE  LET x == Lines'[r][i] IN
               /\ x.chunk \in 1 .. Newest /\ r = (x.chunk - 1) % NumQueues
               /\ x.chunk < k \/ x.chunk = k
               /\ x.chunk < k /\ ~failed' => events[x.buf] = x.chunk
               /\ x.chunk = k /\ pc' = "record" => x.buf = next
               /\ ~ToDevice => x.buf = Slot(x.chunk)
    <3>1. CASE i \in 1 .. Len(Lines[r]) /\ Lines'[r][i] = Lines[r][i]
      BY <1>2, <1>9, <1>12, <2>2, <3>1 DEF LinesOK
    <3>2. CASE r = q0 /\ Lines'[r][i] = t
      <4>1. ~ToDevice => next = Slot(k)
        <5>1. CASE api = "inverse"
          BY <1>1, <1>2, <5>1 DEF ArrivedOK
        <5>2. CASE api = "forward"
          <6>1. k = 1 /\ next \in Nat
            BY <1>5, <5>2, Shape DEF Newest, Buffers
          <6>2. Slot(1) = 0
            BY PipelineConstants DEF Slot
          <6>. QED
            BY <1>1, <1>2, <5>2, <6>1, <6>2 DEF PlaceOK, Loading
        <5>. QED
          BY <1>2, <5>1, <5>2, PipelineConstants DEF PipeTypeOK, ToDevice
      <4>. QED
        BY <1>4, <1>5, <3>2, <4>1
    <3>. QED
      BY <1>7, <3>1, <3>2
  <2>3. ASSUME NEW r \in Queues, NEW i \in 1 .. Len(Lines'[r]), Lines'[r][i].kind = "event"
        PROVE  Lines'[r][i].ev \in 1 .. k - 1 /\ r = (Lines'[r][i].ev - 1) % NumQueues
    <3>1. CASE i \in 1 .. Len(Lines[r]) /\ Lines'[r][i] = Lines[r][i]
      <4>1. Lines[r][i].kind = "event" => Lines[r][i].ev \in 1 .. k - 1 /\ r = (Lines[r][i].ev - 1) % NumQueues
        BY <1>2, <3>1 DEF LinesOK
      <4>. QED
        BY <2>3, <3>1, <4>1
    <3>2. CASE Lines'[r][i] = t
      BY <1>4, <1>5, <2>3, <3>2
    <3>. QED
      BY <1>7, <3>1, <3>2
  <2>4. ASSUME ~produced, NEW r \in Queues
        PROVE  Lines'[r] # <<>> => Lines'[r][1] = WaitTask
    <3>1. Lines[r] # <<>> /\ Lines[r][1] = WaitTask
      BY <1>1, <1>2, <2>4 DEF LinesOK, Opening, Ending
    <3>. QED
      BY <1>7, <3>1
  <2>5. ~produced => \A r \in Queues : Lines'[r] # <<>>
    BY <1>1, <1>2, <1>7 DEF LinesOK, Opening, Ending
  <2>6. pc' \in {"record"} \cup Ending /\ pc' \notin Opening /\ pc' \notin Loading
    BY <1>9 DEF Opening, Ending, Loading
  <2>. QED
    BY <1>1, <1>3, <2>1, <2>2, <2>3, <2>4, <2>5, <2>6 DEF LinesOK
<1>14. EventsOK'
  BY <1>1, <1>2, <1>3, <1>8, <1>9 DEF EventsOK, Loading, PipeTypeOK
<1>15. ArrivedOK'
  <2>1. k \in Nat /\ Len(arrived) \in Nat /\ Len(arrived) < k
    BY <1>2 DEF ArrivedOK, PipeTypeOK
  <2>2. api = "inverse" => First \in 1 .. k
    BY <2>1 DEF First
  <2>3. First' = First /\ pc' \notin {"acquire", "submit", "scatter", "rows", "drain"}
    BY <1>1, <1>9 DEF First, Ending
  <2>4. api = "inverse" => /\ next = Slot(k) /\ ~missing
                           /\ \A e \in live : e >= First
                           /\ \A c \in 1 .. First - 1 : dst[c] = c /\ ~Flying(c) /\ c # k
    BY <1>1, <1>2, <2>1, <2>2 DEF ArrivedOK, Ending
  <2>5. api = "inverse" => \A c \in 1 .. First - 1 : ~Flying(c)'
    BY <1>8, <2>4
  <2>6. pc' \notin Opening
    BY <1>9 DEF Opening, Ending
  <2>. QED
    BY <1>1, <1>2, <1>3, <1>9, <2>1, <2>2, <2>3, <2>4, <2>5, <2>6, SMTT(30) DEF ArrivedOK
<1>16. ContentOK'
  <2>1. ToDevice => \A r \in Queues : \A i \in 1 .. Len(Lines'[r]) :
          Lines'[r][i].kind = "copy" => staging[Lines'[r][i].buf] = Lines'[r][i].chunk
    BY <1>1, <1>2, <1>5, <1>7 DEF ContentOK
  <2>2. pc' \notin Ending => \A c \in First .. k - 1 : Flying(c)' \/ Landed(c)
    BY <1>1, <1>2, <1>8 DEF ContentOK, Ending
  <2>. QED
    BY <1>1, <1>2, <1>3, <1>7, <1>9, <2>1, <2>2 DEF ContentOK, Landed, First
<1>17. EndOK'
  BY <1>1, <1>2, <1>3, <1>8, <1>9 DEF EndOK, ToDevice
<1>. QED
  BY <1>10, <1>11, <1>13, <1>14, <1>15, <1>16, <1>17 DEF PipelineInv

\* The event of a copy is recorded behind it, or the recording fails.
LEMMA RecordOkKeeps ==
  ASSUME PipelineInv, Record, recordOK((k - 1) % NumQueues)
  PROVE  PipelineInv'
<1>1. /\ UNCHANGED <<executing, done, failed, api, ordered, produced, next, staging, reading, dst,
                     completion, error, result, storage>>
      /\ pc = "record" /\ ~failed
      /\ live' = live \cup {nextEvent} /\ nextEvent' = nextEvent + 1
  BY DEF Record, recordOK, callVars
<1>2. PipeTypeOK /\ PlaceOK /\ LinesOK /\ EventsOK /\ ArrivedOK /\ ContentOK /\ EndOK
  BY DEF PipelineInv
<1>3. /\ Newest' = Newest /\ Chunks' = Chunks /\ ToDevice' = ToDevice /\ Owned' = Owned
  BY <1>1, SameCall
<1>4. nextEvent = k /\ k \in Nat \ {0} /\ k <= Newest /\ next \in Buffers /\ events[next] = 0
  BY <1>1, <1>2 DEF PipeTypeOK, PlaceOK, EventsOK, Buffers
<1>5. PICK q0 \in Queues, t \in Task : q0 = (k - 1) % NumQueues /\ t = EventTask(k)
  <2>1. EventTask(k) \in Task
    BY <1>4 DEF EventTask, Task
  <2>. QED
    BY <1>4, <2>1, Shape
<1>6. t.kind = "event" /\ t.ev = k /\ Enqueue(q0, t)
  BY <1>4, <1>5 DEF EventTask, recordOK
<1>7. /\ SetEvent(k) /\ k' = k + 1
      /\ arrived' = IF api = "inverse" THEN Append(arrived, [buf |-> next, ev |-> k, chunk |-> k]) ELSE arrived
      /\ pc' = After(k, arrived')
  <2>1. ~recordFails
    BY <1>1, <1>4 DEF recordFails
  <2>. QED
    BY <1>1, <1>4, <2>1 DEF Record
<1>8. events' = [events EXCEPT ![next] = k] /\ pending' = TRUE /\ missing' = missing
  BY <1>2, <1>4, <1>7 DEF SetEvent, PipeTypeOK
<1>9. /\ \A r \in Queues : \A i \in 1 .. Len(Lines'[r]) :
           \/ i \in 1 .. Len(Lines[r]) /\ Lines'[r][i] = Lines[r][i]
           \/ r = q0 /\ i = Len(Lines[q0]) + 1 /\ Lines'[r][i] = t
      /\ \A r \in Queues : \A i \in 1 .. Len(Lines[r]) :
           i \in 1 .. Len(Lines'[r]) /\ Lines'[r][i] = Lines[r][i]
      /\ \A r \in Queues : Lines[r] # <<>> => Lines'[r] # <<>> /\ Lines'[r][1] = Lines[r][1]
  BY <1>1, <1>2, <1>6, Enqueued
<1>10. \A c : Flying(c)' <=> Flying(c)
  <2>1. ASSUME NEW c, Flying(c)  PROVE  Flying(c)'
    BY <1>9, <2>1 DEF Flying
  <2>2. ASSUME NEW c, Flying(c)'  PROVE  Flying(c)
    <3>1. PICK r \in Queues : \E i \in 1 .. Len(Lines'[r]) : Lines'[r][i].kind = "copy" /\ Lines'[r][i].chunk = c
      BY <2>2 DEF Flying
    <3>2. PICK i \in 1 .. Len(Lines'[r]) : Lines'[r][i].kind = "copy" /\ Lines'[r][i].chunk = c
      BY <3>1
    <3>3. i \in 1 .. Len(Lines[r]) /\ Lines'[r][i] = Lines[r][i]
      BY <1>6, <1>9, <3>2
    <3>. QED
      BY <3>2, <3>3 DEF Flying
  <2>. QED
    BY <2>1, <2>2
<1>11. PICK n \in Nat : /\ n = Len(arrived) /\ n < k /\ n <= NumBuffers /\ n < NumBuffers
                        /\ arrived = <<>> => n = 0
                        /\ First = IF api = "inverse" THEN k - n ELSE 1
  BY <1>1, <1>2, EmptySeq DEF ArrivedOK, PipeTypeOK, First
<1>12. /\ arrived' \in Seq([buf : Buffers, ev : Nat, chunk : Nat])
       /\ api = "inverse" =>
            /\ Len(arrived') = n + 1 /\ arrived' # <<>> /\ next = Slot(k)
            /\ \A i \in 1 .. n + 1 : LET c == k - n + i - 1
                                     IN  arrived'[i] = [buf |-> Slot(c), ev |-> c, chunk |-> c]
       /\ api # "inverse" => arrived' = <<>> /\ arrived = <<>> /\ Len(arrived') = 0
  <2>1. PICK w \in [buf : Buffers, ev : Nat, chunk : Nat] : w = [buf |-> next, ev |-> k, chunk |-> k]
    BY <1>4
  <2>2. PICK a \in Seq([buf : Buffers, ev : Nat, chunk : Nat]) : a = arrived
    BY <1>2 DEF PipeTypeOK
  <2>3. /\ Append(a, w) \in Seq([buf : Buffers, ev : Nat, chunk : Nat]) /\ Len(Append(a, w)) = n + 1
        /\ \A i \in 1 .. n : Append(a, w)[i] = a[i]
        /\ Append(a, w)[n + 1] = w
    BY <1>11, <2>2, AppendProperties
  <2>4. CASE api = "inverse"
    <3>1. arrived' = Append(a, w)
      BY <1>7, <2>1, <2>2, <2>4
    <3>2. next = Slot(k)
      BY <1>1, <1>2, <2>4 DEF ArrivedOK
    <3>3. Append(a, w) # <<>>
      BY <1>11, <2>3, EmptySeq
    <3>4. ASSUME NEW i \in 1 .. n + 1, NEW c, c = k - n + i - 1
          PROVE  arrived'[i] = [buf |-> Slot(c), ev |-> c, chunk |-> c]
      <4>1. CASE i \in 1 .. n
        BY <1>2, <1>11, <2>2, <2>3, <3>1, <3>4, <4>1 DEF ArrivedOK
      <4>2. CASE i = n + 1
        <5>1. c = k
          BY <1>4, <3>4, <4>2
        <5>. QED
          BY <2>1, <2>3, <3>1, <3>2, <4>2, <5>1
      <4>. QED
        BY <1>11, <4>1, <4>2
    <3>. QED
      BY <2>3, <2>4, <3>1, <3>2, <3>3, <3>4
  <2>5. CASE api # "inverse"
    BY <1>2, <1>7, <2>2, <2>5, EmptySeq DEF ArrivedOK
  <2>. QED
    BY <2>4, <2>5
<1>13. /\ First' = First
       /\ \/ pc' = "scatter" /\ api = "inverse"
          \/ pc' = "acquire" /\ k < Newest /\ (api = "inverse" => Len(arrived') # NumBuffers)
          \/ pc' = "drain" /\ k = Newest /\ api # "inverse"
  <2>1. First' = First
    BY <1>1, <1>4, <1>7, <1>11, <1>12 DEF First
  <2>2. pc' = IF api = "inverse" /\ Len(arrived') = NumBuffers THEN "scatter"
              ELSE IF k < Newest THEN "acquire"
              ELSE IF api = "inverse" /\ arrived' # <<>> THEN "scatter" ELSE "drain"
    BY <1>1, <1>3, <1>7, Shape DEF After
  <2>3. PICK N \in Nat : N = Newest /\ k <= N
    BY <1>4, Shape
  <2>4. CASE api = "inverse"
    BY <1>12, <2>1, <2>2, <2>3, <2>4
  <2>5. CASE api # "inverse"
    <3>1. pc' = IF k < N THEN "acquire" ELSE "drain"
      BY <2>2, <2>3, <2>5
    <3>. QED
      BY <1>4, <2>1, <2>3, <2>5, <3>1
  <2>. QED
    BY <2>4, <2>5
<1>14. pc' \in {"scatter", "acquire", "drain"} /\ pc' \notin Opening /\ pc' \notin Loading
       /\ pc' \notin Ending /\ pc' \notin {"record", "rows", "rowsForward", "submit", "order"}
  BY <1>13 DEF Opening, Loading, Ending
<1>15. PipeTypeOK'
  <2>1. tasks' \in [Queues -> Seq(Task)]
    <3>1. tasks \in [Queues -> Seq(Task)] /\ \A r \in Queues : Append(tasks[r], t) \in Seq(Task)
      BY <1>2 DEF PipeTypeOK
    <3>. QED
      BY <1>6, <3>1 DEF Enqueue
  <2>2. pc' \in Places /\ k' \in Nat \ {0} /\ nextEvent' = k'
    BY <1>1, <1>4, <1>7, <1>14 DEF Places, Opening
  <2>3. events' \in [Buffers -> Nat] /\ live' \subseteq Nat
    BY <1>1, <1>2, <1>4, <1>8 DEF PipeTypeOK
  <2>. QED
    BY <1>1, <1>2, <1>3, <1>8, <1>12, <2>1, <2>2, <2>3 DEF PipeTypeOK
<1>16. PlaceOK'
  <2>1. PICK N \in Nat : N = Newest /\ k <= N
    BY <1>4, Shape
  <2>2. k' <= N + 1 /\ (pc' = "acquire" => k' <= N) /\ (pc' = "drain" => k' = N + 1)
    BY <1>4, <1>7, <1>13, <2>1
  <2>. QED
    BY <1>1, <1>2, <1>3, <1>13, <1>14, <2>1, <2>2 DEF PlaceOK
<1>17. \A r \in Queues : \A i \in 1 .. Len(Lines[r]) :
         /\ Rank(Lines[r][i]) < Rank(t)
         /\ Lines[r][i].kind = "copy" => Lines[r][i].chunk <= k
  <2> SUFFICES ASSUME NEW r \in Queues, NEW i \in 1 .. Len(Lines[r])
               PROVE  /\ Rank(Lines[r][i]) < Rank(t)
                      /\ Lines[r][i].kind = "copy" => Lines[r][i].chunk <= k
    OBVIOUS
  <2>1. PICK x \in Task : x = Lines[r][i]
    BY <1>2, LinesTyped
  <2>2. Rank(t) = 2 * k + 1 /\ k \in Nat \ {0}
    BY <1>4, <1>6 DEF Rank
  <2>3. CASE x.kind = "copy"
    <3>1. x.chunk \in Nat /\ Rank(x) = 2 * x.chunk
      BY <2>3, TaskFacts DEF Rank
    <3>2. x.chunk < k \/ x.chunk = k
      BY <1>2, <2>1, <2>3 DEF LinesOK
    <3>. QED
      BY <2>1, <2>2, <3>1, <3>2
  <2>4. CASE x.kind = "event"
    <3>1. x.ev \in 1 .. k - 1 /\ Rank(x) = 2 * x.ev + 1
      BY <1>2, <2>1, <2>4 DEF LinesOK, Rank
    <3>. QED
      BY <2>1, <2>2, <2>4, <3>1
  <2>5. CASE x.kind = "wait"
    BY <2>1, <2>2, <2>5 DEF Rank
  <2>. QED
    BY <2>1, <2>3, <2>4, <2>5, TaskFacts
<1>18. LinesOK'
  <2>1. ASSUME NEW r \in Queues, NEW i \in 1 .. Len(Lines'[r]), NEW j \in 1 .. Len(Lines'[r]), i < j
        PROVE  Rank(Lines'[r][i]) < Rank(Lines'[r][j])
    <3>1. i \in 1 .. Len(Lines[r]) /\ Lines'[r][i] = Lines[r][i]
      <4> SUFFICES ASSUME r = q0, i = Len(Lines[q0]) + 1 PROVE FALSE
        BY <1>9
      <4>1. j \in 1 .. Len(Lines[q0]) \/ j = Len(Lines[q0]) + 1
        BY <1>9
      <4>. QED
        BY <1>2, <2>1, <4>1, LinesTyped
    <3>2. CASE j \in 1 .. Len(Lines[r]) /\ Lines'[r][j] = Lines[r][j]
      BY <1>2, <2>1, <3>1, <3>2 DEF LinesOK
    <3>3. CASE Lines'[r][j] = t
      BY <1>17, <3>1, <3>3
    <3>. QED
      BY <1>9, <3>2, <3>3
  <2>2. ASSUME NEW r \in Queues, NEW i \in 1 .. Len(Lines'[r]), Lines'[r][i].kind = "copy"
        PROVE  LET x == Lines'[r][i] IN
               /\ x.chunk \in 1 .. Newest /\ r = (x.chunk - 1) % NumQueues
               /\ x.chunk < k' /\ x.chunk # k'
               /\ events'[x.buf] = x.chunk
               /\ ~ToDevice => x.buf = Slot(x.chunk)
    <3>1. i \in 1 .. Len(Lines[r]) /\ Lines'[r][i] = Lines[r][i]
      BY <1>6, <1>9, <2>2
    <3>2. PICK x \in Task : x = Lines[r][i] /\ x.kind = "copy"
      BY <1>2, <2>2, <3>1, LinesTyped
    <3>3. /\ x.chunk \in 1 .. Newest /\ r = (x.chunk - 1) % NumQueues /\ x.chunk <= k
          /\ ~ToDevice => x.buf = Slot(x.chunk)
          /\ x.chunk < k => events[x.buf] = x.chunk
          /\ x.chunk = k => x.buf = next
      BY <1>1, <1>2, <1>17, <3>1, <3>2 DEF LinesOK
    <3>4. x.buf \in Buffers /\ x.chunk \in Nat
      BY <3>2, TaskFacts
    <3>5. events'[x.buf] = x.chunk
      <4>1. CASE x.chunk < k
        <5>1. x.buf # next
          BY <1>4, <3>3, <4>1
        <5>. QED
          BY <1>2, <1>8, <3>3, <3>4, <4>1, <5>1 DEF PipeTypeOK
      <4>2. CASE x.chunk = k
        BY <1>2, <1>4, <1>8, <3>3, <4>2 DEF PipeTypeOK
      <4>. QED
        BY <1>4, <3>3, <3>4, <4>1, <4>2
    <3>6. x.chunk < k' /\ x.chunk # k'
      BY <1>4, <1>7, <3>3, <3>4
    <3>. QED
      BY <3>1, <3>2, <3>3, <3>5, <3>6
  <2>3. ASSUME NEW r \in Queues, NEW i \in 1 .. Len(Lines'[r]), Lines'[r][i].kind = "event"
        PROVE  Lines'[r][i].ev \in 1 .. k' - 1 /\ r = (Lines'[r][i].ev - 1) % NumQueues
    <3>1. CASE i \in 1 .. Len(Lines[r]) /\ Lines'[r][i] = Lines[r][i]
      BY <1>2, <1>4, <1>7, <2>3, <3>1 DEF LinesOK
    <3>2. CASE r = q0 /\ Lines'[r][i] = t
      BY <1>4, <1>5, <1>6, <1>7, <3>2
    <3>. QED
      BY <1>9, <3>1, <3>2
  <2>4. ASSUME ~produced, NEW r \in Queues
        PROVE  Lines'[r] # <<>> /\ Lines'[r][1] = WaitTask
    <3>1. Lines[r] # <<>> /\ Lines[r][1] = WaitTask
      BY <1>1, <1>2, <2>4 DEF LinesOK, Opening, Ending
    <3>. QED
      BY <1>9, <3>1
  <2>. QED
    BY <1>1, <1>3, <1>14, <2>1, <2>2, <2>3, <2>4 DEF LinesOK
<1>19. EventsOK'
  <2>1. \A e \in live' : e \in 1 .. k' - 1
    BY <1>1, <1>2, <1>4, <1>7 DEF EventsOK
  <2>2. \A e \in done' : e \in 1 .. k' - 1 /\ ~Flying(e)'
    BY <1>1, <1>2, <1>4, <1>7, <1>10 DEF EventsOK
  <2>3. \A e \in 1 .. k' - 1 : e \in live' \cup done'
    BY <1>1, <1>2, <1>4, <1>7 DEF EventsOK
  <2>4. ASSUME NEW e \in live'
        PROVE  \E b \in Buffers : events'[b] = e
    <3>1. CASE e = k
      BY <1>2, <1>4, <1>8, <3>1 DEF PipeTypeOK
    <3>2. CASE e # k
      <4>1. e \in live /\ e # 0
        BY <1>1, <1>2, <1>4, <2>4, <3>2 DEF EventsOK
      <4>2. PICK b \in Buffers : events[b] = e
        BY <1>1, <1>2, <4>1 DEF EventsOK
      <4>. QED
        BY <1>2, <1>4, <1>8, <4>1, <4>2 DEF PipeTypeOK
    <3>. QED
      BY <3>1, <3>2
  <2>5. \A b \in Buffers : events'[b] < k'
    BY <1>2, <1>4, <1>7, <1>8 DEF EventsOK, PipeTypeOK
  <2>. QED
    BY <1>14, <2>1, <2>2, <2>3, <2>4, <2>5 DEF EventsOK
<1>20. ArrivedOK'
  <2>0. PICK m \in Nat, B \in Nat : m = Len(arrived') /\ B = NumBuffers /\ n < B /\ m \in {0, n + 1}
    BY <1>11, <1>12, Shape
  <2>1. Len(arrived') < k' /\ Len(arrived') <= NumBuffers
    <3>1. m < k' /\ m <= B
      BY <1>4, <1>7, <1>11, <2>0
    <3>. QED
      BY <2>0, <3>1
  <2>2. ASSUME NEW i \in 1 .. Len(arrived'), NEW c, c = k' - Len(arrived') + i - 1
        PROVE  arrived'[i] = [buf |-> Slot(c), ev |-> c, chunk |-> c]
    <3>1. api = "inverse" /\ Len(arrived') = n + 1
      BY <1>12, <2>2
    <3>2. c = k - n + i - 1
      BY <1>4, <1>7, <2>2, <3>1
    <3>. QED
      BY <1>12, <2>2, <3>1, <3>2
  <2>3. pc' = "acquire" => Len(arrived') < NumBuffers
    <3> SUFFICES ASSUME pc' = "acquire" PROVE m < B
      BY <2>0
    <3>1. m # B
      BY <1>12, <1>13, <2>0
    <3>. QED
      BY <2>0, <3>1
  <2>4. (pc' = "scatter" => arrived' # <<>>) /\ (pc' = "drain" => arrived' = <<>>)
    BY <1>12, <1>13
  <2>5. api = "inverse" => (next + 1) % NumBuffers = Slot(k + 1)
    BY <1>4, <1>12, SlotNext DEF Buffers
  <2>6. api = "inverse" => \A e \in live' : e >= First
    BY <1>1, <1>2, <1>4, <1>11 DEF ArrivedOK, Ending
  <2>7. api = "inverse" => /\ ~missing'
                           /\ \A c \in 1 .. First - 1 : dst[c] = c /\ ~Flying(c)
    <3>1. pc \notin Ending
      BY <1>1 DEF Ending
    <3>2. api = "inverse" => /\ ~missing
                             /\ \A c \in 1 .. First - 1 : dst[c] = c /\ ~Flying(c)
      BY <1>2, <3>1 DEF ArrivedOK
    <3>. QED
      BY <1>8, <3>2
  <2>8. api = "inverse" => \A c \in 1 .. First - 1 : dst'[c] = c /\ ~Flying(c)'
    BY <1>1, <1>10, <2>7
  <2>9. pc' \notin {"submit", "record", "rows"} /\ pc' \notin Opening
    BY <1>14
  <2>. QED
    BY <1>1, <1>7, <1>12, <1>13, <1>14, <2>1, <2>2, <2>3, <2>4, <2>5, <2>6, <2>7, <2>8, <2>9, SMTT(30)
       DEF ArrivedOK
<1>21. ContentOK'
  <2>1. ToDevice => \A r \in Queues : \A i \in 1 .. Len(Lines'[r]) :
          Lines'[r][i].kind = "copy" => staging[Lines'[r][i].buf] = Lines'[r][i].chunk
    BY <1>2, <1>6, <1>9 DEF ContentOK
  <2>2. \A c \in First .. k : Flying(c) \/ Landed(c)
    BY <1>1, <1>2, <1>4, <1>11 DEF ContentOK, Ending
  <2>. QED
    BY <1>1, <1>2, <1>3, <1>4, <1>7, <1>10, <1>13, <1>14, <2>1, <2>2 DEF ContentOK, Landed
<1>22. EndOK'
  BY <1>1, <1>2, <1>3, <1>8, <1>10, <1>14 DEF EndOK, Ending
<1>. QED
  BY <1>15, <1>16, <1>18, <1>19, <1>20, <1>21, <1>22 DEF PipelineInv

LEMMA RecordKeeps ==
  ASSUME PipelineInv, Record
  PROVE  PipelineInv'
<1>1. CASE recordOK((k - 1) % NumQueues)
  BY <1>1, RecordOkKeeps
<1>2. CASE ~recordOK((k - 1) % NumQueues)
  <2>1. /\ UNCHANGED <<tasks, executing, live, done, nextEvent, api, ordered, produced, k, next, staging,
                       reading, dst, arrived, completion, error, result, storage>>
        /\ pc = "record" /\ pc' = "guard" /\ failed' = TRUE
        /\ UNCHANGED <<events, pending, missing>> \/ SetEvent(0)
    BY <1>2 DEF Record, recordFails, Fail, callVars
  <2>2. PipeTypeOK /\ PlaceOK /\ LinesOK /\ EventsOK /\ ArrivedOK /\ ContentOK /\ EndOK
    BY DEF PipelineInv
  <2>3. /\ Newest' = Newest /\ Chunks' = Chunks /\ ToDevice' = ToDevice /\ Owned' = Owned
    BY <2>1, SameCall
  <2>4. /\ Lines' = Lines /\ \A c : Flying(c)' <=> Flying(c)
    BY <2>1, LinesStay, SameFlights
  <2>5. /\ events' = events /\ missing' \in BOOLEAN /\ pending' \in BOOLEAN
        /\ pending => pending'
    <3>1. events[next] = 0 /\ next \in Buffers
      BY <2>1, <2>2 DEF EventsOK, PlaceOK, PipeTypeOK, Buffers
    <3>2. [events EXCEPT ![next] = 0] = events
      BY <2>2, <3>1 DEF PipeTypeOK
    <3>3. CASE UNCHANGED <<events, pending, missing>>
      BY <2>2, <3>3 DEF PipeTypeOK
    <3>4. CASE SetEvent(0)
      <4>1. events' = [events EXCEPT ![next] = 0] /\ pending' = TRUE /\ missing' = (missing \/ 0 = 0)
        BY <3>4 DEF SetEvent
      <4>2. missing' \in BOOLEAN
        BY <4>1, Zenon
      <4>. QED
        BY <3>2, <4>1, <4>2
    <3>. QED
      BY <2>1, <3>3, <3>4
  <2>6. PipeTypeOK'
    BY <2>1, <2>2, <2>3, <2>5 DEF PipeTypeOK, Places, Ending
  <2>7. PlaceOK'
    BY <2>1, <2>2, <2>3 DEF PlaceOK, Opening, Loading, Ending
  <2>8. LinesOK'
    BY <2>1, <2>2, <2>3, <2>4, <2>5 DEF LinesOK, Opening, Loading, Ending
  <2>9. EventsOK'
    BY <2>1, <2>2, <2>3, <2>4, <2>5 DEF EventsOK, Loading
  <2>10. ArrivedOK'
    BY <2>1, <2>2, <2>3, <2>4 DEF ArrivedOK, First, Opening, Ending
  <2>11. ContentOK'
    BY <2>1, <2>2, <2>3, <2>4 DEF ContentOK, Ending
  <2>12. EndOK'
    BY <2>1, <2>2, <2>3, <2>4, <2>5 DEF EndOK
  <2>. QED
    BY <2>6, <2>7, <2>8, <2>9, <2>10, <2>11, <2>12 DEF PipelineInv
<1>. QED
  BY <1>1, <1>2

\* The first window that is not yet scattered, and its event.
LEMMA Oldest ==
  ASSUME PipelineInv, api = "inverse", arrived # <<>>
  PROVE  \E n \in Nat \ {0} :
           /\ n = Len(arrived) /\ n < k /\ n <= NumBuffers
           /\ First = k - n /\ First \in 1 .. k - 1
           /\ Head(arrived) = [buf |-> Slot(First), ev |-> First, chunk |-> First]
<1>1. PICK n \in Nat \ {0} : n = Len(arrived)
  BY EmptySeq DEF PipelineInv, PipeTypeOK
<1>2. First = k - n /\ k \in Nat /\ n < k /\ n <= NumBuffers
  BY <1>1 DEF First, PipelineInv, PipeTypeOK, ArrivedOK
<1>3. 1 \in 1 .. Len(arrived) /\ k - Len(arrived) + 1 - 1 = First
  BY <1>1, <1>2
<1>4. Head(arrived) = arrived[1]
  BY DEF PipelineInv, PipeTypeOK
<1>5. arrived[1] = [buf |-> Slot(First), ev |-> First, chunk |-> First]
  <2>1. ASSUME NEW i \in 1 .. Len(arrived), NEW c, c = k - Len(arrived) + i - 1
        PROVE  arrived[i] = [buf |-> Slot(c), ev |-> c, chunk |-> c]
    BY <2>1 DEF PipelineInv, ArrivedOK
  <2>2. PICK c : c = First
    OBVIOUS
  <2>. QED
    BY <1>3, <2>1, <2>2
<1>. QED
  BY <1>1, <1>2, <1>4, <1>5

LEMMA ScatterWaitKeeps ==
  ASSUME PipelineInv, ScatterWait
  PROVE  PipelineInv'
<1>1. /\ UNCHANGED <<tasks, executing, done, nextEvent, api, ordered, produced, k, next, events, pending, missing,
                     staging, reading, dst, arrived, completion, error, result, storage>>
      /\ pc = "scatter" /\ pc' = IF failed' THEN "guard" ELSE "rows"
  BY DEF ScatterWait, waitEvent, callVars, poolVars
<1>2. PipeTypeOK /\ PlaceOK /\ LinesOK /\ EventsOK /\ ArrivedOK /\ ContentOK /\ EndOK
  BY DEF PipelineInv
<1>3. /\ Newest' = Newest /\ Chunks' = Chunks /\ ToDevice' = ToDevice /\ Owned' = Owned
  BY <1>1, SameCall
<1>4. /\ Lines' = Lines /\ \A c : Flying(c)' <=> Flying(c)
  BY <1>1, LinesStay, SameFlights
<1>5. api = "inverse" /\ arrived # <<>> /\ ~failed
  BY <1>1, <1>2 DEF PlaceOK, ArrivedOK, Ending
<1>6. PICK e \in Nat : e = First /\ e \in 1 .. k - 1 /\ Head(arrived).ev = e
  BY <1>2, <1>5, Oldest DEF PipeTypeOK
<1>7. /\ live' = live \ {e}
      /\ \/ UNCHANGED failed /\ pc' = "rows" /\ (e \in live => e \in done)
         \/ failed' = TRUE /\ pc' = "guard"
  BY <1>1, <1>5, <1>6 DEF ScatterWait, waitEvent, Fail
<1>8. PipeTypeOK'
  BY <1>1, <1>2, <1>3, <1>7 DEF PipeTypeOK, Places, Ending
<1>9. PlaceOK'
  <2>1. CASE UNCHANGED failed /\ pc' = "rows"
    BY <1>1, <1>2, <1>3, <1>5, <2>1 DEF PlaceOK, Opening, Loading, Ending
  <2>2. CASE failed' = TRUE /\ pc' = "guard"
    BY <1>1, <1>2, <1>3, <1>5, <2>2 DEF PlaceOK, Opening, Loading, Ending
  <2>. QED
    BY <1>7, <2>1, <2>2
<1>10. pc' \in {"rows", "guard"}
  BY <1>7
<1>11. LinesOK'
  BY <1>1, <1>2, <1>3, <1>4, <1>7, <1>10 DEF LinesOK, Opening, Loading, Ending
<1>12. EventsOK'
  BY <1>1, <1>2, <1>4, <1>5, <1>7, <1>10 DEF EventsOK, Loading
<1>13. ArrivedOK'
  BY <1>1, <1>2, <1>3, <1>4, <1>5, <1>6, <1>7, <1>10 DEF ArrivedOK, First, Opening, Ending
<1>14. ContentOK'
  BY <1>1, <1>2, <1>3, <1>4, <1>10 DEF ContentOK, Landed, First, Ending
<1>15. EndOK'
  BY <1>1, <1>2, <1>3, <1>4, <1>10 DEF EndOK
<1>. QED
  BY <1>8, <1>9, <1>11, <1>12, <1>13, <1>14, <1>15 DEF PipelineInv

\* The oldest window is in its buffer when its rows are scattered.
LEMMA OldestLanded ==
  ASSUME PipelineInv, pc = "rows"
  PROVE  staging[Slot(First)] = First /\ ~Flying(First) /\ First \in 1 .. k - 1
<1>1. PipeTypeOK /\ PlaceOK /\ LinesOK /\ EventsOK /\ ArrivedOK /\ ContentOK /\ EndOK
  BY DEF PipelineInv
<1>2. api = "inverse" /\ arrived # <<>> /\ ~failed /\ First \notin live
  BY <1>1 DEF PlaceOK, ArrivedOK, Ending
<1>3. First \in 1 .. k - 1
  BY <1>2, Oldest
<1>4. First \in done /\ ~Flying(First)
  BY <1>1, <1>2, <1>3 DEF EventsOK
<1>5. k \in Nat /\ First \in First .. k - 1
  BY <1>1, <1>3 DEF PipeTypeOK
<1>6. Landed(First)
  BY <1>1, <1>4, <1>5 DEF ContentOK, Ending
<1>. QED
  BY <1>2, <1>3, <1>4, <1>6 DEF Landed, ToDevice

LEMMA ScatterRowsKeeps ==
  ASSUME PipelineInv, ScatterRows
  PROVE  PipelineInv'
<1>1. /\ UNCHANGED <<backendVars, api, ordered, produced, k, next, events, pending, missing,
                     staging, reading, completion, error, result, storage>>
      /\ pc = "rows" /\ arrived' = Tail(arrived) /\ pc' = After(k - 1, Tail(arrived))
      /\ dst' = [dst EXCEPT ![Head(arrived).chunk] = staging[Head(arrived).buf]]
  BY DEF ScatterRows, callVars, poolVars
<1>2. PipeTypeOK /\ PlaceOK /\ LinesOK /\ EventsOK /\ ArrivedOK /\ ContentOK /\ EndOK
  BY DEF PipelineInv
<1>3. /\ Newest' = Newest /\ Chunks' = Chunks /\ ToDevice' = ToDevice /\ Owned' = Owned
  BY <1>1, SameCall
<1>4. /\ Lines' = Lines /\ \A c : Flying(c)' <=> Flying(c)
  BY <1>1, LinesStay, SameFlights DEF backendVars
<1>5. api = "inverse" /\ arrived # <<>> /\ ~failed /\ ~ToDevice
  BY <1>1, <1>2 DEF PlaceOK, ArrivedOK, Ending, ToDevice
<1>6. PICK n \in Nat \ {0} :
        /\ n = Len(arrived) /\ n < k /\ n <= NumBuffers
        /\ First = k - n /\ First \in 1 .. k - 1
        /\ Head(arrived) = [buf |-> Slot(First), ev |-> First, chunk |-> First]
  BY <1>5, Oldest
<1>7. PICK f \in Nat : f = First /\ f \in 1 .. k - 1 /\ f = k - n
  <2>1. First \in Nat
    BY <1>6
  <2>. QED
    BY <1>6, <2>1
<1>8. staging[Slot(f)] = f /\ ~Flying(f) /\ f \notin live
  BY <1>1, <1>2, <1>5, <1>7, OldestLanded DEF ArrivedOK
<1>9. dst' = [dst EXCEPT ![f] = f]
  <2>1. Head(arrived) = [buf |-> Slot(f), ev |-> f, chunk |-> f]
    BY <1>6, <1>7
  <2>2. Head(arrived).chunk = f /\ Head(arrived).buf = Slot(f)
    BY <2>1
  <2>. QED
    BY <1>1, <1>8, <2>2
<1>10. PICK N \in Nat, B \in Nat : N = Newest /\ B = NumBuffers /\ k \in Nat /\ k <= N + 1
  BY <1>2, Shape DEF PlaceOK, PipeTypeOK
<1>11. /\ arrived' \in Seq([buf : Buffers, ev : Nat, chunk : Nat]) /\ Len(arrived') = n - 1
       /\ \A i \in 1 .. n - 1 : arrived'[i] = arrived[i + 1]
       /\ arrived' = <<>> => n - 1 = 0
       /\ n - 1 = 0 => arrived' = <<>>
  <2>1. PICK a \in Seq([buf : Buffers, ev : Nat, chunk : Nat]) : a = arrived /\ a # <<>>
    BY <1>2, <1>5 DEF PipeTypeOK
  <2>2. /\ Tail(a) \in Seq([buf : Buffers, ev : Nat, chunk : Nat]) /\ Len(Tail(a)) = n - 1
        /\ \A i \in 1 .. n - 1 : Tail(a)[i] = a[i + 1]
    BY <1>6, <2>1, HeadTailProperties
  <2>. QED
    BY <1>1, <2>1, <2>2, EmptySeq
<1>12. First' = f + 1
  BY <1>1, <1>5, <1>6, <1>7, <1>10, <1>11 DEF First
<1>13. \/ pc' = "acquire" /\ k <= N
       \/ pc' = "scatter" /\ arrived' # <<>>
       \/ pc' = "drain" /\ arrived' = <<>> /\ k = N + 1
  <2>1. n - 1 # B
    BY <1>6, <1>10
  <2>2. pc' = IF k - 1 < N THEN "acquire" ELSE IF arrived' # <<>> THEN "scatter" ELSE "drain"
    BY <1>1, <1>5, <1>10, <1>11, <2>1, Shape DEF After
  <2>. QED
    BY <1>10, <2>2
<1>14. /\ pc' \in {"acquire", "scatter", "drain"} /\ pc' \notin Opening /\ pc' \notin Loading
       /\ pc' \notin Ending /\ pc \notin Ending /\ pc \notin Opening /\ pc \notin Loading
  BY <1>1, <1>13 DEF Opening, Loading, Ending
<1>15. PipeTypeOK'
  <2>1. dst' \in [Chunks -> Int]
    <3>1. dst \in [Chunks -> Int] /\ f \in Int
      BY <1>2 DEF PipeTypeOK
    <3>. QED
      BY <1>9, <3>1
  <2>2. pc' \in Places
    BY <1>14 DEF Places, Opening
  <2>. QED
    BY <1>1, <1>2, <1>3, <1>11, <2>1, <2>2 DEF PipeTypeOK, backendVars
<1>16. PlaceOK'
  BY <1>1, <1>2, <1>3, <1>5, <1>10, <1>13, <1>14 DEF PlaceOK, backendVars
<1>17. LinesOK'
  BY <1>1, <1>2, <1>3, <1>4, <1>5, <1>14 DEF LinesOK, backendVars
<1>18. EventsOK'
  BY <1>1, <1>2, <1>4, <1>14 DEF EventsOK, backendVars
<1>19. ArrivedOK'
  <2>1. n - 1 < k /\ n - 1 <= B /\ n - 1 < B
    BY <1>6, <1>10
  <2>2. ASSUME NEW i \in 1 .. n - 1, NEW c, c = k - (n - 1) + i - 1
        PROVE  arrived'[i] = [buf |-> Slot(c), ev |-> c, chunk |-> c]
    <3>1. i + 1 \in 1 .. n /\ c = k - n + (i + 1) - 1
      BY <1>10, <2>2
    <3>. QED
      BY <1>2, <1>6, <1>11, <2>2, <3>1 DEF ArrivedOK
  <2>3. \A e \in live : e >= f + 1
    <3>1. \A e \in live : e >= f /\ e # f /\ e \in Nat
      BY <1>2, <1>5, <1>7, <1>8, <1>14 DEF ArrivedOK, PipeTypeOK
    <3>. QED
      BY <3>1
  <2>4. ASSUME NEW c \in 1 .. f
        PROVE  dst'[c] = c /\ ~Flying(c)
    <3>1. CASE c = f
      <4>1. f \in Chunks
        BY <1>7, <1>10, Shape
      <4>. QED
        BY <1>2, <1>8, <1>9, <3>1, <4>1 DEF PipeTypeOK
    <3>2. CASE c # f
      <4>1. c \in 1 .. f - 1 /\ dst[c] = c /\ ~Flying(c)
        BY <1>2, <1>5, <1>7, <1>14, <3>2 DEF ArrivedOK
      <4>2. c \in Chunks
        BY <1>7, <1>10, Shape
      <4>. QED
        BY <1>2, <1>9, <3>2, <4>1, <4>2 DEF PipeTypeOK
    <3>. QED
      BY <3>1, <3>2
  <2>5. ~missing /\ (next + 1) % NumBuffers = Slot(k)
    BY <1>1, <1>2, <1>5, <1>14 DEF ArrivedOK
  <2>6. f + 1 - 1 = f
    OBVIOUS
  <2>7. /\ live' = live /\ missing' = missing /\ api' = api /\ k' = k /\ next' = next
    BY <1>1 DEF backendVars
  <2>. QED
    BY <1>4, <1>5, <1>10, <1>11, <1>12, <1>13, <1>14, <2>1, <2>2, <2>3, <2>4, <2>5, <2>6, <2>7 DEF ArrivedOK
<1>20. ContentOK'
  <2>1. \A c \in f + 1 .. k - 1 : Flying(c) \/ Landed(c)
    BY <1>2, <1>7, <1>14 DEF ContentOK
  <2>2. UNCHANGED <<executing, failed>>
    BY <1>1 DEF backendVars
  <2>. QED
    BY <1>1, <1>2, <1>3, <1>4, <1>5, <1>12, <1>13, <1>14, <2>1, <2>2 DEF ContentOK, Landed
<1>21. EndOK'
  BY <1>1, <1>2, <1>3, <1>4, <1>5, <1>14 DEF EndOK, Ending
<1>. QED
  BY <1>15, <1>16, <1>17, <1>18, <1>19, <1>20, <1>21 DEF PipelineInv

\* The driver waits for the events that are left, in the order of the
\* buffers; a download of windows has waited for all of them already.
LEMMA DrainKeeps ==
  ASSUME PipelineInv, Drain
  PROVE  PipelineInv'
<1>1. /\ UNCHANGED <<tasks, executing, done, nextEvent, api, pc, ordered, produced, k, next, pending, missing,
                     staging, reading, dst, arrived, completion, error, result, storage>>
      /\ pc = "drain" /\ DrainSet # {}
  BY DEF Drain, waitEvent, callVars
<1>2. PipeTypeOK /\ PlaceOK /\ LinesOK /\ EventsOK /\ ArrivedOK /\ ContentOK /\ EndOK
  BY DEF PipelineInv
<1>3. /\ Newest' = Newest /\ Chunks' = Chunks /\ ToDevice' = ToDevice /\ Owned' = Owned
  BY <1>1, SameCall
<1>4. /\ Lines' = Lines /\ \A c : Flying(c)' <=> Flying(c)
  BY <1>1, LinesStay, SameFlights
<1>5. PICK b \in Buffers : /\ events[b] # 0
                           /\ waitEvent(events[b]) /\ events' = [events EXCEPT ![b] = 0]
  <2> DEFINE least == CHOOSE x \in DrainSet : \A y \in DrainSet : x <= y
  <2>1. DrainSet \subseteq Nat
    BY DEF DrainSet, Buffers
  <2>2. \E x \in DrainSet : \A y \in DrainSet : x <= y
    BY <1>1, <2>1, LeastNumber
  <2>3. least \in DrainSet
    BY <2>2
  <2>4. waitEvent(events[least]) /\ events' = [events EXCEPT ![least] = 0]
    BY DEF Drain
  <2> HIDE DEF least
  <2>. QED
    BY <2>3, <2>4 DEF DrainSet
<1>6. PICK e \in Nat : e = events[b] /\ e # 0 /\ e < k
  BY <1>2, <1>5 DEF PipeTypeOK, EventsOK
<1>7. /\ live' = live \ {e}
      /\ \/ UNCHANGED failed /\ (e \in live => e \in done)
         \/ failed' = TRUE /\ e \in live
  BY <1>5, <1>6 DEF waitEvent, Fail
<1>8. api = "inverse" => failed' = failed /\ ~failed
  <2> SUFFICES ASSUME api = "inverse" PROVE failed' = failed /\ ~failed
    OBVIOUS
  <2>1. ~failed /\ arrived = <<>>
    BY <1>1, <1>2 DEF PlaceOK, ArrivedOK, Ending
  <2>2. First = k /\ k \in Nat
    BY <1>2, <2>1 DEF First, PipeTypeOK
  <2>3. \A x \in live : x >= k /\ x \in Nat
    BY <1>1, <1>2, <2>2 DEF ArrivedOK, Ending, PipeTypeOK
  <2>4. e \notin live
    BY <1>6, <2>2, <2>3
  <2>. QED
    BY <1>7, <2>1, <2>4
<1>9. failed' \in BOOLEAN /\ (failed => failed')
  <2>1. failed \in BOOLEAN
    BY <1>2 DEF PipeTypeOK
  <2>2. CASE failed' = failed
    BY <2>1, <2>2
  <2>3. CASE failed' = TRUE
    BY <2>3
  <2>. QED
    BY <1>7, <2>2, <2>3
<1>10. PipeTypeOK'
  <2>1. events' \in [Buffers -> Nat] /\ live' \subseteq Nat
    BY <1>2, <1>5, <1>7 DEF PipeTypeOK
  <2>. QED
    BY <1>1, <1>2, <1>3, <1>9, <2>1 DEF PipeTypeOK
<1>11. PlaceOK'
  BY <1>1, <1>2, <1>3, <1>8, <1>9 DEF PlaceOK, Opening, Loading, Ending
<1>12. LinesOK'
  <2>1. ASSUME NEW q \in Queues, NEW i \in 1 .. Len(Lines[q]), Lines[q][i].kind = "copy",
               Lines[q][i].chunk < k, ~failed'
        PROVE  events'[Lines[q][i].buf] = Lines[q][i].chunk
    <3>1. ~failed /\ Lines[q][i].buf \in Buffers
      BY <1>2, <1>9, <2>1, LinesTyped, TaskFacts
    <3>2. events[Lines[q][i].buf] = Lines[q][i].chunk
      BY <1>2, <2>1, <3>1 DEF LinesOK
    <3>3. Lines[q][i].buf # b
      <4>1. ~Flying(e)
        BY <1>6, <1>7, <2>1, <3>1, Waited
      <4>. QED
        BY <1>6, <2>1, <3>2, <4>1 DEF Flying
    <3>. QED
      BY <1>2, <1>5, <3>1, <3>2, <3>3 DEF PipeTypeOK
  <2>. QED
    BY <1>1, <1>2, <1>3, <1>4, <2>1 DEF LinesOK
<1>13. EventsOK'
  <2>1. ASSUME ~failed'
        PROVE  /\ \A x \in 1 .. k - 1 : x \in live' \cup done
               /\ \A x \in live' : \E c \in Buffers : events'[c] = x
    <3>1. ~failed /\ (e \in live => e \in done)
      BY <1>7, <1>9, <2>1
    <3>2. \A x \in 1 .. k - 1 : x \in live' \cup done
      BY <1>2, <1>7, <3>1 DEF EventsOK
    <3>3. ASSUME NEW x \in live'
          PROVE  \E c \in Buffers : events'[c] = x
      <4>1. x \in live /\ x # e
        BY <1>7, <3>3
      <4>2. PICK c \in Buffers : events[c] = x
        BY <1>2, <3>1, <4>1 DEF EventsOK
      <4>. QED
        BY <1>2, <1>5, <1>6, <4>1, <4>2 DEF PipeTypeOK
    <3>. QED
      BY <3>2, <3>3
  <2>2. \A c \in Buffers : events'[c] < k
    BY <1>2, <1>5 DEF PipeTypeOK, EventsOK
  <2>3. pc' \notin Loading \cup {"record"}
    BY <1>1 DEF Loading
  <2>. QED
    BY <1>1, <1>2, <1>4, <1>7, <2>1, <2>2, <2>3 DEF EventsOK
<1>14. ArrivedOK'
  BY <1>1, <1>2, <1>3, <1>4, <1>7 DEF ArrivedOK, First, Opening, Ending
<1>15. ContentOK'
  BY <1>1, <1>2, <1>3, <1>4 DEF ContentOK, Landed, First, Ending
<1>16. EndOK'
  BY <1>1, <1>2, <1>3, <1>4 DEF EndOK
<1>. QED
  BY <1>10, <1>11, <1>12, <1>13, <1>14, <1>15, <1>16 DEF PipelineInv

\* Once every event is waited for without a failure, every window is where
\* its copy had to bring it.
LEMMA AllLanded ==
  ASSUME PipelineInv, pc = "drain", DrainSet = {}, ~failed
  PROVE  /\ \A c \in 1 .. Newest : ~Flying(c)
         /\ \A c \in First .. Newest : Landed(c)
         /\ k = Newest + 1
<1>1. PipeTypeOK /\ PlaceOK /\ LinesOK /\ EventsOK /\ ArrivedOK /\ ContentOK /\ EndOK
  BY DEF PipelineInv
<1>2. k = Newest + 1 /\ Newest \in Nat
  BY <1>1, Shape DEF PlaceOK
<1>3. live = {}
  <2> SUFFICES ASSUME NEW e \in live PROVE FALSE
    OBVIOUS
  <2>1. PICK b \in Buffers : events[b] = e
    BY <1>1 DEF EventsOK
  <2>2. e # 0
    BY <1>1 DEF EventsOK
  <2>. QED
    BY <2>1, <2>2 DEF DrainSet
<1>4. \A c \in 1 .. Newest : c \in done /\ ~Flying(c)
  BY <1>1, <1>2, <1>3 DEF EventsOK
<1>5. First \in Nat \ {0}
  <2>1. Len(arrived) \in Nat /\ k \in Nat /\ Len(arrived) < k
    BY <1>1 DEF ArrivedOK, PipeTypeOK
  <2>2. k - Len(arrived) \in Nat \ {0}
    BY <2>1
  <2>. QED
    BY <2>2 DEF First
<1>6. \A c \in First .. Newest : Flying(c) \/ Landed(c)
  BY <1>1, <1>2 DEF ContentOK, Ending
<1>. QED
  BY <1>2, <1>4, <1>5, <1>6

LEMMA DrainedKeeps ==
  ASSUME PipelineInv, Drained
  PROVE  PipelineInv'
<1>1. /\ UNCHANGED <<backendVars, api, ordered, produced, k, next, events, staging, reading, dst, arrived,
                     error, result, storage>>
      /\ pc = "drain" /\ DrainSet = {}
      /\ IF failed \/ missing THEN UNCHANGED <<pending, missing>> ELSE pending' = FALSE /\ missing' = FALSE
      /\ pc' = IF failed /\ api # "inverse" THEN "guard" ELSE IF api = "forward" THEN "rowsForward" ELSE "retire"
      /\ completion' = IF ~failed /\ ToDevice THEN "Complete" ELSE completion
  BY DEF Drained, callVars
<1>2. PipeTypeOK /\ PlaceOK /\ LinesOK /\ EventsOK /\ ArrivedOK /\ ContentOK /\ EndOK
  BY DEF PipelineInv
<1>3. /\ Newest' = Newest /\ Chunks' = Chunks /\ ToDevice' = ToDevice /\ Owned' = Owned
  BY <1>1, SameCall
<1>4. /\ Lines' = Lines /\ \A c : Flying(c)' <=> Flying(c)
  BY <1>1, LinesStay, SameFlights DEF backendVars
<1>5. failed => api # "inverse" /\ pc' = "guard" /\ completion' = completion /\ pending' = pending
  BY <1>1, <1>2 DEF PlaceOK, Ending
<1>6. ~failed => /\ \A c \in 1 .. Newest : ~Flying(c)
                 /\ \A c \in First .. Newest : Landed(c)
                 /\ pc' = IF api = "forward" THEN "rowsForward" ELSE "retire"
  BY <1>1, AllLanded
<1>7. k = Newest + 1 /\ Newest \in Nat \ {0} /\ Chunks = 1 .. Newest
  BY <1>1, <1>2, Shape DEF PlaceOK
<1>8. pc' \in {"guard", "rowsForward", "retire"} /\ pc' \in Ending \cup {"rowsForward"}
  BY <1>1 DEF Ending
<1>9. PipeTypeOK'
  <2>1. {pending', missing'} \subseteq BOOLEAN /\ completion' \in {"NotLaunched", "Unknown", "Complete"}
    BY <1>1, <1>2 DEF PipeTypeOK
  <2>. QED
    BY <1>1, <1>2, <1>3, <1>8, <2>1 DEF PipeTypeOK, Places, Ending, backendVars
<1>10. PlaceOK'
  BY <1>1, <1>2, <1>3, <1>5, <1>6, <1>8 DEF PlaceOK, Opening, Loading, Ending, backendVars
<1>11. LinesOK'
  BY <1>1, <1>2, <1>3, <1>4, <1>8 DEF LinesOK, Opening, Loading, Ending, backendVars
<1>12. EventsOK'
  BY <1>1, <1>2, <1>4, <1>8 DEF EventsOK, Loading, backendVars
<1>13. ArrivedOK'
  <2>1. arrived' = <<>> /\ arrived = <<>>
    BY <1>1, <1>2 DEF ArrivedOK
  <2>2. api = "inverse" => pc' \in Ending
    BY <1>1, <1>5, <1>6 DEF Ending
  <2>3. Len(arrived) = 0 /\ NumBuffers \in Nat \ {0} /\ k \in Nat \ {0}
    BY <1>2, <2>1, Shape DEF PipeTypeOK
  <2>. QED
    BY <1>1, <1>2, <1>3, <2>1, <2>2, <2>3, <1>8 DEF ArrivedOK, Opening, Ending
<1>14. ContentOK'
  <2>1. pc' = "rowsForward" => staging[0] = 1 /\ First = 1 /\ Landed(1)
    <3> SUFFICES ASSUME pc' = "rowsForward" PROVE staging[0] = 1 /\ First = 1 /\ Landed(1)
      OBVIOUS
    <3>1. api = "forward" /\ ~failed
      BY <1>1, <1>5
    <3>2. First = 1 /\ 1 \in First .. Newest
      BY <1>7, <3>1 DEF First
    <3>3. Landed(1)
      BY <1>6, <3>1, <3>2
    <3>4. Slot(1) = 0
      BY PipelineConstants DEF Slot
    <3>. QED
      BY <3>1, <3>2, <3>3, <3>4 DEF Landed, ToDevice
  <2>2. pc' \in {"rowsForward"} \cup Ending /\ pc \notin Ending
    BY <1>1, <1>8 DEF Ending
  <2>. QED
    BY <1>1, <1>2, <1>3, <1>4, <1>8, <2>1, <2>2 DEF ContentOK, Landed, First, backendVars
<1>15. EndOK'
  <2>1. pc' = "retire" => (\A c \in Chunks : dst[c] = c) /\ ~failed
    <3> SUFFICES ASSUME pc' = "retire" PROVE (\A c \in Chunks : dst[c] = c) /\ ~failed
      OBVIOUS
    <3>1. ~failed /\ api # "forward"
      BY <1>5, <1>6
    <3>2. CASE api = "inverse"
      <4>1. arrived = <<>>
        BY <1>1, <1>2 DEF ArrivedOK
      <4>2. First = k
        BY <1>2, <1>7, <3>2, <4>1 DEF First
      <4>3. First - 1 = Newest
        BY <1>7, <4>2
      <4>. QED
        BY <1>1, <1>2, <1>7, <3>1, <3>2, <4>3 DEF ArrivedOK, Ending
    <3>3. CASE api # "inverse"
      <4>1. ToDevice /\ First = 1
        BY <1>2, <3>1, <3>3, PipelineConstants DEF ToDevice, First, PipeTypeOK
      <4>. QED
        BY <1>6, <1>7, <3>1, <4>1 DEF Landed
    <3>. QED
      BY <3>2, <3>3
  <2>2. pc' = "retire" => IF api = "inverse" THEN ~pending' ELSE completion' = "Complete"
    <3> SUFFICES ASSUME pc' = "retire"
                 PROVE  IF api = "inverse" THEN ~pending' ELSE completion' = "Complete"
      OBVIOUS
    <3>1. ~failed /\ api # "forward"
      BY <1>5, <1>6
    <3>2. CASE api = "inverse"
      BY <1>1, <1>2, <3>1, <3>2 DEF ArrivedOK, Ending
    <3>3. CASE api # "inverse"
      <4>1. ToDevice
        BY <1>2, <3>1, <3>3, PipelineConstants DEF ToDevice, PipeTypeOK
      <4>. QED
        BY <1>1, <3>1, <3>3, <4>1
    <3>. QED
      BY <3>2, <3>3
  <2>3. ToDevice /\ completion' # "Unknown" => \A c \in 1 .. Newest : ~Flying(c)
    BY <1>2, <1>5, <1>6 DEF EndOK
  <2>4. api = "raw" /\ completion' = "Unknown" => pending'
    BY <1>1, <1>2, <1>5 DEF EndOK, ToDevice
  <2>5. pc' # "returned"
    BY <1>8
  <2>6. storage' = "held"
    BY <1>1, <1>2 DEF EndOK
  <2>. QED
    BY <1>1, <1>3, <1>4, <2>1, <2>2, <2>3, <2>4, <2>5, <2>6 DEF EndOK
<1>. QED
  BY <1>9, <1>10, <1>11, <1>12, <1>13, <1>14, <1>15 DEF PipelineInv

\* Idle queues carry no copy.
LEMMA IdleRests ==
  ASSUME PipeTypeOK, Idle
  PROVE  \A c : ~Flying(c)
<1> SUFFICES ASSUME NEW c, Flying(c) PROVE FALSE
  OBVIOUS
<1>1. PICK q \in Queues : \E i \in 1 .. Len(Lines[q]) : Lines[q][i].kind = "copy" /\ Lines[q][i].chunk = c
  BY DEF Flying
<1>2. PICK i \in 1 .. Len(Lines[q]) : Lines[q][i].kind = "copy" /\ Lines[q][i].chunk = c
  BY <1>1
<1>3. Lines[q] \in Seq(Task) /\ Lines[q] = Pending(q)
  BY LinesTyped DEF Lines
<1>4. i \in DOMAIN Pending(q)
  BY <1>3
<1>5. Pending(q)[i] \in InFlight
  BY <1>4 DEF InFlight
<1>. QED
  BY <1>5 DEF Idle

\* What proving the queues idle, or failing to, does.
LEMMA Quiesced ==
  ASSUME PipelineInv, quiesceComplete \/ quiesceUnknown
  PROVE  /\ UNCHANGED <<tasks, live, done, nextEvent>> /\ failed' \in BOOLEAN /\ (failed => failed')
         /\ quiesceComplete => \A c : ~Flying(c)
<1>1. failed \in BOOLEAN /\ PipeTypeOK
  BY DEF PipelineInv, PipeTypeOK
<1>2. CASE quiesceComplete
  BY <1>1, <1>2, IdleRests DEF quiesceComplete
<1>3. CASE quiesceUnknown
  <2>1. UNCHANGED <<tasks, live, done, nextEvent>> /\ failed' = TRUE
    BY <1>3 DEF quiesceUnknown, Fail
  <2>2. quiesceComplete => \A c : ~Flying(c)
    BY <1>1, IdleRests DEF quiesceComplete
  <2>. QED
    BY <2>1, <2>2
<1>. QED
  BY <1>2, <1>3

\* Past the loops only what the end of a call says can change.
LEMMA EndingKeeps ==
  ASSUME PipelineInv, pc \in Ending, pc' \in Ending, failed' \in BOOLEAN, failed => failed',
         UNCHANGED <<tasks, executing, live, done, nextEvent, api, ordered, produced, k, next, events,
                     pending, missing, staging, reading, dst, arrived>>
  PROVE  /\ LinesOK' /\ EventsOK' /\ ArrivedOK' /\ ContentOK'
         /\ Newest' = Newest /\ Chunks' = Chunks /\ ToDevice' = ToDevice /\ Owned' = Owned
         /\ Lines' = Lines /\ \A c : Flying(c)' <=> Flying(c)
<1>1. PipeTypeOK /\ PlaceOK /\ LinesOK /\ EventsOK /\ ArrivedOK /\ ContentOK /\ EndOK
  BY DEF PipelineInv
<1>2. /\ Newest' = Newest /\ Chunks' = Chunks /\ ToDevice' = ToDevice /\ Owned' = Owned
  BY SameCall
<1>3. /\ Lines' = Lines /\ \A c : Flying(c)' <=> Flying(c)
  BY LinesStay, SameFlights
<1>4. LinesOK'
  BY <1>1, <1>2, <1>3 DEF LinesOK, Opening, Loading, Ending
<1>5. EventsOK'
  BY <1>1, <1>2, <1>3 DEF EventsOK, Loading, Ending
<1>6. ArrivedOK'
  BY <1>1, <1>2, <1>3 DEF ArrivedOK, Opening, Ending
<1>7. ContentOK'
  BY <1>1, <1>2, <1>3 DEF ContentOK, Ending
<1>. QED
  BY <1>2, <1>3, <1>4, <1>5, <1>6, <1>7

LEMMA GuardKeeps ==
  ASSUME PipelineInv, Guard
  PROVE  PipelineInv'
<1>1. /\ UNCHANGED <<tasks, executing, live, done, nextEvent, api, ordered, produced, k, next, events,
                     pending, missing, staging, reading, dst, arrived, result, storage>>
      /\ pc = "guard" /\ pc' = "retire" /\ error' = TRUE
  BY DEF Guard, quiesceComplete, quiesceUnknown, callVars, poolVars
<1>2. PipeTypeOK /\ PlaceOK /\ EndOK
  BY DEF PipelineInv
<1>3. /\ failed' \in BOOLEAN /\ (failed => failed')
      /\ completion' # completion => completion' = "Complete" /\ \A c : ~Flying(c)
  <2>1. CASE completion = "Unknown" /\ quiesceComplete /\ completion' = "Complete"
    BY <2>1, Quiesced
  <2>2. CASE completion = "Unknown" /\ quiesceUnknown /\ UNCHANGED completion
    BY <2>2, Quiesced
  <2>3. CASE UNCHANGED <<failed, completion>>
    BY <1>2, <2>3 DEF PipeTypeOK
  <2>. QED
    BY <2>1, <2>2, <2>3 DEF Guard
<1>4. pc \in Ending /\ pc' \in Ending
  BY <1>1 DEF Ending
<1>5. /\ LinesOK' /\ EventsOK' /\ ArrivedOK' /\ ContentOK'
      /\ Newest' = Newest /\ Chunks' = Chunks /\ ToDevice' = ToDevice /\ Owned' = Owned
      /\ \A c : Flying(c)' <=> Flying(c)
  BY <1>1, <1>3, <1>4, EndingKeeps
<1>6. PipeTypeOK'
  <2>1. completion' \in {"NotLaunched", "Unknown", "Complete"}
    BY <1>2, <1>3 DEF PipeTypeOK
  <2>2. pc' \in Places
    BY <1>4 DEF Places
  <2>. QED
    BY <1>1, <1>2, <1>3, <1>5, <2>1, <2>2 DEF PipeTypeOK
<1>7. PlaceOK'
  BY <1>1, <1>2, <1>5 DEF PlaceOK, Opening, Loading, Ending
<1>8. EndOK'
  BY <1>1, <1>2, <1>3, <1>5 DEF EndOK
<1>. QED
  BY <1>5, <1>6, <1>7, <1>8 DEF PipelineInv

LEMMA RetireKeeps ==
  ASSUME PipelineInv, Retire
  PROVE  PipelineInv'
<1>1. /\ UNCHANGED <<tasks, executing, live, done, nextEvent, api, ordered, produced, k, next, events,
                     pending, missing, staging, reading, dst, arrived, completion, error>>
      /\ pc = "retire" /\ pc' = "returned"
      /\ result' = IF ~error THEN "ok" ELSE IF completion = "Unknown" THEN "unknown" ELSE "failed"
  BY DEF Retire, quiesceComplete, quiesceUnknown, callVars, poolVars
<1>2. PipeTypeOK /\ PlaceOK /\ EndOK
  BY DEF PipelineInv
<1> DEFINE busy == IF Owned THEN completion = "Unknown" ELSE pending /\ completion # "Complete"
<1>3. \/ ~busy /\ UNCHANGED failed
      \/ busy /\ storage' = "retained" /\ UNCHANGED failed
      \/ busy /\ quiesceComplete
      \/ busy /\ quiesceUnknown /\ storage' = "retained"
  BY DEF Retire
<1>4. failed' \in BOOLEAN /\ (failed => failed')
  <2>1. CASE UNCHANGED failed
    BY <1>2, <2>1 DEF PipeTypeOK
  <2>2. CASE quiesceComplete \/ quiesceUnknown
    BY <2>2, Quiesced
  <2>. QED
    BY <1>3, <2>1, <2>2
<1>5. pc \in Ending /\ pc' \in Ending
  BY <1>1 DEF Ending
<1>6. /\ LinesOK' /\ EventsOK' /\ ArrivedOK' /\ ContentOK'
      /\ Newest' = Newest /\ Chunks' = Chunks /\ ToDevice' = ToDevice /\ Owned' = Owned
      /\ \A c : Flying(c)' <=> Flying(c)
  BY <1>1, <1>4, <1>5, EndingKeeps
<1>7. PipeTypeOK'
  <2>1. pc' \in Places
    BY <1>5 DEF Places
  <2>. QED
    BY <1>1, <1>2, <1>4, <1>6, <2>1 DEF PipeTypeOK
<1>8. PlaceOK'
  BY <1>1, <1>2, <1>6 DEF PlaceOK, Opening, Loading, Ending
<1>9. ASSUME ToDevice, NEW c \in 1 .. Newest, Flying(c)
      PROVE  result' = "unknown" /\ storage' = "retained"
  <2>1. completion = "Unknown"
    BY <1>2, <1>9 DEF EndOK
  <2>2. error
    BY <1>1, <1>2, <1>9, <2>1 DEF EndOK, ToDevice
  <2>3. busy
    BY <1>2, <1>9, <2>1 DEF EndOK, ToDevice, Owned
  <2>4. ~quiesceComplete
    BY <1>2, <1>9, IdleRests DEF quiesceComplete
  <2> HIDE DEF busy
  <2>. QED
    BY <1>1, <1>3, <2>1, <2>2, <2>3, <2>4
<1>10. EndOK'
  BY <1>1, <1>2, <1>6, <1>9 DEF EndOK
<1>. QED
  BY <1>6, <1>7, <1>8, <1>10 DEF PipelineInv

\* The task that finishes, and what is on the queues without it.
LEMMA Leaving ==
  ASSUME PipelineInv, NEW q \in Queues, Finish(q)
  PROVE  \E t \in Task :
           /\ t = Lines[q][1] /\ t = executing[q][1] /\ produced
           /\ \A c : Flying(c)' => Flying(c)
           /\ \A c : Flying(c) => Flying(c)' \/ (t.kind = "copy" /\ c = t.chunk)
           /\ t.kind = "copy" => /\ Flying(t.chunk) /\ ~Flying(t.chunk)' /\ t.chunk \in 1 .. Newest
                                 /\ t.chunk < k \/ (t.chunk = k /\ pc \in {"record"} \cup Ending)
                                 /\ ~ToDevice => t.buf = Slot(t.chunk)
                                 /\ Delivered(q) = t.chunk
           /\ t.kind = "event" => t.ev \in 1 .. k - 1 /\ ~Flying(t.ev)'
           /\ \A r \in Queues : \A i \in 1 .. Len(Lines'[r]) : \E j \in 1 .. Len(Lines[r]) :
                Lines'[r][i] = Lines[r][j] /\ (r = q => j = i + 1) /\ (r # q => j = i)
<1>1. PipeTypeOK /\ PlaceOK /\ LinesOK /\ EventsOK /\ ArrivedOK /\ ContentOK /\ EndOK
  BY DEF PipelineInv
<1>2. TaskFinish(q) /\ (executing[q][1].kind = "wait" => produced)
  BY DEF Finish
<1>3. /\ executing[q] # <<>> /\ Lines[q] # <<>> /\ executing[q][1] = Lines[q][1] /\ 1 \in 1 .. Len(Lines[q])
      /\ \A r \in Queues : r # q => Lines'[r] = Lines[r]
      /\ \A i \in 1 .. Len(Lines'[q]) : i + 1 \in 1 .. Len(Lines[q]) /\ Lines'[q][i] = Lines[q][i + 1]
      /\ \A i \in 1 .. Len(Lines[q]) : i # 1 => i - 1 \in 1 .. Len(Lines'[q]) /\ Lines'[q][i - 1] = Lines[q][i]
  BY <1>1, <1>2, Finished
<1>4. PICK t \in Task : t = Lines[q][1] /\ t = executing[q][1]
  BY <1>1, <1>3, LinesTyped
<1>5. \A r \in Queues : \A i \in 1 .. Len(Lines'[r]) : \E j \in 1 .. Len(Lines[r]) :
        Lines'[r][i] = Lines[r][j] /\ (r = q => j = i + 1) /\ (r # q => j = i)
  <2> SUFFICES ASSUME NEW r \in Queues, NEW i \in 1 .. Len(Lines'[r])
               PROVE  \E j \in 1 .. Len(Lines[r]) :
                        Lines'[r][i] = Lines[r][j] /\ (r = q => j = i + 1) /\ (r # q => j = i)
    OBVIOUS
  <2>1. CASE r = q
    BY <1>3, <2>1
  <2>2. CASE r # q
    BY <1>3, <2>2
  <2>. QED
    BY <2>1, <2>2
<1>6. produced
  <2> SUFFICES ASSUME ~produced PROVE FALSE
    OBVIOUS
  <2>1. t = WaitTask
    BY <1>1, <1>3, <1>4 DEF LinesOK
  <2>. QED
    BY <1>2, <1>4, <2>1 DEF WaitTask
<1>7. ASSUME NEW c, Flying(c)'
      PROVE  Flying(c)
  <2>1. PICK r \in Queues : \E i \in 1 .. Len(Lines'[r]) : Lines'[r][i].kind = "copy" /\ Lines'[r][i].chunk = c
    BY <1>7 DEF Flying
  <2>2. PICK i \in 1 .. Len(Lines'[r]) : Lines'[r][i].kind = "copy" /\ Lines'[r][i].chunk = c
    BY <2>1
  <2>3. PICK j \in 1 .. Len(Lines[r]) : Lines[r][j].kind = "copy" /\ Lines[r][j].chunk = c
    BY <1>5, <2>2
  <2>. QED
    BY <2>3 DEF Flying
<1>8. ASSUME NEW c, Flying(c), ~(t.kind = "copy" /\ c = t.chunk)
      PROVE  Flying(c)'
  <2>1. PICK r \in Queues : \E i \in 1 .. Len(Lines[r]) : Lines[r][i].kind = "copy" /\ Lines[r][i].chunk = c
    BY <1>8 DEF Flying
  <2>2. PICK i \in 1 .. Len(Lines[r]) : Lines[r][i].kind = "copy" /\ Lines[r][i].chunk = c
    BY <2>1
  <2>3. PICK j \in 1 .. Len(Lines'[r]) : Lines'[r][j] = Lines[r][i]
    <3>1. CASE r = q
      <4>1. i # 1
        BY <1>4, <1>8, <2>2, <3>1
      <4>. QED
        BY <1>3, <3>1, <4>1
    <3>2. CASE r # q
      BY <1>3, <3>2
    <3>. QED
      BY <3>1, <3>2
  <2>. QED
    BY <2>2, <2>3 DEF Flying
<1>9. ASSUME NEW r \in Queues, NEW i \in 1 .. Len(Lines'[r]), Lines'[r][i].kind = "copy",
             \/ t.kind = "copy" /\ t.chunk = Lines'[r][i].chunk
             \/ t.kind = "event" /\ t.ev = Lines'[r][i].chunk
      PROVE  FALSE
  <2>1. PICK j \in 1 .. Len(Lines[r]) : Lines'[r][i] = Lines[r][j] /\ (r = q => j = i + 1) /\ (r # q => j = i)
    BY <1>5
  <2>2. PICK x \in Task : x = Lines[r][j] /\ x.kind = "copy" /\ x = Lines'[r][i]
    BY <1>1, <1>9, <2>1, LinesTyped
  <2>3. r = (x.chunk - 1) % NumQueues
    <3>1. Lines[r][j].kind = "copy" => r = (Lines[r][j].chunk - 1) % NumQueues
      BY <1>1 DEF LinesOK
    <3>. QED
      BY <2>2, <3>1
  <2>4. q = (x.chunk - 1) % NumQueues
    BY <1>1, <1>3, <1>4, <1>9, <2>2 DEF LinesOK
  <2>5. r = q /\ 1 < j
    <3>1. i \in Nat \ {0}
      OBVIOUS
    <3>. QED
      BY <2>1, <2>3, <2>4, <3>1
  <2>6. Rank(t) < Rank(x)
    BY <1>1, <1>3, <1>4, <2>2, <2>5 DEF LinesOK
  <2>7. x.chunk \in Nat /\ Rank(x) = 2 * x.chunk
    BY <2>2, TaskFacts DEF Rank
  <2>8. Rank(t) = 2 * x.chunk \/ Rank(t) = 2 * x.chunk + 1
    BY <1>9, <2>2 DEF Rank
  <2>. QED
    BY <2>6, <2>7, <2>8
<1>10. ASSUME t.kind = "copy"
       PROVE  /\ Flying(t.chunk) /\ ~Flying(t.chunk)' /\ t.chunk \in 1 .. Newest
              /\ t.chunk < k \/ (t.chunk = k /\ pc \in {"record"} \cup Ending)
              /\ ~ToDevice => t.buf = Slot(t.chunk)
              /\ Delivered(q) = t.chunk
  <2>1. Flying(t.chunk)
    BY <1>3, <1>4, <1>10 DEF Flying
  <2>2. ~Flying(t.chunk)'
    BY <1>9, <1>10 DEF Flying
  <2>3. /\ t.chunk \in 1 .. Newest /\ (t.chunk < k \/ (t.chunk = k /\ pc \in {"record"} \cup Ending))
        /\ ~ToDevice => t.buf = Slot(t.chunk)
    BY <1>1, <1>3, <1>4, <1>10 DEF LinesOK
  <2>4. reading[q] = t.chunk
    BY <1>1, <1>3, <1>4, <1>10 DEF ContentOK
  <2>5. ToDevice => staging[t.buf] = t.chunk
    BY <1>1, <1>3, <1>4, <1>10 DEF ContentOK
  <2>6. Delivered(q) = t.chunk
    BY <1>4, <1>6, <2>4, <2>5 DEF Delivered
  <2>. QED
    BY <2>1, <2>2, <2>3, <2>6
<1>11. ASSUME t.kind = "event"
       PROVE  t.ev \in 1 .. k - 1 /\ ~Flying(t.ev)'
  <2>1. t.ev \in 1 .. k - 1
    BY <1>1, <1>3, <1>4, <1>11 DEF LinesOK
  <2>2. ~Flying(t.ev)'
    BY <1>9, <1>11 DEF Flying
  <2>. QED
    BY <2>1, <2>2
<1>. QED
  BY <1>4, <1>5, <1>6, <1>7, <1>8, <1>10, <1>11

\* A submitted window is on its way or has arrived, and stays so: a copy
\* that finishes brings its window, and touches no other one.
LEMMA LandingKeeps ==
  ASSUME PipelineInv, NEW q \in Queues, Finish(q), pc \notin Ending,
         NEW c \in First .. k, c = k => pc = "record", c \in 1 .. Newest, Flying(c) \/ Landed(c)
  PROVE  Flying(c)' \/ Landed(c)'
<1>1. PipeTypeOK /\ PlaceOK /\ LinesOK /\ EventsOK /\ ArrivedOK /\ ContentOK /\ EndOK
  BY DEF PipelineInv
<1>2. PICK t \in Task :
        /\ t = executing[q][1] /\ produced
        /\ Flying(c) => Flying(c)' \/ (t.kind = "copy" /\ c = t.chunk)
        /\ t.kind = "copy" => /\ Flying(t.chunk) /\ t.chunk \in 1 .. Newest
                              /\ t.chunk < k \/ (t.chunk = k /\ pc \in {"record"} \cup Ending)
                              /\ ~ToDevice => t.buf = Slot(t.chunk)
                              /\ Delivered(q) = t.chunk
  BY Leaving
<1>3. /\ api' = api /\ ToDevice' = ToDevice /\ Chunks = 1 .. Newest
      /\ dst' = (IF t.kind = "copy" /\ ToDevice THEN [dst EXCEPT ![t.chunk] = Delivered(q)] ELSE dst)
      /\ staging' = (IF t.kind = "copy" /\ ~ToDevice THEN [staging EXCEPT ![t.buf] = Delivered(q)] ELSE staging)
      /\ dst \in [Chunks -> Int] /\ staging \in [Buffers -> Int]
  BY <1>1, <1>2, SameCall, Shape DEF Finish, callVars, PipeTypeOK
<1>4. CASE t.kind # "copy"
  BY <1>2, <1>3, <1>4 DEF Landed
<1>5. CASE t.kind = "copy" /\ ToDevice
  <2>1. dst' = [dst EXCEPT ![t.chunk] = t.chunk]
    BY <1>2, <1>3, <1>5
  <2>2. c = t.chunk => dst'[c] = c
    BY <1>3, <2>1
  <2>3. c # t.chunk => dst'[c] = dst[c]
    BY <1>3, <2>1
  <2>. QED
    BY <1>2, <1>3, <1>5, <2>2, <2>3 DEF Landed
<1>6. CASE t.kind = "copy" /\ ~ToDevice
  <2>1. PICK d \in Nat \ {0} : d = t.chunk /\ d \in 1 .. Newest
    <3>1. t.chunk \in 1 .. Newest
      BY <1>2, <1>6
    <3>2. PICK N \in Nat : N = Newest
      BY Shape
    <3>3. t.chunk \in Nat \ {0}
      BY <3>1, <3>2
    <3>. QED
      BY <3>1, <3>3
  <2>2. staging' = [staging EXCEPT ![Slot(d)] = d] /\ Slot(d) \in Buffers /\ Slot(c) \in Buffers
    <3>1. t.buf = Slot(d) /\ Delivered(q) = d
      BY <1>2, <1>6, <2>1
    <3>2. c \in Int /\ d \in Int
      <4>1. PICK N \in Nat : N = Newest
        BY Shape
      <4>. QED
        BY <2>1, <4>1
    <3>. QED
      BY <1>3, <1>6, <3>1, <3>2, Shape
  <2>3. c = d => staging'[Slot(c)] = c
    BY <1>3, <2>2
  <2>4. c # d => Slot(c) # Slot(d)
    <3> SUFFICES ASSUME c # d PROVE Slot(c) # Slot(d)
      OBVIOUS
    <3>1. CASE api = "forward"
      BY <2>1, <3>1 DEF Newest
    <3>2. CASE api = "inverse"
      <4>1. PICK n \in Nat, m \in Nat \ {0} : n = Len(arrived) /\ m = NumBuffers /\ n <= m /\ k \in Nat
        BY <1>1, Shape DEF ArrivedOK, PipeTypeOK
      <4>2. First = k - n
        BY <3>2, <4>1 DEF First
      <4>3. First <= d
        <5> SUFFICES ASSUME d < First PROVE FALSE
          BY <4>1, <4>2
        <5>1. d \in 1 .. First - 1
          BY <2>1, <4>1, <4>2
        <5>2. ~Flying(d)
          BY <1>1, <3>2, <5>1 DEF ArrivedOK
        <5>. QED
          BY <1>2, <1>6, <2>1, <5>2
      <4>4. d < k \/ (d = k /\ pc = "record")
        BY <1>2, <1>6, <2>1
      <4>5. pc = "record" => n < m
        BY <1>1, <4>1 DEF ArrivedOK
      <4>6. c \in Nat \ {0} /\ c >= k - n /\ d >= k - n
        BY <2>1, <4>1, <4>2, <4>3
      <4>7. CASE pc = "record"
        <5>1. c <= k /\ d <= k /\ n < m
          BY <4>1, <4>2, <4>4, <4>5, <4>7
        <5>2. d < c + m /\ c < d + m
          BY <2>1, <4>1, <4>6, <5>1
        <5>. QED
          BY <2>1, <4>1, <4>6, <5>2, SlotsDiffer
      <4>8. CASE pc # "record"
        <5>1. c < k /\ d < k
          BY <4>1, <4>2, <4>4, <4>8
        <5>2. d < c + m /\ c < d + m
          BY <2>1, <4>1, <4>6, <5>1
        <5>. QED
          BY <2>1, <4>1, <4>6, <5>2, SlotsDiffer
      <4>. QED
        BY <4>7, <4>8
    <3>. QED
      BY <1>1, <1>6, <3>1, <3>2, PipelineConstants DEF PipeTypeOK, ToDevice
  <2>5. c # d => staging'[Slot(c)] = staging[Slot(c)]
    BY <1>3, <2>2, <2>4
  <2>. QED
    BY <1>2, <1>3, <1>6, <2>1, <2>3, <2>5 DEF Landed
<1>. QED
  BY <1>4, <1>5, <1>6

\* A queue finishes a task.
LEMMA FinishKeeps ==
  ASSUME PipelineInv, NEW q \in Queues, Finish(q)
  PROVE  PipelineInv'
<1>1. /\ UNCHANGED <<tasks, live, nextEvent, failed, api, pc, ordered, produced, k, next, events, pending, missing,
                     arrived, completion, error, result, storage>>
      /\ executing' = [executing EXCEPT ![q] = <<>>]
      /\ done' = (IF executing[q][1].kind = "event" THEN done \cup {executing[q][1].ev} ELSE done)
      /\ reading' = [reading EXCEPT ![q] = 0]
  BY DEF Finish, TaskFinish, callVars, poolVars
<1>2. PipeTypeOK /\ PlaceOK /\ LinesOK /\ EventsOK /\ ArrivedOK /\ ContentOK /\ EndOK
  BY DEF PipelineInv
<1>3. /\ Newest' = Newest /\ Chunks' = Chunks /\ ToDevice' = ToDevice /\ Owned' = Owned
  BY <1>1, SameCall
<1>4. PICK t \in Task :
        /\ t = Lines[q][1] /\ t = executing[q][1] /\ produced
        /\ \A c : Flying(c)' => Flying(c)
        /\ \A c : Flying(c) => Flying(c)' \/ (t.kind = "copy" /\ c = t.chunk)
        /\ t.kind = "copy" => /\ Flying(t.chunk) /\ ~Flying(t.chunk)' /\ t.chunk \in 1 .. Newest
                              /\ t.chunk < k \/ (t.chunk = k /\ pc \in {"record"} \cup Ending)
                              /\ ~ToDevice => t.buf = Slot(t.chunk)
                              /\ Delivered(q) = t.chunk
        /\ t.kind = "event" => t.ev \in 1 .. k - 1 /\ ~Flying(t.ev)'
        /\ \A r \in Queues : \A i \in 1 .. Len(Lines'[r]) : \E j \in 1 .. Len(Lines[r]) :
             Lines'[r][i] = Lines[r][j] /\ (r = q => j = i + 1) /\ (r # q => j = i)
  BY Leaving
<1>5. /\ dst' = (IF t.kind = "copy" /\ ToDevice THEN [dst EXCEPT ![t.chunk] = t.chunk] ELSE dst)
      /\ staging' = (IF t.kind = "copy" /\ ~ToDevice THEN [staging EXCEPT ![t.buf] = t.chunk] ELSE staging)
      /\ dst \in [Chunks -> Int] /\ staging \in [Buffers -> Int] /\ Chunks = 1 .. Newest
      /\ t.kind = "copy" => t.chunk \in Int /\ t.buf \in Buffers
  <2>1. /\ dst' = (IF t.kind = "copy" /\ ToDevice THEN [dst EXCEPT ![t.chunk] = Delivered(q)] ELSE dst)
        /\ staging' = (IF t.kind = "copy" /\ ~ToDevice THEN [staging EXCEPT ![t.buf] = Delivered(q)] ELSE staging)
    BY <1>4 DEF Finish
  <2>2. t.kind = "copy" => t.chunk \in Int /\ t.buf \in Buffers
    BY TaskFacts
  <2>3. dst \in [Chunks -> Int] /\ staging \in [Buffers -> Int] /\ Chunks = 1 .. Newest
    BY <1>2, Shape DEF PipeTypeOK
  <2>4. t.kind = "copy" => Delivered(q) = t.chunk
    BY <1>4
  <2>. QED
    BY <2>1, <2>2, <2>3, <2>4
<1>6. PipeTypeOK'
  <2>1. executing' \in [Queues -> Seq(Task)] /\ \A r \in Queues : Len(executing'[r]) <= 1
    <3>1. <<>> \in Seq(Task) /\ Len(<<>>) = 0
      OBVIOUS
    <3>. QED
      BY <1>1, <1>2, <3>1 DEF PipeTypeOK
  <2>2. dst' \in [Chunks -> Int] /\ staging' \in [Buffers -> Int]
    <3>1. CASE t.kind = "copy" /\ ToDevice
      BY <1>5, <3>1
    <3>2. CASE t.kind = "copy" /\ ~ToDevice
      BY <1>5, <3>2
    <3>3. CASE t.kind # "copy"
      BY <1>5, <3>3
    <3>. QED
      BY <3>1, <3>2, <3>3
  <2>3. reading' \in [Queues -> Int]
    BY <1>1, <1>2 DEF PipeTypeOK
  <2>4. done' \subseteq Nat
    BY <1>1, <1>2, <1>4, TaskFacts DEF PipeTypeOK
  <2>. QED
    BY <1>1, <1>2, <1>3, <2>1, <2>2, <2>3, <2>4 DEF PipeTypeOK
<1>7. PlaceOK'
  BY <1>1, <1>2, <1>3 DEF PlaceOK
<1>8. LinesOK'
  <2>1. ASSUME NEW r \in Queues, NEW i \in 1 .. Len(Lines'[r]), NEW j \in 1 .. Len(Lines'[r]), i < j
        PROVE  Rank(Lines'[r][i]) < Rank(Lines'[r][j])
    <3>1. PICK x \in 1 .. Len(Lines[r]), y \in 1 .. Len(Lines[r]) :
            x < y /\ Lines'[r][i] = Lines[r][x] /\ Lines'[r][j] = Lines[r][y]
      <4>1. PICK x \in 1 .. Len(Lines[r]) : Lines'[r][i] = Lines[r][x] /\ (r = q => x = i + 1) /\ (r # q => x = i)
        BY <1>4
      <4>2. PICK y \in 1 .. Len(Lines[r]) : Lines'[r][j] = Lines[r][y] /\ (r = q => y = j + 1) /\ (r # q => y = j)
        BY <1>4
      <4>3. x < y
        BY <2>1, <4>1, <4>2
      <4>. QED
        BY <4>1, <4>2, <4>3
    <3>. QED
      BY <1>2, <3>1 DEF LinesOK
  <2>2. ASSUME NEW r \in Queues, NEW i \in 1 .. Len(Lines'[r])
        PROVE  LET x == Lines'[r][i] IN
               /\ x.kind = "copy" =>
                    /\ x.chunk \in 1 .. Newest /\ r = (x.chunk - 1) % NumQueues
                    /\ x.chunk < k \/ (x.chunk = k /\ pc \in {"record"} \cup Ending)
                    /\ x.chunk < k /\ ~failed => events[x.buf] = x.chunk
                    /\ x.chunk = k /\ pc = "record" => x.buf = next
                    /\ x.buf = next => pc \notin Loading
                    /\ ~ToDevice => x.buf = Slot(x.chunk)
               /\ x.kind = "event" => x.ev \in 1 .. k - 1 /\ r = (x.ev - 1) % NumQueues
    <3>1. PICK j \in 1 .. Len(Lines[r]) : Lines'[r][i] = Lines[r][j]
      BY <1>4
    <3>. QED
      BY <1>2, <3>1 DEF LinesOK
  <2>3. pc \notin Opening
    BY <1>2, QueueFront DEF LinesOK, Finish, TaskFinish
  <2>. QED
    BY <1>1, <1>3, <1>4, <2>1, <2>2, <2>3 DEF LinesOK
<1>9. EventsOK'
  <2>1. \A e \in done' : e \in 1 .. k - 1 /\ ~Flying(e)'
    BY <1>1, <1>2, <1>4 DEF EventsOK
  <2>. QED
    BY <1>1, <1>2, <2>1 DEF EventsOK
<1>10. ArrivedOK'
  <2>1. api = "inverse" => dst' = dst
    BY <1>5 DEF ToDevice
  <2>. QED
    BY <1>1, <1>2, <1>3, <1>4, <2>1 DEF ArrivedOK, First
<1>11. ContentOK'
  <2>1. ASSUME NEW r \in Queues, executing'[r] # <<>>, executing'[r][1].kind = "copy"
        PROVE  reading'[r] = executing'[r][1].chunk
    <3>1. r # q
      BY <1>1, <1>2, <2>1 DEF PipeTypeOK
    <3>. QED
      BY <1>1, <1>2, <2>1, <3>1 DEF PipeTypeOK, ContentOK
  <2>2. ASSUME ToDevice, NEW r \in Queues, NEW i \in 1 .. Len(Lines'[r]), Lines'[r][i].kind = "copy"
        PROVE  staging'[Lines'[r][i].buf] = Lines'[r][i].chunk
    <3>1. PICK j \in 1 .. Len(Lines[r]) : Lines'[r][i] = Lines[r][j]
      BY <1>4
    <3>. QED
      BY <1>2, <1>5, <2>2, <3>1 DEF ContentOK
  <2>3. First' = First /\ First \in Nat \ {0} /\ k \in Nat /\ k <= Newest + 1 /\ Newest \in Nat
    <3>1. Len(arrived) \in Nat /\ k \in Nat \ {0} /\ Len(arrived) < k
      BY <1>2 DEF ArrivedOK, PipeTypeOK
    <3>2. k - Len(arrived) \in Nat \ {0}
      BY <3>1
    <3>. QED
      BY <1>1, <1>2, <3>1, <3>2, Shape DEF First, PlaceOK
  <2>4. ASSUME pc \notin Ending, NEW c \in First .. k - 1
        PROVE  Flying(c)' \/ Landed(c)'
    <3>1. c \in First .. k /\ c # k /\ c \in 1 .. Newest
      BY <2>3
    <3>2. Flying(c) \/ Landed(c)
      BY <1>2, <2>4 DEF ContentOK
    <3>. QED
      BY <2>4, <3>1, <3>2, LandingKeeps
  <2>5. ASSUME pc = "record", ~failed
        PROVE  Flying(k)' \/ Landed(k)'
    <3>1. k <= Newest
      BY <1>2, <2>5 DEF PlaceOK
    <3>2. First <= k
      BY <1>2, <2>3 DEF First, PipeTypeOK
    <3>3. PICK c \in Nat : c = k
      BY <2>3
    <3>4. c \in First .. k /\ c \in 1 .. Newest /\ pc \notin Ending
      BY <2>3, <2>5, <3>1, <3>2, <3>3 DEF Ending
    <3>5. Flying(c) \/ Landed(c)
      BY <1>2, <2>5, <3>3 DEF ContentOK
    <3>6. Flying(c)' \/ Landed(c)'
      BY <2>5, <3>4, <3>5, LandingKeeps
    <3>7. c = k'
      BY <1>1, <3>3
    <3>. QED
      BY <3>6, <3>7 DEF Flying, Landed
  <2>6. pc = "submit" /\ ToDevice => staging'[next] = k
    BY <1>2, <1>5 DEF ContentOK
  <2>7. pc = "rowsForward" => staging'[0] = 1
    <3> SUFFICES ASSUME pc = "rowsForward" PROVE staging'[0] = 1
      OBVIOUS
    <3>1. staging[0] = 1 /\ Newest = 1
      BY <1>2 DEF ContentOK, PlaceOK, Newest
    <3>2. t.kind = "copy" => t.chunk = 1
      BY <1>4, <3>1
    <3>3. 0 \in Buffers
      BY Shape
    <3>. QED
      BY <1>5, <3>1, <3>2, <3>3
  <2>. QED
    BY <1>1, <1>3, <2>1, <2>2, <2>3, <2>4, <2>5, <2>6, <2>7 DEF ContentOK, Landed, Flying
<1>12. EndOK'
  <2>1. (\A c \in Chunks : dst[c] = c) => \A c \in Chunks : dst'[c] = c
    BY <1>5
  <2>. QED
    BY <1>1, <1>2, <1>3, <1>4, <2>1 DEF EndOK
<1>. QED
  BY <1>6, <1>7, <1>8, <1>9, <1>10, <1>11, <1>12 DEF PipelineInv

LEMMA PipelineStart == Init => PipelineInv
<1> SUFFICES ASSUME Init PROVE PipelineInv
  OBVIOUS
<1>1. /\ tasks = [q \in Queues |-> <<>>] /\ executing = [q \in Queues |-> <<>>]
      /\ live = {} /\ done = {} /\ nextEvent = 1 /\ failed = FALSE
      /\ api \in Apis /\ ordered \in BOOLEAN /\ (ordered => Owned) /\ produced = ~ordered
      /\ pc = "start" /\ k = 1 /\ next = -1 /\ events = [b \in Buffers |-> 0]
      /\ pending = FALSE /\ missing = FALSE /\ staging = [b \in Buffers |-> 0]
      /\ reading = [q \in Queues |-> 0] /\ dst = [c \in Chunks |-> 0] /\ arrived = <<>>
      /\ completion = "NotLaunched" /\ error = FALSE /\ result = "running" /\ storage = "held"
  BY DEF Init, BackendInit
<1>2. \A q \in Queues : Lines[q] = <<>>
  <2>1. <<>> \o <<>> = <<>>
    OBVIOUS
  <2>. QED
    BY <1>1, <2>1 DEF Lines, Pending
<1>3. \A q \in Queues : \A i : i \notin 1 .. Len(Lines[q])
  <2>1. Len(<<>>) = 0
    OBVIOUS
  <2>. QED
    BY <1>2, <2>1
<1>4. \A c : ~Flying(c)
  BY <1>3 DEF Flying
<1>5. PICK N \in Nat \ {0}, B \in Nat \ {0} : N = Newest /\ B = NumBuffers
  BY Shape
<1>6. Len(arrived) = 0 /\ First = 1
  BY <1>1 DEF First
<1>7. PipeTypeOK
  <2>1. \A q \in Queues : tasks[q] = <<>> /\ executing[q] = <<>>
    BY <1>1
  <2>2. <<>> \in Seq(Task) /\ Len(<<>>) <= 1 /\ <<>> \in Seq([buf : Buffers, ev : Nat, chunk : Nat])
    OBVIOUS
  <2>3. tasks \in [Queues -> Seq(Task)] /\ executing \in [Queues -> Seq(Task)]
    BY <1>1, <2>1, <2>2
  <2>4. next \in -1 .. NumBuffers - 1
    BY <1>1, <1>5
  <2>5. {ordered, produced, pending, missing, error, failed} \subseteq BOOLEAN
    BY <1>1
  <2>. QED
    BY <1>1, <2>1, <2>2, <2>3, <2>4, <2>5 DEF PipeTypeOK, Places, Opening
<1>8. PlaceOK
  <2>1. ~produced => ordered
    BY <1>1
  <2>2. k <= Newest + 1 /\ k <= Newest
    BY <1>1, <1>5
  <2>. QED
    BY <1>1, <2>1, <2>2 DEF PlaceOK, Opening, Loading, Ending
<1>9. LinesOK
  BY <1>1, <1>2, <1>3 DEF LinesOK, Opening
<1>10. EventsOK
  BY <1>1 DEF EventsOK, Loading
<1>11. ArrivedOK
  <2>1. (next + 1) % NumBuffers = Slot(k)
    BY <1>1 DEF Slot
  <2>. QED
    BY <1>1, <1>4, <1>5, <1>6, <2>1 DEF ArrivedOK, Opening, Loading
<1>12. ContentOK
  BY <1>1, <1>3, <1>6 DEF ContentOK
<1>13. EndOK
  BY <1>1, <1>4 DEF EndOK, ToDevice
<1>. QED
  BY <1>7, <1>8, <1>9, <1>10, <1>11, <1>12, <1>13 DEF PipelineInv

LEMMA PipelineRests ==
  ASSUME PipelineInv, UNCHANGED vars
  PROVE  PipelineInv'
<1>1. /\ UNCHANGED <<tasks, executing, live, done, nextEvent, failed, api, pc, ordered, produced, k, next, events,
                     pending, missing, staging, reading, dst, arrived, completion, error, result, storage>>
  BY DEF vars, backendVars, poolVars
<1>2. /\ Lines' = Lines /\ \A c : Flying(c)' <=> Flying(c)
  BY <1>1, LinesStay, SameFlights
<1>3. /\ Newest' = Newest /\ Chunks' = Chunks /\ ToDevice' = ToDevice /\ Owned' = Owned
  BY <1>1, SameCall
<1>4. PipeTypeOK'
  BY <1>1, <1>2, <1>3 DEF PipelineInv, PipeTypeOK
<1>5. PlaceOK'
  BY <1>1, <1>2, <1>3 DEF PipelineInv, PlaceOK
<1>6. LinesOK'
  BY <1>1, <1>2, <1>3 DEF PipelineInv, LinesOK
<1>7. EventsOK'
  BY <1>1, <1>2, <1>3 DEF PipelineInv, EventsOK
<1>8. ArrivedOK'
  BY <1>1, <1>2, <1>3 DEF PipelineInv, ArrivedOK, First
<1>9. ContentOK'
  BY <1>1, <1>2, <1>3 DEF PipelineInv, ContentOK, First, Landed
<1>10. EndOK'
  BY <1>1, <1>2, <1>3 DEF PipelineInv, EndOK
<1>. QED
  BY <1>4, <1>5, <1>6, <1>7, <1>8, <1>9, <1>10 DEF PipelineInv

\* The staging pipeline keeps its order for all numbers of windows, buffers
\* and queues and whatever fails: a buffer is handed out again only when no
\* copy with it is on a queue, a window counts as arrived only when its bytes
\* are there, a copy that still runs when the call has returned is one the
\* caller was told is unknown, and then its staging is retained.
THEOREM PipelineInvariant == Spec => []PipelineInv
<1>1. Init => PipelineInv
  BY PipelineStart
<1>2. PipelineInv /\ [Next]_vars => PipelineInv'
  <2> SUFFICES ASSUME PipelineInv, [Next]_vars PROVE PipelineInv'
    OBVIOUS
  <2>1. CASE Start
    BY <2>1, StartKeeps
  <2>2. CASE Order
    BY <2>2, OrderKeeps
  <2>3. CASE AcquireSlot
    BY <2>3, AcquireKeeps
  <2>4. CASE Fill
    BY <2>4, FillKeeps
  <2>5. CASE Gather
    BY <2>5, GatherKeeps
  <2>6. CASE Submit
    BY <2>6, SubmitKeeps
  <2>7. CASE Record
    BY <2>7, RecordKeeps
  <2>8. CASE ScatterWait
    BY <2>8, ScatterWaitKeeps
  <2>9. CASE ScatterRows
    BY <2>9, ScatterRowsKeeps
  <2>10. CASE Drain
    BY <2>10, DrainKeeps
  <2>11. CASE Drained
    BY <2>11, DrainedKeeps
  <2>12. CASE GatherForward
    BY <2>12, GatherForwardKeeps
  <2>13. CASE Guard
    BY <2>13, GuardKeeps
  <2>14. CASE Retire
    BY <2>14, RetireKeeps
  <2>15. CASE Produce
    BY <2>15, ProduceKeeps
  <2>16. ASSUME NEW q \in Queues, Begin(q)
         PROVE  PipelineInv'
    BY <2>16, BeginKeeps
  <2>17. ASSUME NEW q \in Queues, Finish(q)
         PROVE  PipelineInv'
    BY <2>17, FinishKeeps
  <2>18. CASE UNCHANGED vars
    BY <2>18, PipelineRests
  <2>. QED
    BY <2>1, <2>2, <2>3, <2>4, <2>5, <2>6, <2>7, <2>8, <2>9, <2>10, <2>11, <2>12, <2>13, <2>14, <2>15, <2>16,
       <2>17, <2>18 DEF Next, Driver, Queue
<1>. QED
  BY <1>1, <1>2, PTL DEF Spec

\* The windows of the destination that have their bytes.
Moved == {c \in 1 .. NumChunks : IF api = "forward" THEN dst[1] = 1 ELSE dst[c] = c}

\* Bytes that arrive while staging is not freed are a step of the promise.
LEMMA MovesOn ==
  ASSUME result \in {"running", "unknown"}, storage # "freed", Moved \subseteq Moved',
         UNCHANGED <<result, storage>>
  PROVE  Promise!Next
<1>1. Moved' \in SUBSET (1 .. NumChunks) /\ Moved' = Moved \cup Moved'
  BY DEF Moved
<1>2. Promise!Move
  BY <1>1 DEF Promise!Move, Moved
<1>. QED
  BY <1>2 DEF Promise!Next

\* A window that gets its bytes has them, and the others keep theirs.
LEMMA WindowMoves ==
  ASSUME NEW c \in Chunks, dst \in [Chunks -> Int], api' = api, dst' = [dst EXCEPT ![c] = c]
  PROVE  Moved \subseteq Moved'
<1>1. \A d \in Chunks : dst'[d] = IF d = c THEN c ELSE dst[d]
  OBVIOUS
<1>2. CASE api = "forward"
  <2>1. c = 1 /\ dst'[1] = 1
    BY <1>1, <1>2 DEF Chunks
  <2>. QED
    BY <1>2, <2>1 DEF Moved
<1>3. CASE api # "forward"
  <2>1. Chunks = 1 .. NumChunks
    BY <1>3 DEF Chunks
  <2>. QED
    BY <1>1, <1>3, <2>1 DEF Moved
<1>. QED
  BY <1>2, <1>3

LEMMA FinishPromised ==
  ASSUME PipelineInv, NEW q \in Queues, Finish(q)
  PROVE  [Promise!Next]_(Promise!vars)
<1>1. UNCHANGED <<api, result, storage, pc>>
  BY DEF Finish, callVars
<1>2. PICK t \in Task :
        /\ t = executing[q][1]
        /\ t.kind = "copy" => Flying(t.chunk) /\ t.chunk \in 1 .. Newest /\ Delivered(q) = t.chunk
  BY Leaving
<1>3. dst' = IF t.kind = "copy" /\ ToDevice THEN [dst EXCEPT ![t.chunk] = Delivered(q)] ELSE dst
  BY <1>2 DEF Finish
<1>4. CASE t.kind = "copy" /\ ToDevice
  <2>1. PICK c \in Chunks : c = t.chunk
    BY <1>2, <1>4, Shape
  <2>2. dst' = [dst EXCEPT ![c] = c] /\ dst \in [Chunks -> Int]
    BY <1>2, <1>3, <1>4, <2>1 DEF PipelineInv, PipeTypeOK
  <2>3. Moved \subseteq Moved'
    BY <1>1, <2>2, WindowMoves
  <2>4. CASE pc = "returned"
    <3>1. result = "unknown" /\ storage = "retained"
      BY <1>2, <1>4, <2>4 DEF PipelineInv, EndOK
    <3>. QED
      BY <1>1, <2>3, <3>1, MovesOn
  <2>5. CASE pc # "returned"
    <3>1. result = "running" /\ storage = "held"
      BY <2>5 DEF PipelineInv, EndOK, PlaceOK
    <3>. QED
      BY <1>1, <2>3, <3>1, MovesOn
  <2>. QED
    BY <2>4, <2>5
<1>5. CASE ~(t.kind = "copy" /\ ToDevice)
  BY <1>1, <1>3, <1>5 DEF Promise!vars
<1>. QED
  BY <1>4, <1>5

LEMMA ScatterPromised ==
  ASSUME PipelineInv, ScatterRows
  PROVE  Promise!Next
<1>1. /\ pc = "rows" /\ UNCHANGED <<api, result, storage>>
      /\ dst' = [dst EXCEPT ![Head(arrived).chunk] = staging[Head(arrived).buf]]
  BY DEF ScatterRows, callVars
<1>2. result = "running" /\ storage = "held" /\ api = "inverse" /\ arrived # <<>> /\ dst \in [Chunks -> Int]
      /\ k <= Newest + 1
  BY <1>1 DEF PipelineInv, EndOK, PlaceOK, ArrivedOK, PipeTypeOK
<1>3. /\ First \in 1 .. k - 1 /\ staging[Slot(First)] = First
      /\ Head(arrived) = [buf |-> Slot(First), ev |-> First, chunk |-> First]
  BY <1>1, <1>2, Oldest, OldestLanded
<1>4. PICK c \in Chunks : c = First
  <2>1. PICK N \in Nat : N = Newest /\ Chunks = 1 .. N
    BY Shape
  <2>2. k \in Nat
    BY DEF PipelineInv, PipeTypeOK
  <2>. QED
    BY <1>2, <1>3, <2>1, <2>2
<1>5. dst' = [dst EXCEPT ![c] = c]
  <2>1. Head(arrived).chunk = c /\ Head(arrived).buf = Slot(c)
    BY <1>3, <1>4
  <2>2. staging[Slot(c)] = c
    BY <1>3, <1>4
  <2>. QED
    BY <1>1, <2>1, <2>2
<1>6. Moved \subseteq Moved'
  BY <1>1, <1>2, <1>5, WindowMoves
<1>. QED
  BY <1>1, <1>2, <1>6, MovesOn

LEMMA GatherPromised ==
  ASSUME PipelineInv, GatherForward
  PROVE  Promise!Next
<1>1. /\ pc = "rowsForward" /\ UNCHANGED <<api, result, storage>> /\ dst' = [dst EXCEPT ![1] = staging[0]]
  BY DEF GatherForward, callVars
<1>2. /\ result = "running" /\ storage = "held" /\ staging[0] = 1 /\ dst \in [Chunks -> Int]
  BY <1>1 DEF PipelineInv, EndOK, PlaceOK, ContentOK, PipeTypeOK
<1>3. 1 \in Chunks
  <2>1. PICK N \in Nat \ {0} : Chunks = 1 .. N
    BY Shape
  <2>. QED
    BY <2>1
<1>4. dst' = [dst EXCEPT ![1] = 1]
  BY <1>1, <1>2
<1>5. Moved \subseteq Moved'
  BY <1>1, <1>2, <1>3, <1>4, WindowMoves
<1>. QED
  BY <1>1, <1>2, <1>5, MovesOn

LEMMA RetirePromised ==
  ASSUME PipelineInv, Retire
  PROVE  Promise!Next
<1>1. /\ pc = "retire" /\ UNCHANGED <<api, dst>>
      /\ result' = IF ~error THEN "ok" ELSE IF completion = "Unknown" THEN "unknown" ELSE "failed"
  BY DEF Retire, callVars
<1>2. result = "running"
  BY <1>1 DEF PipelineInv, PlaceOK
<1>3. storage' \in {"freed", "retained"}
  BY DEF Retire
<1>4. ASSUME result' = "ok"
      PROVE  Moved = 1 .. NumChunks /\ storage' = "freed"
  <2>1. ~error
    BY <1>1, <1>4
  <2>2. /\ \A c \in Chunks : dst[c] = c
        /\ IF api = "inverse" THEN ~pending ELSE completion = "Complete"
    BY <1>1, <2>1 DEF PipelineInv, EndOK
  <2>3. storage' = "freed"
    <3>1. CASE api = "inverse"
      BY <2>2, <3>1 DEF Retire, Owned
    <3>2. CASE api # "inverse"
      BY <2>2, <3>2 DEF Retire, Owned
    <3>. QED
      BY <3>1, <3>2
  <2>4. Moved = 1 .. NumChunks
    <3>1. CASE api = "forward"
      <4>1. dst[1] = 1
        BY <2>2, <3>1 DEF Chunks
      <4>. QED
        BY <3>1, <4>1 DEF Moved
    <3>2. CASE api # "forward"
      BY <2>2, <3>2 DEF Moved, Chunks
    <3>. QED
      BY <3>1, <3>2
  <2>. QED
    BY <2>3, <2>4
<1>5. Moved' = Moved
  BY <1>1 DEF Moved
<1>6. result' \in {"ok", "failed", "unknown"}
  BY <1>1
<1>7. Promise!End
  BY <1>2, <1>3, <1>4, <1>5, <1>6 DEF Promise!End, Moved
<1>. QED
  BY <1>7 DEF Promise!Next

\* Whatever the queues, the ring and the failures do, a call keeps what a
\* transfer promises its caller (executeTransfer, executeH2DPipelined,
\* executeD2HPipelined): success means that every window has its bytes, and
\* after success, an ordinary failure or freed staging nothing moves.
THEOREM TransfersKeepPromise == Spec => PromiseSpec
<1>1. Init => Promise!Init
  <2> SUFFICES ASSUME Init PROVE Promise!Init
    OBVIOUS
  <2>1. result = "running" /\ storage = "held" /\ dst = [c \in Chunks |-> 0]
    BY DEF Init
  <2>2. Moved = {}
    <3>1. \A c \in Chunks : dst[c] = 0
      BY <2>1
    <3>2. CASE api = "forward"
      <4>1. dst[1] # 1
        BY <3>1, <3>2 DEF Chunks
      <4>. QED
        BY <3>2, <4>1 DEF Moved
    <3>3. CASE api # "forward"
      <4>1. \A c \in 1 .. NumChunks : dst[c] # c
        BY <3>1, <3>3 DEF Chunks
      <4>. QED
        BY <3>3, <4>1 DEF Moved
    <3>. QED
      BY <3>2, <3>3
  <2>. QED
    BY <2>1, <2>2 DEF Promise!Init, Moved
<1>2. PipelineInv /\ [Next]_vars => [Promise!Next]_(Promise!vars)
  <2> SUFFICES ASSUME PipelineInv, [Next]_vars PROVE [Promise!Next]_(Promise!vars)
    OBVIOUS
  <2>1. CASE UNCHANGED <<api, dst, result, storage>>
    BY <2>1 DEF Promise!vars
  <2>2. CASE ScatterRows
    BY <2>2, ScatterPromised
  <2>3. CASE GatherForward
    BY <2>3, GatherPromised
  <2>4. CASE Retire
    BY <2>4, RetirePromised
  <2>5. ASSUME NEW q \in Queues, Finish(q)
        PROVE  [Promise!Next]_(Promise!vars)
    BY <2>5, FinishPromised
  <2>6. \/ UNCHANGED <<api, dst, result, storage>>
        \/ ScatterRows \/ GatherForward \/ Retire
        \/ \E q \in Queues : Finish(q)
    <3>1. Start \/ Order \/ AcquireSlot \/ Fill \/ Gather \/ Submit \/ Record
            => UNCHANGED <<api, dst, result, storage>>
      BY DEF Start, Order, AcquireSlot, Fill, Gather, Submit, Record, callVars
    <3>2. ScatterWait \/ Drain \/ Drained \/ Guard \/ Produce => UNCHANGED <<api, dst, result, storage>>
      BY DEF ScatterWait, Drain, Drained, Guard, Produce, callVars
    <3>3. \A q \in Queues : Begin(q) => UNCHANGED <<api, dst, result, storage>>
      BY DEF Begin, callVars
    <3>4. UNCHANGED vars => UNCHANGED <<api, dst, result, storage>>
      BY DEF vars
    <3>. QED
      BY <3>1, <3>2, <3>3, <3>4 DEF Next, Driver, Queue
  <2>. QED
    BY <2>1, <2>2, <2>3, <2>4, <2>5, <2>6
<1>. QED
  BY <1>1, <1>2, PipelineInvariant, PTL DEF Spec, PromiseSpec, Promise!Spec

=============================================================================
