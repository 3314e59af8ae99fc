---------------------------- MODULE TransferResourceCache ----------------------------
(***************************************************************************)
(* The bounded cache of native transfer contexts                           *)
(* (libreloc/src/TransferResourceCache.cpp) and the context it leases      *)
(* (TransferResources.cpp).  Caller threads run executeTransferCached,     *)
(* clear and close against one CacheState.                                 *)
(*                                                                         *)
(* One action is one critical section of CacheState::mu together with the  *)
(* thread-private work that precedes it.  The interleavings that matter    *)
(* are therefore all present: construction, execution and retirement run   *)
(* outside the mutex, and evict/clear drop the mutex around retire().      *)
(***************************************************************************)
EXTENDS Integers, Sequences, SequencesExt, Charges

CONSTANTS
  Threads,              \* caller threads
  Slots,                \* names for the cache's Entry objects
  None,                 \* no entry / no request
  Devices, Keys,        \* ResourceKey, abstracted to a name
  DeviceOf,             \* [Keys -> Devices]: the part sameDevice() compares
  SlotsOf,              \* [Keys -> Nat]: ResourceKey::activeSlots
  WorkersOf,            \* [Keys -> Nat]: owned gather workers of a key
  Capacities,           \* rounded slot capacities callers may ask for
  MaxContexts, MaxContextsPerDevice, MaxBackgroundWorkers,
  MaxRetainedBytes, MaxLiveStagingBytes,     \* TransferResourceLimits
  AcquireTimeout,       \* BOOLEAN: limits.acquireTimeout has a value
  MaxGeneration         \* numeric_limits<uint64_t>::max() for generation

ASSUME CacheConstants ==
  /\ None \notin Slots
  /\ IsFiniteSet(Slots)
  /\ Keys # {}
  /\ DeviceOf \in [Keys -> Devices]
  /\ SlotsOf \in [Keys -> Nat \ {0}]
  /\ WorkersOf \in [Keys -> Nat]
  /\ Capacities \subseteq Nat \ {0}
  /\ MaxContexts \in Nat
  /\ MaxContexts <= Cardinality(Slots)
  /\ MaxContextsPerDevice \in Nat
  /\ MaxBackgroundWorkers \in Nat
  /\ MaxRetainedBytes \in Nat
  /\ MaxLiveStagingBytes \in Nat
  /\ AcquireTimeout \in BOOLEAN
  /\ MaxGeneration \in Nat

VARIABLES
  entry,        \* entries: slot -> Entry record
  older,        \* slot -> idle slots with a smaller lastUse
  queue,        \* the FIFO of Waiters, head first
  sleeping,     \* threads blocked in cv.wait / cv.wait_until
  closed, generation,
  pc,           \* where a caller thread is
  req,          \* the CacheRequest a thread is serving
  held,         \* the entry a thread leases or retires
  waited,       \* acquire()'s local
  cutoff,       \* clear()'s local; 0 outside clear()
  closing       \* clear()'s argument

vars == <<entry, older, queue, sleeping, closed, generation,
          pc, req, held, waited, cutoff, closing>>

(***************************************************************************)
(* Entries                                                                 *)
(***************************************************************************)
States == {"Absent", "Building", "Leased", "Idle", "Retiring", "Quarantined"}

Request == [key : Keys, slotCapacity : Capacities]

Bytes(key, capacity) == SlotsOf[key] * capacity

\* CacheRequest::cacheable: the whole ring fits in the retained budget.
Cacheable(key, capacity) == Bytes(key, capacity) <= MaxRetainedBytes

Entry == [state : States, key : Keys, capacity : Nat, allocated : Nat,
          generation : Nat, born : Nat, unknown : BOOLEAN]

Vacant == [state |-> "Absent", key |-> CHOOSE k \in Keys : TRUE,
           capacity |-> 0, allocated |-> 0, generation |-> 0, born |-> 0,
           unknown |-> FALSE]

Live == {s \in Slots : entry[s].state # "Absent"}
Quarantined == {s \in Slots : entry[s].state = "Quarantined"}
Idle == {s \in Slots : entry[s].state = "Idle"}

\* Entries of S on the device of key (ResourceKey::sameDevice).
OnDevice(S, key) == {s \in S : DeviceOf[entry[s].key] = DeviceOf[key]}

(***************************************************************************)
(* usage(): what a set of entries is charged.  An entry is charged its     *)
(* reservation (allocated + (bytes - allocated)) from admission until      *)
(* retire() erases it; a quarantined one for ever.                         *)
(***************************************************************************)
EntryBytes == [s \in Slots |-> Bytes(entry[s].key, entry[s].capacity)]
EntryWorkers == [s \in Slots |-> WorkersOf[entry[s].key]]
CacheableOf(S) == {s \in S : Cacheable(entry[s].key, entry[s].capacity)}

LiveBytes(S) == Total(S, EntryBytes)
RetainedBytes(S) == Total(CacheableOf(S), EntryBytes)
Workers(S) == Total(S, EntryWorkers)

\* exceeds(): used + added > limit, without overflowing size_t.
Exceeds(used, added, limit) == added > limit \/ used > limit - added

\* What admitting r adds: a new context, or only the delta of growing g.
AddedContexts(g) == IF g = None THEN 1 ELSE 0
AddedWorkers(r, g) == IF g = None THEN WorkersOf[r.key] ELSE 0
AddedBytes(r, g) ==
  Bytes(r.key, r.slotCapacity) - (IF g = None THEN 0 ELSE EntryBytes[g])
AddedRetained(r, g) ==
  IF Cacheable(r.key, r.slotCapacity) THEN AddedBytes(r, g) ELSE 0

\* The five limits fits() tests, counting the entries in S.
NeedContexts(r, g, S) == Exceeds(Cardinality(S), AddedContexts(g), MaxContexts)
NeedDevice(r, g, S) ==
  Exceeds(Cardinality(OnDevice(S, r.key)), AddedContexts(g), MaxContextsPerDevice)
NeedWorkers(r, g, S) ==
  Exceeds(Workers(S), AddedWorkers(r, g), MaxBackgroundWorkers)
NeedRetained(r, g, S) ==
  Exceeds(RetainedBytes(S), AddedRetained(r, g), MaxRetainedBytes)
NeedLive(r, g, S) == Exceeds(LiveBytes(S), AddedBytes(r, g), MaxLiveStagingBytes)

\* Defect: fits() forgets the live staging limit.
FitsWithoutLive(r, g, S) ==
  /\ ~NeedContexts(r, g, S)
  /\ ~NeedDevice(r, g, S)
  /\ ~NeedWorkers(r, g, S)
  /\ ~NeedRetained(r, g, S)

Fits(r, g, S) ==
  /\ ~NeedContexts(r, g, S)
  /\ ~NeedDevice(r, g, S)
  /\ ~NeedWorkers(r, g, S)
  /\ ~NeedRetained(r, g, S)
  /\ ~NeedLive(r, g, S)

(***************************************************************************)
(* acquire(): the choices made under the mutex                             *)
(***************************************************************************)
\* Idle entries a cacheable request may reuse.
Compatible(r) ==
  {s \in Idle : Cacheable(r.key, r.slotCapacity) /\ entry[s].key = r.key}

\* Defect: any idle entry of the key counts as large enough.
SufficientAnyCapacity(r) == Compatible(r)

\* The smallest idle entries large enough, and the largest too small.
Sufficient(r) ==
  LET big == {s \in Compatible(r) : entry[s].capacity >= r.slotCapacity}
  IN  {s \in big : \A x \in big : entry[s].capacity <= entry[x].capacity}
Growable(r) ==
  LET small == {s \in Compatible(r) : entry[s].capacity < r.slotCapacity}
  IN  {s \in small : \A x \in small : entry[s].capacity >= entry[x].capacity}
GrowTargets(r) == IF Growable(r) = {} THEN {None} ELSE Growable(r)

\* Idle entries whose eviction relieves a limit that keeps r out.
Helpful(r, g) ==
  {s \in Idle \ {g} :
     \/ NeedContexts(r, g, Live)
     \/ NeedDevice(r, g, Live) /\ DeviceOf[entry[s].key] = DeviceOf[r.key]
     \/ NeedWorkers(r, g, Live) /\ WorkersOf[entry[s].key] > 0
     \/ NeedRetained(r, g, Live) /\ Cacheable(entry[s].key, entry[s].capacity)
     \/ NeedLive(r, g, Live)}
LeastRecent(S) == {s \in S : older[s] \cap S = {}}

\* The errors acquire() reports before it looks for a context.
Refused(r) ==
  \/ closed                                        \* resources_closed
  \/ OnDevice(Quarantined, r.key) # {}             \* resources_disabled
  \/ ~Fits(r, None, Quarantined)                   \* resource_limit

Unlink(q, t) == RemoveAt(q, CHOOSE i \in DOMAIN q : q[i] = t)

\* lastUse order: an entry that becomes idle is younger than every idle one.
EnterIdle(s) == older' = [older EXCEPT ![s] = Idle]
LeaveIdle(s) == older' = [x \in Slots |-> IF x = s THEN {} ELSE older[x] \ {s}]

(***************************************************************************)
(* Initial state: an empty open cache, every caller outside it             *)
(***************************************************************************)
Init ==
  /\ entry = [s \in Slots |-> Vacant]
  /\ older = [s \in Slots |-> {}]
  /\ queue = <<>>
  /\ sleeping = {}
  /\ closed = FALSE
  /\ generation = 0
  /\ pc = [t \in Threads |-> "idle"]
  /\ req = [t \in Threads |-> None]
  /\ held = [t \in Threads |-> None]
  /\ waited = [t \in Threads |-> FALSE]
  /\ cutoff = [t \in Threads |-> 0]
  /\ closing = [t \in Threads |-> FALSE]

(***************************************************************************)
(* One iteration of acquire()'s loop for thread t, whose Waiter is linked  *)
(* in q.  Waiter::remove() notifies every sleeper.                         *)
(***************************************************************************)
\* Defect: an error return leaves the queue without notifying anybody.
AcquireErrorSilent(t, r, q, w) ==
  /\ Refused(r) \/ (w /\ AcquireTimeout)
  /\ queue' = Unlink(q, t)
  /\ pc' = [pc EXCEPT ![t] = "idle"]
  /\ req' = [req EXCEPT ![t] = None]
  /\ waited' = [waited EXCEPT ![t] = FALSE]
  /\ UNCHANGED <<entry, older, sleeping, closed, generation, held, cutoff, closing>>

\* Return an error: closed, disabled, over a hard limit, or timed out.
AcquireError(t, r, q, w) ==
  /\ Refused(r) \/ (w /\ AcquireTimeout)
  /\ queue' = Unlink(q, t)
  /\ sleeping' = {}
  /\ pc' = [pc EXCEPT ![t] = "idle"]
  /\ req' = [req EXCEPT ![t] = None]
  /\ waited' = [waited EXCEPT ![t] = FALSE]
  /\ UNCHANGED <<entry, older, closed, generation, held, cutoff, closing>>

\* Lease entry s, leaving the queue; the lease continues at next.
Grant(t, r, q, s, next) ==
  /\ queue' = Unlink(q, t)
  /\ sleeping' = {}
  /\ pc' = [pc EXCEPT ![t] = next]
  /\ req' = [req EXCEPT ![t] = r]
  /\ held' = [held EXCEPT ![t] = s]
  /\ waited' = [waited EXCEPT ![t] = FALSE]
  /\ UNCHANGED <<closed, generation, cutoff, closing>>

Hit(t, r, q) ==
  \E s \in Sufficient(r) :
    /\ entry' = [entry EXCEPT ![s].state = "Leased"]
    /\ LeaveIdle(s)
    /\ Grant(t, r, q, s, "execute")

\* Growth keeps the old allocation and reserves only the difference.
Grow(t, r, q) ==
  /\ Sufficient(r) = {}
  /\ \E g \in Growable(r) :
       /\ Fits(r, g, Live)
       /\ entry' = [entry EXCEPT ![g].state = "Building",
                                 ![g].capacity = r.slotCapacity,
                                 ![g].generation = generation]
       /\ LeaveIdle(g)
       /\ Grant(t, r, q, g, "free")

Miss(t, r, q) ==
  /\ Sufficient(r) = {}
  /\ Growable(r) = {}
  /\ Fits(r, None, Live)
  /\ \E s \in Slots \ Live :
       /\ entry' = [entry EXCEPT ![s] =
                      [Vacant EXCEPT !.state = "Building", !.key = r.key,
                                     !.capacity = r.slotCapacity,
                                     !.generation = generation,
                                     !.born = generation]]
       /\ Grant(t, r, q, s, "build")
  /\ UNCHANGED older

\* Nothing fits: retire the least recently used idle entry that helps.  The
\* caller keeps its place in the queue while the mutex is dropped.
Evict(t, r, q, w) ==
  /\ Sufficient(r) = {}
  /\ \E g \in GrowTargets(r) :
       /\ ~Fits(r, g, Live)
       /\ \E v \in LeastRecent(Helpful(r, g)) :
            /\ entry' = [entry EXCEPT ![v].state = "Retiring"]
            /\ LeaveIdle(v)
            /\ held' = [held EXCEPT ![t] = v]
  /\ queue' = q
  /\ sleeping' = sleeping
  /\ pc' = [pc EXCEPT ![t] = "evict"]
  /\ req' = [req EXCEPT ![t] = r]
  /\ waited' = [waited EXCEPT ![t] = w]
  /\ UNCHANGED <<closed, generation, cutoff, closing>>

\* Not at the head, or the head has nothing to take or evict: cv.wait_until.
Wait(t, r, q) ==
  /\ q[1] = t => /\ Sufficient(r) = {}
                 /\ \E g \in GrowTargets(r) : ~Fits(r, g, Live) /\ Helpful(r, g) = {}
  /\ queue' = q
  /\ sleeping' = sleeping \cup {t}
  /\ pc' = [pc EXCEPT ![t] = "acquire"]
  /\ req' = [req EXCEPT ![t] = r]
  /\ waited' = [waited EXCEPT ![t] = TRUE]
  /\ UNCHANGED <<entry, older, closed, generation, held, cutoff, closing>>

AcquireLoop(t, r, q, w) ==
  \/ AcquireError(t, r, q, w)
  \/ /\ ~Refused(r)
     /\ \/ /\ q[1] = t
           /\ Hit(t, r, q) \/ Grow(t, r, q) \/ Miss(t, r, q) \/ Evict(t, r, q, w)
        \/ Wait(t, r, q)

\* executeTransferCached() claims the request and enters acquire(): the
\* Waiter is linked and the first iteration runs in one critical section.
Call(t) ==
  /\ pc[t] = "idle"
  /\ \E r \in Request : AcquireLoop(t, r, Append(queue, t), FALSE)

Acquire(t) ==
  /\ pc[t] = "acquire"
  /\ t \notin sleeping
  /\ AcquireLoop(t, req[t], queue, waited[t])

\* A spurious wakeup, or the deadline of an acquire().
Wake(t) ==
  /\ t \in sleeping
  /\ sleeping' = sleeping \ {t}
  /\ UNCHANGED <<entry, older, queue, closed, generation, pc, req, held,
                 waited, cutoff, closing>>

(***************************************************************************)
(* run(): construct the leased context outside the mutex, then execute     *)
(***************************************************************************)
\* Defect: growth allocates the new ring beside the old one.
FreeStagingSkipped(t) ==
  /\ pc[t] = "free"
  /\ pc' = [pc EXCEPT ![t] = "build"]
  /\ UNCHANGED <<entry, older, queue, sleeping, closed, generation, req, held,
                 waited, cutoff, closing>>

\* Defect: the freed bytes are computed from the capacity growth already set.
FreeStagingNewSize(t) ==
  /\ pc[t] = "free"
  /\ entry' = [entry EXCEPT ![held[t]].allocated = @ - EntryBytes[held[t]]]
  /\ pc' = [pc EXCEPT ![t] = "build"]
  /\ UNCHANGED <<older, queue, sleeping, closed, generation, req, held,
                 waited, cutoff, closing>>

\* prepare() frees the old staging of a grown context before it allocates.
FreeStaging(t) ==
  /\ pc[t] = "free"
  /\ entry' = [entry EXCEPT ![held[t]].allocated = 0]
  /\ pc' = [pc EXCEPT ![t] = "build"]
  /\ UNCHANGED <<older, queue, sleeping, closed, generation, req, held,
                 waited, cutoff, closing>>

\* The staging ring is allocated one slot at a time.
AllocateSlot(t) ==
  /\ pc[t] = "build"
  /\ entry[held[t]].allocated < EntryBytes[held[t]]
  /\ entry' = [entry EXCEPT ![held[t]].allocated = @ + entry[held[t]].capacity]
  /\ UNCHANGED <<older, queue, sleeping, closed, generation, pc, req, held,
                 waited, cutoff, closing>>

\* finish() of a lease that may not be kept: the entry becomes Retiring and
\* the lease holder retires it outside the mutex.
StartRetire(t, unknown) ==
  /\ entry' = [entry EXCEPT ![held[t]].state = "Retiring",
                            ![held[t]].unknown = unknown]
  /\ pc' = [pc EXCEPT ![t] = "retire"]
  /\ UNCHANGED <<older, queue, sleeping, closed, generation, req, held,
                 waited, cutoff, closing>>

\* The backend factory, a staging allocation or a worker fails.
BuildFails(t) ==
  /\ pc[t] \in {"free", "build"}
  /\ StartRetire(t, FALSE)

DeviceDisabled(key) == OnDevice(Quarantined, key) # {}

\* Publish the constructed context, unless the cache closed or its device
\* was disabled during construction.
Built(t) ==
  /\ pc[t] = "build"
  /\ entry[held[t]].allocated = EntryBytes[held[t]]
  /\ IF closed \/ DeviceDisabled(entry[held[t]].key)
     THEN StartRetire(t, FALSE)
     ELSE /\ entry' = [entry EXCEPT ![held[t]].state = "Leased"]
          /\ pc' = [pc EXCEPT ![t] = "execute"]
          /\ UNCHANGED <<older, queue, sleeping, closed, generation, req, held,
                         waited, cutoff, closing>>

\* Defect: a lease returned after clear() goes back to idle.
RetainableAnyGeneration(s) ==
  /\ Cacheable(entry[s].key, entry[s].capacity)
  /\ ~closed
  /\ ~DeviceDisabled(entry[s].key)

\* Defect: a lease returned after a quarantine goes back to idle.
RetainableDisabled(s) ==
  /\ Cacheable(entry[s].key, entry[s].capacity)
  /\ ~closed
  /\ entry[s].generation = generation

\* finish(healthy): keep the context idle, or retire it.
Retainable(s) ==
  /\ Cacheable(entry[s].key, entry[s].capacity)
  /\ ~closed
  /\ entry[s].generation = generation
  /\ ~DeviceDisabled(entry[s].key)

\* The transfer ends: without error, with an error whose completion is
\* established, or with completion unknown.
Execute(t) ==
  /\ pc[t] = "execute"
  /\ \E outcome \in {"ok", "error", "unknown"} :
       IF outcome = "ok" /\ Retainable(held[t])
       THEN /\ entry' = [entry EXCEPT ![held[t]].state = "Idle"]
            /\ EnterIdle(held[t])
            /\ sleeping' = {}
            /\ pc' = [pc EXCEPT ![t] = "idle"]
            /\ req' = [req EXCEPT ![t] = None]
            /\ held' = [held EXCEPT ![t] = None]
            /\ UNCHANGED <<queue, closed, generation, waited, cutoff, closing>>
       ELSE StartRetire(t, outcome = "unknown")

\* Defect: quarantined staging is no longer charged.
RetireUncharged(t) ==
  /\ pc[t] \in {"evict", "retire", "drop"}
  /\ entry' = [entry EXCEPT ![held[t]] =
                 IF @.unknown
                 THEN [@ EXCEPT !.state = "Quarantined", !.capacity = 0,
                                !.allocated = 0]
                 ELSE Vacant]
  /\ sleeping' = {}
  /\ pc' = [pc EXCEPT ![t] = CASE pc[t] = "evict"  -> "acquire"
                               [] pc[t] = "retire" -> "idle"
                               [] pc[t] = "drop"   -> "clear"]
  /\ req' = [req EXCEPT ![t] = IF pc[t] = "evict" THEN @ ELSE None]
  /\ held' = [held EXCEPT ![t] = None]
  /\ UNCHANGED <<older, queue, closed, generation, waited, cutoff, closing>>

\* Defect: retire() frees a context without notifying the waiters.
RetireSilent(t) ==
  /\ pc[t] \in {"evict", "retire", "drop"}
  /\ entry' = [entry EXCEPT ![held[t]] =
                 IF @.unknown THEN [@ EXCEPT !.state = "Quarantined"] ELSE Vacant]
  /\ pc' = [pc EXCEPT ![t] = CASE pc[t] = "evict"  -> "acquire"
                               [] pc[t] = "retire" -> "idle"
                               [] pc[t] = "drop"   -> "clear"]
  /\ req' = [req EXCEPT ![t] = IF pc[t] = "evict" THEN @ ELSE None]
  /\ held' = [held EXCEPT ![t] = None]
  /\ UNCHANGED <<older, queue, sleeping, closed, generation, waited, cutoff, closing>>

\* retire(): close the context outside the mutex; erase the entry, or keep it
\* charged for ever when its completion is unknown.
Retire(t) ==
  /\ pc[t] \in {"evict", "retire", "drop"}
  /\ entry' = [entry EXCEPT ![held[t]] =
                 IF @.unknown THEN [@ EXCEPT !.state = "Quarantined"] ELSE Vacant]
  /\ sleeping' = {}
  /\ pc' = [pc EXCEPT ![t] = CASE pc[t] = "evict"  -> "acquire"
                               [] pc[t] = "retire" -> "idle"
                               [] pc[t] = "drop"   -> "clear"]
  /\ req' = [req EXCEPT ![t] = IF pc[t] = "evict" THEN @ ELSE None]
  /\ held' = [held EXCEPT ![t] = None]
  /\ UNCHANGED <<older, queue, closed, generation, waited, cutoff, closing>>

(***************************************************************************)
(* clear() and close()                                                     *)
(***************************************************************************)
\* Defect: close() does not wait for entries in retirement.
ActiveNotRetiring == {s \in Slots : entry[s].state \in {"Building", "Leased"}}

Active == {s \in Slots : entry[s].state \in {"Building", "Leased", "Retiring"}}
\* Defect: clear() retires every older entry, leased or not.
StaleLive(cut) == {s \in Live : entry[s].generation < cut}

Stale(cut) == {s \in Idle : entry[s].generation < cut}

\* One iteration of clear(closing)'s loop; asleep is the set still waiting.
ClearLoop(t, cut, close, asleep) ==
  \/ \E v \in Stale(cut) :
       /\ entry' = [entry EXCEPT ![v].state = "Retiring"]
       /\ LeaveIdle(v)
       /\ held' = [held EXCEPT ![t] = v]
       /\ sleeping' = asleep
       /\ pc' = [pc EXCEPT ![t] = "drop"]
       /\ cutoff' = [cutoff EXCEPT ![t] = cut]
       /\ closing' = [closing EXCEPT ![t] = close]
       /\ UNCHANGED <<queue, req, waited>>
  \/ /\ Stale(cut) = {}
     /\ close /\ (Active # {} \/ queue # <<>>)
     /\ sleeping' = asleep \cup {t}
     /\ pc' = [pc EXCEPT ![t] = "clear"]
     /\ cutoff' = [cutoff EXCEPT ![t] = cut]
     /\ closing' = [closing EXCEPT ![t] = close]
     /\ UNCHANGED <<entry, older, queue, held, req, waited>>
  \/ /\ Stale(cut) = {}
     /\ ~(close /\ (Active # {} \/ queue # <<>>))
     /\ sleeping' = asleep
     /\ pc' = [pc EXCEPT ![t] = "idle"]
     /\ cutoff' = [cutoff EXCEPT ![t] = 0]
     /\ closing' = [closing EXCEPT ![t] = FALSE]
     /\ UNCHANGED <<entry, older, queue, held, req, waited>>

\* clear() of a closed cache and an exhausted generation return at once.
Clear(t, close) ==
  /\ pc[t] = "idle"
  /\ ~closed \/ close
  /\ closed \/ generation < MaxGeneration
  /\ generation' = IF closed THEN generation ELSE generation + 1
  /\ closed' = (closed \/ close)
  /\ ClearLoop(t, generation', close, {})

ClearAgain(t) ==
  /\ pc[t] = "clear"
  /\ t \notin sleeping
  /\ ClearLoop(t, cutoff[t], closing[t], sleeping)
  /\ UNCHANGED <<generation, closed>>

Step(t) ==
  \/ Acquire(t) \/ FreeStaging(t) \/ AllocateSlot(t) \/ BuildFails(t)
  \/ Built(t) \/ Execute(t) \/ Retire(t) \/ ClearAgain(t)

Next ==
  \E t \in Threads :
    Call(t) \/ Clear(t, FALSE) \/ Clear(t, TRUE) \/ Wake(t) \/ Step(t)

Spec == Init /\ [][Next]_vars

\* A caller inside the cache is scheduled, its transfer ends and its backend
\* constructs or fails; nobody is obliged to call, and no wakeup is spurious
\* by obligation.
Fairness == \A t \in Threads : WF_vars(Step(t))
FairSpec == Spec /\ Fairness
-----------------------------------------------------------------------------
(***************************************************************************)
(* Properties                                                              *)
(***************************************************************************)
PCs == {"idle", "acquire", "evict", "free", "build", "execute", "retire",
        "clear", "drop"}

\* Every variable of CacheState and every caller's local stays in its type.
TypeOK ==
  /\ entry \in [Slots -> Entry]
  /\ older \in [Slots -> SUBSET Slots]
  /\ queue \in Seq(Threads)
  /\ sleeping \in SUBSET Threads
  /\ closed \in BOOLEAN
  /\ generation \in Nat
  /\ pc \in [Threads -> PCs]
  /\ req \in [Threads -> Request \cup {None}]
  /\ held \in [Threads -> Slots \cup {None}]
  /\ waited \in [Threads -> BOOLEAN]
  /\ cutoff \in [Threads -> Nat]
  /\ closing \in [Threads -> BOOLEAN]

\* The state an entry must be in while a caller at p holds it.
HeldState(p) ==
  CASE p \in {"free", "build"} -> "Building"
    [] p = "execute" -> "Leased"
    [] p \in {"evict", "retire", "drop"} -> "Retiring"
    [] OTHER -> "Absent"

\* Where a caller is agrees with what it holds, serves and waits for.
CallerOK(t) ==
  /\ held[t] # None <=>
       pc[t] \in {"evict", "free", "build", "execute", "retire", "drop"}
  /\ pc[t] \in {"acquire", "evict", "free", "build", "execute"} =>
       req[t] \in Request
  /\ pc[t] \in {"acquire", "evict"} => \E i \in DOMAIN queue : queue[i] = t
CallerState == \A t \in Threads : CallerOK(t)

\* One exclusive lease per execution: two callers never hold one entry, a
\* holder's entry is in the state its step needs, and an entry outside Idle
\* and Quarantined belongs to a caller that will still release it, whatever
\* eviction, clear(), close() and failing transfers run meanwhile.
ExclusiveLease ==
  /\ \A t, u \in Threads : t # u /\ held[t] # None => held[t] # held[u]
  /\ \A t \in Threads :
       held[t] # None => entry[held[t]].state = HeldState(pc[t])
  /\ \A s \in Active : \E t \in Threads : held[t] = s

\* Every limit holds in every state: entries being built, grown, retired and
\* quarantined stay charged to the cache and to their device, and the bytes a
\* growth reserves are never given to a second admission.  Staging really
\* allocated never exceeds what its entry reserved, so usage()'s unsigned
\* bytes - allocated cannot wrap and the budgets bound physical memory also
\* between a growth's free and its reallocation.
HardLimits ==
  /\ \A s \in Slots : entry[s].allocated <= EntryBytes[s]
  /\ Cardinality(Live) <= MaxContexts
  /\ \A k \in Keys : Cardinality(OnDevice(Live, k)) <= MaxContextsPerDevice
  /\ Workers(Live) <= MaxBackgroundWorkers
  /\ RetainedBytes(Live) <= MaxRetainedBytes
  /\ LiveBytes(Live) <= MaxLiveStagingBytes

\* A transfer executes on a context of its own key, completely constructed
\* and at least as large as the request, whether it hit, grew or built it.
LeaseServesRequest ==
  \A t \in Threads :
    pc[t] = "execute" =>
      /\ entry[held[t]].key = req[t].key
      /\ entry[held[t]].capacity >= req[t].slotCapacity
      /\ entry[held[t]].allocated = EntryBytes[held[t]]

\* An idle context of an older generation exists only while the clear() or
\* close() that outdated it is still running: a lease returned late is never
\* published as idle.
NoStaleIdle ==
  \A s \in Idle :
    \/ entry[s].generation = generation
    \/ \E t \in Threads : entry[s].generation < cutoff[t]

\* Once every close() has returned, a closed cache holds no context but the
\* quarantined ones and no waiter, and nothing is admitted any more.
CloseDrains ==
  closed /\ (\A t \in Threads : ~closing[t]) =>
    /\ Live = Quarantined
    /\ queue = <<>>
    /\ \A t \in Threads : pc[t] \in {"idle", "clear", "drop"}

\* Every context is accounted for: within the limits, fit for the request it
\* serves, never idle past a clear(), and gone after close().
ContextsAccounted == HardLimits /\ LeaseServesRequest /\ NoStaleIdle /\ CloseDrains

\* The cache implements its budget: every step of every caller is a bounded
\* reservation, a bounded growth, a release, a quarantine, or no change of any
\* charge; quarantined charges are never released.
Charged == [s \in Slots |->
              [used |-> entry[s].state # "Absent", key |-> entry[s].key,
               capacity |-> entry[s].capacity,
               permanent |-> entry[s].state = "Quarantined"]]
Budget == INSTANCE ResourceBudget WITH charge <- Charged
BudgetSpec == Budget!Spec

\* Once a transfer of unknown completion is quarantined, no context of that
\* device is leased or becomes idle again, although constructions and
\* executions on it were under way.
QuarantineDisablesDevice ==
  [][\A s \in Slots :
       /\ entry'[s].state \in {"Leased", "Idle"}
       /\ entry[s].state # entry'[s].state
       => ~DeviceDisabled(entry'[s].key)]_entry

\* Nobody waits for ever: a caller inside acquire() gets a lease or an error,
\* with or without a timeout, as long as the transfers ahead of it end; and
\* close() and clear() return although callers keep arriving and fail.
CallsEnd ==
  \A t \in Threads :
    /\ pc[t] \in {"acquire", "evict"} ~> pc[t] \notin {"acquire", "evict"}
    /\ pc[t] \in {"clear", "drop"} ~> pc[t] = "idle"

\* What the header says of clear(): once no clear() is running, every idle
\* context was constructed after the last one ("Evict idle resources; older
\* building/active leases retire on return").
ClearEvictsEveryIdleContext ==
  (\A t \in Threads : cutoff[t] = 0) =>
    \A s \in Idle : entry[s].born = generation
=============================================================================
