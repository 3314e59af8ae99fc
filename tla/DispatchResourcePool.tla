------------------------ MODULE DispatchResourcePool ------------------------
(***************************************************************************)
(* Admission of typed dispatches to a fixed set of one-context engines     *)
(* (libreloc/src/DispatchResourcePool.cpp) and the completions that own    *)
(* their leases (DispatchResources.cpp).  Caller threads run execute(),    *)
(* submit(), clear() and close(), and wait for or drop the handles that    *)
(* submit() returned.                                                      *)
(*                                                                         *)
(* One action is one critical section of Pool::mu, or one of an engine's   *)
(* mutex.  A lease is a shared_ptr: refs[s] are its owners, and the thread *)
(* that drops the last one runs Pool::release().                           *)
(***************************************************************************)
EXTENDS Integers, Sequences, SequencesExt, Charges

CONSTANTS
  Threads, Handles,     \* callers, and names for live Completion objects
  None,
  Contexts,             \* maxContexts: slots are 1 .. Contexts
  Keys, DeviceOf,       \* Pool::Key, abstracted to a name, and its device
  StreamsOf, WorkersOf, \* [Keys -> Nat]: streams, owned + borrowed workers
  MaxStreams, MaxWorkers, PerDevice,
  Timeout,              \* BOOLEAN: acquireTimeoutMs has a value
  Abandon,              \* BOOLEAN: callers drop handles they did not wait for
  MaxDrains             \* bound on clear() and close() calls

Slots == 1 .. Contexts

ASSUME PoolConstants ==
  /\ None \notin Threads \cup Handles
  /\ Threads \cap Handles = {}
  /\ Contexts \in Nat \ {0}
  /\ Keys # {} /\ None \notin Keys
  /\ StreamsOf \in [Keys -> Nat \ {0}]
  /\ WorkersOf \in [Keys -> Nat]
  /\ MaxStreams \in Nat /\ MaxStreams >= Contexts
  /\ MaxWorkers \in Nat
  /\ PerDevice \in 1 .. Contexts
  /\ Timeout \in BOOLEAN /\ Abandon \in BOOLEAN
  /\ MaxDrains \in Nat

VARIABLES
  keyOf, active,     \* Slot::key, Slot::active
  lru,               \* slots by lastUse, oldest first
  pending,           \* Slot::pending, a weak_ptr
  refs,              \* owners of the slot's Lease
  engine,            \* the slot's Resources: open or quarantined
  work,              \* Handles -> the Completion's state and slot
  kept,              \* handles a caller still owns
  queue, sleeping,
  closed, clearing, quarantined,
  mu,                \* None, or a thread that blocked on Pool::mu it owns
  drains,
  pc, role,          \* where a thread is, and for whom it finishes work
  want,              \* the Key a thread asks for
  at,                \* the slot a thread leases or releases
  target,            \* the Completion a thread finishes or polls
  failed             \* the error finish() brought back

poolVars == <<keyOf, active, lru, pending, quarantined>>
leaseVars == <<refs, engine, work, kept>>
queueVars == <<queue, closed, clearing, drains>>
threadVars == <<pc, role, want, at, target, failed>>
vars == <<poolVars, leaseVars, queueVars, sleeping, mu, threadVars>>

(***************************************************************************)
(* Quotas and the choice of a slot                                         *)
(***************************************************************************)
\* share(): aggregate limits are divided into fixed quotas.
Share(total, s) ==
  total \div Contexts + (IF s - 1 < total % Contexts THEN 1 ELSE 0)

FitsSlot(k, s) ==
  /\ StreamsOf[k] <= Share(MaxStreams, s)
  /\ WorkersOf[k] <= Share(MaxWorkers, s)

\* Slots that hold a configuration of k's device, idle ones included.
Resident(k) ==
  {s \in Slots : keyOf[s] # None /\ DeviceOf[keyOf[s]] = DeviceOf[k]}
DeviceFull(k) == Cardinality(Resident(k)) >= PerDevice

Free(k) == {s \in Slots : ~active[s] /\ FitsSlot(k, s)}
Exact(k) == {s \in Free(k) : keyOf[s] = k}
\* Defect: a configuration of another device is replaced at the device cap.
ReplaceableAnyDevice(k) == {s \in Free(k) : keyOf[s] # k}

Replaceable(k) ==
  {s \in Free(k) : keyOf[s] # k /\ (DeviceFull(k) => s \in Resident(k))}

Position(s) == CHOOSE i \in DOMAIN lru : lru[i] = s
Oldest(S) == {s \in S : \A x \in S : Position(s) <= Position(x)}

\* The first exact match, else the last unkeyed slot, else the oldest.
Choice(k) ==
  LET blank == {s \in Replaceable(k) : keyOf[s] = None}
  IN  IF Exact(k) # {} THEN {s \in Exact(k) : \A x \in Exact(k) : s <= x}
      ELSE IF blank # {} THEN {s \in blank : \A x \in blank : x <= s}
      ELSE Oldest(Replaceable(k))

Touch(s) == lru' = Append(SelectSeq(lru, LAMBDA x : x # s), s)

(***************************************************************************)
(* Completions                                                             *)
(***************************************************************************)
Outcomes == {"ok", "error", "unknown"}
\* A name that no strong or weak reference denotes any more.
Unreferenced(c) ==
  /\ ~kept[c]
  /\ \A t \in Threads : target[t] # c
  /\ \A s \in Slots : pending[s] # c

\* Strong references: the caller's handle, and threads inside wait()/query().
Strong(c) == kept[c] \/ \E t \in Threads : target[t] = c /\ role[t] # "destroy"

\* weak_ptr::lock() on a slot's pending completion.
Lockable(s) == pending[s] # None /\ Strong(pending[s])

\* The oldest pending submission whose end could let k in.
PendingFor(k) ==
  Oldest({s \in Slots : /\ active[s] /\ Lockable(s)
                        /\ DeviceFull(k) => s \in Resident(k)})

Init ==
  /\ keyOf = [s \in Slots |-> None]
  /\ active = [s \in Slots |-> FALSE]
  /\ lru = [s \in Slots |-> s]
  /\ pending = [s \in Slots |-> None]
  /\ refs = [s \in Slots |-> {}]
  /\ engine = [s \in Slots |-> "open"]
  /\ work = [c \in Handles |-> [state |-> "ok", slot |-> 1]]
  /\ kept = [c \in Handles |-> FALSE]
  /\ queue = <<>> /\ sleeping = {}
  /\ closed = FALSE /\ clearing = FALSE /\ quarantined = FALSE
  /\ mu = None /\ drains = 0
  /\ pc = [t \in Threads |-> "idle"]
  /\ role = [t \in Threads |-> "none"]
  /\ want = [t \in Threads |-> None]
  /\ at = [t \in Threads |-> None]
  /\ target = [t \in Threads |-> None]
  /\ failed = [t \in Threads |-> FALSE]

(***************************************************************************)
(* Pool::acquire                                                           *)
(***************************************************************************)
Unlink(q, t) == SelectSeq(q, LAMBDA u : u # t)

\* remove() and an error return.
AcquireError(t, q) ==
  /\ queue' = Unlink(q, t)
  /\ sleeping' = {}
  /\ pc' = [pc EXCEPT ![t] = "idle"]
  /\ role' = [role EXCEPT ![t] = "none"]
  /\ want' = [want EXCEPT ![t] = None]
  /\ target' = [target EXCEPT ![t] = None]
  /\ failed' = [failed EXCEPT ![t] = FALSE]
  /\ UNCHANGED <<poolVars, leaseVars, closed, clearing, drains, mu, at>>

AcquireGrant(t, k, q) ==
  /\ \E s \in Choice(k) :
       /\ keyOf' = [keyOf EXCEPT ![s] = k]
       /\ active' = [active EXCEPT ![s] = TRUE]
       /\ Touch(s)
       /\ refs' = [refs EXCEPT ![s] = {t}]
       /\ at' = [at EXCEPT ![t] = s]
  /\ queue' = Unlink(q, t)
  /\ sleeping' = {}
  /\ pc' = [pc EXCEPT ![t] = "run"]
  /\ role' = [role EXCEPT ![t] = "none"]
  /\ want' = [want EXCEPT ![t] = k]
  /\ target' = [target EXCEPT ![t] = None]
  /\ UNCHANGED <<pending, quarantined, engine, work, kept, closed, clearing,
                 drains, mu, failed>>

\* Leave the mutex to finish somebody's submission, keeping the ticket.
AcquireProgress(t, k, q, asleep) ==
  /\ \E s \in PendingFor(k) : target' = [target EXCEPT ![t] = pending[s]]
  /\ queue' = q
  /\ sleeping' = asleep
  /\ pc' = [pc EXCEPT ![t] = "finish"]
  /\ role' = [role EXCEPT ![t] = "acquire"]
  /\ want' = [want EXCEPT ![t] = k]
  /\ UNCHANGED <<poolVars, leaseVars, closed, clearing, drains, mu, at, failed>>

AcquireSleep(t, k, q, asleep) ==
  /\ queue' = q
  /\ sleeping' = asleep \cup {t}
  /\ pc' = [pc EXCEPT ![t] = "acquire"]
  /\ role' = [role EXCEPT ![t] = "none"]
  /\ want' = [want EXCEPT ![t] = k]
  /\ target' = [target EXCEPT ![t] = None]
  /\ UNCHANGED <<poolVars, leaseVars, closed, clearing, drains, mu, at, failed>>

\* One iteration of the loop for thread t, whose ticket is in q; asleep is
\* the set of threads still blocked in cv.wait.
AcquireLoop(t, k, q, asleep) ==
  LET turn == ~clearing /\ Head(q) = t
  IN  IF closed \/ quarantined
      THEN AcquireError(t, q)
      ELSE IF turn /\ Choice(k) # {}
      THEN AcquireGrant(t, k, q)
      ELSE \/ Timeout /\ AcquireError(t, q)
           \/ turn /\ PendingFor(k) # {} /\ AcquireProgress(t, k, q, asleep)
           \/ ~(turn /\ PendingFor(k) # {}) /\ AcquireSleep(t, k, q, asleep)

\* execute() or submit(); a key that fits no slot is refused beforehand.  A
\* new ticket notifies every sleeper.
Call(t) ==
  /\ mu = None /\ pc[t] = "idle"
  /\ \E k \in Keys :
       /\ \E s \in Slots : FitsSlot(k, s)
       /\ AcquireLoop(t, k, Append(queue, t), {})

Acquire(t) ==
  /\ mu = None /\ pc[t] = "acquire" /\ t \notin sleeping
  /\ AcquireLoop(t, want[t], queue, sleeping)

\* Back under the mutex after wait(), or after a query() that settled it.
AcquireResume(t) ==
  /\ mu = None /\ pc[t] = "resume" /\ role[t] = "acquire"
  /\ IF failed[t] THEN AcquireError(t, queue)
     ELSE AcquireLoop(t, want[t], queue, sleeping)

(***************************************************************************)
(* The end of the polling wait: the iteration's shared_ptr is destroyed    *)
(* while Pool::mu is held.  If it is the last one, ~Completion waits, and  *)
(* the lease it takes runs release(), which locks Pool::mu again.          *)
(***************************************************************************)
PollAgain(t) ==
  /\ mu = None /\ pc[t] = "poll" /\ t \notin sleeping
  /\ LET c == target[t]
         last == ~kept[c] /\ \A u \in Threads \ {t} : target[u] # c
     IN  IF last /\ refs[work[c].slot] = {c}
         THEN /\ mu' = t
              /\ UNCHANGED <<poolVars, leaseVars, queueVars, sleeping, threadVars>>
         ELSE AcquireLoop(t, want[t], queue, sleeping)

(***************************************************************************)
(* The leased engine runs, outside Pool::mu                                *)
(***************************************************************************)
\* execute(), or a submit() that fails: the lease ends with the call.
Execute(t) ==
  /\ pc[t] = "run"
  /\ \E outcome \in Outcomes :
       engine' = [engine EXCEPT ![at[t]] =
                    IF outcome = "unknown" THEN "quarantined" ELSE @]
  /\ refs' = [refs EXCEPT ![at[t]] = {}]
  /\ pc' = [pc EXCEPT ![t] = "release"]
  /\ UNCHANGED <<poolVars, work, kept, queueVars, sleeping, mu, role, want, at,
                 target, failed>>

\* submit() launched the group; its Completion is private until submitted().
Launch(t) ==
  /\ pc[t] = "run"
  /\ \E c \in Handles :
       /\ Unreferenced(c)
       /\ work' = [work EXCEPT ![c] = [state |-> "launched", slot |-> at[t]]]
       /\ kept' = [kept EXCEPT ![c] = TRUE]
       /\ target' = [target EXCEPT ![t] = c]
  /\ pc' = [pc EXCEPT ![t] = "publish"]
  /\ UNCHANGED <<poolVars, refs, engine, queueVars, sleeping, mu, role, want,
                 at, failed>>

\* Defect: nobody is told that there is something to wait for.
SubmittedSilent(t) ==
  /\ mu = None /\ pc[t] = "publish"
  /\ pending' = [pending EXCEPT ![at[t]] = target[t]]
  /\ refs' = [refs EXCEPT ![at[t]] = @ \cup {target[t]}]
  /\ pc' = [pc EXCEPT ![t] = "return"]
  /\ target' = [target EXCEPT ![t] = None]
  /\ UNCHANGED <<keyOf, active, lru, quarantined, engine, work, kept, queueVars,
                 sleeping, mu, role, want, at, failed>>

Submitted(t) ==
  /\ mu = None /\ pc[t] = "publish"
  /\ pending' = [pending EXCEPT ![at[t]] = target[t]]
  /\ refs' = [refs EXCEPT ![at[t]] = @ \cup {target[t]}]
  /\ sleeping' = {}
  /\ pc' = [pc EXCEPT ![t] = "return"]
  /\ target' = [target EXCEPT ![t] = None]
  /\ UNCHANGED <<keyOf, active, lru, quarantined, engine, work, kept, queueVars,
                 mu, role, want, at, failed>>

\* Defect: submit() ends the lease its Completion owns.
ReturnReleases(t) ==
  /\ pc[t] = "return"
  /\ refs' = [refs EXCEPT ![at[t]] = @ \ {t}]
  /\ pc' = [pc EXCEPT ![t] = "release"]
  /\ UNCHANGED <<poolVars, engine, work, kept, queueVars, sleeping, mu, role,
                 want, at, target, failed>>

\* submit() returns and drops its own reference to the lease.
Return(t) ==
  /\ pc[t] = "return"
  /\ refs' = [refs EXCEPT ![at[t]] = @ \ {t}]
  /\ IF refs'[at[t]] = {}
     THEN pc' = [pc EXCEPT ![t] = "release"] /\ UNCHANGED <<at, want>>
     ELSE /\ pc' = [pc EXCEPT ![t] = "idle"]
          /\ at' = [at EXCEPT ![t] = None]
          /\ want' = [want EXCEPT ![t] = None]
  /\ UNCHANGED <<poolVars, engine, work, kept, queueVars, sleeping, mu, role,
                 target, failed>>

(***************************************************************************)
(* Completion::wait(), query() and ~Completion                             *)
(***************************************************************************)
\* Where a thread continues once it holds no lease.
Back(r) == IF r \in {"acquire", "clear", "close"} THEN "resume" ELSE "idle"

\* finishLocked(true), then the lease is taken out of the state and dropped
\* outside the engine mutex.
Finish(t) ==
  /\ pc[t] = "finish"
  /\ LET c == target[t]
         s == work[c].slot
         isLast == refs[s] = {c}
         over == role[t] \in {"handle", "destroy"}
     IN  /\ \E outcome \in Outcomes :
              /\ work[c].state # "launched" => outcome = work[c].state
              /\ work' = [work EXCEPT ![c].state = outcome]
              /\ engine' = [engine EXCEPT ![s] =
                              IF outcome = "unknown" THEN "quarantined" ELSE @]
              /\ failed' = [failed EXCEPT ![t] = role[t] = "acquire" /\ outcome # "ok"]
         /\ refs' = [refs EXCEPT ![s] = @ \ {c}]
         /\ at' = [at EXCEPT ![t] = IF isLast THEN s ELSE None]
         /\ pc' = [pc EXCEPT ![t] = IF isLast THEN "release" ELSE Back(role[t])]
         /\ target' = [target EXCEPT ![t] = IF over THEN None ELSE @]
         /\ role' = [role EXCEPT ![t] = IF over THEN "none" ELSE @]
  /\ UNCHANGED <<poolVars, kept, queueVars, sleeping, mu, want>>

\* query() of a submission that still runs: wait at most a millisecond.
Poll(t) ==
  /\ mu = None /\ pc[t] = "finish" /\ role[t] = "acquire" /\ Timeout
  /\ work[target[t]].state = "launched"
  /\ pc' = [pc EXCEPT ![t] = "poll"]
  /\ sleeping' = sleeping \cup {t}
  /\ UNCHANGED <<poolVars, leaseVars, queueVars, mu, role, want, at, target, failed>>

\* Defect: a quarantined engine goes back into the pool.
ReleaseHealthy(t) ==
  /\ mu = None /\ pc[t] = "release"
  /\ pending' = [pending EXCEPT ![at[t]] = None]
  /\ active' = [active EXCEPT ![at[t]] = FALSE]
  /\ Touch(at[t])
  /\ sleeping' = {}
  /\ at' = [at EXCEPT ![t] = None]
  /\ pc' = [pc EXCEPT ![t] = Back(role[t])]
  /\ want' = [want EXCEPT ![t] = IF role[t] = "acquire" THEN @ ELSE None]
  /\ UNCHANGED <<keyOf, quarantined, leaseVars, queueVars, mu, role, target, failed>>

\* Defect: release() notifies nobody.
ReleaseSilent(t) ==
  /\ mu = None /\ pc[t] = "release"
  /\ pending' = [pending EXCEPT ![at[t]] = None]
  /\ active' = [active EXCEPT ![at[t]] = FALSE]
  /\ Touch(at[t])
  /\ quarantined' = (quarantined \/ engine[at[t]] = "quarantined")
  /\ at' = [at EXCEPT ![t] = None]
  /\ pc' = [pc EXCEPT ![t] = Back(role[t])]
  /\ want' = [want EXCEPT ![t] = IF role[t] = "acquire" THEN @ ELSE None]
  /\ UNCHANGED <<keyOf, leaseVars, queueVars, sleeping, mu, role, target, failed>>

\* Pool::release(), by the thread that dropped the last reference.
Release(t) ==
  /\ mu = None /\ pc[t] = "release"
  /\ LET s == at[t]
     IN  /\ pending' = [pending EXCEPT ![s] = None]
         /\ active' = [active EXCEPT ![s] = FALSE]
         /\ Touch(s)
         /\ quarantined' = (quarantined \/ engine[s] = "quarantined")
  /\ sleeping' = {}
  /\ at' = [at EXCEPT ![t] = None]
  /\ pc' = [pc EXCEPT ![t] = Back(role[t])]
  /\ want' = [want EXCEPT ![t] = IF role[t] = "acquire" THEN @ ELSE None]
  /\ UNCHANGED <<keyOf, leaseVars, queueVars, mu, role, target, failed>>

\* submit() has returned the handle c to its caller.
Returned(c) ==
  kept[c] /\ \A u \in Threads :
               pc[u] \in {"publish", "return"} => at[u] # work[c].slot

\* A caller waits for a handle it owns.
WaitHandle(t) ==
  /\ pc[t] = "idle"
  /\ \E c \in Handles :
       /\ Returned(c) /\ c \in refs[work[c].slot]
       /\ target' = [target EXCEPT ![t] = c]
  /\ pc' = [pc EXCEPT ![t] = "finish"]
  /\ role' = [role EXCEPT ![t] = "handle"]
  /\ UNCHANGED <<poolVars, leaseVars, queueVars, sleeping, mu, want, at, failed>>

\* Defect: ~Completion gives the lease back without waiting.
DropHandleEarly(t) ==
  /\ pc[t] = "idle"
  /\ \E c \in Handles :
       /\ Returned(c) /\ refs[work[c].slot] = {c}
       /\ \A u \in Threads : target[u] # c
       /\ kept' = [kept EXCEPT ![c] = FALSE]
       /\ refs' = [refs EXCEPT ![work[c].slot] = {}]
       /\ at' = [at EXCEPT ![t] = work[c].slot]
  /\ pc' = [pc EXCEPT ![t] = "release"]
  /\ UNCHANGED <<poolVars, engine, work, queueVars, sleeping, mu, role, want,
                 target, failed>>

\* Defect: an abandoned submission is forgotten.
DropHandleForgets(t) ==
  /\ pc[t] = "idle"
  /\ \E c \in Handles :
       /\ Returned(c)
       /\ \A u \in Threads : target[u] = c => role[u] # "handle"
       /\ kept' = [kept EXCEPT ![c] = FALSE]
  /\ UNCHANGED <<poolVars, refs, engine, work, queueVars, sleeping, mu,
                 threadVars>>

\* A caller drops a handle: the last reference runs ~Completion, which waits.
DropHandle(t) ==
  /\ pc[t] = "idle"
  /\ \E c \in Handles :
       /\ Returned(c)
       /\ \A u \in Threads : target[u] = c => role[u] # "handle"
       /\ Abandon \/ c \notin refs[work[c].slot]
       /\ kept' = [kept EXCEPT ![c] = FALSE]
       /\ IF c \notin refs[work[c].slot] \/ \E u \in Threads : target[u] = c
          THEN UNCHANGED <<pc, role, target>>
          ELSE /\ pc' = [pc EXCEPT ![t] = "finish"]
               /\ role' = [role EXCEPT ![t] = "destroy"]
               /\ target' = [target EXCEPT ![t] = c]
  /\ UNCHANGED <<poolVars, refs, engine, work, queueVars, sleeping, mu, want, at,
                 failed>>

(***************************************************************************)
(* Pool::drain: clear() and close()                                        *)
(***************************************************************************)
DrainRole(close) == IF close THEN "close" ELSE "clear"

\* Defect: drain() waits for submissions but not for running calls.
UndrainedPending == {s \in Slots : active[s] /\ pending[s] # None}

Undrained == {s \in Slots : active[s]}

\* One iteration of the loop, clearing being set.  With no active slot the
\* engines are cleared or closed and the configurations forgotten.
DrainLoop(t, close, asleep) ==
  LET busy == Undrained
      waitable == {s \in busy : Lockable(s)}
  IN  \/ /\ waitable # {}
         /\ target' = [target EXCEPT ![t] =
                         pending[CHOOSE s \in waitable :
                                   \A x \in waitable : s <= x]]
         /\ clearing' = TRUE
         /\ sleeping' = asleep
         /\ pc' = [pc EXCEPT ![t] = "finish"]
         /\ role' = [role EXCEPT ![t] = DrainRole(close)]
         /\ UNCHANGED <<keyOf, quarantined>>
      \/ /\ busy # {} /\ waitable = {}
         /\ clearing' = TRUE
         /\ sleeping' = asleep \cup {t}
         /\ pc' = [pc EXCEPT ![t] = "drain"]
         /\ role' = [role EXCEPT ![t] = DrainRole(close)]
         /\ target' = [target EXCEPT ![t] = None]
         /\ UNCHANGED <<keyOf, quarantined>>
      \/ /\ busy = {}
         /\ keyOf' = [s \in Slots |->
                        IF engine[s] = "quarantined" THEN keyOf[s] ELSE None]
         /\ quarantined' =
              (quarantined \/ \E s \in Slots : engine[s] = "quarantined")
         /\ clearing' = FALSE
         /\ sleeping' = {}
         /\ pc' = [pc EXCEPT ![t] = "idle"]
         /\ role' = [role EXCEPT ![t] = "none"]
         /\ target' = [target EXCEPT ![t] = None]

\* Maintenance is serialized; a clear() that finds the pool closed fails.
DrainStart(t, close, asleep) ==
  \/ /\ clearing
     /\ sleeping' = asleep \cup {t}
     /\ pc' = [pc EXCEPT ![t] = "serialize"]
     /\ role' = [role EXCEPT ![t] = DrainRole(close)]
     /\ UNCHANGED <<keyOf, quarantined, clearing, target>>
  \/ /\ ~clearing /\ closed' /\ ~close
     /\ sleeping' = asleep
     /\ pc' = [pc EXCEPT ![t] = "idle"]
     /\ role' = [role EXCEPT ![t] = "none"]
     /\ UNCHANGED <<keyOf, quarantined, clearing, target>>
  \/ /\ ~clearing /\ (closed' => close)
     /\ DrainLoop(t, close, {})

Drain(t, close) ==
  /\ mu = None /\ pc[t] = "idle" /\ drains < MaxDrains
  /\ drains' = drains + 1
  /\ closed' = (closed \/ close)
  /\ DrainStart(t, close, IF close THEN {} ELSE sleeping)
  /\ UNCHANGED <<active, lru, pending, leaseVars, queue, mu, want, at, failed>>

DrainAgain(t) ==
  /\ mu = None /\ t \notin sleeping
  /\ LET close == role[t] = "close"
     IN  \/ pc[t] = "serialize" /\ closed' = closed /\ DrainStart(t, close, sleeping)
         \/ /\ \/ pc[t] = "drain"
               \/ pc[t] = "resume" /\ role[t] \in {"clear", "close"}
            /\ DrainLoop(t, close, sleeping)
            /\ closed' = closed
  /\ UNCHANGED <<active, lru, pending, leaseVars, queue, drains, mu, want, at,
                 failed>>

\* A deadline or a spurious wakeup.
Wake(t) ==
  /\ t \in sleeping
  /\ sleeping' = sleeping \ {t}
  /\ UNCHANGED <<poolVars, leaseVars, queueVars, mu, threadVars>>

Step(t) ==
  \/ Acquire(t) \/ AcquireResume(t) \/ PollAgain(t)
  \/ Execute(t) \/ Launch(t) \/ Submitted(t) \/ Return(t)
  \/ Finish(t) \/ Poll(t) \/ Release(t) \/ DrainAgain(t)

Next ==
  \E t \in Threads :
    \/ Call(t) \/ WaitHandle(t) \/ DropHandle(t)
    \/ Drain(t, FALSE) \/ Drain(t, TRUE)
    \/ Wake(t) \/ Step(t)

Spec == Init /\ [][Next]_vars

\* Threads inside the pool are scheduled and engines finish what they run; a
\* polling admission wakes up by its deadline.  Nobody has to wait for, or
\* drop, a handle.
Fairness ==
  \A t \in Threads :
    WF_vars(Step(t)) /\ WF_vars(Timeout /\ Wake(t))
FairSpec == Spec /\ Fairness
-----------------------------------------------------------------------------
(***************************************************************************)
(* Properties                                                              *)
(***************************************************************************)
\* Every slot, completion and caller stays in its type.
TypeOK ==
  /\ keyOf \in [Slots -> Keys \cup {None}]
  /\ active \in [Slots -> BOOLEAN]
  /\ lru \in [Slots -> Slots]
  /\ pending \in [Slots -> Handles \cup {None}]
  /\ refs \in [Slots -> SUBSET (Threads \cup Handles)]
  /\ engine \in [Slots -> {"open", "quarantined"}]
  /\ work \in [Handles -> [state : Outcomes \cup {"launched"}, slot : Slots]]
  /\ kept \in [Handles -> BOOLEAN]
  /\ queue \in Seq(Threads) /\ sleeping \subseteq Threads
  /\ closed \in BOOLEAN /\ clearing \in BOOLEAN /\ quarantined \in BOOLEAN
  /\ mu \in Threads \cup {None} /\ drains \in 0 .. MaxDrains
  /\ pc \in [Threads -> {"idle", "acquire", "resume", "poll", "run", "publish",
                         "return", "finish", "release", "serialize", "drain"}]
  /\ role \in [Threads -> {"none", "acquire", "handle", "destroy", "clear", "close"}]
  /\ want \in [Threads -> Keys \cup {None}]
  /\ at \in [Threads -> Slots \cup {None}]
  /\ target \in [Threads -> Handles \cup {None}]
  /\ failed \in [Threads -> BOOLEAN]

\* A lease ends exactly once: an active slot has owners, or exactly one thread
\* that is about to release it, and an inactive one has neither, although the
\* submitter, its handle, admissions and drains all hold references to it.
LeaseEndsOnce ==
  \A s \in Slots :
    LET releasing == {t \in Threads : pc[t] = "release" /\ at[t] = s}
    IN  /\ active[s] => Cardinality(releasing) = (IF refs[s] = {} THEN 1 ELSE 0)
        /\ ~active[s] => refs[s] = {} /\ releasing = {}

\* An engine's scratch is never reused while a submission on it is pending:
\* its slot stays leased to that submission alone.
ScratchNotReused ==
  \A c \in Handles :
    work[c].state = "launched" =>
      /\ active[work[c].slot]
      /\ \A t \in Threads : pc[t] = "run" => at[t] # work[c].slot
      /\ \A d \in Handles \ {c} : work[d].state = "launched"
                                    => work[d].slot # work[c].slot

Busy == {s \in Slots : active[s]}

\* The aggregate stream and worker limits and the per-device cap bound what is
\* leased, although each is enforced only by fixed per-slot quotas.
AggregateLimits ==
  /\ LET leased == {s \in Busy : keyOf[s] # None}
     IN  /\ Total(leased, [s \in leased |-> StreamsOf[keyOf[s]]]) <= MaxStreams
         /\ Total(leased, [s \in leased |-> WorkersOf[keyOf[s]]]) <= MaxWorkers
  /\ \A k \in Keys : Cardinality(Resident(k)) <= PerDevice

\* "Unknown completion ... permanently disables this owner": no engine that
\* lost track of its work is leased again, and as soon as its lease has ended
\* every admission is refused.
QuarantineIsPermanent ==
  /\ \A t \in Threads : pc[t] \in {"run", "publish"} => engine[at[t]] = "open"
  /\ \A s \in Slots : engine[s] = "quarantined" /\ ~active[s] => quarantined

\* Once close() has returned, nothing is leased, pending or queued for a lease
\* and only quarantined configurations remain.
CloseDrains ==
  closed /\ (\A t \in Threads : role[t] # "close") =>
    /\ Busy = {}
    /\ \A s \in Slots : keyOf[s] # None => engine[s] = "quarantined"
    /\ \A c \in Handles : work[c].state # "launched"

\* Every slot is accounted for: within the aggregate limits, out of use once
\* its engine lost track of its work, and gone after close().
PoolAccounted == AggregateLimits /\ QuarantineIsPermanent /\ CloseDrains

InQueue(t) == \E i \in DOMAIN queue : queue[i] = t

\* Every admission ends in a lease or an error, even if nobody ever waits for
\* the handles that occupy the slots.
AdmissionEnds == \A t \in Threads : InQueue(t) ~> ~InQueue(t)

\* Nobody waits for ever: admissions end, and clear() and close() return.
CallsEnd ==
  /\ AdmissionEnds
  /\ \A t \in Threads : role[t] \in {"clear", "close"} ~> role[t] = "none"

\* "Abandoning a handle drains": a submission whose handle was dropped is
\* finished and its slot is released.
AbandonedHandleDrains ==
  \A c \in Handles :
    ~kept[c] /\ c \in refs[work[c].slot] ~> c \notin refs[work[c].slot]
=============================================================================
