-------------------- MODULE TransferResourceCacheProofs --------------------
(***************************************************************************)
(* Proofs about TransferResourceCache for every set of threads, entries,   *)
(* keys and requests and every value of the limits: first the leases, then *)
(* the five limits and the abstract budget, then the contents of entries   *)
(* and close().                                                            *)
(***************************************************************************)
EXTENDS TransferResourceCache, SequenceTheorems

\* Removing one position shifts the later elements by one.
LEMMA RemoveAtProperties ==
  ASSUME NEW T, NEW q \in Seq(T), NEW k \in 1 .. Len(q)
  PROVE  /\ RemoveAt(q, k) \in Seq(T)
         /\ Len(RemoveAt(q, k)) = Len(q) - 1
         /\ \A i \in 1 .. k - 1 : RemoveAt(q, k)[i] = q[i]
         /\ \A i \in k + 1 .. Len(q) : RemoveAt(q, k)[i - 1] = q[i]
<1> DEFINE n == Len(q)
           left == SubSeq(q, 1, k - 1)
           right == SubSeq(q, k + 1, n)
<1>1. n \in Nat /\ k \in 1 .. n
  OBVIOUS
<1>2. /\ left \in Seq(T)
      /\ Len(left) = k - 1
      /\ \A i \in 1 .. k - 1 : left[i] = q[i]
  OBVIOUS
<1>3. /\ right \in Seq(T)
      /\ Len(right) = n - k
      /\ \A i \in 1 .. n - k : right[i] = q[k + i]
  OBVIOUS
<1> HIDE DEF n, left, right
<1>4. /\ left \o right \in Seq(T)
      /\ Len(left \o right) = n - 1
      /\ \A i \in 1 .. k - 1 : (left \o right)[i] = left[i]
      /\ \A i \in 1 .. n - k : (left \o right)[(k - 1) + i] = right[i]
  <2>1. \A j \in 1 .. Len(left) + Len(right) :
          (left \o right)[j] =
            IF j <= Len(left) THEN left[j] ELSE right[j - Len(left)]
    BY <1>2, <1>3
  <2>2. left \o right \in Seq(T) /\ Len(left \o right) = Len(left) + Len(right)
    BY <1>2, <1>3, ConcatProperties
  <2>3. ASSUME NEW i \in 1 .. n - k
        PROVE  /\ (k - 1) + i \in 1 .. (k - 1) + (n - k)
               /\ ~((k - 1) + i <= k - 1)
               /\ ((k - 1) + i) - (k - 1) = i
    BY <1>1
  <2>4. \A i \in 1 .. k - 1 : i \in 1 .. Len(left) + Len(right) /\ i <= Len(left)
    BY <1>1, <1>2, <1>3
  <2>5. Len(left) + Len(right) = n - 1
    BY <1>1, <1>2, <1>3
  <2>6. \A i \in 1 .. n - k : (left \o right)[(k - 1) + i] = right[i]
    BY <1>2, <1>3, <2>1, <2>3
  <2>7. QED
    BY <2>1, <2>2, <2>4, <2>5, <2>6
<1>5. ASSUME NEW i \in k + 1 .. n
      PROVE  (left \o right)[i - 1] = q[i]
  <2>1. i - k \in 1 .. n - k /\ (k - 1) + (i - k) = i - 1 /\ k + (i - k) = i
    BY <1>1
  <2>2. (left \o right)[(k - 1) + (i - k)] = right[i - k]
    BY <1>4, <2>1
  <2>3. right[i - k] = q[k + (i - k)]
    BY <1>3, <2>1
  <2>4. QED
    BY <2>1, <2>2, <2>3
<1>6. RemoveAt(q, k) = left \o right
  BY DEF RemoveAt, left, right, n
<1>7. QED
  BY <1>2, <1>4, <1>5, <1>6 DEF n

\* Unlinking a Waiter keeps a queue of threads and every other waiter.
LEMMA UnlinkKeepsOthers ==
  ASSUME NEW q \in Seq(Threads), NEW t, \E i \in DOMAIN q : q[i] = t
  PROVE  /\ Unlink(q, t) \in Seq(Threads)
         /\ \A u \in Threads \ {t} :
              (\E i \in DOMAIN q : q[i] = u)
                => \E j \in DOMAIN Unlink(q, t) : Unlink(q, t)[j] = u
<1>1. PICK k \in 1 .. Len(q) : q[k] = t /\ Unlink(q, t) = RemoveAt(q, k)
  <2> DEFINE c == CHOOSE i \in DOMAIN q : q[i] = t
  <2>1. c \in DOMAIN q /\ q[c] = t
    OBVIOUS
  <2>2. Unlink(q, t) = RemoveAt(q, c)
    BY DEF Unlink
  <2> HIDE DEF c
  <2>3. DOMAIN q = 1 .. Len(q)
    OBVIOUS
  <2>4. QED
    BY <2>1, <2>2, <2>3
<1> DEFINE n == Len(q)
<1>n. n \in Nat /\ DOMAIN q = 1 .. n
  OBVIOUS
<1>2. ASSUME NEW u \in Threads \ {t}, NEW i \in DOMAIN q, q[i] = u
      PROVE  \E j \in DOMAIN RemoveAt(q, k) : RemoveAt(q, k)[j] = u
  <2>1. CASE i < k
    <3>1. i \in 1 .. k - 1 /\ i \in 1 .. Len(q) - 1
      BY <2>1
    <3>2. i \in DOMAIN RemoveAt(q, k) /\ RemoveAt(q, k)[i] = u
      BY <1>2, <3>1, RemoveAtProperties
    <3>3. QED
      BY <3>2
  <2>2. CASE i > k
    <3>1. i \in k + 1 .. n /\ i - 1 \in 1 .. n - 1
      <4> HIDE DEF n
      <4> QED BY <1>n, <2>2
    <3>2. DOMAIN RemoveAt(q, k) = 1 .. n - 1
      BY RemoveAtProperties
    <3>3. RemoveAt(q, k)[i - 1] = u
      BY <1>2, <3>1, RemoveAtProperties
    <3>4. QED
      BY <3>1, <3>2, <3>3
  <2>3. QED
    BY <1>1, <1>2, <2>1, <2>2
<1>3. QED
  BY <1>1, <1>2, RemoveAtProperties

(***************************************************************************)
(* The inductive invariant of the lease protocol.  ExclusiveLease alone is *)
(* not inductive: a step by a caller needs to know that it holds an entry  *)
(* exactly at the program points that use one, that it still knows its     *)
(* request, and that its Waiter is linked.                                 *)
(***************************************************************************)
LeaseInv == TypeOK /\ CallerState /\ ExclusiveLease

\* A free slot is well typed.
LEMMA VacantIsEntry == Vacant \in Entry
BY CacheConstants DEF Vacant, Entry, States

\* The empty cache satisfies the invariant.
LEMMA LeaseInit == Init => LeaseInv
<1> SUFFICES ASSUME Init PROVE LeaseInv
  OBVIOUS
<1>1. TypeOK
  <2>1. queue \in Seq(Threads)
    BY DEF Init
  <2>2. entry \in [Slots -> Entry]
    BY VacantIsEntry DEF Init
  <2>3. QED
    BY <2>1, <2>2 DEF Init, TypeOK, PCs
<1>2. CallerState
  BY DEF Init, CallerState, CallerOK
<1>3. ExclusiveLease
  BY DEF Init, ExclusiveLease, Active, Vacant
<1>4. QED
  BY <1>1, <1>2, <1>3 DEF LeaseInv

(***************************************************************************)
(* What every step of the cache does to the lease protocol: caller t moves *)
(* on, every other caller stays where it is, and at most the entry x       *)
(* changes, which nobody else holds.                                       *)
(***************************************************************************)
LEMMA CallerStep ==
  ASSUME LeaseInv, TypeOK', NEW t \in Threads,
         \A u \in Threads \ {t} :
           /\ pc'[u] = pc[u] /\ held'[u] = held[u] /\ req'[u] = req[u]
           /\ (\E i \in DOMAIN queue : queue[i] = u)
                => \E i \in DOMAIN queue' : queue'[i] = u,
         CallerOK(t)',
         NEW x \in Slots \cup {None},
         \A y \in Slots \ {x} : entry'[y] = entry[y],
         held[t] \in {None, x}, held'[t] \in {None, x},
         x # None => \A u \in Threads \ {t} : held[u] # x,
         held'[t] # None => entry'[x].state = HeldState(pc'[t]),
         x # None /\ held'[t] = None =>
           entry'[x].state \notin {"Building", "Leased", "Retiring"}
  PROVE  LeaseInv'
<1> USE DEF LeaseInv, TypeOK
<1>1. CallerState'
  <2> SUFFICES ASSUME NEW u \in Threads PROVE CallerOK(u)'
    BY DEF CallerState
  <2>1. CASE u = t
    BY <2>1
  <2>2. CASE u # t
    BY <2>2 DEF CallerState, CallerOK
  <2>3. QED
    BY <2>1, <2>2
<1>2. ASSUME NEW u \in Threads, NEW v \in Threads, u # v, held'[u] # None
      PROVE  held'[u] # held'[v]
  <2>1. CASE u = t
    BY <1>2, <2>1
  <2>2. CASE v = t
    BY <1>2, <2>2
  <2>3. CASE u # t /\ v # t
    BY <1>2, <2>3 DEF ExclusiveLease
  <2>4. QED
    BY <2>1, <2>2, <2>3
<1>3. ASSUME NEW u \in Threads, held'[u] # None
      PROVE  entry'[held'[u]].state = HeldState(pc'[u])
  <2>1. CASE u = t
    BY <1>3, <2>1
  <2>2. CASE u # t
    <3>1. held'[u] = held[u] /\ pc'[u] = pc[u] /\ held[u] \in Slots
      BY <1>3, <2>2
    <3>2. held[u] # x
      BY <1>3, <2>2, <3>1
    <3>3. entry'[held[u]] = entry[held[u]]
      BY <3>1, <3>2
    <3>4. QED
      BY <1>3, <3>1, <3>3 DEF ExclusiveLease
  <2>3. QED
    BY <2>1, <2>2
<1>4. ASSUME NEW s \in Active' PROVE \E u \in Threads : held'[u] = s
  <2>1. CASE s = x
    <3>1. s # None /\ entry'[s].state \in {"Building", "Leased", "Retiring"}
      BY CacheConstants DEF Active
    <3>2. held'[t] = s
      BY <2>1, <3>1
    <3>3. QED
      BY <3>2
  <2>2. CASE s # x
    <3>1. s \in Active
      BY <2>2 DEF Active
    <3>2. PICK u \in Threads : held[u] = s
      BY <3>1 DEF ExclusiveLease
    <3>3. u # t
      BY CacheConstants, <2>2, <3>2 DEF Active
    <3>4. QED
      BY <3>2, <3>3
  <2>3. QED
    BY <2>1, <2>2
<1>5. QED
  BY <1>1, <1>2, <1>3, <1>4 DEF ExclusiveLease

\* What acquire()'s loop may assume: t is linked in q with every other waiter,
\* serves a request and holds nothing.
Linked(t, r, q) ==
  /\ t \in Threads /\ r \in Request /\ held[t] = None
  /\ q \in Seq(Threads)
  /\ \E i \in DOMAIN q : q[i] = t
  /\ \A u \in Threads : (\E i \in DOMAIN queue : queue[i] = u)
                           => \E i \in DOMAIN q : q[i] = u

\* Leaving the queue keeps every other caller's Waiter linked.
LEMMA UnlinkedQueue ==
  ASSUME NEW t, NEW r, NEW q, Linked(t, r, q), queue' = Unlink(q, t)
  PROVE  /\ queue' \in Seq(Threads)
         /\ \A u \in Threads \ {t} :
              (\E i \in DOMAIN queue : queue[i] = u)
                => \E j \in DOMAIN queue' : queue'[j] = u
<1>1. q \in Seq(Threads) /\ \E i \in DOMAIN q : q[i] = t
  BY DEF Linked
<1>2. /\ Unlink(q, t) \in Seq(Threads)
      /\ \A u \in Threads \ {t} :
           (\E i \in DOMAIN q : q[i] = u)
             => \E j \in DOMAIN Unlink(q, t) : Unlink(q, t)[j] = u
  BY <1>1, UnlinkKeepsOthers
<1>3. QED
  BY <1>2 DEF Linked

\* A rejected admission leaves every lease alone.
LEMMA AcquireErrorLease ==
  ASSUME LeaseInv, NEW t, NEW r, NEW q, NEW w, Linked(t, r, q),
         AcquireError(t, r, q, w)
  PROVE  LeaseInv'
<1>1. /\ queue' \in Seq(Threads)
      /\ \A u \in Threads \ {t} :
           (\E i \in DOMAIN queue : queue[i] = u)
             => \E j \in DOMAIN queue' : queue'[j] = u
  BY UnlinkedQueue DEF AcquireError
<1>2. TypeOK'
  BY <1>1 DEF LeaseInv, TypeOK, AcquireError, Linked, PCs
<1>3. CallerOK(t)'
  BY DEF LeaseInv, TypeOK, CallerOK, AcquireError, Linked
<1>4. /\ t \in Threads /\ entry' = entry /\ held[t] = None /\ held'[t] = None
      /\ \A u \in Threads \ {t} :
           pc'[u] = pc[u] /\ held'[u] = held[u] /\ req'[u] = req[u]
  BY DEF AcquireError, Linked, LeaseInv, TypeOK
<1>5. QED
  BY <1>1, <1>2, <1>3, <1>4, CallerStep

\* Nobody holds an entry outside Building, Leased and Retiring.
LEMMA Unheld ==
  ASSUME LeaseInv, NEW s \in Slots, s \notin Active, NEW u \in Threads
  PROVE  held[u] # s
<1> SUFFICES ASSUME held[u] = s PROVE FALSE
  OBVIOUS
<1>1. held[u] # None
  BY CacheConstants
<1>2. entry[s].state = HeldState(pc[u])
  BY <1>1 DEF LeaseInv, ExclusiveLease
<1>3. pc[u] \in {"evict", "free", "build", "execute", "retire", "drop"}
  BY <1>1 DEF LeaseInv, CallerState, CallerOK
<1>4. HeldState(pc[u]) \in {"Building", "Leased", "Retiring"}
  BY <1>3 DEF HeldState
<1>5. QED
  BY <1>2, <1>4 DEF Active

\* The facts about callers and the queue that every grant of a lease shares.
LEMMA Granted ==
  ASSUME LeaseInv, NEW t, NEW r, NEW q, Linked(t, r, q),
         NEW s \in Slots, NEW next \in {"free", "build", "execute"},
         Grant(t, r, q, s, next), s \notin Active,
         NEW e \in Entry, entry' = [entry EXCEPT ![s] = e],
         e.state = HeldState(next), older' \in [Slots -> SUBSET Slots]
  PROVE  LeaseInv'
<1>1. /\ queue' \in Seq(Threads)
      /\ \A u \in Threads \ {t} :
           (\E i \in DOMAIN queue : queue[i] = u)
             => \E j \in DOMAIN queue' : queue'[j] = u
  BY UnlinkedQueue DEF Grant
<1>2. TypeOK'
  BY <1>1 DEF LeaseInv, TypeOK, Grant, Linked, PCs
<1>3. s # None /\ \A u \in Threads : held[u] # s
  BY CacheConstants, Unheld
<1>4. CallerOK(t)'
  BY <1>3 DEF LeaseInv, TypeOK, CallerOK, Grant, Linked
<1>5. /\ t \in Threads /\ held[t] = None /\ held'[t] = s /\ pc'[t] = next
      /\ entry'[s].state = HeldState(next)
      /\ \A y \in Slots \ {s} : entry'[y] = entry[y]
      /\ \A u \in Threads \ {t} :
           pc'[u] = pc[u] /\ held'[u] = held[u] /\ req'[u] = req[u]
  BY DEF Grant, Linked, LeaseInv, TypeOK
<1>6. QED
  BY <1>1, <1>2, <1>3, <1>4, <1>5, CallerStep

\* Giving an entry another state keeps it an entry.
LEMMA StateTyped ==
  ASSUME TypeOK, NEW s \in Slots, NEW state \in States
  PROVE  /\ [entry[s] EXCEPT !.state = state] \in Entry
         /\ [entry EXCEPT ![s].state = state] \in [Slots -> Entry]
<1>1. entry[s] \in Entry /\ entry \in [Slots -> Entry]
  BY DEF TypeOK
<1>2. [entry[s] EXCEPT !.state = state] \in Entry
  BY <1>1 DEF Entry
<1> DEFINE e == [entry[s] EXCEPT !.state = state]
<1>3. [entry EXCEPT ![s].state = state] = [entry EXCEPT ![s] = e]
  BY <1>1
<1> HIDE DEF e
<1>4. [entry EXCEPT ![s] = e] \in [Slots -> Entry]
  BY <1>1, <1>2 DEF e
<1>5. QED
  BY <1>2, <1>3, <1>4

\* A hit leases an idle entry.
LEMMA HitLease ==
  ASSUME LeaseInv, NEW t, NEW r, NEW q, Linked(t, r, q), Hit(t, r, q)
  PROVE  LeaseInv'
<1>1. PICK s \in Sufficient(r) :
        /\ entry' = [entry EXCEPT ![s].state = "Leased"]
        /\ LeaveIdle(s)
        /\ Grant(t, r, q, s, "execute")
  BY DEF Hit
<1>2. s \in Slots /\ s \notin Active
  BY DEF Sufficient, Compatible, Idle, Active
<1> DEFINE e == [entry[s] EXCEPT !.state = "Leased"]
<1>3. /\ e \in Entry /\ e.state = HeldState("execute")
      /\ entry' = [entry EXCEPT ![s] = e]
  BY <1>1, <1>2 DEF LeaseInv, TypeOK, Entry, States, HeldState
<1>4. older' \in [Slots -> SUBSET Slots]
  BY <1>1 DEF LeaveIdle, LeaseInv, TypeOK
<1> HIDE DEF e
<1>5. QED
  BY <1>1, <1>2, <1>3, <1>4, Granted

\* A growth leases an idle entry for construction.
LEMMA GrowLease ==
  ASSUME LeaseInv, NEW t, NEW r, NEW q, Linked(t, r, q), Grow(t, r, q)
  PROVE  LeaseInv'
<1>1. PICK s \in Growable(r) :
        /\ entry' = [entry EXCEPT ![s].state = "Building",
                                  ![s].capacity = r.slotCapacity,
                                  ![s].generation = generation]
        /\ LeaveIdle(s)
        /\ Grant(t, r, q, s, "free")
  BY DEF Grow
<1>2. s \in Slots /\ s \notin Active
  BY DEF Growable, Compatible, Idle, Active
<1> DEFINE e == [entry[s] EXCEPT !.state = "Building",
                                 !.capacity = r.slotCapacity,
                                 !.generation = generation]
<1>3. /\ e \in Entry /\ e.state = HeldState("free")
      /\ entry' = [entry EXCEPT ![s] = e]
  <2>1. r.slotCapacity \in Nat
    BY CacheConstants DEF Linked, Request
  <2>2. entry[s] \in Entry /\ entry \in [Slots -> Entry] /\ generation \in Nat
    BY <1>2 DEF LeaseInv, TypeOK
  <2>3. e \in Entry /\ e.state = "Building"
    BY <2>1, <2>2 DEF Entry, States
  <2>4. entry' = [entry EXCEPT ![s] = e]
    BY <1>1, <1>2, <2>2
  <2>5. QED
    BY <2>3, <2>4 DEF HeldState
<1>4. older' \in [Slots -> SUBSET Slots]
  BY <1>1 DEF LeaveIdle, LeaseInv, TypeOK
<1> HIDE DEF e
<1>5. Grant(t, r, q, s, "free")
  BY <1>1
<1>6. QED
  BY <1>2, <1>3, <1>4, <1>5, Granted

\* A miss leases a new entry for construction.
LEMMA MissLease ==
  ASSUME LeaseInv, NEW t, NEW r, NEW q, Linked(t, r, q), Miss(t, r, q)
  PROVE  LeaseInv'
<1> DEFINE e == [Vacant EXCEPT !.state = "Building", !.key = r.key,
                               !.capacity = r.slotCapacity,
                               !.generation = generation, !.born = generation]
<1>1. PICK s \in Slots \ Live : /\ entry' = [entry EXCEPT ![s] = e]
                                /\ Grant(t, r, q, s, "build")
  BY DEF Miss
<1>2. s \in Slots /\ s \notin Active
  BY DEF Live, Active
<1>3. e \in Entry /\ e.state = HeldState("build")
  <2>1. r.slotCapacity \in Nat /\ r.key \in Keys
    BY CacheConstants DEF Linked, Request
  <2>2. QED
    BY <2>1, VacantIsEntry DEF LeaseInv, TypeOK, Entry, Vacant, States, HeldState
<1>4. older' \in [Slots -> SUBSET Slots]
  BY DEF Miss, LeaseInv, TypeOK
<1> HIDE DEF e
<1>5. QED
  BY <1>1, <1>2, <1>3, <1>4, Granted

\* Taking an idle entry out of service, for eviction or for clear().
LEMMA RetireIdleLease ==
  ASSUME LeaseInv, TypeOK', NEW t \in Threads, NEW v \in Idle, held[t] = None,
         entry' = [entry EXCEPT ![v].state = "Retiring"],
         held'[t] = v, pc'[t] \in {"evict", "drop"}, CallerOK(t)',
         \A u \in Threads \ {t} :
           /\ pc'[u] = pc[u] /\ held'[u] = held[u] /\ req'[u] = req[u]
           /\ (\E i \in DOMAIN queue : queue[i] = u)
                => \E i \in DOMAIN queue' : queue'[i] = u
  PROVE  LeaseInv'
<1>1. v \in Slots /\ v # None /\ v \notin Active
  BY CacheConstants DEF Idle, Active
<1>2. \A u \in Threads : held[u] # v
  BY <1>1, Unheld
<1>3. entry'[v].state = HeldState(pc'[t])
  BY <1>1 DEF LeaseInv, TypeOK, HeldState
<1>4. \A y \in Slots \ {v} : entry'[y] = entry[y]
  BY <1>1 DEF LeaseInv, TypeOK
<1>5. QED
  BY <1>1, <1>2, <1>3, <1>4, CallerStep

\* An eviction makes the caller hold its victim.
LEMMA EvictLease ==
  ASSUME LeaseInv, NEW t, NEW r, NEW q, NEW w \in BOOLEAN, Linked(t, r, q),
         Evict(t, r, q, w)
  PROVE  LeaseInv'
<1>1. PICK v \in Idle : /\ entry' = [entry EXCEPT ![v].state = "Retiring"]
                        /\ LeaveIdle(v)
                        /\ held' = [held EXCEPT ![t] = v]
  BY DEF Evict, LeastRecent, Helpful
<1>2. t \in Threads /\ v \in Slots /\ v # None
  BY CacheConstants DEF Linked, Idle
<1>3. TypeOK'
  <2>1. entry' \in [Slots -> Entry]
    BY <1>1, <1>2, StateTyped DEF LeaseInv, States
  <2>2. older' \in [Slots -> SUBSET Slots]
    BY <1>1 DEF LeaveIdle, LeaseInv, TypeOK
  <2>3. QED
    BY <1>1, <1>2, <2>1, <2>2 DEF LeaseInv, TypeOK, Evict, Linked, PCs
<1>4. CallerOK(t)'
  BY <1>1, <1>2 DEF LeaseInv, TypeOK, CallerOK, Evict, Linked
<1>5. /\ held[t] = None /\ held'[t] = v /\ pc'[t] = "evict"
      /\ \A u \in Threads \ {t} :
           /\ pc'[u] = pc[u] /\ held'[u] = held[u] /\ req'[u] = req[u]
           /\ (\E i \in DOMAIN queue : queue[i] = u)
                => \E i \in DOMAIN queue' : queue'[i] = u
  BY <1>1, <1>2 DEF Evict, Linked, LeaseInv, TypeOK
<1>6. QED
  BY <1>1, <1>2, <1>3, <1>4, <1>5, RetireIdleLease

\* A caller that goes to sleep holds nothing and stays linked.
LEMMA WaitLease ==
  ASSUME LeaseInv, NEW t, NEW r, NEW q, Linked(t, r, q), Wait(t, r, q)
  PROVE  LeaseInv'
<1>1. TypeOK'
  BY DEF LeaseInv, TypeOK, Wait, Linked, PCs
<1>2. CallerOK(t)'
  BY DEF LeaseInv, TypeOK, CallerOK, Wait, Linked
<1>3. /\ t \in Threads /\ entry' = entry /\ held[t] = None /\ held'[t] = None
      /\ \A u \in Threads \ {t} :
           /\ pc'[u] = pc[u] /\ held'[u] = held[u] /\ req'[u] = req[u]
           /\ (\E i \in DOMAIN queue : queue[i] = u)
                => \E i \in DOMAIN queue' : queue'[i] = u
  BY DEF Wait, Linked, LeaseInv, TypeOK
<1>4. QED
  BY <1>1, <1>2, <1>3, CallerStep

\* One iteration of acquire()'s loop, whatever it decides.
LEMMA AcquireLoopLease ==
  ASSUME LeaseInv, NEW t, NEW r, NEW q, NEW w \in BOOLEAN, Linked(t, r, q),
         AcquireLoop(t, r, q, w)
  PROVE  LeaseInv'
BY AcquireErrorLease, HitLease, GrowLease, MissLease, EvictLease, WaitLease
DEF AcquireLoop

\* A new call links its Waiter at the tail.
LEMMA CallLease ==
  ASSUME LeaseInv, NEW t \in Threads, Call(t)
  PROVE  LeaseInv'
<1>1. PICK r \in Request : AcquireLoop(t, r, Append(queue, t), FALSE)
  BY DEF Call
<1> DEFINE q == Append(queue, t)
<1>2. q \in Seq(Threads) /\ Len(q) = Len(queue) + 1 /\ q[Len(queue) + 1] = t
  BY DEF LeaseInv, TypeOK
<1>3. \A i \in DOMAIN queue : i \in DOMAIN q /\ q[i] = queue[i]
  BY DEF LeaseInv, TypeOK
<1>4. Len(queue) + 1 \in DOMAIN q
  BY <1>2 DEF LeaseInv, TypeOK
<1>5. held[t] = None
  BY DEF Call, LeaseInv, CallerState, CallerOK
<1>6. Linked(t, r, q)
  <2> HIDE DEF q
  <2> QED BY <1>2, <1>3, <1>4, <1>5 DEF Linked
<1>7. QED
  BY <1>1, <1>6, AcquireLoopLease

\* A caller that was notified runs the loop again.
LEMMA AcquireLease ==
  ASSUME LeaseInv, NEW t \in Threads, Acquire(t)
  PROVE  LeaseInv'
<1>1. Linked(t, req[t], queue)
  BY DEF Acquire, LeaseInv, TypeOK, CallerState, CallerOK, Linked
<1>2. waited[t] \in BOOLEAN
  BY DEF LeaseInv, TypeOK
<1>3. QED
  BY <1>1, <1>2, AcquireLoopLease DEF Acquire

\* A holder that works on its own entry and keeps it.
LEMMA HolderStep ==
  ASSUME LeaseInv, NEW t \in Threads, held[t] # None, NEW e \in Entry,
         entry' = [entry EXCEPT ![held[t]] = e],
         NEW p \in {"free", "build", "execute", "retire"},
         pc' = [pc EXCEPT ![t] = p], e.state = HeldState(p),
         p \in {"free", "build", "execute"} => req[t] \in Request,
         UNCHANGED <<older, queue, sleeping, closed, generation, req, held,
                     waited, cutoff, closing>>
  PROVE  LeaseInv'
<1>1. held[t] \in Slots
  BY DEF LeaseInv, TypeOK
<1>2. TypeOK'
  BY <1>1 DEF LeaseInv, TypeOK, PCs
<1>3. CallerOK(t)'
  BY DEF LeaseInv, TypeOK, CallerOK
<1>4. \A u \in Threads \ {t} : held[u] # held[t]
  BY DEF LeaseInv, ExclusiveLease
<1>5. /\ held'[t] = held[t] /\ pc'[t] = p /\ entry'[held[t]] = e
      /\ \A y \in Slots \ {held[t]} : entry'[y] = entry[y]
      /\ \A u \in Threads \ {t} :
           pc'[u] = pc[u] /\ held'[u] = held[u] /\ req'[u] = req[u]
  BY <1>1 DEF LeaseInv, TypeOK
<1>6. QED
  BY <1>1, <1>2, <1>3, <1>4, <1>5, CallerStep

\* A caller at a program point that uses an entry holds one.
LEMMA HolderHolds ==
  ASSUME LeaseInv, NEW t \in Threads,
         pc[t] \in {"evict", "free", "build", "execute", "retire", "drop"}
  PROVE  /\ held[t] # None /\ held[t] \in Slots /\ entry[held[t]] \in Entry
         /\ entry[held[t]].state = HeldState(pc[t])
         /\ pc[t] \in {"free", "build", "execute"} => req[t] \in Request
BY DEF LeaseInv, TypeOK, CallerState, CallerOK, ExclusiveLease

\* Constructing the context keeps the entry Building.
LEMMA FreeStagingLease ==
  ASSUME LeaseInv, NEW t \in Threads, FreeStaging(t)
  PROVE  LeaseInv'
<1> DEFINE e == [entry[held[t]] EXCEPT !.allocated = 0]
<1>1. /\ held[t] # None /\ held[t] \in Slots /\ req[t] \in Request
      /\ entry[held[t]] \in Entry /\ entry[held[t]].state = "Building"
  BY HolderHolds DEF FreeStaging, HeldState
<1>2. e \in Entry /\ e.state = HeldState("build")
  BY <1>1 DEF Entry, HeldState
<1>3. entry' = [entry EXCEPT ![held[t]] = e]
  BY DEF FreeStaging
<1> HIDE DEF e
<1>4. QED
  BY <1>1, <1>2, <1>3, HolderStep DEF FreeStaging

\* Allocating one staging slot keeps the entry Building.
LEMMA AllocateSlotLease ==
  ASSUME LeaseInv, NEW t \in Threads, AllocateSlot(t)
  PROVE  LeaseInv'
<1> DEFINE e == [entry[held[t]] EXCEPT !.allocated = @ + entry[held[t]].capacity]
<1>1. /\ held[t] # None /\ held[t] \in Slots /\ req[t] \in Request
      /\ entry[held[t]] \in Entry /\ entry[held[t]].state = "Building"
  BY HolderHolds DEF AllocateSlot, HeldState
<1>2. e \in Entry /\ e.state = HeldState("build")
  BY <1>1 DEF Entry, HeldState
<1>3. entry' = [entry EXCEPT ![held[t]] = e]
  BY DEF AllocateSlot
<1>4. pc' = [pc EXCEPT ![t] = "build"]
  BY DEF AllocateSlot, LeaseInv, TypeOK
<1> HIDE DEF e
<1>5. QED
  BY <1>1, <1>2, <1>3, <1>4, HolderStep DEF AllocateSlot

\* A holder that gives its context up keeps it until retire() is done.
LEMMA StartRetireLease ==
  ASSUME LeaseInv, NEW t \in Threads, NEW unknown \in BOOLEAN,
         pc[t] \in {"free", "build", "execute"}, StartRetire(t, unknown)
  PROVE  LeaseInv'
<1> DEFINE e == [entry[held[t]] EXCEPT !.state = "Retiring", !.unknown = unknown]
<1>1. held[t] # None /\ held[t] \in Slots /\ entry[held[t]] \in Entry
  BY HolderHolds
<1>2. e \in Entry /\ e.state = HeldState("retire")
  BY <1>1 DEF Entry, States, HeldState
<1>3. entry' = [entry EXCEPT ![held[t]] = e]
  BY DEF StartRetire
<1> HIDE DEF e
<1>4. QED
  BY <1>1, <1>2, <1>3, HolderStep DEF StartRetire

\* Publishing a constructed context, or giving it up.
LEMMA BuiltLease ==
  ASSUME LeaseInv, NEW t \in Threads, Built(t)
  PROVE  LeaseInv'
<1>1. CASE closed \/ DeviceDisabled(entry[held[t]].key)
  BY <1>1, StartRetireLease DEF Built
<1>2. CASE ~(closed \/ DeviceDisabled(entry[held[t]].key))
  <2> DEFINE e == [entry[held[t]] EXCEPT !.state = "Leased"]
  <2>1. /\ held[t] # None /\ held[t] \in Slots /\ req[t] \in Request
        /\ entry[held[t]] \in Entry
    BY HolderHolds DEF Built
  <2>2. e \in Entry /\ e.state = HeldState("execute")
    BY <2>1 DEF Entry, States, HeldState
  <2>3. entry' = [entry EXCEPT ![held[t]] = e]
    BY <1>2 DEF Built
  <2> HIDE DEF e
  <2>4. QED
    BY <1>2, <2>1, <2>2, <2>3, HolderStep DEF Built
<1>3. QED
  BY <1>1, <1>2

\* A failed construction gives the entry up.
LEMMA BuildFailsLease ==
  ASSUME LeaseInv, NEW t \in Threads, BuildFails(t)
  PROVE  LeaseInv'
BY StartRetireLease DEF BuildFails

\* A holder that lets go of its entry: it becomes idle, quarantined or free.
LEMMA ReleaseStep ==
  ASSUME LeaseInv, TypeOK', NEW t \in Threads, held[t] # None, NEW e,
         entry' = [entry EXCEPT ![held[t]] = e],
         e.state \notin {"Building", "Leased", "Retiring"},
         held' = [held EXCEPT ![t] = None], queue' = queue,
         \A u \in Threads \ {t} : pc'[u] = pc[u] /\ req'[u] = req[u],
         CallerOK(t)'
  PROVE  LeaseInv'
<1>1. held[t] \in Slots
  BY DEF LeaseInv, TypeOK
<1>2. \A u \in Threads \ {t} : held[u] # held[t]
  BY DEF LeaseInv, ExclusiveLease
<1>3. /\ held'[t] = None /\ entry'[held[t]] = e
      /\ \A y \in Slots \ {held[t]} : entry'[y] = entry[y]
      /\ \A u \in Threads \ {t} : held'[u] = held[u]
  BY <1>1 DEF LeaseInv, TypeOK
<1>4. QED
  BY <1>1, <1>2, <1>3, CallerStep

\* The end of a transfer: the context goes back to idle or is given up.
LEMMA ExecuteLease ==
  ASSUME LeaseInv, NEW t \in Threads, Execute(t)
  PROVE  LeaseInv'
<1>1. /\ pc[t] = "execute"
      /\ held[t] # None /\ held[t] \in Slots /\ entry[held[t]] \in Entry
  BY HolderHolds DEF Execute
<1>2. CASE \E unknown \in BOOLEAN : StartRetire(t, unknown)
  BY <1>1, <1>2, StartRetireLease
<1>3. CASE /\ entry' = [entry EXCEPT ![held[t]].state = "Idle"]
           /\ EnterIdle(held[t])
           /\ sleeping' = {}
           /\ pc' = [pc EXCEPT ![t] = "idle"]
           /\ req' = [req EXCEPT ![t] = None]
           /\ held' = [held EXCEPT ![t] = None]
           /\ UNCHANGED <<queue, closed, generation, waited, cutoff, closing>>
  <2> DEFINE e == [entry[held[t]] EXCEPT !.state = "Idle"]
  <2>1. e \in Entry /\ e.state = "Idle"
    BY <1>1 DEF Entry, States
  <2>2. entry' = [entry EXCEPT ![held[t]] = e]
    BY <1>3
  <2>3. older' \in [Slots -> SUBSET Slots]
    BY <1>3 DEF EnterIdle, Idle, LeaseInv, TypeOK
  <2> HIDE DEF e
  <2>4. entry' \in [Slots -> Entry]
    BY <1>1, <2>1, <2>2 DEF LeaseInv, TypeOK
  <2>5. TypeOK'
    BY <1>3, <2>3, <2>4 DEF LeaseInv, TypeOK, PCs
  <2>6. pc'[t] = "idle" /\ held'[t] = None
    BY <1>3 DEF LeaseInv, TypeOK
  <2>7. CallerOK(t)'
    BY <2>6 DEF CallerOK
  <2>8. \A u \in Threads \ {t} : pc'[u] = pc[u] /\ req'[u] = req[u]
    BY <1>3 DEF LeaseInv, TypeOK
  <2>9. QED
    BY <1>1, <1>3, <2>1, <2>2, <2>5, <2>7, <2>8, ReleaseStep
<1>4. PICK outcome \in {"ok", "error", "unknown"} :
        IF outcome = "ok" /\ Retainable(held[t])
        THEN /\ entry' = [entry EXCEPT ![held[t]].state = "Idle"]
             /\ EnterIdle(held[t])
             /\ sleeping' = {}
             /\ pc' = [pc EXCEPT ![t] = "idle"]
             /\ req' = [req EXCEPT ![t] = None]
             /\ held' = [held EXCEPT ![t] = None]
             /\ UNCHANGED <<queue, closed, generation, waited, cutoff, closing>>
        ELSE StartRetire(t, outcome = "unknown")
  BY DEF Execute
<1>5. QED
  <2>1. CASE outcome = "ok" /\ Retainable(held[t])
    BY <1>3, <1>4, <2>1
  <2>2. CASE ~(outcome = "ok" /\ Retainable(held[t]))
    BY <1>2, <1>4, <2>2
  <2>3. QED
    BY <2>1, <2>2

\* retire() frees the entry or quarantines it, and its holder lets go.
LEMMA RetireLease ==
  ASSUME LeaseInv, NEW t \in Threads, Retire(t)
  PROVE  LeaseInv'
<1> DEFINE e == IF entry[held[t]].unknown
                THEN [entry[held[t]] EXCEPT !.state = "Quarantined"] ELSE Vacant
<1>1. /\ pc[t] \in {"evict", "retire", "drop"}
      /\ held[t] # None /\ held[t] \in Slots /\ entry[held[t]] \in Entry
  BY HolderHolds DEF Retire
<1>2. e \in Entry /\ e.state \notin {"Building", "Leased", "Retiring"}
  BY <1>1, VacantIsEntry DEF Entry, States, Vacant
<1>3. entry' = [entry EXCEPT ![held[t]] = e]
  BY DEF Retire
<1> HIDE DEF e
<1>4. /\ held'[t] = None
      /\ pc'[t] = (CASE pc[t] = "evict" -> "acquire"
                     [] pc[t] = "retire" -> "idle"
                     [] pc[t] = "drop" -> "clear")
      /\ req'[t] = IF pc[t] = "evict" THEN req[t] ELSE None
      /\ \A u \in Threads \ {t} : pc'[u] = pc[u] /\ req'[u] = req[u]
  BY DEF Retire, LeaseInv, TypeOK
<1>5. pc'[t] \in {"acquire", "idle", "clear"}
  BY <1>1, <1>4
<1>6. TypeOK'
  <2>1. entry' \in [Slots -> Entry]
    BY <1>1, <1>2, <1>3 DEF LeaseInv, TypeOK
  <2>2. pc' \in [Threads -> PCs]
    BY <1>4, <1>5 DEF Retire, LeaseInv, TypeOK, PCs
  <2>3. req' \in [Threads -> Request \cup {None}]
    BY DEF Retire, LeaseInv, TypeOK
  <2>4. held' \in [Threads -> Slots \cup {None}]
    BY DEF Retire, LeaseInv, TypeOK
  <2>5. QED
    BY <2>1, <2>2, <2>3, <2>4 DEF Retire, LeaseInv, TypeOK
<1>7. CallerOK(t)'
  BY <1>1, <1>4, <1>5 DEF Retire, LeaseInv, CallerState, CallerOK
<1>8. held' = [held EXCEPT ![t] = None] /\ queue' = queue
  BY DEF Retire
<1>9. QED
  BY <1>1, <1>2, <1>3, <1>4, <1>6, <1>7, <1>8, ReleaseStep

\* One iteration of clear()'s loop: it retires a stale idle entry, goes to
\* sleep, or returns.
LEMMA ClearLoopLease ==
  ASSUME LeaseInv, NEW t \in Threads, pc[t] \in {"idle", "clear"},
         NEW cut \in Nat, NEW close \in BOOLEAN, NEW asleep \in SUBSET Threads,
         ClearLoop(t, cut, close, asleep),
         closed' \in BOOLEAN, generation' \in Nat
  PROVE  LeaseInv'
<1>1. held[t] = None
  BY DEF LeaseInv, CallerState, CallerOK
<1>2. CASE \E v \in Stale(cut) :
             /\ entry' = [entry EXCEPT ![v].state = "Retiring"]
             /\ LeaveIdle(v)
             /\ held' = [held EXCEPT ![t] = v]
             /\ sleeping' = asleep
             /\ pc' = [pc EXCEPT ![t] = "drop"]
             /\ cutoff' = [cutoff EXCEPT ![t] = cut]
             /\ closing' = [closing EXCEPT ![t] = close]
             /\ UNCHANGED <<queue, req, waited>>
  <2>1. PICK v \in Idle :
             /\ entry' = [entry EXCEPT ![v].state = "Retiring"]
             /\ LeaveIdle(v)
             /\ held' = [held EXCEPT ![t] = v]
             /\ sleeping' = asleep
             /\ pc' = [pc EXCEPT ![t] = "drop"]
             /\ cutoff' = [cutoff EXCEPT ![t] = cut]
             /\ closing' = [closing EXCEPT ![t] = close]
             /\ UNCHANGED <<queue, req, waited>>
    BY <1>2 DEF Stale
  <2>2. v \in Slots /\ v # None
    BY CacheConstants DEF Idle
  <2>3. entry' \in [Slots -> Entry]
    BY <2>1, <2>2, StateTyped DEF LeaseInv, States
  <2>4. older' \in [Slots -> SUBSET Slots]
    BY <2>1 DEF LeaveIdle, LeaseInv, TypeOK
  <2>5. TypeOK'
    BY <2>1, <2>2, <2>3, <2>4 DEF LeaseInv, TypeOK, PCs
  <2>6. /\ held'[t] = v /\ pc'[t] = "drop"
        /\ \A u \in Threads \ {t} :
             pc'[u] = pc[u] /\ held'[u] = held[u] /\ req'[u] = req[u]
    BY <2>1, <2>2 DEF LeaseInv, TypeOK
  <2>7. CallerOK(t)'
    BY <2>2, <2>6 DEF CallerOK
  <2>8. QED
    BY <1>1, <2>1, <2>5, <2>6, <2>7, RetireIdleLease
<1>3. CASE /\ \/ /\ sleeping' = asleep \cup {t}
                 /\ pc' = [pc EXCEPT ![t] = "clear"]
                 /\ cutoff' = [cutoff EXCEPT ![t] = cut]
                 /\ closing' = [closing EXCEPT ![t] = close]
              \/ /\ sleeping' = asleep
                 /\ pc' = [pc EXCEPT ![t] = "idle"]
                 /\ cutoff' = [cutoff EXCEPT ![t] = 0]
                 /\ closing' = [closing EXCEPT ![t] = FALSE]
           /\ UNCHANGED <<entry, older, queue, held, req, waited>>
  <2>0. /\ sleeping' \in SUBSET Threads /\ pc' \in [Threads -> PCs]
        /\ cutoff' \in [Threads -> Nat] /\ closing' \in [Threads -> BOOLEAN]
    <3>1. sleeping' \in SUBSET Threads
      BY <1>3
    <3>2. pc' \in [Threads -> PCs]
      BY <1>3 DEF LeaseInv, TypeOK, PCs
    <3>3. cutoff' \in [Threads -> Nat]
      <4>1. \E c \in Nat : cutoff' = [cutoff EXCEPT ![t] = c]
        BY <1>3
      <4>2. QED
        BY <4>1 DEF LeaseInv, TypeOK
    <3>4. closing' \in [Threads -> BOOLEAN]
      <4>1. \E b \in BOOLEAN : closing' = [closing EXCEPT ![t] = b]
        BY <1>3
      <4>2. QED
        BY <4>1 DEF LeaseInv, TypeOK
    <3>5. QED
      BY <3>1, <3>2, <3>3, <3>4
  <2>1. TypeOK'
    BY <1>3, <2>0 DEF LeaseInv, TypeOK
  <2>2. /\ held'[t] = None /\ pc'[t] \in {"idle", "clear"}
        /\ \A u \in Threads \ {t} :
             pc'[u] = pc[u] /\ held'[u] = held[u] /\ req'[u] = req[u]
    BY <1>1, <1>3 DEF LeaseInv, TypeOK
  <2>3. CallerOK(t)'
    BY <2>2 DEF CallerOK
  <2>4. QED
    BY <1>1, <1>3, <2>1, <2>2, <2>3, CallerStep
<1>4. QED
  BY <1>2, <1>3 DEF ClearLoop

\* A step that moves no caller and no entry keeps the invariant.
LEMMA QuietStep ==
  ASSUME LeaseInv, TypeOK', UNCHANGED <<entry, queue, pc, req, held>>
  PROVE  LeaseInv'
BY DEF LeaseInv, CallerState, CallerOK, ExclusiveLease, Active

\* Every step of the cache keeps the lease protocol.
LEMMA LeaseInductive == LeaseInv /\ [Next]_vars => LeaseInv'
<1> SUFFICES ASSUME LeaseInv, [Next]_vars PROVE LeaseInv'
  OBVIOUS
<1>1. CASE UNCHANGED vars
  <2>1. TypeOK'
    BY <1>1 DEF vars, LeaseInv, TypeOK
  <2>2. QED
    BY <1>1, <2>1, QuietStep DEF vars
<1>2. ASSUME NEW t \in Threads, NEW close \in BOOLEAN, Clear(t, close)
      PROVE  LeaseInv'
  <2>1. generation' \in Nat /\ closed' \in BOOLEAN
    BY <1>2 DEF Clear, LeaseInv, TypeOK
  <2>2. ClearLoop(t, generation', close, {}) /\ pc[t] = "idle"
    BY <1>2 DEF Clear
  <2>3. QED
    BY <2>1, <2>2, ClearLoopLease
<1>3. ASSUME NEW t \in Threads, ClearAgain(t)
      PROVE  LeaseInv'
  <2>1. /\ generation' \in Nat /\ closed' \in BOOLEAN /\ cutoff[t] \in Nat
        /\ closing[t] \in BOOLEAN /\ sleeping \in SUBSET Threads
    BY <1>3 DEF ClearAgain, LeaseInv, TypeOK
  <2>2. ClearLoop(t, cutoff[t], closing[t], sleeping) /\ pc[t] = "clear"
    BY <1>3 DEF ClearAgain
  <2>3. QED
    BY <2>1, <2>2, ClearLoopLease
<1>4. ASSUME NEW t \in Threads, Wake(t)
      PROVE  LeaseInv'
  <2>1. TypeOK'
    BY <1>4 DEF Wake, LeaseInv, TypeOK
  <2>2. QED
    BY <1>4, <2>1, QuietStep DEF Wake
<1>5. ASSUME NEW t \in Threads, Step(t)
      PROVE  LeaseInv'
  BY <1>3, <1>5, AcquireLease, FreeStagingLease, AllocateSlotLease,
     BuildFailsLease, BuiltLease, ExecuteLease, RetireLease DEF Step
<1>6. QED
  BY <1>1, <1>2, <1>4, <1>5, CallLease DEF Next

\* Type correctness of the cache for every instance.
THEOREM TypeCorrect == Spec => []TypeOK
<1>1. LeaseInv => TypeOK
  BY DEF LeaseInv
<1>2. QED
  BY <1>1, LeaseInit, LeaseInductive, PTL DEF Spec

\* No two callers ever hold one context, every holder's entry is in the state
\* its step needs, and every entry under construction, in use or in retirement
\* has a caller that will release it, for any number of callers and entries.
THEOREM LeasesAreExclusive == Spec => []ExclusiveLease
<1>1. LeaseInv => ExclusiveLease
  BY DEF LeaseInv
<1>2. QED
  BY <1>1, LeaseInit, LeaseInductive, PTL DEF Spec

(***************************************************************************)
(* The limits.  What a slot is charged depends on four things, and each    *)
(* step of the cache does one of five things to one charge.                *)
(***************************************************************************)
Limits ==
  /\ Cardinality(Live) <= MaxContexts
  /\ \A k \in Keys : Cardinality(OnDevice(Live, k)) <= MaxContextsPerDevice
  /\ Workers(Live) <= MaxBackgroundWorkers
  /\ RetainedBytes(Live) <= MaxRetainedBytes
  /\ LiveBytes(Live) <= MaxLiveStagingBytes

\* A step leaves the charge of slot s alone.
SameCharge(s) ==
  /\ entry'[s].state = "Absent" <=> entry[s].state = "Absent"
  /\ entry'[s].state = "Quarantined" <=> entry[s].state = "Quarantined"
  /\ entry'[s].key = entry[s].key
  /\ entry'[s].capacity = entry[s].capacity

\* fits() without overflow means what it says.
LEMMA WithinLimit ==
  ASSUME NEW used \in Nat, NEW added \in Nat, NEW limit \in Nat,
         ~Exceeds(used, added, limit)
  PROVE  used + added <= limit
BY DEF Exceeds

\* A ring of more bytes per slot is larger.
LEMMA BytesMonotone ==
  ASSUME NEW k \in Keys, NEW c \in Nat, NEW d \in Nat
  PROVE  /\ Bytes(k, c) \in Nat
         /\ c <= d => Bytes(k, c) <= Bytes(k, d)
         /\ c < d => Bytes(k, c) < Bytes(k, d)
<1>1. SlotsOf[k] \in Nat /\ SlotsOf[k] > 0
  BY CacheConstants
<1>2. ASSUME NEW n \in Nat, n > 0, c < d
      PROVE  n * c < n * d
  <2>1. n * d = n * c + n * (d - c)
    BY <1>2
  <2>2. n * (d - c) > 0
    BY <1>2
  <2> QED BY <2>1, <2>2
<1>3. ASSUME NEW n \in Nat PROVE n * c \in Nat
  OBVIOUS
<1>4. QED
  BY <1>1, <1>2, <1>3 DEF Bytes

\* Every slot's bytes and workers are numbers.
LEMMA ChargesAreNumbers ==
  ASSUME TypeOK
  PROVE  /\ \A s \in Slots : EntryBytes[s] \in Nat /\ EntryWorkers[s] \in Nat
         /\ Live \in SUBSET Slots /\ IsFiniteSet(Live)
         /\ CacheableOf(Live) \in SUBSET Live /\ IsFiniteSet(CacheableOf(Live))
<1>1. \A s \in Slots : entry[s].key \in Keys /\ entry[s].capacity \in Nat
  BY DEF TypeOK, Entry
<1>2. \A s \in Slots : EntryBytes[s] \in Nat
  BY <1>1, BytesMonotone DEF EntryBytes
<1>3. \A s \in Slots : EntryWorkers[s] \in Nat
  BY <1>1, CacheConstants DEF EntryWorkers
<1>4. Live \in SUBSET Slots /\ CacheableOf(Live) \in SUBSET Live
  BY DEF Live, CacheableOf
<1>5. IsFiniteSet(Live) /\ IsFiniteSet(CacheableOf(Live))
  BY <1>4, CacheConstants, FS_Subset
<1>6. QED
  BY <1>2, <1>3, <1>4, <1>5

\* A step that changes no charge keeps the limits.
LEMMA SameLimits ==
  ASSUME Limits, \A s \in Slots : SameCharge(s)
  PROVE  Limits'
<1>1. Live' = Live /\ \A k \in Keys : OnDevice(Live, k)' = OnDevice(Live, k)
  BY DEF Live, OnDevice, SameCharge
<1>2. EntryBytes' = EntryBytes /\ EntryWorkers' = EntryWorkers
  BY DEF EntryBytes, EntryWorkers, SameCharge
<1>3. CacheableOf(Live)' = CacheableOf(Live)
  BY <1>1 DEF CacheableOf, SameCharge, Live
<1>4. QED
  BY <1>1, <1>2, <1>3 DEF Limits, Workers, RetainedBytes, LiveBytes

\* One amount changes: the total changes by the difference.
LEMMA TotalChange ==
  ASSUME NEW S, IsFiniteSet(S), NEW x \in S, NEW f, NEW g,
         \A s \in S : f[s] \in Nat /\ g[s] \in Nat,
         \A s \in S \ {x} : g[s] = f[s]
  PROVE  Total(S, g) = Total(S, f) - f[x] + g[x]
<1>1. Total(S, f) = Total(S \ {x}, f) + f[x]
  BY TotalSplit
<1>2. Total(S, g) = Total(S \ {x}, g) + g[x]
  BY TotalSplit
<1>3. Total(S \ {x}, g) = Total(S \ {x}, f)
  BY TotalSame
<1>4. Total(S \ {x}, f) \in Nat
  <2>1. IsFiniteSet(S \ {x})
    BY FS_RemoveElement
  <2> QED BY <2>1, UnitsFinite
<1>5. QED
  BY <1>1, <1>2, <1>3, <1>4

\* One holder joins: the total grows by its amount.
LEMMA TotalJoin ==
  ASSUME NEW S, IsFiniteSet(S), NEW x, x \notin S, NEW T, T = S \cup {x},
         NEW f, NEW g,
         \A s \in S : f[s] \in Nat, g[x] \in Nat, \A s \in S : g[s] = f[s]
  PROVE  Total(T, g) = Total(S, f) + g[x]
<1>1. IsFiniteSet(T) /\ T \ {x} = S /\ x \in T
  BY FS_AddElement
<1>2. \A s \in T : g[s] \in Nat
  OBVIOUS
<1>3. Total(T, g) = Total(T \ {x}, g) + g[x]
  BY <1>1, <1>2, TotalSplit
<1>4. Total(S, g) = Total(S, f)
  BY TotalSame
<1>5. QED
  BY <1>1, <1>3, <1>4

\* Releasing a charge keeps the limits.
LEMMA ReleasedLimits ==
  ASSUME TypeOK, Limits, NEW s \in Slots, entry'[s].state = "Absent",
         \A x \in Slots \ {s} : entry'[x] = entry[x]
  PROVE  Limits'
<1>1. Live' = Live \ {s} /\ Live \ {s} \in SUBSET Live
  BY DEF Live
<1>2. IsFiniteSet(Live) /\ IsFiniteSet(CacheableOf(Live))
  BY ChargesAreNumbers
<1>3. Cardinality(Live') <= Cardinality(Live)
  BY <1>1, <1>2, FS_Subset
<1>4. ASSUME NEW k \in Keys
      PROVE  Cardinality(OnDevice(Live, k)') <= Cardinality(OnDevice(Live, k))
  <2>1. OnDevice(Live, k)' \in SUBSET OnDevice(Live, k)
    BY <1>1 DEF OnDevice, Live
  <2>2. IsFiniteSet(OnDevice(Live, k))
    BY <1>2, FS_Subset DEF OnDevice
  <2> QED BY <2>1, <2>2, FS_Subset
<1>5. \A x \in Slots \ {s} : EntryBytes'[x] = EntryBytes[x] /\ EntryWorkers'[x] = EntryWorkers[x]
  BY DEF EntryBytes, EntryWorkers
<1>l. \A x \in Live \ {s} : EntryBytes'[x] = EntryBytes[x] /\ EntryWorkers'[x] = EntryWorkers[x]
  BY <1>5 DEF Live
<1>6. Workers(Live)' <= Workers(Live)
  <2>1. Total(Live \ {s}, EntryWorkers') = Total(Live \ {s}, EntryWorkers)
    BY <1>l, TotalSame
  <2>2. Total(Live \ {s}, EntryWorkers) <= Total(Live, EntryWorkers)
    BY <1>1, ChargesAreNumbers, TotalMonotone
  <2> QED BY <1>1, <2>1, <2>2 DEF Workers
<1>7. LiveBytes(Live)' <= LiveBytes(Live)
  <2>1. Total(Live \ {s}, EntryBytes') = Total(Live \ {s}, EntryBytes)
    BY <1>l, TotalSame
  <2>2. Total(Live \ {s}, EntryBytes) <= Total(Live, EntryBytes)
    BY <1>1, ChargesAreNumbers, TotalMonotone
  <2> QED BY <1>1, <2>1, <2>2 DEF LiveBytes
<1>8. RetainedBytes(Live)' <= RetainedBytes(Live)
  <2> DEFINE rest == CacheableOf(Live) \ {s}
  <2>1. CacheableOf(Live)' = rest
    BY <1>1 DEF CacheableOf, Live
  <2>2. Total(rest, EntryBytes') = Total(rest, EntryBytes)
    BY <1>5, TotalSame DEF CacheableOf, Live
  <2>3. Total(rest, EntryBytes) <= Total(CacheableOf(Live), EntryBytes)
    BY <1>2, ChargesAreNumbers, TotalMonotone
  <2> QED BY <2>1, <2>2, <2>3 DEF RetainedBytes
<1>9. /\ Cardinality(Live') \in Nat /\ Cardinality(Live) \in Nat
      /\ \A k \in Keys : /\ Cardinality(OnDevice(Live, k)') \in Nat
                         /\ Cardinality(OnDevice(Live, k)) \in Nat
  <2>1. \A k \in Keys : /\ OnDevice(Live, k)' \in SUBSET Live
                        /\ OnDevice(Live, k) \in SUBSET Live
    BY <1>1 DEF OnDevice
  <2> QED BY <1>1, <1>2, <2>1, FS_Subset, FS_CardinalityType
<1>10. /\ Workers(Live) \in Nat /\ Workers(Live)' \in Nat
       /\ LiveBytes(Live) \in Nat /\ LiveBytes(Live)' \in Nat
       /\ RetainedBytes(Live) \in Nat /\ RetainedBytes(Live)' \in Nat
  <2>1. /\ \A x \in Live \ {s} : EntryBytes'[x] \in Nat /\ EntryWorkers'[x] \in Nat
        /\ IsFiniteSet(Live \ {s}) /\ IsFiniteSet(CacheableOf(Live)')
    <3>1. CacheableOf(Live)' \in SUBSET (Live \ {s})
      BY <1>1 DEF CacheableOf
    <3>2. IsFiniteSet(Live \ {s})
      BY <1>2, FS_RemoveElement
    <3> QED BY <1>5, <3>1, <3>2, ChargesAreNumbers, FS_Subset
  <2>2. CacheableOf(Live)' \in SUBSET (Live \ {s})
    BY <1>1 DEF CacheableOf
  <2> QED BY <1>1, <2>1, <2>2, ChargesAreNumbers, UnitsFinite
          DEF Workers, LiveBytes, RetainedBytes
<1>11. QED
  BY <1>3, <1>4, <1>6, <1>7, <1>8, <1>9, <1>10, CacheConstants DEF Limits

\* Admitting a request that fits keeps the limits.
LEMMA ReservedLimits ==
  ASSUME TypeOK, Limits, NEW r \in Request, NEW s \in Slots \ Live,
         Fits(r, None, Live), entry'[s].state # "Absent",
         entry'[s].key = r.key, entry'[s].capacity = r.slotCapacity,
         \A x \in Slots \ {s} : entry'[x] = entry[x]
  PROVE  Limits'
<1>0. r.key \in Keys /\ r.slotCapacity \in Nat
  BY CacheConstants DEF Request
<1>1. Live' = Live \cup {s} /\ s \notin Live
  BY DEF Live
<1>2. IsFiniteSet(Live) /\ IsFiniteSet(CacheableOf(Live))
  BY ChargesAreNumbers
<1>3. /\ \A x \in Live : EntryBytes'[x] = EntryBytes[x] /\ EntryWorkers'[x] = EntryWorkers[x]
      /\ EntryBytes'[s] = Bytes(r.key, r.slotCapacity) /\ EntryBytes'[s] \in Nat
      /\ EntryWorkers'[s] = WorkersOf[r.key] /\ EntryWorkers'[s] \in Nat
  BY <1>0, <1>1, BytesMonotone, CacheConstants DEF EntryBytes, EntryWorkers, Live
<1>4. Cardinality(Live)' <= MaxContexts
  <2>1. Cardinality(Live') = Cardinality(Live) + 1 /\ Cardinality(Live) \in Nat
    BY <1>1, <1>2, FS_AddElement, FS_CardinalityType
  <2>2. ~Exceeds(Cardinality(Live), 1, MaxContexts)
    BY DEF Fits, NeedContexts, AddedContexts
  <2> QED BY <2>1, <2>2, WithinLimit, CacheConstants
<1>5. ASSUME NEW k \in Keys
      PROVE  Cardinality(OnDevice(Live, k)') <= MaxContextsPerDevice
  <2>1. CASE DeviceOf[k] = DeviceOf[r.key]
    <3>1. OnDevice(Live, k)' = OnDevice(Live, r.key) \cup {s}
      BY <1>1, <2>1 DEF OnDevice, Live
    <3>2. IsFiniteSet(OnDevice(Live, r.key)) /\ s \notin OnDevice(Live, r.key)
      BY <1>1, <1>2, FS_Subset DEF OnDevice
    <3>3. /\ Cardinality(OnDevice(Live, k)') = Cardinality(OnDevice(Live, r.key)) + 1
          /\ Cardinality(OnDevice(Live, r.key)) \in Nat
      BY <3>1, <3>2, FS_AddElement, FS_CardinalityType
    <3>4. ~Exceeds(Cardinality(OnDevice(Live, r.key)), 1, MaxContextsPerDevice)
      BY DEF Fits, NeedDevice, AddedContexts
    <3> QED BY <3>3, <3>4, WithinLimit, CacheConstants
  <2>2. CASE DeviceOf[k] # DeviceOf[r.key]
    <3>1. OnDevice(Live, k)' = OnDevice(Live, k)
      BY <1>1, <2>2 DEF OnDevice, Live
    <3> QED BY <3>1 DEF Limits
  <2> QED BY <2>1, <2>2
<1>6. Workers(Live)' <= MaxBackgroundWorkers
  <2>0. /\ \A x \in Live : EntryWorkers[x] \in Nat /\ EntryWorkers'[x] = EntryWorkers[x]
        /\ EntryWorkers'[s] \in Nat
    BY <1>3, ChargesAreNumbers
  <2>1. Total(Live', EntryWorkers') = Total(Live, EntryWorkers) + EntryWorkers'[s]
    BY <1>1, <1>2, <2>0, TotalJoin
  <2>2. Total(Live, EntryWorkers) \in Nat
    BY <1>2, ChargesAreNumbers, UnitsFinite
  <2>3. ~Exceeds(Total(Live, EntryWorkers), WorkersOf[r.key], MaxBackgroundWorkers)
    BY DEF Fits, NeedWorkers, AddedWorkers, Workers
  <2> QED BY <1>1, <1>3, <2>1, <2>2, <2>3, WithinLimit, CacheConstants DEF Workers
<1> DEFINE added == Bytes(r.key, r.slotCapacity)
<1>7. LiveBytes(Live)' <= MaxLiveStagingBytes
  <2>0. /\ \A x \in Live : EntryBytes[x] \in Nat /\ EntryBytes'[x] = EntryBytes[x]
        /\ EntryBytes'[s] \in Nat
    BY <1>3, ChargesAreNumbers
  <2>1. Total(Live', EntryBytes') = Total(Live, EntryBytes) + EntryBytes'[s]
    BY <1>1, <1>2, <2>0, TotalJoin
  <2>2. Total(Live, EntryBytes) \in Nat /\ added \in Nat
    BY <1>2, <1>3, ChargesAreNumbers, UnitsFinite
  <2>3. AddedBytes(r, None) = added
    BY <2>2 DEF AddedBytes
  <2>4. ~Exceeds(Total(Live, EntryBytes), added, MaxLiveStagingBytes)
    BY <2>3 DEF Fits, NeedLive, LiveBytes
  <2> QED BY <1>1, <1>3, <2>1, <2>2, <2>4, WithinLimit, CacheConstants DEF LiveBytes
<1>8. RetainedBytes(Live)' <= MaxRetainedBytes
  <2>1. CASE ~Cacheable(r.key, r.slotCapacity)
    <3>1. CacheableOf(Live)' = CacheableOf(Live)
      BY <1>1, <2>1 DEF CacheableOf, Live
    <3>2. Total(CacheableOf(Live), EntryBytes') = Total(CacheableOf(Live), EntryBytes)
      BY <1>3, ChargesAreNumbers, TotalSame
    <3> QED BY <3>1, <3>2 DEF RetainedBytes, Limits
  <2>2. CASE Cacheable(r.key, r.slotCapacity)
    <3>1. CacheableOf(Live)' = CacheableOf(Live) \cup {s} /\ s \notin CacheableOf(Live)
      BY <1>1, <2>2 DEF CacheableOf, Live
    <3>2. /\ \A x \in CacheableOf(Live) : EntryBytes[x] \in Nat
          /\ \A x \in CacheableOf(Live) : EntryBytes'[x] = EntryBytes[x]
      BY <1>3, ChargesAreNumbers
    <3>3. Total(CacheableOf(Live)', EntryBytes') = Total(CacheableOf(Live), EntryBytes) + EntryBytes'[s]
      <4> DEFINE S == CacheableOf(Live)
                 T == CacheableOf(Live)'
      <4>0. EntryBytes'[s] \in Nat
        BY <1>3
      <4>1. IsFiniteSet(S) /\ s \notin S /\ T = S \cup {s}
        BY <1>2, <3>1
      <4>2. (\A x \in S : EntryBytes[x] \in Nat) /\ (\A x \in S : EntryBytes'[x] = EntryBytes[x])
        BY <3>2
      <4> HIDE DEF S, T
      <4>3. Total(T, EntryBytes') = Total(S, EntryBytes) + EntryBytes'[s]
        BY <4>0, <4>1, <4>2, TotalJoin
      <4> QED BY <4>3 DEF S, T
    <3>4. Total(CacheableOf(Live), EntryBytes) \in Nat /\ added \in Nat
      BY <1>2, <1>3, <3>2, UnitsFinite
    <3>5. AddedRetained(r, None) = added
      BY <2>2, <3>4 DEF AddedRetained, AddedBytes
    <3>6. ~Exceeds(Total(CacheableOf(Live), EntryBytes), added, MaxRetainedBytes)
      BY <3>5 DEF Fits, NeedRetained, RetainedBytes
    <3> QED BY <1>3, <3>1, <3>3, <3>4, <3>6, WithinLimit, CacheConstants DEF RetainedBytes
  <2> QED BY <2>1, <2>2
<1>9. QED
  BY <1>4, <1>5, <1>6, <1>7, <1>8 DEF Limits

\* Growing an idle context to a request that fits keeps the limits: only the
\* difference is added.
LEMMA ExtendedLimits ==
  ASSUME TypeOK, Limits, NEW r \in Request, NEW g \in Live, Fits(r, g, Live),
         Cacheable(r.key, r.slotCapacity),
         entry[g].key = r.key, entry[g].capacity < r.slotCapacity,
         entry'[g].state # "Absent",
         entry'[g].key = r.key, entry'[g].capacity = r.slotCapacity,
         \A x \in Slots \ {g} : entry'[x] = entry[x]
  PROVE  Limits'
<1>0. r.key \in Keys /\ r.slotCapacity \in Nat /\ entry[g].capacity \in Nat
  BY CacheConstants DEF Request, Live, TypeOK, Entry
<1>1. Live' = Live /\ g # None
  BY CacheConstants DEF Live
<1>2. IsFiniteSet(Live) /\ IsFiniteSet(CacheableOf(Live))
  BY ChargesAreNumbers
<1>3. EntryWorkers' = EntryWorkers
  BY DEF EntryWorkers, Live
<1> DEFINE old == Bytes(r.key, entry[g].capacity)
           new == Bytes(r.key, r.slotCapacity)
<1>4. /\ EntryBytes[g] = old /\ EntryBytes'[g] = new
      /\ old \in Nat /\ new \in Nat /\ old < new
      /\ \A x \in Live \ {g} : EntryBytes'[x] = EntryBytes[x]
  BY <1>0, BytesMonotone DEF EntryBytes, Live
<1> HIDE DEF old, new
<1>5. \A x \in Live : EntryBytes[x] \in Nat /\ EntryBytes'[x] \in Nat
  BY <1>4, ChargesAreNumbers
<1>6. AddedBytes(r, g) = new - old /\ AddedRetained(r, g) = new - old
  BY <1>1, <1>4 DEF AddedBytes, AddedRetained, new
<1>7. LiveBytes(Live)' <= MaxLiveStagingBytes
  <2>1. Total(Live, EntryBytes') = Total(Live, EntryBytes) - old + new
    BY <1>2, <1>4, <1>5, TotalChange
  <2>2. Total(Live, EntryBytes) \in Nat /\ new - old \in Nat
    BY <1>2, <1>4, <1>5, UnitsFinite
  <2>3. ~Exceeds(Total(Live, EntryBytes), new - old, MaxLiveStagingBytes)
    BY <1>6 DEF Fits, NeedLive, LiveBytes
  <2>4. Total(Live, EntryBytes) + (new - old) <= MaxLiveStagingBytes
    BY <2>2, <2>3, WithinLimit, CacheConstants
  <2> QED BY <1>1, <1>4, <2>1, <2>2, <2>4 DEF LiveBytes
<1>8. RetainedBytes(Live)' <= MaxRetainedBytes
  <2>1. g \in CacheableOf(Live) /\ CacheableOf(Live)' = CacheableOf(Live)
    <3>1. new <= MaxRetainedBytes
      BY DEF Cacheable, new
    <3>2. old <= MaxRetainedBytes
      BY <1>4, <3>1, CacheConstants
    <3>3. Cacheable(entry[g].key, entry[g].capacity)
      BY <3>2 DEF Cacheable, old
    <3> QED BY <1>1, <3>3 DEF CacheableOf, Live
  <2> DEFINE S == CacheableOf(Live)
  <2>2. /\ \A x \in S : EntryBytes[x] \in Nat /\ EntryBytes'[x] \in Nat
        /\ \A x \in S \ {g} : EntryBytes'[x] = EntryBytes[x]
    BY <1>4, <1>5 DEF CacheableOf
  <2>3. g \in S /\ IsFiniteSet(S)
    BY <1>2, <2>1
  <2> HIDE DEF S
  <2>4. Total(S, EntryBytes') = Total(S, EntryBytes) - old + new
    BY <1>4, <2>2, <2>3, TotalChange
  <2>5. Total(S, EntryBytes) \in Nat /\ new - old \in Nat
    BY <1>4, <2>2, <2>3, UnitsFinite
  <2>6. ~Exceeds(Total(S, EntryBytes), new - old, MaxRetainedBytes)
    BY <1>6 DEF Fits, NeedRetained, RetainedBytes, S
  <2>7. Total(S, EntryBytes) + (new - old) <= MaxRetainedBytes
    BY <2>5, <2>6, WithinLimit, CacheConstants
  <2> QED BY <1>4, <2>1, <2>4, <2>5, <2>7 DEF RetainedBytes, S
<1>9. \A k \in Keys : OnDevice(Live, k)' = OnDevice(Live, k)
  BY <1>1 DEF OnDevice, Live
<1>10. QED
  BY <1>1, <1>3, <1>7, <1>8, <1>9 DEF Limits, Workers

(***************************************************************************)
(* The refinement: what the limits say of the charges, and that each kind  *)
(* of change is a step of the abstract budget.                             *)
(***************************************************************************)
\* The cache's limits are the budget's limits on the charged slots,
LEMMA LimitsOfBudget == TypeOK /\ Limits => Budget!WithinLimits
<1> SUFFICES ASSUME TypeOK, Limits PROVE Budget!WithinLimits
  OBVIOUS
<1>1. Budget!Used = Live
  BY DEF Charged, Budget!Used, Live
<1>2. Budget!Ring = EntryBytes /\ Budget!Gatherers = EntryWorkers
  BY DEF Charged, Budget!Ring, Budget!RingBytes, Budget!Gatherers, EntryBytes, EntryWorkers, Bytes
<1>3. Budget!Retained = CacheableOf(Live)
  BY <1>1 DEF Charged, Budget!Retained, Budget!RingBytes, CacheableOf, Cacheable, Bytes, Live
<1>4. ASSUME NEW d \in Devices
      PROVE  Cardinality(Budget!UsedOn(d)) <= MaxContextsPerDevice
  <2>1. CASE Budget!UsedOn(d) = {}
    BY <2>1, FS_EmptySet, CacheConstants
  <2>2. CASE Budget!UsedOn(d) # {}
    <3>1. PICK s \in Live : DeviceOf[entry[s].key] = d
      BY <1>1, <2>2 DEF Charged, Budget!UsedOn, Live
    <3>2. entry[s].key \in Keys
      BY DEF Live, TypeOK, Entry
    <3>3. Budget!UsedOn(d) = OnDevice(Live, entry[s].key)
      BY <1>1, <3>1 DEF Charged, Budget!UsedOn, OnDevice, Live
    <3> QED BY <3>2, <3>3 DEF Limits
  <2> QED BY <2>1, <2>2
<1>5. \A S : Budget!Cardinality(S) = Cardinality(S)
  BY DEF Budget!Cardinality, Cardinality
<1>6. \A S, f : Budget!Total(S, f) = Total(S, f)
  BY <1>5 DEF Budget!Total, Total, Budget!Units, Units
<1>7. QED
  BY <1>1, <1>2, <1>3, <1>4, <1>5, <1>6
     DEF Budget!WithinLimits, Limits, Workers, RetainedBytes, LiveBytes

\* before and after a step.
LEMMA LimitsOfBudgetNext == TypeOK' /\ Limits' => Budget!WithinLimits'
BY LimitsOfBudget, PTL

(***************************************************************************)
(* What each step does to the charges.                                     *)
(***************************************************************************)
BudgetStep == Budget!Next \/ \A s \in Slots : SameCharge(s)

\* A slot that moves on without changing its charge.
LEMMA MovedBudget ==
  ASSUME TypeOK, Limits, NEW s \in Slots, NEW e, entry' = [entry EXCEPT ![s] = e],
         e.key = entry[s].key, e.capacity = entry[s].capacity,
         entry[s].state \notin {"Absent", "Quarantined"},
         e.state \notin {"Absent", "Quarantined"}
  PROVE  Limits' /\ BudgetStep
<1>1. \A x \in Slots : SameCharge(x)
  BY DEF TypeOK, SameCharge
<1>2. QED
  BY <1>1, SameLimits DEF BudgetStep

\* A slot that is admitted is reserved.
LEMMA ReservedBudget ==
  ASSUME TypeOK, TypeOK', Limits, NEW r \in Request, NEW s \in Slots \ Live,
         Fits(r, None, Live), NEW e, entry' = [entry EXCEPT ![s] = e],
         e.state = "Building", e.key = r.key, e.capacity = r.slotCapacity
  PROVE  Limits' /\ BudgetStep
<1>1. entry'[s] = e /\ \A x \in Slots \ {s} : entry'[x] = entry[x]
  BY DEF TypeOK
<1>2. Limits'
  BY <1>1, ReservedLimits
<1>3. Budget!WithinLimits'
  BY <1>2, LimitsOfBudgetNext
<1>4. Budget!Reserve(s)
  BY <1>1, <1>3 DEF Charged, Budget!Reserve, Budget!Others, Live
<1>5. QED
  BY <1>2, <1>4 DEF BudgetStep, Budget!Next

\* A growth extends a charge.
LEMMA ExtendedBudget ==
  ASSUME TypeOK, TypeOK', Limits, NEW r \in Request, NEW g \in Idle,
         Fits(r, g, Live), Cacheable(r.key, r.slotCapacity),
         entry[g].key = r.key, entry[g].capacity < r.slotCapacity,
         NEW e, entry' = [entry EXCEPT ![g] = e],
         e.state = "Building", e.key = r.key, e.capacity = r.slotCapacity
  PROVE  Limits' /\ BudgetStep
<1>1. /\ entry'[g] = e /\ \A x \in Slots \ {g} : entry'[x] = entry[x]
      /\ g \in Slots /\ g \in Live
  BY DEF TypeOK, Idle, Live
<1>2. Limits'
  BY <1>1, ExtendedLimits
<1>3. Budget!WithinLimits'
  BY <1>2, LimitsOfBudgetNext
<1>4. Budget!Extend(g)
  BY <1>1, <1>3 DEF Charged, Budget!Extend, Budget!Others, Idle
<1>5. QED
  BY <1>1, <1>2, <1>4 DEF BudgetStep, Budget!Next

\* A retirement releases the charge or makes it permanent.
LEMMA RetiredBudget ==
  ASSUME TypeOK, Limits, NEW s \in Slots, NEW e, entry' = [entry EXCEPT ![s] = e],
         entry[s].state = "Retiring",
         \/ e.state = "Absent"
         \/ e.state = "Quarantined" /\ e.key = entry[s].key /\ e.capacity = entry[s].capacity
  PROVE  Limits' /\ BudgetStep
<1>1. entry'[s] = e /\ \A x \in Slots \ {s} : entry'[x] = entry[x]
  BY DEF TypeOK
<1>2. CASE e.state = "Absent"
  <2>1. Limits'
    BY <1>1, <1>2, ReleasedLimits
  <2>2. Budget!Release(s)
    BY <1>1, <1>2 DEF Charged, Budget!Release, Budget!Others
  <2> QED BY <2>1, <2>2 DEF BudgetStep, Budget!Next
<1>3. CASE e.state = "Quarantined" /\ e.key = entry[s].key /\ e.capacity = entry[s].capacity
  <2>1. Budget!Condemn(s)
    BY <1>1, <1>3 DEF Charged, Budget!Condemn, TypeOK
  <2>2. Live' = Live /\ \A k \in Keys : OnDevice(Live, k)' = OnDevice(Live, k)
    BY <1>1, <1>3 DEF Live, OnDevice
  <2>3. EntryBytes' = EntryBytes /\ EntryWorkers' = EntryWorkers
    BY <1>1, <1>3 DEF EntryBytes, EntryWorkers
  <2>4. CacheableOf(Live)' = CacheableOf(Live)
    BY <1>1, <1>3, <2>2 DEF CacheableOf, Live
  <2>5. Limits'
    BY <2>2, <2>3, <2>4 DEF Limits, Workers, RetainedBytes, LiveBytes
  <2> QED BY <2>1, <2>5 DEF BudgetStep, Budget!Next
<1>4. QED
  BY <1>2, <1>3

(***************************************************************************)
(* The accounts: who is served by an entry, what it allocated and how old  *)
(* it is.  AccountInv adds to the leases of LeaseInv that the limits hold, *)
(* that the holder of an entry asked for it, and that a close() under way  *)
(* has made the generation it waits for the newest; with less, growing an  *)
(* idle context, or a return after close(), could not be shown harmless.   *)
(***************************************************************************)
\* What a caller at work on an entry knows of it: it has the key and the
\* size of the caller's request, and construction proceeds by whole slots.
Serves(t) ==
  /\ pc[t] \in {"free", "build", "execute"} =>
       /\ entry[held[t]].key = req[t].key
       /\ entry[held[t]].capacity >= req[t].slotCapacity
  /\ pc[t] = "build" =>
       \E k \in Nat : entry[held[t]].allocated = k * entry[held[t]].capacity
  /\ pc[t] = "execute" => entry[held[t]].allocated = EntryBytes[held[t]]

\* Allocation stays within the reservation, an idle context is complete, and
\* every entry of a closed cache is older than close().
SlotOK(s) ==
  /\ entry[s].allocated <= EntryBytes[s]
  /\ entry[s].state = "Idle" => entry[s].allocated = EntryBytes[s]
  /\ entry[s].state # "Absent" =>
       /\ entry[s].generation <= generation
       /\ closed => entry[s].generation < generation

\* clear()'s locals are set only inside it, and a close() that has not
\* returned waits for the newest generation.
ClearOK(t) ==
  /\ pc[t] \notin {"clear", "drop"} => cutoff[t] = 0 /\ ~closing[t]
  /\ closing[t] => closed /\ cutoff[t] = generation

Contents ==
  /\ \A t \in Threads : Serves(t)
  /\ \A s \in Slots : SlotOK(s)
  /\ NoStaleIdle
Clearing == \A t \in Threads : ClearOK(t)

AccountInv == LeaseInv /\ Limits /\ Contents /\ Clearing /\ CloseDrains

\* One entry changes, and no other caller holds it: what holds of every other
\* caller and entry still holds.
LEMMA ContentsStep ==
  ASSUME LeaseInv, TypeOK', Contents, NEW t \in Threads, NEW x \in Slots, NEW e,
         entry' = [entry EXCEPT ![x] = e],
         \A u \in Threads \ {t} :
           /\ pc'[u] = pc[u] /\ held'[u] = held[u] /\ req'[u] = req[u]
           /\ held[u] # x,
         UNCHANGED <<closed, generation, cutoff>>,
         Serves(t)', SlotOK(x)',
         e.state = "Idle" =>
           \/ e.generation = generation
           \/ entry[x].state = "Idle" /\ e.generation = entry[x].generation
  PROVE  Contents'
<1> USE DEF LeaseInv, TypeOK
<1>1. entry'[x] = e /\ \A y \in Slots \ {x} : entry'[y] = entry[y]
  OBVIOUS
<1>2. \A y \in Slots \ {x} : EntryBytes'[y] = EntryBytes[y]
  BY <1>1 DEF EntryBytes
<1>3. ASSUME NEW u \in Threads PROVE Serves(u)'
  <2>1. CASE u = t
    BY <2>1
  <2>2. CASE u # t
    <3>1. CASE pc[u] \in {"free", "build", "execute"}
      <4>1. held[u] \in Slots \ {x}
        BY <2>2, <3>1, HolderHolds
      <4>2. /\ entry'[held[u]] = entry[held[u]]
            /\ EntryBytes'[held[u]] = EntryBytes[held[u]]
        BY <1>1, <1>2, <4>1
      <4>3. Serves(u)
        BY DEF Contents
      <4> QED BY <2>2, <4>2, <4>3 DEF Serves
    <3>2. CASE pc[u] \notin {"free", "build", "execute"}
      BY <2>2, <3>2 DEF Serves
    <3> QED BY <3>1, <3>2
  <2> QED BY <2>1, <2>2
<1>4. ASSUME NEW s \in Slots PROVE SlotOK(s)'
  <2>1. CASE s = x
    BY <2>1
  <2>2. CASE s # x
    BY <1>1, <1>2, <2>2 DEF Contents, SlotOK
  <2> QED BY <2>1, <2>2
<1>5. NoStaleIdle'
  <2> SUFFICES ASSUME NEW s \in Idle'
               PROVE  \/ entry'[s].generation = generation
                      \/ \E u \in Threads : entry'[s].generation < cutoff[u]
    BY DEF NoStaleIdle
  <2>1. s \in Slots /\ entry'[s].state = "Idle"
    BY DEF Idle
  <2>2. CASE entry'[s].generation = generation
    BY <2>2
  <2>3. CASE entry'[s].generation # generation
    <3>1. entry[s].state = "Idle" /\ entry'[s].generation = entry[s].generation
      BY <1>1, <2>1, <2>3
    <3>2. s \in Idle
      BY <2>1, <3>1 DEF Idle
    <3> QED BY <2>3, <3>1, <3>2 DEF Contents, NoStaleIdle
  <2> QED BY <2>2, <2>3
<1>6. QED
  BY <1>3, <1>4, <1>5 DEF Contents

\* No entry changes, and the caller that moves is not at work on one.
LEMMA ContentsQuiet ==
  ASSUME LeaseInv, Contents, NEW t \in Threads,
         UNCHANGED <<entry, closed, generation, cutoff>>,
         \A u \in Threads \ {t} :
           pc'[u] = pc[u] /\ held'[u] = held[u] /\ req'[u] = req[u],
         pc'[t] \notin {"free", "build", "execute"}
  PROVE  Contents'
<1>1. EntryBytes' = EntryBytes /\ Idle' = Idle
  BY DEF EntryBytes, Idle
<1>2. \A u \in Threads : Serves(u)'
  BY <1>1 DEF Contents, Serves
<1>3. \A s \in Slots : SlotOK(s)'
  BY <1>1 DEF Contents, SlotOK
<1>4. NoStaleIdle'
  BY <1>1 DEF Contents, NoStaleIdle
<1>5. QED
  BY <1>2, <1>3, <1>4 DEF Contents

\* A context that becomes leased or idle in a step is on a usable device.
Usable == \A s \in Slots :
            entry'[s].state \in {"Leased", "Idle"} /\ entry[s].state # entry'[s].state
              => ~DeviceDisabled(entry'[s].key)

\* One entry changes to one its device may use.
LEMMA OneUsable ==
  ASSUME TypeOK, NEW x \in Slots, NEW e, entry' = [entry EXCEPT ![x] = e],
         e.state \in {"Leased", "Idle"} => ~DeviceDisabled(e.key)
  PROVE  Usable
BY DEF TypeOK, Usable

\* What the next state owes to the accounts of this one.
Accounted == Limits' /\ Contents' /\ BudgetStep /\ Usable

\* A step that changes no entry and ends outside construction and execution.
LEMMA QuietAccounts ==
  ASSUME LeaseInv, Limits, Contents, NEW t \in Threads,
         UNCHANGED <<entry, closed, generation, cutoff>>,
         \A u \in Threads \ {t} :
           pc'[u] = pc[u] /\ held'[u] = held[u] /\ req'[u] = req[u],
         pc'[t] \notin {"free", "build", "execute"}
  PROVE  Accounted
<1>1. \A s \in Slots : SameCharge(s)
  BY DEF SameCharge
<1>2. Limits' /\ BudgetStep
  BY <1>1, SameLimits DEF BudgetStep
<1>3. Usable
  BY DEF Usable
<1>4. QED
  BY <1>2, <1>3, ContentsQuiet DEF Accounted

\* The error returns of acquire().
LEMMA AcquireErrorAccounts ==
  ASSUME LeaseInv, Limits, Contents, NEW t, NEW r, NEW q, NEW w, Linked(t, r, q),
         AcquireError(t, r, q, w)
  PROVE  Accounted
<1>1. /\ t \in Threads /\ pc'[t] = "idle"
      /\ \A u \in Threads \ {t} :
           pc'[u] = pc[u] /\ held'[u] = held[u] /\ req'[u] = req[u]
      /\ UNCHANGED <<entry, closed, generation, cutoff>>
  BY DEF AcquireError, Linked, LeaseInv, TypeOK
<1>2. QED
  BY <1>1, QuietAccounts

\* A caller that goes to sleep.
LEMMA WaitAccounts ==
  ASSUME LeaseInv, Limits, Contents, NEW t, NEW r, NEW q, Linked(t, r, q),
         Wait(t, r, q)
  PROVE  Accounted
<1>1. /\ t \in Threads /\ pc'[t] = "acquire"
      /\ \A u \in Threads \ {t} :
           pc'[u] = pc[u] /\ held'[u] = held[u] /\ req'[u] = req[u]
      /\ UNCHANGED <<entry, closed, generation, cutoff>>
  BY DEF Wait, Linked, LeaseInv, TypeOK
<1>2. QED
  BY <1>1, QuietAccounts

\* What every grant does to the callers.
LEMMA GrantedCallers ==
  ASSUME LeaseInv, NEW t, NEW r, NEW q, Linked(t, r, q), NEW s \in Slots, NEW next,
         Grant(t, r, q, s, next), s \notin Active
  PROVE  /\ t \in Threads /\ pc'[t] = next /\ held'[t] = s /\ req'[t] = r
         /\ \A u \in Threads \ {t} :
              /\ pc'[u] = pc[u] /\ held'[u] = held[u] /\ req'[u] = req[u]
              /\ held[u] # s
         /\ UNCHANGED <<closed, generation, cutoff>>
BY Unheld DEF Grant, Linked, LeaseInv, TypeOK

\* A hit leases a complete context of the request's key and size.
LEMMA HitAccounts ==
  ASSUME LeaseInv, LeaseInv', Limits, Contents, NEW t, NEW r, NEW q,
         Linked(t, r, q), ~Refused(r), Hit(t, r, q)
  PROVE  Accounted
<1>1. PICK s \in Sufficient(r) :
        /\ entry' = [entry EXCEPT ![s].state = "Leased"]
        /\ Grant(t, r, q, s, "execute")
  BY DEF Hit
<1>2. /\ s \in Slots /\ s \notin Active /\ entry[s].state = "Idle"
      /\ entry[s].key = r.key /\ entry[s].capacity >= r.slotCapacity
      /\ entry[s] \in Entry
  BY DEF Sufficient, Compatible, Idle, Active, LeaseInv, TypeOK
<1> DEFINE e == [entry[s] EXCEPT !.state = "Leased"]
<1>3. /\ entry' = [entry EXCEPT ![s] = e] /\ e.state = "Leased"
      /\ e.key = entry[s].key /\ e.capacity = entry[s].capacity
      /\ e.allocated = entry[s].allocated /\ e.generation = entry[s].generation
  BY <1>1, <1>2 DEF Entry
<1> HIDE DEF e
<1>4. entry'[s] = e /\ EntryBytes'[s] = EntryBytes[s]
  BY <1>2, <1>3 DEF EntryBytes, LeaseInv, TypeOK
<1>5. /\ t \in Threads /\ pc'[t] = "execute" /\ held'[t] = s /\ req'[t] = r
      /\ \A u \in Threads \ {t} :
           /\ pc'[u] = pc[u] /\ held'[u] = held[u] /\ req'[u] = req[u]
           /\ held[u] # s
      /\ UNCHANGED <<closed, generation, cutoff>>
  BY <1>1, <1>2, GrantedCallers
<1>6. Limits' /\ BudgetStep
  BY <1>2, <1>3, MovedBudget DEF LeaseInv
<1>7. Usable
  BY <1>2, <1>3, OneUsable DEF Refused, DeviceDisabled, LeaseInv
<1>8. Contents'
  <2>1. SlotOK(s)
    BY <1>2 DEF Contents
  <2>2. Serves(t)'
    BY <1>2, <1>3, <1>4, <1>5, <2>1 DEF Serves, SlotOK
  <2>3. SlotOK(s)'
    BY <1>2, <1>3, <1>4, <1>5, <2>1 DEF SlotOK
  <2> QED BY <1>2, <1>3, <1>5, <2>2, <2>3, ContentsStep DEF LeaseInv
<1>9. QED
  BY <1>6, <1>7, <1>8 DEF Accounted

\* A growth reserves the request's size and keeps the old allocation.
LEMMA GrowAccounts ==
  ASSUME LeaseInv, LeaseInv', Limits, Contents, NEW t, NEW r, NEW q,
         Linked(t, r, q), ~Refused(r), Grow(t, r, q)
  PROVE  Accounted
<1>1. PICK s \in Growable(r) :
        /\ Fits(r, s, Live)
        /\ entry' = [entry EXCEPT ![s].state = "Building",
                                  ![s].capacity = r.slotCapacity,
                                  ![s].generation = generation]
        /\ Grant(t, r, q, s, "free")
  BY DEF Grow
<1>2. /\ s \in Slots /\ s \notin Active /\ s \in Idle /\ entry[s].state = "Idle"
      /\ entry[s].key = r.key /\ entry[s].capacity < r.slotCapacity
      /\ Cacheable(r.key, r.slotCapacity)
      /\ entry[s] \in Entry
  BY DEF Growable, Compatible, Idle, Active, LeaseInv, TypeOK
<1>r. r \in Request /\ r.key \in Keys /\ r.slotCapacity \in Nat
  BY CacheConstants DEF Linked, Request
<1> DEFINE e == [entry[s] EXCEPT !.state = "Building",
                                 !.capacity = r.slotCapacity,
                                 !.generation = generation]
<1>3. /\ entry' = [entry EXCEPT ![s] = e] /\ e.state = "Building"
      /\ e.key = r.key /\ e.capacity = r.slotCapacity
      /\ e.allocated = entry[s].allocated /\ e.generation = generation
      /\ entry[s].capacity \in Nat /\ entry[s].allocated \in Nat
      /\ generation \in Nat
  BY <1>1, <1>2 DEF Entry, LeaseInv, TypeOK
<1> HIDE DEF e
<1>4. /\ entry'[s] = e /\ EntryBytes'[s] = Bytes(r.key, r.slotCapacity)
      /\ EntryBytes[s] = Bytes(r.key, entry[s].capacity)
  BY <1>2, <1>3 DEF EntryBytes, LeaseInv, TypeOK
<1>5. /\ t \in Threads /\ pc'[t] = "free" /\ held'[t] = s /\ req'[t] = r
      /\ \A u \in Threads \ {t} :
           /\ pc'[u] = pc[u] /\ held'[u] = held[u] /\ req'[u] = req[u]
           /\ held[u] # s
      /\ UNCHANGED <<closed, generation, cutoff>>
  BY <1>1, <1>2, GrantedCallers
<1>6. Limits' /\ BudgetStep
  <2>1. TypeOK /\ TypeOK'
    BY DEF LeaseInv
  <2>2. r \in Request /\ s \in Idle
    BY <1>2, <1>r
  <2>3. Fits(r, s, Live) /\ Cacheable(r.key, r.slotCapacity)
    BY <1>1, <1>2
  <2>4. entry[s].key = r.key /\ entry[s].capacity < r.slotCapacity
    BY <1>2
  <2>5. e.state = "Building" /\ e.key = r.key /\ e.capacity = r.slotCapacity
    BY <1>3
  <2>6. entry' = [entry EXCEPT ![s] = e]
    BY <1>3
  <2> QED BY <2>1, <2>2, <2>3, <2>4, <2>5, <2>6, ExtendedBudget
<1>7. Usable
  BY <1>2, <1>3, OneUsable DEF LeaseInv
<1>8. Contents'
  <2>1. entry[s].allocated <= Bytes(r.key, r.slotCapacity)
    <3>1. entry[s].allocated = Bytes(r.key, entry[s].capacity)
      BY <1>2, <1>4 DEF Contents, SlotOK
    <3>2. Bytes(r.key, entry[s].capacity) < Bytes(r.key, r.slotCapacity)
      BY <1>2, <1>3, <1>r, BytesMonotone
    <3>3. /\ Bytes(r.key, entry[s].capacity) \in Nat
          /\ Bytes(r.key, r.slotCapacity) \in Nat
      BY <1>3, <1>r, BytesMonotone
    <3> QED BY <3>1, <3>2, <3>3
  <2>2. Serves(t)'
    BY <1>3, <1>4, <1>5, <1>r DEF Serves
  <2>3. SlotOK(s)'
    BY <1>3, <1>4, <1>5, <2>1 DEF SlotOK, Refused
  <2> QED BY <1>2, <1>3, <1>5, <2>2, <2>3, ContentsStep DEF LeaseInv
<1>9. QED
  BY <1>6, <1>7, <1>8 DEF Accounted

\* A miss reserves the request's size before anything is allocated.
LEMMA MissAccounts ==
  ASSUME LeaseInv, LeaseInv', Limits, Contents, NEW t, NEW r, NEW q,
         Linked(t, r, q), ~Refused(r), Miss(t, r, q)
  PROVE  Accounted
<1> DEFINE e == [Vacant EXCEPT !.state = "Building", !.key = r.key,
                               !.capacity = r.slotCapacity,
                               !.generation = generation, !.born = generation]
<1>1. PICK s \in Slots \ Live : /\ entry' = [entry EXCEPT ![s] = e]
                                /\ Grant(t, r, q, s, "build")
  BY DEF Miss
<1>2. Fits(r, None, Live) /\ s \in Slots /\ s \notin Active
  BY DEF Miss, Live, Active
<1>r. r \in Request /\ r.key \in Keys /\ r.slotCapacity \in Nat
  BY CacheConstants DEF Linked, Request
<1>3. /\ e.state = "Building" /\ e.key = r.key /\ e.capacity = r.slotCapacity
      /\ e.allocated = 0 /\ e.generation = generation /\ generation \in Nat
  BY DEF Vacant, LeaseInv, TypeOK
<1> HIDE DEF e
<1>4. entry'[s] = e /\ EntryBytes'[s] = Bytes(r.key, r.slotCapacity)
  BY <1>1, <1>3 DEF EntryBytes, LeaseInv, TypeOK
<1>5. /\ t \in Threads /\ pc'[t] = "build" /\ held'[t] = s /\ req'[t] = r
      /\ \A u \in Threads \ {t} :
           /\ pc'[u] = pc[u] /\ held'[u] = held[u] /\ req'[u] = req[u]
           /\ held[u] # s
      /\ UNCHANGED <<closed, generation, cutoff>>
  BY <1>1, <1>2, GrantedCallers
<1>6. Limits' /\ BudgetStep
  BY <1>1, <1>2, <1>3, <1>r, ReservedBudget DEF LeaseInv
<1>7. Usable
  BY <1>1, <1>2, <1>3, OneUsable DEF LeaseInv
<1>8. Contents'
  <2>1. Bytes(r.key, r.slotCapacity) \in Nat
    BY <1>r, BytesMonotone
  <2>2. 0 = 0 * r.slotCapacity
    BY <1>r
  <2>3. Serves(t)'
    BY <1>3, <1>4, <1>5, <1>r, <2>2 DEF Serves
  <2>4. SlotOK(s)'
    BY <1>3, <1>4, <1>5, <2>1 DEF SlotOK, Refused
  <2> QED BY <1>1, <1>2, <1>3, <1>5, <2>3, <2>4, ContentsStep DEF LeaseInv
<1>9. QED
  BY <1>6, <1>7, <1>8 DEF Accounted

\* An idle context taken out of service stays charged.
LEMMA RetireIdleAccounts ==
  ASSUME LeaseInv, LeaseInv', Limits, Contents, NEW t \in Threads, NEW v \in Idle,
         entry' = [entry EXCEPT ![v].state = "Retiring"],
         pc'[t] \in {"evict", "drop"},
         \A u \in Threads \ {t} :
           pc'[u] = pc[u] /\ held'[u] = held[u] /\ req'[u] = req[u],
         UNCHANGED <<closed, generation, cutoff>>
  PROVE  Accounted
<1>1. /\ v \in Slots /\ v \notin Active /\ entry[v].state = "Idle"
      /\ entry[v] \in Entry
  BY DEF Idle, Active, LeaseInv, TypeOK
<1> DEFINE e == [entry[v] EXCEPT !.state = "Retiring"]
<1>2. /\ entry' = [entry EXCEPT ![v] = e] /\ e.state = "Retiring"
      /\ e.key = entry[v].key /\ e.capacity = entry[v].capacity
      /\ e.allocated = entry[v].allocated /\ e.generation = entry[v].generation
  BY <1>1 DEF Entry
<1> HIDE DEF e
<1>3. entry'[v] = e /\ EntryBytes'[v] = EntryBytes[v]
  BY <1>1, <1>2 DEF EntryBytes, LeaseInv, TypeOK
<1>4. \A u \in Threads : held[u] # v
  BY <1>1, Unheld
<1>5. Limits' /\ BudgetStep
  BY <1>1, <1>2, MovedBudget DEF LeaseInv
<1>6. Usable
  BY <1>1, <1>2, OneUsable DEF LeaseInv
<1>7. Serves(t)'
  BY DEF Serves
<1>8. SlotOK(v)'
  BY <1>1, <1>2, <1>3 DEF Contents, SlotOK
<1>9. Contents'
  BY <1>1, <1>2, <1>4, <1>7, <1>8, ContentsStep DEF LeaseInv
<1>10. QED
  BY <1>5, <1>6, <1>9 DEF Accounted

\* An eviction.
LEMMA EvictAccounts ==
  ASSUME LeaseInv, LeaseInv', Limits, Contents, NEW t, NEW r, NEW q, NEW w,
         Linked(t, r, q), Evict(t, r, q, w)
  PROVE  Accounted
<1>1. PICK v \in Idle : /\ entry' = [entry EXCEPT ![v].state = "Retiring"]
                        /\ held' = [held EXCEPT ![t] = v]
  BY DEF Evict, LeastRecent, Helpful
<1>2. /\ t \in Threads /\ pc'[t] = "evict"
      /\ \A u \in Threads \ {t} :
           pc'[u] = pc[u] /\ held'[u] = held[u] /\ req'[u] = req[u]
      /\ UNCHANGED <<closed, generation, cutoff>>
  BY <1>1 DEF Evict, Linked, LeaseInv, TypeOK
<1>3. QED
  BY <1>1, <1>2, RetireIdleAccounts

\* One iteration of acquire()'s loop, whatever it decides.
LEMMA AcquireLoopAccounts ==
  ASSUME LeaseInv, LeaseInv', Limits, Contents, NEW t, NEW r, NEW q, NEW w,
         Linked(t, r, q), AcquireLoop(t, r, q, w)
  PROVE  Accounted
<1>1. CASE AcquireError(t, r, q, w)
  BY <1>1, AcquireErrorAccounts
<1>2. CASE ~Refused(r) /\ Hit(t, r, q)
  BY <1>2, HitAccounts
<1>3. CASE ~Refused(r) /\ Grow(t, r, q)
  BY <1>3, GrowAccounts
<1>4. CASE ~Refused(r) /\ Miss(t, r, q)
  BY <1>4, MissAccounts
<1>5. CASE Evict(t, r, q, w)
  BY <1>5, EvictAccounts
<1>6. CASE Wait(t, r, q)
  BY <1>6, WaitAccounts
<1>7. QED
  BY <1>1, <1>2, <1>3, <1>4, <1>5, <1>6 DEF AcquireLoop

\* A holder that works on its own entry without changing what it is charged.
LEMMA HolderAccounts ==
  ASSUME LeaseInv, LeaseInv', Limits, Contents, NEW t \in Threads,
         held[t] # None, entry[held[t]].state \in {"Building", "Leased"},
         NEW e, entry' = [entry EXCEPT ![held[t]] = e],
         e.key = entry[held[t]].key, e.capacity = entry[held[t]].capacity,
         e.generation = entry[held[t]].generation,
         e.state \notin {"Absent", "Quarantined", "Idle"},
         e.state = "Leased" => ~DeviceDisabled(e.key),
         e.allocated <= EntryBytes[held[t]],
         UNCHANGED <<closed, generation, cutoff, held, req>>,
         \A u \in Threads \ {t} : pc'[u] = pc[u],
         Serves(t)'
  PROVE  Accounted
<1>x. PICK x \in Slots : x = held[t]
  BY DEF LeaseInv, TypeOK
<1>1. x \in Slots /\ \A u \in Threads \ {t} : held[u] # x
  BY <1>x DEF LeaseInv, TypeOK, ExclusiveLease
<1>2. entry' = [entry EXCEPT ![x] = e]
  BY <1>x
<1>3. /\ e.key = entry[x].key /\ e.capacity = entry[x].capacity
      /\ e.generation = entry[x].generation /\ e.allocated <= EntryBytes[x]
      /\ entry[x].state \in {"Building", "Leased"}
  BY <1>x
<1>4. entry'[x] = e /\ EntryBytes'[x] = EntryBytes[x]
  BY <1>1, <1>2, <1>3 DEF EntryBytes, LeaseInv, TypeOK
<1>5. Limits' /\ BudgetStep
  BY <1>1, <1>2, <1>3, MovedBudget DEF LeaseInv
<1>6. Usable
  BY <1>1, <1>2, OneUsable DEF LeaseInv
<1>7. SlotOK(x)'
  BY <1>1, <1>3, <1>4 DEF Contents, SlotOK
<1>8. Contents'
  BY <1>1, <1>2, <1>7, ContentsStep DEF LeaseInv
<1>9. QED
  BY <1>5, <1>6, <1>8 DEF Accounted

\* Freeing the old staging starts the construction from nothing.
LEMMA FreeStagingAccounts ==
  ASSUME LeaseInv, LeaseInv', Limits, Contents, NEW t \in Threads, FreeStaging(t)
  PROVE  Accounted
<1> DEFINE e == [entry[held[t]] EXCEPT !.allocated = 0]
<1>1. /\ pc[t] = "free" /\ held[t] # None /\ held[t] \in Slots
      /\ entry[held[t]] \in Entry /\ entry[held[t]].state = "Building"
  BY HolderHolds DEF FreeStaging, HeldState
<1>2. /\ e.state = "Building" /\ e.allocated = 0
      /\ e.key = entry[held[t]].key /\ e.capacity = entry[held[t]].capacity
      /\ e.generation = entry[held[t]].generation
  BY <1>1 DEF Entry
<1>3. entry' = [entry EXCEPT ![held[t]] = e]
  BY DEF FreeStaging
<1> HIDE DEF e
<1>4. /\ UNCHANGED <<closed, generation, cutoff, held, req>> /\ pc'[t] = "build"
      /\ \A u \in Threads \ {t} : pc'[u] = pc[u]
      /\ entry'[held[t]] = e
  BY <1>1, <1>3 DEF FreeStaging, LeaseInv, TypeOK
<1>5. 0 <= EntryBytes[held[t]] /\ entry[held[t]].capacity \in Nat
  BY <1>1, ChargesAreNumbers DEF LeaseInv, Entry
<1>6. e.allocated = 0 * e.capacity /\ e.allocated <= EntryBytes[held[t]]
  BY <1>2, <1>5
<1>7. Serves(t)'
  <2>1. Serves(t)
    BY DEF Contents
  <2> QED BY <1>1, <1>2, <1>4, <1>6, <2>1 DEF Serves
<1>8. QED
  BY <1>1, <1>2, <1>3, <1>4, <1>6, <1>7, HolderAccounts

\* Whole slots: allocating one more stays within a larger ring.
LEMMA NextSlot ==
  ASSUME NEW c \in Nat, NEW k \in Nat, NEW n \in Nat, k * c < n * c
  PROVE  k * c + c = (k + 1) * c /\ k * c + c <= n * c
<1>1. k < n
  <2>1. CASE n <= k
    <3>1. k * c = n * c + (k - n) * c
      BY <2>1
    <3>2. (k - n) * c \in Nat
      BY <2>1
    <3>3. n * c \in Nat
      OBVIOUS
    <3> QED BY <3>1, <3>2, <3>3
  <2> QED BY <2>1
<1>2. PICK m \in Nat : n = k + 1 + m
  <2>1. n - (k + 1) \in Nat /\ n = k + 1 + (n - (k + 1))
    BY <1>1
  <2> QED BY <2>1
<1>3. n * c = k * c + c + m * c /\ m * c \in Nat
  BY <1>2
<1>4. QED
  BY <1>3

\* The ring is allocated slot by slot, within the reservation.
LEMMA AllocateSlotAccounts ==
  ASSUME LeaseInv, LeaseInv', Limits, Contents, NEW t \in Threads, AllocateSlot(t)
  PROVE  Accounted
<1> DEFINE e == [entry[held[t]] EXCEPT !.allocated = @ + entry[held[t]].capacity]
<1>1. /\ pc[t] = "build" /\ held[t] # None /\ held[t] \in Slots
      /\ entry[held[t]] \in Entry /\ entry[held[t]].state = "Building"
  BY HolderHolds DEF AllocateSlot, HeldState
<1>2. /\ e.state = "Building"
      /\ e.allocated = entry[held[t]].allocated + entry[held[t]].capacity
      /\ e.key = entry[held[t]].key /\ e.capacity = entry[held[t]].capacity
      /\ e.generation = entry[held[t]].generation
  BY <1>1 DEF Entry
<1>3. entry' = [entry EXCEPT ![held[t]] = e]
  BY DEF AllocateSlot
<1> HIDE DEF e
<1>4. /\ UNCHANGED <<closed, generation, cutoff, held, req>> /\ pc'[t] = "build"
      /\ \A u \in Threads \ {t} : pc'[u] = pc[u]
      /\ entry'[held[t]] = e
  BY <1>1, <1>3 DEF AllocateSlot, LeaseInv, TypeOK
<1>5. Serves(t)
  BY DEF Contents
<1>6. PICK k \in Nat : entry[held[t]].allocated = k * entry[held[t]].capacity
  BY <1>1, <1>5 DEF Serves
<1> DEFINE c == entry[held[t]].capacity
           n == SlotsOf[entry[held[t]].key]
<1>7. c \in Nat /\ n \in Nat /\ EntryBytes[held[t]] = n * c
  BY <1>1, CacheConstants DEF Entry, EntryBytes, Bytes
<1>8. k * c < n * c
  BY <1>6, <1>7 DEF AllocateSlot
<1>9. e.allocated = k * c + c /\ e.capacity = c
  BY <1>2, <1>6
<1> HIDE DEF c, n
<1>10. e.allocated = (k + 1) * e.capacity /\ e.allocated <= EntryBytes[held[t]]
  BY <1>7, <1>8, <1>9, NextSlot
<1>11. Serves(t)'
  <2>1. k + 1 \in Nat
    OBVIOUS
  <2> QED BY <1>1, <1>2, <1>4, <1>5, <1>10, <2>1 DEF Serves
<1>12. QED
  BY <1>1, <1>2, <1>3, <1>4, <1>10, <1>11, HolderAccounts

\* An entry that is given up stays charged until it is retired.
LEMMA StartRetireAccounts ==
  ASSUME LeaseInv, LeaseInv', Limits, Contents, NEW t \in Threads,
         NEW unknown \in BOOLEAN, pc[t] \in {"free", "build", "execute"},
         StartRetire(t, unknown)
  PROVE  Accounted
<1> DEFINE e == [entry[held[t]] EXCEPT !.state = "Retiring", !.unknown = unknown]
<1>1. /\ held[t] # None /\ held[t] \in Slots
      /\ entry[held[t]] \in Entry /\ entry[held[t]].state \in {"Building", "Leased"}
  BY HolderHolds DEF HeldState
<1>2. /\ e.state = "Retiring" /\ e.allocated = entry[held[t]].allocated
      /\ e.key = entry[held[t]].key /\ e.capacity = entry[held[t]].capacity
      /\ e.generation = entry[held[t]].generation
  BY <1>1 DEF Entry
<1>3. entry' = [entry EXCEPT ![held[t]] = e]
  BY DEF StartRetire
<1> HIDE DEF e
<1>4. /\ UNCHANGED <<closed, generation, cutoff, held, req>> /\ pc'[t] = "retire"
      /\ \A u \in Threads \ {t} : pc'[u] = pc[u]
  BY DEF StartRetire, LeaseInv, TypeOK
<1>5. e.allocated <= EntryBytes[held[t]]
  BY <1>1, <1>2 DEF Contents, SlotOK
<1>6. Serves(t)'
  BY <1>4 DEF Serves
<1>7. QED
  BY <1>1, <1>2, <1>3, <1>4, <1>5, <1>6, HolderAccounts

\* A published context is complete and its device is usable.
LEMMA BuiltAccounts ==
  ASSUME LeaseInv, LeaseInv', Limits, Contents, NEW t \in Threads, Built(t)
  PROVE  Accounted
<1>1. CASE closed \/ DeviceDisabled(entry[held[t]].key)
  BY <1>1, StartRetireAccounts DEF Built
<1>2. CASE ~(closed \/ DeviceDisabled(entry[held[t]].key))
  <2> DEFINE e == [entry[held[t]] EXCEPT !.state = "Leased"]
  <2>1. /\ pc[t] = "build" /\ held[t] # None /\ held[t] \in Slots
        /\ entry[held[t]] \in Entry /\ entry[held[t]].state = "Building"
        /\ entry[held[t]].allocated = EntryBytes[held[t]]
    BY HolderHolds DEF Built, HeldState
  <2>2. /\ e.state = "Leased" /\ e.allocated = entry[held[t]].allocated
        /\ e.key = entry[held[t]].key /\ e.capacity = entry[held[t]].capacity
        /\ e.generation = entry[held[t]].generation
    BY <2>1 DEF Entry
  <2>3. entry' = [entry EXCEPT ![held[t]] = e]
    BY <1>2 DEF Built
  <2> HIDE DEF e
  <2>4. /\ UNCHANGED <<closed, generation, cutoff, held, req>> /\ pc'[t] = "execute"
        /\ \A u \in Threads \ {t} : pc'[u] = pc[u]
        /\ entry'[held[t]] = e
    BY <1>2, <2>1, <2>3 DEF Built, LeaseInv, TypeOK
  <2>5. EntryBytes'[held[t]] = EntryBytes[held[t]] /\ EntryBytes[held[t]] \in Nat
    BY <2>1, <2>2, <2>4, ChargesAreNumbers DEF EntryBytes, LeaseInv
  <2>6. Serves(t)'
    <3>1. Serves(t)
      BY DEF Contents
    <3> QED BY <2>1, <2>2, <2>4, <2>5, <3>1 DEF Serves
  <2>7. ~DeviceDisabled(e.key)
    BY <1>2, <2>2
  <2>8. e.allocated <= EntryBytes[held[t]]
    BY <2>1, <2>2, <2>5
  <2> QED BY <2>1, <2>2, <2>3, <2>4, <2>6, <2>7, <2>8, HolderAccounts
<1>3. QED
  BY <1>1, <1>2

\* A context goes back to idle complete, of the current generation and on a
\* usable device; otherwise its holder retires it.
LEMMA ExecuteAccounts ==
  ASSUME LeaseInv, LeaseInv', Limits, Contents, NEW t \in Threads, Execute(t)
  PROVE  Accounted
<1>1. CASE \E unknown \in BOOLEAN : StartRetire(t, unknown)
  BY <1>1, StartRetireAccounts DEF Execute
<1>2. CASE /\ Retainable(held[t])
           /\ entry' = [entry EXCEPT ![held[t]].state = "Idle"]
           /\ pc' = [pc EXCEPT ![t] = "idle"]
           /\ req' = [req EXCEPT ![t] = None]
           /\ held' = [held EXCEPT ![t] = None]
           /\ UNCHANGED <<queue, closed, generation, waited, cutoff, closing>>
  <2>x. PICK x \in Slots : x = held[t] /\ x # None
    BY HolderHolds DEF Execute
  <2> DEFINE e == [entry[x] EXCEPT !.state = "Idle"]
  <2>1. /\ pc[t] = "execute"
        /\ entry[x] \in Entry /\ entry[x].state = "Leased"
    BY <2>x, HolderHolds DEF Execute, HeldState
  <2>2. \A u \in Threads \ {t} : held[u] # x
    BY <2>x DEF LeaseInv, TypeOK, ExclusiveLease
  <2>3. /\ e.state = "Idle" /\ e.allocated = entry[x].allocated
        /\ e.key = entry[x].key /\ e.capacity = entry[x].capacity
        /\ e.generation = entry[x].generation
    BY <2>1 DEF Entry
  <2>4. entry' = [entry EXCEPT ![x] = e]
    BY <1>2, <2>x
  <2>5. Retainable(x)
    BY <1>2, <2>x
  <2>6. entry[x].allocated = EntryBytes[x]
    BY <2>x, <2>1 DEF Contents, Serves
  <2> HIDE DEF e
  <2>7. entry'[x] = e /\ EntryBytes'[x] = EntryBytes[x] /\ EntryBytes[x] \in Nat
    BY <2>1, <2>3, <2>4, ChargesAreNumbers DEF EntryBytes, LeaseInv, TypeOK
  <2>8. /\ pc'[t] = "idle"
        /\ \A u \in Threads \ {t} :
             pc'[u] = pc[u] /\ held'[u] = held[u] /\ req'[u] = req[u]
        /\ UNCHANGED <<closed, generation, cutoff>>
    BY <1>2 DEF LeaseInv, TypeOK
  <2>9. Limits' /\ BudgetStep
    BY <2>1, <2>3, <2>4, MovedBudget DEF LeaseInv
  <2>10. Usable
    BY <2>1, <2>3, <2>4, <2>5, OneUsable DEF Retainable, LeaseInv
  <2>11. Serves(t)'
    BY <2>8 DEF Serves
  <2>12. SlotOK(x)'
    BY <2>1, <2>3, <2>5, <2>6, <2>7, <2>8 DEF Contents, SlotOK, Retainable
  <2>13. e.generation = generation
    BY <2>3, <2>5 DEF Retainable
  <2>14. Contents'
    BY <2>1, <2>2, <2>4, <2>8, <2>11, <2>12, <2>13, ContentsStep DEF LeaseInv
  <2> QED BY <2>9, <2>10, <2>14 DEF Accounted
<1>3. QED
  BY <1>1, <1>2 DEF Execute

\* retire() releases the charge or keeps it for ever.
LEMMA RetireAccounts ==
  ASSUME LeaseInv, LeaseInv', Limits, Contents, NEW t \in Threads, Retire(t)
  PROVE  Accounted
<1>x. PICK x \in Slots : x = held[t] /\ x # None
  BY HolderHolds DEF Retire
<1> DEFINE e == IF entry[x].unknown
                THEN [entry[x] EXCEPT !.state = "Quarantined"] ELSE Vacant
<1>1. /\ pc[t] \in {"evict", "retire", "drop"} /\ entry[x] \in Entry
      /\ entry[x].state = "Retiring"
  BY <1>x, HolderHolds DEF Retire, HeldState
<1>2. \A u \in Threads \ {t} : held[u] # x
  BY <1>x DEF LeaseInv, TypeOK, ExclusiveLease
<1>3. entry' = [entry EXCEPT ![x] = e]
  BY <1>x DEF Retire
<1>4. \/ /\ e.state = "Quarantined" /\ e.key = entry[x].key
         /\ e.capacity = entry[x].capacity /\ e.allocated = entry[x].allocated
         /\ e.generation = entry[x].generation
      \/ e.state = "Absent" /\ e.allocated = 0 /\ e.capacity \in Nat
  BY <1>1 DEF Entry, Vacant
<1>v. e.key \in Keys /\ e.capacity \in Nat
  BY <1>1, VacantIsEntry DEF Entry
<1> HIDE DEF e
<1>5. entry'[x] = e /\ EntryBytes'[x] = Bytes(e.key, e.capacity)
      /\ EntryBytes[x] = Bytes(entry[x].key, entry[x].capacity)
  BY <1>1, <1>3 DEF EntryBytes, LeaseInv, TypeOK
<1>6. /\ pc'[t] \in {"acquire", "idle", "clear"}
      /\ \A u \in Threads \ {t} :
           pc'[u] = pc[u] /\ held'[u] = held[u] /\ req'[u] = req[u]
      /\ UNCHANGED <<closed, generation, cutoff>>
  BY <1>1 DEF Retire, LeaseInv, TypeOK
<1>7. Limits' /\ BudgetStep
  BY <1>1, <1>3, <1>4, RetiredBudget DEF LeaseInv
<1>8. Usable
  BY <1>1, <1>3, <1>4, OneUsable DEF LeaseInv
<1>9. Serves(t)'
  BY <1>6 DEF Serves
<1>10. SlotOK(x)'
  <2>1. SlotOK(x) /\ Bytes(e.key, e.capacity) \in Nat
    BY <1>1, <1>v, BytesMonotone DEF Contents
  <2> QED BY <1>1, <1>4, <1>5, <1>6, <2>1 DEF SlotOK
<1>11. Contents'
  BY <1>1, <1>2, <1>3, <1>4, <1>6, <1>9, <1>10, ContentsStep DEF LeaseInv
<1>12. QED
  BY <1>7, <1>8, <1>11 DEF Accounted

(***************************************************************************)
(* clear() and close()                                                     *)
(***************************************************************************)
\* What Clear and ClearAgain pass to clear()'s loop.
Cutting(t, cut, close) ==
  /\ cut \in Nat /\ close \in BOOLEAN /\ cutoff[t] <= cut
  /\ generation' \in Nat /\ closed' \in BOOLEAN
  /\ \/ UNCHANGED <<closed, generation>>
     \/ ~closed /\ generation' = generation + 1 /\ cut = generation'
  /\ close => closed' /\ cut = generation'

\* clear() takes the generation it ends as its cutoff.
LEMMA ClearCuts ==
  ASSUME LeaseInv, Clearing, NEW t \in Threads, NEW close \in BOOLEAN, Clear(t, close)
  PROVE  Cutting(t, generation', close) /\ pc[t] = "idle"
<1>1. pc[t] = "idle" /\ cutoff[t] = 0
  BY DEF Clear, Clearing, ClearOK
<1>2. generation \in Nat /\ closed \in BOOLEAN
  BY DEF LeaseInv, TypeOK
<1>3. generation' \in Nat /\ closed' \in BOOLEAN
  BY DEF Clear, LeaseInv, TypeOK
<1>4. CASE closed
  <2>1. generation' = generation /\ closed'
    BY <1>4 DEF Clear
  <2>2. closed' = TRUE /\ closed = TRUE
    BY <1>2, <1>3, <1>4, <2>1
  <2>3. UNCHANGED <<closed, generation>>
    BY <2>1, <2>2, Zenon
  <2>4. cutoff[t] <= generation'
    BY <1>1, <1>2, <2>1
  <2> QED BY <1>1, <1>3, <2>1, <2>3, <2>4 DEF Cutting
<1>5. CASE ~closed
  <2>1. generation' = generation + 1 /\ (close => closed')
    BY <1>5 DEF Clear
  <2> QED BY <1>1, <1>2, <1>3, <1>5, <2>1 DEF Cutting
<1>6. QED
  BY <1>1, <1>4, <1>5

\* A clear() that goes on keeps its cutoff.
LEMMA ClearAgainCuts ==
  ASSUME LeaseInv, Clearing, NEW t \in Threads, ClearAgain(t)
  PROVE  Cutting(t, cutoff[t], closing[t]) /\ pc[t] = "clear"
BY DEF ClearAgain, Clearing, ClearOK, Cutting, LeaseInv, TypeOK

\* What an iteration does apart from the entry it retires.
LEMMA ClearLoopCallers ==
  ASSUME LeaseInv, LeaseInv', NEW t \in Threads, NEW cut, NEW close, NEW asleep,
         ClearLoop(t, cut, close, asleep)
  PROVE  /\ pc'[t] \in {"idle", "clear", "drop"}
         /\ pc'[t] \in {"clear", "drop"} => cutoff'[t] = cut /\ closing'[t] = close
         /\ pc'[t] = "idle" => /\ cutoff'[t] = 0 /\ closing'[t] = FALSE
                               /\ Stale(cut) = {}
                               /\ close => Active = {} /\ queue = <<>>
         /\ pc'[t] = "clear" => close
         /\ pc'[t] \in {"idle", "clear"} => entry' = entry
         /\ queue' = queue
         /\ \A u \in Threads \ {t} :
              /\ pc'[u] = pc[u] /\ held'[u] = held[u] /\ req'[u] = req[u]
              /\ cutoff'[u] = cutoff[u] /\ closing'[u] = closing[u]
<1>1. /\ pc \in [Threads -> PCs] /\ held \in [Threads -> Slots \cup {None}]
      /\ cutoff \in [Threads -> Nat] /\ closing \in [Threads -> BOOLEAN]
  BY DEF LeaseInv, TypeOK
<1>2. CASE \E v \in Stale(cut) :
             /\ entry' = [entry EXCEPT ![v].state = "Retiring"]
             /\ LeaveIdle(v)
             /\ held' = [held EXCEPT ![t] = v]
             /\ sleeping' = asleep
             /\ pc' = [pc EXCEPT ![t] = "drop"]
             /\ cutoff' = [cutoff EXCEPT ![t] = cut]
             /\ closing' = [closing EXCEPT ![t] = close]
             /\ UNCHANGED <<queue, req, waited>>
  BY <1>1, <1>2
<1>3. CASE /\ close /\ (Active # {} \/ queue # <<>>)
           /\ sleeping' = asleep \cup {t}
           /\ pc' = [pc EXCEPT ![t] = "clear"]
           /\ cutoff' = [cutoff EXCEPT ![t] = cut]
           /\ closing' = [closing EXCEPT ![t] = close]
           /\ UNCHANGED <<entry, older, queue, held, req, waited>>
  BY <1>1, <1>3
<1>4. CASE /\ Stale(cut) = {}
           /\ ~(close /\ (Active # {} \/ queue # <<>>))
           /\ sleeping' = asleep
           /\ pc' = [pc EXCEPT ![t] = "idle"]
           /\ cutoff' = [cutoff EXCEPT ![t] = 0]
           /\ closing' = [closing EXCEPT ![t] = FALSE]
           /\ UNCHANGED <<entry, older, queue, held, req, waited>>
  BY <1>1, <1>4
<1>5. QED
  BY <1>2, <1>3, <1>4 DEF ClearLoop

\* Either one stale idle context becomes Retiring, or no entry changes.
LEMMA ClearLoopEntry ==
  ASSUME LeaseInv, NEW t \in Threads, NEW cut, NEW close, NEW asleep,
         ClearLoop(t, cut, close, asleep)
  PROVE  \/ entry' = entry
         \/ \E v \in Idle, e \in Entry :
              /\ entry' = [entry EXCEPT ![v] = e] /\ e.state = "Retiring"
              /\ e.key = entry[v].key /\ e.capacity = entry[v].capacity
              /\ e.allocated = entry[v].allocated
              /\ e.generation = entry[v].generation
<1>1. CASE \E v \in Stale(cut) : entry' = [entry EXCEPT ![v].state = "Retiring"]
  <2>1. PICK v \in Idle : entry' = [entry EXCEPT ![v].state = "Retiring"]
    BY <1>1 DEF Stale
  <2>2. entry[v] \in Entry
    BY DEF Idle, LeaseInv, TypeOK
  <2> DEFINE e == [entry[v] EXCEPT !.state = "Retiring"]
  <2>3. /\ e \in Entry /\ e.state = "Retiring"
        /\ e.key = entry[v].key /\ e.capacity = entry[v].capacity
        /\ e.allocated = entry[v].allocated /\ e.generation = entry[v].generation
    BY <2>2 DEF Entry, States
  <2>4. entry' = [entry EXCEPT ![v] = e]
    BY <2>1
  <2> HIDE DEF e
  <2> QED BY <2>3, <2>4
<1>2. QED
  BY <1>1 DEF ClearLoop

\* An iteration of clear() keeps the accounts.
LEMMA ClearLoopAccounts ==
  ASSUME LeaseInv, LeaseInv', Limits, Contents, NEW t \in Threads,
         NEW cut, NEW close, NEW asleep, Cutting(t, cut, close),
         ClearLoop(t, cut, close, asleep)
  PROVE  Accounted
<1>1. /\ pc'[t] \in {"idle", "clear", "drop"}
      /\ pc'[t] \in {"clear", "drop"} => cutoff'[t] = cut
      /\ pc'[t] = "idle" => Stale(cut) = {} /\ entry' = entry
      /\ \A u \in Threads \ {t} :
           /\ pc'[u] = pc[u] /\ held'[u] = held[u] /\ req'[u] = req[u]
           /\ cutoff'[u] = cutoff[u]
  BY ClearLoopCallers
<1>2. \A s \in Slots : /\ EntryBytes'[s] = EntryBytes[s] /\ SameCharge(s)
                       /\ entry'[s].allocated = entry[s].allocated
                       /\ entry'[s].generation = entry[s].generation
                       /\ entry'[s].state = "Idle" => entry[s].state = "Idle"
                       /\ entry'[s].state # entry[s].state
                            => entry'[s].state = "Retiring" /\ entry[s].state = "Idle"
                       /\ entry'[s].key = entry[s].key
                       /\ entry'[s].capacity = entry[s].capacity
  <2>1. CASE entry' = entry
    BY <2>1 DEF EntryBytes, SameCharge
  <2>2. CASE entry' # entry
    <3>1. PICK v \in Idle, e \in Entry :
              /\ entry' = [entry EXCEPT ![v] = e] /\ e.state = "Retiring"
              /\ e.key = entry[v].key /\ e.capacity = entry[v].capacity
              /\ e.allocated = entry[v].allocated
              /\ e.generation = entry[v].generation
      BY <2>2, ClearLoopEntry
    <3>2. v \in Slots /\ entry[v].state = "Idle" /\ entry'[v] = e
          /\ \A s \in Slots \ {v} : entry'[s] = entry[s]
      BY <3>1 DEF Idle, LeaseInv, TypeOK
    <3>3. ASSUME NEW s \in Slots, s # v
          PROVE  EntryBytes'[s] = EntryBytes[s] /\ SameCharge(s)
      BY <3>2, <3>3 DEF EntryBytes, SameCharge
    <3>4. EntryBytes'[v] = EntryBytes[v] /\ SameCharge(v)
      BY <3>1, <3>2 DEF EntryBytes, SameCharge
    <3> QED BY <3>1, <3>2, <3>3, <3>4
  <2> QED BY <2>1, <2>2
<1>3. Limits' /\ BudgetStep
  BY <1>2, SameLimits DEF BudgetStep
<1>4. Usable
  BY <1>2 DEF Usable
<1>5. ASSUME NEW u \in Threads PROVE Serves(u)'
  <2>1. CASE u = t \/ pc[u] \notin {"free", "build", "execute"}
    BY <1>1, <2>1 DEF Serves
  <2>2. CASE u # t /\ pc[u] \in {"free", "build", "execute"}
    <3>1. held[u] \in Slots /\ Serves(u)
      BY <2>2, HolderHolds DEF Contents
    <3> QED BY <1>1, <1>2, <2>2, <3>1 DEF Serves
  <2> QED BY <2>1, <2>2
<1>6. ASSUME NEW s \in Slots PROVE SlotOK(s)'
  <2>1. SlotOK(s) /\ entry[s].generation \in Nat /\ generation \in Nat
    BY DEF Contents, LeaseInv, TypeOK, Entry
  <2>2. /\ entry'[s].state = "Absent" <=> entry[s].state = "Absent"
        /\ entry'[s].generation = entry[s].generation
        /\ entry'[s].allocated = entry[s].allocated
        /\ EntryBytes'[s] = EntryBytes[s]
        /\ entry'[s].state = "Idle" => entry[s].state = "Idle"
    BY <1>2
  <2>3. entry[s].state # "Absent" =>
          /\ entry[s].generation <= generation'
          /\ closed' => entry[s].generation < generation'
    <3>1. CASE UNCHANGED <<closed, generation>>
      BY <2>1, <3>1 DEF SlotOK
    <3>2. CASE generation' = generation + 1
      BY <2>1, <3>2 DEF SlotOK
    <3> QED BY <3>1, <3>2 DEF Cutting
  <2> QED BY <2>1, <2>2, <2>3 DEF SlotOK
<1>7. NoStaleIdle'
  <2> SUFFICES ASSUME NEW s \in Idle'
               PROVE  \/ entry'[s].generation = generation'
                      \/ \E u \in Threads : entry'[s].generation < cutoff'[u]
    BY DEF NoStaleIdle
  <2>1. /\ s \in Slots /\ s \in Idle /\ entry'[s].generation = entry[s].generation
        /\ entry[s].generation \in Nat /\ generation \in Nat /\ generation' \in Nat
        /\ cut \in Nat /\ \A u \in Threads : cutoff[u] \in Nat
    BY <1>2 DEF Idle, LeaseInv, TypeOK, Entry, Cutting
  <2>2. CASE entry[s].generation < cut
    <3>1. pc'[t] # "idle"
      BY <1>1, <2>1, <2>2 DEF Stale
    <3>2. cutoff'[t] = cut
      BY <1>1, <3>1
    <3> QED BY <2>1, <2>2, <3>2
  <2>3. CASE ~(entry[s].generation < cut)
    <3>1. CASE entry[s].generation = generation
      <4>1. generation' = generation
        BY <2>1, <2>3, <3>1 DEF Cutting
      <4> QED BY <2>1, <3>1, <4>1
    <3>2. CASE \E u \in Threads : entry[s].generation < cutoff[u]
      <4>1. PICK u \in Threads : entry[s].generation < cutoff[u]
        BY <3>2
      <4>2. u # t
        BY <2>1, <2>3, <4>1 DEF Cutting
      <4> QED BY <1>1, <2>1, <4>1, <4>2
    <3> QED BY <2>1, <3>1, <3>2 DEF Contents, NoStaleIdle
  <2> QED BY <2>2, <2>3
<1>8. QED
  BY <1>3, <1>4, <1>5, <1>6, <1>7 DEF Accounted, Contents

\* clear()'s locals: nobody else's cutoff is touched, and a close() in
\* progress excludes a new generation.
LEMMA ClearLoopClearing ==
  ASSUME LeaseInv, LeaseInv', Clearing, NEW t \in Threads,
         NEW cut, NEW close, NEW asleep, Cutting(t, cut, close),
         ClearLoop(t, cut, close, asleep)
  PROVE  Clearing'
<1>1. /\ pc'[t] \in {"idle", "clear", "drop"}
      /\ pc'[t] \in {"clear", "drop"} => cutoff'[t] = cut /\ closing'[t] = close
      /\ pc'[t] = "idle" => cutoff'[t] = 0 /\ closing'[t] = FALSE
      /\ \A u \in Threads \ {t} :
           /\ pc'[u] = pc[u] /\ cutoff'[u] = cutoff[u] /\ closing'[u] = closing[u]
  <2> DEFINE known == /\ pc'[t] \in {"idle", "clear", "drop"}
                      /\ pc'[t] \in {"clear", "drop"} => cutoff'[t] = cut /\ closing'[t] = close
                      /\ pc'[t] = "idle" => /\ cutoff'[t] = 0 /\ closing'[t] = FALSE
                                            /\ Stale(cut) = {}
                                            /\ close => Active = {} /\ queue = <<>>
                      /\ pc'[t] = "clear" => close
                      /\ pc'[t] \in {"idle", "clear"} => entry' = entry
                      /\ queue' = queue
                      /\ \A u \in Threads \ {t} :
                           /\ pc'[u] = pc[u] /\ held'[u] = held[u] /\ req'[u] = req[u]
                           /\ cutoff'[u] = cutoff[u] /\ closing'[u] = closing[u]
  <2>1. known
    BY ClearLoopCallers, Zenon
  <2> QED BY <2>1, Zenon
<1>2. ClearOK(t)'
  <2>1. CASE pc'[t] = "idle"
    BY <1>1, <2>1 DEF ClearOK
  <2>2. CASE pc'[t] \in {"clear", "drop"}
    BY <1>1, <2>2 DEF ClearOK, Cutting
  <2> QED BY <1>1, <2>1, <2>2
<1>3. ASSUME NEW u \in Threads, u # t PROVE ClearOK(u)'
  <2>1. ClearOK(u)
    BY DEF Clearing
  <2>2. closing[u] => closed' /\ generation' = generation
    BY <2>1 DEF ClearOK, Cutting
  <2> QED BY <1>1, <1>3, <2>1, <2>2 DEF ClearOK
<1>4. QED
  BY <1>2, <1>3 DEF Clearing

\* Steps outside clear() leave its locals alone.
LEMMA OtherClearing ==
  ASSUME Clearing, NEW t \in Threads, UNCHANGED <<closed, generation, cutoff, closing>>,
         \A u \in Threads \ {t} : pc'[u] = pc[u],
         pc[t] \in {"clear", "drop"} => pc'[t] \in {"clear", "drop"}
  PROVE  Clearing'
<1>1. ASSUME NEW u \in Threads PROVE ClearOK(u)'
  <2>1. ClearOK(u)
    BY DEF Clearing
  <2>2. pc'[u] \notin {"clear", "drop"} => pc[u] \notin {"clear", "drop"}
    OBVIOUS
  <2> QED BY <2>1, <2>2 DEF ClearOK
<1>2. QED
  BY <1>1 DEF Clearing

\* The caller's own step moves it outside clear(), unless it retires for it.
LEMMA AcquireLoopMoves ==
  ASSUME LeaseInv, NEW t, NEW r, NEW q, NEW w, Linked(t, r, q),
         AcquireLoop(t, r, q, w)
  PROVE  /\ t \in Threads /\ UNCHANGED <<closed, generation, cutoff, closing>>
         /\ \A u \in Threads \ {t} : pc'[u] = pc[u]
<1>1. /\ t \in Threads /\ UNCHANGED <<closed, generation, cutoff, closing>>
      /\ \E p : pc' = [pc EXCEPT ![t] = p]
  BY DEF AcquireLoop, AcquireError, Hit, Grow, Miss, Evict, Wait, Grant, Linked
<1>2. QED
  BY <1>1 DEF LeaseInv, TypeOK

\* The steps of a caller that holds an entry leave the other callers and
\* every clear() alone.
LEMMA HolderMoves ==
  ASSUME LeaseInv, NEW t \in Threads,
         \/ FreeStaging(t) \/ AllocateSlot(t) \/ BuildFails(t)
         \/ Built(t) \/ Execute(t) \/ Retire(t)
  PROVE  /\ UNCHANGED <<closed, generation, cutoff, closing, queue>>
         /\ \A u \in Threads \ {t} : pc'[u] = pc[u]
         /\ pc[t] \in {"evict", "free", "build", "execute", "retire", "drop"}
         /\ pc[t] = "drop" => pc'[t] = "clear"
<1>1. CASE AllocateSlot(t)
  BY <1>1 DEF AllocateSlot
<1>2. CASE FreeStaging(t)
  BY <1>2 DEF FreeStaging, LeaseInv, TypeOK
<1>3. CASE pc[t] \in {"free", "build", "execute"} /\ \E b : StartRetire(t, b)
  BY <1>3 DEF StartRetire, LeaseInv, TypeOK
<1>4. CASE Built(t)
  BY <1>3, <1>4 DEF Built, LeaseInv, TypeOK
<1>5. CASE Execute(t)
  BY <1>3, <1>5 DEF Execute, LeaseInv, TypeOK
<1>6. CASE Retire(t)
  BY <1>6 DEF Retire, LeaseInv, TypeOK
<1>7. QED
  BY <1>1, <1>2, <1>3, <1>4, <1>5, <1>6 DEF BuildFails

\* In a closed, drained cache nobody is at work: only callers that clear.
LEMMA DrainedCallers ==
  ASSUME LeaseInv, CloseDrains, closed, \A t \in Threads : ~closing[t]
  PROVE  /\ Live = Quarantined /\ queue = <<>> /\ Active = {} /\ Idle = {}
         /\ \A t \in Threads : pc[t] \in {"idle", "clear"}
<1>1. /\ Live = Quarantined /\ queue = <<>>
      /\ \A t \in Threads : pc[t] \in {"idle", "clear", "drop"}
  BY DEF CloseDrains
<1>2. Active = {} /\ Idle = {}
  BY <1>1 DEF Live, Quarantined, Active, Idle
<1>3. ASSUME NEW t \in Threads PROVE pc[t] # "drop"
  <2> SUFFICES ASSUME pc[t] = "drop" PROVE FALSE
    OBVIOUS
  <2>1. held[t] \in Slots /\ entry[held[t]].state = "Retiring"
    BY HolderHolds DEF HeldState
  <2> QED BY <1>2, <2>1 DEF Active
<1>4. QED
  BY <1>1, <1>2, <1>3

\* A caller of a closed cache links its Waiter and leaves with an error: the
\* queue is as empty as before.
LEMMA ClosedCall ==
  ASSUME LeaseInv, closed, queue = <<>>, NEW t \in Threads, Call(t)
  PROVE  queue' = <<>> /\ entry' = entry /\ pc'[t] = "idle"
<1>1. PICK r \in Request : AcquireLoop(t, r, Append(queue, t), FALSE)
  BY DEF Call
<1>2. AcquireError(t, r, Append(queue, t), FALSE)
  BY <1>1 DEF AcquireLoop, Refused
<1> DEFINE q == Append(queue, t)
<1>3. q \in Seq(Threads) /\ Len(q) = 1 /\ q[1] = t
  OBVIOUS
<1>4. queue' = Unlink(q, t) /\ entry' = entry /\ pc'[t] = "idle"
  BY <1>2 DEF AcquireError, LeaseInv, TypeOK
<1> HIDE DEF q
<1>5. Unlink(q, t) = RemoveAt(q, 1)
  <2>1. DOMAIN q = {1}
    BY <1>3
  <2>2. (CHOOSE i \in DOMAIN q : q[i] = t) = 1
    BY <1>3, <2>1
  <2> QED BY <2>2 DEF Unlink
<1>6. RemoveAt(q, 1) \in Seq(Threads) /\ Len(RemoveAt(q, 1)) = 0
  <2>1. 1 \in 1 .. Len(q)
    BY <1>3
  <2>2. RemoveAt(q, 1) \in Seq(Threads) /\ Len(RemoveAt(q, 1)) = Len(q) - 1
    BY <1>3, <2>1, RemoveAtProperties
  <2> QED BY <1>3, <2>2
<1>7. RemoveAt(q, 1) = <<>>
  BY <1>6, EmptySeq
<1>8. QED
  BY <1>4, <1>5, <1>7

\* A step outside clear() and close() keeps a drained cache drained.
LEMMA OtherDrains ==
  ASSUME LeaseInv, LeaseInv', CloseDrains, NEW t \in Threads,
         \/ Call(t) \/ Acquire(t) \/ Wake(t)
         \/ FreeStaging(t) \/ AllocateSlot(t) \/ BuildFails(t)
         \/ Built(t) \/ Execute(t) \/ Retire(t),
         UNCHANGED <<closed, closing>>,
         \A u \in Threads \ {t} : pc'[u] = pc[u]
  PROVE  CloseDrains'
<1> SUFFICES ASSUME closed, \A u \in Threads : ~closing[u]
             PROVE  /\ Live' = Quarantined' /\ queue' = <<>>
                    /\ \A u \in Threads : pc'[u] \in {"idle", "clear", "drop"}
  BY DEF CloseDrains
<1>1. /\ Live = Quarantined /\ queue = <<>>
      /\ \A u \in Threads : pc[u] \in {"idle", "clear"}
  BY DrainedCallers
<1>2. CASE Call(t)
  <2>1. queue' = <<>> /\ entry' = entry /\ pc'[t] = "idle"
    BY <1>1, <1>2, ClosedCall
  <2> QED BY <1>1, <2>1 DEF Live, Quarantined
<1>3. CASE Wake(t)
  BY <1>1, <1>3 DEF Wake, Live, Quarantined
<1>4. CASE Acquire(t)
  BY <1>1, <1>4 DEF Acquire
<1>5. CASE \/ FreeStaging(t) \/ AllocateSlot(t) \/ BuildFails(t)
           \/ Built(t) \/ Execute(t) \/ Retire(t)
  <2>1. pc[t] \notin {"idle", "clear"}
    BY <1>5, HolderMoves
  <2> QED BY <1>1, <2>1
<1>6. QED
  BY <1>2, <1>3, <1>4, <1>5

\* close() returns only when nothing is left, and a drained cache is left
\* alone by every later clear().
LEMMA ClearDrains ==
  ASSUME LeaseInv, LeaseInv', Contents, Contents', CloseDrains,
         NEW t \in Threads, NEW cut, NEW close, NEW asleep, Cutting(t, cut, close),
         ClearLoop(t, cut, close, asleep),
         \/ pc[t] = "idle" /\ (closed' => close)
         \/ pc[t] = "clear" /\ close = closing[t] /\ closed' = closed
  PROVE  CloseDrains'
<1> SUFFICES ASSUME closed', \A u \in Threads : ~closing'[u]
             PROVE  /\ Live' = Quarantined' /\ queue' = <<>>
                    /\ \A u \in Threads : pc'[u] \in {"idle", "clear", "drop"}
  BY DEF CloseDrains
<1>1. /\ pc'[t] \in {"idle", "clear", "drop"}
      /\ pc'[t] \in {"clear", "drop"} => closing'[t] = close
      /\ pc'[t] = "idle" => /\ Stale(cut) = {}
                            /\ close => Active = {} /\ queue = <<>>
      /\ pc'[t] = "clear" => close
      /\ pc'[t] \in {"idle", "clear"} => entry' = entry
      /\ queue' = queue
      /\ \A u \in Threads \ {t} : pc'[u] = pc[u] /\ closing'[u] = closing[u]
  BY ClearLoopCallers
<1>2. CASE close
  <2>1. pc'[t] = "idle"
    BY <1>1, <1>2
  <2>2. Stale(cut) = {} /\ Active = {} /\ queue = <<>> /\ entry' = entry
    BY <1>1, <1>2, <2>1
  <2>3. cut = generation' /\ generation' \in Nat
    BY <1>2 DEF Cutting
  <2>4. ASSUME NEW s \in Idle PROVE FALSE
    <3>1. s \in Slots /\ entry'[s].state = "Idle" /\ SlotOK(s)'
      BY <2>2 DEF Idle, Contents
    <3>2. entry[s].generation < generation'
      BY <2>2, <3>1 DEF SlotOK
    <3> QED BY <2>2, <2>3, <3>2 DEF Stale
  <2>5. Live = Quarantined
    BY <2>2, <2>4 DEF Live, Quarantined, Active, Idle, LeaseInv, TypeOK, Entry, States
  <2>6. ASSUME NEW u \in Threads, u # t PROVE pc[u] \in {"idle", "clear"}
    <3>1. pc[u] \in PCs /\ CallerOK(u)
      BY DEF LeaseInv, TypeOK, CallerState
    <3>2. pc[u] \notin {"acquire", "evict"}
      BY <2>2, <3>1 DEF CallerOK
    <3>3. pc[u] \notin {"free", "build", "execute", "retire", "drop"}
      <4> SUFFICES ASSUME pc[u] \in {"free", "build", "execute", "retire", "drop"}
                   PROVE  FALSE
        OBVIOUS
      <4>1. /\ held[u] \in Slots
            /\ entry[held[u]].state \in {"Building", "Leased", "Retiring"}
        BY HolderHolds DEF HeldState
      <4> QED BY <2>2, <4>1 DEF Active
    <3> QED BY <3>1, <3>2, <3>3 DEF PCs
  <2> QED BY <1>1, <2>1, <2>2, <2>5, <2>6 DEF Live, Quarantined
<1>3. CASE ~close
  <2>1. pc[t] = "clear" /\ ~closing[t] /\ closed
    BY <1>3
  <2>2. \A u \in Threads : ~closing[u]
    BY <1>1, <2>1
  <2>3. /\ Live = Quarantined /\ queue = <<>> /\ Idle = {}
        /\ \A u \in Threads : pc[u] \in {"idle", "clear"}
    BY <2>1, <2>2, DrainedCallers
  <2>4. entry' = entry
    BY <2>3, ClearLoopEntry
  <2> QED BY <1>1, <2>3, <2>4 DEF Live, Quarantined
<1>4. QED
  BY <1>2, <1>3 DEF Cutting

\* A new call is linked at the tail of the queue.
LEMMA CallLinked ==
  ASSUME LeaseInv, NEW t \in Threads, Call(t)
  PROVE  \E r \in Request : /\ Linked(t, r, Append(queue, t))
                            /\ AcquireLoop(t, r, Append(queue, t), FALSE)
<1>1. PICK r \in Request : AcquireLoop(t, r, Append(queue, t), FALSE)
  BY DEF Call
<1> DEFINE q == Append(queue, t)
<1>2. q \in Seq(Threads) /\ Len(q) = Len(queue) + 1 /\ q[Len(queue) + 1] = t
  BY DEF LeaseInv, TypeOK
<1>3. \A i \in DOMAIN queue : i \in DOMAIN q /\ q[i] = queue[i]
  BY DEF LeaseInv, TypeOK
<1>4. Len(queue) + 1 \in DOMAIN q
  BY <1>2 DEF LeaseInv, TypeOK
<1>5. held[t] = None
  BY DEF Call, LeaseInv, CallerState, CallerOK
<1>6. Linked(t, r, q)
  <2> HIDE DEF q
  <2> QED BY <1>2, <1>3, <1>4, <1>5 DEF Linked
<1>7. QED
  BY <1>1, <1>6

(***************************************************************************)
(* The theorems                                                            *)
(***************************************************************************)
\* The empty cache satisfies the accounts.
LEMMA AccountInit == Init => AccountInv
<1> SUFFICES ASSUME Init PROVE AccountInv
  OBVIOUS
<1>1. LeaseInv
  BY LeaseInit
<1>2. \A s \in Slots : entry[s].state = "Absent" /\ entry[s].allocated = 0
  <2>1. Vacant.state = "Absent" /\ Vacant.allocated = 0
    BY DEF Vacant
  <2>2. \A s \in Slots : entry[s] = Vacant
    BY DEF Init
  <2> QED BY <2>1, <2>2
<1>3. Live = {} /\ Idle = {} /\ Quarantined = {}
  BY <1>2 DEF Live, Idle, Quarantined
<1>4. Limits
  <2>1. CacheableOf(Live) = {} /\ \A k \in Keys : OnDevice(Live, k) = {}
    BY <1>3 DEF CacheableOf, OnDevice
  <2>2. \A f : Total({}, f) = 0
    BY FS_EmptySet DEF Total, Units
  <2>3. Cardinality({}) = 0
    BY FS_EmptySet
  <2> QED BY <1>3, <2>1, <2>2, <2>3, CacheConstants
          DEF Limits, Workers, RetainedBytes, LiveBytes
<1>5. \A s \in Slots : SlotOK(s)
  <2> SUFFICES ASSUME NEW s \in Slots PROVE SlotOK(s)
    OBVIOUS
  <2>1. entry[s].allocated = 0 /\ EntryBytes[s] \in Nat /\ entry[s].state = "Absent"
    BY <1>1, <1>2, ChargesAreNumbers DEF LeaseInv
  <2> QED BY <2>1 DEF SlotOK
<1>6. /\ \A t \in Threads : Serves(t)
      /\ \A t \in Threads : ClearOK(t)
  BY DEF Init, Serves, ClearOK
<1>7. NoStaleIdle
  BY <1>3 DEF NoStaleIdle
<1>8. CloseDrains
  BY DEF Init, CloseDrains
<1>9. QED
  BY <1>1, <1>4, <1>5, <1>6, <1>7, <1>8 DEF AccountInv, Contents, Clearing

\* Every step keeps the accounts, changes the charges as the budget allows
\* and makes no context of a disabled device available.
LEMMA AccountStep == AccountInv /\ [Next]_vars => AccountInv' /\ BudgetStep /\ Usable
<1> SUFFICES ASSUME AccountInv, [Next]_vars
             PROVE  AccountInv' /\ BudgetStep /\ Usable
  OBVIOUS
<1>1. LeaseInv /\ Limits /\ Contents /\ Clearing /\ CloseDrains
  BY DEF AccountInv
<1>2. LeaseInv'
  BY <1>1, LeaseInductive
<1>3. ASSUME NEW t \in Threads, NEW close \in BOOLEAN, Clear(t, close)
      PROVE  Accounted /\ Clearing' /\ CloseDrains'
  <2>1. /\ Cutting(t, generation', close) /\ pc[t] = "idle"
        /\ ClearLoop(t, generation', close, {})
    BY <1>1, <1>3, ClearCuts DEF Clear
  <2>2. closed' => close
    BY <1>3 DEF Clear
  <2>g. PICK cut : cut = generation'
    OBVIOUS
  <2>3. Cutting(t, cut, close) /\ ClearLoop(t, cut, close, {})
    BY <2>1, <2>g
  <2>4. Accounted
    BY <1>1, <1>2, <2>3, ClearLoopAccounts
  <2>5. Clearing'
    BY <1>1, <1>2, <2>3, ClearLoopClearing
  <2>6. CloseDrains'
    BY <1>1, <1>2, <2>1, <2>2, <2>3, <2>4, ClearDrains DEF Accounted
  <2> QED BY <2>4, <2>5, <2>6
<1>4. ASSUME NEW t \in Threads, ClearAgain(t)
      PROVE  Accounted /\ Clearing' /\ CloseDrains'
  <2>1. /\ Cutting(t, cutoff[t], closing[t]) /\ pc[t] = "clear"
        /\ ClearLoop(t, cutoff[t], closing[t], sleeping)
        /\ closed' = closed
    BY <1>1, <1>4, ClearAgainCuts DEF ClearAgain
  <2>g. PICK cut, close, asleep : cut = cutoff[t] /\ close = closing[t] /\ asleep = sleeping
    OBVIOUS
  <2>3. Cutting(t, cut, close) /\ ClearLoop(t, cut, close, asleep)
    BY <2>1, <2>g
  <2>4. Accounted
    BY <1>1, <1>2, <2>3, ClearLoopAccounts
  <2>5. Clearing'
    BY <1>1, <1>2, <2>3, ClearLoopClearing
  <2>6. CloseDrains'
    BY <1>1, <1>2, <2>1, <2>g, <2>3, <2>4, ClearDrains DEF Accounted
  <2> QED BY <2>4, <2>5, <2>6
<1>5. ASSUME NEW t \in Threads, Call(t) \/ Acquire(t)
      PROVE  Accounted /\ Clearing' /\ CloseDrains'
  <2>1. PICK r, q, w : Linked(t, r, q) /\ AcquireLoop(t, r, q, w)
    <3>1. CASE Call(t)
      BY <1>1, <3>1, CallLinked DEF Call
    <3>2. CASE Acquire(t)
      BY <1>1, <3>2 DEF Acquire, LeaseInv, TypeOK, CallerState, CallerOK, Linked
    <3> QED BY <1>5, <3>1, <3>2
  <2>2. Accounted
    BY <1>1, <1>2, <2>1, AcquireLoopAccounts
  <2>3. /\ UNCHANGED <<closed, generation, cutoff, closing>>
        /\ \A u \in Threads \ {t} : pc'[u] = pc[u]
    BY <1>1, <2>1, AcquireLoopMoves
  <2>4. Clearing'
    BY <1>1, <1>5, <2>3, OtherClearing DEF Call, Acquire
  <2>5. CloseDrains'
    BY <1>1, <1>2, <1>5, <2>3, OtherDrains
  <2> QED BY <2>2, <2>4, <2>5
<1>6. ASSUME NEW t \in Threads, Wake(t)
      PROVE  Accounted /\ Clearing' /\ CloseDrains'
  <2>1. UNCHANGED <<entry, older, queue, closed, generation, pc, req, held,
                    waited, cutoff, closing>>
    BY <1>6 DEF Wake
  <2>2. Accounted
    <3>1. \A s \in Slots : SameCharge(s)
      BY <2>1 DEF SameCharge
    <3>2. EntryBytes' = EntryBytes /\ Idle' = Idle
      BY <2>1 DEF EntryBytes, Idle
    <3>3. Contents'
      BY <1>1, <2>1, <3>2 DEF Contents, Serves, SlotOK, NoStaleIdle
    <3>4. Limits' /\ BudgetStep /\ Usable
      BY <1>1, <2>1, <3>1, SameLimits DEF BudgetStep, Usable
    <3> QED BY <3>3, <3>4 DEF Accounted
  <2>3. Clearing'
    BY <1>1, <2>1 DEF Clearing, ClearOK
  <2>4. CloseDrains'
    BY <1>1, <1>2, <1>6, <2>1, OtherDrains
  <2> QED BY <2>2, <2>3, <2>4
<1>7. ASSUME NEW t \in Threads,
             \/ FreeStaging(t) \/ AllocateSlot(t) \/ BuildFails(t)
             \/ Built(t) \/ Execute(t) \/ Retire(t)
      PROVE  Accounted /\ Clearing' /\ CloseDrains'
  <2>1. Accounted
    BY <1>1, <1>2, <1>7, FreeStagingAccounts, AllocateSlotAccounts,
       StartRetireAccounts, BuiltAccounts, ExecuteAccounts, RetireAccounts
       DEF BuildFails
  <2>2. /\ UNCHANGED <<closed, generation, cutoff, closing, queue>>
        /\ \A u \in Threads \ {t} : pc'[u] = pc[u]
        /\ pc[t] \in {"evict", "free", "build", "execute", "retire", "drop"}
        /\ pc[t] = "drop" => pc'[t] = "clear"
    BY <1>1, <1>7, HolderMoves
  <2>3. Clearing'
    BY <1>1, <2>2, OtherClearing
  <2>4. CloseDrains'
    BY <1>1, <1>2, <1>7, <2>2, OtherDrains
  <2> QED BY <2>1, <2>3, <2>4
<1>8. CASE UNCHANGED vars
  <2>1. \A s \in Slots : SameCharge(s)
    BY <1>8 DEF SameCharge, vars
  <2>2. EntryBytes' = EntryBytes /\ Idle' = Idle /\ Live' = Live /\ Quarantined' = Quarantined
    BY <1>8 DEF EntryBytes, Idle, Live, Quarantined, vars
  <2>3. Contents'
    BY <1>1, <1>8, <2>2 DEF vars, Contents, Serves, SlotOK, NoStaleIdle
  <2>4. Clearing' /\ CloseDrains'
    BY <1>1, <1>8, <2>2 DEF vars, Clearing, ClearOK, CloseDrains
  <2>5. Limits' /\ BudgetStep /\ Usable
    BY <1>1, <1>8, <2>1, SameLimits DEF vars, BudgetStep, Usable
  <2> QED BY <1>2, <2>3, <2>4, <2>5 DEF AccountInv
<1>9. QED
  BY <1>2, <1>3, <1>4, <1>5, <1>6, <1>7, <1>8 DEF Next, Step, Accounted, AccountInv

\* The invariant gives what the run checks.
LEMMA AccountsImply == AccountInv => ContextsAccounted
<1> SUFFICES ASSUME AccountInv PROVE ContextsAccounted
  OBVIOUS
<1>1. HardLimits
  BY DEF AccountInv, Contents, SlotOK, Limits, HardLimits
<1>2. LeaseServesRequest
  BY DEF AccountInv, Contents, Serves, LeaseServesRequest
<1>3. QED
  BY <1>1, <1>2 DEF AccountInv, Contents, ContextsAccounted

\* Every context is accounted for: the five limits hold in every state with
\* everything that is built, grown, retired or quarantined charged, staging
\* never exceeds its reservation, a transfer runs on a complete context of its
\* own key and size, no context is idle past a clear(), and close() drains.
THEOREM ContextsAreAccounted == Spec => []ContextsAccounted
BY AccountInit, AccountStep, AccountsImply, PTL DEF Spec

\* After a quarantine no context of that device is leased or becomes idle.
THEOREM QuarantineDisables == Spec => QuarantineDisablesDevice
<1>1. AccountInv /\ [Next]_vars =>
        [\A s \in Slots :
           /\ entry'[s].state \in {"Leased", "Idle"}
           /\ entry[s].state # entry'[s].state
           => ~DeviceDisabled(entry'[s].key)]_entry
  BY AccountStep DEF Usable
<1>2. QED
  BY <1>1, AccountInit, AccountStep, PTL DEF Spec, QuarantineDisablesDevice

\* The cache implements its budget.
THEOREM CacheImplementsBudget == Spec => BudgetSpec
<1>1. Init => Budget!Init
  <2>1. Vacant.state = "Absent"
    BY DEF Vacant
  <2>2. Init => \A s \in Slots : entry[s] = Vacant
    BY DEF Init
  <2> QED BY <2>1, <2>2 DEF Budget!Init, Charged
<1>2. ASSUME AccountInv, [Next]_vars PROVE [Budget!Next]_Charged
  <2>1. CASE Budget!Next
    BY <2>1
  <2>2. CASE \A s \in Slots : SameCharge(s)
    <3>1. /\ \A s \in Slots : entry'[s].key = entry[s].key
          /\ \A s \in Slots : entry'[s].capacity = entry[s].capacity
          /\ \A s \in Slots : (entry'[s].state # "Absent") = (entry[s].state # "Absent")
          /\ \A s \in Slots :
               (entry'[s].state = "Quarantined") = (entry[s].state = "Quarantined")
      BY <2>2 DEF SameCharge
    <3>2. Charged' = Charged
      BY <3>1, Zenon DEF Charged
    <3> QED BY <3>2
  <2> QED BY <1>2, <2>1, <2>2, AccountStep DEF BudgetStep
<1>3. QED
  BY <1>1, <1>2, AccountInit, AccountStep, PTL DEF Spec, BudgetSpec, Budget!Spec
=============================================================================
