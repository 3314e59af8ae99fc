--------------------- MODULE DispatchResourcePoolProofs ---------------------
(***************************************************************************)
(* Proofs about DispatchResourcePool for every set of threads, handles and *)
(* keys and every quota.  The proofs never look at the order of lru or of  *)
(* the queue: which free slot is chosen, and whose turn it is, do not      *)
(* matter for safety.                                                      *)
(***************************************************************************)
EXTENDS DispatchResourcePool, WellFoundedInduction

(***************************************************************************)
(* The inductive invariant                                                 *)
(***************************************************************************)
PCs == {"idle", "acquire", "resume", "poll", "run", "publish", "return",
        "finish", "release", "serialize", "drain"}
Roles == {"none", "acquire", "handle", "destroy", "clear", "close"}

\* What the proofs need of the types.
Shape ==
  /\ keyOf \in [Slots -> Keys \cup {None}]
  /\ active \in [Slots -> BOOLEAN]
  /\ pending \in [Slots -> Handles \cup {None}]
  /\ refs \in [Slots -> SUBSET (Threads \cup Handles)]
  /\ engine \in [Slots -> {"open", "quarantined"}]
  /\ work \in [Handles -> [state : Outcomes \cup {"launched"}, slot : Slots]]
  /\ closed \in BOOLEAN /\ clearing \in BOOLEAN /\ quarantined \in BOOLEAN
  /\ pc \in [Threads -> PCs] /\ role \in [Threads -> Roles]
  /\ at \in [Threads -> Slots \cup {None}]
  /\ want \in [Threads -> Keys \cup {None}]
  /\ target \in [Threads -> Handles \cup {None}]

Holds(t) == pc[t] \in {"run", "publish", "return"}
Releasing(t, s) == pc[t] = "release" /\ at[t] = s
Publishing(t, c) == pc[t] = "publish" /\ target[t] = c

\* The role a thread has where it is.
RoleOK(t) ==
  /\ pc[t] \in {"idle", "acquire", "run", "publish", "return"} => role[t] = "none"
  /\ pc[t] \in {"serialize", "drain"} => role[t] \in {"clear", "close"}
  /\ pc[t] = "poll" => role[t] = "acquire"
  /\ pc[t] = "resume" => role[t] \in {"acquire", "clear", "close"}
  /\ pc[t] = "finish" => role[t] # "none"
  /\ pc[t] = "release" => role[t] \notin {"handle", "destroy"}
  /\ pc[t] = "acquire" \/ role[t] = "acquire" =>
       want[t] \in Keys /\ \E s \in Slots : FitsSlot(want[t], s)

\* A thread that runs or publishes owns its slot alone; the thread that
\* dropped the last reference is the only one about to release the slot.
ThreadOK(t) ==
  /\ Holds(t) => at[t] \in Slots /\ t \in refs[at[t]]
  /\ pc[t] \in {"run", "publish"} => refs[at[t]] = {t} /\ engine[at[t]] = "open"
  /\ pc[t] = "publish" =>
       /\ target[t] \in Handles
       /\ work[target[t]] = [state |-> "launched", slot |-> at[t]]
       /\ \A u \in Threads \ {t} : target[u] # target[t]
       /\ \A s \in Slots : pending[s] # target[t]
  /\ pc[t] \in {"finish", "poll"} => target[t] \in Handles
  /\ pc[t] = "release" =>
       /\ at[t] \in Slots /\ active[at[t]] /\ refs[at[t]] = {}
       /\ \A u \in Threads \ {t} : ~Releasing(u, at[t])

\* Who may hold a reference to the lease of a slot, and when it is active.
SlotOK(s) ==
  /\ \A t \in Threads : t \in refs[s] => Holds(t) /\ at[t] = s
  /\ \A c \in Handles : c \in refs[s] => pending[s] = c
  /\ pending[s] # None => work[pending[s]].slot = s
  /\ active[s] <=> refs[s] # {} \/ \E t \in Threads : Releasing(t, s)

\* An engine still runs only what its lease's last owner waits for.
HandleOK(c) ==
  /\ work[c].state = "launched" =>
       c \in refs[work[c].slot] \/ \E t \in Threads : Publishing(t, c)
  /\ work[c].state = "unknown" => engine[work[c].slot] = "quarantined"

Fitting == \A s \in Slots : keyOf[s] # None => FitsSlot(keyOf[s], s)
DeviceCaps == \A k \in Keys : Cardinality(Resident(k)) <= PerDevice
Disabled == \A s \in Slots : engine[s] = "quarantined" /\ ~active[s] => quarantined

LeaseInv ==
  /\ Shape
  /\ \A t \in Threads : RoleOK(t) /\ ThreadOK(t)
  /\ \A s \in Slots : SlotOK(s)
  /\ \A c \in Handles : HandleOK(c)

PoolInv == LeaseInv /\ Fitting /\ DeviceCaps /\ Disabled /\ CloseDrains

\* Where a thread holds no part of a lease.
Quiet == {"idle", "acquire", "resume", "poll", "finish", "serialize", "drain"}

\* Nothing is leased yet.
LEMMA LeaseInit == Init => PoolInv
<1> SUFFICES ASSUME Init PROVE PoolInv
  OBVIOUS
<1>1. Shape
  <2>1. 1 \in Slots
    BY PoolConstants DEF Slots
  <2>2. work \in [Handles -> [state : Outcomes \cup {"launched"}, slot : Slots]]
    BY <2>1 DEF Init, Outcomes
  <2> QED BY <2>2 DEF Init, Shape, PCs, Roles
<1>2. \A t \in Threads : RoleOK(t) /\ ThreadOK(t)
  BY DEF Init, RoleOK, ThreadOK, Holds
<1>3. \A s \in Slots : SlotOK(s)
  BY DEF Init, SlotOK, Releasing
<1>4. \A c \in Handles : HandleOK(c)
  BY DEF Init, HandleOK
<1>5. Fitting /\ Disabled
  BY DEF Init, Fitting, Disabled
<1>6. DeviceCaps
  <2>1. \A k \in Keys : Resident(k) = {}
    BY DEF Init, Resident
  <2> QED BY <2>1, FS_EmptySet, PoolConstants DEF DeviceCaps
<1>7. CloseDrains
  BY DEF Init, CloseDrains
<1>8. QED
  BY <1>1, <1>2, <1>3, <1>4, <1>5, <1>6, <1>7 DEF PoolInv, LeaseInv

\* A thread without a lease goes somewhere else without one, maybe with a
\* Completion to finish that nobody is still publishing.
LEMMA Walks ==
  ASSUME LeaseInv, NEW t \in Threads, pc[t] \in Quiet,
         NEW p \in Quiet, NEW r \in Roles, NEW c \in Handles \cup {None},
         NEW k \in Keys \cup {None},
         pc' = [pc EXCEPT ![t] = p], role' = [role EXCEPT ![t] = r],
         target' = [target EXCEPT ![t] = c], want' = [want EXCEPT ![t] = k],
         UNCHANGED <<active, pending, refs, engine, work, at>>,
         keyOf' \in [Slots -> Keys \cup {None}],
         closed' \in BOOLEAN, clearing' \in BOOLEAN, quarantined' \in BOOLEAN,
         RoleOK(t)', p \in {"finish", "poll"} => c \in Handles,
         \A u \in Threads : ~Publishing(u, c)
  PROVE  LeaseInv'
<1>1. Shape'
  BY DEF LeaseInv, Shape, Quiet, PCs
<1>2. /\ pc'[t] = p /\ target'[t] = c
      /\ \A u \in Threads \ {t} :
           pc'[u] = pc[u] /\ role'[u] = role[u] /\ target'[u] = target[u] /\ want'[u] = want[u]
  BY DEF LeaseInv, Shape
<1>3. ASSUME NEW u \in Threads, u # t PROVE RoleOK(u)' /\ ThreadOK(u)'
  <2>1. RoleOK(u)'
    BY <1>2, <1>3 DEF LeaseInv, RoleOK, FitsSlot
  <2>2. \A s \in Slots : ~Releasing(t, s)'
    BY <1>2 DEF Releasing, Quiet
  <2>3. pc[u] = "publish" => c # target[u]
    BY DEF Publishing
  <2>4. Holds(u)' <=> Holds(u)
    BY <1>2, <1>3 DEF Holds
  <2>5. ThreadOK(u)
    BY DEF LeaseInv
  <2>6. Holds(u)' => at'[u] \in Slots /\ u \in refs'[at'[u]]
    BY <2>4, <2>5 DEF ThreadOK
  <2>7. pc'[u] \in {"run", "publish"} => refs'[at'[u]] = {u} /\ engine'[at'[u]] = "open"
    BY <1>2, <1>3, <2>5 DEF ThreadOK
  <2>8. pc'[u] = "publish" =>
          /\ target'[u] \in Handles
          /\ work'[target'[u]] = [state |-> "launched", slot |-> at'[u]]
          /\ \A v \in Threads \ {u} : target'[v] # target'[u]
          /\ \A s \in Slots : pending'[s] # target'[u]
    BY <1>2, <1>3, <2>3, <2>5 DEF ThreadOK
  <2>9. pc'[u] \in {"finish", "poll"} => target'[u] \in Handles
    BY <1>2, <1>3, <2>5 DEF ThreadOK
  <2>10. pc'[u] = "release" =>
           /\ at'[u] \in Slots /\ active'[at'[u]] /\ refs'[at'[u]] = {}
           /\ \A v \in Threads \ {u} : ~(pc'[v] = "release" /\ at'[v] = at'[u])
    BY <1>2, <1>3, <2>2, <2>5 DEF ThreadOK, Releasing
  <2>11. ThreadOK(u)'
    BY <2>6, <2>7, <2>8, <2>9, <2>10 DEF ThreadOK, Releasing
  <2> QED BY <2>1, <2>11
<1>4. ThreadOK(t)'
  BY <1>2 DEF ThreadOK, Holds, Quiet
<1>5. ASSUME NEW s \in Slots PROVE SlotOK(s)'
  <2>1. \A u \in Threads : Releasing(u, s)' <=> Releasing(u, s)
    BY <1>2 DEF Releasing, Quiet
  <2>2. t \notin refs[s]
    BY DEF LeaseInv, SlotOK, Holds, Quiet
  <2> QED BY <1>2, <2>1, <2>2 DEF LeaseInv, SlotOK, Holds
<1>6. ASSUME NEW x \in Handles PROVE HandleOK(x)'
  <2>1. \A u \in Threads : Publishing(u, x) => Publishing(u, x)'
    BY <1>2 DEF Publishing, Quiet
  <2> QED BY <2>1 DEF LeaseInv, HandleOK
<1>7. QED
  BY <1>1, <1>3, <1>4, <1>5, <1>6 DEF LeaseInv

\* Nothing but handles and sleepers changed.
LEMMA LeaseStutters ==
  ASSUME LeaseInv,
         UNCHANGED <<keyOf, active, pending, refs, engine, work, closed, clearing,
                     quarantined, pc, role, at, want, target>>
  PROVE  LeaseInv'
<1>1. Shape'
  BY DEF LeaseInv, Shape
<1>2. \A t \in Threads : RoleOK(t)' /\ ThreadOK(t)'
  BY DEF LeaseInv, RoleOK, ThreadOK, FitsSlot, Holds, Releasing
<1>3. \A s \in Slots : SlotOK(s)'
  BY DEF LeaseInv, SlotOK, Holds, Releasing
<1>4. \A c \in Handles : HandleOK(c)'
  BY DEF LeaseInv, HandleOK, Publishing
<1>5. QED
  BY <1>1, <1>2, <1>3, <1>4 DEF LeaseInv

\* A pending submission that can be locked is not being published.
LEMMA PendingSettled ==
  ASSUME LeaseInv, NEW s \in Slots, pending[s] # None
  PROVE  pending[s] \in Handles /\ \A u \in Threads : ~Publishing(u, pending[s])
<1>1. pending[s] \in Handles
  BY DEF LeaseInv, Shape
<1>2. ASSUME NEW u \in Threads PROVE ~Publishing(u, pending[s])
  <2>1. pc[u] = "publish" => pending[s] # target[u]
    BY DEF LeaseInv, ThreadOK
  <2> QED BY <2>1 DEF Publishing
<1>3. QED
  BY <1>1, <1>2

\* Nor is the absence of one.
LEMMA NonePublished ==
  ASSUME LeaseInv
  PROVE  \A u \in Threads : ~Publishing(u, None)
<1>1. ASSUME NEW u \in Threads, Publishing(u, None) PROVE None \in Handles
  <2>1. pc[u] = "publish" /\ target[u] = None
    BY <1>1 DEF Publishing
  <2> QED BY <2>1 DEF LeaseInv, ThreadOK
<1>2. QED
  BY <1>1, PoolConstants

\* What the choice of a slot promises, whatever the order of lru.
LEMMA ChoiceFits ==
  ASSUME NEW k, NEW s \in Choice(k)
  PROVE  /\ s \in Slots /\ ~active[s] /\ FitsSlot(k, s)
         /\ keyOf[s] = k \/ (DeviceFull(k) => s \in Resident(k))
<1>1. s \in Exact(k) \/ s \in Replaceable(k)
  BY DEF Choice, Oldest
<1>2. QED
  BY <1>1 DEF Exact, Replaceable, Free

(***************************************************************************)
(* Admission                                                               *)
(***************************************************************************)
\* A slot is granted only when nobody owns a reference to its lease, and its
\* engine never lost track of its work.
LEMMA GrantLeases ==
  ASSUME PoolInv, NEW t \in Threads, pc[t] \in Quiet, NEW k \in Keys, NEW q,
         ~closed, ~quarantined, AcquireGrant(t, k, q), closed' = closed, clearing' = clearing
  PROVE  LeaseInv' /\ Fitting' /\ DeviceCaps' /\ Disabled'
<1>1. PICK s \in Choice(k) :
        /\ keyOf' = [keyOf EXCEPT ![s] = k]
        /\ active' = [active EXCEPT ![s] = TRUE]
        /\ refs' = [refs EXCEPT ![s] = {t}]
        /\ at' = [at EXCEPT ![t] = s]
  BY DEF AcquireGrant
<1>2. /\ s \in Slots /\ ~active[s] /\ FitsSlot(k, s)
      /\ keyOf[s] = k \/ (DeviceFull(k) => s \in Resident(k))
  BY ChoiceFits
<1>3. /\ pc' = [pc EXCEPT ![t] = "run"] /\ role' = [role EXCEPT ![t] = "none"]
      /\ want' = [want EXCEPT ![t] = k] /\ target' = [target EXCEPT ![t] = None]
      /\ UNCHANGED <<pending, quarantined, engine, work, closed, clearing>>
  BY DEF AcquireGrant
<1>4. LeaseInv
  BY DEF PoolInv
<1>5. /\ refs[s] = {} /\ \A u \in Threads : ~Releasing(u, s)
      /\ engine[s] = "open"
  BY <1>2 DEF PoolInv, LeaseInv, SlotOK, Disabled, Shape
<1>6. /\ pc'[t] = "run" /\ role'[t] = "none" /\ target'[t] = None /\ at'[t] = s
      /\ \A u \in Threads \ {t} : /\ pc'[u] = pc[u] /\ role'[u] = role[u] /\ at'[u] = at[u]
                                  /\ target'[u] = target[u] /\ want'[u] = want[u]
  BY <1>1, <1>3, <1>4 DEF LeaseInv, Shape
<1>7. /\ keyOf'[s] = k /\ active'[s] = TRUE /\ refs'[s] = {t}
      /\ \A x \in Slots \ {s} : keyOf'[x] = keyOf[x] /\ active'[x] = active[x] /\ refs'[x] = refs[x]
  BY <1>1, <1>2, <1>4 DEF LeaseInv, Shape
<1>8. Shape'
  <2>1. /\ pc' \in [Threads -> PCs] /\ role' \in [Threads -> Roles]
        /\ want' \in [Threads -> Keys \cup {None}]
        /\ target' \in [Threads -> Handles \cup {None}]
        /\ at' \in [Threads -> Slots \cup {None}]
    BY <1>1, <1>2, <1>3, <1>4 DEF LeaseInv, Shape, PCs, Roles
  <2>2. /\ keyOf' \in [Slots -> Keys \cup {None}]
        /\ active' \in [Slots -> BOOLEAN]
        /\ refs' \in [Slots -> SUBSET (Threads \cup Handles)]
    BY <1>1, <1>2, <1>4 DEF LeaseInv, Shape
  <2> QED BY <1>3, <1>4, <2>1, <2>2 DEF LeaseInv, Shape
<1>9. t \notin Handles /\ None \notin Handles /\ \A x \in Slots : t \notin refs[x]
  BY <1>4, PoolConstants DEF LeaseInv, SlotOK, Holds, Quiet
<1>10. ASSUME NEW u \in Threads, u # t PROVE RoleOK(u)' /\ ThreadOK(u)'
  <2>1. RoleOK(u)'
    BY <1>4, <1>6, <1>10 DEF LeaseInv, RoleOK, FitsSlot
  <2>2. Holds(u) => at[u] \in Slots /\ at[u] # s
    BY <1>4, <1>5 DEF LeaseInv, ThreadOK
  <2>3. pc[u] = "release" => at[u] \in Slots /\ at[u] # s
    BY <1>2, <1>4 DEF LeaseInv, ThreadOK
  <2>4. pc[u] = "publish" => target[u] # None
    BY <1>4, <1>9 DEF LeaseInv, ThreadOK
  <2>5. Holds(u)' <=> Holds(u)
    BY <1>6, <1>10 DEF Holds
  <2>6. ThreadOK(u) /\ at'[u] = at[u] /\ pc'[u] = pc[u] /\ target'[u] = target[u]
    BY <1>4, <1>6, <1>10 DEF LeaseInv
  <2>7. Holds(u)' => at'[u] \in Slots /\ u \in refs'[at'[u]]
    BY <1>7, <2>2, <2>5, <2>6 DEF ThreadOK
  <2>8. pc'[u] \in {"run", "publish"} => refs'[at'[u]] = {u} /\ engine'[at'[u]] = "open"
    BY <1>3, <1>7, <2>2, <2>6 DEF ThreadOK, Holds
  <2>9. pc'[u] = "publish" =>
          /\ target'[u] \in Handles
          /\ work'[target'[u]] = [state |-> "launched", slot |-> at'[u]]
          /\ \A v \in Threads \ {u} : target'[v] # target'[u]
          /\ \A x \in Slots : pending'[x] # target'[u]
    BY <1>3, <1>6, <2>4, <2>6 DEF ThreadOK
  <2>10. pc'[u] \in {"finish", "poll"} => target'[u] \in Handles
    BY <2>6 DEF ThreadOK
  <2>11. pc'[u] = "release" =>
           /\ at'[u] \in Slots /\ active'[at'[u]] /\ refs'[at'[u]] = {}
           /\ \A v \in Threads \ {u} : ~(pc'[v] = "release" /\ at'[v] = at'[u])
    BY <1>6, <1>7, <2>3, <2>6 DEF ThreadOK, Releasing
  <2>12. ThreadOK(u)'
    BY <2>7, <2>8, <2>9, <2>10, <2>11 DEF ThreadOK, Releasing
  <2> QED BY <2>1, <2>12
<1>11. RoleOK(t)' /\ ThreadOK(t)'
  BY <1>2, <1>3, <1>5, <1>6, <1>7 DEF RoleOK, ThreadOK, Holds
<1>12. ASSUME NEW x \in Slots PROVE SlotOK(x)'
  <2>1. \A u \in Threads : Releasing(u, x)' <=> Releasing(u, x)
    BY <1>6 DEF Releasing, Quiet
  <2>2. CASE x = s
    BY <1>2, <1>3, <1>4, <1>6, <1>7, <1>9, <2>2 DEF LeaseInv, SlotOK, Holds
  <2>3. CASE x # s
    BY <1>3, <1>4, <1>6, <1>7, <1>9, <2>1, <2>3 DEF LeaseInv, SlotOK, Holds
  <2> QED BY <2>2, <2>3
<1>13. ASSUME NEW c \in Handles PROVE HandleOK(c)'
  <2>1. \A u \in Threads : Publishing(u, c) => Publishing(u, c)'
    BY <1>6 DEF Publishing, Quiet
  <2>2. c \in refs[work[c].slot] => c \in refs'[work[c].slot]
    BY <1>4, <1>5, <1>7 DEF LeaseInv, Shape
  <2> QED BY <1>3, <1>4, <2>1, <2>2 DEF LeaseInv, HandleOK
<1>14. Fitting'
  BY <1>2, <1>7 DEF PoolInv, Fitting, FitsSlot
<1>15. Disabled'
  BY <1>3, <1>7 DEF PoolInv, Disabled
<1>16. DeviceCaps'
  <2> SUFFICES ASSUME NEW j \in Keys PROVE Cardinality(Resident(j)') <= PerDevice
    BY DEF DeviceCaps
  <2>1. IsFiniteSet(Slots)
    BY PoolConstants, FS_Interval DEF Slots
  <2>2. /\ Resident(j) \subseteq Slots /\ Cardinality(Resident(j)) <= PerDevice
    BY DEF PoolInv, DeviceCaps, Resident
  <2>3. IsFiniteSet(Resident(j)) /\ Cardinality(Resident(j)) \in Nat
    BY <2>1, <2>2, FS_Subset, FS_CardinalityType
  <2>n. k # None
    BY PoolConstants
  <2>4. CASE Resident(j)' \subseteq Resident(j)
    <3>1. Cardinality(Resident(j)') <= Cardinality(Resident(j)) /\ Cardinality(Resident(j)') \in Nat
      BY <2>3, <2>4, FS_Subset, FS_CardinalityType
    <3> QED BY <2>2, <2>3, <3>1, PoolConstants
  <2>5. CASE ~(Resident(j)' \subseteq Resident(j))
    <3>1. /\ DeviceOf[j] = DeviceOf[k] /\ s \notin Resident(j)
          /\ Resident(j)' = Resident(j) \cup {s}
      BY <1>2, <1>7, <2>5, <2>n DEF Resident
    <3>2. Resident(j) = Resident(k)
      BY <3>1 DEF Resident
    <3>3. keyOf[s] # k
      BY <1>2, <2>n, <3>1, <3>2 DEF Resident
    <3>4. ~DeviceFull(k)
      BY <1>2, <3>1, <3>2, <3>3
    <3>5. Cardinality(Resident(j)) < PerDevice
      BY <2>3, <3>2, <3>4, PoolConstants DEF DeviceFull
    <3>6. Cardinality(Resident(j) \cup {s}) = Cardinality(Resident(j)) + 1
      BY <2>3, <3>1, FS_AddElement
    <3> QED BY <2>3, <3>1, <3>5, <3>6, PoolConstants
  <2> QED BY <2>4, <2>5
<1>17. QED
  BY <1>8, <1>10, <1>11, <1>12, <1>13, <1>14, <1>15, <1>16 DEF LeaseInv

\* What close() has drained stays drained as long as nothing is leased anew.
LEMMA StaysDrained ==
  ASSUME CloseDrains, closed' => closed,
         \A t \in Threads : role[t] = "close" => role'[t] = "close",
         Busy = {} => /\ Busy' = {}
                      /\ \A s \in Slots : keyOf'[s] # None => keyOf[s] # None
                      /\ \A s \in Slots : engine[s] = "quarantined" => engine'[s] = "quarantined"
                      /\ \A c \in Handles : work'[c].state = "launched" => work[c].state = "launched"
  PROVE  CloseDrains'
BY DEF CloseDrains

\* The other parts of the invariant need no lease.
LEMMA RestStays ==
  ASSUME PoolInv, LeaseInv', UNCHANGED <<keyOf, active, engine>>,
         quarantined => quarantined', CloseDrains'
  PROVE  PoolInv'
<1>1. Fitting' /\ Disabled' /\ DeviceCaps'
  BY DEF PoolInv, Fitting, FitsSlot, Disabled, DeviceCaps, Resident
<1>2. QED
  BY <1>1 DEF PoolInv

\* One iteration of Pool::acquire, whatever it decides.
LEMMA LoopKeeps ==
  ASSUME PoolInv, NEW t \in Threads, pc[t] \in Quiet, role[t] # "close",
         NEW k \in Keys, \E s \in Slots : FitsSlot(k, s), NEW q, NEW asleep,
         AcquireLoop(t, k, q, asleep)
  PROVE  PoolInv'
<1>1. LeaseInv
  BY DEF PoolInv
<1>2. ASSUME NEW p \in Quiet, NEW r \in Roles, NEW c \in Handles \cup {None},
             NEW j \in Keys \cup {None},
             pc' = [pc EXCEPT ![t] = p], role' = [role EXCEPT ![t] = r],
             target' = [target EXCEPT ![t] = c], want' = [want EXCEPT ![t] = j],
             UNCHANGED <<poolVars, leaseVars, closed, clearing, at>>,
             RoleOK(t)', p \in {"finish", "poll"} => c \in Handles,
             \A u \in Threads : ~Publishing(u, c)
      PROVE  PoolInv'
  <2>1. /\ UNCHANGED <<active, pending, refs, engine, work, at>>
        /\ UNCHANGED <<keyOf, quarantined, closed, clearing>>
    BY <1>2 DEF poolVars, leaseVars
  <2>2. keyOf' \in [Slots -> Keys \cup {None}]
    BY <1>1, <2>1 DEF LeaseInv, Shape
  <2>3. closed' \in BOOLEAN /\ clearing' \in BOOLEAN /\ quarantined' \in BOOLEAN
    BY <1>1, <2>1 DEF LeaseInv, Shape
  <2>4. LeaseInv'
    BY <1>1, <1>2, <2>1, <2>2, <2>3, Walks
  <2>5. CloseDrains'
    <3>1. \A u \in Threads : role[u] = "close" => role'[u] = "close"
      BY <1>1, <1>2 DEF LeaseInv, Shape
    <3> QED BY <2>1, <3>1, StaysDrained DEF PoolInv, Busy
  <2> QED BY <2>1, <2>4, <2>5, RestStays
<1>3. CASE AcquireError(t, q)
  <2>1. /\ pc' = [pc EXCEPT ![t] = "idle"] /\ role' = [role EXCEPT ![t] = "none"]
        /\ target' = [target EXCEPT ![t] = None] /\ want' = [want EXCEPT ![t] = None]
        /\ UNCHANGED <<poolVars, leaseVars, closed, clearing, at>>
    BY <1>3 DEF AcquireError
  <2>2. pc'[t] = "idle" /\ role'[t] = "none"
    BY <1>1, <2>1 DEF LeaseInv, Shape
  <2>3. RoleOK(t)'
    BY <2>2 DEF RoleOK
  <2>4. "idle" \in Quiet /\ "none" \in Roles /\ None \in Handles \cup {None} /\ None \in Keys \cup {None}
    BY DEF Quiet, Roles
  <2> QED BY <1>1, <1>2, <2>1, <2>3, <2>4, NonePublished
<1>4. CASE ~closed /\ ~quarantined /\ AcquireGrant(t, k, q)
  <2>1. closed' = closed /\ clearing' = clearing
    BY <1>4 DEF AcquireGrant
  <2>2. LeaseInv' /\ Fitting' /\ DeviceCaps' /\ Disabled'
    BY <1>4, <2>1, GrantLeases
  <2>3. CloseDrains'
    BY <1>4, <2>1 DEF CloseDrains
  <2> QED BY <2>2, <2>3 DEF PoolInv
<1>5. CASE AcquireProgress(t, k, q, asleep)
  <2>1. PICK s \in PendingFor(k) : target' = [target EXCEPT ![t] = pending[s]]
    BY <1>5 DEF AcquireProgress
  <2>2. s \in Slots /\ pending[s] # None
    BY DEF PendingFor, Oldest, Lockable
  <2>3. pending[s] \in Handles /\ \A u \in Threads : ~Publishing(u, pending[s])
    BY <1>1, <2>2, PendingSettled
  <2>4. /\ pc' = [pc EXCEPT ![t] = "finish"] /\ role' = [role EXCEPT ![t] = "acquire"]
        /\ want' = [want EXCEPT ![t] = k]
        /\ UNCHANGED <<poolVars, leaseVars, closed, clearing, at>>
    BY <1>5 DEF AcquireProgress
  <2>5. pc'[t] = "finish" /\ role'[t] = "acquire" /\ want'[t] = k
    BY <1>1, <2>4 DEF LeaseInv, Shape
  <2>6. RoleOK(t)'
    BY <2>5 DEF RoleOK, FitsSlot
  <2>7. "finish" \in Quiet /\ "acquire" \in Roles
    BY DEF Quiet, Roles
  <2>8. PICK d \in Handles : d = pending[s]
    BY <2>3
  <2> QED BY <1>2, <2>1, <2>3, <2>4, <2>6, <2>7, <2>8
<1>6. CASE AcquireSleep(t, k, q, asleep)
  <2>1. /\ pc' = [pc EXCEPT ![t] = "acquire"] /\ role' = [role EXCEPT ![t] = "none"]
        /\ target' = [target EXCEPT ![t] = None] /\ want' = [want EXCEPT ![t] = k]
        /\ UNCHANGED <<poolVars, leaseVars, closed, clearing, at>>
    BY <1>6 DEF AcquireSleep
  <2>2. pc'[t] = "acquire" /\ role'[t] = "none" /\ want'[t] = k
    BY <1>1, <2>1 DEF LeaseInv, Shape
  <2>3. RoleOK(t)'
    BY <2>2 DEF RoleOK, FitsSlot
  <2>4. "acquire" \in Quiet /\ "none" \in Roles /\ None \in Handles \cup {None}
    BY DEF Quiet, Roles
  <2> QED BY <1>1, <1>2, <2>1, <2>3, <2>4, NonePublished
<1>7. QED
  BY <1>3, <1>4, <1>5, <1>6 DEF AcquireLoop

\* A new call, a wakeup, the end of a finished submission, or of a poll.
LEMMA AdmissionsKeep ==
  ASSUME PoolInv, NEW t \in Threads,
         Call(t) \/ Acquire(t) \/ AcquireResume(t) \/ PollAgain(t)
  PROVE  PoolInv'
<1>1. LeaseInv /\ RoleOK(t)
  BY DEF PoolInv, LeaseInv
<1>2. CASE Call(t)
  <2>1. PICK k \in Keys : /\ \E s \in Slots : FitsSlot(k, s)
                          /\ AcquireLoop(t, k, Append(queue, t), {})
    BY <1>2 DEF Call
  <2>2. pc[t] \in Quiet /\ role[t] # "close"
    BY <1>1, <1>2 DEF Call, RoleOK, Quiet
  <2> QED BY <2>1, <2>2, LoopKeeps
<1>3. ASSUME pc[t] = "acquire" \/ role[t] = "acquire", pc[t] \in Quiet, NEW q, NEW asleep,
             AcquireLoop(t, want[t], q, asleep)
      PROVE  PoolInv'
  <2>1. /\ want[t] \in Keys /\ \E s \in Slots : FitsSlot(want[t], s)
        /\ role[t] # "close"
    BY <1>1, <1>3 DEF RoleOK
  <2>2. PICK k \in Keys : k = want[t]
    BY <2>1
  <2> QED BY <1>3, <2>1, <2>2, LoopKeeps
<1>4. CASE Acquire(t)
  <2>1. pc[t] = "acquire" /\ AcquireLoop(t, want[t], queue, sleeping)
    BY <1>4 DEF Acquire
  <2> QED BY <1>3, <2>1 DEF Quiet
<1>5. ASSUME pc[t] \in Quiet, NEW q, AcquireError(t, q), role[t] = "acquire"
      PROVE  PoolInv'
  <2>1. /\ pc' = [pc EXCEPT ![t] = "idle"] /\ role' = [role EXCEPT ![t] = "none"]
        /\ target' = [target EXCEPT ![t] = None] /\ want' = [want EXCEPT ![t] = None]
        /\ UNCHANGED <<keyOf, active, pending, quarantined, refs, engine, work, closed,
                       clearing, at>>
    BY <1>5 DEF AcquireError, poolVars, leaseVars
  <2>2. pc'[t] = "idle" /\ role'[t] = "none" /\ \A u \in Threads \ {t} : role'[u] = role[u]
    BY <1>1, <2>1 DEF LeaseInv, Shape
  <2>3. RoleOK(t)'
    BY <2>2 DEF RoleOK
  <2>4. /\ keyOf' \in [Slots -> Keys \cup {None}]
        /\ closed' \in BOOLEAN /\ clearing' \in BOOLEAN /\ quarantined' \in BOOLEAN
    BY <1>1, <2>1 DEF LeaseInv, Shape
  <2>5. LeaseInv'
    BY <1>1, <1>5, <2>1, <2>3, <2>4, NonePublished, Walks DEF Quiet, Roles
  <2>6. CloseDrains'
    BY <1>5, <2>1, <2>2, StaysDrained DEF PoolInv, Busy
  <2> QED BY <2>1, <2>5, <2>6, RestStays
<1>6. CASE AcquireResume(t)
  <2>1. pc[t] \in Quiet /\ role[t] = "acquire"
    BY <1>6 DEF AcquireResume, Quiet
  <2>2. AcquireError(t, queue) \/ AcquireLoop(t, want[t], queue, sleeping)
    BY <1>6 DEF AcquireResume
  <2> QED BY <1>3, <1>5, <2>1, <2>2
<1>7. CASE PollAgain(t)
  <2>1. pc[t] \in Quiet /\ role[t] = "acquire"
    BY <1>1, <1>7 DEF PollAgain, Quiet, RoleOK
  <2>2. CASE AcquireLoop(t, want[t], queue, sleeping)
    BY <1>3, <2>1, <2>2
  <2>3. CASE UNCHANGED <<poolVars, leaseVars, queueVars, sleeping, threadVars>>
    <3>1. LeaseInv'
      BY <1>1, <2>3, LeaseStutters DEF poolVars, leaseVars, queueVars, threadVars
    <3>2. CloseDrains'
      BY <2>3, StaysDrained DEF PoolInv, Busy, poolVars, leaseVars, queueVars, threadVars
    <3> QED BY <2>3, <3>1, <3>2, RestStays DEF poolVars, leaseVars
  <2> QED BY <1>7, <2>2, <2>3 DEF PollAgain
<1>8. QED
  BY <1>2, <1>4, <1>6, <1>7

(***************************************************************************)
(* The leased engine                                                       *)
(***************************************************************************)
\* A call ends: its thread was the only owner and now has to release.
LEMMA ExecuteKeeps ==
  ASSUME PoolInv, NEW t \in Threads, Execute(t)
  PROVE  PoolInv'
<1>1. LeaseInv
  BY DEF PoolInv
<1>2. PICK outcome \in Outcomes :
        engine' = [engine EXCEPT ![at[t]] =
                     IF outcome = "unknown" THEN "quarantined" ELSE @]
  BY DEF Execute
<1>3. /\ pc[t] = "run" /\ refs' = [refs EXCEPT ![at[t]] = {}]
      /\ pc' = [pc EXCEPT ![t] = "release"]
      /\ UNCHANGED <<poolVars, work, closed, clearing, role, want, at, target>>
  BY DEF Execute, queueVars
<1>4. PICK s \in Slots : s = at[t]
  BY <1>1, <1>3 DEF LeaseInv, ThreadOK, Holds
<1>5. refs[s] = {t} /\ active[s]
  BY <1>1, <1>3, <1>4 DEF LeaseInv, ThreadOK, SlotOK
<1>6. /\ pc'[t] = "release" /\ \A u \in Threads \ {t} : pc'[u] = pc[u]
      /\ refs'[s] = {} /\ \A x \in Slots \ {s} : refs'[x] = refs[x] /\ engine'[x] = engine[x]
      /\ engine[s] = "quarantined" => engine'[s] = "quarantined"
  BY <1>1, <1>2, <1>3, <1>4 DEF LeaseInv, Shape
<1>7. Shape'
  <2>1. /\ pc' \in [Threads -> PCs]
        /\ refs' \in [Slots -> SUBSET (Threads \cup Handles)]
        /\ engine' \in [Slots -> {"open", "quarantined"}]
    BY <1>1, <1>2, <1>3, <1>4 DEF LeaseInv, Shape, PCs
  <2> QED BY <1>1, <1>3, <2>1 DEF LeaseInv, Shape, poolVars
<1>8. \A u \in Threads \ {t} : ~Releasing(u, s)
  BY <1>1, <1>5 DEF LeaseInv, ThreadOK, Releasing
<1>9. ASSUME NEW u \in Threads, u # t PROVE RoleOK(u)' /\ ThreadOK(u)'
  <2>1. RoleOK(u)'
    BY <1>1, <1>3, <1>6, <1>9 DEF LeaseInv, RoleOK, FitsSlot
  <2>2. Holds(u) => at[u] \in Slots /\ at[u] # s
    BY <1>1, <1>5, <1>9 DEF LeaseInv, ThreadOK
  <2>3. pc[u] = "release" => at[u] \in Slots /\ at[u] # s
    BY <1>1, <1>8, <1>9 DEF LeaseInv, ThreadOK, Releasing
  <2> QED BY <1>1, <1>3, <1>4, <1>6, <1>9, <2>1, <2>2, <2>3
      DEF LeaseInv, ThreadOK, Holds, Releasing, poolVars
<1>10. RoleOK(t)' /\ ThreadOK(t)'
  <2>1. RoleOK(t)'
    BY <1>1, <1>3, <1>6 DEF LeaseInv, RoleOK
  <2>2. \A u \in Threads \ {t} : ~Releasing(u, s)'
    BY <1>3, <1>6, <1>8 DEF Releasing
  <2> QED BY <1>3, <1>4, <1>5, <1>6, <2>1, <2>2 DEF ThreadOK, Holds, poolVars
<1>11. ASSUME NEW x \in Slots PROVE SlotOK(x)'
  <2>1. CASE x = s
    <3>1. Releasing(t, s)'
      BY <1>3, <1>4, <1>6 DEF Releasing
    <3> QED BY <1>1, <1>3, <1>5, <1>6, <2>1, <3>1 DEF LeaseInv, SlotOK, poolVars
  <2>2. CASE x # s
    <3>1. t \notin refs[x]
      BY <1>1, <1>4, <2>2 DEF LeaseInv, SlotOK
    <3>2. \A u \in Threads : Releasing(u, x)' <=> Releasing(u, x)
      BY <1>3, <1>4, <1>6, <2>2 DEF Releasing
    <3> QED BY <1>1, <1>3, <1>6, <2>2, <3>1, <3>2 DEF LeaseInv, SlotOK, Holds, poolVars
  <2> QED BY <2>1, <2>2
<1>12. ASSUME NEW c \in Handles PROVE HandleOK(c)'
  <2>1. \A u \in Threads : Publishing(u, c) => Publishing(u, c)'
    BY <1>3, <1>6 DEF Publishing
  <2>2. c \notin refs[s] /\ work[c].slot \in Slots
    BY <1>1, <1>5, PoolConstants DEF LeaseInv, Shape
  <2> QED BY <1>1, <1>3, <1>6, <2>1, <2>2 DEF LeaseInv, HandleOK
<1>13. Fitting' /\ DeviceCaps'
  BY <1>3 DEF PoolInv, Fitting, FitsSlot, DeviceCaps, Resident, poolVars
<1>14. Disabled'
  BY <1>3, <1>5, <1>6 DEF PoolInv, Disabled, poolVars
<1>15. CloseDrains'
  BY <1>3, <1>5, StaysDrained DEF PoolInv, Busy, poolVars
<1>16. QED
  BY <1>7, <1>9, <1>10, <1>11, <1>12, <1>13, <1>14, <1>15 DEF PoolInv, LeaseInv

\* A submission gets a Completion that nobody knows yet.
LEMMA LaunchKeeps ==
  ASSUME PoolInv, NEW t \in Threads, Launch(t)
  PROVE  PoolInv'
<1>1. LeaseInv
  BY DEF PoolInv
<1>2. PICK c \in Handles :
        /\ Unreferenced(c)
        /\ work' = [work EXCEPT ![c] = [state |-> "launched", slot |-> at[t]]]
        /\ target' = [target EXCEPT ![t] = c]
  BY DEF Launch
<1>3. /\ pc[t] = "run" /\ pc' = [pc EXCEPT ![t] = "publish"]
      /\ UNCHANGED <<poolVars, refs, engine, closed, clearing, role, want, at>>
  BY DEF Launch, queueVars
<1>4. PICK s \in Slots : s = at[t]
  BY <1>1, <1>3 DEF LeaseInv, ThreadOK, Holds
<1>5. refs[s] = {t} /\ active[s] /\ engine[s] = "open"
  BY <1>1, <1>3, <1>4 DEF LeaseInv, ThreadOK, SlotOK
<1>6. /\ pc'[t] = "publish" /\ target'[t] = c
      /\ \A u \in Threads \ {t} : pc'[u] = pc[u] /\ target'[u] = target[u]
      /\ work'[c] = [state |-> "launched", slot |-> s]
      /\ \A d \in Handles \ {c} : work'[d] = work[d]
  BY <1>1, <1>2, <1>3, <1>4 DEF LeaseInv, Shape
<1>7. (\A u \in Threads : target[u] # c) /\ \A x \in Slots : pending[x] # c
  BY <1>2 DEF Unreferenced
<1>8. Shape'
  <2>1. /\ pc' \in [Threads -> PCs] /\ target' \in [Threads -> Handles \cup {None}]
    BY <1>1, <1>2, <1>3 DEF LeaseInv, Shape, PCs
  <2>2. work' \in [Handles -> [state : Outcomes \cup {"launched"}, slot : Slots]]
    BY <1>1, <1>2, <1>4 DEF LeaseInv, Shape
  <2> QED BY <1>1, <1>3, <2>1, <2>2 DEF LeaseInv, Shape, poolVars
<1>9. ASSUME NEW u \in Threads, u # t PROVE RoleOK(u)' /\ ThreadOK(u)'
  <2>1. RoleOK(u)'
    BY <1>1, <1>3, <1>6, <1>9 DEF LeaseInv, RoleOK, FitsSlot
  <2>2. \A x \in Slots, v \in Threads : Releasing(v, x)' <=> Releasing(v, x)
    BY <1>3, <1>6 DEF Releasing
  <2> QED BY <1>1, <1>3, <1>6, <1>7, <1>9, <2>1, <2>2
      DEF LeaseInv, ThreadOK, Holds, poolVars
<1>10. RoleOK(t)' /\ ThreadOK(t)'
  <2>1. RoleOK(t)'
    BY <1>1, <1>3, <1>6 DEF LeaseInv, RoleOK
  <2> QED BY <1>3, <1>4, <1>5, <1>6, <1>7, <2>1 DEF ThreadOK, Holds, poolVars
<1>11. ASSUME NEW x \in Slots PROVE SlotOK(x)'
  <2>1. \A v \in Threads : Releasing(v, x)' <=> Releasing(v, x)
    BY <1>3, <1>6 DEF Releasing
  <2>2. \A v \in Threads : Holds(v)' <=> Holds(v)
    BY <1>3, <1>6 DEF Holds
  <2>3. pending[x] # None => work'[pending[x]] = work[pending[x]]
    BY <1>1, <1>6, <1>7 DEF LeaseInv, Shape
  <2> QED BY <1>1, <1>3, <2>1, <2>2, <2>3 DEF LeaseInv, SlotOK, poolVars
<1>12. ASSUME NEW d \in Handles PROVE HandleOK(d)'
  <2>1. CASE d = c
    BY <1>6, <2>1 DEF HandleOK, Publishing
  <2>2. CASE d # c
    <3>1. \A u \in Threads : Publishing(u, d) => Publishing(u, d)'
      BY <1>3, <1>6 DEF Publishing
    <3> QED BY <1>1, <1>3, <1>6, <2>2, <3>1 DEF LeaseInv, HandleOK
  <2> QED BY <2>1, <2>2
<1>13. LeaseInv'
  BY <1>8, <1>9, <1>10, <1>11, <1>12 DEF LeaseInv
<1>14. CloseDrains'
  BY <1>3, <1>5, StaysDrained DEF PoolInv, Busy, poolVars
<1>15. QED
  BY <1>3, <1>13, <1>14, RestStays DEF poolVars

\* Pool::submitted(): the Completion becomes an owner of the lease.
LEMMA SubmittedKeeps ==
  ASSUME PoolInv, NEW t \in Threads, Submitted(t)
  PROVE  PoolInv'
<1>1. LeaseInv
  BY DEF PoolInv
<1>2. /\ pc[t] = "publish" /\ pc' = [pc EXCEPT ![t] = "return"]
      /\ pending' = [pending EXCEPT ![at[t]] = target[t]]
      /\ refs' = [refs EXCEPT ![at[t]] = @ \cup {target[t]}]
      /\ target' = [target EXCEPT ![t] = None]
      /\ UNCHANGED <<keyOf, active, quarantined, engine, work, closed, clearing, role, want, at>>
  BY DEF Submitted, queueVars
<1>3. PICK s \in Slots : s = at[t]
  BY <1>1, <1>2 DEF LeaseInv, ThreadOK, Holds
<1>4. PICK c \in Handles : c = target[t]
  BY <1>1, <1>2 DEF LeaseInv, ThreadOK
<1>5. /\ refs[s] = {t} /\ work[c] = [state |-> "launched", slot |-> s]
      /\ (\A u \in Threads \ {t} : target[u] # c) /\ \A x \in Slots : pending[x] # c
  BY <1>1, <1>2, <1>3, <1>4 DEF LeaseInv, ThreadOK
<1>6. /\ pc'[t] = "return" /\ target'[t] = None
      /\ \A u \in Threads \ {t} : pc'[u] = pc[u] /\ target'[u] = target[u]
      /\ pending'[s] = c /\ refs'[s] = {t, c}
      /\ \A x \in Slots \ {s} : pending'[x] = pending[x] /\ refs'[x] = refs[x]
  BY <1>1, <1>2, <1>3, <1>4, <1>5 DEF LeaseInv, Shape
<1>7. c # None /\ c \notin Threads /\ None \notin Handles /\ Threads \cap Handles = {}
  BY PoolConstants
<1>8. active[s]
  BY <1>1, <1>5 DEF LeaseInv, SlotOK
<1>9. Shape'
  <2>1. /\ pc' \in [Threads -> PCs] /\ target' \in [Threads -> Handles \cup {None}]
        /\ pending' \in [Slots -> Handles \cup {None}]
        /\ refs' \in [Slots -> SUBSET (Threads \cup Handles)]
    BY <1>1, <1>2, <1>3, <1>4 DEF LeaseInv, Shape, PCs
  <2> QED BY <1>1, <1>2, <2>1 DEF LeaseInv, Shape
<1>10. \A x \in Slots, v \in Threads : Releasing(v, x)' <=> Releasing(v, x)
  BY <1>2, <1>6 DEF Releasing
<1>11. ASSUME NEW u \in Threads, u # t PROVE RoleOK(u)' /\ ThreadOK(u)'
  <2>1. RoleOK(u)'
    BY <1>1, <1>2, <1>6, <1>11 DEF LeaseInv, RoleOK, FitsSlot
  <2>2. Holds(u) => at[u] \in Slots /\ at[u] # s
    BY <1>1, <1>5, <1>11 DEF LeaseInv, ThreadOK
  <2>3. pc[u] = "release" => at[u] \in Slots /\ at[u] # s
    BY <1>1, <1>5 DEF LeaseInv, ThreadOK
  <2>4. pc[u] = "publish" => target[u] # None /\ target[u] # c
    <3>1. pc[u] = "publish" => target[u] \in Handles
      BY <1>1 DEF LeaseInv, ThreadOK
    <3> QED BY <1>5, <1>7, <1>11, <3>1
  <2> QED BY <1>1, <1>2, <1>6, <1>10, <1>11, <2>1, <2>2, <2>3, <2>4
      DEF LeaseInv, ThreadOK, Holds
<1>12. RoleOK(t)' /\ ThreadOK(t)'
  <2>1. RoleOK(t)'
    BY <1>1, <1>2, <1>6 DEF LeaseInv, RoleOK
  <2> QED BY <1>2, <1>3, <1>6, <2>1 DEF ThreadOK, Holds
<1>13. ASSUME NEW x \in Slots PROVE SlotOK(x)'
  <2>1. \A v \in Threads : Holds(v)' <=> Holds(v)
    BY <1>2, <1>6 DEF Holds
  <2>2. CASE x = s
    <3>1. \A v \in Threads : v \in refs'[s] => v = t
      BY <1>6, <1>7
    <3>2. \A d \in Handles : d \in refs'[s] => d = c
      BY <1>6, <1>7
    <3>3. Holds(t)
      BY <1>2 DEF Holds
    <3> QED BY <1>2, <1>3, <1>5, <1>6, <1>8, <2>1, <2>2, <3>1, <3>2, <3>3 DEF SlotOK
  <2>3. CASE x # s
    BY <1>1, <1>2, <1>6, <1>10, <2>1, <2>3 DEF LeaseInv, SlotOK
  <2> QED BY <2>2, <2>3
<1>14. ASSUME NEW d \in Handles PROVE HandleOK(d)'
  <2>1. CASE d = c
    BY <1>2, <1>5, <1>6, <2>1 DEF HandleOK
  <2>2. CASE d # c
    <3>1. \A u \in Threads : Publishing(u, d) => Publishing(u, d)'
      BY <1>4, <1>6, <2>2 DEF Publishing
    <3>2. work[d].slot \in Slots
      BY <1>1 DEF LeaseInv, Shape
    <3>3. d \in refs[work[d].slot] => d \in refs'[work[d].slot]
      BY <1>5, <1>6, <3>2
    <3> QED BY <1>1, <1>2, <3>1, <3>3 DEF LeaseInv, HandleOK
  <2> QED BY <2>1, <2>2
<1>15. LeaseInv'
  BY <1>9, <1>11, <1>12, <1>13, <1>14 DEF LeaseInv
<1>16. CloseDrains'
  BY <1>2, <1>8, StaysDrained DEF PoolInv, Busy
<1>17. QED
  BY <1>2, <1>15, <1>16, RestStays

\* submit() returns: its own reference goes, and if the Completion's is gone
\* already, this thread releases the slot.
LEMMA ReturnKeeps ==
  ASSUME PoolInv, NEW t \in Threads, Return(t)
  PROVE  PoolInv'
<1>1. LeaseInv
  BY DEF PoolInv
<1>2. /\ pc[t] = "return" /\ refs' = [refs EXCEPT ![at[t]] = @ \ {t}]
      /\ UNCHANGED <<poolVars, engine, work, closed, clearing, role, target>>
      /\ IF refs'[at[t]] = {}
         THEN pc' = [pc EXCEPT ![t] = "release"] /\ UNCHANGED <<at, want>>
         ELSE /\ pc' = [pc EXCEPT ![t] = "idle"]
              /\ at' = [at EXCEPT ![t] = None]
              /\ want' = [want EXCEPT ![t] = None]
  BY DEF Return, queueVars
<1>3. PICK s \in Slots : s = at[t]
  BY <1>1, <1>2 DEF LeaseInv, ThreadOK, Holds
<1>4. t \in refs[s] /\ active[s]
  BY <1>1, <1>2, <1>3 DEF LeaseInv, ThreadOK, SlotOK, Holds
<1>5. /\ refs'[s] = refs[s] \ {t} /\ \A x \in Slots \ {s} : refs'[x] = refs[x]
  BY <1>1, <1>2, <1>3 DEF LeaseInv, Shape
<1>6. /\ refs'[s] = {} => pc'[t] = "release" /\ at'[t] = s
      /\ refs'[s] # {} => pc'[t] = "idle"
      /\ \A u \in Threads \ {t} : pc'[u] = pc[u] /\ at'[u] = at[u] /\ want'[u] = want[u]
  BY <1>1, <1>2, <1>3 DEF LeaseInv, Shape
<1>7. \A u \in Threads : ~Releasing(u, s)
  BY <1>1, <1>2, <1>3, <1>4 DEF LeaseInv, ThreadOK, Releasing
<1>8. Shape'
  <2>1. /\ pc' \in [Threads -> PCs] /\ at' \in [Threads -> Slots \cup {None}]
        /\ want' \in [Threads -> Keys \cup {None}]
    BY <1>1, <1>2 DEF LeaseInv, Shape, PCs
  <2>2. refs' \in [Slots -> SUBSET (Threads \cup Handles)]
    BY <1>1, <1>2, <1>3 DEF LeaseInv, Shape
  <2> QED BY <1>1, <1>2, <2>1, <2>2 DEF LeaseInv, Shape, poolVars
<1>9. \A x \in Slots, u \in Threads :
        Releasing(u, x)' <=> Releasing(u, x) \/ (u = t /\ x = s /\ refs'[s] = {})
  <2> SUFFICES ASSUME NEW x \in Slots, NEW u \in Threads
               PROVE Releasing(u, x)' <=> Releasing(u, x) \/ (u = t /\ x = s /\ refs'[s] = {})
    OBVIOUS
  <2>1. CASE u # t
    BY <1>6, <2>1 DEF Releasing
  <2>2. CASE u = t
    BY <1>2, <1>6, <2>2 DEF Releasing
  <2> QED BY <2>1, <2>2
<1>10. ASSUME NEW u \in Threads, u # t PROVE RoleOK(u)' /\ ThreadOK(u)'
  <2>1. RoleOK(u)'
    BY <1>1, <1>2, <1>6, <1>10 DEF LeaseInv, RoleOK, FitsSlot
  <2>2. u \in refs[s] => u \in refs'[s]
    BY <1>5, <1>10
  <2>3. pc[u] \in {"run", "publish"} => at[u] # s
    <3>1. pc[u] \in {"run", "publish"} => refs[at[u]] = {u}
      BY <1>1 DEF LeaseInv, ThreadOK
    <3> QED BY <1>4, <1>10, <3>1
  <2>4. pc[u] = "release" => at[u] \in Slots /\ at[u] # s
    BY <1>1, <1>7 DEF LeaseInv, ThreadOK, Releasing
  <2> QED BY <1>1, <1>2, <1>5, <1>6, <1>9, <1>10, <2>1, <2>2, <2>3, <2>4
      DEF LeaseInv, ThreadOK, Holds, poolVars
<1>11. RoleOK(t)' /\ ThreadOK(t)'
  <2>1. RoleOK(t)'
    BY <1>1, <1>2, <1>6 DEF LeaseInv, RoleOK
  <2>2. \A u \in Threads \ {t} : ~Releasing(u, s)'
    BY <1>7, <1>9
  <2>3. pc'[t] \in {"release", "idle"} /\ (pc'[t] = "release" => refs'[s] = {} /\ at'[t] = s)
    BY <1>6
  <2> QED BY <1>2, <1>4, <2>1, <2>2, <2>3 DEF ThreadOK, Holds, poolVars
<1>12. ASSUME NEW x \in Slots PROVE SlotOK(x)'
  <2>1. CASE x = s
    BY <1>1, <1>2, <1>4, <1>5, <1>6, <1>9, <2>1 DEF LeaseInv, SlotOK, Holds, poolVars
  <2>2. CASE x # s
    <3>1. t \notin refs[x]
      BY <1>1, <1>3, <2>2 DEF LeaseInv, SlotOK
    <3> QED BY <1>1, <1>2, <1>5, <1>6, <1>9, <2>2, <3>1 DEF LeaseInv, SlotOK, Holds, poolVars
  <2> QED BY <2>1, <2>2
<1>13. ASSUME NEW c \in Handles PROVE HandleOK(c)'
  <2>1. \A u \in Threads : Publishing(u, c) => Publishing(u, c)'
    BY <1>2, <1>6 DEF Publishing
  <2>2. work[c].slot \in Slots /\ c # t
    BY <1>1, PoolConstants DEF LeaseInv, Shape
  <2>3. c \in refs[work[c].slot] => c \in refs'[work[c].slot]
    BY <1>5, <2>2
  <2> QED BY <1>1, <1>2, <2>1, <2>3 DEF LeaseInv, HandleOK
<1>14. LeaseInv'
  BY <1>8, <1>10, <1>11, <1>12, <1>13 DEF LeaseInv
<1>15. CloseDrains'
  BY <1>2, <1>4, StaysDrained DEF PoolInv, Busy, poolVars
<1>16. QED
  BY <1>2, <1>14, <1>15, RestStays DEF poolVars

(***************************************************************************)
(* Completions                                                             *)
(***************************************************************************)
\* wait(): the submission ends, its lease goes with it, and the thread that
\* dropped the last reference has to release the slot.
LEMMA FinishKeeps ==
  ASSUME PoolInv, NEW t \in Threads, Finish(t)
  PROVE  PoolInv'
<1>1. LeaseInv
  BY DEF PoolInv
<1>2. pc[t] = "finish" /\ target[t] \in Handles
  BY <1>1 DEF Finish, LeaseInv, ThreadOK
<1>3. PICK c \in Handles : c = target[t]
  BY <1>2
<1>4. PICK s \in Slots : s = work[c].slot
  BY <1>1 DEF LeaseInv, Shape
<1> DEFINE isLast == refs[s] = {c}
           over == role[t] \in {"handle", "destroy"}
<1>5. PICK outcome \in Outcomes :
        /\ work[c].state # "launched" => outcome = work[c].state
        /\ work' = [work EXCEPT ![c].state = outcome]
        /\ engine' = [engine EXCEPT ![s] =
                        IF outcome = "unknown" THEN "quarantined" ELSE @]
  BY <1>3, <1>4 DEF Finish
<1>6. /\ refs' = [refs EXCEPT ![s] = @ \ {c}]
      /\ at' = [at EXCEPT ![t] = IF isLast THEN s ELSE None]
      /\ pc' = [pc EXCEPT ![t] = IF isLast THEN "release" ELSE Back(role[t])]
      /\ target' = [target EXCEPT ![t] = IF over THEN None ELSE @]
      /\ role' = [role EXCEPT ![t] = IF over THEN "none" ELSE @]
      /\ UNCHANGED <<poolVars, closed, clearing, want>>
  BY <1>3, <1>4 DEF Finish, queueVars
<1> DEFINE p == IF isLast THEN "release" ELSE Back(role[t])
           a == IF isLast THEN s ELSE None
           g == IF over THEN None ELSE c
           r == IF over THEN "none" ELSE role[t]
<1>7. p \in PCs /\ a \in Slots \cup {None} /\ g \in Handles \cup {None} /\ r \in Roles
  BY <1>1 DEF Back, PCs, LeaseInv, Shape, Roles
<1>8. /\ pc'[t] = p /\ at'[t] = a /\ target'[t] = g /\ role'[t] = r
      /\ \A u \in Threads \ {t} : /\ pc'[u] = pc[u] /\ role'[u] = role[u] /\ at'[u] = at[u]
                                  /\ target'[u] = target[u]
  BY <1>1, <1>3, <1>6 DEF LeaseInv, Shape
<1>9. /\ refs'[s] = refs[s] \ {c} /\ \A x \in Slots \ {s} : refs'[x] = refs[x]
      /\ work'[c].state = outcome /\ work'[c].slot = s
      /\ \A d \in Handles \ {c} : work'[d] = work[d]
      /\ \A x \in Slots \ {s} : engine'[x] = engine[x]
      /\ engine'[s] = (IF outcome = "unknown" THEN "quarantined" ELSE engine[s])
  BY <1>1, <1>4, <1>5, <1>6 DEF LeaseInv, Shape
<1>10. /\ p \in {"release", "idle", "resume"} /\ (p = "release" => isLast) /\ (isLast => p = "release")
  BY DEF Back
<1>11. Shape'
  <2>1. /\ pc' \in [Threads -> PCs] /\ at' \in [Threads -> Slots \cup {None}]
        /\ target' \in [Threads -> Handles \cup {None}] /\ role' \in [Threads -> Roles]
    <3> HIDE DEF p, a, g, r
    <3>1. /\ pc' = [pc EXCEPT ![t] = p] /\ at' = [at EXCEPT ![t] = a]
          /\ target' = [target EXCEPT ![t] = g] /\ role' = [role EXCEPT ![t] = r]
      BY <1>1, <1>3, <1>6 DEF p, a, g, r, LeaseInv, Shape
    <3> QED BY <1>1, <1>7, <3>1 DEF LeaseInv, Shape
  <2>2. /\ refs' \in [Slots -> SUBSET (Threads \cup Handles)]
        /\ engine' \in [Slots -> {"open", "quarantined"}]
    BY <1>1, <1>5, <1>6 DEF LeaseInv, Shape
  <2>3. work' \in [Handles -> [state : Outcomes \cup {"launched"}, slot : Slots]]
    BY <1>1, <1>5 DEF LeaseInv, Shape
  <2> QED BY <1>1, <1>6, <2>1, <2>2, <2>3 DEF LeaseInv, Shape, poolVars
<1>12. \A x \in Slots, u \in Threads :
         Releasing(u, x)' <=> Releasing(u, x) \/ (u = t /\ x = s /\ isLast)
  <2> SUFFICES ASSUME NEW x \in Slots, NEW u \in Threads
               PROVE Releasing(u, x)' <=> Releasing(u, x) \/ (u = t /\ x = s /\ isLast)
    OBVIOUS
  <2>1. CASE u # t
    BY <1>8, <2>1 DEF Releasing
  <2>2. CASE u = t
    <3>1. ~Releasing(t, x)
      BY <1>2 DEF Releasing
    <3>2. CASE isLast
      BY <1>8, <2>2, <3>1, <3>2 DEF Releasing
    <3>3. CASE ~isLast
      BY <1>8, <1>10, <2>2, <3>1, <3>3 DEF Releasing
    <3> QED BY <3>2, <3>3
  <2> QED BY <2>1, <2>2
<1>13. isLast => active[s] /\ \A u \in Threads : ~Releasing(u, s)
  <2>1. isLast => active[s]
    BY <1>1, <1>4 DEF LeaseInv, SlotOK
  <2>2. \A u \in Threads : Releasing(u, s) => refs[s] = {}
    BY <1>1 DEF LeaseInv, ThreadOK, Releasing
  <2> QED BY <2>1, <2>2
<1>14. \A u \in Threads : ~Publishing(u, c)
  BY <1>1, <1>2, <1>3 DEF LeaseInv, ThreadOK, Publishing
<1>15. work[c].state = "launched" => c \in refs[s]
  BY <1>1, <1>4, <1>14 DEF LeaseInv, HandleOK
<1>16. /\ outcome = "unknown" => engine[s] = "quarantined" \/ c \in refs[s]
       /\ engine[s] = "quarantined" => engine'[s] = "quarantined"
  BY <1>1, <1>4, <1>5, <1>9, <1>15 DEF LeaseInv, HandleOK
<1> HIDE DEF p, a, g, r
<1>17. ASSUME NEW u \in Threads, u # t PROVE RoleOK(u)' /\ ThreadOK(u)'
  <2>1. RoleOK(u)'
    BY <1>1, <1>6, <1>8, <1>17 DEF LeaseInv, RoleOK, FitsSlot
  <2>2. u \in refs[s] => u \in refs'[s]
    BY <1>9, PoolConstants
  <2>3. pc[u] \in {"run", "publish"} => /\ refs'[at[u]] = {u}
                                        /\ engine'[at[u]] = "open"
    <3> SUFFICES ASSUME pc[u] \in {"run", "publish"}
                 PROVE  refs'[at[u]] = {u} /\ engine'[at[u]] = "open"
      OBVIOUS
    <3>1. at[u] \in Slots /\ refs[at[u]] = {u} /\ engine[at[u]] = "open"
      BY <1>1 DEF LeaseInv, ThreadOK, Holds
    <3>2. c # u
      BY PoolConstants
    <3>3. at[u] = s => outcome # "unknown"
      BY <1>16, <3>1, <3>2
    <3> QED BY <1>9, <3>1, <3>2, <3>3
  <2>4. pc[u] = "publish" =>
          /\ target[u] \in Handles /\ target[u] # c /\ target[u] # None
          /\ work'[target[u]] = [state |-> "launched", slot |-> at[u]]
          /\ \A v \in Threads \ {u} : target'[v] # target[u]
    <3> SUFFICES ASSUME pc[u] = "publish"
                 PROVE  /\ target[u] \in Handles /\ target[u] # c /\ target[u] # None
                        /\ work'[target[u]] = [state |-> "launched", slot |-> at[u]]
                        /\ \A v \in Threads \ {u} : target'[v] # target[u]
      OBVIOUS
    <3>1. /\ target[u] \in Handles /\ work[target[u]] = [state |-> "launched", slot |-> at[u]]
          /\ \A v \in Threads \ {u} : target[v] # target[u]
      BY <1>1 DEF LeaseInv, ThreadOK
    <3>2. target[u] # c /\ target[u] # None
      BY <1>14, <3>1, PoolConstants DEF Publishing
    <3>3. target'[t] # target[u]
      BY <1>8, <3>2 DEF g
    <3> QED BY <1>8, <1>9, <3>1, <3>2, <3>3
  <2>5. pc[u] = "release" => /\ at[u] \in Slots /\ active[at[u]] /\ refs'[at[u]] = {}
                             /\ \A v \in Threads \ {u} : ~Releasing(v, at[u])'
    <3> SUFFICES ASSUME pc[u] = "release"
                 PROVE  /\ at[u] \in Slots /\ active[at[u]] /\ refs'[at[u]] = {}
                        /\ \A v \in Threads \ {u} : ~Releasing(v, at[u])'
      OBVIOUS
    <3>1. /\ at[u] \in Slots /\ active[at[u]] /\ refs[at[u]] = {}
          /\ \A v \in Threads \ {u} : ~Releasing(v, at[u])
      BY <1>1 DEF LeaseInv, ThreadOK
    <3>2. refs'[at[u]] = {}
      BY <1>9, <3>1
    <3>3. PICK x \in Slots : x = at[u] /\ x = at'[u]
      BY <1>8, <1>17, <3>1
    <3>4. ~(x = s /\ isLast)
      BY <3>1, <3>3
    <3> HIDE DEF isLast
    <3>5. ASSUME NEW v \in Threads \ {u} PROVE ~Releasing(v, x)'
      BY <1>12, <3>1, <3>3, <3>4
    <3> QED BY <3>1, <3>2, <3>3, <3>5 DEF Releasing
  <2>6. Holds(u) => at[u] \in Slots /\ u \in refs'[at[u]]
    BY <1>1, <1>9, <2>2 DEF LeaseInv, ThreadOK
  <2>7. pc[u] \in {"finish", "poll"} => target[u] \in Handles
    BY <1>1 DEF LeaseInv, ThreadOK
  <2>8. \A x \in Slots : pending' = pending /\ active' = active /\ (pc[u] = "publish" => pending[x] # target[u])
    BY <1>1, <1>6 DEF LeaseInv, ThreadOK, poolVars
  <2>9. pc'[u] = pc[u] /\ at'[u] = at[u] /\ target'[u] = target[u]
    BY <1>8, <1>17
  <2>10. active' = active /\ pending' = pending
    BY <1>6 DEF poolVars
  <2>11. ThreadOK(u)'
    BY <2>3, <2>4, <2>5, <2>6, <2>7, <2>8, <2>9, <2>10 DEF ThreadOK, Holds
  <2> QED BY <2>1, <2>11
<1>18. RoleOK(t)'
  <2>1. RoleOK(t) /\ role[t] # "none" /\ role[t] \in Roles
    BY <1>1, <1>2 DEF LeaseInv, RoleOK, Shape
  <2> QED BY <1>6, <1>8, <2>1 DEF RoleOK, p, r, Back, Roles, FitsSlot
<1>19. ThreadOK(t)'
  <2>1. pc'[t] = "release" => isLast /\ at'[t] = s /\ refs'[s] = {}
    BY <1>8, <1>9, <1>10 DEF a
  <2>2. isLast => \A u \in Threads \ {t} : ~Releasing(u, s)'
    BY <1>12, <1>13
  <2> QED BY <1>6, <1>8, <1>10, <1>13, <2>1, <2>2 DEF ThreadOK, Holds, poolVars
<1>20. ASSUME NEW x \in Slots PROVE SlotOK(x)'
  <2>1. \A u \in Threads : Holds(u)' <=> Holds(u)
    BY <1>2, <1>8, <1>10 DEF Holds
  <2>2. \A u \in Threads : u \in refs'[x] => Holds(u)' /\ at'[u] = x
    <3> SUFFICES ASSUME NEW u \in Threads, u \in refs'[x] PROVE Holds(u)' /\ at'[u] = x
      OBVIOUS
    <3>1. u \in refs[x]
      BY <1>9
    <3>2. Holds(u) /\ at[u] = x
      BY <1>1, <3>1 DEF LeaseInv, SlotOK
    <3>3. u # t
      BY <1>2, <3>2 DEF Holds
    <3> QED BY <1>8, <2>1, <3>2, <3>3
  <2>3. \A d \in Handles : d \in refs'[x] => d \in refs[x]
    BY <1>9
  <2>4. pending[x] # None => work'[pending[x]].slot = work[pending[x]].slot
    BY <1>1, <1>4, <1>9 DEF LeaseInv, Shape
  <2>5. active[x] <=> refs'[x] # {} \/ \E u \in Threads : Releasing(u, x)'
    <3>1. active[x] <=> refs[x] # {} \/ \E u \in Threads : Releasing(u, x)
      BY <1>1 DEF LeaseInv, SlotOK
    <3>2. CASE x = s /\ isLast
      BY <1>12, <1>13, <3>2
    <3>3. CASE x = s /\ ~isLast
      <4>1. refs'[s] = {} <=> refs[s] = {}
        BY <1>9, <3>3
      <4> QED BY <1>12, <3>1, <3>3, <4>1
    <3>4. CASE x # s
      BY <1>9, <1>12, <3>1, <3>4
    <3> QED BY <3>2, <3>3, <3>4
  <2>6. pending' = pending /\ active' = active
    BY <1>6 DEF poolVars
  <2> QED BY <1>1, <2>2, <2>3, <2>4, <2>5, <2>6 DEF LeaseInv, SlotOK
<1>21. ASSUME NEW d \in Handles PROVE HandleOK(d)'
  <2>1. CASE d = c
    BY <1>9, <2>1 DEF HandleOK, Outcomes
  <2>2. CASE d # c
    <3>1. \A u \in Threads : Publishing(u, d) => Publishing(u, d)'
      BY <1>2, <1>8 DEF Publishing
    <3>2. d \in refs[work[d].slot] => d \in refs'[work[d].slot]
      BY <1>1, <1>9, <2>2 DEF LeaseInv, Shape
    <3>3. engine[work[d].slot] = "quarantined" => engine'[work[d].slot] = "quarantined"
      BY <1>1, <1>9, <1>16 DEF LeaseInv, Shape
    <3> QED BY <1>1, <1>9, <2>2, <3>1, <3>2, <3>3 DEF LeaseInv, HandleOK
  <2> QED BY <2>1, <2>2
<1>22. LeaseInv'
  BY <1>11, <1>17, <1>18, <1>19, <1>20, <1>21 DEF LeaseInv
<1>23. Fitting' /\ DeviceCaps'
  BY <1>6 DEF PoolInv, Fitting, FitsSlot, DeviceCaps, Resident, poolVars
<1>24. Disabled'
  <2>1. c \in refs[s] => active[s]
    BY <1>1 DEF LeaseInv, SlotOK
  <2> QED BY <1>6, <1>9, <1>16, <2>1 DEF PoolInv, Disabled, poolVars
<1>25. CloseDrains'
  <2>1. \A u \in Threads : role[u] = "close" => role'[u] = "close"
    BY <1>8 DEF r
  <2>2. \A x \in Slots : engine[x] = "quarantined" => engine'[x] = "quarantined"
    BY <1>9, <1>16
  <2>3. \A d \in Handles : work'[d].state = "launched" => work[d].state = "launched"
    BY <1>9 DEF Outcomes
  <2> QED BY <1>6, <2>1, <2>2, <2>3, StaysDrained DEF PoolInv, Busy, poolVars
<1>26. QED
  BY <1>22, <1>23, <1>24, <1>25 DEF PoolInv

\* A thread without a lease moves and nothing of a lease changes.
LEMMA WalkKeeps ==
  ASSUME PoolInv, NEW t \in Threads, pc[t] \in Quiet,
         NEW p \in Quiet, NEW r \in Roles, NEW c \in Handles \cup {None},
         pc' = [pc EXCEPT ![t] = p], role' = [role EXCEPT ![t] = r],
         target' = [target EXCEPT ![t] = c],
         UNCHANGED <<poolVars, refs, engine, work, closed, clearing, at, want>>,
         RoleOK(t)', p \in {"finish", "poll"} => c \in Handles,
         \A u \in Threads : ~Publishing(u, c), role[t] = "close" => r = "close"
  PROVE  PoolInv'
<1>1. LeaseInv
  BY DEF PoolInv
<1>2. PICK k \in Keys \cup {None} : k = want[t]
  BY <1>1 DEF LeaseInv, Shape
<1>3. want' = [want EXCEPT ![t] = k]
  BY <1>1, <1>2 DEF LeaseInv, Shape
<1>4. /\ UNCHANGED <<active, pending, refs, engine, work, at>>
      /\ keyOf' \in [Slots -> Keys \cup {None}]
      /\ closed' \in BOOLEAN /\ clearing' \in BOOLEAN /\ quarantined' \in BOOLEAN
  BY <1>1 DEF LeaseInv, Shape, poolVars
<1>5. LeaseInv'
  BY <1>1, <1>3, <1>4, Walks
<1>6. \A u \in Threads : role[u] = "close" => role'[u] = "close"
  BY <1>1 DEF LeaseInv, Shape
<1>7. CloseDrains'
  BY <1>6, StaysDrained DEF PoolInv, Busy, poolVars
<1>8. QED
  BY <1>5, <1>7, RestStays DEF poolVars

\* query() before its submission ended: wait a little.
LEMMA PollKeeps ==
  ASSUME PoolInv, NEW t \in Threads, Poll(t)
  PROVE  PoolInv'
<1>1. LeaseInv
  BY DEF PoolInv
<1>2. /\ pc[t] = "finish" /\ role[t] = "acquire" /\ pc' = [pc EXCEPT ![t] = "poll"]
      /\ UNCHANGED <<poolVars, refs, engine, work, closed, clearing, at, want, role, target>>
  BY DEF Poll, leaseVars, queueVars
<1>3. target[t] \in Handles
  BY <1>1, <1>2 DEF LeaseInv, ThreadOK
<1>4. PICK c \in Handles : c = target[t]
  BY <1>3
<1>5. ASSUME NEW u \in Threads PROVE ~Publishing(u, c)
  BY <1>1, <1>2, <1>4 DEF LeaseInv, ThreadOK, Publishing
<1>6. role' = [role EXCEPT ![t] = "acquire"] /\ target' = [target EXCEPT ![t] = c]
  BY <1>1, <1>2, <1>4 DEF LeaseInv, Shape
<1>7. RoleOK(t)'
  BY <1>1, <1>2 DEF LeaseInv, Shape, RoleOK, FitsSlot
<1>8. QED
  BY <1>2, <1>5, <1>6, <1>7, WalkKeeps DEF Quiet, Roles

\* A handle is waited for only after submit() returned it.
LEMMA ReturnedSettled ==
  ASSUME LeaseInv, NEW c \in Handles, Returned(c)
  PROVE  \A u \in Threads : ~Publishing(u, c)
<1> SUFFICES ASSUME NEW u \in Threads, Publishing(u, c) PROVE FALSE
  OBVIOUS
<1>1. work[c] = [state |-> "launched", slot |-> at[u]]
  BY DEF LeaseInv, ThreadOK, Publishing
<1>2. QED
  BY <1>1 DEF Returned, Publishing

\* Callers wait for handles, or drop them.
LEMMA HandlesKeep ==
  ASSUME PoolInv, NEW t \in Threads, WaitHandle(t) \/ DropHandle(t)
  PROVE  PoolInv'
<1>1. LeaseInv /\ RoleOK(t)
  BY DEF PoolInv, LeaseInv
<1>2. /\ pc[t] = "idle" /\ role[t] = "none"
      /\ UNCHANGED <<poolVars, refs, engine, work, closed, clearing, at, want>>
  BY <1>1 DEF WaitHandle, DropHandle, leaseVars, queueVars, RoleOK
<1>3. ASSUME NEW c \in Handles, Returned(c), NEW r \in {"handle", "destroy"},
             pc' = [pc EXCEPT ![t] = "finish"], role' = [role EXCEPT ![t] = r],
             target' = [target EXCEPT ![t] = c]
      PROVE  PoolInv'
  <2>1. pc'[t] = "finish" /\ role'[t] = r
    BY <1>1, <1>3 DEF LeaseInv, Shape
  <2>2. RoleOK(t)'
    BY <2>1 DEF RoleOK
  <2>3. r \in Roles /\ "finish" \in Quiet /\ pc[t] \in Quiet /\ c \in Handles \cup {None}
    BY <1>2 DEF Roles, Quiet
  <2>4. \A u \in Threads : ~Publishing(u, c)
    BY <1>1, <1>3, ReturnedSettled
  <2> QED BY <1>2, <1>3, <2>2, <2>3, <2>4, WalkKeeps
<1>4. CASE UNCHANGED <<pc, role, target>>
  <2>1. LeaseInv'
    BY <1>1, <1>2, <1>4, LeaseStutters DEF poolVars
  <2>2. CloseDrains'
    BY <1>2, <1>4, StaysDrained DEF PoolInv, Busy, poolVars
  <2> QED BY <1>2, <2>1, <2>2, RestStays DEF poolVars
<1>5. CASE WaitHandle(t)
  BY <1>3, <1>5 DEF WaitHandle
<1>6. CASE DropHandle(t)
  BY <1>3, <1>4, <1>6 DEF DropHandle
<1>7. QED
  BY <1>5, <1>6

\* Pool::release(): the slot is free again, or its engine is lost for ever.
LEMMA ReleaseKeeps ==
  ASSUME PoolInv, NEW t \in Threads, Release(t)
  PROVE  PoolInv'
<1>1. LeaseInv
  BY DEF PoolInv
<1>2. /\ pc[t] = "release"
      /\ pending' = [pending EXCEPT ![at[t]] = None]
      /\ active' = [active EXCEPT ![at[t]] = FALSE]
      /\ quarantined' = (quarantined \/ engine[at[t]] = "quarantined")
      /\ at' = [at EXCEPT ![t] = None]
      /\ pc' = [pc EXCEPT ![t] = Back(role[t])]
      /\ want' = [want EXCEPT ![t] = IF role[t] = "acquire" THEN @ ELSE None]
      /\ UNCHANGED <<keyOf, refs, engine, work, closed, clearing, role, target>>
  BY DEF Release, leaseVars, queueVars
<1>3. PICK s \in Slots : s = at[t]
  BY <1>1, <1>2 DEF LeaseInv, ThreadOK
<1>4. /\ active[s] /\ refs[s] = {} /\ \A u \in Threads \ {t} : ~Releasing(u, s)
  BY <1>1, <1>2, <1>3 DEF LeaseInv, ThreadOK
<1> DEFINE p == Back(role[t])
<1>5. p \in {"idle", "resume"} /\ p \in PCs
  BY DEF Back, PCs
<1>6. /\ pc'[t] = p /\ at'[t] = None
      /\ \A u \in Threads \ {t} : pc'[u] = pc[u] /\ at'[u] = at[u] /\ want'[u] = want[u]
      /\ pending'[s] = None /\ active'[s] = FALSE
      /\ \A x \in Slots \ {s} : pending'[x] = pending[x] /\ active'[x] = active[x]
  BY <1>1, <1>2, <1>3 DEF LeaseInv, Shape
<1>7. Shape'
  <2>1. /\ pc' \in [Threads -> PCs] /\ at' \in [Threads -> Slots \cup {None}]
        /\ want' \in [Threads -> Keys \cup {None}]
    BY <1>1, <1>2, <1>5 DEF LeaseInv, Shape
  <2>2. /\ pending' \in [Slots -> Handles \cup {None}] /\ active' \in [Slots -> BOOLEAN]
    BY <1>1, <1>2 DEF LeaseInv, Shape
  <2>3. quarantined' \in BOOLEAN
    BY <1>1, <1>2 DEF LeaseInv, Shape
  <2> QED BY <1>1, <1>2, <2>1, <2>2, <2>3 DEF LeaseInv, Shape
<1> HIDE DEF p
<1>8. \A x \in Slots, u \in Threads : Releasing(u, x)' <=> Releasing(u, x) /\ u # t
  <2> SUFFICES ASSUME NEW x \in Slots, NEW u \in Threads
               PROVE Releasing(u, x)' <=> Releasing(u, x) /\ u # t
    OBVIOUS
  <2> QED BY <1>5, <1>6 DEF Releasing
<1>9. ASSUME NEW u \in Threads, u # t PROVE RoleOK(u)' /\ ThreadOK(u)'
  <2>1. RoleOK(u)'
    BY <1>1, <1>2, <1>6, <1>9 DEF LeaseInv, RoleOK, FitsSlot
  <2>2. pc[u] = "release" => at[u] \in Slots /\ at[u] # s
    BY <1>1, <1>4, <1>9 DEF LeaseInv, ThreadOK, Releasing
  <2>3. pc[u] = "publish" => target[u] \in Handles /\ \A x \in Slots : pending[x] # target[u]
    BY <1>1 DEF LeaseInv, ThreadOK
  <2>4. pc[u] = "publish" => \A x \in Slots : pending'[x] # target[u]
    BY <1>6, <2>3, PoolConstants
  <2>5. ASSUME pc[u] = "release", NEW v \in Threads \ {u} PROVE ~Releasing(v, at[u])'
    <3>1. PICK x \in Slots : x = at[u] /\ x = at'[u]
      BY <1>6, <1>9, <2>2, <2>5
    <3>2. ~Releasing(v, x)
      <4>1. \A w \in Threads \ {u} : ~Releasing(w, at[u])
        BY <1>1, <2>5 DEF LeaseInv, ThreadOK
      <4>2. ~Releasing(v, at[u])
        BY <4>1
      <4> QED BY <3>1, <4>2 DEF Releasing
    <3> QED BY <1>8, <3>1, <3>2 DEF Releasing
  <2>6. ThreadOK(u) /\ refs' = refs /\ work' = work /\ engine' = engine /\ target' = target
    BY <1>1, <1>2 DEF LeaseInv
  <2>7. pc'[u] = pc[u] /\ at'[u] = at[u] /\ (pc[u] = "release" => active'[at[u]] = active[at[u]])
    BY <1>6, <1>9, <2>2
  <2> QED BY <2>1, <2>2, <2>4, <2>5, <2>6, <2>7 DEF ThreadOK, Holds
<1>10. RoleOK(t)'
  <2>1. RoleOK(t)
    BY <1>1 DEF LeaseInv
  <2>2. role[t] = "acquire" => want'[t] = want[t]
    BY <1>1, <1>2 DEF LeaseInv, Shape
  <2>3. role'[t] = role[t] /\ role[t] \in Roles
    BY <1>1, <1>2 DEF LeaseInv, Shape
  <2> QED BY <1>2, <1>6, <2>1, <2>2, <2>3 DEF RoleOK, p, Back, Roles, FitsSlot
<1>11. ThreadOK(t)'
  BY <1>5, <1>6 DEF ThreadOK, Holds
<1>12. ASSUME NEW x \in Slots PROVE SlotOK(x)'
  <2>1. \A u \in Threads : Holds(u)' <=> Holds(u)
    BY <1>2, <1>5, <1>6 DEF Holds
  <2>2. CASE x = s
    BY <1>2, <1>4, <1>6, <1>8, <2>2 DEF SlotOK
  <2>3. CASE x # s
    <3>1. t \notin refs[x] /\ ~Releasing(t, x)
      BY <1>1, <1>2, <1>3, <2>3 DEF LeaseInv, SlotOK, Holds, Releasing
    <3>2. (\E u \in Threads : Releasing(u, x)') <=> \E u \in Threads : Releasing(u, x)
      BY <1>8, <3>1
    <3>3. SlotOK(x) /\ refs' = refs /\ work' = work /\ active'[x] = active[x] /\ pending'[x] = pending[x]
      BY <1>1, <1>2, <1>6, <2>3 DEF LeaseInv
    <3>4. \A u \in Threads : u \in refs[x] => Holds(u)' /\ at'[u] = x
      BY <1>6, <2>1, <3>1, <3>3 DEF SlotOK
    <3> QED BY <3>2, <3>3, <3>4 DEF SlotOK
  <2> QED BY <2>2, <2>3
<1>13. ASSUME NEW c \in Handles PROVE HandleOK(c)'
  <2>1. \A u \in Threads : Publishing(u, c) => Publishing(u, c)'
    BY <1>2, <1>6 DEF Publishing
  <2> QED BY <1>1, <1>2, <2>1 DEF LeaseInv, HandleOK
<1>14. LeaseInv'
  BY <1>7, <1>9, <1>10, <1>11, <1>12, <1>13 DEF LeaseInv
<1>15. Fitting' /\ DeviceCaps'
  BY <1>2 DEF PoolInv, Fitting, FitsSlot, DeviceCaps, Resident
<1>16. Disabled'
  BY <1>2, <1>3, <1>6 DEF PoolInv, Disabled
<1>17. CloseDrains'
  <2>1. Busy # {}
    BY <1>4 DEF Busy
  <2>2. closed => \E u \in Threads : role[u] = "close"
    BY <2>1 DEF PoolInv, CloseDrains
  <2> QED BY <1>2, <2>2 DEF CloseDrains
<1>18. QED
  BY <1>14, <1>15, <1>16, <1>17 DEF PoolInv

\* A set of slots has a first one.
LEMMA FirstExists ==
  ASSUME NEW S, S \subseteq Slots, S # {}
  PROVE  \E y \in S : \A x \in S : y <= x
<1> DEFINE before == {ss \in Nat \X Nat : ss[1] < ss[2]}
<1>1. IsWellFoundedOn(before, Nat)
  BY NatLessThanWellFounded DEF OpToRel
<1>2. S \subseteq Nat
  BY PoolConstants DEF Slots
<1>3. \A x, y \in Nat : x < y => <<x, y>> \in before
  OBVIOUS
<1> HIDE DEF before
<1>4. PICK y \in S : \A x \in S : <<x, y>> \notin before
  BY <1>1, <1>2, WFMin
<1>5. ASSUME NEW x \in S PROVE y <= x
  <2>1. x \in Nat /\ y \in Nat
    BY <1>2
  <2>2. ~(x < y)
    BY <1>3, <1>4, <2>1
  <2> QED BY <2>1, <2>2
<1>6. QED
  BY <1>5

(***************************************************************************)
(* Pool::drain                                                             *)
(***************************************************************************)
\* One iteration of drain(): with nothing active the configurations are
\* forgotten, quarantined engines excepted.
LEMMA DrainLoopKeeps ==
  ASSUME PoolInv, NEW t \in Threads, pc[t] \in Quiet, NEW close \in BOOLEAN,
         role[t] = "close" => close, NEW asleep, DrainLoop(t, close, asleep),
         closed' \in BOOLEAN, (closed' /\ ~closed) => close,
         UNCHANGED <<active, lru, pending, leaseVars, queue, mu, want, at, failed>>
  PROVE  PoolInv'
<1>1. LeaseInv
  BY DEF PoolInv
<1>2. PICK k \in Keys \cup {None} : k = want[t]
  BY <1>1 DEF LeaseInv, Shape
<1>3. want' = [want EXCEPT ![t] = k]
  BY <1>1, <1>2 DEF LeaseInv, Shape
<1>4. UNCHANGED <<active, pending, refs, engine, work, at>>
  BY DEF leaseVars
<1> DEFINE rr == DrainRole(close)
<1>5. rr \in {"clear", "close"} /\ (close => rr = "close") /\ rr \in Roles
  BY DEF DrainRole, Roles
<1> HIDE DEF rr
<1>6. ASSUME NEW c \in Handles \cup {None}, NEW p \in {"finish", "drain"},
             pc' = [pc EXCEPT ![t] = p], role' = [role EXCEPT ![t] = rr],
             target' = [target EXCEPT ![t] = c], p = "finish" => c \in Handles,
             \A u \in Threads : ~Publishing(u, c),
             clearing' = TRUE, UNCHANGED <<keyOf, quarantined>>
      PROVE  PoolInv'
  <2>1. /\ pc'[t] = p /\ role'[t] = rr
        /\ \A u \in Threads \ {t} : role'[u] = role[u]
    BY <1>1, <1>5, <1>6 DEF LeaseInv, Shape
  <2>2. RoleOK(t)'
    BY <1>5, <2>1 DEF RoleOK
  <2>3. /\ keyOf' \in [Slots -> Keys \cup {None}] /\ clearing' \in BOOLEAN
        /\ quarantined' \in BOOLEAN
    BY <1>1, <1>6 DEF LeaseInv, Shape
  <2>4. p \in Quiet /\ p # "poll"
    BY DEF Quiet
  <2>5. LeaseInv'
    BY <1>1, <1>3, <1>4, <1>5, <1>6, <2>2, <2>3, <2>4, Walks
  <2>6. CloseDrains'
    <3>1. CASE closed' => closed
      <4>1. \A u \in Threads : role[u] = "close" => role'[u] = "close"
        BY <1>5, <2>1
      <4> QED BY <1>4, <1>6, <3>1, <4>1, StaysDrained DEF PoolInv, Busy
    <3>2. CASE closed' /\ ~closed
      BY <1>5, <2>1, <3>2 DEF CloseDrains
    <3> QED BY <3>1, <3>2
  <2> QED BY <1>4, <1>6, <2>5, <2>6, RestStays
<1> DEFINE waitable == {s \in Undrained : Lockable(s)}
<1>7. CASE /\ waitable # {}
           /\ target' = [target EXCEPT ![t] =
                           pending[CHOOSE s \in waitable : \A x \in waitable : s <= x]]
           /\ clearing' = TRUE
           /\ pc' = [pc EXCEPT ![t] = "finish"]
           /\ role' = [role EXCEPT ![t] = rr]
           /\ UNCHANGED <<keyOf, quarantined>>
  <2>1. PICK s \in waitable : s = CHOOSE y \in waitable : \A x \in waitable : y <= x
    <3>1. waitable \subseteq Slots
      BY DEF Undrained
    <3> HIDE DEF waitable
    <3>2. \E y \in waitable : \A x \in waitable : y <= x
      BY <1>7, <3>1, FirstExists
    <3> QED BY <3>2
  <2>2. s \in Slots /\ pending[s] # None
    BY DEF Undrained, Lockable
  <2>3. pending[s] \in Handles /\ \A u \in Threads : ~Publishing(u, pending[s])
    BY <1>1, <2>2, PendingSettled
  <2> HIDE DEF waitable
  <2>4. PICK c \in Handles : c = pending[s]
    BY <2>3
  <2>5. target' = [target EXCEPT ![t] = c] /\ \A u \in Threads : ~Publishing(u, c)
    BY <1>7, <2>1, <2>3, <2>4
  <2> QED BY <1>6, <1>7, <2>5
<1>8. CASE /\ clearing' = TRUE
           /\ pc' = [pc EXCEPT ![t] = "drain"]
           /\ role' = [role EXCEPT ![t] = rr]
           /\ target' = [target EXCEPT ![t] = None]
           /\ UNCHANGED <<keyOf, quarantined>>
  BY <1>1, <1>6, <1>8, NonePublished
<1>9. CASE /\ Undrained = {}
           /\ keyOf' = [s \in Slots |-> IF engine[s] = "quarantined" THEN keyOf[s] ELSE None]
           /\ quarantined' = (quarantined \/ \E s \in Slots : engine[s] = "quarantined")
           /\ clearing' = FALSE
           /\ pc' = [pc EXCEPT ![t] = "idle"]
           /\ role' = [role EXCEPT ![t] = "none"]
           /\ target' = [target EXCEPT ![t] = None]
  <2>1. /\ keyOf' \in [Slots -> Keys \cup {None}] /\ clearing' \in BOOLEAN
    BY <1>1, <1>9 DEF LeaseInv, Shape
  <2>2. quarantined' \in BOOLEAN
    BY <1>1, <1>9 DEF LeaseInv, Shape
  <2>3. RoleOK(t)'
    BY <1>1, <1>9 DEF LeaseInv, Shape, RoleOK
  <2>4. LeaseInv'
    BY <1>1, <1>3, <1>4, <1>9, <2>1, <2>2, <2>3, NonePublished, Walks DEF Quiet, Roles
  <2>5. Fitting'
    BY <1>9 DEF PoolInv, Fitting, FitsSlot
  <2>6. Disabled'
    BY <1>4, <1>9 DEF PoolInv, Disabled
  <2>7. DeviceCaps'
    <3> SUFFICES ASSUME NEW j \in Keys PROVE Cardinality(Resident(j)') <= PerDevice
      BY DEF DeviceCaps
    <3>1. IsFiniteSet(Slots)
      BY PoolConstants, FS_Interval DEF Slots
    <3>2. /\ Resident(j) \subseteq Slots /\ Cardinality(Resident(j)) <= PerDevice
      BY DEF PoolInv, DeviceCaps, Resident
    <3>3. Resident(j)' \subseteq Resident(j)
      BY <1>9 DEF Resident
    <3>4. IsFiniteSet(Resident(j)) /\ Cardinality(Resident(j)) \in Nat
      BY <3>1, <3>2, FS_Subset, FS_CardinalityType
    <3>5. Cardinality(Resident(j)') <= Cardinality(Resident(j)) /\ Cardinality(Resident(j)') \in Nat
      BY <3>3, <3>4, FS_Subset, FS_CardinalityType
    <3> QED BY <3>2, <3>4, <3>5, PoolConstants
  <2>8. CloseDrains'
    <3>1. Busy' = {}
      BY <1>4, <1>9 DEF Busy, Undrained
    <3>2. \A s \in Slots : ~active[s]
      BY <1>9 DEF Undrained
    <3>3. \A c \in Handles : work[c].state # "launched"
      <4> SUFFICES ASSUME NEW c \in Handles, work[c].state = "launched" PROVE FALSE
        OBVIOUS
      <4>1. work[c].slot \in Slots
        BY <1>1 DEF LeaseInv, Shape
      <4>2. CASE c \in refs[work[c].slot]
        BY <1>1, <3>2, <4>1, <4>2 DEF LeaseInv, SlotOK
      <4>3. CASE \E u \in Threads : Publishing(u, c)
        <5>1. PICK u \in Threads : pc[u] = "publish"
          BY <4>3 DEF Publishing
        <5>2. at[u] \in Slots /\ u \in refs[at[u]]
          BY <1>1, <5>1 DEF LeaseInv, ThreadOK, Holds
        <5> QED BY <1>1, <3>2, <5>2 DEF LeaseInv, SlotOK
      <4> QED BY <1>1, <4>2, <4>3 DEF LeaseInv, HandleOK
    <3>4. \A s \in Slots : keyOf'[s] # None => engine[s] = "quarantined"
      BY <1>9
    <3> QED BY <1>4, <3>1, <3>3, <3>4 DEF CloseDrains
  <2> QED BY <2>4, <2>5, <2>6, <2>7, <2>8 DEF PoolInv
<1>10. QED
  BY <1>7, <1>8, <1>9 DEF DrainLoop, rr

\* Maintenance begins, or waits for its turn, or finds the pool closed.
LEMMA DrainStartKeeps ==
  ASSUME PoolInv, NEW t \in Threads, pc[t] \in Quiet, NEW close \in BOOLEAN,
         role[t] = "close" => close, NEW asleep, DrainStart(t, close, asleep),
         closed' \in BOOLEAN, (closed' /\ ~closed) => close,
         UNCHANGED <<active, lru, pending, leaseVars, queue, mu, want, at, failed>>
  PROVE  PoolInv'
<1>1. LeaseInv
  BY DEF PoolInv
<1>2. PICK k \in Keys \cup {None} : k = want[t]
  BY <1>1 DEF LeaseInv, Shape
<1>3. PICK c \in Handles \cup {None} : c = target[t]
  BY <1>1 DEF LeaseInv, Shape
<1>4. want' = [want EXCEPT ![t] = k]
  BY <1>1, <1>2 DEF LeaseInv, Shape
<1>5. UNCHANGED <<active, pending, refs, engine, work, at>>
  BY DEF leaseVars
<1>6. ASSUME NEW u \in Threads PROVE ~Publishing(u, c)
  BY <1>1, <1>3 DEF LeaseInv, ThreadOK, Publishing, Quiet
<1>7. ASSUME NEW p \in {"serialize", "idle"}, NEW r \in Roles,
             pc' = [pc EXCEPT ![t] = p], role' = [role EXCEPT ![t] = r],
             p = "serialize" => r \in {"clear", "close"}, p = "idle" => r = "none",
             close => r = "close",
             UNCHANGED <<keyOf, quarantined, clearing, target>>
      PROVE  PoolInv'
  <2>1. /\ pc'[t] = p /\ role'[t] = r /\ \A u \in Threads \ {t} : role'[u] = role[u]
    BY <1>1, <1>7 DEF LeaseInv, Shape
  <2>2. RoleOK(t)'
    BY <1>7, <2>1 DEF RoleOK
  <2>3. /\ keyOf' \in [Slots -> Keys \cup {None}]
        /\ clearing' \in BOOLEAN /\ quarantined' \in BOOLEAN
    BY <1>1, <1>7 DEF LeaseInv, Shape
  <2>4. target' = [target EXCEPT ![t] = c]
    BY <1>1, <1>3, <1>7 DEF LeaseInv, Shape
  <2>5. p \in Quiet /\ p \notin {"finish", "poll"}
    BY DEF Quiet
  <2>6. LeaseInv'
    BY <1>1, <1>4, <1>5, <1>6, <1>7, <2>2, <2>3, <2>4, <2>5, Walks
  <2>7. CloseDrains'
    <3>1. CASE closed' => closed
      <4>1. \A u \in Threads : role[u] = "close" => role'[u] = "close"
        BY <1>7, <2>1
      <4> QED BY <1>5, <1>7, <3>1, <4>1, StaysDrained DEF PoolInv, Busy
    <3>2. CASE closed' /\ ~closed
      BY <1>7, <2>1, <3>2 DEF CloseDrains
    <3> QED BY <3>1, <3>2
  <2> QED BY <1>5, <1>7, <2>6, <2>7, RestStays
<1>8. /\ DrainRole(close) \in Roles /\ DrainRole(close) \in {"clear", "close"}
      /\ close => DrainRole(close) = "close"
  BY DEF DrainRole, Roles
<1>9. CASE /\ pc' = [pc EXCEPT ![t] = "serialize"]
           /\ role' = [role EXCEPT ![t] = DrainRole(close)]
           /\ UNCHANGED <<keyOf, quarantined, clearing, target>>
  BY <1>7, <1>8, <1>9
<1>10. CASE /\ ~close
            /\ pc' = [pc EXCEPT ![t] = "idle"] /\ role' = [role EXCEPT ![t] = "none"]
            /\ UNCHANGED <<keyOf, quarantined, clearing, target>>
  BY <1>7, <1>10 DEF Roles
<1>11. CASE DrainLoop(t, close, {})
  BY <1>11, DrainLoopKeeps
<1>12. QED
  BY <1>9, <1>10, <1>11 DEF DrainStart

\* clear() and close().
LEMMA DrainsKeep ==
  ASSUME PoolInv, NEW t \in Threads,
         Drain(t, FALSE) \/ Drain(t, TRUE) \/ DrainAgain(t)
  PROVE  PoolInv'
<1>1. LeaseInv /\ RoleOK(t) /\ closed \in BOOLEAN
  BY DEF PoolInv, LeaseInv, Shape
<1>2. ASSUME NEW close \in BOOLEAN, Drain(t, close) PROVE PoolInv'
  <2>1. /\ pc[t] = "idle" /\ closed' = (closed \/ close)
        /\ DrainStart(t, close, IF close THEN {} ELSE sleeping)
        /\ UNCHANGED <<active, lru, pending, leaseVars, queue, mu, want, at, failed>>
    BY <1>2 DEF Drain
  <2>2. closed' \in BOOLEAN /\ ((closed' /\ ~closed) => close)
    BY <1>1, <2>1
  <2>3. pc[t] \in Quiet /\ role[t] # "close"
    BY <1>1, <2>1 DEF Quiet, RoleOK
  <2> QED BY <2>1, <2>2, <2>3, DrainStartKeeps
<1>3. CASE DrainAgain(t)
  <2>1. PICK close \in BOOLEAN : close = (role[t] = "close")
    OBVIOUS
  <2>2. /\ \/ pc[t] = "serialize" /\ closed' = closed /\ DrainStart(t, close, sleeping)
           \/ /\ pc[t] \in {"drain", "resume"}
              /\ DrainLoop(t, close, sleeping) /\ closed' = closed
        /\ UNCHANGED <<active, lru, pending, leaseVars, queue, mu, want, at, failed>>
    BY <1>3, <2>1 DEF DrainAgain
  <2>3. closed' \in BOOLEAN /\ (closed' => closed) /\ pc[t] \in Quiet
    BY <1>1, <2>2 DEF Quiet
  <2> QED BY <2>1, <2>2, <2>3, DrainStartKeeps, DrainLoopKeeps
<1>4. QED
  BY <1>2, <1>3

(***************************************************************************)
(* The theorems                                                            *)
(***************************************************************************)
\* A spurious wakeup, a deadline or a stuttering step.
LEMMA QuietSteps ==
  ASSUME PoolInv,
         UNCHANGED <<keyOf, active, pending, refs, engine, work, closed, clearing,
                     quarantined, pc, role, at, want, target>>
  PROVE  PoolInv'
<1>1. LeaseInv'
  BY LeaseStutters DEF PoolInv
<1>2. CloseDrains'
  BY StaysDrained DEF PoolInv, Busy
<1>3. QED
  BY <1>1, <1>2, RestStays

\* Every step of the pool keeps the invariant.
LEMMA PoolInvKeeps ==
  ASSUME PoolInv, [Next]_vars
  PROVE  PoolInv'
<1>1. ASSUME NEW t \in Threads, Step(t) PROVE PoolInv'
  BY <1>1, AdmissionsKeep, ExecuteKeeps, LaunchKeeps, SubmittedKeeps, ReturnKeeps,
     FinishKeeps, PollKeeps, ReleaseKeeps, DrainsKeep DEF Step
<1>2. ASSUME NEW t \in Threads,
             \/ Call(t) \/ WaitHandle(t) \/ DropHandle(t)
             \/ Drain(t, FALSE) \/ Drain(t, TRUE)
      PROVE  PoolInv'
  BY <1>2, AdmissionsKeep, HandlesKeep, DrainsKeep
<1>3. ASSUME NEW t \in Threads, Wake(t) PROVE PoolInv'
  BY <1>3, QuietSteps DEF Wake, poolVars, leaseVars, queueVars, threadVars
<1>4. CASE UNCHANGED vars
  BY <1>4, QuietSteps DEF vars, poolVars, leaseVars, queueVars, threadVars
<1>5. QED
  BY <1>1, <1>2, <1>3, <1>4 DEF Next

\* One thread at most is about to release a slot, and only if its lease has
\* no owner.
LEMMA InvLeasesEndOnce == PoolInv => LeaseEndsOnce
<1> SUFFICES ASSUME PoolInv, NEW s \in Slots
             PROVE LET releasing == {t \in Threads : pc[t] = "release" /\ at[t] = s}
                   IN  /\ active[s] => Cardinality(releasing) = (IF refs[s] = {} THEN 1 ELSE 0)
                       /\ ~active[s] => refs[s] = {} /\ releasing = {}
  BY DEF LeaseEndsOnce
<1> DEFINE releasing == {t \in Threads : pc[t] = "release" /\ at[t] = s}
<1>1. active[s] <=> refs[s] # {} \/ releasing # {}
  BY DEF PoolInv, LeaseInv, SlotOK, Releasing
<1>2. ASSUME NEW t \in releasing PROVE refs[s] = {} /\ releasing = {t}
  <2>1. t \in Threads /\ pc[t] = "release" /\ at[t] = s
    BY <1>2
  <2>2. refs[at[t]] = {} /\ \A u \in Threads \ {t} : ~Releasing(u, at[t])
    BY <2>1 DEF PoolInv, LeaseInv, ThreadOK
  <2>3. \A u \in Threads \ {t} : ~(pc[u] = "release" /\ at[u] = s)
    BY <2>1, <2>2 DEF Releasing
  <2> QED BY <2>1, <2>2, <2>3
<1> HIDE DEF releasing
<1>3. CASE refs[s] # {}
  <2>1. releasing = {}
    BY <1>2, <1>3
  <2> QED BY <1>1, <1>3, <2>1, FS_EmptySet DEF releasing
<1>4. CASE refs[s] = {} /\ active[s]
  <2>1. PICK t \in releasing : TRUE
    BY <1>1, <1>4
  <2>2. releasing = {t} /\ Cardinality({t}) = 1
    BY <1>2, FS_Singleton
  <2>3. Cardinality(releasing) = 1
    BY <2>2
  <2> QED BY <1>4, <2>3 DEF releasing
<1>5. CASE refs[s] = {} /\ ~active[s]
  BY <1>1, <1>5 DEF releasing
<1>6. QED
  BY <1>3, <1>4, <1>5

\* A submission in flight keeps its slot leased to itself.
LEMMA InvScratch == PoolInv => ScratchNotReused
<1> SUFFICES ASSUME PoolInv, NEW c \in Handles, work[c].state = "launched"
             PROVE /\ active[work[c].slot]
                   /\ \A t \in Threads : pc[t] = "run" => at[t] # work[c].slot
                   /\ \A d \in Handles \ {c} : work[d].state = "launched"
                                                 => work[d].slot # work[c].slot
  BY DEF ScratchNotReused
<1>1. LeaseInv
  BY DEF PoolInv
<1>2. PICK s \in Slots : s = work[c].slot
  BY <1>1 DEF LeaseInv, Shape
<1>3. ASSUME NEW d \in Handles, work[d].state = "launched", work[d].slot = s
      PROVE  d \in refs[s] \/ \E u \in Threads : Publishing(u, d) /\ at[u] = s /\ refs[s] = {u}
  <2>1. CASE d \in refs[work[d].slot]
    BY <1>3, <2>1
  <2>2. CASE \E u \in Threads : Publishing(u, d)
    <3>1. PICK u \in Threads : Publishing(u, d)
      BY <2>2
    <3>2. pc[u] = "publish" /\ target[u] = d
      BY <3>1 DEF Publishing
    <3>3. work[d] = [state |-> "launched", slot |-> at[u]] /\ refs[at[u]] = {u}
      BY <1>1, <3>2 DEF LeaseInv, ThreadOK
    <3>4. at[u] = s
      BY <1>3, <3>3
    <3> QED BY <3>1, <3>3, <3>4
  <2> QED BY <1>1, <1>3, <2>1, <2>2 DEF LeaseInv, HandleOK
<1>4. c \in refs[s] \/ \E u \in Threads : Publishing(u, c) /\ at[u] = s /\ refs[s] = {u}
  BY <1>2, <1>3
<1>5. active[s]
  BY <1>1, <1>4 DEF LeaseInv, SlotOK
<1>6. ASSUME NEW t \in Threads, pc[t] = "run", at[t] = s PROVE FALSE
  <2>1. refs[s] = {t}
    BY <1>1, <1>6 DEF LeaseInv, ThreadOK
  <2> QED BY <1>4, <1>6, <2>1, PoolConstants DEF Publishing
<1>7. ASSUME NEW d \in Handles \ {c}, work[d].state = "launched", work[d].slot = s PROVE FALSE
  <2>1. d \in refs[s] \/ \E u \in Threads : Publishing(u, d) /\ at[u] = s /\ refs[s] = {u}
    BY <1>3, <1>7
  <2>2. c \in refs[s] /\ d \in refs[s] => c = d
    BY <1>1 DEF LeaseInv, SlotOK
  <2>3. Threads \cap Handles = {}
    BY PoolConstants
  <2> QED BY <1>4, <1>7, <2>1, <2>2, <2>3 DEF Publishing
<1>8. QED
  BY <1>2, <1>5, <1>6, <1>7

(***************************************************************************)
(* The quotas of the slots add up to the aggregate limit                   *)
(***************************************************************************)
\* Dealing the units of a limit to the slots round by round gives each unit
\* a number of its own.
LEMMA UniqueDigits ==
  ASSUME NEW a \in Nat, NEW b \in Nat, NEW x \in Slots, NEW y \in Slots,
         a * Contexts + x = b * Contexts + y
  PROVE  a = b /\ x = y
<1>1. ASSUME NEW m \in Nat, NEW n \in Nat, m < n
      PROVE  m * Contexts + Contexts <= n * Contexts
  <2>1. PICK d \in Nat : n = m + 1 + d
    <3>1. n = m + 1 + (n - m - 1) /\ n - m - 1 \in Nat
      BY <1>1
    <3> QED BY <3>1
  <2>2. n * Contexts = m * Contexts + Contexts + d * Contexts
    BY <2>1, PoolConstants
  <2>3. d * Contexts >= 0
    BY PoolConstants
  <2>4. m * Contexts \in Nat /\ d * Contexts \in Nat
    BY PoolConstants
  <2> QED BY <2>2, <2>3, <2>4, PoolConstants
<1>2. a * Contexts \in Nat /\ b * Contexts \in Nat
  BY PoolConstants
<1>3. x \in 1 .. Contexts /\ y \in 1 .. Contexts
  BY DEF Slots
<1>4. ~(a < b)
  <2> SUFFICES ASSUME a < b PROVE FALSE
    OBVIOUS
  <2>1. a * Contexts + Contexts <= b * Contexts
    BY <1>1
  <2> QED BY <1>2, <1>3, <2>1, PoolConstants
<1>5. ~(b < a)
  <2> SUFFICES ASSUME b < a PROVE FALSE
    OBVIOUS
  <2>1. b * Contexts + Contexts <= a * Contexts
    BY <1>1
  <2> QED BY <1>2, <1>3, <2>1, PoolConstants
<1>6. a = b
  BY <1>4, <1>5
<1>7. QED
  BY <1>2, <1>3, <1>6

\* Unit i of slot s, i within the slot's share, gets a number up to the limit.
LEMMA WithinLimit ==
  ASSUME NEW total \in Nat, NEW s \in Slots, NEW i \in Nat \ {0},
         i <= Share(total, s)
  PROVE  (i - 1) * Contexts + s \in 1 .. total
<1> DEFINE q == total \div Contexts
           r == total % Contexts
<1>1. /\ q \in Nat /\ r \in Nat
      /\ total = q * Contexts + r
  BY PoolConstants
<1>2. s \in 1 .. Contexts /\ i - 1 \in Nat
  BY DEF Slots
<1>3. i <= q + (IF s - 1 < r THEN 1 ELSE 0)
  BY DEF Share
<1> HIDE DEF q, r
<1>4. (i - 1) * Contexts \in Nat
  BY <1>2, PoolConstants
<1>5. CASE s - 1 < r
  <2>1. i - 1 <= q
    BY <1>1, <1>2, <1>3, <1>5
  <2>2. (i - 1) * Contexts <= q * Contexts
    BY <1>1, <1>2, <2>1, PoolConstants
  <2>3. s <= r
    BY <1>1, <1>2, <1>5
  <2> QED BY <1>1, <1>2, <1>4, <2>2, <2>3, PoolConstants
<1>6. CASE ~(s - 1 < r)
  <2>1. i - 1 <= q - 1 /\ q - 1 \in Nat
    BY <1>1, <1>2, <1>3, <1>6
  <2>2. (i - 1) * Contexts <= (q - 1) * Contexts
    BY <1>2, <2>1, PoolConstants
  <2>3. (q - 1) * Contexts = q * Contexts - Contexts
    BY <1>1, PoolConstants
  <2> QED BY <1>1, <1>2, <1>4, <2>2, <2>3, PoolConstants
<1>7. QED
  BY <1>5, <1>6

\* Holders that stay within their slots' shares stay within the limit.
LEMMA SharesAddUp ==
  ASSUME NEW total \in Nat, NEW S \in SUBSET Slots, NEW amount,
         \A s \in S : amount[s] \in Nat /\ amount[s] <= Share(total, s)
  PROVE  Total(S, amount) <= total
<1> DEFINE units == Units(S, amount)
           number == [u \in units |-> (u[2] - 1) * Contexts + u[1]]
<1>1. ASSUME NEW u \in units
      PROVE  /\ u = <<u[1], u[2]>> /\ u[1] \in S /\ u[2] \in Nat \ {0}
             /\ u[2] <= amount[u[1]]
  <2>1. PICK s \in S : u \in {s} \X (1 .. amount[s])
    BY <1>1 DEF Units
  <2> QED BY <2>1
<1>2. ASSUME NEW u \in units PROVE (u[2] - 1) * Contexts + u[1] \in 1 .. total
  <2>1. u[1] \in Slots /\ u[2] \in Nat \ {0}
    BY <1>1, <1>2
  <2>2. Share(total, u[1]) \in Int
    BY <2>1, PoolConstants DEF Share, Slots
  <2>3. u[2] <= Share(total, u[1])
    BY <1>1, <1>2, <2>1, <2>2
  <2> QED BY <2>1, <2>3, WithinLimit
<1>3. number \in [units -> 1 .. total]
  BY <1>2
<1>4. ASSUME NEW u \in units, NEW v \in units, number[u] = number[v] PROVE u = v
  <2>1. /\ u[1] \in Slots /\ v[1] \in Slots
        /\ u[2] - 1 \in Nat /\ v[2] - 1 \in Nat
        /\ u[2] \in Nat /\ v[2] \in Nat
    BY <1>1, <1>4
  <2>2. (u[2] - 1) * Contexts + u[1] = (v[2] - 1) * Contexts + v[1]
    BY <1>4
  <2>3. u[2] - 1 = v[2] - 1 /\ u[1] = v[1]
    BY <2>1, <2>2, UniqueDigits
  <2>4. u = <<u[1], u[2]>> /\ v = <<v[1], v[2]>>
    BY <1>1, <1>4
  <2> QED BY <2>1, <2>3, <2>4
<1>5. number \in Injection(units, 1 .. total)
  <2> HIDE DEF number, units
  <2> QED BY <1>3, <1>4 DEF Injection, IsInjective
<1>6. IsFiniteSet(1 .. total) /\ Cardinality(1 .. total) = total
  BY FS_Interval
<1>7. Cardinality(units) <= Cardinality(1 .. total)
  <2> HIDE DEF number, units
  <2> QED BY <1>5, <1>6, FS_Injection
<1>8. QED
  BY <1>6, <1>7 DEF Total

\* Fixed quotas enforce the aggregate limits.
LEMMA InvLimits == PoolInv => AggregateLimits
<1> SUFFICES ASSUME PoolInv PROVE AggregateLimits
  OBVIOUS
<1> DEFINE leased == {s \in Busy : keyOf[s] # None}
<1>1. leased \in SUBSET Slots
  BY DEF Busy
<1>2. ASSUME NEW s \in leased
      PROVE  keyOf[s] \in Keys /\ FitsSlot(keyOf[s], s)
  BY <1>1, <1>2 DEF PoolInv, LeaseInv, Shape, Fitting
<1>3. Total(leased, [s \in leased |-> StreamsOf[keyOf[s]]]) <= MaxStreams
  <2> DEFINE amount == [s \in leased |-> StreamsOf[keyOf[s]]]
  <2>1. \A s \in leased : amount[s] \in Nat /\ amount[s] <= Share(MaxStreams, s)
    BY <1>2, PoolConstants DEF FitsSlot
  <2> HIDE DEF amount, leased
  <2>2. Total(leased, amount) <= MaxStreams
    BY <1>1, <2>1, SharesAddUp, PoolConstants
  <2> QED BY <2>2 DEF amount
<1>4. Total(leased, [s \in leased |-> WorkersOf[keyOf[s]]]) <= MaxWorkers
  <2> DEFINE amount == [s \in leased |-> WorkersOf[keyOf[s]]]
  <2>1. \A s \in leased : amount[s] \in Nat /\ amount[s] <= Share(MaxWorkers, s)
    BY <1>2, PoolConstants DEF FitsSlot
  <2> HIDE DEF amount, leased
  <2>2. Total(leased, amount) <= MaxWorkers
    BY <1>1, <2>1, SharesAddUp, PoolConstants
  <2> QED BY <2>2 DEF amount
<1>5. QED
  BY <1>3, <1>4 DEF AggregateLimits, PoolInv, DeviceCaps

\* No lost engine is leased, and none is admitted to once it is given back.
LEMMA InvAccounted == PoolInv => PoolAccounted
<1> SUFFICES ASSUME PoolInv PROVE PoolAccounted
  OBVIOUS
<1>1. QuarantineIsPermanent
  BY DEF PoolInv, LeaseInv, ThreadOK, Disabled, QuarantineIsPermanent
<1>2. QED
  BY <1>1, InvLimits DEF PoolAccounted, PoolInv

\* The inductive invariant holds in every state of every pool: every lease
\* has owners that agree on its slot, every configuration fits its slot's
\* quota, and lost engines stay out of use.
THEOREM PoolInvariant == Spec => []PoolInv
<1>1. Init => PoolInv
  BY LeaseInit
<1>2. PoolInv /\ [Next]_vars => PoolInv'
  BY PoolInvKeeps
<1>3. QED
  BY <1>1, <1>2, PTL DEF Spec

\* acquire(), the Completion and release() end every lease exactly once.
THEOREM LeasesEndOnce == Spec => []LeaseEndsOnce
<1>1. PoolInv => LeaseEndsOnce
  BY InvLeasesEndOnce
<1>2. QED
  BY <1>1, PoolInvariant, PTL

\* A submission in flight shares its engine's scratch with no other dispatch.
THEOREM ScratchIsPrivate == Spec => []ScratchNotReused
<1>1. PoolInv => ScratchNotReused
  BY InvScratch
<1>2. QED
  BY <1>1, PoolInvariant, PTL

\* The per-slot quotas keep the aggregate limits, a lost engine is never
\* leased again, and close() leaves nothing behind.
THEOREM PoolIsAccounted == Spec => []PoolAccounted
<1>1. PoolInv => PoolAccounted
  BY InvAccounted
<1>2. QED
  BY <1>1, PoolInvariant, PTL
=============================================================================
