------------------------- MODULE TransferQueueProofs -------------------------
(***************************************************************************)
(* Proofs about TransferQueue for every set of users, groups and streams,  *)
(* every window and every budget.                                          *)
(***************************************************************************)
EXTENDS TransferQueue, SequenceTheorems

(***************************************************************************)
(* The inductive invariant                                                 *)
(***************************************************************************)
PCs == {"idle", "wait", "release", "producer", "consumers", "closed", "next", "take",
        "room", "submit", "order", "consume", "exit", "left"}
Closers == {"release", "producer", "consumers"}
Blocking == {"wait"} \cup Closers

Handle == [state : {"new", "open", "closed"}, released : BOOLEAN,
           consumers : SUBSET Streams, retired : SUBSET Streams]
Job == [group : Groups \cup {None}, todo : SUBSET Groups,
        back : {"idle", "closed", "room", "exit"}, failed : BOOLEAN]
Work == [op : {"use", "mark"}, group : Groups]

\* What the proofs need of the types.
Shape ==
  /\ closed \in BOOLEAN /\ held \in SUBSET Groups /\ IsFiniteSet(held)
  /\ lock \in Threads \cup {None}
  /\ handle \in [Groups -> Handle]
  /\ pc \in [Threads -> PCs] /\ job \in [Threads -> Job]
  /\ taken \in 0 .. Len(WindowGroups) /\ handles \in Seq(Groups)
  /\ last \in Groups \cup {None} /\ quarantine \in SUBSET Groups
  /\ copy \in [Groups -> {"none", "running", "done", "lost"}]
  /\ stream \in [Streams -> Seq(Work)]

\* The lock is held exactly inside a blocking method.
LockOK == \A t \in Threads : (lock = t) <=> pc[t] \in Blocking

\* A blocking method is about an open handle; a queue's close() has every
\* handle that is still held before it, and admits no other.
JobOK(t) ==
  /\ pc[t] \in Blocking => job[t].group \in Groups /\ Open(job[t].group)
  /\ pc[t] \in Closers /\ job[t].back = "closed" =>
       closed /\ held \subseteq job[t].todo \cup {job[t].group}
  /\ pc[t] = "closed" => closed /\ held = {}

\* The window submits each group once; while it makes room for a group, and
\* until it ordered its stream behind it, nobody else touches that group but
\* the queue's close().
Making == \/ pc[Window] \in {"room", "submit"}
          \/ pc[Window] \in Closers /\ job[Window].back = "room"
WindowOK ==
  /\ \A i \in taken + 1 .. Len(WindowGroups) : handle[WindowGroups[i]].state = "new"
  /\ Making => taken >= 1 /\ handle[Taken].state = "new"
  /\ pc[Window] = "order" =>
       /\ last \in Range(WindowGroups)
       /\ Open(last) /\ handle[last].released => BeingClosed(last)

\* The accounts of the queue.
Account ==
  /\ \A g \in Groups : g \in held <=> Open(g)
  /\ bytes = Total(held, Size)
  /\ Cardinality(held) <= MaxInFlight /\ bytes <= MaxOutputBytes
Disabled == quarantine # {} => closed

\* The last phase of the close() of g: its copy has ended, and every stream
\* that may use it carries a mark behind the uses.
Syncing(g) == \E t \in Threads : pc[t] = "consumers" /\ job[t].group = g
GroupOK(g) ==
  /\ handle[g].state = "new" => ~handle[g].released
  /\ Open(g) /\ handle[g].released => handle[g].retired = handle[g].consumers
  /\ copy[g] = "running" => Open(g) /\ ~Syncing(g)

Followed(g, q) ==
  \A i \in 1 .. Len(q) : q[i] = Use(g) => \E j \in i .. Len(q) : q[j] = Mark(g)
UseOK(g, s) ==
  Contains(stream[s], Use(g)) =>
    \/ g \in quarantine
    \/ /\ Open(g) /\ s \in handle[g].consumers
       /\ handle[g].released \/ Syncing(g) => Followed(g, stream[s])

QueueInv ==
  /\ Shape /\ LockOK /\ \A t \in Threads : JobOK(t)
  /\ WindowOK /\ Account /\ Disabled
  /\ \A g \in Groups : GroupOK(g) /\ \A s \in Streams : UseOK(g, s)

(***************************************************************************)
(* Streams                                                                 *)
(***************************************************************************)
\* A mark at the end of a stream is behind every use on it, and adds none.
LEMMA MarkAppended ==
  ASSUME NEW q \in Seq(Work), NEW g \in Groups
  PROVE  /\ Append(q, Mark(g)) \in Seq(Work)
         /\ Followed(g, Append(q, Mark(g)))
         /\ \A h \in Groups : /\ Contains(Append(q, Mark(g)), Use(h)) => Contains(q, Use(h))
                              /\ Followed(h, q) => Followed(h, Append(q, Mark(g)))
<1> DEFINE p == Append(q, Mark(g))
<1>1. Mark(g) \in Work /\ Len(q) \in Nat
  BY DEF Mark, Work
<1>2. /\ p \in Seq(Work) /\ Len(p) = Len(q) + 1 /\ p[Len(q) + 1] = Mark(g)
      /\ \A i \in 1 .. Len(q) : p[i] = q[i]
  BY <1>1, AppendProperties
<1>3. \A h \in Groups : Use(h) # Mark(g)
  BY DEF Use, Mark
<1> HIDE DEF p
<1>4. Followed(g, p)
  BY <1>1, <1>2 DEF Followed
<1>5. ASSUME NEW h \in Groups, Contains(p, Use(h)) PROVE Contains(q, Use(h))
  <2>1. PICK i \in 1 .. Len(p) : p[i] = Use(h)
    BY <1>5 DEF Contains
  <2>2. i \in 1 .. Len(q) /\ q[i] = Use(h)
    BY <1>1, <1>2, <1>3, <2>1
  <2> QED BY <2>2 DEF Contains
<1>6. ASSUME NEW h \in Groups, Followed(h, q), NEW i \in 1 .. Len(p), p[i] = Use(h)
      PROVE  \E j \in i .. Len(p) : p[j] = Mark(h)
  <2>1. i \in 1 .. Len(q) /\ q[i] = Use(h)
    BY <1>1, <1>2, <1>3, <1>6
  <2>2. PICK j \in i .. Len(q) : q[j] = Mark(h)
    BY <1>6, <2>1 DEF Followed
  <2>3. j \in i .. Len(p) /\ p[j] = Mark(h)
    BY <1>1, <1>2, <2>1, <2>2
  <2> QED BY <2>3
<1>7. QED
  BY <1>2, <1>4, <1>5, <1>6 DEF p, Followed

\* A use at the end of a stream changes nothing for the other groups.
LEMMA UseAppended ==
  ASSUME NEW q \in Seq(Work), NEW g \in Groups
  PROVE  /\ Append(q, Use(g)) \in Seq(Work)
         /\ \A h \in Groups \ {g} :
              /\ Contains(Append(q, Use(g)), Use(h)) => Contains(q, Use(h))
              /\ Followed(h, q) => Followed(h, Append(q, Use(g)))
<1> DEFINE p == Append(q, Use(g))
<1>1. Use(g) \in Work /\ Len(q) \in Nat
  BY DEF Use, Work
<1>2. /\ p \in Seq(Work) /\ Len(p) = Len(q) + 1 /\ p[Len(q) + 1] = Use(g)
      /\ \A i \in 1 .. Len(q) : p[i] = q[i]
  BY <1>1, AppendProperties
<1>3. \A h \in Groups \ {g} : Use(h) # Use(g)
  BY DEF Use
<1> HIDE DEF p
<1>4. ASSUME NEW h \in Groups \ {g}, Contains(p, Use(h)) PROVE Contains(q, Use(h))
  <2>1. PICK i \in 1 .. Len(p) : p[i] = Use(h)
    BY <1>4 DEF Contains
  <2>2. i \in 1 .. Len(q) /\ q[i] = Use(h)
    BY <1>1, <1>2, <1>3, <2>1
  <2> QED BY <2>2 DEF Contains
<1>5. ASSUME NEW h \in Groups \ {g}, Followed(h, q), NEW i \in 1 .. Len(p), p[i] = Use(h)
      PROVE  \E j \in i .. Len(p) : p[j] = Mark(h)
  <2>1. i \in 1 .. Len(q) /\ q[i] = Use(h)
    BY <1>1, <1>2, <1>3, <1>5
  <2>2. PICK j \in i .. Len(q) : q[j] = Mark(h)
    BY <1>5, <2>1 DEF Followed
  <2>3. j \in i .. Len(p) /\ p[j] = Mark(h)
    BY <1>1, <1>2, <2>1, <2>2
  <2> QED BY <2>3
<1>6. QED
  BY <1>2, <1>4, <1>5 DEF p, Followed

\* What a stream ran is not on it any more, and marks stay behind their uses.
LEMMA HeadRan ==
  ASSUME NEW q \in Seq(Work), q # <<>>, NEW h \in Groups
  PROVE  /\ Tail(q) \in Seq(Work)
         /\ Contains(Tail(q), Use(h)) => Contains(q, Use(h))
         /\ Followed(h, q) => Followed(h, Tail(q))
<1> DEFINE p == Tail(q)
<1>1. /\ p \in Seq(Work) /\ Len(p) = Len(q) - 1 /\ Len(q) \in Nat \ {0}
      /\ \A i \in 1 .. Len(p) : p[i] = q[i + 1]
  BY HeadTailProperties
<1> HIDE DEF p
<1>2. ASSUME Contains(p, Use(h)) PROVE Contains(q, Use(h))
  <2>1. PICK i \in 1 .. Len(p) : p[i] = Use(h)
    BY <1>2 DEF Contains
  <2>2. i + 1 \in 1 .. Len(q) /\ q[i + 1] = Use(h)
    BY <1>1, <2>1
  <2> QED BY <2>2 DEF Contains
<1>3. ASSUME Followed(h, q), NEW i \in 1 .. Len(p), p[i] = Use(h)
      PROVE  \E j \in i .. Len(p) : p[j] = Mark(h)
  <2>1. i + 1 \in 1 .. Len(q) /\ q[i + 1] = Use(h)
    BY <1>1, <1>3
  <2>2. PICK j \in i + 1 .. Len(q) : q[j] = Mark(h)
    BY <1>3, <2>1 DEF Followed
  <2>3. j - 1 \in i .. Len(p) /\ p[j - 1] = q[j]
    <3>1. j - 1 \in 1 .. Len(p) /\ j - 1 \in i .. Len(p) /\ (j - 1) + 1 = j
      BY <1>1, <2>1, <2>2
    <3> QED BY <1>1, <3>1
  <2> QED BY <2>2, <2>3
<1>4. QED
  BY <1>1, <1>2, <1>3 DEF p, Followed

\* A use that is followed by its mark is not on a stream without the mark.
LEMMA NoMarkNoUse ==
  ASSUME NEW g \in Groups, NEW q \in Seq(Work), Followed(g, q), Contains(q, Use(g))
  PROVE  Contains(q, Mark(g))
<1>1. PICK i \in 1 .. Len(q) : q[i] = Use(g)
  BY DEF Contains
<1>2. PICK j \in i .. Len(q) : q[j] = Mark(g)
  BY <1>1 DEF Followed
<1>3. j \in 1 .. Len(q)
  BY <1>1, <1>2
<1>4. QED
  BY <1>2, <1>3 DEF Contains

\* Marks on a set of streams.
LEMMA MarksEnqueued ==
  ASSUME Shape, NEW g \in Groups, NEW S \in SUBSET Streams, stream' = Enqueued(Mark(g), S)
  PROVE  /\ stream' \in [Streams -> Seq(Work)]
         /\ \A s \in S : Followed(g, stream'[s])
         /\ \A h \in Groups, s \in Streams :
              /\ Contains(stream'[s], Use(h)) => Contains(stream[s], Use(h))
              /\ Followed(h, stream[s]) => Followed(h, stream'[s])
<1>1. \A s \in Streams : stream[s] \in Seq(Work)
  BY DEF Shape
<1>2. \A s \in Streams : stream'[s] = IF s \in S THEN Append(stream[s], Mark(g)) ELSE stream[s]
  BY DEF Enqueued
<1>3. \A s \in Streams : stream'[s] \in Seq(Work)
  BY <1>1, <1>2, MarkAppended
<1>4. stream' \in [Streams -> Seq(Work)]
  <2>1. stream' = [s \in Streams |-> stream'[s]]
    BY <1>2 DEF Enqueued
  <2> QED BY <1>3, <2>1
<1>5. \A s \in S : Followed(g, stream'[s])
  BY <1>1, <1>2, MarkAppended
<1>6. ASSUME NEW h \in Groups, NEW s \in Streams
      PROVE  /\ Contains(stream'[s], Use(h)) => Contains(stream[s], Use(h))
             /\ Followed(h, stream[s]) => Followed(h, stream'[s])
  BY <1>1, <1>2, MarkAppended
<1>7. QED
  BY <1>4, <1>5, <1>6

(***************************************************************************)
(* What a step leaves alone                                                *)
(***************************************************************************)
\* The empty queue satisfies the invariant.
LEMMA QueueInit == Init => QueueInv
<1> SUFFICES ASSUME Init PROVE QueueInv
  OBVIOUS
<1>1. Shape
  <2>1. handle \in [Groups -> Handle]
    BY DEF Init, Fresh, Handle
  <2>2. job \in [Threads -> Job] /\ pc \in [Threads -> PCs]
    BY DEF Init, NoJob, Job, PCs
  <2>3. IsFiniteSet(held)
    BY FS_EmptySet DEF Init
  <2>4. taken \in 0 .. Len(WindowGroups)
    BY QueueConstants, LenProperties DEF Init
  <2>5. <<>> \in Seq(Groups) /\ <<>> \in Seq(Work)
    BY EmptySeq
  <2>6. handles \in Seq(Groups) /\ stream \in [Streams -> Seq(Work)]
    BY <2>5 DEF Init
  <2>7. /\ closed \in BOOLEAN /\ held \in SUBSET Groups /\ lock \in Threads \cup {None}
        /\ last \in Groups \cup {None} /\ quarantine \in SUBSET Groups
        /\ copy \in [Groups -> {"none", "running", "done", "lost"}]
    BY DEF Init
  <2> QED BY <2>1, <2>2, <2>3, <2>4, <2>6, <2>7 DEF Shape
<1>2. LockOK /\ \A t \in Threads : JobOK(t)
  BY QueueConstants DEF Init, LockOK, JobOK, Blocking, Closers
<1>3. WindowOK
  <2>1. \A i \in 1 .. Len(WindowGroups) : WindowGroups[i] \in Groups
    BY QueueConstants, ElementOfSeq DEF Groups
  <2>2. Window \in Threads
    BY DEF Threads
  <2> QED BY <2>1, <2>2 DEF Init, WindowOK, Making, Fresh, Closers
<1>4. Account /\ Disabled
  <2>1. Cardinality({}) = 0
    BY FS_EmptySet
  <2>2. Units({}, Size) = {}
    BY DEF Units
  <2>3. held = {} /\ bytes = 0 /\ quarantine = {}
    BY DEF Init
  <2>4. Total(held, Size) = 0 /\ Cardinality(held) = 0
    BY <2>1, <2>2, <2>3 DEF Total
  <2>5. \A g \in Groups : ~Open(g)
    BY DEF Init, Open, Fresh
  <2> QED BY <2>3, <2>4, <2>5, QueueConstants DEF Account, Disabled
<1>5. ASSUME NEW g \in Groups PROVE GroupOK(g) /\ \A s \in Streams : UseOK(g, s)
  BY DEF Init, GroupOK, UseOK, Fresh, Open, Contains
<1>6. QED
  BY <1>1, <1>2, <1>3, <1>4, <1>5 DEF QueueInv

\* Groups keep their invariant when handles, copies and streams stay, and no
\* close() enters its last phase.
LEMMA GroupsStay ==
  ASSUME QueueInv, UNCHANGED <<handle, copy, stream, quarantine>>,
         \A g \in Groups : Syncing(g)' => Syncing(g)
  PROVE  \A g \in Groups : GroupOK(g)' /\ \A s \in Streams : UseOK(g, s)'
BY DEF QueueInv, GroupOK, UseOK, Open

\* A step that only moves a thread.
LEMMA ControlKeeps ==
  ASSUME QueueInv, NEW t \in Threads,
         Shape', LockOK', JobOK(t)', WindowOK',
         UNCHANGED <<held, bytes, handle, quarantine, copy, stream>>,
         closed => closed',
         \A u \in Threads \ {t} : pc'[u] = pc[u] /\ job'[u] = job[u],
         pc'[t] # "consumers"
  PROVE  QueueInv'
<1>1. ASSUME NEW u \in Threads, u # t PROVE JobOK(u)'
  BY <1>1 DEF QueueInv, JobOK, Open
<1>2. \A g \in Groups : Syncing(g)' => Syncing(g)
  BY DEF Syncing
<1>3. \A g \in Groups : GroupOK(g)' /\ \A s \in Streams : UseOK(g, s)'
  BY <1>2, GroupsStay
<1>4. Account' /\ Disabled'
  BY DEF QueueInv, Account, Disabled, Open
<1>5. QED
  BY <1>1, <1>3, <1>4 DEF QueueInv

\* A thread that has the lock, or takes it while it is free.
LEMMA LockMoves ==
  ASSUME Shape, LockOK, NEW t \in Threads, lock \in {None, t},
         NEW p \in PCs, pc' = [pc EXCEPT ![t] = p],
         lock' = IF p \in Blocking THEN t ELSE None
  PROVE  LockOK' /\ lock' \in Threads \cup {None} /\ pc' \in [Threads -> PCs]
BY QueueConstants DEF Shape, LockOK

\* A thread moves outside the lock.
LEMMA LockStays ==
  ASSUME Shape, LockOK, NEW t \in Threads, NEW p \in PCs, pc' = [pc EXCEPT ![t] = p],
         pc[t] \in Blocking <=> p \in Blocking, lock' = lock
  PROVE  LockOK' /\ lock' \in Threads \cup {None} /\ pc' \in [Threads -> PCs]
BY DEF Shape, LockOK

\* Where a close() begins.
CloseBegun(t, g, todo, back, failed) ==
  /\ LockOK' /\ lock' \in Threads \cup {None}
  /\ pc' \in [Threads -> PCs] /\ job' \in [Threads -> Job]
  /\ job'[t] = [group |-> g, todo |-> todo, back |-> back, failed |-> failed]
  /\ \/ Open(g) /\ pc'[t] = "release"
     \/ ~Open(g) /\ pc'[t] = back
  /\ \A u \in Threads \ {t} : pc'[u] = pc[u] /\ job'[u] = job[u]

LEMMA CloseStarted ==
  ASSUME Shape, LockOK, NEW t \in Threads, lock \in {None, t}, NEW g \in Groups,
         NEW todo \in SUBSET Groups, NEW back \in {"idle", "closed", "room", "exit"},
         NEW failed \in BOOLEAN, StartClose(t, g, todo, back, failed)
  PROVE  CloseBegun(t, g, todo, back, failed)
<1> DEFINE j == [group |-> g, todo |-> todo, back |-> back, failed |-> failed]
<1>1. j \in Job /\ job' = [job EXCEPT ![t] = j]
  BY DEF StartClose, Job
<1> HIDE DEF j
<1>2. /\ job' \in [Threads -> Job] /\ job'[t] = j
      /\ \A u \in Threads \ {t} : job'[u] = job[u]
  BY <1>1 DEF Shape
<1>3. CASE Open(g)
  <2>1. pc' = [pc EXCEPT ![t] = "release"] /\ lock' = t
    BY <1>3 DEF StartClose, Go
  <2>2. LockOK' /\ lock' \in Threads \cup {None} /\ pc' \in [Threads -> PCs]
    BY <2>1, LockMoves DEF PCs, Blocking, Closers
  <2>3. pc'[t] = "release" /\ \A u \in Threads \ {t} : pc'[u] = pc[u]
    BY <2>1 DEF Shape
  <2> QED BY <1>2, <1>3, <2>2, <2>3 DEF j, CloseBegun
<1>4. CASE ~Open(g)
  <2>1. pc' = [pc EXCEPT ![t] = back] /\ lock' = None
    BY <1>4 DEF StartClose, Go
  <2>2. LockOK' /\ lock' \in Threads \cup {None} /\ pc' \in [Threads -> PCs]
    BY <2>1, LockMoves DEF PCs, Blocking, Closers
  <2>3. pc'[t] = back /\ \A u \in Threads \ {t} : pc'[u] = pc[u]
    BY <2>1 DEF Shape
  <2> QED BY <1>2, <1>4, <2>2, <2>3 DEF j, CloseBegun
<1>5. QED
  BY <1>3, <1>4

\* Handles of the window as a step of anybody may leave them.
LEMMA WindowGoesOn ==
  ASSUME QueueInv, UNCHANGED <<taken, last>>,
         pc'[Window] = "order" => pc[Window] = "order", Making' => Making,
         \A g \in Range(WindowGroups) :
           /\ handle[g].state = "new" => handle'[g].state = "new"
           /\ handle'[g].state = "open" /\ handle'[g].released =>
                \/ BeingClosed(g)'
                \/ Open(g) /\ handle[g].released /\ ~BeingClosed(g)
  PROVE  WindowOK'
<1>1. \A i \in 1 .. Len(WindowGroups) : WindowGroups[i] \in Range(WindowGroups)
  BY QueueConstants DEF Range
<1>2. taken \in 0 .. Len(WindowGroups) /\ Len(WindowGroups) \in Nat
  BY QueueConstants, LenProperties DEF QueueInv, Shape
<1>3. \A i \in taken' + 1 .. Len(WindowGroups) : handle'[WindowGroups[i]].state = "new"
  BY <1>1, <1>2 DEF QueueInv, WindowOK
<1>4. Making' => taken' >= 1 /\ handle'[Taken'].state = "new"
  <2>2. Taken' = Taken
    BY DEF Taken
  <2>3. Making => taken >= 1 /\ handle[Taken].state = "new"
    BY DEF QueueInv, WindowOK
  <2>4. taken >= 1 => Taken \in Range(WindowGroups)
    BY <1>1, <1>2 DEF Taken
  <2> QED BY <2>2, <2>3, <2>4
<1>5. ASSUME pc'[Window] = "order"
      PROVE  /\ last' \in Range(WindowGroups)
             /\ Open(last)' /\ handle'[last'].released => BeingClosed(last)'
  <2>1. /\ last \in Range(WindowGroups) /\ last' = last
        /\ Open(last) /\ handle[last].released => BeingClosed(last)
    BY <1>5 DEF QueueInv, WindowOK
  <2>2. PICK g \in Range(WindowGroups) : g = last
    BY <2>1
  <2>3. handle'[g].state = "open" /\ handle'[g].released => BeingClosed(g)'
    BY <2>1, <2>2
  <2>4. BeingClosed(g)' => BeingClosed(last)'
    BY <2>1, <2>2 DEF BeingClosed
  <2> QED BY <2>1, <2>2, <2>3, <2>4 DEF Open
<1>6. QED
  BY <1>3, <1>4, <1>5 DEF WindowOK

\* Handles of the window as a user's step may leave them.
LEMMA WindowKeeps ==
  ASSUME QueueInv, UNCHANGED <<taken, last>>,
         pc'[Window] = pc[Window], job'[Window] = job[Window],
         \A g \in Range(WindowGroups) :
           /\ handle[g].state = "new" => handle'[g].state = "new"
           /\ handle'[g].state = "open" /\ handle'[g].released =>
                \/ BeingClosed(g)'
                \/ Open(g) /\ handle[g].released /\ ~BeingClosed(g)
  PROVE  WindowOK'
<1>1. (pc'[Window] = "order" => pc[Window] = "order") /\ (Making' => Making)
  BY DEF Making
<1>2. QED
  BY <1>1, WindowGoesOn

\* A close() of another thread goes on.
LEMMA ClosesGoOn ==
  ASSUME NEW t \in Threads, pc[t] \notin Closers, NEW g,
         \A u \in Threads \ {t} : pc'[u] = pc[u] /\ job'[u] = job[u]
  PROVE  BeingClosed(g) => BeingClosed(g)'
BY DEF BeingClosed, Closers

\* A user enters or leaves a method and changes no handle.
LEMMA UserControlKeeps ==
  ASSUME QueueInv, NEW u \in Users, pc[u] \in {"idle", "wait"}, Shape', LockOK', JobOK(u)',
         UNCHANGED <<held, bytes, handle, quarantine, copy, stream, taken, last>>,
         closed => closed',
         \A t \in Threads \ {u} : pc'[t] = pc[t] /\ job'[t] = job[t],
         pc'[u] # "consumers"
  PROVE  QueueInv'
<1>1. u \in Threads /\ Window \in Threads \ {u} /\ pc[u] \notin Closers
  BY QueueConstants DEF Threads, Closers
<1>2. pc'[Window] = pc[Window] /\ job'[Window] = job[Window]
  BY <1>1
<1>3. \A g \in Range(WindowGroups) : BeingClosed(g) => BeingClosed(g)'
  BY <1>1, ClosesGoOn
<1>4. WindowOK'
  <2>1. \A g \in Range(WindowGroups) :
           /\ handle[g].state = "new" => handle'[g].state = "new"
           /\ handle'[g].state = "open" /\ handle'[g].released =>
                \/ BeingClosed(g)'
                \/ Open(g) /\ handle[g].released /\ ~BeingClosed(g)
    BY <1>3 DEF Open
  <2> QED BY <1>2, <2>1, WindowKeeps
<1>5. QED
  BY <1>1, <1>4, ControlKeeps

LEMMA WaitKeeps ==
  ASSUME QueueInv, NEW u \in Users, NEW g \in UserGroups, Wait(u, g)
  PROVE  QueueInv'
<1>1. u \in Threads /\ g \in Groups
  BY DEF Threads, Groups
<1>2. Shape /\ LockOK
  BY DEF QueueInv
<1>3. lock = None /\ lock' = u /\ pc' = [pc EXCEPT ![u] = "wait"]
  BY DEF Wait, Go
<1>4. LockOK' /\ lock' \in Threads \cup {None} /\ pc' \in [Threads -> PCs]
  BY <1>1, <1>2, <1>3, LockMoves DEF PCs, Blocking, Closers
<1>5. /\ job' \in [Threads -> Job] /\ job'[u].group = g
      /\ \A t \in Threads \ {u} : job'[t] = job[t]
  BY <1>1, <1>2 DEF Wait, Shape, Job
<1>6. pc'[u] = "wait" /\ \A t \in Threads \ {u} : pc'[t] = pc[t]
  BY <1>1, <1>2, <1>3 DEF Shape
<1>7. Shape'
  BY <1>2, <1>4, <1>5 DEF Shape, Wait, queueVars, windowVars, gpuVars
<1>8. JobOK(u)'
  <2>1. handle'[g].state = "open"
    BY DEF Wait, Open
  <2> QED BY <1>1, <1>5, <1>6, <2>1 DEF JobOK, Open, Closers
<1>9. /\ UNCHANGED <<held, bytes, handle, quarantine, copy, stream, taken, last, closed>>
      /\ pc[u] = "idle"
  BY DEF Wait, queueVars, windowVars, gpuVars
<1>10. QED
  BY <1>4, <1>5, <1>6, <1>7, <1>8, <1>9, UserControlKeeps

LEMMA CloseHandleKeeps ==
  ASSUME QueueInv, NEW u \in Users, NEW g \in UserGroups, CloseHandle(u, g)
  PROVE  QueueInv'
<1>1. u \in Threads /\ g \in Groups
  BY DEF Threads, Groups
<1>2. Shape /\ LockOK
  BY DEF QueueInv
<1>3. /\ LockOK' /\ lock' \in Threads \cup {None}
      /\ pc' \in [Threads -> PCs] /\ job' \in [Threads -> Job]
      /\ job'[u] = [group |-> g, todo |-> {}, back |-> "idle", failed |-> FALSE]
      /\ \/ Open(g) /\ pc'[u] = "release"
         \/ ~Open(g) /\ pc'[u] = "idle"
      /\ \A t \in Threads \ {u} : pc'[t] = pc[t] /\ job'[t] = job[t]
  <2>1. lock \in {None, u} /\ StartClose(u, g, {}, "idle", FALSE)
    BY DEF CloseHandle
  <2>2. {} \in SUBSET Groups /\ FALSE \in BOOLEAN /\ "idle" \in {"idle", "closed", "room", "exit"}
    OBVIOUS
  <2>3. CloseBegun(u, g, {}, "idle", FALSE)
    BY <1>1, <1>2, <2>1, <2>2, CloseStarted
  <2> QED BY <2>3 DEF CloseBegun
<1>4. Shape'
  BY <1>2, <1>3 DEF Shape, CloseHandle, queueVars, windowVars, gpuVars
<1>5. /\ UNCHANGED <<held, bytes, handle, quarantine, copy, stream, taken, last, closed>>
      /\ pc[u] = "idle"
  BY DEF CloseHandle, queueVars, windowVars, gpuVars
<1>6. JobOK(u)'
  BY <1>1, <1>3, <1>5 DEF JobOK, Open, Closers, Blocking
<1>7. pc'[u] # "consumers"
  BY <1>3
<1>8. QED
  BY <1>3, <1>4, <1>5, <1>6, <1>7, UserControlKeeps

LEMMA CloseQueueKeeps ==
  ASSUME QueueInv, NEW u \in Users, CloseQueue(u)
  PROVE  QueueInv'
<1>1. u \in Threads
  BY DEF Threads
<1>2. Shape /\ LockOK /\ Account
  BY DEF QueueInv
<1>3. /\ UNCHANGED <<held, bytes, handle, quarantine, copy, stream, taken, handles, last>>
      /\ pc[u] = "idle" /\ closed' = TRUE /\ lock = None
  BY DEF CloseQueue, windowVars, gpuVars
<1>4. CASE held = {}
  <2>1. pc' = [pc EXCEPT ![u] = "closed"] /\ lock' = lock /\ job' = job
    BY <1>4 DEF CloseQueue, Go
  <2>2. LockOK' /\ lock' \in Threads \cup {None} /\ pc' \in [Threads -> PCs]
    BY <1>1, <1>2, <1>3, <2>1, LockStays DEF PCs, Blocking, Closers
  <2>3. pc'[u] = "closed" /\ \A t \in Threads \ {u} : pc'[t] = pc[t]
    BY <1>1, <1>2, <2>1 DEF Shape
  <2>4. Shape'
    BY <1>2, <1>3, <2>1, <2>2 DEF Shape
  <2>5. JobOK(u)'
    BY <1>3, <1>4, <2>3 DEF JobOK, Closers, Blocking
  <2> QED BY <1>3, <2>1, <2>2, <2>3, <2>4, <2>5, UserControlKeeps
<1>5. CASE held # {}
  <2>1. PICK g \in held : StartClose(u, g, held \ {g}, "closed", FALSE)
    BY <1>5 DEF CloseQueue
  <2>2. g \in Groups /\ Open(g)
    BY <1>2, <2>1 DEF Shape, Account
  <2> DEFINE todo == held \ {g}
  <2>3. todo \in SUBSET Groups /\ held = todo \cup {g} /\ StartClose(u, g, todo, "closed", FALSE)
    BY <1>2, <2>1 DEF Shape
  <2> HIDE DEF todo
  <2>4. lock \in {None, u} /\ FALSE \in BOOLEAN /\ "closed" \in {"idle", "closed", "room", "exit"}
    BY <1>3
  <2>5. /\ LockOK' /\ lock' \in Threads \cup {None}
        /\ pc' \in [Threads -> PCs] /\ job' \in [Threads -> Job]
        /\ job'[u] = [group |-> g, todo |-> todo, back |-> "closed", failed |-> FALSE]
        /\ \/ Open(g) /\ pc'[u] = "release"
           \/ ~Open(g) /\ pc'[u] = "closed"
        /\ \A t \in Threads \ {u} : pc'[t] = pc[t] /\ job'[t] = job[t]
    <3>1. CloseBegun(u, g, todo, "closed", FALSE)
      BY <1>1, <1>2, <2>2, <2>3, <2>4, CloseStarted
    <3> QED BY <3>1 DEF CloseBegun
  <2>6. Shape'
    BY <1>2, <1>3, <2>5 DEF Shape
  <2>7. JobOK(u)'
    <3>1. pc'[u] = "release" /\ job'[u].group = g /\ job'[u].todo = todo
      BY <2>2, <2>5
    <3>2. handle'[g].state = "open" /\ held' = todo \cup {g}
      BY <1>3, <2>2, <2>3 DEF Open
    <3> QED BY <1>3, <2>2, <3>1, <3>2 DEF JobOK, Open
  <2>8. pc'[u] # "consumers"
    BY <2>5
  <2> QED BY <1>3, <2>5, <2>6, <2>7, <2>8, UserControlKeeps
<1>6. QED
  BY <1>4, <1>5

\* The window between its methods.
LEMMA WindowControlKeeps ==
  ASSUME QueueInv, Shape', LockOK', JobOK(Window)',
         UNCHANGED <<closed, held, bytes, handle, quarantine, copy, stream>>,
         \A t \in Threads \ {Window} : pc'[t] = pc[t] /\ job'[t] = job[t],
         pc'[Window] \notin {"consumers", "order"},
         taken' \in {taken, taken + 1},
         Making' => taken' >= 1 /\ handle[WindowGroups[taken']].state = "new"
  PROVE  QueueInv'
<1>1. Window \in Threads
  BY DEF Threads
<1>2. taken \in Nat /\ Len(WindowGroups) \in Nat
  BY QueueConstants, LenProperties DEF QueueInv, Shape
<1>3. WindowOK'
  <2>1. ASSUME NEW i \in taken' + 1 .. Len(WindowGroups)
        PROVE  handle[WindowGroups[i]].state = "new"
    <3>1. i \in taken + 1 .. Len(WindowGroups)
      BY <1>2
    <3> QED BY <3>1 DEF QueueInv, WindowOK
  <2>2. \A i \in taken' + 1 .. Len(WindowGroups) : handle'[WindowGroups[i]].state = "new"
    BY <2>1
  <2>3. Making' => taken' >= 1 /\ handle'[Taken'].state = "new"
    BY DEF Taken
  <2> QED BY <2>2, <2>3 DEF WindowOK
<1>4. QED
  BY <1>1, <1>3, ControlKeeps

\* The window moves on without a call.
LEMMA WindowMovesKeeps ==
  ASSUME QueueInv, NEW p \in {"next", "take", "room", "submit", "exit", "left"},
         pc[Window] \notin Blocking,
         pc' = [pc EXCEPT ![Window] = p], handles' \in Seq(Groups), last' \in Groups \cup {None},
         UNCHANGED <<closed, held, bytes, lock, handle, job, quarantine, copy, stream>>,
         taken' \in {taken, taken + 1}, taken' \in 0 .. Len(WindowGroups),
         p \in {"room", "submit"} =>
           taken' >= 1 /\ handle[WindowGroups[taken']].state = "new"
  PROVE  QueueInv'
<1>1. Window \in Threads
  BY DEF Threads
<1>2. Shape /\ LockOK
  BY DEF QueueInv
<1>3. p \in PCs /\ p \notin Blocking
  BY DEF PCs, Blocking, Closers
<1>4. LockOK' /\ lock' \in Threads \cup {None} /\ pc' \in [Threads -> PCs]
  BY <1>1, <1>2, <1>3, LockStays
<1>5. pc'[Window] = p /\ \A t \in Threads \ {Window} : pc'[t] = pc[t] /\ job'[t] = job[t]
  BY <1>1, <1>2 DEF Shape
<1>6. Shape'
  BY <1>2, <1>4 DEF Shape
<1>7. JobOK(Window)'
  BY <1>3, <1>5 DEF JobOK, Blocking
<1>8. Making' => p \in {"room", "submit"}
  BY <1>3, <1>5 DEF Making, Blocking
<1>9. pc'[Window] \notin {"consumers", "order"}
  BY <1>5
<1>10. Making' => taken' >= 1 /\ handle[WindowGroups[taken']].state = "new"
  BY <1>8
<1>11. QED
  BY <1>4, <1>5, <1>6, <1>7, <1>9, <1>10, WindowControlKeeps

\* The window starts to close a handle of its deque.
LEMMA WindowStartsKeeps ==
  ASSUME QueueInv, NEW back \in {"room", "exit"}, pc[Window] = back, lock = None,
         handles # <<>>, StartClose(Window, Head(handles), {}, back, FALSE),
         handles' = Tail(handles),
         UNCHANGED <<closed, held, bytes, handle, quarantine, copy, stream, taken, last>>
  PROVE  QueueInv'
<1>1. Window \in Threads
  BY DEF Threads
<1>2. Shape /\ LockOK
  BY DEF QueueInv
<1>3. Head(handles) \in Groups /\ handles' \in Seq(Groups)
  BY <1>2, HeadTailProperties DEF Shape
<1>4. PICK g \in Groups : StartClose(Window, g, {}, back, FALSE)
  BY <1>3
<1>5. /\ lock \in {None, Window} /\ {} \in SUBSET Groups /\ FALSE \in BOOLEAN
      /\ back \in {"idle", "closed", "room", "exit"}
  OBVIOUS
<1>6. /\ LockOK' /\ lock' \in Threads \cup {None}
      /\ pc' \in [Threads -> PCs] /\ job' \in [Threads -> Job]
      /\ job'[Window] = [group |-> g, todo |-> {}, back |-> back, failed |-> FALSE]
      /\ \/ Open(g) /\ pc'[Window] = "release"
         \/ ~Open(g) /\ pc'[Window] = back
      /\ \A u \in Threads \ {Window} : pc'[u] = pc[u] /\ job'[u] = job[u]
  <2>1. CloseBegun(Window, g, {}, back, FALSE)
    BY <1>1, <1>2, <1>4, <1>5, CloseStarted
  <2> QED BY <2>1 DEF CloseBegun
<1>7. Shape'
  BY <1>2, <1>3, <1>6 DEF Shape
<1>8. JobOK(Window)'
  <2>1. handle'[g].state = handle[g].state
    OBVIOUS
  <2> QED BY <1>4, <1>6, <2>1 DEF JobOK, Open, Closers, Blocking
<1>9. pc'[Window] \notin {"consumers", "order"} /\ taken' = taken
  BY <1>6
<1>10. Making' => Making
  BY <1>6 DEF Making, Closers
<1>11. Making' => taken' >= 1 /\ handle[WindowGroups[taken']].state = "new"
  BY <1>10 DEF QueueInv, WindowOK, Taken
<1>12. QED
  BY <1>6, <1>7, <1>8, <1>9, <1>11, WindowControlKeeps

LEMMA NextTakesKeeps ==
  ASSUME QueueInv, NextTakes
  PROVE  QueueInv'
<1>1. /\ taken \in Nat /\ Len(WindowGroups) \in Nat /\ taken \in 0 .. Len(WindowGroups)
      /\ handles \in Seq(Groups) /\ last \in Groups \cup {None}
  BY QueueConstants, LenProperties DEF QueueInv, Shape
<1>2. /\ UNCHANGED <<closed, held, bytes, lock, handle, job, quarantine, copy, stream, handles, last>>
      /\ pc[Window] \notin Blocking
  BY DEF NextTakes, queueVars, gpuVars, Blocking, Closers
<1>3. CASE taken = Len(WindowGroups)
  <2>1. pc' = [pc EXCEPT ![Window] = "exit"] /\ taken' = taken
    BY <1>3 DEF NextTakes, Go
  <2>2. /\ "exit" \in {"next", "take", "room", "submit", "exit", "left"}
        /\ "exit" \notin {"room", "submit"}
    OBVIOUS
  <2>3. taken' \in {taken, taken + 1} /\ taken' \in 0 .. Len(WindowGroups)
    BY <1>1, <2>1
  <2> QED BY <1>1, <1>2, <2>1, <2>2, <2>3, WindowMovesKeeps
<1>4. CASE taken # Len(WindowGroups)
  <2>1. pc' = [pc EXCEPT ![Window] = "room"] /\ taken' = taken + 1
    BY <1>4 DEF NextTakes, Go
  <2>2. "room" \in {"next", "take", "room", "submit", "exit", "left"}
    OBVIOUS
  <2>3. taken' \in {taken, taken + 1} /\ taken' \in 0 .. Len(WindowGroups)
    BY <1>1, <1>4, <2>1
  <2>4. taken' >= 1 /\ taken' \in taken + 1 .. Len(WindowGroups)
    BY <1>1, <1>4, <2>1
  <2>5. handle[WindowGroups[taken']].state = "new"
    BY <2>4 DEF QueueInv, WindowOK
  <2> QED BY <1>1, <1>2, <2>1, <2>2, <2>3, <2>4, <2>5, WindowMovesKeeps
<1>5. QED
  BY <1>3, <1>4

LEMMA NextMakesRoomKeeps ==
  ASSUME QueueInv, NextMakesRoom
  PROVE  QueueInv'
<1>1. /\ taken \in Nat /\ taken \in 0 .. Len(WindowGroups) /\ taken' = taken
      /\ handles \in Seq(Groups) /\ last \in Groups \cup {None}
      /\ taken' \in {taken, taken + 1}
  BY QueueConstants, LenProperties DEF QueueInv, Shape, NextMakesRoom
<1>2. /\ UNCHANGED <<closed, held, bytes, handle, quarantine, copy, stream, taken, last>>
      /\ pc[Window] \notin Blocking /\ pc[Window] = "room" /\ lock = None
  BY DEF NextMakesRoom, queueVars, gpuVars, Blocking, Closers
<1>3. taken' >= 1 /\ handle[WindowGroups[taken']].state = "new"
  BY <1>1, <1>2 DEF QueueInv, WindowOK, Making, Taken
<1>4. ASSUME NEW p \in {"exit", "submit"}, Go(Window, p), UNCHANGED <<lock, job, handles>>
      PROVE  QueueInv'
  <2>1. pc' = [pc EXCEPT ![Window] = p]
    BY <1>4 DEF Go
  <2>2. /\ p \in {"next", "take", "room", "submit", "exit", "left"}
        /\ handles' \in Seq(Groups) /\ last' \in Groups \cup {None}
        /\ taken' \in 0 .. Len(WindowGroups)
    BY <1>1, <1>2, <1>4
  <2> QED BY <1>1, <1>2, <1>3, <1>4, <2>1, <2>2, WindowMovesKeeps
<1>5. CASE Go(Window, "exit") /\ UNCHANGED <<lock, job, handles>>
  BY <1>4, <1>5
<1>6. CASE Go(Window, "submit") /\ UNCHANGED <<lock, job, handles>>
  BY <1>4, <1>6
<1>7. CASE /\ handles # <<>> /\ StartClose(Window, Head(handles), {}, "room", FALSE)
           /\ handles' = Tail(handles)
  <2>1. "room" \in {"room", "exit"}
    OBVIOUS
  <2> QED BY <1>2, <1>7, <2>1, WindowStartsKeeps
<1>8. QED
  BY <1>5, <1>6, <1>7 DEF NextMakesRoom

LEMMA WindowClosesKeeps ==
  ASSUME QueueInv, WindowCloses
  PROVE  QueueInv'
<1>1. /\ taken \in 0 .. Len(WindowGroups) /\ handles \in Seq(Groups)
      /\ taken' = taken /\ taken' \in {taken, taken + 1}
  BY DEF QueueInv, Shape, WindowCloses
<1>2. /\ UNCHANGED <<closed, held, bytes, handle, quarantine, copy, stream, taken>>
      /\ pc[Window] \notin Blocking /\ pc[Window] = "exit" /\ lock = None
  BY DEF WindowCloses, queueVars, gpuVars, Blocking, Closers
<1>3. CASE handles = <<>>
  <2>1. /\ pc' = [pc EXCEPT ![Window] = "left"] /\ last' \in Groups \cup {None}
        /\ UNCHANGED <<lock, job, handles>>
    BY <1>3 DEF WindowCloses, Go
  <2>2. /\ "left" \in {"next", "take", "room", "submit", "exit", "left"}
        /\ "left" \notin {"room", "submit"}
        /\ handles' \in Seq(Groups) /\ taken' \in 0 .. Len(WindowGroups)
    BY <1>1, <2>1
  <2> QED BY <1>1, <1>2, <2>1, <2>2, WindowMovesKeeps
<1>4. CASE handles # <<>>
  <2>1. /\ StartClose(Window, Head(handles), {}, "exit", FALSE)
        /\ handles' = Tail(handles) /\ last' = last /\ "exit" \in {"room", "exit"}
    BY <1>4 DEF WindowCloses
  <2> QED BY <1>2, <1>4, <2>1, WindowStartsKeeps
<1>5. QED
  BY <1>3, <1>4

LEMMA IterateKeeps ==
  ASSUME QueueInv, Iterate
  PROVE  QueueInv'
<1>1. PICK p \in {"next", "exit"} : pc' = [pc EXCEPT ![Window] = p]
  BY DEF Iterate, Go
<1>2. /\ UNCHANGED <<closed, held, bytes, lock, handle, job, quarantine, copy, stream,
                     taken, handles, last>>
      /\ pc[Window] \notin Blocking
  BY DEF Iterate, queueVars, windowVars, gpuVars, Blocking, Closers
<1>3. /\ p \in {"next", "take", "room", "submit", "exit", "left"} /\ p \notin {"room", "submit"}
      /\ handles' \in Seq(Groups) /\ last' \in Groups \cup {None}
      /\ taken' \in {taken, taken + 1} /\ taken' \in 0 .. Len(WindowGroups)
  BY <1>2 DEF QueueInv, Shape
<1>4. QED
  BY <1>1, <1>2, <1>3, WindowMovesKeeps

(***************************************************************************)
(* Submitting a group                                                      *)
(***************************************************************************)
\* Within the budget the accounts go on, and a queue that admits a group has
\* neither a close() in it nor a quarantined group.
LEMMA GroupSubmitted ==
  ASSUME QueueInv, NEW g \in Groups, handle[g].state = "new", CanSubmit(g), Submitted(g),
         UNCHANGED <<closed, quarantine, stream, job>>,
         \A h \in Groups : Syncing(h)' => Syncing(h)
  PROVE  /\ held' \in SUBSET Groups /\ IsFiniteSet(held')
         /\ handle' \in [Groups -> Handle]
         /\ handle'[g].state = "open" /\ ~handle'[g].released
         /\ \A h \in Groups \ {g} : handle'[h] = handle[h]
         /\ copy' \in [Groups -> {"none", "running", "done", "lost"}]
         /\ Account' /\ Disabled'
         /\ \A t \in Threads : pc'[t] = pc[t] => JobOK(t)'
         /\ \A h \in Groups : GroupOK(h)' /\ \A s \in Streams : UseOK(h, s)'
<1>1. Shape /\ Account /\ Disabled
  BY DEF QueueInv
<1>2. ~closed /\ quarantine = {} /\ g \notin held
  BY <1>1 DEF CanSubmit, Disabled, Account, Open
<1>3. handle[g] \in Handle /\ ~handle[g].released
  BY <1>1 DEF Shape, QueueInv, GroupOK
<1> DEFINE h1 == [handle[g] EXCEPT !.state = "open"]
<1>4. /\ h1 \in Handle /\ h1.state = "open" /\ h1.released = handle[g].released
  BY <1>3 DEF Handle
<1>5. handle' = [handle EXCEPT ![g] = h1]
  BY DEF Submitted
<1> HIDE DEF h1
<1>6. /\ handle' \in [Groups -> Handle] /\ handle'[g] = h1
      /\ \A h \in Groups \ {g} : handle'[h] = handle[h]
  BY <1>1, <1>4, <1>5 DEF Shape
<1>7. handle'[g].state = "open" /\ ~handle'[g].released
  BY <1>3, <1>4, <1>6
<1>8. /\ held' = held \cup {g} /\ held' \in SUBSET Groups /\ IsFiniteSet(held')
      /\ Cardinality(held') = Cardinality(held) + 1 /\ Cardinality(held) \in Nat
  BY <1>1, <1>2, FS_AddElement, FS_CardinalityType DEF Shape, Submitted
<1>9. Account'
  <2>1. \A h \in Groups : h \in held' <=> handle'[h].state = "open"
    BY <1>1, <1>6, <1>7, <1>8 DEF Account, Open
  <2>2. Cardinality(held') <= MaxInFlight
    BY <1>8, QueueConstants DEF CanSubmit
  <2>3. \A s \in held' : Size[s] \in Nat
    BY <1>8, QueueConstants
  <2>4. PICK H : H = held'
    OBVIOUS
  <2>5. Total(H, Size) = Total(H \ {g}, Size) + Size[g]
    BY <1>8, <2>3, <2>4, TotalSplit
  <2>6. H \ {g} = held
    BY <1>2, <1>8, <2>4
  <2>7. bytes' = Total(held', Size) /\ bytes' <= MaxOutputBytes
    BY <1>1, <2>4, <2>5, <2>6 DEF Account, Submitted, CanSubmit
  <2> QED BY <2>1, <2>2, <2>7 DEF Account, Open
<1>10. Disabled'
  BY <1>2 DEF Disabled
<1>11. copy' \in [Groups -> {"none", "running", "done", "lost"}] /\ copy'[g] = "running"
       /\ \A h \in Groups \ {g} : copy'[h] = copy[h]
  BY <1>1 DEF Shape, Submitted
<1>12. ASSUME NEW t \in Threads, pc'[t] = pc[t] PROVE JobOK(t)'
  <2>1. JobOK(t) /\ job'[t] = job[t]
    BY DEF QueueInv
  <2>2. pc[t] # "closed" /\ ~(pc[t] \in Closers /\ job[t].back = "closed")
    BY <1>2, <2>1 DEF JobOK
  <2>3. pc[t] \in Blocking => job[t].group \in Groups /\ handle'[job[t].group].state = "open"
    BY <1>6, <1>7, <2>1 DEF JobOK, Open
  <2> QED BY <1>12, <2>1, <2>2, <2>3 DEF JobOK, Open
<1>13. ~Syncing(g)
  <2>1. ASSUME NEW t \in Threads, pc[t] = "consumers", job[t].group = g PROVE FALSE
    BY <2>1 DEF QueueInv, JobOK, Open, Blocking, Closers
  <2> QED BY <2>1 DEF Syncing
<1>14. ASSUME NEW h \in Groups PROVE GroupOK(h)'
  <2>1. CASE h = g
    BY <1>7, <1>13, <2>1 DEF GroupOK, Open
  <2>2. CASE h # g
    <3>1. GroupOK(h) /\ handle'[h] = handle[h] /\ copy'[h] = copy[h]
      BY <1>6, <1>11, <2>2 DEF QueueInv
    <3> QED BY <3>1 DEF GroupOK, Open
  <2> QED BY <2>1, <2>2
<1>15. ASSUME NEW h \in Groups, NEW s \in Streams PROVE UseOK(h, s)'
  <2>1. UseOK(h, s) /\ quarantine' = {} /\ stream' = stream
    BY <1>2 DEF QueueInv
  <2>2. CASE h = g
    <3>1. ~Contains(stream[s], Use(g))
      BY <1>2, <2>1, <2>2 DEF UseOK, Open
    <3> QED BY <2>1, <2>2, <3>1 DEF UseOK
  <2>3. CASE h # g
    <3>1. handle'[h] = handle[h]
      BY <1>6, <2>3
    <3> QED BY <2>1, <3>1 DEF UseOK, Open
  <2> QED BY <2>2, <2>3
<1>16. QED
  BY <1>6, <1>7, <1>8, <1>9, <1>10, <1>11, <1>12, <1>14, <1>15

LEMMA SubmitKeeps ==
  ASSUME QueueInv, NEW u \in Users, NEW g \in UserGroups, Submit(u, g)
  PROVE  QueueInv'
<1>1. g \in Groups /\ g \notin Range(WindowGroups)
  BY QueueConstants DEF Groups
<1>2. /\ handle[g].state = "new" /\ CanSubmit(g) /\ Submitted(g)
      /\ UNCHANGED <<closed, lock, pc, job, taken, handles, last, quarantine, stream>>
  BY DEF Submit, windowVars
<1>3. \A h \in Groups : Syncing(h)' => Syncing(h)
  BY <1>2 DEF Syncing
<1>4. /\ held' \in SUBSET Groups /\ IsFiniteSet(held')
      /\ handle' \in [Groups -> Handle]
      /\ handle'[g].state = "open" /\ ~handle'[g].released
      /\ \A h \in Groups \ {g} : handle'[h] = handle[h]
      /\ copy' \in [Groups -> {"none", "running", "done", "lost"}]
      /\ Account' /\ Disabled'
      /\ \A t \in Threads : pc'[t] = pc[t] => JobOK(t)'
      /\ \A h \in Groups : GroupOK(h)' /\ \A s \in Streams : UseOK(h, s)'
  BY <1>1, <1>2, <1>3, GroupSubmitted, Zenon
<1>5. Shape'
  BY <1>2, <1>4 DEF QueueInv, Shape
<1>6. LockOK'
  BY <1>2 DEF QueueInv, LockOK
<1>7. WindowOK'
  <2>1. \A h \in Range(WindowGroups) : h \in Groups \ {g} /\ (BeingClosed(h) => BeingClosed(h)')
    BY <1>1, <1>2 DEF Groups, BeingClosed
  <2>2. \A h \in Range(WindowGroups) :
           /\ handle[h].state = "new" => handle'[h].state = "new"
           /\ handle'[h].state = "open" /\ handle'[h].released =>
                \/ BeingClosed(h)'
                \/ Open(h) /\ handle[h].released /\ ~BeingClosed(h)
    BY <1>4, <2>1 DEF Open
  <2>3. UNCHANGED <<taken, last>> /\ pc'[Window] = pc[Window] /\ job'[Window] = job[Window]
    BY <1>2
  <2> QED BY <2>2, <2>3, WindowKeeps
<1>8. \A t \in Threads : JobOK(t)'
  BY <1>2, <1>4
<1>9. QED
  BY <1>4, <1>5, <1>6, <1>7, <1>8 DEF QueueInv

LEMMA NextSubmitsKeeps ==
  ASSUME QueueInv, NextSubmits
  PROVE  QueueInv'
<1>1. Shape /\ LockOK /\ Window \in Threads /\ taken \in Nat /\ Len(WindowGroups) \in Nat
  BY QueueConstants, LenProperties DEF QueueInv, Threads, Shape
<1>2. /\ UNCHANGED <<closed, lock, job, taken, quarantine, stream>>
      /\ pc[Window] = "submit" /\ pc[Window] \notin Blocking
  BY DEF NextSubmits, Blocking, Closers
<1>3. taken >= 1 /\ taken \in 1 .. Len(WindowGroups) /\ handle[Taken].state = "new"
  BY <1>1, <1>2 DEF QueueInv, WindowOK, Making, Shape
<1>4. CASE /\ CanSubmit(Taken) /\ Submitted(Taken)
           /\ handles' = Append(handles, Taken) /\ last' = Taken
           /\ Go(Window, "order")
  <2>1. PICK g : g = Taken
    OBVIOUS
  <2>2. g \in Range(WindowGroups) /\ g \in Groups
    BY QueueConstants, <1>3, <2>1 DEF Groups, Taken, Range
  <2>3. /\ handle[g].state = "new" /\ CanSubmit(g) /\ Submitted(g) /\ last' = g
        /\ handles' \in Seq(Groups) /\ pc' = [pc EXCEPT ![Window] = "order"]
    BY <1>1, <1>3, <1>4, <2>1, <2>2, AppendProperties DEF Go, Shape
  <2>4. /\ pc' \in [Threads -> PCs] /\ pc'[Window] = "order" /\ LockOK'
        /\ \A t \in Threads \ {Window} : pc'[t] = pc[t]
    <3>1. "order" \in PCs /\ "order" \notin Blocking
      BY DEF PCs, Blocking, Closers
    <3>2. LockOK' /\ pc' \in [Threads -> PCs]
      BY <1>1, <1>2, <2>3, <3>1, LockStays
    <3> QED BY <1>1, <2>3, <3>2 DEF Shape
  <2>5. \A h \in Groups : Syncing(h)' => Syncing(h)
    BY <1>2, <2>4 DEF Syncing
  <2>6. UNCHANGED <<closed, quarantine, stream, job>>
    BY <1>2
  <2>7. /\ held' \in SUBSET Groups /\ IsFiniteSet(held')
        /\ handle' \in [Groups -> Handle]
        /\ handle'[g].state = "open" /\ ~handle'[g].released
        /\ \A h \in Groups \ {g} : handle'[h] = handle[h]
        /\ copy' \in [Groups -> {"none", "running", "done", "lost"}]
        /\ Account' /\ Disabled'
        /\ \A t \in Threads : pc'[t] = pc[t] => JobOK(t)'
        /\ \A h \in Groups : GroupOK(h)' /\ \A s \in Streams : UseOK(h, s)'
    BY <2>2, <2>3, <2>5, <2>6, GroupSubmitted, Zenon
  <2>8. Shape'
    BY <1>1, <1>2, <2>2, <2>3, <2>4, <2>7 DEF Shape
  <2>9. WindowOK'
    <3>1. ASSUME NEW i \in taken + 1 .. Len(WindowGroups)
          PROVE  handle'[WindowGroups[i]].state = "new"
      <4>1. /\ i \in 1 .. Len(WindowGroups) /\ i # taken /\ WindowGroups[i] \in Groups
            /\ DOMAIN WindowGroups = 1 .. Len(WindowGroups)
        BY QueueConstants, <1>1, <1>3, LenProperties DEF Groups, Range
      <4>2. WindowGroups[i] # g
        BY QueueConstants, <1>3, <2>1, <4>1 DEF IsInjective, Taken
      <4> QED BY <2>7, <4>1, <4>2 DEF QueueInv, WindowOK
    <3>2. ~Making'
      BY <2>4 DEF Making, Closers
    <3>3. last' \in Range(WindowGroups) /\ ~handle'[last'].released
      BY <2>2, <2>3, <2>7
    <3> QED BY <1>2, <3>1, <3>2, <3>3 DEF WindowOK
  <2>10. JobOK(Window)'
    BY <2>4 DEF JobOK, Blocking, Closers
  <2>11. \A t \in Threads : JobOK(t)'
    BY <2>4, <2>7, <2>10
  <2> QED BY <2>4, <2>7, <2>8, <2>9, <2>11 DEF QueueInv
<1>5. CASE Go(Window, "exit") /\ UNCHANGED <<held, bytes, handle, copy, handles, last>>
  <2>1. pc' = [pc EXCEPT ![Window] = "exit"]
    BY <1>5 DEF Go
  <2>2. /\ "exit" \in {"next", "take", "room", "submit", "exit", "left"}
        /\ "exit" \notin {"room", "submit"}
        /\ handles' \in Seq(Groups) /\ last' \in Groups \cup {None}
        /\ taken' \in {taken, taken + 1} /\ taken' \in 0 .. Len(WindowGroups)
    BY <1>1, <1>2, <1>5 DEF Shape
  <2> QED BY <1>2, <1>5, <2>1, <2>2, WindowMovesKeeps
<1>6. QED
  BY <1>4, <1>5 DEF NextSubmits

(***************************************************************************)
(* Ordering a stream behind a group                                        *)
(***************************************************************************)
\* Nobody closes a group while the lock is free, or held by a wait().
LEMMA NobodyCloses ==
  ASSUME LockOK, lock = None \/ \E t \in Threads : lock = t /\ pc[t] = "wait", NEW g
  PROVE  ~BeingClosed(g) /\ ~Syncing(g)
BY QueueConstants DEF LockOK, BeingClosed, Syncing, Blocking, Closers

LEMMA ConsumerAdded ==
  ASSUME QueueInv, NEW g \in Groups, Open(g), ~handle[g].released, ~Syncing(g),
         NEW s0 \in Streams, handle' = [handle EXCEPT ![g].consumers = @ \cup {s0}],
         UNCHANGED <<closed, held, bytes, quarantine, copy, stream>>,
         \A h \in Groups : Syncing(h)' => Syncing(h)
  PROVE  /\ handle' \in [Groups -> Handle]
         /\ handle'[g].state = "open" /\ ~handle'[g].released
         /\ \A h \in Groups \ {g} : handle'[h] = handle[h]
         /\ Account' /\ Disabled'
         /\ \A t \in Threads : pc'[t] = pc[t] /\ job'[t] = job[t] => JobOK(t)'
         /\ \A h \in Groups : GroupOK(h)' /\ \A s \in Streams : UseOK(h, s)'
<1>1. Shape /\ Account /\ Disabled /\ handle[g] \in Handle
  BY DEF QueueInv, Shape
<1> DEFINE h1 == [handle[g] EXCEPT !.consumers = @ \cup {s0}]
<1>2. /\ h1 \in Handle /\ h1.state = handle[g].state /\ h1.released = handle[g].released
      /\ handle[g].consumers \subseteq h1.consumers
  BY <1>1 DEF Handle
<1>3. handle' = [handle EXCEPT ![g] = h1]
  OBVIOUS
<1> HIDE DEF h1
<1>4. /\ handle' \in [Groups -> Handle] /\ handle'[g] = h1
      /\ \A h \in Groups \ {g} : handle'[h] = handle[h]
  BY <1>1, <1>2, <1>3 DEF Shape
<1>5. /\ handle'[g].state = "open" /\ ~handle'[g].released
      /\ handle[g].consumers \subseteq handle'[g].consumers
  BY <1>2, <1>4 DEF Open
<1>6. \A h \in Groups : handle'[h].state = handle[h].state
  BY <1>4, <1>5 DEF Open
<1>7. Account' /\ Disabled'
  BY <1>1, <1>6 DEF Account, Disabled, Open
<1>8. ASSUME NEW t \in Threads, pc'[t] = pc[t], job'[t] = job[t] PROVE JobOK(t)'
  BY <1>6, <1>8 DEF QueueInv, JobOK, Open
<1>9. ASSUME NEW h \in Groups PROVE GroupOK(h)'
  <2>1. CASE h = g
    <3>1. copy[g] = "running" => ~Syncing(g)'
      OBVIOUS
    <3> QED BY <1>5, <2>1, <3>1 DEF GroupOK, Open
  <2>2. CASE h # g
    <3>1. GroupOK(h) /\ handle'[h] = handle[h] /\ copy'[h] = copy[h]
      BY <1>4, <2>2 DEF QueueInv
    <3> QED BY <3>1 DEF GroupOK, Open
  <2> QED BY <2>1, <2>2
<1>10. ASSUME NEW h \in Groups, NEW s \in Streams PROVE UseOK(h, s)'
  <2>1. UseOK(h, s) /\ quarantine' = quarantine /\ stream' = stream /\ (Syncing(h)' => Syncing(h))
    BY DEF QueueInv
  <2>2. CASE h = g
    BY <1>5, <2>1, <2>2 DEF UseOK, Open
  <2>3. CASE h # g
    <3>1. handle'[h] = handle[h]
      BY <1>4, <2>3
    <3> QED BY <2>1, <3>1 DEF UseOK, Open
  <2> QED BY <2>2, <2>3
<1>11. QED
  BY <1>4, <1>5, <1>7, <1>8, <1>9, <1>10

\* A user gets the tensors on its stream.
LEMMA UserOrders ==
  ASSUME QueueInv, NEW u \in Users, pc[u] \notin Closers, NEW g \in Groups,
         Open(g), ~handle[g].released, ~Syncing(g),
         NEW s0 \in Streams, handle' = [handle EXCEPT ![g].consumers = @ \cup {s0}],
         UNCHANGED <<closed, held, bytes, quarantine, copy, stream, taken, handles, last>>,
         \A t \in Threads \ {u} : pc'[t] = pc[t] /\ job'[t] = job[t],
         pc'[u] # "consumers", JobOK(u)', LockOK', lock' \in Threads \cup {None},
         pc' \in [Threads -> PCs], job' \in [Threads -> Job]
  PROVE  QueueInv'
<1>1. u \in Threads /\ Window \in Threads \ {u}
  BY QueueConstants DEF Threads
<1>2. \A h \in Groups : Syncing(h)' => Syncing(h)
  BY DEF Syncing
<1>3. UNCHANGED <<closed, held, bytes, quarantine, copy, stream>>
  OBVIOUS
<1>4. /\ handle' \in [Groups -> Handle]
      /\ handle'[g].state = "open" /\ ~handle'[g].released
      /\ \A h \in Groups \ {g} : handle'[h] = handle[h]
      /\ Account' /\ Disabled'
      /\ \A t \in Threads : pc'[t] = pc[t] /\ job'[t] = job[t] => JobOK(t)'
      /\ \A h \in Groups : GroupOK(h)' /\ \A s \in Streams : UseOK(h, s)'
  BY <1>2, <1>3, ConsumerAdded, Zenon
<1>5. Shape'
  BY <1>4 DEF QueueInv, Shape
<1>6. \A t \in Threads : JobOK(t)'
  BY <1>4
<1>7. WindowOK'
  <2>1. \A h \in Range(WindowGroups) : h \in Groups /\ (BeingClosed(h) => BeingClosed(h)')
    BY <1>1, ClosesGoOn DEF Groups
  <2>2. \A h \in Range(WindowGroups) :
           /\ handle[h].state = "new" => handle'[h].state = "new"
           /\ handle'[h].state = "open" /\ handle'[h].released =>
                \/ BeingClosed(h)'
                \/ Open(h) /\ handle[h].released /\ ~BeingClosed(h)
    BY <1>4, <2>1 DEF Open
  <2>3. UNCHANGED <<taken, last>> /\ pc'[Window] = pc[Window] /\ job'[Window] = job[Window]
    BY <1>1
  <2> QED BY <2>2, <2>3, WindowKeeps
<1>8. QED
  BY <1>4, <1>5, <1>6, <1>7 DEF QueueInv

LEMMA WaitStreamKeeps ==
  ASSUME QueueInv, NEW u \in Users, NEW g \in UserGroups, WaitStream(u, g)
  PROVE  QueueInv'
<1>1. g \in Groups /\ u \in Threads /\ Shape /\ LockOK
  BY DEF Groups, Threads, QueueInv
<1>2. PICK s0 \in Streams : handle' = [handle EXCEPT ![g].consumers = @ \cup {s0}]
  BY <1>1, QueueConstants DEF WaitStream
<1>3. /\ Open(g) /\ ~handle[g].released /\ lock = None /\ pc[u] = "idle"
      /\ UNCHANGED <<closed, held, bytes, quarantine, copy, stream, taken, handles, last>>
      /\ UNCHANGED <<lock, pc, job>>
  BY DEF WaitStream, queueVars, windowVars, gpuVars
<1>4. ~Syncing(g)
  BY <1>1, <1>3, NobodyCloses
<1>5. pc[u] \notin Closers /\ pc'[u] # "consumers"
  BY <1>3 DEF Closers
<1>6. JobOK(u)'
  BY <1>3 DEF JobOK, Closers, Blocking
<1>7. /\ LockOK' /\ lock' \in Threads \cup {None}
      /\ pc' \in [Threads -> PCs] /\ job' \in [Threads -> Job]
      /\ \A t \in Threads \ {u} : pc'[t] = pc[t] /\ job'[t] = job[t]
  BY <1>1, <1>3 DEF Shape, LockOK
<1>8. QED
  BY <1>1, <1>2, <1>3, <1>4, <1>5, <1>6, <1>7, UserOrders

LEMMA WaitReturnsKeeps ==
  ASSUME QueueInv, NEW u \in Users, WaitReturns(u)
  PROVE  QueueInv'
<1>1. u \in Threads /\ Shape /\ LockOK
  BY DEF Threads, QueueInv
<1>2. /\ pc[u] = "wait" /\ pc' = [pc EXCEPT ![u] = "idle"] /\ lock' = None
      /\ job' = [job EXCEPT ![u] = NoJob]
      /\ UNCHANGED <<closed, held, bytes, quarantine, copy, stream, taken, handles, last>>
  BY DEF WaitReturns, Go, queueVars, windowVars, gpuVars
<1>3. PICK g : g = job[u].group
  OBVIOUS
<1>4. g \in Groups /\ Open(g) /\ lock = u
  BY <1>1, <1>2, <1>3 DEF QueueInv, JobOK, Blocking, LockOK
<1>5. ~Syncing(g)
  BY <1>1, <1>2, <1>4, NobodyCloses
<1>6. pc[u] \notin Closers /\ pc[u] \in {"idle", "wait"}
  BY <1>2 DEF Closers
<1>7. LockOK' /\ lock' \in Threads \cup {None} /\ pc' \in [Threads -> PCs]
  <2>1. "idle" \in PCs /\ "idle" \notin Blocking /\ lock \in {None, u}
    BY <1>4 DEF PCs, Blocking, Closers
  <2> QED BY <1>1, <1>2, <2>1, LockMoves
<1>8. NoJob \in Job
  BY DEF NoJob, Job
<1>9. /\ job' \in [Threads -> Job] /\ pc'[u] = "idle"
      /\ \A t \in Threads \ {u} : pc'[t] = pc[t] /\ job'[t] = job[t]
  BY <1>1, <1>2, <1>8 DEF Shape
<1>10. JobOK(u)' /\ pc'[u] # "consumers"
  BY <1>9 DEF JobOK, Closers, Blocking
<1>11. CASE handle' = handle
  <2>1. Shape'
    BY <1>1, <1>2, <1>7, <1>9, <1>11 DEF Shape
  <2>2. UNCHANGED <<held, bytes, handle, quarantine, copy, stream, taken, last>> /\ (closed => closed')
    BY <1>2, <1>11
  <2> QED BY <1>6, <1>7, <1>9, <1>10, <2>1, <2>2, UserControlKeeps
<1>12. CASE handle' # handle
  <2>1. PICK s0 \in Streams : handle' = [handle EXCEPT ![g].consumers = @ \cup {s0}]
    BY <1>1, <1>3, <1>12, QueueConstants DEF WaitReturns
  <2>2. ~handle[g].released
    BY <1>3, <1>12 DEF WaitReturns
  <2> QED BY <1>2, <1>4, <1>5, <1>6, <1>7, <1>9, <1>10, <2>1, <2>2, UserOrders
<1>13. QED
  BY <1>11, <1>12

LEMMA NextOrdersKeeps ==
  ASSUME QueueInv, NextOrders
  PROVE  QueueInv'
<1>1. Shape /\ LockOK /\ Window \in Threads
  BY DEF QueueInv, Threads
<1>2. /\ UNCHANGED <<closed, held, bytes, quarantine, copy, stream, taken, handles, last>>
      /\ UNCHANGED <<lock, job>> /\ pc[Window] = "order" /\ lock = None
      /\ pc[Window] \notin Blocking
  BY DEF NextOrders, queueVars, windowVars, gpuVars, Blocking, Closers
<1>3. CASE Open(last) /\ Go(Window, "consume")
           /\ handle' = [handle EXCEPT ![last].consumers = @ \cup {StreamOf[Window]}]
  <2>1. PICK g : g = last
    OBVIOUS
  <2>2. /\ g \in Range(WindowGroups) /\ g \in Groups /\ Open(g)
        /\ handle[g].released => BeingClosed(g)
    BY <1>2, <1>3, <2>1 DEF QueueInv, WindowOK, Groups
  <2>3. ~Syncing(g) /\ ~handle[g].released
    BY <1>1, <1>2, <2>2, NobodyCloses
  <2>4. PICK s0 \in Streams : handle' = [handle EXCEPT ![g].consumers = @ \cup {s0}]
    BY <1>1, <1>3, <2>1, QueueConstants
  <2>5. LockOK' /\ pc' \in [Threads -> PCs] /\ pc' = [pc EXCEPT ![Window] = "consume"]
    <3>1. "consume" \in PCs /\ "consume" \notin Blocking /\ pc' = [pc EXCEPT ![Window] = "consume"]
      BY <1>3 DEF PCs, Blocking, Closers, Go
    <3> QED BY <1>1, <1>2, <3>1, LockStays
  <2>6. pc'[Window] = "consume" /\ \A t \in Threads \ {Window} : pc'[t] = pc[t]
    BY <1>1, <2>5 DEF Shape
  <2>7. /\ \A h \in Groups : Syncing(h)' => Syncing(h)
        /\ UNCHANGED <<closed, held, bytes, quarantine, copy, stream>>
    BY <1>2, <2>6 DEF Syncing
  <2>8. /\ handle' \in [Groups -> Handle]
        /\ handle'[g].state = "open" /\ ~handle'[g].released
        /\ \A h \in Groups \ {g} : handle'[h] = handle[h]
        /\ Account' /\ Disabled'
        /\ \A t \in Threads : pc'[t] = pc[t] /\ job'[t] = job[t] => JobOK(t)'
        /\ \A h \in Groups : GroupOK(h)' /\ \A s \in Streams : UseOK(h, s)'
    BY <2>2, <2>3, <2>4, <2>7, ConsumerAdded, Zenon
  <2>9. Shape'
    BY <1>1, <1>2, <2>5, <2>8 DEF Shape
  <2>10. JobOK(Window)'
    BY <2>6 DEF JobOK, Closers, Blocking
  <2>11. \A t \in Threads : JobOK(t)'
    BY <1>2, <2>6, <2>8, <2>10
  <2>12. WindowOK'
    <3>1. ASSUME NEW i \in taken + 1 .. Len(WindowGroups)
          PROVE  handle'[WindowGroups[i]].state = "new"
      <4>1. handle[WindowGroups[i]].state = "new"
        BY DEF QueueInv, WindowOK
      <4>2. WindowGroups[i] \in Groups
        <5>1. taken \in Nat /\ Len(WindowGroups) \in Nat
          BY QueueConstants, LenProperties, <1>1 DEF Shape
        <5>2. i \in 1 .. Len(WindowGroups)
          BY <5>1
        <5> QED BY <5>2, QueueConstants, ElementOfSeq DEF Groups
      <4> QED BY <2>2, <2>8, <4>1, <4>2 DEF Open
    <3>2. ~Making' /\ pc'[Window] # "order"
      BY <2>6 DEF Making, Closers
    <3> QED BY <1>2, <3>1, <3>2 DEF WindowOK
  <2> QED BY <2>5, <2>8, <2>9, <2>11, <2>12 DEF QueueInv
<1>4. CASE Go(Window, "exit") /\ UNCHANGED handle
  <2>1. pc' = [pc EXCEPT ![Window] = "exit"]
    BY <1>4 DEF Go
  <2>2. /\ "exit" \in {"next", "take", "room", "submit", "exit", "left"}
        /\ "exit" \notin {"room", "submit"}
        /\ handles' \in Seq(Groups) /\ last' \in Groups \cup {None}
        /\ taken' \in {taken, taken + 1} /\ taken' \in 0 .. Len(WindowGroups)
    BY <1>1, <1>2 DEF Shape
  <2> QED BY <1>2, <1>4, <2>1, <2>2, WindowMovesKeeps
<1>5. QED
  BY <1>3, <1>4 DEF NextOrders

(***************************************************************************)
(* Releasing a group                                                       *)
(***************************************************************************)
\* What release() leaves: the same handle, and marks on some of its streams,
\* on all of them once it is released.
LEMMA ReleaseLeaves ==
  ASSUME Shape, NEW g \in Groups, NEW failed \in BOOLEAN, Released(g, failed),
         GroupOK(g), Open(g)
  PROVE  \/ UNCHANGED <<handle, stream>>
         \/ \E h1 \in Handle, S \in SUBSET Streams :
              /\ handle' = [handle EXCEPT ![g] = h1]
              /\ stream' = Enqueued(Mark(g), S)
              /\ h1.state = "open" /\ h1.consumers = handle[g].consumers
              /\ h1.released => h1.retired = h1.consumers /\ S = h1.consumers
<1>1. handle[g] \in Handle
  BY DEF Shape
<1>2. CASE ~failed /\ handle[g].released
  BY <1>2 DEF Released
<1>3. CASE ~failed /\ ~handle[g].released
  <2> DEFINE h1 == [handle[g] EXCEPT !.released = TRUE, !.retired = handle[g].consumers]
             S == handle[g].consumers
  <2>1. /\ h1 \in Handle /\ S \in SUBSET Streams
        /\ h1.state = "open" /\ h1.consumers = handle[g].consumers
        /\ h1.retired = h1.consumers
    BY <1>1 DEF Handle, Open
  <2>2. handle' = [handle EXCEPT ![g] = h1] /\ stream' = Enqueued(Mark(g), S)
    BY <1>3 DEF Released
  <2>3. S = h1.consumers
    BY <2>1
  <2> HIDE DEF h1, S
  <2> QED BY <2>1, <2>2, <2>3
<1>4. CASE failed
  <2>1. PICK S \in SUBSET handle[g].consumers :
           /\ handle' = [handle EXCEPT ![g].retired = @ \cup S]
           /\ stream' = Enqueued(Mark(g), S)
    BY <1>4 DEF Released
  <2> DEFINE h1 == [handle[g] EXCEPT !.retired = @ \cup S]
  <2>2. ~handle[g].released
    BY <1>4 DEF Released
  <2>3. /\ h1 \in Handle /\ S \in SUBSET Streams
        /\ h1.state = "open" /\ h1.consumers = handle[g].consumers
        /\ h1.released = handle[g].released
    BY <1>1, <2>1 DEF Handle, Open
  <2>4. handle' = [handle EXCEPT ![g] = h1]
    BY <2>1
  <2> HIDE DEF h1
  <2> QED BY <2>1, <2>2, <2>3, <2>4
<1>5. QED
  BY <1>2, <1>3, <1>4

\* A thread goes on closing the same handle, in the same close().
SameClose(t) == /\ job'[t].group = job[t].group /\ job'[t].todo = job[t].todo
                /\ job'[t].back = job[t].back

LEMMA GroupReleased ==
  ASSUME QueueInv, NEW g \in Groups, Open(g), NEW failed \in BOOLEAN, Released(g, failed),
         UNCHANGED <<closed, held, bytes, quarantine, copy>>,
         \A h \in Groups : Syncing(h)' => Syncing(h)
  PROVE  /\ handle' \in [Groups -> Handle] /\ stream' \in [Streams -> Seq(Work)]
         /\ handle'[g].state = "open"
         /\ \A h \in Groups \ {g} : handle'[h] = handle[h]
         /\ Account' /\ Disabled'
         /\ \A t \in Threads :
           pc'[t] = pc[t] /\ SameClose(t) => JobOK(t)'
         /\ \A h \in Groups : GroupOK(h)' /\ \A s \in Streams : UseOK(h, s)'
<1>1. Shape /\ Account /\ Disabled /\ GroupOK(g)
  BY DEF QueueInv
<1> DEFINE Same == UNCHANGED <<handle, stream>>
<1>2. /\ handle' \in [Groups -> Handle] /\ stream' \in [Streams -> Seq(Work)]
      /\ handle'[g].state = "open"
      /\ \A h \in Groups \ {g} : handle'[h] = handle[h]
      /\ \A h \in Groups : GroupOK(h)' /\ \A s \in Streams : UseOK(h, s)'
  <2>1. CASE Same
    <3>1. \A h \in Groups : GroupOK(h)' /\ \A s \in Streams : UseOK(h, s)'
      BY <2>1, GroupsStay
    <3> QED BY <1>1, <2>1, <3>1 DEF Shape, Open
  <2>2. CASE ~Same
    <3>1. PICK h1 \in Handle, S \in SUBSET Streams :
             /\ handle' = [handle EXCEPT ![g] = h1]
             /\ stream' = Enqueued(Mark(g), S)
             /\ h1.state = "open" /\ h1.consumers = handle[g].consumers
             /\ h1.released => h1.retired = h1.consumers /\ S = h1.consumers
      BY <1>1, <2>2, ReleaseLeaves
    <3>2. /\ handle' \in [Groups -> Handle] /\ handle'[g] = h1
          /\ \A h \in Groups \ {g} : handle'[h] = handle[h]
      BY <1>1, <3>1 DEF Shape
    <3>3. /\ stream' \in [Streams -> Seq(Work)]
          /\ \A s \in S : Followed(g, stream'[s])
          /\ \A h \in Groups, s \in Streams :
               /\ Contains(stream'[s], Use(h)) => Contains(stream[s], Use(h))
               /\ Followed(h, stream[s]) => Followed(h, stream'[s])
      BY <1>1, <3>1, MarksEnqueued
    <3>4. ASSUME NEW h \in Groups PROVE GroupOK(h)'
      <4>1. GroupOK(h) /\ (Syncing(h)' => Syncing(h)) /\ copy' = copy
        BY DEF QueueInv
      <4>2. CASE h = g
        BY <3>1, <3>2, <4>1, <4>2 DEF GroupOK, Open
      <4>3. CASE h # g
        <5>1. handle'[h] = handle[h]
          BY <3>2, <4>3
        <5> QED BY <4>1, <5>1 DEF GroupOK, Open
      <4> QED BY <4>2, <4>3
    <3>5. ASSUME NEW h \in Groups, NEW s \in Streams PROVE UseOK(h, s)'
      <4>1. /\ UseOK(h, s) /\ (Syncing(h)' => Syncing(h)) /\ quarantine' = quarantine
            /\ Contains(stream'[s], Use(h)) => Contains(stream[s], Use(h))
            /\ Followed(h, stream[s]) => Followed(h, stream'[s])
        BY <3>3 DEF QueueInv
      <4>2. CASE h = g
        <5>1. CASE handle'[g].released
          <6>1. s \in handle'[g].consumers => Followed(g, stream'[s])
            BY <3>1, <3>2, <3>3, <5>1
          <6> QED BY <3>1, <3>2, <4>1, <4>2, <6>1 DEF UseOK, Open
        <5>2. CASE ~handle'[g].released
          BY <3>1, <3>2, <4>1, <4>2, <5>2 DEF UseOK, Open
        <5> QED BY <5>1, <5>2
      <4>3. CASE h # g
        <5>1. handle'[h] = handle[h]
          BY <3>2, <4>3
        <5> QED BY <4>1, <5>1 DEF UseOK, Open
      <4> QED BY <4>2, <4>3
    <3> QED BY <3>1, <3>2, <3>3, <3>4, <3>5
  <2> QED BY <2>1, <2>2
<1>3. \A h \in Groups : handle'[h].state = handle[h].state
  BY <1>2 DEF Open
<1>4. Account' /\ Disabled'
  BY <1>1, <1>3 DEF Account, Disabled, Open
<1>5. ASSUME NEW t \in Threads, pc'[t] = pc[t], SameClose(t)
      PROVE  JobOK(t)'
  <2>1. JobOK(t) /\ closed' = closed /\ held' = held
    BY DEF QueueInv
  <2>2. pc'[t] \in Blocking => job'[t].group \in Groups /\ handle'[job'[t].group].state = "open"
    BY <1>3, <1>5, <2>1 DEF JobOK, Open, SameClose
  <2>3. pc'[t] \in Closers /\ job'[t].back = "closed" =>
          closed' /\ held' \subseteq job'[t].todo \cup {job'[t].group}
    BY <1>5, <2>1 DEF JobOK, SameClose
  <2>4. pc'[t] = "closed" => closed' /\ held' = {}
    BY <1>5, <2>1 DEF JobOK
  <2> QED BY <2>2, <2>3, <2>4 DEF JobOK, Open
<1>6. QED
  BY <1>2, <1>4, <1>5

LEMMA ReleaseKeeps ==
  ASSUME QueueInv, NEW u \in Users, NEW g \in UserGroups, Release(u, g)
  PROVE  QueueInv'
<1>1. g \in Groups /\ g \notin Range(WindowGroups)
  BY QueueConstants DEF Groups
<1>2. /\ Open(g)
      /\ UNCHANGED <<closed, held, bytes, quarantine, copy>>
      /\ UNCHANGED <<lock, pc, job, taken, handles, last>>
  BY DEF Release, queueVars, windowVars
<1>3. PICK failed \in BOOLEAN : Released(g, failed)
  BY DEF Release
<1>4. \A h \in Groups : (Syncing(h)' => Syncing(h)) /\ (BeingClosed(h) => BeingClosed(h)')
  BY <1>2 DEF Syncing, BeingClosed
<1>5. /\ handle' \in [Groups -> Handle] /\ stream' \in [Streams -> Seq(Work)]
      /\ handle'[g].state = "open"
      /\ \A h \in Groups \ {g} : handle'[h] = handle[h]
      /\ Account' /\ Disabled'
      /\ \A t \in Threads :
           pc'[t] = pc[t] /\ SameClose(t) => JobOK(t)'
      /\ \A h \in Groups : GroupOK(h)' /\ \A s \in Streams : UseOK(h, s)'
  BY <1>1, <1>2, <1>3, <1>4, GroupReleased, Zenon
<1>6. Shape' /\ LockOK'
  BY <1>2, <1>5 DEF QueueInv, Shape, LockOK
<1>7. \A t \in Threads : JobOK(t)'
  BY <1>2, <1>5 DEF SameClose
<1>8. WindowOK'
  <2>1. \A h \in Range(WindowGroups) : h \in Groups \ {g}
    BY <1>1 DEF Groups
  <2>2. \A h \in Range(WindowGroups) :
           /\ handle[h].state = "new" => handle'[h].state = "new"
           /\ handle'[h].state = "open" /\ handle'[h].released =>
                \/ BeingClosed(h)'
                \/ Open(h) /\ handle[h].released /\ ~BeingClosed(h)
    BY <1>4, <1>5, <2>1 DEF Open
  <2>3. UNCHANGED <<taken, last>> /\ pc'[Window] = pc[Window] /\ job'[Window] = job[Window]
    BY <1>2
  <2> QED BY <2>2, <2>3, WindowKeeps
<1>9. QED
  BY <1>5, <1>6, <1>7, <1>8 DEF QueueInv

LEMMA CloseReleasesKeeps ==
  ASSUME QueueInv, NEW t \in Threads, CloseReleases(t)
  PROVE  QueueInv'
<1>1. Shape /\ LockOK /\ JobOK(t)
  BY DEF QueueInv
<1>2. /\ UNCHANGED <<closed, held, bytes, quarantine, copy>>
      /\ UNCHANGED <<lock, taken, handles, last>>
      /\ pc[t] = "release" /\ pc' = [pc EXCEPT ![t] = "producer"]
  BY DEF CloseReleases, queueVars, windowVars, Go
<1> PICK g : g = job[t].group
  OBVIOUS
<1>3. PICK failed \in BOOLEAN :
        /\ g = job[t].group /\ Released(g, failed)
        /\ job' = [job EXCEPT ![t].failed = @ \/ failed]
  BY DEF CloseReleases
<1>4. g \in Groups /\ Open(g)
  BY <1>1, <1>2, <1>3 DEF JobOK, Blocking, Closers
<1>5. LockOK' /\ pc' \in [Threads -> PCs]
  <2>1. "producer" \in PCs /\ pc[t] \in Blocking /\ "producer" \in Blocking
    BY <1>2 DEF PCs, Blocking, Closers
  <2> QED BY <1>1, <1>2, <2>1, LockStays
<1>6. pc'[t] = "producer" /\ \A u \in Threads \ {t} : pc'[u] = pc[u]
  BY <1>1, <1>2 DEF Shape
<1>7. /\ job' \in [Threads -> Job]
      /\ \A u \in Threads : SameClose(u)
  <2>1. job[t] \in Job
    BY <1>1 DEF Shape
  <2> DEFINE j1 == [job[t] EXCEPT !.failed = @ \/ failed]
  <2>2. /\ j1 \in Job /\ j1.group = job[t].group /\ j1.todo = job[t].todo
        /\ j1.back = job[t].back
    BY <2>1 DEF Job
  <2>3. job' = [job EXCEPT ![t] = j1]
    BY <1>3
  <2> HIDE DEF j1
  <2> QED BY <1>1, <2>2, <2>3 DEF Shape, SameClose
<1>8. \A h \in Groups : (Syncing(h)' => Syncing(h)) /\ (BeingClosed(h) => BeingClosed(h)')
  BY <1>2, <1>6, <1>7 DEF Syncing, BeingClosed, SameClose
<1>9. /\ handle' \in [Groups -> Handle] /\ stream' \in [Streams -> Seq(Work)]
      /\ handle'[g].state = "open"
      /\ \A h \in Groups \ {g} : handle'[h] = handle[h]
      /\ Account' /\ Disabled'
      /\ \A u \in Threads :
           pc'[u] = pc[u] /\ SameClose(u) => JobOK(u)'
      /\ \A h \in Groups : GroupOK(h)' /\ \A s \in Streams : UseOK(h, s)'
  BY <1>2, <1>3, <1>4, <1>8, GroupReleased, Zenon
<1>10. Shape'
  BY <1>1, <1>2, <1>5, <1>7, <1>9 DEF Shape
<1>11. JobOK(t)'
  <2>1. handle'[job'[t].group].state = "open" /\ job'[t].group \in Groups
    BY <1>3, <1>4, <1>7, <1>9 DEF SameClose
  <2>2. job'[t].back = "closed" => closed' /\ held' \subseteq job'[t].todo \cup {job'[t].group}
    BY <1>1, <1>2, <1>7 DEF JobOK, Closers, SameClose
  <2> QED BY <1>6, <2>1, <2>2 DEF JobOK, Open
<1>12. \A u \in Threads : JobOK(u)'
  BY <1>6, <1>7, <1>9, <1>11
<1>13. WindowOK'
  <2>1. Making' => Making
    <3>1. CASE t = Window
      BY <1>2, <1>6, <1>7, <3>1 DEF Making, Closers, SameClose
    <3>2. CASE t # Window
      <4>1. pc'[Window] = pc[Window] /\ job'[Window].back = job[Window].back
        BY <1>6, <1>7, <3>2 DEF Threads, SameClose
      <4> QED BY <4>1 DEF Making
    <3> QED BY <3>1, <3>2
  <2>2. pc'[Window] = "order" => pc[Window] = "order"
    BY <1>6 DEF Threads
  <2>3. ASSUME NEW h \in Range(WindowGroups)
        PROVE  /\ handle[h].state = "new" => handle'[h].state = "new"
               /\ handle'[h].state = "open" /\ handle'[h].released =>
                    \/ BeingClosed(h)'
                    \/ Open(h) /\ handle[h].released /\ ~BeingClosed(h)
    <3>1. CASE h = g
      <4>1. pc'[t] \in {"release", "producer", "consumers"} /\ job'[t].group = h
        BY <1>3, <1>6, <1>7, <3>1 DEF SameClose
      <4> QED BY <1>4, <3>1, <4>1 DEF BeingClosed, Open
    <3>2. CASE h # g
      <4>1. h \in Groups /\ handle'[h] = handle[h]
        BY <1>9, <3>2 DEF Groups
      <4> QED BY <1>8, <4>1 DEF Open
    <3> QED BY <3>1, <3>2
  <2> QED BY <1>2, <2>1, <2>2, <2>3, WindowGoesOn
<1>14. QED
  BY <1>5, <1>9, <1>10, <1>12, <1>13 DEF QueueInv

LEMMA NextReleasesKeeps ==
  ASSUME QueueInv, NextReleases
  PROVE  QueueInv'
<1>1. Shape /\ LockOK /\ Window \in Threads
  BY DEF QueueInv, Threads
<1>2. /\ UNCHANGED <<closed, held, bytes, quarantine, copy>>
      /\ UNCHANGED <<lock, job, taken, handles>> /\ pc[Window] = "next"
      /\ pc[Window] \notin Blocking
  BY DEF NextReleases, queueVars, Blocking, Closers
<1>3. PICK p \in {"take", "exit"} : pc' = [pc EXCEPT ![Window] = p]
  BY DEF NextReleases, Go
<1>4. last' \in Groups \cup {None}
  BY <1>1 DEF NextReleases, Shape
<1>5. CASE UNCHANGED <<handle, stream>>
  <2>1. /\ p \in {"next", "take", "room", "submit", "exit", "left"}
        /\ p \notin {"room", "submit"} /\ handles' \in Seq(Groups)
        /\ taken' \in {taken, taken + 1} /\ taken' \in 0 .. Len(WindowGroups)
    BY <1>1, <1>2 DEF Shape
  <2> QED BY <1>2, <1>3, <1>4, <1>5, <2>1, WindowMovesKeeps
<1>6. CASE ~UNCHANGED <<handle, stream>>
  <2> PICK g : g = last
    OBVIOUS
  <2>1. lock = None /\ Open(g) /\ last # None /\ \E failed \in BOOLEAN : Released(g, failed)
    <3>1. last # None /\ lock = None /\ Open(last)
      BY <1>6 DEF NextReleases
    <3>2. Released(last, FALSE) \/ Released(last, TRUE)
      BY <1>6, <3>1 DEF NextReleases
    <3>3. Released(g, FALSE) \/ Released(g, TRUE)
      BY <3>2
    <3> QED BY <3>1, <3>3
  <2>2. PICK failed \in BOOLEAN : Released(g, failed)
    BY <2>1
  <2>3. g \in Groups
    BY <1>1, <2>1 DEF Shape
  <2>4. LockOK' /\ pc' \in [Threads -> PCs]
    <3>1. p \in PCs /\ p \notin Blocking
      BY DEF PCs, Blocking, Closers
    <3> QED BY <1>1, <1>2, <1>3, <3>1, LockStays
  <2>5. pc'[Window] = p /\ \A t \in Threads \ {Window} : pc'[t] = pc[t]
    BY <1>1, <1>3 DEF Shape
  <2>6. \A h \in Groups : Syncing(h)' => Syncing(h)
    BY <1>2, <2>5 DEF Syncing
  <2>7. UNCHANGED <<closed, held, bytes, quarantine, copy>>
    BY <1>2
  <2>8. /\ handle' \in [Groups -> Handle] /\ stream' \in [Streams -> Seq(Work)]
        /\ handle'[g].state = "open"
        /\ \A h \in Groups \ {g} : handle'[h] = handle[h]
        /\ Account' /\ Disabled'
        /\ \A t \in Threads :
             pc'[t] = pc[t] /\ SameClose(t) => JobOK(t)'
        /\ \A h \in Groups : GroupOK(h)' /\ \A s \in Streams : UseOK(h, s)'
    BY <2>1, <2>2, <2>3, <2>6, <2>7, GroupReleased, Zenon
  <2>9. Shape'
    BY <1>1, <1>2, <1>4, <2>4, <2>8 DEF Shape
  <2>10. JobOK(Window)'
    BY <2>5 DEF JobOK, Closers, Blocking
  <2>11. \A t \in Threads : JobOK(t)'
    BY <1>2, <2>5, <2>8, <2>10 DEF SameClose
  <2>12. WindowOK'
    <3>1. ASSUME NEW i \in taken + 1 .. Len(WindowGroups)
          PROVE  handle'[WindowGroups[i]].state = "new"
      <4>1. handle[WindowGroups[i]].state = "new"
        BY DEF QueueInv, WindowOK
      <4>2. WindowGroups[i] \in Groups
        <5>1. taken \in Nat /\ Len(WindowGroups) \in Nat
          BY QueueConstants, LenProperties, <1>1 DEF Shape
        <5>2. i \in 1 .. Len(WindowGroups)
          BY <5>1
        <5> QED BY <5>2, QueueConstants, ElementOfSeq DEF Groups
      <4> QED BY <2>1, <2>8, <4>1, <4>2 DEF Open
    <3>2. ~Making' /\ pc'[Window] # "order"
      BY <2>5 DEF Making, Closers
    <3> QED BY <1>2, <3>1, <3>2 DEF WindowOK
  <2> QED BY <2>4, <2>8, <2>9, <2>11, <2>12 DEF QueueInv
<1>7. QED
  BY <1>5, <1>6

(***************************************************************************)
(* The GPU                                                                 *)
(***************************************************************************)
\* A use of a group that is open, given out, and not being closed.
LEMMA ConsumeKeeps ==
  ASSUME QueueInv, NEW t \in Threads, NEW g \in Groups, Consume(t, g)
  PROVE  QueueInv'
<1>1. Shape
  BY DEF QueueInv
<1> PICK s0 : s0 = StreamOf[t]
  OBVIOUS
<1>2. /\ s0 \in Streams /\ stream[s0] \in Seq(Work)
      /\ Open(g) /\ ~BeingClosed(g) /\ ~handle[g].released /\ s0 \in handle[g].consumers
      /\ UNCHANGED <<closed, held, bytes, lock, handle, pc, job, taken, handles, last,
                     quarantine, copy>>
  BY <1>1, QueueConstants DEF Consume, queueVars, windowVars, Shape
<1>3. \A s \in Streams :
        stream'[s] = IF s = s0 THEN Append(stream[s], Use(g)) ELSE stream[s]
  BY DEF Consume, Enqueued
<1>4. /\ Append(stream[s0], Use(g)) \in Seq(Work)
      /\ \A h \in Groups \ {g} :
           /\ Contains(Append(stream[s0], Use(g)), Use(h)) => Contains(stream[s0], Use(h))
           /\ Followed(h, stream[s0]) => Followed(h, Append(stream[s0], Use(g)))
  BY <1>2, UseAppended
<1>5. stream' \in [Streams -> Seq(Work)]
  <2>1. stream' = [s \in Streams |-> stream'[s]]
    BY DEF Consume, Enqueued
  <2>2. \A s \in Streams : stream'[s] \in Seq(Work)
    BY <1>1, <1>3, <1>4 DEF Shape
  <2> QED BY <2>1, <2>2
<1>6. Shape'
  BY <1>1, <1>2, <1>5 DEF Shape
<1>7. LockOK' /\ (\A u \in Threads : JobOK(u)') /\ WindowOK' /\ Account' /\ Disabled'
  BY <1>2 DEF QueueInv, LockOK, JobOK, WindowOK, Making, Taken, BeingClosed, Account, Disabled, Open
<1>8. ~Syncing(g)
  BY <1>2 DEF Syncing, BeingClosed
<1>9. \A h \in Groups : Syncing(h)' <=> Syncing(h)
  BY <1>2 DEF Syncing
<1>10. ASSUME NEW h \in Groups PROVE GroupOK(h)'
  BY <1>2, <1>9 DEF QueueInv, GroupOK, Open
<1>11. ASSUME NEW h \in Groups, NEW s \in Streams PROVE UseOK(h, s)'
  <2>1. UseOK(h, s) /\ (Syncing(h)' <=> Syncing(h)) /\ handle' = handle /\ quarantine' = quarantine
    BY <1>2, <1>9 DEF QueueInv
  <2>2. CASE s # s0
    <3>1. stream'[s] = stream[s]
      BY <1>3, <2>2
    <3> QED BY <2>1, <3>1 DEF UseOK, Open
  <2>3. CASE s = s0 /\ h = g
    <3>1. Open(h)' /\ s \in handle'[h].consumers /\ ~handle'[h].released /\ ~Syncing(h)'
      BY <1>2, <1>8, <2>1, <2>3 DEF Open
    <3> QED BY <3>1 DEF UseOK
  <2>4. CASE s = s0 /\ h # g
    <3>1. stream'[s] = Append(stream[s0], Use(g))
      BY <1>3, <2>4
    <3>2. /\ Contains(stream'[s], Use(h)) => Contains(stream[s], Use(h))
          /\ Followed(h, stream[s]) => Followed(h, stream'[s])
      BY <1>4, <2>4, <3>1
    <3> QED BY <2>1, <3>2 DEF UseOK, Open
  <2> QED BY <2>2, <2>3, <2>4
<1>12. QED
  BY <1>6, <1>7, <1>10, <1>11 DEF QueueInv

LEMMA CopyEndsKeeps ==
  ASSUME QueueInv, NEW g \in Groups, CopyEnds(g)
  PROVE  QueueInv'
<1>1. Shape
  BY DEF QueueInv
<1>2. UNCHANGED <<closed, held, bytes, lock, handle, pc, job, taken, handles, last,
                  quarantine, stream>>
  BY DEF CopyEnds, queueVars, windowVars
<1>3. PICK c \in {"done", "lost"} : copy' = [copy EXCEPT ![g] = c]
  BY DEF CopyEnds
<1>4. /\ copy' \in [Groups -> {"none", "running", "done", "lost"}]
      /\ \A h \in Groups : copy'[h] = "running" => copy[h] = "running"
  BY <1>1, <1>3 DEF Shape
<1>5. Shape'
  BY <1>1, <1>2, <1>4 DEF Shape
<1>6. LockOK' /\ (\A u \in Threads : JobOK(u)') /\ WindowOK' /\ Account' /\ Disabled'
  BY <1>2 DEF QueueInv, LockOK, JobOK, WindowOK, Making, Taken, BeingClosed, Account, Disabled, Open
<1>7. \A h \in Groups : Syncing(h)' <=> Syncing(h)
  BY <1>2 DEF Syncing
<1>8. ASSUME NEW h \in Groups PROVE GroupOK(h)' /\ \A s \in Streams : UseOK(h, s)'
  <2>1. GroupOK(h) /\ \A s \in Streams : UseOK(h, s)
    BY DEF QueueInv
  <2>2. GroupOK(h)'
    BY <1>2, <1>4, <1>7, <2>1 DEF GroupOK, Open
  <2>3. \A s \in Streams : UseOK(h, s)'
    BY <1>2, <1>7, <2>1 DEF UseOK, Open
  <2> QED BY <2>2, <2>3
<1>9. QED
  BY <1>5, <1>6, <1>8 DEF QueueInv

LEMMA StreamRunsKeeps ==
  ASSUME QueueInv, NEW s0 \in Streams, StreamRuns(s0)
  PROVE  QueueInv'
<1>1. Shape
  BY DEF QueueInv
<1>2. UNCHANGED <<closed, held, bytes, lock, handle, pc, job, taken, handles, last,
                  quarantine, copy>>
  BY DEF StreamRuns, queueVars, windowVars
<1>3. /\ stream[s0] \in Seq(Work) /\ stream[s0] # <<>>
      /\ stream' = [stream EXCEPT ![s0] = Tail(stream[s0])]
  BY <1>1 DEF StreamRuns, Shape
<1>4. \A h \in Groups :
        /\ Tail(stream[s0]) \in Seq(Work)
        /\ Contains(Tail(stream[s0]), Use(h)) => Contains(stream[s0], Use(h))
        /\ Followed(h, stream[s0]) => Followed(h, Tail(stream[s0]))
  BY <1>3, HeadRan
<1>5. Tail(stream[s0]) \in Seq(Work)
  BY <1>3, HeadTailProperties
<1>6. stream' \in [Streams -> Seq(Work)]
  BY <1>1, <1>3, <1>5 DEF Shape
<1>7. \A h \in Groups, s \in Streams :
        /\ Contains(stream'[s], Use(h)) => Contains(stream[s], Use(h))
        /\ Followed(h, stream[s]) => Followed(h, stream'[s])
  <2> SUFFICES ASSUME NEW h \in Groups, NEW s \in Streams
               PROVE  /\ Contains(stream'[s], Use(h)) => Contains(stream[s], Use(h))
                      /\ Followed(h, stream[s]) => Followed(h, stream'[s])
    OBVIOUS
  <2>1. CASE s = s0
    <3>1. stream'[s] = Tail(stream[s0])
      BY <1>1, <1>3, <2>1 DEF Shape
    <3> QED BY <1>4, <2>1, <3>1
  <2>2. CASE s # s0
    <3>1. stream'[s] = stream[s]
      BY <1>1, <1>3, <2>2 DEF Shape
    <3> QED BY <3>1
  <2> QED BY <2>1, <2>2
<1>8. Shape'
  BY <1>1, <1>2, <1>6 DEF Shape
<1>9. LockOK' /\ (\A u \in Threads : JobOK(u)') /\ WindowOK' /\ Account' /\ Disabled'
  BY <1>2 DEF QueueInv, LockOK, JobOK, WindowOK, Making, Taken, BeingClosed, Account, Disabled, Open
<1>10. \A h \in Groups : Syncing(h)' <=> Syncing(h)
  BY <1>2 DEF Syncing
<1>11. ASSUME NEW h \in Groups PROVE GroupOK(h)' /\ \A s \in Streams : UseOK(h, s)'
  <2>1. GroupOK(h) /\ \A s \in Streams : UseOK(h, s)
    BY DEF QueueInv
  <2>2. GroupOK(h)'
    BY <1>2, <1>10, <2>1 DEF GroupOK, Open
  <2>3. \A s \in Streams : UseOK(h, s)'
    BY <1>2, <1>7, <1>10, <2>1 DEF UseOK, Open
  <2> QED BY <2>2, <2>3
<1>12. QED
  BY <1>8, <1>9, <1>11 DEF QueueInv

(***************************************************************************)
(* Closing a handle                                                        *)
(***************************************************************************)
\* The thread that closes a handle has the lock: nobody else is in a method.
LEMMA CloserAlone ==
  ASSUME QueueInv, NEW t \in Threads, pc[t] \in Closers
  PROVE  /\ lock = t /\ job[t].group \in Groups /\ Open(job[t].group)
         /\ \A u \in Threads \ {t} : pc[u] \notin Blocking
         /\ \A h : BeingClosed(h) => h = job[t].group
BY DEF QueueInv, LockOK, JobOK, Blocking, BeingClosed, Closers

\* The copy has ended; a mark now follows every use of the group.
LEMMA CloseWaitsKeeps ==
  ASSUME QueueInv, NEW t \in Threads, CloseWaits(t)
  PROVE  QueueInv'
<1> PICK g : g = job[t].group
  OBVIOUS
<1>1. /\ UNCHANGED <<closed, held, bytes, lock, handle, taken, handles, last, quarantine, copy>>
      /\ pc[t] = "producer" /\ pc' = [pc EXCEPT ![t] = "consumers"]
      /\ copy[g] \in {"done", "lost"}
  BY DEF CloseWaits, queueVars, windowVars, Go
<1>2. /\ Shape /\ LockOK /\ JobOK(t) /\ pc[t] \in Closers /\ g \in Groups
      /\ \A u \in Threads \ {t} : pc[u] \notin Blocking
      /\ \A h \in Groups : GroupOK(h) /\ \A s \in Streams : UseOK(h, s)
  BY <1>1, CloserAlone DEF QueueInv, Closers
<1>3. LockOK' /\ pc' \in [Threads -> PCs]
  <2>1. "consumers" \in PCs /\ pc[t] \in Blocking /\ "consumers" \in Blocking
    BY <1>1 DEF PCs, Blocking, Closers
  <2> QED BY <1>1, <1>2, <2>1, LockStays
<1>4. pc'[t] = "consumers" /\ \A u \in Threads \ {t} : pc'[u] = pc[u]
  BY <1>1, <1>2 DEF Shape
<1>5. job' \in [Threads -> Job] /\ \A u \in Threads : SameClose(u)
  <2>1. job[t] \in Job
    BY <1>2 DEF Shape
  <2>2. PICK f \in BOOLEAN : job' = [job EXCEPT ![t].failed = f]
    <3>1. (job[t].failed \/ copy[job[t].group] = "lost") \in BOOLEAN
      BY <2>1 DEF Job
    <3> QED BY <3>1 DEF CloseWaits
  <2> DEFINE j1 == [job[t] EXCEPT !.failed = f]
  <2>3. /\ j1 \in Job /\ j1.group = job[t].group /\ j1.todo = job[t].todo
        /\ j1.back = job[t].back
    BY <2>1 DEF Job
  <2>4. job' = [job EXCEPT ![t] = j1]
    BY <2>2
  <2> HIDE DEF j1
  <2> QED BY <1>2, <2>3, <2>4 DEF Shape, SameClose
<1>6. PICK S \in SUBSET Streams :
        /\ stream' = IF S = {} THEN stream ELSE Enqueued(Mark(g), S)
        /\ handle[g].released \/ S = handle[g].consumers
  <2>1. handle[g].consumers \in SUBSET Streams
    BY <1>2 DEF Shape, Handle
  <2>2. CASE handle[g].released
    <3>1. stream' = stream /\ {} \in SUBSET Streams
      BY <2>2 DEF CloseWaits
    <3> QED BY <2>2, <3>1
  <2>3. CASE ~handle[g].released
    <3>1. stream' = Enqueued(Mark(g), handle[g].consumers)
      BY <2>3 DEF CloseWaits
    <3>2. CASE handle[g].consumers = {}
      <4>1. stream' = stream
        <5>1. stream' = [s \in Streams |-> stream[s]]
          BY <3>1, <3>2 DEF Enqueued
        <5> QED BY <1>2, <5>1 DEF Shape
      <4> QED BY <3>2, <4>1
    <3>3. CASE handle[g].consumers # {}
      BY <2>1, <3>1, <3>3
    <3> QED BY <3>2, <3>3
  <2> QED BY <2>2, <2>3
<1>7. /\ stream' \in [Streams -> Seq(Work)]
      /\ \A s \in S : Followed(g, stream'[s])
      /\ \A h \in Groups, s \in Streams :
           /\ Contains(stream'[s], Use(h)) => Contains(stream[s], Use(h))
           /\ Followed(h, stream[s]) => Followed(h, stream'[s])
  <2>1. CASE S = {}
    BY <1>2, <1>6, <2>1 DEF Shape
  <2>2. CASE S # {}
    BY <1>2, <1>6, <2>2, MarksEnqueued
  <2> QED BY <2>1, <2>2
<1>8. Shape'
  BY <1>1, <1>2, <1>3, <1>5, <1>7 DEF Shape
<1>9. ASSUME NEW u \in Threads PROVE JobOK(u)'
  <2>1. JobOK(u) /\ SameClose(u) /\ (pc'[u] \in Closers => pc[u] \in Closers)
        /\ (pc'[u] \in Blocking => pc[u] \in Blocking) /\ (pc'[u] = "closed" => pc[u] = "closed")
    BY <1>2, <1>4, <1>5 DEF QueueInv, Blocking
  <2>2. pc'[u] \in Blocking => job'[u].group \in Groups /\ handle'[job'[u].group].state = "open"
    BY <1>1, <2>1 DEF JobOK, Open, SameClose
  <2>3. pc'[u] \in Closers /\ job'[u].back = "closed" =>
          closed' /\ held' \subseteq job'[u].todo \cup {job'[u].group}
    BY <1>1, <2>1 DEF JobOK, SameClose
  <2>4. pc'[u] = "closed" => closed' /\ held' = {}
    BY <1>1, <2>1 DEF JobOK
  <2> QED BY <2>2, <2>3, <2>4 DEF JobOK, Open
<1>10. Account' /\ Disabled'
  BY <1>1 DEF QueueInv, Account, Disabled, Open
<1>11. WindowOK'
  <2>1. Making' => Making
    <3>1. CASE t = Window
      BY <1>2, <1>4, <1>5, <3>1 DEF Making, Closers, SameClose
    <3>2. CASE t # Window
      <4>1. pc'[Window] = pc[Window] /\ job'[Window].back = job[Window].back
        BY <1>4, <1>5, <3>2 DEF Threads, SameClose
      <4> QED BY <4>1 DEF Making
    <3> QED BY <3>1, <3>2
  <2>2. pc'[Window] = "order" => pc[Window] = "order"
    BY <1>4 DEF Threads
  <2>3. \A h : BeingClosed(h) => BeingClosed(h)'
    BY <1>4, <1>5 DEF BeingClosed, SameClose
  <2>4. \A h \in Range(WindowGroups) :
          /\ handle[h].state = "new" => handle'[h].state = "new"
          /\ handle'[h].state = "open" /\ handle'[h].released =>
               \/ BeingClosed(h)'
               \/ Open(h) /\ handle[h].released /\ ~BeingClosed(h)
    BY <1>1, <2>3 DEF Open
  <2> QED BY <1>1, <2>1, <2>2, <2>4, WindowGoesOn
<1>12. \A h \in Groups : Syncing(h)' => h = g
  BY <1>2, <1>4, <1>5 DEF Syncing, SameClose, Blocking, Closers
<1>13. ASSUME NEW h \in Groups PROVE GroupOK(h)'
  BY <1>1, <1>2, <1>12 DEF GroupOK, Open
<1>14. ASSUME NEW h \in Groups, NEW s \in Streams PROVE UseOK(h, s)'
  <2>1. /\ UseOK(h, s) /\ handle' = handle /\ quarantine' = quarantine
        /\ Contains(stream'[s], Use(h)) => Contains(stream[s], Use(h))
        /\ Followed(h, stream[s]) => Followed(h, stream'[s])
    BY <1>1, <1>2, <1>7
  <2>2. CASE h = g
    <3>1. s \in handle[g].consumers =>
            handle[g].released \/ Followed(g, stream'[s])
      BY <1>6, <1>7
    <3> QED BY <2>1, <2>2, <3>1 DEF UseOK, Open
  <2>3. CASE h # g
    BY <1>12, <2>1, <2>3 DEF UseOK, Open
  <2> QED BY <2>2, <2>3
<1>15. QED
  BY <1>3, <1>8, <1>9, <1>10, <1>11, <1>13, <1>14 DEF QueueInv

\* A handle leaves its slot when no use of it is left that is not quarantined;
\* a queue's close() goes on with the handles it has not closed yet.
LEMMA RetireKeeps ==
  ASSUME QueueInv, NEW t \in Threads, pc[t] = "consumers", NEW failed \in BOOLEAN,
         Retire(t, failed), UNCHANGED <<taken, handles, last, copy, stream>>,
         closed' \in BOOLEAN, closed => closed',
         quarantine \subseteq quarantine', quarantine' \in SUBSET Groups,
         quarantine' # {} => closed',
         NEW g, g = job[t].group,
         \A s \in Streams : Contains(stream[s], Use(g)) => g \in quarantine'
  PROVE  QueueInv'
<1> DEFINE rest == job[t].todo \cap (held \ {g})
           h1 == [Fresh EXCEPT !.state = "closed"]
<1>1. /\ Shape /\ LockOK /\ JobOK(t) /\ Account
      /\ \A h \in Groups : GroupOK(h) /\ \A s \in Streams : UseOK(h, s)
  BY DEF QueueInv
<1>2. /\ lock = t /\ g \in Groups /\ Open(g)
      /\ \A u \in Threads \ {t} : pc[u] \notin Blocking
      /\ \A h : BeingClosed(h) => h = g
  <2>1. pc[t] \in Closers
    BY DEF Closers
  <2> QED BY <2>1, CloserAlone
<1>3. h1 \in Handle /\ h1.state = "closed" /\ ~h1.released
  BY DEF Fresh, Handle
<1>4. handle' = [handle EXCEPT ![g] = h1] /\ held' = held \ {g} /\ bytes' = bytes - Size[g]
  BY DEF Retire
<1>5. rest \in SUBSET Groups /\ rest = job[t].todo \cap held'
  BY <1>1, <1>4 DEF Shape
<1>6. \/ /\ rest = {} /\ lock' = None /\ pc' = [pc EXCEPT ![t] = job[t].back]
         /\ job' = [job EXCEPT ![t] = [NoJob EXCEPT !.failed = failed]]
      \/ rest # {} /\ \E n \in rest : StartClose(t, n, rest \ {n}, job[t].back, failed)
  BY DEF Retire, Go
<1> HIDE DEF h1, rest
<1>7. /\ handle' \in [Groups -> Handle] /\ handle'[g].state = "closed" /\ ~handle'[g].released
      /\ \A h \in Groups \ {g} : handle'[h] = handle[h]
  BY <1>1, <1>2, <1>3, <1>4 DEF Shape
<1>8. Account' /\ held' \in SUBSET Groups /\ IsFiniteSet(held')
  <2>1. g \in held /\ IsFiniteSet(held) /\ held \in SUBSET Groups
    BY <1>1, <1>2 DEF Account, Shape
  <2>2. IsFiniteSet(held \ {g}) /\ Cardinality(held \ {g}) = Cardinality(held) - 1
    BY <2>1, FS_RemoveElement
  <2>3. \A s \in held : Size[s] \in Nat
    BY <2>1, QueueConstants
  <2>4. Total(held, Size) = Total(held \ {g}, Size) + Size[g]
    BY <2>1, <2>3, TotalSplit
  <2>5. Total(held \ {g}, Size) \in Nat /\ Size[g] \in Nat
    BY <2>2, <2>3, <2>1, UnitsFinite
  <2>6. Cardinality(held) \in Nat /\ Cardinality(held) <= MaxInFlight /\ bytes <= MaxOutputBytes
        /\ bytes = Total(held, Size)
    BY <1>1, <2>1, FS_CardinalityType DEF Account
  <2>7. /\ bytes' = Total(held', Size) /\ bytes' <= MaxOutputBytes
        /\ Cardinality(held') <= MaxInFlight
    <3>1. MaxOutputBytes \in Nat /\ MaxInFlight \in Nat
      BY QueueConstants
    <3> QED BY <1>4, <2>2, <2>4, <2>5, <2>6, <3>1
  <2>8. \A h \in Groups : h \in held' <=> handle'[h].state = "open"
    BY <1>1, <1>4, <1>7 DEF Account, Open
  <2> QED BY <1>4, <2>1, <2>2, <2>7, <2>8 DEF Account, Open
<1>9. job[t] \in Job /\ job[t].back \in {"idle", "closed", "room", "exit"}
  BY <1>1 DEF Shape, Job
<1> PICK back : back = job[t].back
  OBVIOUS
<1> DEFINE Ends == /\ pc'[t] = back /\ rest = {}
           Goes == /\ pc'[t] = "release" /\ job'[t].group \in rest
                   /\ job'[t].todo = rest \ {job'[t].group} /\ job'[t].back = back
<1>10. /\ LockOK' /\ lock' \in Threads \cup {None}
       /\ pc' \in [Threads -> PCs] /\ job' \in [Threads -> Job]
       /\ Ends \/ Goes
       /\ \A u \in Threads \ {t} : pc'[u] = pc[u] /\ job'[u] = job[u]
  <2>1. CASE /\ rest = {} /\ lock' = None /\ pc' = [pc EXCEPT ![t] = job[t].back]
             /\ job' = [job EXCEPT ![t] = [NoJob EXCEPT !.failed = failed]]
    <3>1. back \in PCs /\ back \notin Blocking /\ pc' = [pc EXCEPT ![t] = back]
      BY <1>9, <2>1 DEF PCs, Blocking, Closers
    <3>2. lock \in {None, t} /\ lock' = IF back \in Blocking THEN t ELSE None
      BY <1>2, <2>1, <3>1
    <3>3. LockOK' /\ lock' \in Threads \cup {None} /\ pc' \in [Threads -> PCs]
      BY <1>1, <3>1, <3>2, LockMoves
    <3>4. [NoJob EXCEPT !.failed = failed] \in Job
      BY DEF NoJob, Job
    <3>5. job' \in [Threads -> Job] /\ \A u \in Threads \ {t} : job'[u] = job[u]
      BY <1>1, <2>1, <3>4 DEF Shape
    <3>6. pc'[t] = back /\ \A u \in Threads \ {t} : pc'[u] = pc[u]
      BY <1>1, <3>1 DEF Shape
    <3> QED BY <2>1, <3>3, <3>5, <3>6
  <2>2. CASE rest # {} /\ \E n \in rest : StartClose(t, n, rest \ {n}, job[t].back, failed)
    <3>1. PICK n : n \in rest /\ StartClose(t, n, rest \ {n}, job[t].back, failed)
      BY <2>2
    <3> PICK todo : todo = rest \ {n}
      OBVIOUS
    <3>2. /\ n \in Groups /\ todo \in SUBSET Groups /\ StartClose(t, n, todo, back, failed)
          /\ back \in {"idle", "closed", "room", "exit"} /\ lock \in {None, t}
      BY <1>2, <1>5, <1>9, <3>1
    <3>3. Open(n)
      BY <1>1, <1>4, <1>5, <3>1 DEF Account
    <3>4. /\ LockOK' /\ lock' \in Threads \cup {None}
          /\ pc' \in [Threads -> PCs] /\ job' \in [Threads -> Job]
          /\ job'[t] = [group |-> n, todo |-> todo, back |-> back, failed |-> failed]
          /\ \/ Open(n) /\ pc'[t] = "release"
             \/ ~Open(n) /\ pc'[t] = back
          /\ \A u \in Threads \ {t} : pc'[u] = pc[u] /\ job'[u] = job[u]
      <4>1. Shape /\ LockOK
        BY <1>1
      <4>2. CloseBegun(t, n, todo, back, failed)
        BY <3>2, <4>1, CloseStarted
      <4> QED BY <4>2 DEF CloseBegun
    <3>5. Goes
      BY <3>1, <3>3, <3>4
    <3> HIDE DEF Ends, Goes
    <3> QED BY <3>4, <3>5
  <2> HIDE DEF Ends, Goes
  <2> QED BY <1>6, <2>1, <2>2
<1>11. Shape'
  BY <1>1, <1>7, <1>8, <1>10 DEF Shape
<1>12. JobOK(t)'
  <2>1. back = "closed" => closed' /\ held' \subseteq rest
    <3>1. back = "closed" => closed /\ held \subseteq job[t].todo \cup {g}
      BY <1>1 DEF JobOK, Closers
    <3> QED BY <1>4, <1>5, <3>1
  <2>2. CASE Ends
    BY <1>9, <2>1, <2>2 DEF JobOK, Blocking, Closers
  <2>3. CASE Goes
    <3>1. job'[t].group \in Groups /\ handle'[job'[t].group].state = "open"
      BY <1>5, <1>8, <2>3 DEF Account, Open
    <3>2. pc'[t] = "release" /\ (job'[t].back = "closed" =>
             closed' /\ held' \subseteq job'[t].todo \cup {job'[t].group})
      BY <2>1, <2>3
    <3> QED BY <3>1, <3>2 DEF JobOK, Open
  <2> QED BY <1>10, <2>2, <2>3
<1>13. ASSUME NEW u \in Threads, u # t PROVE JobOK(u)'
  <2>1. JobOK(u) /\ pc[u] \notin Blocking /\ pc'[u] = pc[u] /\ held' \subseteq held
    BY <1>2, <1>4, <1>10, <1>13 DEF QueueInv
  <2> QED BY <2>1 DEF JobOK, Blocking
<1>14. WindowOK'
  <2>1. Making' => Making
    <3>1. CASE t = Window
      <4>1. Making <=> back = "room"
        BY <3>1 DEF Making, Closers
      <4>2. Making' => back = "room"
        BY <1>9, <1>10, <3>1 DEF Making, Closers
      <4> QED BY <4>1, <4>2
    <3>2. CASE t # Window
      <4>1. pc'[Window] = pc[Window] /\ job'[Window] = job[Window]
        BY <1>10, <3>2 DEF Threads
      <4> QED BY <4>1 DEF Making
    <3> QED BY <3>1, <3>2
  <2>2. pc'[Window] = "order" => pc[Window] = "order"
    BY <1>9, <1>10 DEF Threads
  <2>3. ASSUME NEW h \in Range(WindowGroups)
        PROVE  /\ handle[h].state = "new" => handle'[h].state = "new"
               /\ handle'[h].state = "open" /\ handle'[h].released =>
                    \/ BeingClosed(h)'
                    \/ Open(h) /\ handle[h].released /\ ~BeingClosed(h)
    <3>1. CASE h = g
      BY <1>2, <1>7, <3>1 DEF Open
    <3>2. CASE h # g
      <4>1. h \in Groups /\ handle'[h] = handle[h] /\ ~BeingClosed(h)
        BY <1>2, <1>7, <3>2 DEF Groups
      <4> QED BY <4>1 DEF Open
    <3> QED BY <3>1, <3>2
  <2> QED BY <2>1, <2>2, <2>3, WindowGoesOn
<1>15. \A h \in Groups : ~Syncing(h)'
  <2>1. pc'[t] # "consumers"
    BY <1>9, <1>10
  <2> QED BY <1>2, <1>10, <2>1 DEF Syncing, Blocking, Closers
<1>16. Syncing(g)
  BY DEF Syncing
<1>17. ASSUME NEW h \in Groups PROVE GroupOK(h)'
  <2>1. GroupOK(h) /\ copy' = copy
    BY <1>1
  <2>2. CASE h = g
    BY <1>7, <1>16, <2>1, <2>2 DEF GroupOK, Open
  <2>3. CASE h # g
    <3>1. handle'[h] = handle[h]
      BY <1>7, <2>3
    <3> QED BY <1>15, <2>1, <3>1 DEF GroupOK, Open
  <2> QED BY <2>2, <2>3
<1>18. ASSUME NEW h \in Groups, NEW s \in Streams PROVE UseOK(h, s)'
  <2>1. UseOK(h, s) /\ stream' = stream
    BY <1>1
  <2>2. CASE h = g
    BY <2>1, <2>2 DEF UseOK
  <2>3. CASE h # g
    <3>1. handle'[h] = handle[h]
      BY <1>7, <2>3
    <3> QED BY <1>15, <2>1, <3>1 DEF UseOK, Open
  <2> QED BY <2>2, <2>3
<1>19. Disabled' /\ \A u \in Threads : JobOK(u)'
  BY <1>12, <1>13 DEF Disabled
<1>20. QED
  BY <1>8, <1>10, <1>11, <1>14, <1>17, <1>18, <1>19 DEF QueueInv

\* Every mark has been reached, so every use that it follows has ended.
LEMMA CloseSyncedKeeps ==
  ASSUME QueueInv, NEW t \in Threads, CloseSynced(t)
  PROVE  QueueInv'
<1> PICK g : g = job[t].group
  OBVIOUS
<1>1. /\ pc[t] = "consumers" /\ Reached(g, Consumers(g)) /\ Retire(t, job[t].failed)
      /\ UNCHANGED <<closed, taken, handles, last, quarantine, copy, stream>>
  BY DEF CloseSynced, windowVars, gpuVars
<1>2. /\ g \in Groups /\ Open(g) /\ Shape /\ Disabled /\ GroupOK(g) /\ Syncing(g)
      /\ \A s \in Streams : UseOK(g, s)
  BY <1>1, CloserAlone DEF QueueInv, Closers, Syncing
<1>3. job[t].failed \in BOOLEAN
  BY <1>2 DEF Shape, Job
<1> PICK failed : failed = job[t].failed
  OBVIOUS
<1>4. failed \in BOOLEAN /\ Retire(t, failed)
  BY <1>1, <1>3
<1>5. Consumers(g) = handle[g].consumers
  BY <1>2 DEF Consumers, GroupOK
<1>6. ASSUME NEW s \in Streams, Contains(stream[s], Use(g)) PROVE g \in quarantine'
  <2>1. SUFFICES ASSUME g \notin quarantine PROVE FALSE
    BY <1>1
  <2>2. s \in handle[g].consumers /\ Followed(g, stream[s])
    BY <1>2, <1>6, <2>1 DEF UseOK
  <2>3. stream[s] \in Seq(Work)
    BY <1>2 DEF Shape
  <2>4. Contains(stream[s], Mark(g))
    BY <1>2, <1>6, <2>2, <2>3, NoMarkNoUse
  <2> QED BY <1>1, <1>5, <2>2, <2>4 DEF Reached
<1>7. /\ closed' \in BOOLEAN /\ (closed => closed') /\ quarantine \subseteq quarantine'
      /\ quarantine' \in SUBSET Groups /\ (quarantine' # {} => closed')
  BY <1>1, <1>2 DEF Shape, Disabled
<1>8. QED
  BY <1>1, <1>4, <1>6, <1>7, RetireKeeps

\* What cannot be known to have ended is kept for ever, and nothing follows it.
LEMMA CloseLosesKeeps ==
  ASSUME QueueInv, NEW t \in Threads, CloseLoses(t)
  PROVE  QueueInv'
<1> PICK g : g = job[t].group
  OBVIOUS
<1>1. /\ pc[t] = "consumers" /\ Retire(t, TRUE) /\ TRUE \in BOOLEAN
      /\ UNCHANGED <<taken, handles, last, copy, stream>>
      /\ quarantine' = quarantine \cup {g} /\ closed' = TRUE
  BY DEF CloseLoses, windowVars, gpuVars
<1>2. g \in Groups /\ Shape
  BY <1>1, CloserAlone DEF QueueInv, Closers
<1>3. /\ closed' \in BOOLEAN /\ (closed => closed') /\ quarantine \subseteq quarantine'
      /\ quarantine' \in SUBSET Groups /\ (quarantine' # {} => closed')
      /\ \A s \in Streams : Contains(stream[s], Use(g)) => g \in quarantine'
  BY <1>1, <1>2 DEF Shape
<1>4. QED
  BY <1>1, <1>3, RetireKeeps

(***************************************************************************)
(* The theorems                                                            *)
(***************************************************************************)
LEMMA QueueStep ==
  ASSUME QueueInv, [Next]_vars
  PROVE  QueueInv'
<1>1. UserGroups \subseteq Groups /\ Users \subseteq Threads /\ Window \in Threads
  BY DEF Groups, Threads
<1>2. ASSUME NEW t \in Threads, Closing(t) PROVE QueueInv'
  BY <1>2, CloseReleasesKeeps, CloseWaitsKeeps, CloseSyncedKeeps, CloseLosesKeeps DEF Closing
<1>3. ASSUME NEW u \in Users, UserStep(u) PROVE QueueInv'
  BY <1>1, <1>2, <1>3, WaitReturnsKeeps DEF UserStep
<1>4. ASSUME NEW u \in Users, UserCall(u) PROVE QueueInv'
  <2>1. CASE CloseQueue(u)
    BY <2>1, CloseQueueKeeps
  <2>2. ASSUME NEW g \in UserGroups,
               \/ Submit(u, g) \/ WaitStream(u, g) \/ Wait(u, g) \/ Release(u, g)
               \/ Consume(u, g) \/ CloseHandle(u, g)
        PROVE  QueueInv'
    BY <1>1, <2>2, SubmitKeeps, WaitStreamKeeps, WaitKeeps, ReleaseKeeps, ConsumeKeeps,
       CloseHandleKeeps
  <2> QED BY <1>4, <2>1, <2>2 DEF UserCall
<1>5. CASE WindowStep
  BY <1>1, <1>2, <1>5, NextReleasesKeeps, NextTakesKeeps, NextMakesRoomKeeps, NextSubmitsKeeps,
     NextOrdersKeeps, IterateKeeps, WindowClosesKeeps DEF WindowStep
<1>6. ASSUME NEW g \in Groups, Consume(Window, g) \/ CopyEnds(g) PROVE QueueInv'
  BY <1>1, <1>6, ConsumeKeeps, CopyEndsKeeps
<1>7. ASSUME NEW s \in Streams, StreamRuns(s) PROVE QueueInv'
  BY <1>7, StreamRunsKeeps
<1>8. CASE UNCHANGED vars
  BY <1>8 DEF vars, queueVars, windowVars, gpuVars, boundVars, QueueInv, Shape, LockOK, JobOK,
     WindowOK, Making, Taken, BeingClosed, Account, Disabled, GroupOK, UseOK, Syncing, Open
<1>9. QED
  BY <1>3, <1>4, <1>5, <1>6, <1>7, <1>8 DEF Next

\* The inductive invariant holds of every behaviour of the queue.
THEOREM QueueInvariant == Spec => []QueueInv
BY QueueInit, QueueStep, PTL DEF Spec

\* The queue stays within its slots and its output bytes, its accounts agree
\* with the open handles, and its close() leaves nothing held or running
\* (TransferQueue.submit, TransferCompletion.close and TransferQueue.close).
THEOREM QueueSettles == Spec => []ReservationsSettle
<1>1. QueueInv => ReservationsSettle
  <2> SUFFICES ASSUME QueueInv PROVE OutstandingBounded /\ CloseDrains
    BY DEF ReservationsSettle
  <2>1. OutstandingBounded
    BY DEF QueueInv, Shape, Account, OutstandingBounded
  <2>2. ASSUME NEW u \in Users, pc[u] = "closed"
        PROVE  held = {} /\ bytes = 0 /\ \A g \in Groups : copy[g] # "running"
    <3>1. held = {}
      BY <2>2 DEF QueueInv, JobOK, Threads
    <3>2. Cardinality({}) = 0 /\ Units({}, Size) = {}
      BY FS_EmptySet DEF Units
    <3>3. bytes = 0
      BY <3>1, <3>2 DEF QueueInv, Account, Total
    <3>4. \A g \in Groups : ~Open(g)
      BY <3>1 DEF QueueInv, Account
    <3> QED BY <3>1, <3>3, <3>4 DEF QueueInv, GroupOK
  <2> QED BY <2>1, <2>2 DEF CloseDrains
<1>2. QED
  BY <1>1, QueueInvariant, PTL

\* Whatever still runs on the GPU has its tensor owners kept, by the open
\* handle or by the quarantine (TransferCompletion.close and _release).
THEOREM OwnersKept == Spec => []OwnersOutliveWork
<1>1. QueueInv => OwnersOutliveWork
  BY DEF QueueInv, OwnersOutliveWork, GroupOK, UseOK
<1>2. QED
  BY <1>1, QueueInvariant, PTL

\* A group whose consumers are unknown stays quarantined, and the queue
\* admits nothing after it (TransferCompletion.close, TransferQueue.submit).
THEOREM QuarantineStops == Spec => QuarantineDisables
<1> DEFINE Kept == /\ quarantine \subseteq quarantine'
                   /\ quarantine # {} => held' \subseteq held
<1>1. ASSUME QueueInv, [Next]_vars PROVE [Kept]_vars
  <2>1. quarantine \subseteq quarantine' /\ (held' \subseteq held \/ ~closed)
    <3>1. ASSUME NEW t \in Threads, Closing(t)
          PROVE  quarantine \subseteq quarantine' /\ held' \subseteq held
      <4>1. CASE CloseReleases(t) \/ CloseWaits(t)
        BY <4>1 DEF CloseReleases, CloseWaits, queueVars
      <4>2. CASE CloseSynced(t)
        BY <4>2 DEF CloseSynced, Retire
      <4>3. CASE CloseLoses(t)
        BY <4>3 DEF CloseLoses, Retire
      <4> QED BY <3>1, <4>1, <4>2, <4>3 DEF Closing
    <3>2. ASSUME NEW u \in Users, UserStep(u)
          PROVE  quarantine \subseteq quarantine' /\ held' \subseteq held
      BY <3>1, <3>2 DEF UserStep, WaitReturns, Threads, queueVars
    <3>3. ASSUME NEW u \in Users, UserCall(u)
          PROVE  quarantine' = quarantine /\ (held' \subseteq held \/ ~closed)
      BY <3>3 DEF UserCall, CloseQueue, Submit, CanSubmit, WaitStream, Wait, Release, Consume,
         CloseHandle, queueVars
    <3>4. CASE NextSubmits
      BY <3>4 DEF NextSubmits, CanSubmit
    <3>5. CASE NextReleases \/ NextTakes \/ NextMakesRoom \/ NextOrders \/ Iterate \/ WindowCloses
      BY <3>5 DEF NextReleases, NextTakes, NextMakesRoom, NextOrders, Iterate, WindowCloses,
         queueVars
    <3>6. ASSUME NEW g \in Groups, Consume(Window, g) \/ CopyEnds(g)
          PROVE  quarantine' = quarantine /\ held' = held
      BY <3>6 DEF Consume, CopyEnds, queueVars
    <3>7. ASSUME NEW s \in Streams, StreamRuns(s)
          PROVE  quarantine' = quarantine /\ held' = held
      BY <3>7 DEF StreamRuns, queueVars
    <3>8. CASE UNCHANGED vars
      BY <3>8 DEF vars, queueVars
    <3> QED BY <1>1, <3>1, <3>2, <3>3, <3>4, <3>5, <3>6, <3>7, <3>8 DEF Next, WindowStep, Threads
  <2>2. quarantine # {} => closed
    BY <1>1 DEF QueueInv, Disabled
  <2> QED BY <2>1, <2>2
<1>2. QED
  BY <1>1, QueueInvariant, PTL DEF Spec, QuarantineDisables
=============================================================================
