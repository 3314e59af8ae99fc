--------------------------- MODULE SessionProofs ---------------------------
(****************************************************************************)
(* Inductive invariants and theorems of the objects a program keeps between *)
(* transfers: wire weights, prepared weights, prepared requests, the deques *)
(* of fast transfers and their prepared programs, for every number of       *)
(* callers, names, requests, writes and groups and all operands.            *)
(****************************************************************************)
EXTENDS TransferRequests, PreparedWeights, FastTransfers, FastPrograms, SequenceTheorems,
        FiniteSetTheorems, NaturalsInduction, WellFoundedInduction

(****************************************************************************)
(* Wire weights.                                                            *)
(*                                                                          *)
(* The budget is exact only because the finalizer of a revision knows the   *)
(* name it was made for, and a prepare() that fails drops exactly the       *)
(* revision it numbered: the invariant says which numbers exist, whose they *)
(* are, and that everything that refers to one is older than the candidate. *)
(****************************************************************************)
WireShape ==
  /\ revision \in Nat /\ wireClosed \in BOOLEAN
  /\ nameOf \in [Revisions -> Names \cup {"none"}]
  /\ entries \in [Names -> 0..revision] /\ members \in [Names -> 0..revision]
  /\ loads \in [1..MaxLoads -> 0..revision] /\ asked \in [1..MaxLoads -> 0..revision]
  /\ fastCall \in [name : Names \cup {"none"}, rev : 0..revision]
  /\ preparing \in [pc : {"idle", "bind", "pack"}, name : Names \cup {"none"}]
  /\ live \in Nat /\ count \in Nat

(* The revisions that exist are the numbered ones, and the one in the       *)
(* making.                                                                  *)
PackedOK ==
  /\ packed \subseteq Revisions /\ \A r \in packed : nameOf[r] \in Names
  /\ packed \subseteq 1..revision \cup (IF preparing.pc = "pack" THEN {Candidate} ELSE {})
  /\ preparing.pc # "idle" => preparing.name \in Names /\ Candidate \in Revisions
  /\ preparing.pc = "pack" => Candidate \in packed /\ nameOf[Candidate] = preparing.name

(* What a FastWeights member, or the call that resolved a name, refers to.  *)
MembersKept ==
  /\ \A n \in Names : members[n] # 0 => members[n] \in packed
  /\ fastCall # NoFastCall => fastCall.name \in Names /\ fastCall.rev # 0 /\ fastCall.rev \in packed

WireInv == WireShape /\ PackedOK /\ RevisionsKept /\ MembersKept /\ WireBudgetExact

\* Storage is made for finitely many revisions, each of a known size.
LEMMA SizesTyped ==
  ASSUME NEW S \in SUBSET Revisions, NEW names, \A r \in S : names[r] \in Names
  PROVE  /\ IsFiniteSet(S) /\ Cardinality(S) \in Nat
         /\ \A r \in S : SizesIn(S, names)[r] \in Nat
         /\ Total(S, SizesIn(S, names)) \in Nat
<1>1. IsFiniteSet(S) /\ Cardinality(S) \in Nat
  <2>1. IsFiniteSet(Revisions)
    BY WireConstants, FS_Interval DEF Revisions
  <2>2. QED
    BY <2>1, FS_Subset, FS_CardinalityType
<1>2. \A r \in S : SizesIn(S, names)[r] \in Nat
  BY WireConstants DEF SizesIn
<1>3. QED
  BY <1>1, <1>2, UnitsFinite

\* Storage that goes takes exactly its own size along.
LEMMA SnapshotDropped ==
  ASSUME NEW S \in SUBSET Revisions, NEW names, \A r \in S : names[r] \in Names, NEW x \in S
  PROVE  /\ Cardinality(S) = Cardinality(S \ {x}) + 1
         /\ Total(S, SizesIn(S, names))
              = Total(S \ {x}, SizesIn(S \ {x}, names)) + SizeOf[names[x]]
<1>1. IsFiniteSet(S) /\ Cardinality(S) \in Nat /\ \A r \in S : SizesIn(S, names)[r] \in Nat
  BY SizesTyped
<1>2. Cardinality(S \ {x}) = Cardinality(S) - 1
  BY <1>1, FS_RemoveElement
<1>3. Total(S, SizesIn(S, names)) = Total(S \ {x}, SizesIn(S, names)) + SizesIn(S, names)[x]
  BY <1>1, TotalSplit
<1>4. Total(S \ {x}, SizesIn(S, names)) = Total(S \ {x}, SizesIn(S \ {x}, names))
  <2>1. \A r \in S \ {x} : SizesIn(S, names)[r] = SizesIn(S \ {x}, names)[r]
    BY DEF SizesIn
  <2>2. QED
    BY <2>1, TotalSame
<1>5. QED
  BY <1>1, <1>2, <1>3, <1>4 DEF SizesIn

\* The new storage of a name adds its size.
LEMMA SnapshotMade ==
  ASSUME NEW S \in SUBSET Revisions, NEW names, \A r \in S : names[r] \in Names,
         NEW x \in Revisions \ S, NEW n \in Names,
         NEW renamed, renamed[x] = n, \A r \in S : renamed[r] = names[r]
  PROVE  /\ Cardinality(S \cup {x}) = Cardinality(S) + 1
         /\ Total(S \cup {x}, SizesIn(S \cup {x}, renamed))
              = Total(S, SizesIn(S, names)) + SizeOf[n]
<1> DEFINE T == S \cup {x}
<1>1. T \in SUBSET Revisions /\ x \in T /\ T \ {x} = S /\ \A r \in T : renamed[r] \in Names
  OBVIOUS
<1>2. /\ Cardinality(T) = Cardinality(S) + 1
      /\ Total(T, SizesIn(T, renamed)) = Total(S, SizesIn(S, renamed)) + SizeOf[renamed[x]]
  <2> HIDE DEF T
  <2> QED BY <1>1, SnapshotDropped
<1>3. Total(S, SizesIn(S, renamed)) = Total(S, SizesIn(S, names))
  <2>1. \A r \in S : SizesIn(S, renamed)[r] = SizesIn(S, names)[r]
    BY DEF SizesIn
  <2>2. QED
    BY <2>1, TotalSame
<1>4. QED
  BY <1>2, <1>3

\* A step that leaves the storage and the budget alone changes neither.
LEMMA BudgetSame ==
  ASSUME WireInv, UNCHANGED <<packed, nameOf, live, count, preparing, revision>>
  PROVE  WireBudgetExact' /\ PackedOK'
BY DEF WireInv, WireBudgetExact, PackedOK, Candidate

LEMMA WireInitOK == WireInit => WireInv
<1> SUFFICES ASSUME WireInit PROVE WireInv
  OBVIOUS
<1>1. Total({}, SizesIn({}, nameOf)) = 0 /\ Cardinality({}) = 0
  <2>1. Units({}, SizesIn({}, nameOf)) = {}
    BY DEF Units
  <2>2. QED
    BY <2>1, FS_EmptySet DEF Total
<1>2. WireBudgetExact
  <2>1. packed = {} /\ live = 0 /\ count = 0 /\ preparing.pc = "idle"
    BY DEF WireInit, NotPreparing
  <2>2. MaxPrepared \in Nat /\ MaxSnapshots \in Nat
    BY WireConstants
  <2>3. QED
    BY <1>1, <2>1, <2>2 DEF WireBudgetExact
<1>3. WireShape
  <2>1. revision = 0 /\ 0 \in 0..revision
    BY DEF WireInit
  <2>2. /\ entries \in [Names -> 0..revision] /\ members \in [Names -> 0..revision]
        /\ loads \in [1..MaxLoads -> 0..revision] /\ asked \in [1..MaxLoads -> 0..revision]
        /\ nameOf \in [Revisions -> Names \cup {"none"}]
    BY <2>1 DEF WireInit
  <2>3. /\ fastCall \in [name : Names \cup {"none"}, rev : 0..revision]
        /\ preparing \in [pc : {"idle", "bind", "pack"}, name : Names \cup {"none"}]
        /\ wireClosed \in BOOLEAN /\ live \in Nat /\ count \in Nat
    BY <2>1 DEF WireInit, NotPreparing, NoFastCall
  <2>4. QED
    BY <2>1, <2>2, <2>3 DEF WireShape
<1>4. PackedOK
  BY DEF WireInit, PackedOK, NotPreparing
<1>5. RevisionsKept /\ MembersKept
  BY DEF WireInit, RevisionsKept, MembersKept, NoFastCall
<1>6. QED
  BY <1>2, <1>3, <1>4, <1>5 DEF WireInv

LEMMA ReserveStep ==
  ASSUME WireInv, NEW n \in Names, Reserve(n)
  PROVE  WireInv'
<1>0. SizeOf[n] \in Nat /\ MaxPrepared \in Nat /\ MaxSnapshots \in Nat
  BY WireConstants
<1>1. Cardinality(packed) \in Nat /\ Total(packed, SizesIn(packed, nameOf)) \in Nat
  BY SizesTyped DEF WireInv, PackedOK
<1>2. /\ preparing.pc = "idle" /\ preparing' = [pc |-> "bind", name |-> n]
      /\ live' = live + SizeOf[n] /\ live' <= MaxPrepared
      /\ count' = count + 1 /\ count' <= MaxSnapshots
      /\ UNCHANGED <<entries, nameOf, packed, loads, revision, wireClosed, members, fastCall, asked>>
  BY <1>0 DEF WireInv, WireShape, Reserve, CanReserve, Unlocked, fastWeightVars
<1>3. WireBudgetExact'
  BY <1>0, <1>1, <1>2 DEF WireInv, WireBudgetExact
<1>4. WireShape'
  <2>1. live' \in Nat /\ count' \in Nat
    BY <1>0, <1>2 DEF WireInv, WireShape
  <2>2. preparing' \in [pc : {"idle", "bind", "pack"}, name : Names \cup {"none"}]
    BY <1>2
  <2>3. UNCHANGED <<entries, nameOf, loads, revision, wireClosed, members, fastCall, asked>>
    BY <1>2
  <2>4. QED
    BY <2>1, <2>2, <2>3 DEF WireInv, WireShape
<1>5. PackedOK'
  <2>1. preparing.pc = "idle" /\ preparing'.pc = "bind" /\ preparing'.name = n
    BY <1>2
  <2>2. packed' = packed /\ nameOf' = nameOf /\ revision' = revision
    BY <1>2
  <2>3. packed \subseteq 1..revision /\ Candidate \in Revisions
    BY <1>2 DEF WireInv, PackedOK, Reserve
  <2>4. QED
    BY <2>1, <2>2, <2>3 DEF WireInv, PackedOK, Candidate
<1>6. RevisionsKept' /\ MembersKept'
  BY <1>2 DEF WireInv, RevisionsKept, MembersKept
<1>7. QED
  BY <1>3, <1>4, <1>5, <1>6 DEF WireInv

LEMMA BindOrFailStep ==
  ASSUME WireInv, BindOrFail
  PROVE  WireInv'
<1> DEFINE n == preparing.name
           sizes == SizesIn(packed, nameOf)
<1>0. /\ preparing.pc = "bind" /\ n \in Names /\ Candidate \in Revisions /\ SizeOf[n] \in Nat
      /\ packed \in SUBSET Revisions /\ \A r \in packed : nameOf[r] \in Names
      /\ Candidate \notin packed /\ revision \in Nat
  BY WireConstants DEF WireInv, PackedOK, BindOrFail, Candidate, WireShape
<1>1. Cardinality(packed) \in Nat /\ Total(packed, sizes) \in Nat
  BY <1>0, SizesTyped
<1>2. /\ count = Cardinality(packed) + 1 /\ count <= MaxSnapshots
      /\ live = Total(packed, sizes) + SizeOf[n] /\ live <= MaxPrepared
  BY <1>0 DEF WireInv, WireBudgetExact
<1>3. RevisionsKept' /\ MembersKept'
  <2>1. packed \subseteq packed' /\ \A r \in packed : nameOf'[r] = nameOf[r]
    BY <1>0 DEF BindOrFail, WireInv, WireShape
  <2>2. QED
    BY <2>1 DEF WireInv, RevisionsKept, MembersKept, BindOrFail, fastWeightVars
<1>4. CASE packed' = packed \cup {Candidate} /\ nameOf' = [nameOf EXCEPT ![Candidate] = n]
           /\ preparing' = [preparing EXCEPT !.pc = "pack"] /\ UNCHANGED <<live, count>>
  <2>1. /\ nameOf' \in [Revisions -> Names \cup {"none"}]
        /\ nameOf'[Candidate] = n /\ \A r \in packed : nameOf'[r] = nameOf[r]
    BY <1>0, <1>4 DEF WireInv, WireShape
  <2>2. preparing'.pc = "pack" /\ preparing'.name = n
    BY <1>4 DEF WireInv, WireShape
  <2>3. /\ Cardinality(packed') = Cardinality(packed) + 1
        /\ Total(packed', SizesIn(packed', nameOf')) = Total(packed, sizes) + SizeOf[n]
    <3>1. PICK x : x = Candidate
      OBVIOUS
    <3>2. x \in Revisions \ packed /\ nameOf'[x] = n /\ packed' = packed \cup {x}
      BY <1>0, <1>4, <2>1, <3>1
    <3> HIDE DEF n
    <3>3. QED
      BY <1>0, <2>1, <3>2, SnapshotMade
  <2>4. WireBudgetExact'
    BY <1>0, <1>1, <1>2, <1>4, <2>2, <2>3 DEF WireBudgetExact
  <2>5. WireShape'
    BY <1>4, <2>1 DEF WireInv, WireShape, BindOrFail, fastWeightVars
  <2>6. PackedOK'
    BY <1>0, <1>4, <2>1, <2>2 DEF WireInv, PackedOK, BindOrFail, Candidate
  <2>7. QED
    BY <1>3, <2>4, <2>5, <2>6 DEF WireInv
<1>5. CASE Credit(n) /\ preparing' = NotPreparing /\ UNCHANGED <<packed, nameOf>>
  <2>1. WireBudgetExact' /\ live' \in Nat /\ count' \in Nat
    BY <1>0, <1>1, <1>2, <1>5, WireConstants DEF WireBudgetExact, Credit, NotPreparing
  <2>2. WireShape'
    BY <1>5, <2>1 DEF WireInv, WireShape, BindOrFail, NotPreparing, fastWeightVars
  <2>3. PackedOK'
    BY <1>0, <1>5 DEF WireInv, PackedOK, BindOrFail, NotPreparing, Candidate
  <2>4. QED
    BY <1>3, <2>1, <2>2, <2>3 DEF WireInv
<1>6. QED
  BY <1>4, <1>5 DEF BindOrFail

LEMMA PackOrFailStep ==
  ASSUME WireInv, PackOrFail
  PROVE  WireInv'
<1> DEFINE n == preparing.name
           sizes == SizesIn(packed, nameOf)
<1>0. /\ preparing.pc = "pack" /\ n \in Names /\ Candidate \in Revisions /\ SizeOf[n] \in Nat
      /\ packed \in SUBSET Revisions /\ \A r \in packed : nameOf[r] \in Names
      /\ Candidate \in packed /\ nameOf[Candidate] = n /\ revision \in Nat
      /\ packed \subseteq 1..revision \cup {Candidate} /\ Candidate = revision + 1
      /\ preparing' = NotPreparing
  BY WireConstants DEF WireInv, PackedOK, PackOrFail, Candidate, WireShape
<1>1. Cardinality(packed) \in Nat /\ Total(packed, sizes) \in Nat
  BY <1>0, SizesTyped
<1>2. /\ count = Cardinality(packed) /\ count <= MaxSnapshots
      /\ live = Total(packed, sizes) /\ live <= MaxPrepared
  BY <1>0, <1>1 DEF WireInv, WireBudgetExact
<1>3. CASE entries' = [entries EXCEPT ![n] = Candidate] /\ revision' = Candidate
           /\ UNCHANGED <<packed, live, count>>
  <2>1. WireBudgetExact'
    BY <1>0, <1>1, <1>2, <1>3 DEF WireBudgetExact, PackOrFail, NotPreparing
  <2>2. WireShape'
    BY <1>0, <1>3 DEF WireInv, WireShape, PackOrFail, NotPreparing, fastWeightVars
  <2>3. PackedOK'
    BY <1>0, <1>3 DEF WireInv, PackedOK, PackOrFail, NotPreparing
  <2>4. RevisionsKept' /\ MembersKept'
    BY <1>0, <1>3 DEF WireInv, WireShape, RevisionsKept, MembersKept, PackOrFail, fastWeightVars
  <2>5. QED
    BY <2>1, <2>2, <2>3, <2>4 DEF WireInv
<1>4. CASE packed' = packed \ {Candidate} /\ Credit(n) /\ UNCHANGED <<entries, revision>>
  <2>1. /\ Cardinality(packed) = Cardinality(packed') + 1
        /\ Total(packed, sizes) = Total(packed', SizesIn(packed', nameOf)) + SizeOf[n]
    <3> HIDE DEF n
    <3> QED BY <1>0, <1>4, SnapshotDropped
  <2>2. Cardinality(packed') \in Nat /\ Total(packed', SizesIn(packed', nameOf)) \in Nat
    <3>1. packed' \in SUBSET Revisions /\ \A r \in packed' : nameOf[r] \in Names
      BY <1>0, <1>4
    <3>2. QED
      BY <3>1, SizesTyped
  <2>3. WireBudgetExact' /\ live' \in Nat /\ count' \in Nat
    BY <1>0, <1>2, <1>4, <2>1, <2>2, WireConstants
       DEF WireBudgetExact, PackOrFail, Credit, NotPreparing
  <2>4. WireShape'
    BY <1>0, <1>4, <2>3 DEF WireInv, WireShape, PackOrFail, NotPreparing, fastWeightVars
  <2>5. PackedOK'
    BY <1>0, <1>4 DEF WireInv, PackedOK, PackOrFail, NotPreparing
  <2>6. RevisionsKept' /\ MembersKept'
    <3>1. \A k \in 0..revision : k \in packed => k \in packed'
      BY <1>0, <1>4
    <3>2. UNCHANGED <<entries, nameOf, loads, asked, members, fastCall>>
      BY <1>4 DEF PackOrFail, fastWeightVars
    <3>3. RevisionsKept'
      BY <3>1, <3>2 DEF WireInv, WireShape, RevisionsKept
    <3>4. MembersKept'
      BY <3>1, <3>2 DEF WireInv, WireShape, MembersKept
    <3>5. QED
      BY <3>3, <3>4
  <2>7. QED
    BY <2>3, <2>4, <2>5, <2>6 DEF WireInv
<1>5. QED
  BY <1>0, <1>3, <1>4 DEF PackOrFail

LEMMA FinalizeStep ==
  ASSUME WireInv, NEW r \in Revisions, Finalize(r)
  PROVE  WireInv'
<1> DEFINE sizes == SizesIn(packed, nameOf)
           reserved == IF preparing.pc = "bind" THEN 1 ELSE 0
           reservation == IF reserved = 1 THEN SizeOf[preparing.name] ELSE 0
<1>0. /\ r \in packed /\ packed' = packed \ {r} /\ packed \in SUBSET Revisions
      /\ \A s \in packed : nameOf[s] \in Names
      /\ SizeOf[nameOf[r]] \in Nat /\ reserved \in Nat /\ reservation \in Nat
      /\ UNCHANGED <<nameOf, preparing, revision>>
  BY WireConstants DEF WireInv, PackedOK, Finalize, WireShape
<1>1. /\ count = Cardinality(packed) + reserved /\ count <= MaxSnapshots
      /\ live = Total(packed, sizes) + reservation /\ live <= MaxPrepared
  BY DEF WireInv, WireBudgetExact
<1>2. /\ Cardinality(packed) = Cardinality(packed') + 1
      /\ Total(packed, sizes) = Total(packed', SizesIn(packed', nameOf)) + SizeOf[nameOf[r]]
  BY <1>0, SnapshotDropped
<1>3. Cardinality(packed') \in Nat /\ Total(packed', SizesIn(packed', nameOf)) \in Nat
  <2>1. packed' \in SUBSET Revisions /\ \A s \in packed' : nameOf[s] \in Names
    BY <1>0
  <2>2. QED
    BY <2>1, SizesTyped
<1>4. live' = live - SizeOf[nameOf[r]] /\ count' = count - 1
  BY DEF Finalize, Credit
<1>5. /\ live' = Total(packed', SizesIn(packed', nameOf)) + reservation
      /\ count' = Cardinality(packed') + reserved
  <2> HIDE DEF reserved, reservation, sizes
  <2> QED BY <1>0, <1>1, <1>2, <1>3, <1>4
<1>6. live' <= MaxPrepared /\ count' <= MaxSnapshots /\ live' \in Nat /\ count' \in Nat
  <2>1. MaxPrepared \in Nat /\ MaxSnapshots \in Nat
    BY WireConstants
  <2>2. live \in Nat /\ count \in Nat
    BY DEF WireInv, WireShape
  <2> HIDE DEF reserved, reservation, sizes
  <2>3. QED
    BY <1>0, <1>1, <1>3, <1>4, <1>5, <2>1, <2>2
<1>7. WireBudgetExact'
  BY <1>0, <1>5, <1>6 DEF WireBudgetExact
<1>8. WireShape'
  BY <1>6 DEF WireInv, WireShape, Finalize, fastWeightVars
<1>9. PackedOK'
  BY <1>0 DEF WireInv, PackedOK, Finalize, Owned, Candidate
<1>10. RevisionsKept' /\ MembersKept'
  BY <1>0, WireConstants DEF WireInv, WireShape, RevisionsKept, MembersKept, Finalize, Owned, fastWeightVars
<1>11. QED
  BY <1>7, <1>8, <1>9, <1>10 DEF WireInv

LEMMA LoadStep ==
  ASSUME WireInv, NEW i \in 1..MaxLoads, Retire(i) \/ \E n \in Names : Submit(n, i)
  PROVE  WireInv'
<1>1. UNCHANGED <<packed, nameOf, live, count, preparing, revision, entries, members, fastCall, wireClosed>>
  BY DEF Retire, Submit, fastWeightVars
<1>2. WireBudgetExact' /\ PackedOK'
  BY <1>1, BudgetSame
<1>3. WireShape'
  BY <1>1 DEF WireInv, WireShape, Retire, Submit, fastWeightVars
<1>4. MembersKept'
  BY <1>1 DEF WireInv, MembersKept
<1>5. RevisionsKept'
  <2>0. /\ loads \in [1..MaxLoads -> 0..revision] /\ asked \in [1..MaxLoads -> 0..revision]
        /\ \A k \in 1..MaxLoads : loads[k] # 0 => loads[k] \in packed /\ loads[k] = asked[k]
        /\ \A n \in Names : entries[n] # 0 => entries[n] \in packed /\ nameOf[entries[n]] = n
    BY DEF WireInv, WireShape, RevisionsKept
  <2>1. CASE Retire(i)
    BY <1>1, <2>0, <2>1 DEF RevisionsKept, Retire, fastWeightVars
  <2>2. CASE \E n \in Names : Submit(n, i)
    BY <1>1, <2>0, <2>2 DEF RevisionsKept, Submit
  <2>3. QED
    BY <2>1, <2>2
<1>6. QED
  BY <1>2, <1>3, <1>4, <1>5 DEF WireInv

LEMMA ForgetStep ==
  ASSUME WireInv, CloseWire \/ \E S \in SUBSET Names : InvalidateEntries(S)
  PROVE  WireInv'
<1>1. UNCHANGED <<packed, nameOf, live, count, preparing, revision, members, fastCall, asked>>
  BY DEF CloseWire, InvalidateEntries, fastWeightVars
<1>2. WireBudgetExact' /\ PackedOK'
  BY <1>1, BudgetSame
<1>3. /\ entries' \in [Names -> 0..revision] /\ \A n \in Names : entries'[n] \in {0, entries[n]}
      /\ loads' \in [1..MaxLoads -> 0..revision] /\ \A i \in 1..MaxLoads : loads'[i] \in {0, loads[i]}
      /\ wireClosed' \in BOOLEAN
  <2>0. /\ revision \in Nat /\ entries \in [Names -> 0..revision] /\ wireClosed \in BOOLEAN
        /\ loads \in [1..MaxLoads -> 0..revision]
    BY DEF WireInv, WireShape
  <2>1. CASE CloseWire
    BY <2>0, <2>1 DEF CloseWire
  <2>2. CASE \E S \in SUBSET Names : InvalidateEntries(S)
    BY <2>0, <2>2 DEF InvalidateEntries
  <2>3. QED
    BY <2>1, <2>2
<1>4. WireShape'
  BY <1>1, <1>3 DEF WireInv, WireShape
<1>5. RevisionsKept' /\ MembersKept'
  BY <1>1, <1>3 DEF WireInv, WireShape, RevisionsKept, MembersKept
<1>6. QED
  BY <1>2, <1>4, <1>5 DEF WireInv

LEMMA FastStep ==
  ASSUME WireInv, \/ \E n \in Names : FastEntries(n)
                  \/ \E i \in 1..MaxLoads : FastSubmit(i)
  PROVE  WireInv'
<1>1. UNCHANGED <<packed, nameOf, live, count, preparing, revision, entries, wireClosed>>
  BY DEF FastEntries, FastSubmit
<1>2. WireBudgetExact' /\ PackedOK'
  BY <1>1, BudgetSame
<1>3. CASE \E n \in Names : FastEntries(n)
  <2>1. UNCHANGED <<loads, members, asked>>
    BY <1>3 DEF FastEntries
  <2>2. WireShape' /\ RevisionsKept' /\ MembersKept'
    BY <1>1, <1>3, <2>1 DEF WireInv, WireShape, RevisionsKept, MembersKept, FastEntries, NoFastCall
  <2>3. QED
    BY <1>2, <2>2 DEF WireInv
<1>4. CASE \E i \in 1..MaxLoads : FastSubmit(i)
  <2>1. PICK i \in 1..MaxLoads : FastSubmit(i)
    BY <1>4
  <2>2. /\ fastCall.name \in Names /\ fastCall.rev # 0 /\ fastCall.rev \in packed
        /\ fastCall.rev \in 0..revision /\ fastCall' = NoFastCall
    BY <2>1 DEF WireInv, WireShape, MembersKept, FastSubmit
  <2>3. Member(fastCall.name, fastCall.rev) = fastCall.rev
    BY DEF Member
  <2>4. /\ members' = [members EXCEPT ![fastCall.name] = fastCall.rev]
        /\ loads' = [loads EXCEPT ![i] = fastCall.rev] /\ asked' = [asked EXCEPT ![i] = fastCall.rev]
    BY <2>1, <2>3 DEF FastSubmit
  <2>5. WireShape'
    BY <1>1, <2>2, <2>4 DEF WireInv, WireShape, NoFastCall
  <2>6. RevisionsKept' /\ MembersKept'
    BY <1>1, <2>2, <2>4 DEF WireInv, WireShape, RevisionsKept, MembersKept
  <2>7. QED
    BY <1>2, <2>5, <2>6 DEF WireInv
<1>5. QED
  BY <1>3, <1>4

(* Every step of prepare(), of a load or of a finalizer keeps the invariant *)
(* of the wire weights (wire_weights.py).                                   *)
THEOREM WireInvariant == WireSpec => []WireInv
<1>1. WireInv /\ [WireNext]_wireVars => WireInv'
  <2> SUFFICES ASSUME WireInv, [WireNext]_wireVars PROVE WireInv'
    OBVIOUS
  <2>1. DOMAIN loads = 1..MaxLoads
    BY DEF WireInv, WireShape
  <2>2. CASE UNCHANGED wireVars
    BY <2>2 DEF wireVars, fastWeightVars, WireInv, WireShape, PackedOK, RevisionsKept, MembersKept,
       WireBudgetExact, Candidate
  <2>3. CASE BindOrFail
    BY <2>3, BindOrFailStep
  <2>4. CASE PackOrFail
    BY <2>4, PackOrFailStep
  <2>5. CASE CloseWire \/ InvalidateEntries(Names) \/ \E n \in Names : InvalidateEntries({n})
    BY <2>5, ForgetStep
  <2>6. CASE \E n \in Names : Reserve(n)
    BY <2>6, ReserveStep
  <2>7. CASE \/ \E n \in Names : FastEntries(n)
             \/ \E i \in 1..MaxLoads : FastSubmit(i)
    BY <2>7, FastStep
  <2>8. CASE \E i \in 1..MaxLoads : Retire(i) \/ \E n \in Names : Submit(n, i)
    BY <2>8, LoadStep
  <2>9. CASE \E r \in Revisions : Finalize(r)
    BY <2>9, FinalizeStep
  <2>10. QED
    BY <2>1, <2>2, <2>3, <2>4, <2>5, <2>6, <2>7, <2>8, <2>9 DEF WireNext
<1>2. QED
  BY <1>1, WireInitOK, PTL DEF WireSpec

(* The weight budget charges exactly the revisions that are kept, never     *)
(* more than it has, and everything current or submitted is kept (_Budget,  *)
(* prepare() and its finalizers).                                           *)
THEOREM RevisionsStayAccounted == WireSpec => []RevisionsAccounted
<1>1. WireInv => RevisionsAccounted
  BY DEF WireInv, RevisionsAccounted
<1>2. QED
  BY <1>1, WireInvariant, PTL

(****************************************************************************)
(* Prepared weights.                                                        *)
(*                                                                          *)
(* WeightsFresh speaks of the moment a result is there.  Why it holds lies  *)
(* in what was seen before: from the comparison on, a source whose identity *)
(* and version are unchanged was written only behind Torch's back, and the  *)
(* bytes tell a single such write from none.                                *)
(****************************************************************************)
Values == Contents \cup {NoWeight}

FreshShape ==
  /\ slot \in [id : Nat, version : Nat, contents : Contents]
  /\ get \in [pc : {"idle", "compare", "direct", "build", "publish", "deliver", "done"},
              id : Nat, version : Nat, current : Values, prepared : Values, result : Values]
  /\ old \in Values /\ held \subseteq Contents /\ silent \in Nat /\ masked \in BOOLEAN
  /\ wclosed \in BOOLEAN /\ writes \in Nat /\ gets \in Nat

(* The slot, and the tensor a call resolved, hold contents of a moment of   *)
(* the call.                                                                *)
SourceHeld ==
  get.pc # "idle" => get.id <= slot.id /\ Src \in held /\ slot.contents \in held

(* Since the comparison: the version of a tensor that is still in its slot  *)
(* only grows, and while it has not, no unversioned write leaves the bytes, *)
(* and one changes them.                                                    *)
BuiltOnHeld ==
  /\ get.pc = "compare" => silent = 0
  /\ get.pc \in {"build", "publish"} =>
       /\ get.current \in held
       /\ slot.id = get.id =>
            /\ get.version <= slot.version
            /\ slot.version = get.version =>
                 /\ silent = 0 => slot.contents = get.current
                 /\ silent = 0 /\ get.pc = "publish" => get.prepared = get.current
                 /\ silent = 1 => slot.contents # get.current

(* What is retained is the layout of the bytes it is compared with.         *)
RetainedOK ==
  /\ stable # NoWeight => stable.prepared \in Values /\ (stable.prepared = stable.saved \/ masked)
  /\ get.pc = "deliver" => stable.prepared \in Values /\ (stable.prepared \in held \/ masked)

FreshInv == FreshShape /\ SourceHeld /\ BuiltOnHeld /\ RetainedOK /\ WeightsFresh

LEMMA FreshInitOK == WeightsInit => FreshInv
<1> SUFFICES ASSUME WeightsInit PROVE FreshInv
  OBVIOUS
<1>1. PICK v \in Contents : slot = [id |-> 0, version |-> 0, contents |-> v]
  BY DEF WeightsInit
<1>2. FreshShape
  BY <1>1 DEF WeightsInit, FreshShape, NoGet, Values
<1>3. get.pc = "idle" /\ stable = NoWeight
  BY DEF WeightsInit, NoGet
<1>4. QED
  BY <1>2, <1>3 DEF FreshInv, SourceHeld, BuiltOnHeld, RetainedOK, WeightsFresh

\* The module's threads write at any step of a call.
LEMMA WriteStep ==
  ASSUME FreshInv, Write
  PROVE  FreshInv'
<1>0. UNCHANGED <<stable, get, masked, wclosed, gets>> /\ writes' = writes + 1
  BY DEF Write
<1>1. PICK v \in Contents :
        /\ held' = held \cup {v}
        /\ \/ /\ slot' = [slot EXCEPT !.version = @ + 1, !.contents = v]
              /\ UNCHANGED <<old, silent>>
           \/ /\ v # slot.contents /\ slot' = [slot EXCEPT !.contents = v]
              /\ silent' = IF get.pc = "publish" \/ get.pc = "build" THEN silent + 1 ELSE silent
              /\ UNCHANGED old
           \/ /\ slot' = [id |-> slot.id + 1, version |-> 0, contents |-> v]
              /\ old' = IF slot.id = get.id THEN slot.contents ELSE old
              /\ UNCHANGED silent
  BY DEF Write
<1>a. /\ slot \in [id : Nat, version : Nat, contents : Contents] /\ get.id \in Nat /\ get.version \in Nat
      /\ silent \in Nat /\ old \in Values /\ held \subseteq Contents
  BY DEF FreshInv, FreshShape
<1>2. /\ slot' \in [id : Nat, version : Nat, contents : Contents] /\ slot'.contents = v
      /\ \/ /\ slot'.id = slot.id /\ slot'.version = slot.version + 1 /\ UNCHANGED <<old, silent>>
         \/ /\ slot'.id = slot.id /\ slot'.version = slot.version /\ v # slot.contents
            /\ silent' = (IF get.pc = "publish" \/ get.pc = "build" THEN silent + 1 ELSE silent)
            /\ UNCHANGED old
         \/ /\ slot'.id = slot.id + 1 /\ old' = (IF slot.id = get.id THEN slot.contents ELSE old)
            /\ UNCHANGED silent
  <2>1. CASE slot' = [slot EXCEPT !.version = @ + 1, !.contents = v] /\ UNCHANGED <<old, silent>>
    <3>1. slot' = [id |-> slot.id, version |-> slot.version + 1, contents |-> v]
      BY <1>a, <2>1
    <3>2. slot.id \in Nat /\ slot.version + 1 \in Nat
      BY <1>a
    <3>3. QED
      BY <2>1, <3>1, <3>2
  <2>2. CASE /\ v # slot.contents /\ slot' = [slot EXCEPT !.contents = v]
             /\ silent' = IF get.pc = "publish" \/ get.pc = "build" THEN silent + 1 ELSE silent
             /\ UNCHANGED old
    BY <1>a, <2>2
  <2>3. CASE /\ slot' = [id |-> slot.id + 1, version |-> 0, contents |-> v]
             /\ old' = IF slot.id = get.id THEN slot.contents ELSE old
             /\ UNCHANGED silent
    BY <1>a, <2>3
  <2>4. QED
    BY <1>1, <2>1, <2>2, <2>3
<1>3. held' = held \cup {v}
  BY <1>1
<1>4. FreshShape'
  <2>1. old' \in Values /\ silent' \in Nat /\ held' \subseteq Contents
    BY <1>a, <1>2, <1>3 DEF Values
  <2>2. QED
    BY <1>0, <1>2, <2>1 DEF FreshInv, FreshShape
<1>5. SourceHeld'
  BY <1>0, <1>a, <1>2, <1>3 DEF FreshInv, SourceHeld, Src
<1>6. BuiltOnHeld'
  BY <1>0, <1>a, <1>2, <1>3 DEF FreshInv, SourceHeld, BuiltOnHeld
<1>7. RetainedOK' /\ WeightsFresh'
  BY <1>0, <1>3 DEF FreshInv, RetainedOK, WeightsFresh
<1>8. QED
  BY <1>4, <1>5, <1>6, <1>7 DEF FreshInv

LEMMA ResolveStep ==
  ASSUME FreshInv, Resolve
  PROVE  FreshInv'
<1>1. /\ held' = {slot.contents} /\ silent' = 0 /\ gets' = gets + 1
      /\ UNCHANGED <<slot, old, stable, masked, wclosed, writes>>
  BY DEF Resolve
<1>2. PICK pc \in {"compare", "direct"} :
        get' = [NoGet EXCEPT !.pc = pc, !.id = slot.id, !.version = slot.version]
  BY DEF Resolve
<1>3. /\ get' = [pc |-> pc, id |-> slot.id, version |-> slot.version, current |-> NoWeight,
                  prepared |-> NoWeight, result |-> NoWeight]
      /\ get'.pc = pc /\ get'.id = slot.id
  BY <1>2 DEF NoGet
<1>4. FreshShape'
  <2>1. /\ slot.id \in Nat /\ slot.version \in Nat /\ {slot.contents} \subseteq Contents
        /\ gets' \in Nat
    BY <1>1 DEF FreshInv, FreshShape
  <2>2. get' \in [pc : {"idle", "compare", "direct", "build", "publish", "deliver", "done"},
                  id : Nat, version : Nat, current : Values, prepared : Values, result : Values]
    BY <1>3, <2>1 DEF Values
  <2>3. QED
    BY <1>1, <2>1, <2>2 DEF FreshInv, FreshShape
<1>5. SourceHeld' /\ BuiltOnHeld'
  BY <1>1, <1>3 DEF FreshInv, FreshShape, SourceHeld, BuiltOnHeld, Src
<1>6. RetainedOK' /\ WeightsFresh'
  BY <1>1, <1>3 DEF FreshInv, RetainedOK, WeightsFresh
<1>7. QED
  BY <1>4, <1>5, <1>6 DEF FreshInv

\* A retained layout that is reused is the layout of the bytes seen now.
LEMMA CompareStep ==
  ASSUME FreshInv, Compare
  PROVE  FreshInv'
<1> DEFINE same == /\ stable # NoWeight /\ get.id = stable.id /\ slot.id = stable.id
                   /\ slot.version = stable.version /\ Src = stable.saved
<1>1. /\ get.pc = "compare" /\ UNCHANGED <<slot, old, held, silent, masked, wclosed, writes, gets>>
      /\ get' = [get EXCEPT !.pc = IF same THEN "deliver" ELSE "build", !.current = Src,
                            !.version = IF slot.id = get.id THEN slot.version ELSE @]
      /\ stable' = IF same THEN stable ELSE NoWeight
  BY DEF Compare
<1>2. /\ Src \in held /\ held \subseteq Contents /\ get.id <= slot.id /\ silent = 0
      /\ slot.contents \in held
  BY <1>1 DEF FreshInv, FreshShape, SourceHeld, BuiltOnHeld
<1>3. /\ get'.pc = (IF same THEN "deliver" ELSE "build") /\ get'.id = get.id /\ get'.current = Src
      /\ get'.version = IF slot.id = get.id THEN slot.version ELSE get.version
  BY <1>1 DEF FreshInv, FreshShape
<1>4. FreshShape'
  BY <1>1, <1>2 DEF FreshInv, FreshShape, Values
<1>5. SourceHeld'
  BY <1>1, <1>2, <1>3 DEF SourceHeld, Src
<1>6. BuiltOnHeld'
  BY <1>1, <1>2, <1>3 DEF FreshInv, FreshShape, BuiltOnHeld, Src
<1>7. RetainedOK' /\ WeightsFresh'
  BY <1>1, <1>2, <1>3 DEF FreshInv, RetainedOK, WeightsFresh
<1>8. QED
  BY <1>4, <1>5, <1>6, <1>7 DEF FreshInv

LEMMA MaterializeStep ==
  ASSUME FreshInv, Materialize
  PROVE  FreshInv'
<1>1. get.pc = "build" /\ UNCHANGED <<slot, old, stable, held, silent, masked, wclosed, writes, gets>>
  BY DEF Materialize
<1>2. PICK pc \in {"publish", "direct"} :
        get' = [get EXCEPT !.pc = pc, !.prepared = IF pc = "publish" THEN Src ELSE NoWeight]
  BY DEF Materialize
<1>3. /\ get'.pc = pc /\ get'.id = get.id /\ get'.version = get.version /\ get'.current = get.current
      /\ get'.prepared = IF pc = "publish" THEN Src ELSE NoWeight
  BY <1>2 DEF FreshInv, FreshShape
<1>4. /\ Src \in held /\ held \subseteq Contents /\ get.id <= slot.id
      /\ slot.contents \in held
  BY <1>1 DEF FreshInv, FreshShape, SourceHeld
<1>5. FreshShape'
  BY <1>1, <1>2, <1>4 DEF FreshInv, FreshShape, Values
<1>6. SourceHeld'
  BY <1>1, <1>3, <1>4 DEF SourceHeld, Src
<1>7. BuiltOnHeld'
  BY <1>1, <1>3, <1>4 DEF FreshInv, BuiltOnHeld, Src
<1>8. RetainedOK' /\ WeightsFresh'
  BY <1>1, <1>3 DEF FreshInv, RetainedOK, WeightsFresh
<1>9. QED
  BY <1>5, <1>6, <1>7, <1>8 DEF FreshInv

\* What is published was built from the bytes it is filed under, or two
\* unversioned writes hid that it was not.
LEMMA PublishStep ==
  ASSUME FreshInv, Publish
  PROVE  FreshInv'
<1>1. /\ get.pc = "publish" /\ masked' = (masked \/ silent > 1)
      /\ UNCHANGED <<slot, old, held, silent, wclosed, writes, gets>>
  BY DEF Publish
<1>2. /\ Src \in held /\ held \subseteq Contents /\ get.id <= slot.id /\ get.current \in held
      /\ get.prepared \in Values /\ silent \in Nat /\ masked \in BOOLEAN /\ masked' \in BOOLEAN
  BY <1>1 DEF FreshInv, FreshShape, SourceHeld, BuiltOnHeld
<1>3. CASE slot.id = get.id /\ slot.version = get.version /\ Src = get.current
  <2>1. /\ stable' = [id |-> get.id, version |-> get.version, saved |-> get.current,
                      prepared |-> get.prepared]
        /\ get' = [get EXCEPT !.pc = "deliver"]
    BY <1>3 DEF Publish
  <2>2. get'.pc = "deliver" /\ get'.id = get.id
    BY <2>1 DEF FreshInv, FreshShape
  <2>3. get.prepared = get.current \/ masked'
    <3>1. slot.contents = get.current
      BY <1>3 DEF Src
    <3>2. silent # 1
      BY <1>1, <1>3, <3>1 DEF FreshInv, BuiltOnHeld
    <3>3. CASE silent = 0
      BY <1>1, <1>3, <3>3 DEF FreshInv, BuiltOnHeld
    <3>4. CASE silent > 1
      BY <1>1, <3>4
    <3>5. QED
      BY <1>2, <3>2, <3>3, <3>4
  <2>4. FreshShape'
    BY <1>1, <1>2, <2>1 DEF FreshInv, FreshShape
  <2>5. SourceHeld' /\ BuiltOnHeld' /\ WeightsFresh'
    BY <1>1, <1>2, <1>3, <2>2 DEF SourceHeld, BuiltOnHeld, WeightsFresh, Src
  <2>6. stable'.prepared = get.prepared /\ stable'.saved = get.current
    BY <2>1
  <2>7. RetainedOK'
    BY <1>1, <1>2, <2>2, <2>3, <2>6 DEF RetainedOK, Values
  <2>8. QED
    BY <2>4, <2>5, <2>7 DEF FreshInv
<1>4. CASE ~(slot.id = get.id /\ slot.version = get.version /\ Src = get.current)
  <2>1. get' = [get EXCEPT !.pc = "direct", !.id = slot.id] /\ UNCHANGED stable
    BY <1>4 DEF Publish
  <2>2. get'.pc = "direct" /\ get'.id = slot.id
    BY <2>1 DEF FreshInv, FreshShape
  <2>3. FreshShape'
    BY <1>1, <1>2, <2>1 DEF FreshInv, FreshShape
  <2>4. slot.contents \in held
    BY <1>1 DEF FreshInv, SourceHeld
  <2>5. SourceHeld' /\ BuiltOnHeld' /\ WeightsFresh'
    BY <1>1, <1>2, <2>2, <2>4 DEF FreshInv, FreshShape, SourceHeld, BuiltOnHeld, WeightsFresh, Src
  <2>6. RetainedOK'
    BY <1>1, <2>1, <2>2 DEF FreshInv, RetainedOK
  <2>7. QED
    BY <2>3, <2>5, <2>6 DEF FreshInv
<1>5. QED
  BY <1>3, <1>4

LEMMA DeliverStep ==
  ASSUME FreshInv, Deliver \/ Return
  PROVE  FreshInv'
<1>1. CASE Deliver
  <2>1. /\ get.pc \in {"deliver", "direct"}
        /\ get' = [get EXCEPT !.pc = "done",
                              !.result = IF get.pc = "deliver" THEN stable.prepared ELSE Src]
        /\ UNCHANGED <<slot, old, stable, held, silent, masked, wclosed, writes, gets>>
    BY <1>1 DEF Deliver
  <2>2. /\ Src \in held /\ held \subseteq Contents /\ get.id <= slot.id /\ slot.contents \in held
        /\ get.pc = "deliver" => stable.prepared \in Values /\ (stable.prepared \in held \/ masked)
    BY <2>1 DEF FreshInv, FreshShape, SourceHeld, RetainedOK
  <2>3. /\ get'.pc = "done" /\ get'.id = get.id
        /\ get'.result = IF get.pc = "deliver" THEN stable.prepared ELSE Src
    BY <2>1 DEF FreshInv, FreshShape
  <2>4. FreshShape'
    BY <2>1, <2>2 DEF FreshInv, FreshShape, Values
  <2>5. SourceHeld' /\ BuiltOnHeld' /\ WeightsFresh'
    BY <2>1, <2>2, <2>3 DEF SourceHeld, BuiltOnHeld, WeightsFresh, Src
  <2>6. RetainedOK'
    BY <2>1, <2>3 DEF FreshInv, RetainedOK
  <2>7. QED
    BY <2>4, <2>5, <2>6 DEF FreshInv
<1>2. CASE Return
  <2>1. /\ get' = NoGet /\ held' = {} /\ silent' = 0 /\ old' = NoWeight
        /\ UNCHANGED <<slot, stable, masked, wclosed, writes, gets>>
    BY <1>2 DEF Return
  <2>2. get'.pc = "idle"
    BY <2>1 DEF NoGet
  <2>3. FreshShape'
    BY <2>1 DEF FreshInv, FreshShape, NoGet, Values
  <2>4. SourceHeld' /\ BuiltOnHeld' /\ RetainedOK' /\ WeightsFresh'
    BY <2>1, <2>2 DEF FreshInv, SourceHeld, BuiltOnHeld, RetainedOK, WeightsFresh
  <2>5. QED
    BY <2>3, <2>4 DEF FreshInv
<1>3. QED
  BY <1>1, <1>2

LEMMA DropStep ==
  ASSUME FreshInv, Invalidate \/ CloseWeights
  PROVE  FreshInv'
<1>1. /\ get.pc = "idle" /\ stable' = NoWeight /\ wclosed' \in BOOLEAN
      /\ UNCHANGED <<slot, old, get, held, silent, masked, writes, gets>>
  BY DEF FreshInv, FreshShape, Invalidate, CloseWeights
<1>2. FreshShape'
  BY <1>1 DEF FreshInv, FreshShape
<1>3. SourceHeld' /\ BuiltOnHeld' /\ RetainedOK' /\ WeightsFresh'
  BY <1>1 DEF SourceHeld, BuiltOnHeld, RetainedOK, WeightsFresh
<1>4. QED
  BY <1>2, <1>3 DEF FreshInv

(* Writes between any two steps of a get() keep the invariant of the        *)
(* prepared weights (weights.py).                                           *)
THEOREM FreshInvariant == WeightsSpec => []FreshInv
<1>1. FreshInv /\ [WeightsNext]_weightVars => FreshInv'
  <2> SUFFICES ASSUME FreshInv, [WeightsNext]_weightVars PROVE FreshInv'
    OBVIOUS
  <2>1. CASE UNCHANGED weightVars
    BY <2>1 DEF weightVars, FreshInv, FreshShape, SourceHeld, BuiltOnHeld, RetainedOK, WeightsFresh, Src
  <2>2. CASE WeightsNext
    BY <2>2, WriteStep, ResolveStep, CompareStep, MaterializeStep, PublishStep, DeliverStep, DropStep
       DEF WeightsNext
  <2>3. QED
    BY <2>1, <2>2
<1>2. QED
  BY <1>1, FreshInitOK, PTL DEF WeightsSpec

(* Whoever writes the slot, replaces it or writes its memory behind Torch's *)
(* back, a result has contents that the slot had during the call, unless    *)
(* two unseen writes restored the bytes while the layout was built (get(),  *)
(* _stable_get).                                                            *)
THEOREM ResultsOfTheCall == WeightsSpec => []WeightsFresh
<1>1. FreshInv => WeightsFresh
  BY DEF FreshInv
<1>2. QED
  BY <1>1, FreshInvariant, PTL

(****************************************************************************)
(* Prepared requests.                                                       *)
(*                                                                          *)
(* That nothing is launched twice rests on the locks: who is about to       *)
(* launch holds the lock of everything it launches, looked at `consumed`    *)
(* under each, and a lock is held only by a caller that is executing.  That *)
(* a request of a group is launched with it rests on what the caller's list *)
(* of targets is.                                                           *)
(****************************************************************************)
Lockables == Requests \cup Groups
Executing == {"lock", "allocate", "running"}
IsMade(x) == IF x \in Groups THEN group[x].made ELSE request[x].made

Acts == [pc : Executing \cup {"idle", "template"}, target : Seq(Lockables),
         todo : Seq(Lockables) \cup Seq(0..MaxEdits), hit : BOOLEAN]

RequestShape ==
  /\ request \in [Requests -> [made : BOOLEAN, snap : Nat, vals : Nat, consumed : BOOLEAN]]
  /\ group \in [Groups -> [made : BOOLEAN, consumed : BOOLEAN]]
  /\ lockOf \in [Lockables -> Callers \cup {Nobody}]
  /\ content \in [Requests -> Nat] /\ value \in 0..MaxEdits /\ starts \in Nat
  /\ launched \in [Lockables -> Nat]
  /\ session \in [lock : Callers \cup {Nobody}, closed : BOOLEAN]
  /\ act \in [Callers -> Acts]

(* A caller that prepares a typed request is alone with it, and remembers   *)
(* the version of the parameter its template is for.                        *)
PreparingOK ==
  \A c \in Callers : At(c, "template") =>
    \E r \in Typeds, v \in 0..MaxEdits :
      /\ act[c].target = <<r>> /\ act[c].todo = <<v>> /\ ~request[r].made
      /\ \A d \in Callers : At(d, "template") /\ d # c => act[d].target # <<r>>

(* A caller that executes has locked what is before the rest of its list,   *)
(* and saw it unconsumed.                                                   *)
Rest(c) == Len(act[c].target) - Len(act[c].todo)
ListOK(c) ==
  /\ \E x \in Lockables : IsMade(x) /\ act[c].target = Target(x)
  /\ act[c].todo \in Seq(Lockables) /\ Len(act[c].todo) <= Len(act[c].target)
  /\ \A i \in 1..Len(act[c].todo) : act[c].todo[i] = act[c].target[Rest(c) + i]
  /\ act[c].pc # "lock" => Len(act[c].todo) = 0
HoldsOK(c) == \A i \in 1..Rest(c) : lockOf[act[c].target[i]] = c /\ ~Consumed(act[c].target[i])
ExecutingOK ==
  \A c \in Callers : act[c].pc \in Executing => ListOK(c) /\ (act[c].pc # "running" => HoldsOK(c))

LocksOK ==
  /\ \A x \in Lockables : lockOf[x] # Nobody => act[lockOf[x]].pc \in Executing
  /\ session.lock # Nobody => ~At(session.lock, "idle")

(* Consumed means launched, and only what was prepared is.                  *)
ConsumedOK ==
  /\ \A x \in Lockables : Consumed(x) <=> launched[x] > 0
  /\ \A r \in Requests : ~request[r].made => ~request[r].consumed
  /\ \A g \in Groups : group[g].made => \A r \in Range(Members[g]) : request[r].made

RunInv == RequestShape /\ PreparingOK /\ ExecutingOK /\ LocksOK /\ ConsumedOK /\ LaunchedOnce

TemplateInv == templates \in Seq(0..MaxEdits) /\ TemplatesBounded

RequestsInv == RunInv /\ TemplateInv

\* The list of an execution: the request, or the group and then its members.
LEMMA TargetProperties ==
  ASSUME NEW x \in Lockables
  PROVE  /\ Target(x) \in Seq(Lockables) /\ Len(Target(x)) \in Nat \ {0} /\ Target(x)[1] = x
         /\ x \in Requests => x \notin Groups /\ Target(x) = <<x>> /\ Range(Target(x)) = {x}
         /\ x \in Groups => /\ Range(Target(x)) = {x} \cup Range(Members[x])
                            /\ Range(Members[x]) \subseteq Requests
<1>1. CASE x \in Groups
  <2>1. /\ Members[x] \in Seq(Requests) /\ <<x>> \in Seq(Lockables) /\ Members[x] \in Seq(Lockables)
        /\ x \notin Requests
    BY <1>1, RequestConstants DEF Lockables
  <2>2. Target(x) = <<x>> \o Members[x]
    BY <1>1 DEF Target
  <2>3. /\ Target(x) \in Seq(Lockables) /\ Len(Target(x)) = 1 + Len(Members[x]) /\ Target(x)[1] = x
        /\ \A i \in 1..Len(Members[x]) : Target(x)[i + 1] = Members[x][i]
    BY <2>1, <2>2
  <2>4. Range(Members[x]) \subseteq Requests
    BY <2>1 DEF Range
  <2>5. Range(Target(x)) = {x} \cup Range(Members[x])
    <3>1. Len(Members[x]) \in Nat /\ DOMAIN Members[x] = 1..Len(Members[x])
      BY <2>1
    <3>2. DOMAIN Target(x) = 1..(1 + Len(Members[x]))
      BY <2>3, <3>1
    <3>3. ASSUME NEW y \in Range(Target(x)) PROVE y \in {x} \cup Range(Members[x])
      <4>1. PICK i \in 1..(1 + Len(Members[x])) : y = Target(x)[i]
        BY <3>2 DEF Range
      <4>2. CASE i = 1
        BY <2>3, <4>1, <4>2
      <4>3. CASE i # 1
        <5>1. PICK k \in 1..Len(Members[x]) : i = k + 1
          <6>1. PICK n \in Nat : n = Len(Members[x])
            BY <3>1
          <6>2. i \in 1..(1 + n)
            BY <4>1, <6>1
          <6>3. i - 1 \in 1..n /\ i = (i - 1) + 1
            BY <4>3, <6>2
          <6>4. QED
            BY <6>1, <6>3
        <5>2. y = Members[x][k]
          BY <2>3, <4>1, <5>1
        <5>3. QED
          BY <3>1, <5>2 DEF Range
      <4>4. QED
        BY <4>2, <4>3
    <3>4. x \in Range(Target(x))
      <4>1. 1 \in DOMAIN Target(x)
        BY <3>1, <3>2
      <4>2. QED
        BY <2>3, <4>1 DEF Range
    <3>5. ASSUME NEW y \in Range(Members[x]) PROVE y \in Range(Target(x))
      <4>1. PICK k \in 1..Len(Members[x]) : y = Members[x][k]
        BY <3>1 DEF Range
      <4>2. k + 1 \in DOMAIN Target(x) /\ Target(x)[k + 1] = y
        BY <2>3, <3>1, <3>2, <4>1
      <4>3. QED
        BY <4>2 DEF Range
    <3>6. QED
      BY <3>3, <3>4, <3>5
  <2>6. QED
    BY <2>1, <2>3, <2>4, <2>5
<1>2. CASE x \notin Groups
  <2>1. x \in Requests /\ Target(x) = <<x>>
    BY <1>2 DEF Target, Lockables
  <2>2. Range(<<x>>) = {x}
    BY DEF Range
  <2>3. QED
    BY <1>2, <2>1, <2>2
<1>3. QED
  BY <1>1, <1>2

\* Everything made stays made; what else a caller's list says of it is its own.
LEMMA ListKept ==
  ASSUME NEW c \in Callers, ListOK(c), UNCHANGED act[c],
         \A x \in Lockables : IsMade(x) => IsMade(x)'
  PROVE  ListOK(c)'
<1>1. UNCHANGED <<act[c].target, act[c].todo, act[c].pc>>
  OBVIOUS
<1>2. QED
  BY <1>1 DEF ListOK, Rest

LEMMA RequestsFrame ==
  ASSUME RunInv, UNCHANGED <<request, group, launched>>
  PROVE  /\ ConsumedOK' /\ LaunchedOnce'
         /\ \A x \in Lockables : (IsMade(x)' <=> IsMade(x)) /\ (Consumed(x)' <=> Consumed(x))
BY DEF RunInv, ConsumedOK, LaunchedOnce, IsMade, Consumed

\* One caller's step leaves the others' lists and locks alone.
LEMMA OthersKept ==
  ASSUME RunInv, NEW c \in Callers, NEW a, act' = [act EXCEPT ![c] = a],
         \A x \in Lockables : IsMade(x) => IsMade(x)',
         \A x \in Lockables : lockOf[x] \in Callers \ {c} => lockOf'[x] = lockOf[x] /\ (Consumed(x)' <=> Consumed(x))
  PROVE  \A d \in Callers \ {c} :
           /\ act'[d] = act[d]
           /\ act[d].pc \in Executing => ListOK(d)' /\ (act[d].pc # "running" => HoldsOK(d)')
<1> SUFFICES ASSUME NEW d \in Callers \ {c}
             PROVE  /\ act'[d] = act[d]
                    /\ act[d].pc \in Executing => ListOK(d)' /\ (act[d].pc # "running" => HoldsOK(d)')
  OBVIOUS
<1>1. act'[d] = act[d]
  BY DEF RunInv, RequestShape, Acts
<1>2. ASSUME act[d].pc \in Executing PROVE ListOK(d)'
  BY <1>1, <1>2, ListKept DEF RunInv, ExecutingOK
<1>3. ASSUME act[d].pc \in Executing, act[d].pc # "running" PROVE HoldsOK(d)'
  <2>1. /\ act[d].target \in Seq(Lockables) /\ Len(act[d].todo) \in Nat
        /\ act'[d].target = act[d].target /\ act'[d].todo = act[d].todo
    BY <1>1 DEF RunInv, RequestShape, Acts
  <2>2. \A i \in 1..Rest(d) : lockOf[act[d].target[i]] = d /\ ~Consumed(act[d].target[i])
    BY <1>3 DEF RunInv, ExecutingOK, HoldsOK
  <2>3. \A i \in 1..Rest(d) : act[d].target[i] \in Lockables
    <3>1. Len(act[d].target) \in Nat /\ Len(act[d].todo) \in Nat
      BY <2>1
    <3>2. \A i \in 1..Rest(d) : i \in 1..Len(act[d].target)
      BY <3>1 DEF Rest
    <3>3. QED
      BY <2>1, <3>2
  <2>4. Rest(d)' = Rest(d)
    BY <2>1 DEF Rest
  <2>5. ASSUME NEW i \in 1..Rest(d) PROVE lockOf'[act[d].target[i]] = d /\ ~Consumed(act[d].target[i])'
    <3>1. PICK x \in Lockables : x = act[d].target[i]
      BY <2>3
    <3>2. lockOf'[x] = lockOf[x] /\ (Consumed(x)' <=> Consumed(x)) /\ lockOf[x] = d /\ ~Consumed(x)
      BY <2>2, <3>1
    <3>3. Consumed(act[d].target[i])' <=> Consumed(x)'
      BY <2>1, <3>1 DEF Consumed
    <3>4. QED
      BY <3>1, <3>2, <3>3
  <2>6. QED
    BY <2>1, <2>4, <2>5 DEF HoldsOK
<1>4. QED
  BY <1>1, <1>2, <1>3

\* An execution that ends, before its launch or after, leaves no lock.
LEMMA GiveBackStep ==
  ASSUME RunInv, NEW c \in Callers, GiveBack(c),
         UNCHANGED <<request, group, content, value, launched, starts>>
  PROVE  RunInv'
<1>0. /\ lockOf \in [Lockables -> Callers \cup {Nobody}] /\ Nobody \notin Callers
      /\ session \in [lock : Callers \cup {Nobody}, closed : BOOLEAN]
  BY RequestConstants DEF RunInv, RequestShape, Acts
<1>1. /\ lockOf' = [x \in Lockables |-> IF lockOf[x] = c THEN Nobody ELSE lockOf[x]]
      /\ session' = [session EXCEPT !.lock = IF @ = c THEN Nobody ELSE @]
      /\ act' = [act EXCEPT ![c] = NoAct]
  BY <1>0 DEF GiveBack
<1>2. act'[c] = NoAct /\ NoAct.pc = "idle"
  BY <1>1 DEF RunInv, RequestShape, Acts, NoAct
<1>3. ConsumedOK' /\ LaunchedOnce'
      /\ \A x \in Lockables : (IsMade(x)' <=> IsMade(x)) /\ (Consumed(x)' <=> Consumed(x))
  BY RequestsFrame
<1>4. \A d \in Callers \ {c} :
        /\ act'[d] = act[d]
        /\ act[d].pc \in Executing => ListOK(d)' /\ (act[d].pc # "running" => HoldsOK(d)')
  <2>1. \A x \in Lockables : lockOf[x] \in Callers \ {c} => lockOf'[x] = lockOf[x]
    BY <1>0, <1>1
  <2>2. QED
    BY <1>1, <1>3, <2>1, OthersKept
<1>5. RequestShape'
  <2>1. NoAct \in Acts
    BY DEF NoAct, Acts
  <2>2. lockOf' \in [Lockables -> Callers \cup {Nobody}] /\ session' \in [lock : Callers \cup {Nobody}, closed : BOOLEAN]
    BY <1>0, <1>1
  <2>3. QED
    BY <1>1, <2>1, <2>2 DEF RunInv, RequestShape, Acts
<1>6. PreparingOK'
  BY <1>2, <1>4 DEF RunInv, PreparingOK, At
<1>7. ExecutingOK'
  BY <1>2, <1>4 DEF ExecutingOK, Executing
<1>8. LocksOK'
  <2>1. \A x \in Lockables : lockOf'[x] # Nobody => lockOf'[x] = lockOf[x] /\ lockOf[x] \in Callers \ {c}
    BY <1>0, <1>1
  <2>2. session'.lock # Nobody => session'.lock = session.lock /\ session.lock \in Callers \ {c}
    BY <1>0, <1>1
  <2>3. QED
    BY <1>4, <2>1, <2>2 DEF RunInv, LocksOK, At
<1>9. QED
  BY <1>3, <1>5, <1>6, <1>7, <1>8 DEF RunInv

\* A step that changes neither requests, groups, locks nor what anyone does.
LEMMA QuietStep ==
  ASSUME RunInv, UNCHANGED <<request, group, lockOf, act, launched>>,
         content' \in [Requests -> Nat], value' \in 0..MaxEdits, starts' \in Nat,
         session' \in [lock : Callers \cup {Nobody}, closed : BOOLEAN], session'.lock = session.lock
  PROVE  RunInv'
<1>1. ConsumedOK' /\ LaunchedOnce' /\ \A x \in Lockables : IsMade(x)' <=> IsMade(x)
  BY RequestsFrame
<1>2. RequestShape'
  BY DEF RunInv, RequestShape, Acts
<1>3. PreparingOK' /\ LocksOK'
  BY DEF RunInv, PreparingOK, LocksOK, At
<1>4. \A c \in Callers : (ListOK(c)' <=> ListOK(c)) /\ (HoldsOK(c)' <=> HoldsOK(c))
  BY DEF ListOK, HoldsOK, IsMade, Rest, Consumed
<1>5. ExecutingOK'
  BY <1>4 DEF RunInv, ExecutingOK
<1>6. QED
  BY <1>1, <1>2, <1>3, <1>5 DEF RunInv

\* The callers that prepare keep their requests to themselves while another
\* one executes.
LEMMA PreparingKept ==
  ASSUME RunInv, NEW c \in Callers, act'[c].pc # "template",
         \A d \in Callers \ {c} : act'[d] = act[d],
         \A r \in Requests : ~request[r].made => ~request'[r].made
  PROVE  PreparingOK'
<1> SUFFICES ASSUME NEW d \in Callers, act'[d].pc = "template"
             PROVE  \E r \in Typeds, v \in 0..MaxEdits :
                      /\ act'[d].target = <<r>> /\ act'[d].todo = <<v>> /\ ~request'[r].made
                      /\ \A e \in Callers : act'[e].pc = "template" /\ e # d => act'[e].target # <<r>>
  BY DEF PreparingOK, At
<1>1. d # c /\ act'[d] = act[d]
  OBVIOUS
<1>2. PICK r \in Typeds, v \in 0..MaxEdits :
        /\ act[d].target = <<r>> /\ act[d].todo = <<v>> /\ ~request[r].made
        /\ \A e \in Callers : act[e].pc = "template" /\ e # d => act[e].target # <<r>>
  BY <1>1 DEF RunInv, PreparingOK, At
<1>3. ~request'[r].made
  BY <1>2 DEF Requests
<1>4. \A e \in Callers : act'[e].pc = "template" /\ e # d => act'[e].target # <<r>>
  BY <1>2
<1>5. QED
  BY <1>1, <1>2, <1>3, <1>4

\* One more of a list of which b of a are left.
LEMMA OneTaken ==
  ASSUME NEW a \in Nat, NEW b \in Nat \ {0}, b <= a
  PROVE  /\ a - b \in Nat /\ (a - b) + 1 \in 1..a /\ a - (b - 1) = (a - b) + 1
         /\ 1..(a - b) \subseteq 1..a
OBVIOUS

LEMMA TryLockStep ==
  ASSUME RunInv, NEW c \in Callers, TryLock(c)
  PROVE  RunInv'
<1> DEFINE x == Head(act[c].todo)
           n == Rest(c)
<1>1. At(c, "lock") /\ act[c].todo # <<>> /\ UNCHANGED <<request, group, content, value, templates, launched, starts>>
  BY DEF TryLock
<1>2. CASE lockOf[x] # Nobody \/ Consumed(x)
  BY <1>1, <1>2, GiveBackStep DEF TryLock
<1>3. CASE ~(lockOf[x] # Nobody \/ Consumed(x))
  <2>1. /\ lockOf' = [lockOf EXCEPT ![x] = c] /\ act' = [act EXCEPT ![c].todo = Tail(@)]
        /\ UNCHANGED session /\ lockOf[x] = Nobody /\ ~Consumed(x)
    BY <1>3 DEF TryLock
  <2>2. /\ lockOf \in [Lockables -> Callers \cup {Nobody}] /\ Nobody \notin Callers
        /\ act[c] \in Acts
    BY RequestConstants DEF RunInv, RequestShape, Acts
  <2>3. act[c].pc = "lock" /\ ListOK(c) /\ HoldsOK(c)
    BY <1>1 DEF RunInv, ExecutingOK, At, Executing
  <2>4. /\ act[c].todo \in Seq(Lockables) /\ Len(act[c].todo) \in Nat \ {0} /\ act[c].target \in Seq(Lockables)
        /\ Len(act[c].todo) <= Len(act[c].target) /\ Len(act[c].target) \in Nat /\ n \in Nat
        /\ x = act[c].target[n + 1] /\ n + 1 \in 1..Len(act[c].target) /\ x \in Lockables
        /\ Tail(act[c].todo) \in Seq(Lockables) /\ Len(Tail(act[c].todo)) = Len(act[c].todo) - 1
        /\ \A i \in 1..Len(act[c].todo) - 1 : Tail(act[c].todo)[i] = act[c].target[n + 1 + i]
    <3>1. act[c].todo \in Seq(Lockables) /\ act[c].target \in Seq(Lockables)
          /\ Len(act[c].todo) <= Len(act[c].target)
          /\ \A i \in 1..Len(act[c].todo) : act[c].todo[i] = act[c].target[n + i]
      BY <2>2, <2>3 DEF ListOK, Acts
    <3>2. Len(act[c].todo) \in Nat \ {0} /\ Len(act[c].target) \in Nat
      BY <1>1, <3>1
    <3>3. n \in Nat /\ n + 1 \in 1..Len(act[c].target)
      <4>1. Len(act[c].todo) <= Len(act[c].target)
        BY <3>1
      <4>2. n = Len(act[c].target) - Len(act[c].todo)
        BY DEF Rest
      <4>3. QED
        BY <3>2, <4>1, <4>2, OneTaken
    <3>4. /\ Tail(act[c].todo) \in Seq(Lockables) /\ Len(Tail(act[c].todo)) = Len(act[c].todo) - 1
          /\ \A i \in 1..Len(act[c].todo) - 1 : Tail(act[c].todo)[i] = act[c].todo[i + 1]
          /\ x = act[c].todo[1]
      BY <1>1, <3>1, <3>2
    <3> HIDE DEF n
    <3>5. x = act[c].target[n + 1]
      BY <3>1, <3>2, <3>4
    <3>6. \A i \in 1..Len(act[c].todo) - 1 : Tail(act[c].todo)[i] = act[c].target[n + 1 + i]
      <4>1. ASSUME NEW i \in 1..Len(act[c].todo) - 1 PROVE Tail(act[c].todo)[i] = act[c].target[n + 1 + i]
        <5>1. i + 1 \in 1..Len(act[c].todo) /\ n + (i + 1) = n + 1 + i
          BY <3>2, <3>3
        <5>2. QED
          BY <3>1, <3>4, <5>1
      <4>2. QED
        BY <4>1
    <3>7. act[c].target[n + 1] \in Lockables
      BY <3>1, <3>3
    <3>8. QED
      BY <3>1, <3>2, <3>3, <3>4, <3>5, <3>6, <3>7
  <2>5. /\ act'[c].pc = "lock" /\ act'[c].target = act[c].target /\ act'[c].todo = Tail(act[c].todo)
        /\ act'[c] = [act[c] EXCEPT !.todo = Tail(@)] /\ act' = [act EXCEPT ![c] = act'[c]]
    BY <2>1, <2>2, <2>3 DEF RunInv, RequestShape, Acts
  <2>6. ConsumedOK' /\ LaunchedOnce'
        /\ \A y \in Lockables : (IsMade(y)' <=> IsMade(y)) /\ (Consumed(y)' <=> Consumed(y))
    BY <1>1, RequestsFrame
  <2>7. \A d \in Callers \ {c} :
          /\ act'[d] = act[d]
          /\ act[d].pc \in Executing => ListOK(d)' /\ (act[d].pc # "running" => HoldsOK(d)')
    <3>1. \A y \in Lockables : lockOf[y] \in Callers \ {c} => lockOf'[y] = lockOf[y]
      BY <2>1, <2>2
    <3>2. PICK a : a = act'[c]
      OBVIOUS
    <3>3. act' = [act EXCEPT ![c] = a]
      BY <2>5, <3>2
    <3>4. QED
      BY <2>6, <3>1, <3>3, OthersKept
  <2>8. RequestShape'
    <3>1. act'[c] \in Acts
      BY <2>2, <2>4, <2>5 DEF Acts
    <3>2. lockOf' \in [Lockables -> Callers \cup {Nobody}]
      BY <2>1, <2>2, <2>4
    <3>3. \A d \in Callers : act'[d] \in Acts
      BY <2>7, <3>1 DEF RunInv, RequestShape, Acts
    <3>4. act' \in [Callers -> Acts]
      BY <2>1, <3>3 DEF RunInv, RequestShape, Acts
    <3>5. UNCHANGED <<request, group, content, value, launched, session, starts>>
      BY <1>1, <2>1
    <3>6. RequestShape
      BY DEF RunInv
    <3>7. /\ request' \in [Requests -> [made : BOOLEAN, snap : Nat, vals : Nat, consumed : BOOLEAN]]
          /\ group' \in [Groups -> [made : BOOLEAN, consumed : BOOLEAN]]
          /\ content' \in [Requests -> Nat] /\ value' \in 0..MaxEdits /\ starts' \in Nat
          /\ launched' \in [Lockables -> Nat]
          /\ session' \in [lock : Callers \cup {Nobody}, closed : BOOLEAN]
      BY ONLY <3>5, <3>6 DEF RequestShape
    <3>8. QED
      BY <3>2, <3>4, <3>7 DEF RequestShape
  <2>9. PreparingOK'
    <3>1. act'[c].pc # "template"
      BY <2>5
    <3>2. QED
      BY <1>1, <2>7, <3>1, PreparingKept
  <2>10. ListOK(c)'
    <3>1. Rest(c)' = n + 1
      <4>1. /\ Len(act[c].target) \in Nat /\ Len(act[c].todo) \in Nat \ {0}
            /\ Len(act[c].todo) <= Len(act[c].target)
            /\ Len(Tail(act[c].todo)) = Len(act[c].todo) - 1
        BY <2>4
      <4>2. /\ n = Len(act[c].target) - Len(act[c].todo)
            /\ Rest(c)' = Len(act[c].target) - Len(Tail(act[c].todo))
        BY <2>5 DEF Rest
      <4>3. QED
        BY ONLY <4>1, <4>2, OneTaken
    <3>2. \E y \in Lockables : IsMade(y)' /\ act'[c].target = Target(y)
      BY <2>3, <2>5, <2>6 DEF ListOK
    <3> HIDE DEF n
    <3>3. QED
      BY <2>4, <2>5, <3>1, <3>2 DEF ListOK
  <2>11. HoldsOK(c)'
    <3>1. Rest(c)' = n + 1
      <4>1. /\ Len(act[c].target) \in Nat /\ Len(act[c].todo) \in Nat \ {0}
            /\ Len(act[c].todo) <= Len(act[c].target)
            /\ Len(Tail(act[c].todo)) = Len(act[c].todo) - 1
        BY <2>4
      <4>2. /\ n = Len(act[c].target) - Len(act[c].todo)
            /\ Rest(c)' = Len(act[c].target) - Len(Tail(act[c].todo))
        BY <2>5 DEF Rest
      <4>3. QED
        BY ONLY <4>1, <4>2, OneTaken
    <3>2. \A i \in 1..n : lockOf[act[c].target[i]] = c /\ ~Consumed(act[c].target[i])
      BY <2>3 DEF HoldsOK
    <3>3. \A i \in 1..n : act[c].target[i] \in Lockables
      BY <2>4
    <3> HIDE DEF n, x
    <3>4. ASSUME NEW i \in 1..n + 1 PROVE lockOf'[act[c].target[i]] = c /\ ~Consumed(act[c].target[i])'
      <4>1. CASE i = n + 1
        BY <2>1, <2>2, <2>4, <2>5, <2>6, <4>1
      <4>2. CASE i \in 1..n
        BY <2>1, <2>2, <2>4, <2>5, <2>6, <3>2, <3>3, <4>2
      <4>3. QED
        BY <2>4, <4>1, <4>2
    <3>5. QED
      BY <2>5, <3>1, <3>4 DEF HoldsOK
  <2>12. ExecutingOK'
    BY <2>5, <2>7, <2>10, <2>11 DEF ExecutingOK
  <2>13. LocksOK'
    BY <2>1, <2>2, <2>4, <2>5, <2>7 DEF RunInv, RequestShape, Acts, LocksOK, At, Executing
  <2>14. QED
    BY <2>6, <2>8, <2>9, <2>12, <2>13 DEF RunInv
<1>4. QED
  BY <1>2, <1>3

\* A step of one caller that takes no lock and gives none back.
LEMMA ActStep ==
  ASSUME RunInv, NEW c \in Callers, NEW a \in Acts, act' = [act EXCEPT ![c] = a],
         UNCHANGED <<lockOf, content, value>>, starts' \in Nat, launched' \in [Lockables -> Nat],
         request' \in [Requests -> [made : BOOLEAN, snap : Nat, vals : Nat, consumed : BOOLEAN]],
         group' \in [Groups -> [made : BOOLEAN, consumed : BOOLEAN]],
         session' \in [lock : Callers \cup {Nobody}, closed : BOOLEAN],
         session'.lock \in {Nobody, c, session.lock}, session'.lock = c => a.pc # "idle",
         \A x \in Lockables : IsMade(x) => IsMade(x)',
         \A x \in Lockables : lockOf[x] \in Callers \ {c} => (Consumed(x)' <=> Consumed(x)),
         a.pc \in Executing => ListOK(c)' /\ (a.pc # "running" => HoldsOK(c)'),
         a.pc \notin Executing => act[c].pc \notin Executing,
         PreparingOK', ConsumedOK', LaunchedOnce'
  PROVE  RunInv'
<1>1. act \in [Callers -> Acts] /\ act'[c] = a /\ \A d \in Callers \ {c} : act'[d] = act[d]
  BY DEF RunInv, RequestShape
<1>2. \A d \in Callers \ {c} :
        act[d].pc \in Executing => ListOK(d)' /\ (act[d].pc # "running" => HoldsOK(d)')
  BY OthersKept
<1>3. RequestShape'
  BY <1>1 DEF RunInv, RequestShape
<1>4. ExecutingOK'
  BY <1>1, <1>2 DEF ExecutingOK
<1>5. LocksOK'
  <2>1. lockOf \in [Lockables -> Callers \cup {Nobody}] /\ session.lock \in Callers \cup {Nobody}
    BY DEF RunInv, RequestShape
  <2>2. /\ \A x \in Lockables : lockOf[x] # Nobody => act[lockOf[x]].pc \in Executing
        /\ session.lock # Nobody => act[session.lock].pc # "idle"
    BY DEF RunInv, LocksOK, At
  <2>3. ASSUME NEW x \in Lockables, lockOf[x] # Nobody PROVE act'[lockOf[x]].pc \in Executing
    <3>1. CASE lockOf[x] = c
      BY <1>1, <2>2, <2>3, <3>1
    <3>2. CASE lockOf[x] # c
      BY <1>1, <2>1, <2>2, <2>3, <3>2
    <3>3. QED
      BY <3>1, <3>2
  <2>4. session'.lock # Nobody => act'[session'.lock].pc # "idle"
    <3>1. CASE session'.lock = c
      BY <1>1, <3>1
    <3>2. CASE session'.lock # c
      BY <1>1, <2>1, <2>2, <3>2
    <3>3. QED
      BY <3>1, <3>2
  <2>5. QED
    BY <2>3, <2>4 DEF LocksOK, At
<1>6. QED
  BY <1>3, <1>4, <1>5 DEF RunInv

LEMMA ExecuteStep ==
  ASSUME RunInv, NEW c \in Callers, NEW x \in Lockables, Execute(c, x)
  PROVE  RunInv'
<1> DEFINE a == [pc |-> "lock", target |-> Target(x), todo |-> Target(x), hit |-> FALSE]
<1>1. /\ act[c].pc = "idle" /\ starts' = starts + 1 /\ IsMade(x) /\ act' = [act EXCEPT ![c] = a]
      /\ UNCHANGED <<request, group, lockOf, content, value, templates, launched, session>>
  BY DEF Execute, Starts, IsMade
<1>2. /\ Target(x) \in Seq(Lockables) /\ a \in Acts /\ a.pc = "lock"
      /\ a.target = Target(x) /\ a.todo = Target(x)
  BY TargetProperties DEF Acts, Executing
<1>3. /\ starts' \in Nat /\ launched' \in [Lockables -> Nat]
      /\ request' \in [Requests -> [made : BOOLEAN, snap : Nat, vals : Nat, consumed : BOOLEAN]]
      /\ group' \in [Groups -> [made : BOOLEAN, consumed : BOOLEAN]]
      /\ session' \in [lock : Callers \cup {Nobody}, closed : BOOLEAN]
      /\ act \in [Callers -> Acts]
  BY <1>1 DEF RunInv, RequestShape
<1>4. /\ ConsumedOK' /\ LaunchedOnce'
      /\ \A y \in Lockables : (IsMade(y)' <=> IsMade(y)) /\ (Consumed(y)' <=> Consumed(y))
  BY <1>1, RequestsFrame
<1> HIDE DEF a
<1>5. act'[c] = a /\ \A d \in Callers \ {c} : act'[d] = act[d]
  BY <1>1, <1>3
<1>6. Rest(c)' = 0
  <2>1. PICK n \in Nat : n = Len(Target(x))
    BY <1>2
  <2>2. Rest(c)' = n - n
    BY <1>2, <1>5, <2>1 DEF Rest
  <2>3. QED
    BY <2>2
<1>7. ListOK(c)'
  <2>1. \E y \in Lockables : IsMade(y)' /\ act'[c].target = Target(y)
    BY <1>1, <1>2, <1>4, <1>5
  <2>2. /\ act'[c].todo \in Seq(Lockables) /\ Len(act'[c].todo) <= Len(act'[c].target)
        /\ \A i \in 1..Len(act'[c].todo) : act'[c].todo[i] = act'[c].target[Rest(c)' + i]
    BY <1>2, <1>5, <1>6
  <2>3. QED
    BY <1>2, <1>5, <2>1, <2>2 DEF ListOK
<1>8. HoldsOK(c)'
  BY <1>6 DEF HoldsOK
<1>9. PreparingOK'
  BY <1>1, <1>2, <1>5, PreparingKept
<1>10. session'.lock = session.lock
  BY <1>1
<1>11. QED
  BY <1>1, <1>2, <1>3, <1>4, <1>7, <1>8, <1>9, <1>10, ActStep DEF Executing

\* Nothing is allocated before every recheck passed.
LEMMA RecheckStep ==
  ASSUME RunInv, NEW c \in Callers, RecheckAll(c)
  PROVE  RunInv'
<1>1. /\ act[c].pc = "lock" /\ act[c].todo = <<>>
      /\ UNCHANGED <<request, group, content, value, templates, launched, starts>>
  BY DEF RecheckAll, At
<1>2. CASE GiveBack(c)
  BY <1>1, <1>2, GiveBackStep
<1>3. CASE act' = [act EXCEPT ![c].pc = "allocate"] /\ UNCHANGED <<lockOf, session>>
  <2>1. PICK a : a = [act[c] EXCEPT !.pc = "allocate"]
    OBVIOUS
  <2>2. /\ starts' \in Nat /\ launched' \in [Lockables -> Nat]
        /\ request' \in [Requests -> [made : BOOLEAN, snap : Nat, vals : Nat, consumed : BOOLEAN]]
        /\ group' \in [Groups -> [made : BOOLEAN, consumed : BOOLEAN]]
        /\ session' \in [lock : Callers \cup {Nobody}, closed : BOOLEAN]
        /\ act \in [Callers -> Acts]
    BY <1>1, <1>3 DEF RunInv, RequestShape
  <2>3. /\ act' = [act EXCEPT ![c] = a] /\ a \in Acts /\ a.pc = "allocate"
        /\ a.target = act[c].target /\ a.todo = act[c].todo
    BY <1>3, <2>1, <2>2 DEF Acts, Executing
  <2>4. act'[c] = a /\ \A d \in Callers \ {c} : act'[d] = act[d]
    BY <2>2, <2>3
  <2>5. /\ ConsumedOK' /\ LaunchedOnce'
        /\ \A y \in Lockables : (IsMade(y)' <=> IsMade(y)) /\ (Consumed(y)' <=> Consumed(y))
    BY <1>1, RequestsFrame
  <2>6. ListOK(c) /\ HoldsOK(c)
    BY <1>1 DEF RunInv, ExecutingOK, Executing
  <2>7. Rest(c)' = Rest(c)
    BY <2>3, <2>4 DEF Rest
  <2>8. ListOK(c)'
    <3>1. \E y \in Lockables : IsMade(y)' /\ act'[c].target = Target(y)
      BY <2>3, <2>4, <2>5, <2>6 DEF ListOK
    <3>2. act'[c].target = act[c].target /\ act'[c].todo = <<>> /\ act[c].todo = <<>>
      BY <1>1, <2>3, <2>4
    <3>3. /\ act[c].todo \in Seq(Lockables) /\ Len(act[c].todo) <= Len(act[c].target)
          /\ \A i \in 1..Len(act[c].todo) : act[c].todo[i] = act[c].target[Rest(c) + i]
      BY <2>6 DEF ListOK
    <3>4. Len(act'[c].todo) = 0
      BY <3>2
    <3>5. QED
      BY <2>7, <3>1, <3>2, <3>3, <3>4 DEF ListOK
  <2>9. HoldsOK(c)'
    <3>1. \A i \in 1..Rest(c) : act[c].target[i] \in Lockables
      <4>1. act[c].target \in Seq(Lockables) /\ Len(act[c].target) \in Nat /\ Len(act[c].todo) \in Nat
        BY <2>2 DEF Acts
      <4>2. \A i \in 1..Rest(c) : i \in 1..Len(act[c].target)
        BY <4>1 DEF Rest
      <4>3. QED
        BY <4>1, <4>2
    <3>2. QED
      BY <1>3, <2>3, <2>4, <2>5, <2>6, <2>7, <3>1 DEF HoldsOK
  <2>10. PreparingOK'
    BY <1>1, <2>3, <2>4, PreparingKept
  <2>11. QED
    BY <1>1, <1>3, <2>2, <2>3, <2>5, <2>8, <2>9, <2>10, ActStep DEF Executing
<1>4. QED
  BY <1>2, <1>3 DEF RecheckAll

\* A launch consumes all it launches: nothing of it was launched before, as
\* the caller still holds every lock under which it saw it unconsumed.
LEMMA LaunchStep ==
  ASSUME RunInv, NEW c \in Callers, LaunchRequests(c)
  PROVE  RunInv'
<1>1. PICK xs : xs = act[c].target
  OBVIOUS
<1>2. PICK a : a = [act[c] EXCEPT !.pc = "running"]
  OBVIOUS
<1>3. /\ act[c].pc = "allocate" /\ act' = [act EXCEPT ![c].pc = "running"]
      /\ group' = [g \in Groups |-> IF g \in Range(xs) THEN [group[g] EXCEPT !.consumed = TRUE]
                                    ELSE group[g]]
      /\ request' = [r \in Requests |-> IF r \in Range(xs)
                                        THEN [request[r] EXCEPT !.consumed = TRUE] ELSE request[r]]
      /\ launched' = [x \in DOMAIN launched |-> launched[x] + IF x \in Range(xs) THEN 1 ELSE 0]
      /\ UNCHANGED <<lockOf, content, value, templates, session, starts>>
  BY <1>1 DEF LaunchRequests, At
<1>4. /\ request \in [Requests -> [made : BOOLEAN, snap : Nat, vals : Nat, consumed : BOOLEAN]]
      /\ group \in [Groups -> [made : BOOLEAN, consumed : BOOLEAN]]
      /\ launched \in [Lockables -> Nat] /\ act \in [Callers -> Acts]
      /\ starts \in Nat /\ session \in [lock : Callers \cup {Nobody}, closed : BOOLEAN]
  BY DEF RunInv, RequestShape
<1>5. /\ act' = [act EXCEPT ![c] = a] /\ a \in Acts /\ a.pc = "running"
      /\ a.target = xs /\ a.todo = act[c].todo /\ xs \in Seq(Lockables)
  BY <1>1, <1>2, <1>3, <1>4 DEF Acts, Executing
<1>6. act'[c] = a /\ \A d \in Callers \ {c} : act'[d] = act[d]
  BY <1>4, <1>5
<1>7. ListOK(c) /\ HoldsOK(c)
  BY <1>3 DEF RunInv, ExecutingOK, Executing
<1>8. PICK x \in Lockables : IsMade(x) /\ xs = Target(x)
  BY <1>1, <1>7 DEF ListOK
<1>9. ConsumedOK /\ LaunchedOnce
  BY DEF RunInv
<1>10. \A y \in Range(xs) : y \in Lockables /\ lockOf[y] = c /\ ~Consumed(y) /\ launched[y] = 0
  <2>1. \A i \in 1..Len(xs) : lockOf[xs[i]] = c /\ ~Consumed(xs[i])
    <3>1. Len(act[c].todo) = 0
      BY <1>3, <1>7 DEF ListOK
    <3>2. PICK n \in Nat : n = Len(xs)
      BY <1>5
    <3>3. Rest(c) = n - 0
      BY <1>1, <3>1, <3>2 DEF Rest
    <3>4. QED
      BY <1>1, <1>7, <3>2, <3>3 DEF HoldsOK
  <2>2. \A y \in Range(xs) : \E i \in 1..Len(xs) : y = xs[i]
    BY <1>5 DEF Range
  <2>3. \A y \in Range(xs) : y \in Lockables
    BY <1>5, <2>2
  <2>4. ASSUME NEW y \in Range(xs) PROVE lockOf[y] = c /\ ~Consumed(y)
    BY <2>1, <2>2
  <2>5. ASSUME NEW y \in Range(xs) PROVE launched[y] = 0
    BY <1>4, <1>9, <2>3, <2>4 DEF ConsumedOK
  <2>6. QED
    BY <2>3, <2>4, <2>5
<1>11. \A y \in Lockables : /\ IsMade(y)' <=> IsMade(y)
                            /\ Consumed(y)' <=> (Consumed(y) \/ y \in Range(xs))
                            /\ launched'[y] = launched[y] + (IF y \in Range(xs) THEN 1 ELSE 0)
  BY <1>3, <1>4 DEF Lockables, IsMade, Consumed
<1>12. \A y \in Range(xs) : IsMade(y)
  <2>1. CASE x \in Groups
    <3>1. \A r \in Range(Members[x]) : r \in Requests /\ r \notin Groups /\ request[r].made
      BY <1>8, <1>9, <2>1, TargetProperties, RequestConstants DEF ConsumedOK, IsMade, Lockables
    <3>2. Range(xs) = {x} \cup Range(Members[x])
      BY <1>8, <2>1, TargetProperties
    <3>3. QED
      BY <1>8, <3>1, <3>2 DEF IsMade
  <2>2. CASE x \in Requests
    BY <1>8, <2>2, TargetProperties
  <2>3. QED
    BY <2>1, <2>2 DEF Lockables
<1>13. \A g \in Groups : g \in Range(xs) => Range(Members[g]) \subseteq Range(xs)
  <2>1. CASE x \in Groups
    <3>1. /\ Range(xs) = {x} \cup Range(Members[x]) /\ Range(Members[x]) \subseteq Requests
      BY <1>8, <2>1, TargetProperties
    <3>2. QED
      BY <3>1, RequestConstants
  <2>2. CASE x \in Requests
    BY <1>8, <2>2, TargetProperties
  <2>3. QED
    BY <2>1, <2>2 DEF Lockables
<1>14. /\ request' \in [Requests -> [made : BOOLEAN, snap : Nat, vals : Nat, consumed : BOOLEAN]]
       /\ group' \in [Groups -> [made : BOOLEAN, consumed : BOOLEAN]]
       /\ launched' \in [Lockables -> Nat]
  <2>1. \A r \in Requests : request'[r] \in [made : BOOLEAN, snap : Nat, vals : Nat, consumed : BOOLEAN]
    BY <1>3, <1>4
  <2>2. \A g \in Groups : group'[g] \in [made : BOOLEAN, consumed : BOOLEAN]
    BY <1>3, <1>4
  <2>3. \A y \in Lockables : launched'[y] \in Nat
    BY <1>4, <1>11
  <2>4. QED
    BY <1>3, <1>4, <2>1, <2>2, <2>3
<1>15. LaunchedOnce'
  <2>1. DOMAIN launched' = Lockables /\ DOMAIN launched = Lockables
    BY <1>4, <1>14
  <2>2. \A y \in Lockables : launched'[y] <= 1
    BY <1>4, <1>9, <1>10, <1>11, <2>1 DEF LaunchedOnce
  <2>3. ASSUME NEW g \in Groups, launched'[g] = 1, NEW r \in Range(Members[g])
        PROVE  launched'[r] = 1
    <3>1. g \in Lockables /\ r \in Lockables
      BY TargetProperties DEF Lockables
    <3>2. CASE g \in Range(xs)
      BY <1>10, <1>11, <1>13, <3>1, <3>2
    <3>3. CASE g \notin Range(xs)
      <4>1. launched[r] = 1
        BY <1>4, <1>9, <1>11, <2>3, <3>1, <3>3 DEF LaunchedOnce
      <4>2. QED
        BY <1>10, <1>11, <3>1, <4>1
    <3>4. QED
      BY <3>2, <3>3
  <2>4. QED
    BY <2>1, <2>2, <2>3 DEF LaunchedOnce
<1>16. ConsumedOK'
  <2>1. ASSUME NEW y \in Lockables PROVE Consumed(y)' <=> launched'[y] > 0
    BY <1>4, <1>9, <1>10, <1>11 DEF ConsumedOK
  <2>2. ASSUME NEW r \in Requests, ~request'[r].made PROVE ~request'[r].consumed
    <3>1. r \in Lockables /\ r \notin Groups
      BY RequestConstants DEF Lockables
    <3>2. ~IsMade(r)
      BY <1>11, <2>2, <3>1 DEF IsMade
    <3>3. r \notin Range(xs) /\ ~Consumed(r)
      BY <1>9, <1>12, <3>1, <3>2 DEF ConsumedOK, IsMade, Consumed
    <3>4. QED
      BY <1>11, <3>1, <3>3 DEF Consumed
  <2>3. ASSUME NEW g \in Groups, group'[g].made, NEW r \in Range(Members[g]) PROVE request'[r].made
    <3>1. g \in Lockables /\ r \in Lockables /\ r \in Requests /\ r \notin Groups
      BY TargetProperties, RequestConstants DEF Lockables
    <3>2. IsMade(g)
      BY <1>11, <2>3, <3>1 DEF IsMade
    <3>3. IsMade(r)
      BY <1>9, <3>1, <3>2 DEF ConsumedOK, IsMade
    <3>4. QED
      BY <1>11, <3>1, <3>3 DEF IsMade
  <2>4. QED
    BY <2>1, <2>2, <2>3 DEF ConsumedOK
<1>17. ListOK(c)'
  <2>1. \E y \in Lockables : IsMade(y)' /\ act'[c].target = Target(y)
    BY <1>5, <1>6, <1>8, <1>11
  <2>2. Rest(c)' = Rest(c)
    BY <1>1, <1>5, <1>6 DEF Rest
  <2>3. /\ act[c].todo \in Seq(Lockables) /\ Len(act[c].todo) <= Len(xs)
        /\ \A i \in 1..Len(act[c].todo) : act[c].todo[i] = xs[Rest(c) + i]
        /\ Len(act[c].todo) = 0
    BY <1>1, <1>3, <1>7 DEF ListOK
  <2>4. QED
    BY <1>5, <1>6, <2>1, <2>2, <2>3 DEF ListOK
<1>18. PreparingOK'
  <2>1. ASSUME NEW r \in Requests, ~request[r].made PROVE ~request'[r].made
    <3>1. r \in Lockables /\ r \notin Groups
      BY RequestConstants DEF Lockables
    <3>2. QED
      BY <1>11, <2>1, <3>1 DEF IsMade
  <2>2. act'[c].pc # "template"
    BY <1>5, <1>6
  <2>3. QED
    BY <1>6, <2>1, <2>2, PreparingKept
<1>19. \A y \in Lockables : lockOf[y] \in Callers \ {c} => (Consumed(y)' <=> Consumed(y))
  BY <1>10, <1>11
<1>20. QED
  <2>1. UNCHANGED <<lockOf, content, value>> /\ starts' \in Nat
        /\ session' \in [lock : Callers \cup {Nobody}, closed : BOOLEAN]
        /\ session'.lock \in {Nobody, c, session.lock} /\ (session'.lock = c => a.pc # "idle")
    BY <1>3, <1>4, <1>5
  <2>2. \A y \in Lockables : IsMade(y) => IsMade(y)'
    BY <1>11
  <2>3. a.pc = "running" /\ a \in Acts /\ act' = [act EXCEPT ![c] = a]
    BY <1>5
  <2>4. QED
    BY <1>14, <1>15, <1>16, <1>17, <1>18, <1>19, <2>1, <2>2, <2>3, ActStep DEF Executing

\* A new request object: unconsumed, as nothing that was not made is.
LEMMA MadeProperties ==
  ASSUME RunInv, NEW r \in Requests, ~request[r].made, NEW v \in Nat, Made(r, v),
         UNCHANGED <<group, launched, content>>
  PROVE  /\ request' \in [Requests -> [made : BOOLEAN, snap : Nat, vals : Nat, consumed : BOOLEAN]]
         /\ \A q \in Requests : q # r => request'[q] = request[q]
         /\ request'[r].made
         /\ ConsumedOK' /\ LaunchedOnce'
         /\ \A y \in Lockables : IsMade(y) => IsMade(y)'
         /\ \A y \in Lockables : Consumed(y)' <=> Consumed(y)
<1>1. /\ request \in [Requests -> [made : BOOLEAN, snap : Nat, vals : Nat, consumed : BOOLEAN]]
      /\ launched \in [Lockables -> Nat] /\ content[r] \in Nat
  BY DEF RunInv, RequestShape
<1>2. request' = [request EXCEPT ![r] =
                   [made |-> TRUE, snap |-> content[r], vals |-> v, consumed |-> FALSE]]
  BY DEF Made
<1>3. /\ request'[r] = [made |-> TRUE, snap |-> content[r], vals |-> v, consumed |-> FALSE]
      /\ \A q \in Requests : q # r => request'[q] = request[q]
  BY <1>1, <1>2
<1>4. request' \in [Requests -> [made : BOOLEAN, snap : Nat, vals : Nat, consumed : BOOLEAN]]
  BY <1>1, <1>2
<1>5. ConsumedOK /\ LaunchedOnce /\ ~request[r].consumed /\ r \notin Groups
  BY RequestConstants DEF RunInv, ConsumedOK
<1>6. \A y \in Lockables : /\ Consumed(y)' <=> Consumed(y)
                           /\ IsMade(y) => IsMade(y)'
  BY <1>3, <1>5 DEF Lockables, Consumed, IsMade
<1>7. ConsumedOK'
  <2>1. \A y \in Lockables : Consumed(y)' <=> launched'[y] > 0
    BY <1>5, <1>6 DEF ConsumedOK
  <2>2. \A q \in Requests : ~request'[q].made => ~request'[q].consumed
    BY <1>3, <1>5 DEF ConsumedOK
  <2>3. ASSUME NEW g \in Groups, group'[g].made, NEW q \in Range(Members[g]) PROVE request'[q].made
    <3>1. q \in Requests /\ request[q].made
      BY <1>5, <2>3, TargetProperties DEF ConsumedOK, Lockables
    <3>2. QED
      BY <1>3, <3>1
  <2>4. QED
    BY <2>1, <2>2, <2>3 DEF ConsumedOK
<1>8. LaunchedOnce'
  BY <1>5 DEF LaunchedOnce
<1>9. QED
  BY <1>3, <1>4, <1>6, <1>7, <1>8

\* The callers that prepare keep their requests to themselves while another
\* one's request is made.
LEMMA PreparingMade ==
  ASSUME RunInv, NEW c \in Callers, act'[c].pc # "template",
         \A d \in Callers \ {c} : act'[d] = act[d],
         NEW q \in Requests, \A r \in Requests : r # q => request'[r] = request[r],
         \A d \in Callers \ {c} : act[d].pc = "template" => act[d].target # <<q>>
  PROVE  PreparingOK'
<1> SUFFICES ASSUME NEW d \in Callers, act'[d].pc = "template"
             PROVE  \E r \in Typeds, v \in 0..MaxEdits :
                      /\ act'[d].target = <<r>> /\ act'[d].todo = <<v>> /\ ~request'[r].made
                      /\ \A e \in Callers : act'[e].pc = "template" /\ e # d => act'[e].target # <<r>>
  BY DEF PreparingOK, At
<1>1. d \in Callers \ {c} /\ act'[d] = act[d]
  OBVIOUS
<1>2. PICK r \in Typeds, v \in 0..MaxEdits :
        /\ act[d].target = <<r>> /\ act[d].todo = <<v>> /\ ~request[r].made
        /\ \A e \in Callers : act[e].pc = "template" /\ e # d => act[e].target # <<r>>
  BY <1>1 DEF RunInv, PreparingOK, At
<1>3. r # q /\ r \in Requests
  BY <1>1, <1>2 DEF Requests
<1>4. ~request'[r].made
  BY <1>2, <1>3
<1>5. \A e \in Callers : act'[e].pc = "template" /\ e # d => act'[e].target # <<r>>
  BY <1>2
<1>6. QED
  BY <1>1, <1>2, <1>4, <1>5

LEMMA PrepareLayoutStep ==
  ASSUME RunInv, NEW c \in Callers, NEW r \in Requests, PrepareLayout(c, r)
  PROVE  RunInv'
<1>1. /\ act[c].pc = "idle" /\ starts' = starts + 1 /\ ~request[r].made
      /\ \A d \in Callers : act[d].target # <<r>>
      /\ Made(r, 0)
      /\ UNCHANGED <<group, lockOf, act, content, value, templates, launched, session>>
  BY DEF PrepareLayout, Starts, New
<1>2. PICK a : a = act[c]
  OBVIOUS
<1>3. /\ act \in [Callers -> Acts] /\ starts' \in Nat /\ launched' \in [Lockables -> Nat]
      /\ group' \in [Groups -> [made : BOOLEAN, consumed : BOOLEAN]]
      /\ session' \in [lock : Callers \cup {Nobody}, closed : BOOLEAN]
  BY <1>1 DEF RunInv, RequestShape
<1>4. a \in Acts /\ act' = [act EXCEPT ![c] = a] /\ a.pc = "idle" /\ act' = act
  BY <1>1, <1>2, <1>3
<1>5. session'.lock = session.lock /\ session'.lock # c
  <2>1. session.lock # Nobody => act[session.lock].pc # "idle"
    BY DEF RunInv, LocksOK, At
  <2>2. c # Nobody
    BY RequestConstants
  <2>3. QED
    BY <1>1, <2>1, <2>2
<1>6. /\ request' \in [Requests -> [made : BOOLEAN, snap : Nat, vals : Nat, consumed : BOOLEAN]]
      /\ \A q \in Requests : q # r => request'[q] = request[q]
      /\ ConsumedOK' /\ LaunchedOnce'
      /\ \A y \in Lockables : IsMade(y) => IsMade(y)'
      /\ \A y \in Lockables : Consumed(y)' <=> Consumed(y)
  BY <1>1, MadeProperties
<1>7. PreparingOK'
  BY <1>1, <1>2, <1>4, <1>6, PreparingMade
<1>8. QED
  BY <1>1, <1>3, <1>4, <1>5, <1>6, <1>7, ActStep DEF Executing

\* A caller starts on a request that nobody else has or prepares.
LEMMA TemplateStep ==
  ASSUME RunInv, NEW c \in Callers, NEW r \in Typeds, NEW h \in BOOLEAN, New(r),
         act[c].pc = "idle", starts' = starts + 1,
         act' = [act EXCEPT ![c] = [pc |-> "template", target |-> <<r>>, todo |-> <<value>>,
                                    hit |-> h]],
         session' \in [lock : Callers \cup {Nobody}, closed : BOOLEAN],
         session'.lock \in {Nobody, c, session.lock},
         UNCHANGED <<request, group, lockOf, content, value, launched>>
  PROVE  RunInv'
<1> DEFINE a == [pc |-> "template", target |-> <<r>>, todo |-> <<value>>, hit |-> h]
<1>1. /\ act \in [Callers -> Acts] /\ starts' \in Nat /\ launched' \in [Lockables -> Nat]
      /\ request' \in [Requests -> [made : BOOLEAN, snap : Nat, vals : Nat, consumed : BOOLEAN]]
      /\ group' \in [Groups -> [made : BOOLEAN, consumed : BOOLEAN]] /\ value \in 0..MaxEdits
  BY DEF RunInv, RequestShape
<1>2. r \in Lockables /\ r \in Requests
  BY DEF Lockables, Requests
<1>3. a.pc = "template" /\ a.target = <<r>> /\ a.todo = <<value>> /\ a \in Acts
  BY <1>1, <1>2 DEF Acts
<1>4. act' = [act EXCEPT ![c] = a]
  OBVIOUS
<1> HIDE DEF a
<1>5. act'[c] = a /\ \A d \in Callers \ {c} : act'[d] = act[d]
  BY <1>1, <1>4
<1>6. /\ ConsumedOK' /\ LaunchedOnce'
      /\ \A y \in Lockables : (IsMade(y)' <=> IsMade(y)) /\ (Consumed(y)' <=> Consumed(y))
  BY RequestsFrame
<1>7. ~request[r].made /\ \A d \in Callers : act[d].target # <<r>>
  BY DEF New
<1>8. PreparingOK'
  <2> SUFFICES ASSUME NEW d \in Callers, act'[d].pc = "template"
               PROVE  \E q \in Typeds, v \in 0..MaxEdits :
                        /\ act'[d].target = <<q>> /\ act'[d].todo = <<v>> /\ ~request'[q].made
                        /\ \A e \in Callers :
                             act'[e].pc = "template" /\ e # d => act'[e].target # <<q>>
    BY DEF PreparingOK, At
  <2>1. CASE d = c
    <3>1. act'[d].target = <<r>> /\ act'[d].todo = <<value>> /\ ~request'[r].made
      BY <1>3, <1>5, <1>7, <2>1
    <3>2. \A e \in Callers : act'[e].pc = "template" /\ e # d => act'[e].target # <<r>>
      BY <1>5, <1>7, <2>1
    <3>3. QED
      BY <1>1, <3>1, <3>2
  <2>2. CASE d # c
    <3>1. PICK q \in Typeds, v \in 0..MaxEdits :
            /\ act[d].target = <<q>> /\ act[d].todo = <<v>> /\ ~request[q].made
            /\ \A e \in Callers : act[e].pc = "template" /\ e # d => act[e].target # <<q>>
      BY <1>5, <2>2 DEF RunInv, PreparingOK, At
    <3>2. act'[d] = act[d]
      BY <1>5, <2>2
    <3>3. <<q>> # <<r>>
      BY <1>7, <3>1
    <3>4. ASSUME NEW e \in Callers, act'[e].pc = "template", e # d PROVE act'[e].target # <<q>>
      BY <1>3, <1>5, <3>1, <3>3, <3>4
    <3>5. QED
      BY <3>1, <3>2, <3>4
  <2>3. QED
    BY <2>1, <2>2
<1>9. QED
  BY <1>1, <1>3, <1>4, <1>6, <1>8, ActStep DEF Executing

LEMMA PrepareTypedStep ==
  ASSUME RunInv, NEW c \in Callers, NEW r \in Requests, PrepareTyped(c, r)
  PROVE  RunInv'
<1>1. /\ act[c].pc = "idle" /\ starts' = starts + 1 /\ r \in Typeds /\ New(r)
      /\ act' = [act EXCEPT ![c] = [pc |-> "template", target |-> <<r>>, todo |-> <<value>>,
                                    hit |-> value \in Range(templates)]]
      /\ UNCHANGED <<request, group, lockOf, content, value, launched, session>>
  BY DEF PrepareTyped, Starts
<1>2. PICK h \in BOOLEAN : act' = [act EXCEPT ![c] = [pc |-> "template", target |-> <<r>>,
                                                     todo |-> <<value>>, hit |-> h]]
  <2>1. CASE value \in Range(templates)
    <3>1. act' = [act EXCEPT ![c] = [pc |-> "template", target |-> <<r>>, todo |-> <<value>>,
                                     hit |-> TRUE]]
      BY <1>1, <2>1
    <3>2. QED
      BY <3>1
  <2>2. CASE value \notin Range(templates)
    <3>1. (value \in Range(templates)) = FALSE
      BY <2>2
    <3>2. [pc |-> "template", target |-> <<r>>, todo |-> <<value>>, hit |-> value \in Range(templates)]
            = [pc |-> "template", target |-> <<r>>, todo |-> <<value>>, hit |-> FALSE]
      BY ONLY <3>1
    <3>3. act' = [act EXCEPT ![c] = [pc |-> "template", target |-> <<r>>, todo |-> <<value>>,
                                     hit |-> FALSE]]
      BY <1>1, <3>2
    <3>4. QED
      BY <3>3
  <2>3. QED
    BY <2>1, <2>2
<1>3. session' \in [lock : Callers \cup {Nobody}, closed : BOOLEAN] /\ session'.lock = session.lock
  BY <1>1 DEF RunInv, RequestShape
<1>4. QED
  BY <1>1, <1>2, <1>3, TemplateStep

\* The session's lock is taken by a caller that prepares, no longer idle.
LEMMA SessionTransferStep ==
  ASSUME RunInv, NEW c \in Callers, NEW r \in Requests, SessionTransfer(c, r)
  PROVE  RunInv'
<1>1. /\ act[c].pc = "idle" /\ starts' = starts + 1 /\ r \in Typeds /\ New(r)
      /\ session' = [session EXCEPT !.lock = c]
      /\ act' = [act EXCEPT ![c] = [pc |-> "template", target |-> <<r>>, todo |-> <<value>>,
                                    hit |-> value \in Range(templates)]]
      /\ UNCHANGED <<request, group, lockOf, content, value, launched>>
  BY DEF SessionTransfer, Starts
<1>2. PICK h \in BOOLEAN : act' = [act EXCEPT ![c] = [pc |-> "template", target |-> <<r>>,
                                                     todo |-> <<value>>, hit |-> h]]
  <2>1. CASE value \in Range(templates)
    <3>1. act' = [act EXCEPT ![c] = [pc |-> "template", target |-> <<r>>, todo |-> <<value>>,
                                     hit |-> TRUE]]
      BY <1>1, <2>1
    <3>2. QED
      BY <3>1
  <2>2. CASE value \notin Range(templates)
    <3>1. (value \in Range(templates)) = FALSE
      BY <2>2
    <3>2. [pc |-> "template", target |-> <<r>>, todo |-> <<value>>, hit |-> value \in Range(templates)]
            = [pc |-> "template", target |-> <<r>>, todo |-> <<value>>, hit |-> FALSE]
      BY ONLY <3>1
    <3>3. act' = [act EXCEPT ![c] = [pc |-> "template", target |-> <<r>>, todo |-> <<value>>,
                                     hit |-> FALSE]]
      BY <1>1, <3>2
    <3>4. QED
      BY <3>3
  <2>3. QED
    BY <2>1, <2>2
<1>3. session' \in [lock : Callers \cup {Nobody}, closed : BOOLEAN] /\ session'.lock = c
  BY <1>1 DEF RunInv, RequestShape
<1>4. QED
  BY <1>1, <1>2, <1>3, TemplateStep

\* A session's caller goes on to execute the request it made.
LEMMA PutTemplateStep ==
  ASSUME RunInv, NEW c \in Callers, PutTemplate(c)
  PROVE  RunInv'
<1>1. /\ act[c].pc = "template"
      /\ Made(Head(act[c].target), Head(act[c].todo)) /\ Prepared(c, Head(act[c].target))
      /\ UNCHANGED <<group, lockOf, content, value, launched, session, starts>>
  BY DEF PutTemplate, At
<1>2. PICK r \in Typeds, v \in 0..MaxEdits :
        /\ act[c].target = <<r>> /\ act[c].todo = <<v>> /\ ~request[r].made
        /\ \A e \in Callers : act[e].pc = "template" /\ e # c => act[e].target # <<r>>
  BY <1>1 DEF RunInv, PreparingOK, At
<1>3. Head(act[c].target) = r /\ Head(act[c].todo) = v /\ v \in Nat /\ r \in Requests /\ r \in Lockables
  BY <1>2 DEF Requests, Lockables
<1>4. Made(r, v) /\ Prepared(c, r)
  BY <1>1, <1>3
<1>5. /\ request' \in [Requests -> [made : BOOLEAN, snap : Nat, vals : Nat, consumed : BOOLEAN]]
      /\ \A q \in Requests : q # r => request'[q] = request[q]
      /\ request'[r].made
      /\ ConsumedOK' /\ LaunchedOnce'
      /\ \A y \in Lockables : IsMade(y) => IsMade(y)'
      /\ \A y \in Lockables : Consumed(y)' <=> Consumed(y)
  BY <1>1, <1>2, <1>3, <1>4, MadeProperties
<1>6. PICK a : a = IF session.lock = c
                   THEN [pc |-> "lock", target |-> <<r>>, todo |-> <<r>>, hit |-> FALSE] ELSE NoAct
  OBVIOUS
<1>7. act' = [act EXCEPT ![c] = a]
  BY <1>4, <1>6 DEF Prepared
<1>8. /\ a \in Acts /\ a.pc = IF session.lock = c THEN "lock" ELSE "idle"
      /\ session.lock = c => a.target = <<r>> /\ a.todo = <<r>>
  BY <1>3, <1>6 DEF Acts, NoAct, Executing
<1>9. /\ act \in [Callers -> Acts] /\ starts' \in Nat /\ launched' \in [Lockables -> Nat]
      /\ group' \in [Groups -> [made : BOOLEAN, consumed : BOOLEAN]]
      /\ session' \in [lock : Callers \cup {Nobody}, closed : BOOLEAN]
      /\ session'.lock = session.lock
  BY <1>1 DEF RunInv, RequestShape
<1>10. act'[c] = a /\ \A d \in Callers \ {c} : act'[d] = act[d]
  BY <1>7, <1>9
<1>11. PreparingOK'
  <2>1. act'[c].pc # "template"
    BY <1>8, <1>10
  <2>2. \A d \in Callers \ {c} : act[d].pc = "template" => act[d].target # <<r>>
    BY <1>2
  <2>3. QED
    BY <1>3, <1>5, <1>10, <2>1, <2>2, PreparingMade
<1>12. ASSUME a.pc \in Executing PROVE ListOK(c)' /\ HoldsOK(c)'
  <2>1. act'[c].target = <<r>> /\ act'[c].todo = <<r>> /\ act'[c].pc = "lock"
    BY <1>8, <1>10, <1>12 DEF Executing
  <2>2. Target(r) = <<r>> /\ <<r>> \in Seq(Lockables) /\ r \notin Groups
    BY <1>3, TargetProperties
  <2>3. IsMade(r)'
    BY <1>5, <2>2 DEF IsMade
  <2>4. Rest(c)' = 0
    BY <2>1 DEF Rest
  <2>5. \E y \in Lockables : IsMade(y)' /\ act'[c].target = Target(y)
    BY <1>3, <2>1, <2>2, <2>3
  <2>6. ListOK(c)'
    BY <2>1, <2>2, <2>4, <2>5 DEF ListOK
  <2>7. HoldsOK(c)'
    BY <2>4 DEF HoldsOK
  <2>8. QED
    BY <2>6, <2>7
<1>13. QED
  BY <1>1, <1>5, <1>7, <1>8, <1>9, <1>11, <1>12, ActStep DEF Executing

LEMMA PrepareGroupStep ==
  ASSUME RunInv, NEW c \in Callers, NEW g \in Groups, PrepareGroup(c, g)
  PROVE  RunInv'
<1>1. /\ act[c].pc = "idle" /\ starts' = starts + 1 /\ ~group[g].made
      /\ \A r \in Range(Members[g]) : request[r].made /\ ~request[r].consumed
      /\ group' = [group EXCEPT ![g].made = TRUE]
      /\ UNCHANGED <<request, lockOf, act, content, value, templates, launched, session>>
  BY DEF PrepareGroup, Starts
<1>2. PICK a : a = act[c]
  OBVIOUS
<1>3. /\ act \in [Callers -> Acts] /\ starts' \in Nat /\ launched' \in [Lockables -> Nat]
      /\ group \in [Groups -> [made : BOOLEAN, consumed : BOOLEAN]]
      /\ request' \in [Requests -> [made : BOOLEAN, snap : Nat, vals : Nat, consumed : BOOLEAN]]
      /\ session' \in [lock : Callers \cup {Nobody}, closed : BOOLEAN]
  BY <1>1 DEF RunInv, RequestShape
<1>4. a \in Acts /\ act' = [act EXCEPT ![c] = a] /\ a.pc = "idle" /\ act' = act
  BY <1>1, <1>2, <1>3
<1>5. session'.lock = session.lock /\ session'.lock # c
  <2>1. session.lock # Nobody => act[session.lock].pc # "idle"
    BY DEF RunInv, LocksOK, At
  <2>2. c # Nobody
    BY RequestConstants
  <2>3. QED
    BY <1>1, <2>1, <2>2
<1>6. /\ group' \in [Groups -> [made : BOOLEAN, consumed : BOOLEAN]]
      /\ \A h \in Groups : group'[h].consumed = group[h].consumed
      /\ \A h \in Groups : group'[h].made <=> (group[h].made \/ h = g)
  <2>1. group[g] \in [made : BOOLEAN, consumed : BOOLEAN]
    BY <1>3
  <2>2. \A h \in Groups : h # g => group'[h] = group[h]
    BY <1>1, <1>3
  <2>3. group'[g] = [group[g] EXCEPT !.made = TRUE]
    BY <1>1, <1>3
  <2>4. group'[g].made /\ group'[g].consumed = group[g].consumed
    BY <2>1, <2>3
  <2>5. group' \in [Groups -> [made : BOOLEAN, consumed : BOOLEAN]]
    BY <1>1, <1>3
  <2>6. QED
    BY <2>2, <2>4, <2>5
<1>7. \A y \in Lockables : /\ IsMade(y) => IsMade(y)'
                           /\ Consumed(y)' <=> Consumed(y)
  BY <1>1, <1>6 DEF Lockables, IsMade, Consumed
<1>8. ConsumedOK'
  BY <1>1, <1>6, <1>7 DEF RunInv, ConsumedOK
<1>9. LaunchedOnce'
  BY <1>1 DEF RunInv, LaunchedOnce
<1>10. PreparingOK'
  BY <1>1, <1>2, <1>4, PreparingKept
<1>11. /\ \A y \in Lockables : IsMade(y) => IsMade(y)'
       /\ \A y \in Lockables : lockOf[y] \in Callers \ {c} => (Consumed(y)' <=> Consumed(y))
  BY <1>7
<1>12. UNCHANGED <<lockOf, content, value>> /\ act[c].pc \notin Executing /\ a.pc \notin Executing
  BY <1>1, <1>4 DEF Executing
<1>13. QED
  BY <1>3, <1>4, <1>5, <1>6, <1>8, <1>9, <1>10, <1>11, <1>12, ActStep

LEMMA EditStep == RunInv /\ Edit => RunInv'
<1> SUFFICES ASSUME RunInv, Edit PROVE RunInv'
  OBVIOUS
<1>1. /\ content \in [Requests -> Nat] /\ value \in 0..MaxEdits /\ starts \in Nat
      /\ session \in [lock : Callers \cup {Nobody}, closed : BOOLEAN]
  BY DEF RunInv, RequestShape
<1>2. /\ value + Total(Requests, content) < MaxEdits
      /\ UNCHANGED <<request, group, lockOf, act, templates, launched, session, starts>>
      /\ \/ value' = value + 1 /\ content' = content
         \/ value' = value /\ \E r \in Requests : content' = [content EXCEPT ![r] = @ + 1]
  BY DEF Edit
<1>3. Total(Requests, content) \in Nat /\ MaxEdits \in Nat
  BY <1>1, UnitsFinite, RequestConstants
<1>4. value' \in 0..MaxEdits /\ content' \in [Requests -> Nat]
  BY <1>1, <1>2, <1>3
<1>5. QED
  BY <1>1, <1>2, <1>4, QuietStep

LEMMA RunInit == RequestsInit => RunInv
<1> SUFFICES ASSUME RequestsInit PROVE RunInv
  OBVIOUS
<1>1. /\ request = [r \in Requests |-> Absent]
      /\ group = [g \in Groups |-> [made |-> FALSE, consumed |-> FALSE]]
      /\ lockOf = [x \in Lockables |-> Nobody] /\ act = [c \in Callers |-> NoAct]
      /\ content = [r \in Requests |-> 0] /\ value = 0
      /\ launched = [x \in Lockables |-> 0]
      /\ session = [lock |-> Nobody, closed |-> FALSE] /\ starts = 0 /\ MaxEdits \in Nat
  BY RequestConstants DEF RequestsInit, Lockables
<1>2. Absent = [made |-> FALSE, snap |-> 0, vals |-> 0, consumed |-> FALSE]
      /\ NoAct \in Acts /\ NoAct.pc = "idle"
  BY DEF Absent, NoAct, Acts
<1>3. RequestShape
  BY <1>1, <1>2 DEF RequestShape
<1>4. PreparingOK /\ ExecutingOK /\ LocksOK
  BY <1>1, <1>2 DEF PreparingOK, ExecutingOK, Executing, LocksOK, At
<1>5. \A x \in Lockables : ~Consumed(x) /\ launched[x] = 0
  BY <1>1, <1>2 DEF Consumed, Lockables
<1>6. ConsumedOK /\ LaunchedOnce
  BY <1>1, <1>2, <1>5 DEF ConsumedOK, LaunchedOnce, Lockables
<1>7. QED
  BY <1>3, <1>4, <1>6 DEF RunInv

LEMMA RunStep == RunInv /\ [RequestsNext]_requestVars => RunInv'
<1> SUFFICES ASSUME RunInv, [RequestsNext]_requestVars PROVE RunInv'
  OBVIOUS
<1>1. /\ content \in [Requests -> Nat] /\ value \in 0..MaxEdits /\ starts \in Nat
      /\ session \in [lock : Callers \cup {Nobody}, closed : BOOLEAN]
  BY DEF RunInv, RequestShape
<1>2. CASE UNCHANGED requestVars
  BY <1>1, <1>2, QuietStep DEF requestVars
<1>3. CASE Edit \/ ClearTemplates
  BY <1>1, <1>3, EditStep, QuietStep DEF ClearTemplates
<1>4. ASSUME NEW c \in Callers, ExecutionStep(c) PROVE RunInv'
  <2>1. CASE PutTemplate(c)
    BY <2>1, PutTemplateStep
  <2>2. CASE TryLock(c)
    BY <2>2, TryLockStep
  <2>3. CASE RecheckAll(c)
    BY <2>3, RecheckStep
  <2>4. CASE AllocateFails(c) \/ ExecutionEnds(c) \/ SessionRefuses(c)
    BY <2>4, GiveBackStep DEF AllocateFails, ExecutionEnds, SessionRefuses
  <2>5. CASE LaunchRequests(c)
    BY <2>5, LaunchStep
  <2>6. QED
    BY <1>4, <2>1, <2>2, <2>3, <2>4, <2>5 DEF ExecutionStep
<1>5. ASSUME NEW c \in Callers, SessionClose(c) PROVE RunInv'
  <2>1. /\ session' = [session EXCEPT !.closed = TRUE] /\ starts' = starts + 1
        /\ UNCHANGED <<request, group, lockOf, act, content, value, templates, launched>>
    BY <1>5 DEF SessionClose, Starts
  <2>2. session' \in [lock : Callers \cup {Nobody}, closed : BOOLEAN] /\ session'.lock = session.lock
    BY <1>1, <2>1
  <2>3. starts' \in Nat /\ content' \in [Requests -> Nat] /\ value' \in 0..MaxEdits
    BY <1>1, <2>1
  <2>4. QED
    BY <2>1, <2>2, <2>3, QuietStep
<1>6. ASSUME NEW c \in Callers, NEW r \in Requests,
             PrepareLayout(c, r) \/ PrepareTyped(c, r) \/ SessionTransfer(c, r)
      PROVE  RunInv'
  BY <1>6, PrepareLayoutStep, PrepareTypedStep, SessionTransferStep
<1>7. ASSUME NEW c \in Callers, NEW g \in Groups, PrepareGroup(c, g) PROVE RunInv'
  BY <1>7, PrepareGroupStep
<1>8. ASSUME NEW c \in Callers, NEW x \in Lockables, Execute(c, x) PROVE RunInv'
  BY <1>8, ExecuteStep
<1>9. QED
  BY <1>2, <1>3, <1>4, <1>5, <1>6, <1>7, <1>8 DEF RequestsNext, Lockables

-----------------------------------------------------------------------------
(* The template cache.  Its bounds are those of a list that only grows by   *)
(* an entry there is room for; what else is put is moved to the end.        *)
IsCache(ts) ==
  /\ ts \in Seq(0..MaxEdits) /\ IsInjective(ts)
  /\ Len(ts) <= MaxEntries /\ ChargeOf(ts) <= MaxParameterBytes

LEMMA CacheIsTemplates == TemplateInv <=> IsCache(templates)
BY DEF TemplateInv, TemplatesBounded, IsCache

\* The charge of a list of values.
LEMMA ChargeTyped ==
  ASSUME NEW ts \in Seq(0..MaxEdits)
  PROVE  /\ IsFiniteSet(Range(ts)) /\ Range(ts) \subseteq 0..MaxEdits
         /\ \A v \in Range(ts) : Bytes[v] \in Nat
         /\ ChargeOf(ts) \in Nat
<1>1. Range(ts) \subseteq 0..MaxEdits
  <2>1. PICK T : T = 0..MaxEdits
    OBVIOUS
  <2>2. ts \in Seq(T)
    BY <2>1
  <2>3. \A y \in Range(ts) : y \in T
    BY ONLY <2>2 DEF Range
  <2>4. QED
    BY <2>1, <2>3
<1>2. IsFiniteSet(Range(ts))
  <2>1. IsFiniteSet(0..MaxEdits)
    BY RequestConstants, FS_Interval
  <2>2. QED
    BY <1>1, <2>1, FS_Subset
<1>3. \A v \in Range(ts) : Bytes[v] \in Nat
  BY <1>1, RequestConstants
<1>4. QED
  BY <1>1, <1>2, <1>3, UnitsFinite DEF ChargeOf

\* What a list without one of its entries holds.
LEMMA Removed ==
  ASSUME NEW T, NEW ts \in Seq(T), NEW k \in 1..Len(ts)
  PROVE  /\ RemoveAt(ts, k) \in Seq(T) /\ Len(RemoveAt(ts, k)) = Len(ts) - 1
         /\ \A i \in 1..(Len(ts) - 1) : RemoveAt(ts, k)[i] = IF i < k THEN ts[i] ELSE ts[i + 1]
<1> DEFINE left == SubSeq(ts, 1, k - 1)
           right == SubSeq(ts, k + 1, Len(ts))
<1>1. PICK n \in Nat : n = Len(ts)
  OBVIOUS
<1>0. n \in Nat /\ k \in 1..n
  BY <1>1
<1>2. left \in Seq(T) /\ Len(left) = k - 1 /\ \A i \in 1..(k - 1) : left[i] = ts[i]
  BY <1>1, <1>0
<1>3. right \in Seq(T) /\ Len(right) = n - k /\ \A i \in 1..(n - k) : right[i] = ts[k + i]
  BY <1>1, <1>0
<1>4. RemoveAt(ts, k) = left \o right
  BY DEF RemoveAt
<1> HIDE DEF left, right
<1>5. k \in 1..n
  BY <1>1
<1>6. /\ left \o right \in Seq(T) /\ Len(left \o right) = Len(left) + Len(right)
      /\ \A i \in 1..(Len(left) + Len(right)) :
           (left \o right)[i] = IF i <= Len(left) THEN left[i] ELSE right[i - Len(left)]
  BY <1>2, <1>3, ConcatProperties
<1>7. Len(left) + Len(right) = n - 1
  BY <1>2, <1>3, <1>5
<1>8. ASSUME NEW i \in 1..(n - 1) PROVE (left \o right)[i] = IF i < k THEN ts[i] ELSE ts[i + 1]
  <2>1. (left \o right)[i] = IF i <= k - 1 THEN left[i] ELSE right[i - (k - 1)]
    BY <1>2, <1>6, <1>7
  <2>2. CASE i < k
    <3>1. i <= k - 1 /\ i \in 1..(k - 1)
      BY <1>5, <2>2
    <3>2. QED
      BY <1>2, <2>1, <2>2, <3>1
  <2>3. CASE ~(i < k)
    <3>1. ~(i <= k - 1) /\ i - (k - 1) \in 1..(n - k) /\ k + (i - (k - 1)) = i + 1
      BY <1>5, <2>3
    <3>2. right[i - (k - 1)] = ts[k + (i - (k - 1))]
      BY <1>3, <3>1
    <3>3. QED
      BY <2>1, <2>3, <3>1, <3>2
  <2>4. QED
    BY <2>2, <2>3
<1>9. QED
  BY <1>1, <1>4, <1>6, <1>7, <1>8

\* An entry that is used again is the youngest, and the same ones are there.
LEMMA Touched ==
  ASSUME NEW ts, IsCache(ts), NEW v \in Range(ts)
  PROVE  IsCache(Touch(ts, v))
<1> DEFINE k == CHOOSE i \in DOMAIN ts : ts[i] = v
           us == Touch(ts, v)
<1>1. ts \in Seq(0..MaxEdits) /\ IsInjective(ts) /\ DOMAIN ts = 1..Len(ts)
  BY DEF IsCache
<1>2. PICK n \in Nat : n = Len(ts)
  BY <1>1, LenProperties
<1>3. k \in 1..n /\ ts[k] = v
  BY <1>1, <1>2 DEF Range
<1>4. us = Append(RemoveAt(ts, k), v)
  BY DEF Touch
<1> HIDE DEF k, us
<1>5. PICK w : w = RemoveAt(ts, k)
  OBVIOUS
<1>6. /\ w \in Seq(0..MaxEdits) /\ Len(w) = n - 1
      /\ \A i \in 1..(n - 1) : w[i] = IF i < k THEN ts[i] ELSE ts[i + 1]
  BY <1>1, <1>2, <1>3, <1>5, Removed
<1>7. v \in 0..MaxEdits
  BY <1>1, ChargeTyped
<1>8. /\ us \in Seq(0..MaxEdits) /\ Len(us) = n /\ us[n] = v
      /\ \A i \in 1..(n - 1) : us[i] = w[i]
  <2>1. (n - 1) + 1 = n
    BY <1>2
  <2>2. QED
    BY <1>4, <1>5, <1>6, <1>7, <2>1, AppendProperties
\* the place of each entry before
<1> DEFINE at(i) == IF i = n THEN k ELSE IF i < k THEN i ELSE i + 1
<1>9. \A i \in 1..n : at(i) \in 1..n /\ us[i] = ts[at(i)]
  <2>1. ASSUME NEW i \in 1..n PROVE at(i) \in 1..n /\ us[i] = ts[at(i)]
    <3>1. CASE i = n
      <4>1. at(i) = k
        BY <3>1
      <4>2. us[i] = v
        BY <1>8, <3>1
      <4> HIDE DEF at
      <4>3. QED
        BY <1>3, <4>1, <4>2
    <3>2. CASE i # n
      <4>1. i \in 1..(n - 1)
        BY <3>2
      <4>2. us[i] = IF i < k THEN ts[i] ELSE ts[i + 1]
        BY <1>6, <1>8, <4>1
      <4>3. at(i) \in 1..n
        BY <1>3, <4>1
      <4>4. QED
        BY <3>2, <4>2, <4>3
    <3>3. QED
      BY <3>1, <3>2
  <2>2. QED
    BY <2>1
<1>10. \A i, j \in 1..n : at(i) = at(j) => i = j
  BY <1>3
<1>11. \A m \in 1..n : \E i \in 1..n : at(i) = m
  <2>1. ASSUME NEW m \in 1..n PROVE \E i \in 1..n : at(i) = m
    <3>1. CASE m = k
      <4>1. n \in 1..n
        OBVIOUS
      <4>2. QED
        BY <3>1, <4>1
    <3>2. CASE m < k
      BY <1>3, <3>2
    <3>3. CASE m > k
      <4>1. m - 1 \in 1..n /\ m - 1 # n /\ ~(m - 1 < k) /\ (m - 1) + 1 = m
        BY <1>3, <3>3
      <4>2. at(m - 1) = m
        BY <4>1
      <4>3. QED
        BY <4>1, <4>2
    <3>4. QED
      BY <1>3, <3>1, <3>2, <3>3
  <2>2. QED
    BY <2>1
<1> HIDE DEF at
<1>12. IsInjective(us)
  <2>1. DOMAIN us = 1..n
    BY <1>8
  <2>2. ASSUME NEW i \in 1..n, NEW j \in 1..n, us[i] = us[j] PROVE i = j
    <3>1. ts[at(i)] = ts[at(j)] /\ at(i) \in 1..n /\ at(j) \in 1..n
      BY <1>9, <2>2
    <3>2. at(i) = at(j)
      BY <1>1, <1>2, <3>1 DEF IsInjective
    <3>3. QED
      BY <1>10, <3>2
  <2>3. QED
    BY <2>1, <2>2 DEF IsInjective
<1>13. Range(us) = Range(ts)
  <2>1. DOMAIN us = 1..n /\ DOMAIN ts = 1..n
    BY <1>1, <1>2, <1>8
  <2>2. ASSUME NEW y \in Range(us) PROVE y \in Range(ts)
    BY <1>9, <2>1 DEF Range
  <2>3. ASSUME NEW y \in Range(ts) PROVE y \in Range(us)
    <3>1. PICK m \in 1..n : y = ts[m]
      BY <2>1 DEF Range
    <3>2. PICK i \in 1..n : at(i) = m
      BY <1>11
    <3>3. y = us[i]
      BY <1>9, <3>1, <3>2
    <3>4. QED
      BY <2>1, <3>3 DEF Range
  <2>4. QED
    BY <2>2, <2>3
<1>14. QED
  BY <1>2, <1>8, <1>12, <1>13 DEF IsCache, ChargeOf, us

\* The rest of a list, and what it charges.
LEMMA Suffix ==
  ASSUME NEW T, NEW ts \in Seq(T), NEW k \in 0..Len(ts)
  PROVE  /\ SubSeq(ts, k + 1, Len(ts)) \in Seq(T) /\ Len(SubSeq(ts, k + 1, Len(ts))) = Len(ts) - k
         /\ \A i \in 1..(Len(ts) - k) : SubSeq(ts, k + 1, Len(ts))[i] = ts[k + i]
<1>1. PICK n \in Nat : n = Len(ts)
  OBVIOUS
<1>2. k \in 0..n /\ k + 1 \in Int /\ n \in Int /\ \A i \in (k + 1)..n : ts[i] \in T
  BY <1>1
<1>3. /\ SubSeq(ts, k + 1, n) \in Seq(T)
      /\ Len(SubSeq(ts, k + 1, n)) = IF k + 1 <= n THEN n - (k + 1) + 1 ELSE 0
      /\ \A i \in 1..(n - (k + 1) + 1) : SubSeq(ts, k + 1, n)[i] = ts[(k + 1) + i - 1]
  BY <1>2, SubSeqProperties
<1>4. n - (k + 1) + 1 = n - k /\ (k + 1 > n => n - k = 0) /\ \A i \in 1..(n - k) : (k + 1) + i - 1 = k + i
  BY <1>2
<1>5. QED
  BY <1>1, <1>2, <1>3, <1>4

\* With every entry gone there is room, so there is a least number to evict.
LEMMA RoomMade ==
  ASSUME NEW ts, IsCache(ts), NEW v \in 0..MaxEdits, Cacheable(v)
  PROVE  \E k \in 0..Len(ts) :
           /\ RoomFor(ts, v) = SubSeq(ts, k + 1, Len(ts))
           /\ Len(ts) - k < MaxEntries
           /\ ChargeOf(SubSeq(ts, k + 1, Len(ts))) + Bytes[v] <= MaxParameterBytes
<1> DEFINE fits(k) == /\ Len(ts) - k < MaxEntries
                      /\ ChargeOf(SubSeq(ts, k + 1, Len(ts))) + Bytes[v] <= MaxParameterBytes
           S == {n \in 0..Len(ts) : fits(n)}
           before == {ss \in Nat \X Nat : ss[1] < ss[2]}
<1>1. PICK n \in Nat : n = Len(ts)
  BY LenProperties DEF IsCache
<1>2. Bytes[v] \in Nat /\ MaxEntries > 0 /\ Bytes[v] <= MaxParameterBytes /\ MaxEntries \in Nat
  BY RequestConstants DEF Cacheable
<1>3. n \in 0..n /\ fits(n)
  <2>1. SubSeq(ts, n + 1, n) = <<>>
    BY <1>1, SubSeqEmpty
  <2>2. Range(<<>>) = {}
    BY DEF Range
  <2>3. ChargeOf(<<>>) = 0
    BY <2>2, FS_EmptySet DEF ChargeOf, Total, Units
  <2>4. n - n < MaxEntries
    BY <1>1, <1>2
  <2>5. ChargeOf(SubSeq(ts, n + 1, n)) + Bytes[v] <= MaxParameterBytes
    <3>1. ChargeOf(SubSeq(ts, n + 1, n)) = 0
      BY <2>1, <2>3
    <3>2. 0 + Bytes[v] <= MaxParameterBytes
      BY ONLY <1>2
    <3>3. QED
      BY <3>1, <3>2
  <2>6. QED
    BY <1>1, <2>4, <2>5
<1> HIDE DEF fits
<1>4. n \in S /\ S \subseteq Nat
  BY <1>1, <1>3
<1>5. IsWellFoundedOn(before, Nat)
  BY NatLessThanWellFounded DEF OpToRel
<1>6. \A x, y \in Nat : x < y => <<x, y>> \in before
  OBVIOUS
<1> HIDE DEF before
<1>7. PICK k \in S : \A x \in S : <<x, k>> \notin before
  BY <1>4, <1>5, WFMin
<1>8. k \in 0..Len(ts) /\ fits(k) /\ \A m \in 0..(k - 1) : ~fits(m)
  <2>1. k \in Nat /\ k \in 0..Len(ts) /\ fits(k) /\ k <= n
    BY <1>1, <1>4, <1>7
  <2>2. ASSUME NEW m \in 0..(k - 1), fits(m) PROVE FALSE
    <3>1. m \in Nat /\ m < k /\ m \in 0..n
      BY <1>1, <2>1
    <3>2. m \in S
      BY <1>1, <2>2, <3>1
    <3>3. QED
      BY <1>6, <1>7, <2>1, <3>1, <3>2
  <2>3. QED
    BY <2>1, <2>2
<1>9. PICK least : least = CHOOSE m \in 0..Len(ts) : fits(m) /\ \A l \in 0..(m - 1) : ~fits(l)
  OBVIOUS
<1>10. least \in 0..Len(ts) /\ fits(least)
  BY <1>8, <1>9
<1>11. RoomFor(ts, v) = SubSeq(ts, least + 1, Len(ts))
  BY <1>9 DEF RoomFor, fits
<1>12. QED
  BY <1>10, <1>11 DEF fits

\* What there is room for is put last; it was not there.
LEMMA Stored ==
  ASSUME NEW ts, IsCache(ts), NEW v \in 0..MaxEdits, Cacheable(v), v \notin Range(ts)
  PROVE  IsCache(Append(RoomFor(ts, v), v))
<1>1. ts \in Seq(0..MaxEdits) /\ IsInjective(ts) /\ MaxEntries \in Nat
  BY RequestConstants DEF IsCache
<1>2. PICK n \in Nat : n = Len(ts) /\ DOMAIN ts = 1..n
  BY <1>1, LenProperties
<1>3. PICK k \in 0..n : /\ RoomFor(ts, v) = SubSeq(ts, k + 1, n)
                        /\ n - k < MaxEntries
                        /\ ChargeOf(SubSeq(ts, k + 1, n)) + Bytes[v] <= MaxParameterBytes
  BY <1>2, RoomMade
<1>4. PICK w : w = SubSeq(ts, k + 1, n)
  OBVIOUS
<1>5. PICK T : T = 0..MaxEdits
  OBVIOUS
<1>6. w \in Seq(T) /\ Len(w) = n - k /\ \A i \in 1..(n - k) : w[i] = ts[k + i]
  BY <1>1, <1>2, <1>4, <1>5, Suffix
<1>7. PICK us : us = Append(w, v)
  OBVIOUS
<1>8. PICK l \in Nat : l = n - k
  BY <1>3
<1>9. /\ us \in Seq(T) /\ Len(us) = l + 1 /\ DOMAIN us = 1..(l + 1) /\ DOMAIN w = 1..l
      /\ us[l + 1] = v /\ \A i \in 1..l : us[i] = w[i]
  <2>1. v \in T
    BY <1>5
  <2>2. Len(w) = l /\ DOMAIN w = 1..l
    BY <1>6, <1>8, LenProperties
  <2>3. us \in Seq(T) /\ Len(us) = l + 1 /\ us[l + 1] = v /\ \A i \in 1..l : us[i] = w[i]
    BY ONLY <1>6, <1>7, <2>1, <2>2, AppendProperties
  <2>4. DOMAIN us = 1..(l + 1)
    BY <2>3, LenProperties
  <2>5. QED
    BY <2>2, <2>3, <2>4
<1>10. \A i \in 1..l : k + i \in 1..n /\ us[i] = ts[k + i] /\ us[i] # v
  <2>1. ASSUME NEW i \in 1..l PROVE k + i \in 1..n /\ us[i] = ts[k + i] /\ us[i] # v
    <3>1. k + i \in 1..n
      BY <1>3, <1>8
    <3>2. us[i] = ts[k + i]
      BY <1>6, <1>8, <1>9
    <3>3. ts[k + i] \in Range(ts)
      BY <1>2, <3>1 DEF Range
    <3>4. QED
      BY <3>1, <3>2, <3>3
  <2>2. QED
    BY <2>1
<1>11. IsInjective(us)
  <2>1. ASSUME NEW i \in 1..(l + 1), NEW j \in 1..(l + 1), us[i] = us[j] PROVE i = j
    <3>1. CASE i = l + 1 \/ j = l + 1
      <4>1. \A m \in 1..(l + 1) : m # l + 1 => m \in 1..l
        OBVIOUS
      <4>2. QED
        BY <1>9, <1>10, <2>1, <3>1, <4>1
    <3>2. CASE i # l + 1 /\ j # l + 1
      <4>1. i \in 1..l /\ j \in 1..l
        BY <3>2
      <4>2. ts[k + i] = ts[k + j] /\ k + i \in 1..n /\ k + j \in 1..n
        BY <1>10, <2>1, <4>1
      <4>3. k + i = k + j
        BY <1>1, <1>2, <4>2 DEF IsInjective
      <4>4. QED
        BY <1>3, <4>1, <4>3
    <3>3. QED
      BY <3>1, <3>2
  <2>2. QED
    BY <1>9, <2>1 DEF IsInjective
<1>12. Range(us) = Range(w) \cup {v} /\ v \notin Range(w)
  <2>1. \A i \in 1..l : us[i] = w[i] /\ w[i] # v
    BY <1>9, <1>10
  <2>2. v \notin Range(w)
    BY <1>9, <2>1 DEF Range
  <2>3. ASSUME NEW y \in Range(us) PROVE y \in Range(w) \cup {v}
    <3>1. PICK i \in 1..(l + 1) : y = us[i]
      BY <1>9 DEF Range
    <3>2. i = l + 1 \/ i \in 1..l
      OBVIOUS
    <3>3. QED
      BY <1>9, <3>1, <3>2 DEF Range
  <2>4. ASSUME NEW y \in Range(w) \cup {v} PROVE y \in Range(us)
    <3>1. CASE y = v
      <4>1. l + 1 \in DOMAIN us
        BY <1>9
      <4>2. QED
        BY <1>9, <3>1, <4>1 DEF Range
    <3>2. CASE y \in Range(w)
      <4>1. PICK i \in 1..l : y = w[i]
        BY <1>9, <3>2 DEF Range
      <4>2. i \in DOMAIN us /\ y = us[i]
        BY <1>9, <4>1
      <4>3. QED
        BY <4>2 DEF Range
    <3>3. QED
      BY <2>4, <3>1, <3>2
  <2>5. QED
    BY <2>2, <2>3, <2>4
<1>13. ChargeOf(us) = ChargeOf(w) + Bytes[v]
  <2>1. us \in Seq(0..MaxEdits)
    BY <1>5, <1>9
  <2>2. IsFiniteSet(Range(us)) /\ \A y \in Range(us) : Bytes[y] \in Nat
    BY <2>1, ChargeTyped
  <2>3. v \in Range(us) /\ Range(us) \ {v} = Range(w)
    BY <1>12
  <2>4. Total(Range(us), Bytes) = Total(Range(us) \ {v}, Bytes) + Bytes[v]
    BY <2>2, <2>3, TotalSplit
  <2>5. QED
    BY <2>3, <2>4 DEF ChargeOf
<1>14. QED
  <2>1. us \in Seq(0..MaxEdits) /\ us = Append(RoomFor(ts, v), v)
    BY <1>3, <1>4, <1>5, <1>7, <1>9
  <2>2. ChargeOf(us) <= MaxParameterBytes
    BY <1>3, <1>4, <1>13
  <2>3. Len(us) <= MaxEntries
    BY <1>1, <1>3, <1>8, <1>9
  <2>4. QED
    BY <1>11, <2>1, <2>2, <2>3 DEF IsCache

LEMMA CacheStep == RunInv /\ TemplateInv /\ [RequestsNext]_requestVars => TemplateInv'
<1> SUFFICES ASSUME RunInv, TemplateInv, [RequestsNext]_requestVars PROVE IsCache(templates')
  BY CacheIsTemplates DEF TemplateInv, TemplatesBounded, IsCache
<1>1. IsCache(templates)
  BY CacheIsTemplates
<1>2. CASE templates' = templates
  BY <1>1, <1>2
<1>3. CASE templates' = <<>>
  <2>1. <<>> \in Seq(0..MaxEdits) /\ Len(<<>>) = 0 /\ IsInjective(<<>>) /\ Range(<<>>) = {}
    BY DEF IsInjective, Range
  <2>2. ChargeOf(<<>>) = 0
    BY <2>1, FS_EmptySet DEF ChargeOf, Total, Units
  <2>3. QED
    BY <1>3, <2>1, <2>2, RequestConstants DEF IsCache
<1>4. CASE value \in Range(templates) /\ templates' = Touch(templates, value)
  BY <1>1, <1>4, Touched
<1>5. ASSUME NEW c \in Callers, PutTemplate(c) PROVE IsCache(templates')
  <2>1. PICK v \in 0..MaxEdits : act[c].todo = <<v>>
    BY <1>5 DEF RunInv, PreparingOK, PutTemplate
  <2>2. Head(act[c].todo) = v
    BY <2>1
  <2>3. templates' = templates \/ templates' = Put(templates, v)
    BY <1>5, <2>2 DEF PutTemplate
  <2>4. IsCache(Put(templates, v))
    <3>1. CASE ~Cacheable(v)
      BY <1>1, <3>1 DEF Put
    <3>2. CASE Cacheable(v) /\ v \in Range(templates)
      BY <1>1, <3>2, Touched DEF Put
    <3>3. CASE Cacheable(v) /\ v \notin Range(templates)
      BY <1>1, <3>3, Stored DEF Put
    <3>4. QED
      BY <3>1, <3>2, <3>3
  <2>5. QED
    BY <1>1, <2>3, <2>4
<1>6. \/ templates' = templates \/ templates' = <<>>
      \/ value \in Range(templates) /\ templates' = Touch(templates, value)
      \/ \E c \in Callers : PutTemplate(c)
  BY DEF RequestsNext, requestVars, ExecutionStep, TryLock, RecheckAll, AllocateFails, LaunchRequests,
     ExecutionEnds, SessionRefuses, SessionClose, PrepareLayout, PrepareTyped, SessionTransfer,
     PrepareGroup, Execute, Edit, ClearTemplates
<1>7. QED
  BY <1>2, <1>3, <1>4, <1>5, <1>6

(* Callers that race for requests, alone and in groups, and the session     *)
(* keep the invariant of the locks, the launches and the template cache     *)
(* (transport.py, dispatch.py, group.py, preparation.py).                   *)
THEOREM RequestsInvariant == RequestsSpec => []RequestsInv
<1>1. RequestsInit => RequestsInv
  <2> SUFFICES ASSUME RequestsInit PROVE TemplateInv
    BY RunInit DEF RequestsInv
  <2>1. templates = <<>>
    BY DEF RequestsInit
  <2>2. <<>> \in Seq(0..MaxEdits) /\ Len(<<>>) = 0 /\ IsInjective(<<>>) /\ Range(<<>>) = {}
    BY DEF IsInjective, Range
  <2>3. ChargeOf(<<>>) = 0
    BY <2>2, FS_EmptySet DEF ChargeOf, Total, Units
  <2>4. QED
    BY <2>1, <2>2, <2>3, RequestConstants DEF TemplateInv, TemplatesBounded
<1>2. RequestsInv /\ [RequestsNext]_requestVars => RequestsInv'
  BY RunStep, CacheStep DEF RequestsInv
<1>3. QED
  BY <1>1, <1>2, PTL DEF RequestsSpec

(* No request runs twice, in a group or alone; what was not launched can    *)
(* still be; nobody leaves a lock behind, and the templates keep within     *)
(* their bounds (execute_transfer, _execute_transfer_group, TemplateCache). *)
THEOREM RequestsRunOnce == RequestsSpec => []RequestsSafe
<1>1. RequestsInv => RequestsSafe
  <2> SUFFICES ASSUME RequestsInv PROVE ReusableUntilLaunched
    BY DEF RequestsInv, RunInv, TemplateInv, RequestsSafe
  <2>1. /\ launched \in [Lockables -> Nat] /\ lockOf \in [Lockables -> Callers \cup {Nobody}]
    BY DEF RequestsInv, RunInv, RequestShape
  <2>2. \A x \in Lockables : Consumed(x) <=> launched[x] > 0
    BY DEF RequestsInv, RunInv, ConsumedOK
  <2>3. /\ \A x \in Lockables : lockOf[x] # Nobody => ~At(lockOf[x], "idle")
        /\ session.lock # Nobody => ~At(session.lock, "idle")
    BY DEF RequestsInv, RunInv, LocksOK, Executing, At
  <2>4. QED
    BY <2>1, <2>2, <2>3 DEF ReusableUntilLaunched
<1>2. QED
  BY <1>1, RequestsInvariant, PTL

-----------------------------------------------------------------------------
(****************************************************************************)
(* Fast transfers.                                                          *)
(*                                                                          *)
(* The user's thread carries what it still has to do in `todo`.  That the   *)
(* deques stay bounded and that an output is never handed out too early     *)
(* rests on what may precede a step there, on what was established when it  *)
(* comes to the front, and on a group being launched once.                  *)
(****************************************************************************)

Queues == {"owner", "swap", "pending", "consumed"}
Deques == [owner : Seq(FastGroups), swap : Seq(FastGroups), pending : Seq(FastGroups),
           consumed : Seq(FastGroups)]

\* One deque changes, the others stay.
LEMMA DequeChanged ==
  ASSUME NEW d \in Deques, NEW q \in Queues, NEW s \in Seq(FastGroups),
         NEW e, e = [d EXCEPT ![q] = s]
  PROVE  /\ e \in Deques /\ e[q] = s /\ d[q] \in Seq(FastGroups)
         /\ e.owner = (IF q = "owner" THEN s ELSE d.owner)
         /\ e.pending = (IF q = "pending" THEN s ELSE d.pending)
         /\ e.consumed = (IF q = "consumed" THEN s ELSE d.consumed)
<1>1. CASE q = "owner"
  BY <1>1 DEF Deques
<1>2. CASE q = "swap"
  BY <1>2 DEF Deques
<1>3. CASE q = "pending"
  BY <1>3 DEF Deques
<1>4. CASE q = "consumed"
  BY <1>4 DEF Deques
<1>5. QED
  BY <1>1, <1>2, <1>3, <1>4 DEF Queues

\* What is left of a deque without its oldest group.
LEMMA Shorter ==
  ASSUME NEW T, NEW s \in Seq(T), s # <<>>
  PROVE  /\ Head(s) \in T /\ Tail(s) \in Seq(T) /\ Len(s) \in Nat \ {0}
         /\ Len(Tail(s)) = Len(s) - 1
         /\ \A i \in 1..(Len(s) - 1) : Tail(s)[i] = s[i + 1]
         /\ Head(s) = s[1]
         /\ \A x \in Range(s) : x = Head(s) \/ x \in Range(Tail(s))
         /\ Range(Tail(s)) \subseteq Range(s) /\ Head(s) \in Range(s)
<1>1. /\ Head(s) \in T /\ Tail(s) \in Seq(T) /\ Len(s) \in Nat \ {0}
      /\ Len(Tail(s)) = Len(s) - 1 /\ Head(s) = s[1]
      /\ \A i \in 1..Len(Tail(s)) : Tail(s)[i] = s[i + 1]
  BY HeadTailProperties, EmptySeq
<1>2. PICK n \in Nat \ {0} : n = Len(s) /\ DOMAIN s = 1..n
  BY <1>1, LenProperties
<1>3. PICK t : t = Tail(s)
  OBVIOUS
<1>4. t \in Seq(T) /\ Len(t) = n - 1 /\ DOMAIN t = 1..(n - 1) /\ \A i \in 1..(n - 1) : t[i] = s[i + 1]
  BY <1>1, <1>2, <1>3, LenProperties
<1>5. ASSUME NEW x \in Range(s) PROVE x = s[1] \/ x \in Range(t)
  <2>1. PICK i \in 1..n : x = s[i]
    BY <1>2 DEF Range
  <2>2. CASE i = 1
    BY <2>1, <2>2
  <2>3. CASE i # 1
    <3>1. i - 1 \in 1..(n - 1) /\ (i - 1) + 1 = i
      BY <1>2, <2>3
    <3>2. t[i - 1] = s[(i - 1) + 1]
      BY <1>4, <3>1
    <3>3. QED
      BY <1>4, <2>1, <3>1, <3>2 DEF Range
  <2>4. QED
    BY <2>2, <2>3
<1>6. Range(t) \subseteq Range(s) /\ s[1] \in Range(s)
  <2>1. 1 \in 1..n /\ \A i \in 1..(n - 1) : i + 1 \in 1..n
    OBVIOUS
  <2>2. QED
    BY <1>2, <1>4, <2>1 DEF Range
<1>7. QED
  BY <1>1, <1>2, <1>3, <1>4, <1>5, <1>6

LEMMA Longer ==
  ASSUME NEW T, NEW s \in Seq(T), NEW x \in T
  PROVE  /\ Append(s, x) \in Seq(T) /\ Len(Append(s, x)) = Len(s) + 1 /\ Len(s) \in Nat
         /\ x \in Range(Append(s, x)) /\ Range(s) \subseteq Range(Append(s, x))
         /\ Range(Append(s, x)) \subseteq Range(s) \cup {x}
<1>1. PICK t : t = Append(s, x)
  OBVIOUS
<1>2. PICK n \in Nat : n = Len(s) /\ DOMAIN s = 1..n
  BY LenProperties
<1>3. t \in Seq(T) /\ Len(t) = n + 1 /\ (\A i \in 1..n : t[i] = s[i]) /\ t[n + 1] = x
  BY <1>1, <1>2, AppendProperties
<1>4. DOMAIN t = 1..(n + 1)
  BY <1>3, LenProperties
<1>5. x \in Range(t) /\ Range(s) \subseteq Range(t)
  <2>1. n + 1 \in 1..(n + 1) /\ \A i \in 1..n : i \in 1..(n + 1)
    BY <1>2
  <2>2. QED
    BY <1>2, <1>3, <1>4, <2>1 DEF Range
<1>6. ASSUME NEW y \in Range(t) PROVE y \in Range(s) \cup {x}
  <2>1. PICK i \in 1..(n + 1) : y = t[i]
    BY <1>4 DEF Range
  <2>2. i = n + 1 \/ i \in 1..n
    BY <1>2
  <2>3. QED
    BY <1>2, <1>3, <2>1, <2>2 DEF Range
<1>7. QED
  BY <1>1, <1>2, <1>3, <1>5, <1>6

(* The steps of a method: Keeps put a group into the window's deques, Fills  *)
(* may submit one more, Uses need a group that was launched, Alone name none. *)
Keeps == {"keepPending", "keepConsumed"}
Fills == {"fillOne", "fill", "fillNow", "take"}
Uses == {"wait", "order", "retain", "handOut", "keepRestored"} \cup Keeps
Alone == {"retire", "retireSwap", "checkOpen", "makeRoom", "drainOwner", "drainSwap",
          "drainPending", "drainConsumed", "closeNative"} \cup Fills
Steps == [k : Alone, g : {"none"}] \cup [k : Uses \cup {"launch"}, g : FastGroups]

FastShape ==
  /\ todo \in Seq(Steps)
  /\ native \in [FastGroups -> {"none", "running", "ok", "failed"}]
  /\ finished \subseteq FastGroups /\ totals \in [FastGroups -> Nat]
  /\ deques \in Deques
  /\ taken \in 0..Len(Prefetched)
  /\ handed \in [FastGroups -> {"no", "host", "stream"}]

(* The order of steps in a method: what the code does just before each.     *)
StepsOrdered(s) ==
  \A i \in 1..Len(s) :
    /\ i > 1 /\ s[i].k = "retain" => s[i - 1].k = "makeRoom"
    /\ i > 1 /\ s[i].k = "handOut" => s[i - 1].k \in {"order", "retain"} /\ s[i - 1].g = s[i].g
    /\ i > 1 /\ s[i].k = "launch" => s[i - 1].k = "retire"
    /\ i > 2 /\ s[i].k = "launch" => s[i - 2].k = "checkOpen"
    /\ s[i].k \in Keeps => \A j \in 1..(i - 1) : s[j].k \notin Keeps \cup Fills
    /\ s[i].k = "launch" => \A j \in 1..(i - 1) : s[j].k \notin Fills \cup {"launch"}

(* A group is launched before it is used, and never launched again.         *)
LaunchesBy(s, k) ==
  \A i \in 1..Len(s) :
    /\ s[i].k = "launch" =>
         /\ native[s[i].g] = "none"
         /\ s[i].g \in Direct \cup Restores \/ \E m \in 1..k : s[i].g = Prefetched[m]
    /\ s[i].k \in Uses =>
         \/ native[s[i].g] # "none"
         \/ \E j \in 1..(i - 1) : s[j].k = "launch" /\ s[j].g = s[i].g
LaunchesOK(s) == LaunchesBy(s, taken)
UntakenOK == \A m \in (taken + 1)..Len(Prefetched) : native[Prefetched[m]] = "none"

(* What the steps before it established for the step at the front.          *)
FrontOK(s) ==
  /\ s # <<>> /\ s[1].k = "retain" => Len(deques.owner) < MaxInflight
  /\ s # <<>> /\ s[1].k = "handOut" =>
       native[s[1].g] # "running" \/ s[1].g \in Range(deques.owner)
  /\ s # <<>> /\ s[1].k = "launch" => ownerState = "open"
  /\ Len(s) > 1 /\ s[1].k = "retire" /\ s[2].k = "launch" => ownerState = "open"

(* A slot is free for the group that is on its way into a window's deque.   *)
WindowOK ==
  /\ Len(deques.owner) <= MaxInflight /\ InWindow <= Slots
  /\ \A i \in 1..Len(todo) : todo[i].k \in Keeps => InWindow < Slots
  /\ \A g \in Range(deques.pending) : native[g] # "none"

CountOK ==
  /\ \A g \in finished : native[g] = "ok"
  /\ \A g \in FastGroups : totals[g] = IF g \in finished THEN 1 ELSE 0

HandedOK ==
  \A g \in FastGroups :
    /\ native[g] = "none" => handed[g] = "no"
    /\ handed[g] = "host" => native[g] = "ok"
    /\ handed[g] = "stream" /\ native[g] = "running" => g \in Range(deques.owner)

ClosedOK ==
  /\ ownerState # "open" => registered = {}
  /\ ownerState = "closed" => op # "executing" /\ \A g \in FastGroups : native[g] # "running"

\* Only close() and what fails inside of it free the native resources.
CloseOK(s) == \A i \in 1..Len(s) : s[i].k = "closeNative" => ownerState # "open"

FastInv ==
  /\ FastShape /\ StepsOrdered(todo) /\ LaunchesOK(todo) /\ UntakenOK /\ FrontOK(todo)
  /\ CloseOK(todo)
  /\ WindowOK /\ CountOK /\ HandedOK /\ ClosedOK

-----------------------------------------------------------------------------
\* What is on the list of steps, without its first.
LEMMA TodoTail ==
  ASSUME FastInv, todo # <<>>
  PROVE  /\ Tail(todo) \in Seq(Steps) /\ Len(todo) \in Nat \ {0} /\ Len(Tail(todo)) = Len(todo) - 1
         /\ Head(todo) = todo[1] /\ todo[1] \in Steps
         /\ \A i \in 1..(Len(todo) - 1) : Tail(todo)[i] = todo[i + 1] /\ i + 1 \in 1..Len(todo)
         /\ \A i \in 1..Len(todo) : todo[i] \in Steps
         /\ StepsOrdered(Tail(todo))
<1>1. /\ todo \in Seq(Steps) /\ StepsOrdered(todo)
  BY DEF FastInv, FastShape
<1>2. PICK t : t = Tail(todo)
  OBVIOUS
<1>3. PICK n \in Nat \ {0} : n = Len(todo)
  BY <1>1, Shorter
<1>4. /\ t \in Seq(Steps) /\ Len(t) = n - 1 /\ Head(todo) = todo[1] /\ todo[1] \in Steps
      /\ \A i \in 1..(n - 1) : t[i] = todo[i + 1]
      /\ \A i \in 1..n : todo[i] \in Steps
  BY <1>1, <1>2, <1>3, Shorter, ElementOfSeq
<1>5. StepsOrdered(t)
  <2> SUFFICES ASSUME NEW i \in 1..(n - 1)
               PROVE  /\ i > 1 /\ t[i].k = "retain" => t[i - 1].k = "makeRoom"
                      /\ i > 1 /\ t[i].k = "handOut" => t[i - 1].k \in {"order", "retain"} /\ t[i - 1].g = t[i].g
                      /\ i > 1 /\ t[i].k = "launch" => t[i - 1].k = "retire"
                      /\ i > 2 /\ t[i].k = "launch" => t[i - 2].k = "checkOpen"
                      /\ t[i].k \in Keeps => \A j \in 1..(i - 1) : t[j].k \notin Keeps \cup Fills
                      /\ t[i].k = "launch" => \A j \in 1..(i - 1) : t[j].k \notin Fills \cup {"launch"}
    BY <1>4 DEF StepsOrdered
  <2>1. i + 1 \in 1..n /\ t[i] = todo[i + 1] /\ i + 1 > 1 /\ (i + 1) - 1 = i
    BY <1>4
  <2>2. i > 1 => t[i - 1] = todo[i] /\ (i + 1) - 1 = i /\ (i + 1) - 2 = i - 1 /\ i + 1 > 2
    <3>1. i > 1 => i - 1 \in 1..(n - 1) /\ (i - 1) + 1 = i
      OBVIOUS
    <3>2. QED
      BY <1>4, <3>1
  <2>3. i > 2 => t[i - 2] = todo[i - 1]
    <3>1. i > 2 => i - 2 \in 1..(n - 1) /\ (i - 2) + 1 = i - 1
      OBVIOUS
    <3>2. QED
      BY <1>4, <3>1
  <2>4. \A j \in 1..(i - 1) : t[j] = todo[j + 1] /\ j + 1 \in 1..((i + 1) - 1)
    <3>1. \A j \in 1..(i - 1) : j \in 1..(n - 1) /\ j + 1 \in 1..((i + 1) - 1)
      OBVIOUS
    <3>2. QED
      BY <1>4, <3>1
  <2>5. PICK m : m = i + 1
    OBVIOUS
  <2>6. /\ m > 1 /\ todo[m].k = "retain" => todo[m - 1].k = "makeRoom"
        /\ m > 1 /\ todo[m].k = "handOut" => todo[m - 1].k \in {"order", "retain"} /\ todo[m - 1].g = todo[m].g
        /\ m > 1 /\ todo[m].k = "launch" => todo[m - 1].k = "retire"
        /\ m > 2 /\ todo[m].k = "launch" => todo[m - 2].k = "checkOpen"
        /\ todo[m].k \in Keeps => \A j \in 1..(m - 1) : todo[j].k \notin Keeps \cup Fills
        /\ todo[m].k = "launch" => \A j \in 1..(m - 1) : todo[j].k \notin Fills \cup {"launch"}
    BY <1>1, <1>3, <2>1, <2>5 DEF StepsOrdered
  <2>7. t[i] = todo[m] /\ m > 1 /\ m - 1 = i
    BY <2>1, <2>5
  <2>8. i > 1 => t[i - 1] = todo[m - 1]
    BY <2>2, <2>7
  <2>9. i > 2 => t[i - 2] = todo[m - 2] /\ m > 2
    BY <2>3, <2>5
  <2>10. \A j \in 1..(i - 1) : \E l \in 1..(m - 1) : t[j] = todo[l]
    BY <2>4, <2>5
  <2>11. QED
    <3> USE <2>7
    <3>1. i > 1 /\ t[i].k = "retain" => t[i - 1].k = "makeRoom"
      BY <2>6, <2>8
    <3>2. i > 1 /\ t[i].k = "handOut" => t[i - 1].k \in {"order", "retain"} /\ t[i - 1].g = t[i].g
      BY <2>6, <2>8
    <3>3. i > 1 /\ t[i].k = "launch" => t[i - 1].k = "retire"
      BY <2>6, <2>8
    <3>4. i > 2 /\ t[i].k = "launch" => t[i - 2].k = "checkOpen"
      BY <2>6, <2>9
    <3>5. t[i].k \in Keeps => \A j \in 1..(i - 1) : t[j].k \notin Keeps \cup Fills
      BY <2>6, <2>10
    <3>6. t[i].k = "launch" => \A j \in 1..(i - 1) : t[j].k \notin Fills \cup {"launch"}
      BY <2>6, <2>10
    <3>7. QED
      BY <3>1, <3>2, <3>3, <3>4, <3>5, <3>6
<1>6. \A i \in 1..(n - 1) : t[i] = todo[i + 1] /\ i + 1 \in 1..n
  BY <1>4
<1>7. QED
  BY <1>2, <1>3, <1>4, <1>5, <1>6

NoLaunch == \A g \in FastGroups : native'[g] = "none" <=> native[g] = "none"

\* A step that leaves the list, and launches nothing.
LEMMA ListStays ==
  ASSUME FastInv, UNCHANGED <<todo, taken, ownerState>>, NoLaunch
  PROVE  LaunchesOK(todo)' /\ UntakenOK' /\ CloseOK(todo)' /\ StepsOrdered(todo)'
<1>1. \A i \in 1..Len(todo) : todo[i].k \in Uses \cup {"launch"} => todo[i].g \in FastGroups
  <2>1. \A i \in 1..Len(todo) : todo[i] \in Steps
    BY ElementOfSeq DEF FastInv, FastShape
  <2>2. QED
    BY <2>1 DEF Steps, Alone, Uses, Keeps, Fills
<1>2. \A m \in (taken + 1)..Len(Prefetched) : Prefetched[m] \in FastGroups
  <2>1. taken \in 0..Len(Prefetched) /\ Prefetched \in Seq(Range(Prefetched))
    BY FastConstants DEF FastInv, FastShape
  <2>2. \A m \in (taken + 1)..Len(Prefetched) : m \in 1..Len(Prefetched)
    BY <2>1
  <2>3. QED
    BY <2>1, <2>2, ElementOfSeq DEF FastGroups
<1>3. LaunchesOK(todo) /\ UntakenOK /\ StepsOrdered(todo)
  BY DEF FastInv
<1>4. LaunchesOK(todo)'
  <2>1. ASSUME NEW i \in 1..Len(todo), todo[i].k = "launch"
        PROVE  /\ native'[todo[i].g] = "none"
               /\ todo[i].g \in Direct \cup Restores \/ \E m \in 1..taken : todo[i].g = Prefetched[m]
    BY <1>1, <1>3, <2>1 DEF LaunchesOK, LaunchesBy, NoLaunch
  <2>2. ASSUME NEW i \in 1..Len(todo), todo[i].k \in Uses
        PROVE  \/ native'[todo[i].g] # "none"
               \/ \E j \in 1..(i - 1) : todo[j].k = "launch" /\ todo[j].g = todo[i].g
    BY <1>1, <1>3, <2>2 DEF LaunchesOK, LaunchesBy, NoLaunch
  <2>3. QED
    BY <2>1, <2>2 DEF LaunchesOK, LaunchesBy
<1>5. UntakenOK'
  BY <1>2, <1>3 DEF UntakenOK, NoLaunch
<1>6. StepsOrdered(todo)'
  BY <1>3 DEF StepsOrdered
<1>7. CloseOK(todo)'
  BY DEF FastInv, CloseOK
<1>8. QED
  BY <1>4, <1>5, <1>6, <1>7

\* A method that is left: at most the end of close() remains.
LEMMA ListEnds ==
  ASSUME FastInv, Raise, UNCHANGED <<taken, ownerState>>, NoLaunch
  PROVE  /\ LaunchesOK(todo)' /\ UntakenOK' /\ CloseOK(todo)' /\ StepsOrdered(todo)' /\ FrontOK(todo)'
         /\ todo' \in Seq(Steps) /\ \A i \in 1..Len(todo') : todo'[i].k = "closeNative"
<1>1. \A m \in (taken + 1)..Len(Prefetched) : Prefetched[m] \in FastGroups
  <2>1. taken \in 0..Len(Prefetched) /\ Prefetched \in Seq(Range(Prefetched))
    BY FastConstants DEF FastInv, FastShape
  <2>2. \A m \in (taken + 1)..Len(Prefetched) : m \in 1..Len(Prefetched)
    BY <2>1
  <2>3. QED
    BY <2>1, <2>2, ElementOfSeq DEF FastGroups
<1>2. UntakenOK'
  BY <1>1 DEF FastInv, UntakenOK, NoLaunch
<1>3. CASE todo' = <<>>
  <2>1. Len(todo') = 0 /\ todo' \in Seq(Steps)
    BY <1>3
  <2>2. QED
    BY <1>2, <1>3, <2>1 DEF LaunchesOK, LaunchesBy, StepsOrdered, FrontOK, CloseOK
<1>4. CASE todo' = <<Do("closeNative")>>
  <2>1. Do("closeNative") = [k |-> "closeNative", g |-> "none"] /\ Do("closeNative") \in Steps
    BY DEF Do, Steps, Alone
  <2>2. /\ Len(todo') = 1 /\ todo'[1].k = "closeNative" /\ todo' \in Seq(Steps)
        /\ \A i \in 1..1 : i = 1
    BY <1>4, <2>1
  <2>3. LaunchesOK(todo)' /\ StepsOrdered(todo)' /\ FrontOK(todo)'
    BY <2>2 DEF LaunchesOK, LaunchesBy, StepsOrdered, FrontOK, Uses, Keeps, Fills
  <2>4. CloseOK(todo)'
    <3>1. ownerState = "closing"
      BY <1>4, <2>2, EmptySeq DEF Raise
    <3>2. QED
      BY <3>1 DEF CloseOK
  <2>5. QED
    BY <1>2, <2>2, <2>3, <2>4
<1>5. QED
  BY <1>3, <1>4 DEF Raise

\* A step that is done; the one at the front may launch its group.
LEMMA ListShrinks ==
  ASSUME FastInv, todo # <<>>, NextStep, UNCHANGED taken, ownerState' \in {ownerState, "closed"},
         \A g \in FastGroups : native[g] # "none" => native'[g] # "none",
         \A g \in FastGroups :
           native[g] = "none" /\ native'[g] # "none" => todo[1].k = "launch" /\ todo[1].g = g,
         todo[1].k = "launch" => native'[todo[1].g] # "none"
  PROVE  /\ LaunchesOK(todo)' /\ UntakenOK' /\ CloseOK(todo)' /\ StepsOrdered(todo)'
         /\ todo' \in Seq(Steps) /\ Len(todo) \in Nat \ {0} /\ Len(todo') = Len(todo) - 1
         /\ \A i \in 1..(Len(todo) - 1) : todo'[i] = todo[i + 1] /\ i + 1 \in 1..Len(todo)
<1>1. PICK n \in Nat \ {0} : n = Len(todo)
  BY TodoTail
<1>2. /\ todo' \in Seq(Steps) /\ Len(todo') = n - 1 /\ StepsOrdered(todo')
      /\ \A i \in 1..(n - 1) : todo'[i] = todo[i + 1] /\ i + 1 \in 1..n
      /\ \A i \in 1..n : todo[i] \in Steps
  BY <1>1, TodoTail DEF NextStep
<1>3. \A i \in 1..n : todo[i].k \in Uses \cup {"launch"} => todo[i].g \in FastGroups
  BY <1>2 DEF Steps, Alone, Uses, Keeps, Fills
<1>4. LaunchesOK(todo) /\ UntakenOK /\ StepsOrdered(todo)
  BY DEF FastInv
<1>5. ASSUME NEW i \in 1..(n - 1), todo'[i].k = "launch"
      PROVE  /\ native'[todo'[i].g] = "none"
             /\ todo'[i].g \in Direct \cup Restores \/ \E m \in 1..taken : todo'[i].g = Prefetched[m]
  <2>1. PICK m \in 1..n : m = i + 1 /\ todo'[i] = todo[m] /\ 1 \in 1..(m - 1)
    BY <1>2
  <2>2. todo[1].k # "launch"
    BY <1>1, <1>4, <1>5, <2>1 DEF StepsOrdered
  <2>3. native[todo[m].g] = "none" /\ todo[m].g \in FastGroups
        /\ (todo[m].g \in Direct \cup Restores \/ \E l \in 1..taken : todo[m].g = Prefetched[l])
    BY <1>1, <1>3, <1>4, <1>5, <2>1 DEF LaunchesOK, LaunchesBy
  <2>4. native'[todo[m].g] = "none"
    BY <2>2, <2>3
  <2>5. QED
    BY <2>1, <2>3, <2>4
<1>6. ASSUME NEW i \in 1..(n - 1), todo'[i].k \in Uses
      PROVE  \/ native'[todo'[i].g] # "none"
             \/ \E j \in 1..(i - 1) : todo'[j].k = "launch" /\ todo'[j].g = todo'[i].g
  <2>1. PICK m \in 1..n : m = i + 1 /\ todo'[i] = todo[m]
    BY <1>2
  <2>2. todo[m].g \in FastGroups
    BY <1>3, <1>6, <2>1
  <2>3. CASE native[todo[m].g] # "none"
    BY <2>1, <2>2, <2>3
  <2>4. CASE \E j \in 1..(m - 1) : todo[j].k = "launch" /\ todo[j].g = todo[m].g
    <3>1. PICK j \in 1..(m - 1) : todo[j].k = "launch" /\ todo[j].g = todo[m].g
      BY <2>4
    <3>2. CASE j = 1
      BY <2>1, <3>1, <3>2
    <3>3. CASE j # 1
      <4>1. j - 1 \in 1..(i - 1) /\ j - 1 \in 1..(n - 1) /\ (j - 1) + 1 = j
        BY <2>1, <3>3
      <4>2. todo'[j - 1] = todo[(j - 1) + 1]
        BY <1>2, <4>1
      <4>3. todo'[j - 1].k = "launch" /\ todo'[j - 1].g = todo'[i].g
        BY <2>1, <3>1, <4>1, <4>2
      <4>4. QED
        BY <4>1, <4>3
    <3>4. QED
      BY <3>2, <3>3
  <2>5. QED
    BY <1>1, <1>4, <1>6, <2>1, <2>3, <2>4 DEF LaunchesOK, LaunchesBy
<1>7. LaunchesOK(todo)'
  BY <1>2, <1>5, <1>6 DEF LaunchesOK, LaunchesBy
<1>8. UntakenOK'
  <2> SUFFICES ASSUME NEW m \in (taken + 1)..Len(Prefetched) PROVE native'[Prefetched[m]] = "none"
    BY DEF UntakenOK
  <2>1. /\ Prefetched \in Seq(Range(Prefetched)) /\ IsInjective(Prefetched)
        /\ (Direct \cup Restores) \cap Range(Prefetched) = {} /\ taken \in 0..Len(Prefetched)
    BY FastConstants DEF FastInv, FastShape
  <2>2. /\ m \in 1..Len(Prefetched) /\ DOMAIN Prefetched = 1..Len(Prefetched)
        /\ \A l \in 1..taken : l \in 1..Len(Prefetched) /\ l # m
    BY <2>1, LenProperties
  <2>3. Prefetched[m] \in Range(Prefetched) /\ \A l \in 1..taken : Prefetched[l] # Prefetched[m]
    BY <2>1, <2>2 DEF IsInjective, Range
  <2>4. native[Prefetched[m]] = "none" /\ Prefetched[m] \in FastGroups
    BY <1>4, <2>3 DEF UntakenOK, FastGroups
  <2>5. ~(todo[1].k = "launch" /\ todo[1].g = Prefetched[m])
    <3>1. 1 \in 1..n
      OBVIOUS
    <3>2. todo[1].k = "launch" => todo[1].g \in Direct \cup Restores \/ \E l \in 1..taken : todo[1].g = Prefetched[l]
      BY <1>1, <1>4, <3>1 DEF LaunchesOK, LaunchesBy
    <3>3. QED
      BY <2>1, <2>3, <3>2
  <2>6. QED
    BY <2>4, <2>5
<1>9. StepsOrdered(todo)'
  BY <1>2 DEF StepsOrdered
<1>10. CloseOK(todo)'
  <2>1. CloseOK(todo)
    BY DEF FastInv
  <2>2. ASSUME NEW i \in 1..(n - 1), todo'[i].k = "closeNative" PROVE ownerState' # "open"
    BY <1>1, <1>2, <2>1, <2>2 DEF CloseOK
  <2>3. QED
    BY <1>2, <2>2 DEF CloseOK
<1>11. QED
  BY <1>1, <1>2, <1>7, <1>8, <1>9, <1>10

\* The oldest group of a deque is retired, and does not run any more.
LEMMA Popped ==
  ASSUME FastInv, NEW q \in Queues, deques[q] # <<>>, Pop(q), UNCHANGED native,
         q = "owner" => native[Oldest(q)] # "running"
  PROVE  /\ deques' \in Deques /\ Oldest(q) \in FastGroups
         /\ Len(deques'.owner) <= Len(deques.owner) /\ Len(deques'.owner) <= MaxInflight
         /\ InWindow' \in Nat /\ InWindow' <= InWindow /\ InWindow' <= Slots
         /\ q \in {"pending", "consumed"} => InWindow' < Slots
         /\ \A g \in Range(deques'.pending) : native[g] # "none"
         /\ \A g \in FastGroups : native[g] = "running" /\ g \in Range(deques.owner)
                                     => g \in Range(deques'.owner)
<1>1. deques \in Deques /\ WindowOK /\ MaxInflight \in Nat /\ Slots \in Nat
  BY FastConstants DEF FastInv, FastShape
<1>2. /\ deques[q] \in Seq(FastGroups) /\ deques.owner \in Seq(FastGroups)
      /\ deques.pending \in Seq(FastGroups) /\ deques.consumed \in Seq(FastGroups)
  BY <1>1, DequeChanged DEF Deques
<1>3. PICK s : s = Tail(deques[q])
  OBVIOUS
<1>4. PICK e : e = deques'
  OBVIOUS
<1>5. s \in Seq(FastGroups) /\ e = [deques EXCEPT ![q] = s] /\ Oldest(q) \in FastGroups
  BY <1>2, <1>3, <1>4, Shorter DEF Pop, Oldest
<1>6. /\ e \in Deques
      /\ e.owner = (IF q = "owner" THEN s ELSE deques.owner)
      /\ e.pending = (IF q = "pending" THEN s ELSE deques.pending)
      /\ e.consumed = (IF q = "consumed" THEN s ELSE deques.consumed)
  <2>1. PICK d \in Deques : d = deques
    BY <1>1
  <2>2. e = [d EXCEPT ![q] = s]
    BY <1>5, <2>1
  <2>3. /\ e \in Deques
        /\ e.owner = (IF q = "owner" THEN s ELSE d.owner)
        /\ e.pending = (IF q = "pending" THEN s ELSE d.pending)
        /\ e.consumed = (IF q = "consumed" THEN s ELSE d.consumed)
    <3>1. s \in Seq(FastGroups) /\ d[q] = deques[q]
      BY <1>5, <2>1
    <3>2. CASE q = "owner"
      BY <2>2, <3>1, <3>2 DEF Deques
    <3>3. CASE q = "swap"
      BY <2>2, <3>1, <3>3 DEF Deques
    <3>4. CASE q = "pending"
      BY <2>2, <3>1, <3>4 DEF Deques
    <3>5. CASE q = "consumed"
      BY <2>2, <3>1, <3>5 DEF Deques
    <3>6. QED
      BY <3>2, <3>3, <3>4, <3>5 DEF Queues
  <2>4. QED
    BY <2>1, <2>3
<1>7. PICK n \in Nat \ {0} : n = Len(deques[q]) /\ Len(s) = n - 1
  BY <1>2, <1>3, Shorter
<1>8. PICK a \in Nat, b \in Nat, c \in Nat :
        a = Len(deques.owner) /\ b = Len(deques.pending) /\ c = Len(deques.consumed)
  BY <1>2, LenProperties
<1>9. a <= MaxInflight /\ b + c <= Slots
  BY <1>1, <1>8 DEF WindowOK, InWindow
<1>10. PICK a1 \in Nat, b1 \in Nat, c1 \in Nat :
         /\ a1 = Len(e.owner) /\ b1 = Len(e.pending) /\ c1 = Len(e.consumed)
         /\ a1 <= a /\ b1 <= b /\ c1 <= c
         /\ (q = "pending" => b1 < b) /\ (q = "consumed" => c1 < c)
  <2>1. q = "owner" => n = a
    BY <1>7, <1>8
  <2>2. q = "pending" => n = b
    BY <1>7, <1>8
  <2>3. q = "consumed" => n = c
    BY <1>7, <1>8
  <2>4. Len(e.owner) = (IF q = "owner" THEN n - 1 ELSE a)
    BY <1>6, <1>7, <1>8
  <2>5. Len(e.pending) = (IF q = "pending" THEN n - 1 ELSE b)
    BY <1>6, <1>7, <1>8
  <2>6. Len(e.consumed) = (IF q = "consumed" THEN n - 1 ELSE c)
    BY <1>6, <1>7, <1>8
  <2>7. QED
    BY <2>1, <2>2, <2>3, <2>4, <2>5, <2>6
<1>11. InWindow = b + c /\ InWindow' = b1 + c1
  BY <1>4, <1>8, <1>10 DEF InWindow
<1>12. ASSUME NEW g \in FastGroups, native[g] = "running", g \in Range(deques.owner)
       PROVE  g \in Range(e.owner)
  <2>1. CASE q = "owner"
    <3>1. g = Head(deques.owner) \/ g \in Range(s)
      BY <1>2, <1>3, <1>12, <2>1, Shorter
    <3>2. QED
      BY <1>6, <1>12, <2>1, <3>1 DEF Oldest
  <2>2. CASE q # "owner"
    BY <1>6, <1>12, <2>2
  <2>3. QED
    BY <2>1, <2>2
<1>13. a1 <= MaxInflight /\ b1 + c1 <= b + c /\ b1 + c1 <= Slots /\ (q \in {"pending", "consumed"} => b1 + c1 < Slots)
  <2>1. MaxInflight \in Nat /\ Slots \in Nat
    BY <1>1
  <2>2. QED
    <3>1. /\ a1 <= a /\ b1 <= b /\ c1 <= c
          /\ q \in {"pending", "consumed"} => b1 < b \/ c1 < c
      BY <1>10
    <3>2. a1 <= MaxInflight
      BY <1>9, <2>1, <3>1
    <3>3. b1 + c1 <= b + c /\ b1 + c1 <= Slots
      BY <1>9, <2>1, <3>1
    <3>4. q \in {"pending", "consumed"} => b1 + c1 < Slots
      BY <1>9, <2>1, <3>1
    <3>5. QED
      BY <3>2, <3>3, <3>4
<1>14. Len(deques'.owner) = a1 /\ Len(deques.owner) = a
  BY <1>4, <1>8, <1>10
<1>15. b1 + c1 \in Nat
  OBVIOUS
<1>16. \A g \in Range(e.pending) : native[g] # "none"
  <2>1. \A g \in Range(deques.pending) : native[g] # "none"
    BY <1>1 DEF WindowOK
  <2>2. q = "pending" => Range(s) \subseteq Range(deques.pending)
    BY <1>2, <1>3, Shorter
  <2>3. QED
    BY <1>6, <2>1, <2>2
<1>17. QED
  BY <1>4, <1>5, <1>6, <1>10, <1>11, <1>12, <1>13, <1>14, <1>15, <1>16

\* What a step establishes for the one that comes to the front after it.
LEMMA FrontAfter ==
  ASSUME FastInv, todo # <<>>, NextStep,
         todo[1].k \in {"retire", "checkOpen"} => ownerState' = ownerState,
         todo[1].k = "makeRoom" => Len(deques'.owner) < MaxInflight,
         todo[1].k \in {"order", "retain"} =>
           native'[todo[1].g] # "running" \/ todo[1].g \in Range(deques'.owner),
         todo[1].k = "checkOpen" => ownerState = "open"
  PROVE  FrontOK(todo)'
<1>1. PICK n \in Nat \ {0} : n = Len(todo)
  BY TodoTail
<1>2. PICK t : t = todo'
  OBVIOUS
<1>3. Len(t) = n - 1 /\ \A i \in 1..(n - 1) : t[i] = todo[i + 1] /\ i + 1 \in 1..n
  BY <1>1, <1>2, TodoTail DEF NextStep
<1>4. StepsOrdered(todo) /\ FrontOK(todo)
  BY DEF FastInv
<1>5. t # <<>> => n > 1 /\ t[1] = todo[2] /\ 2 \in 1..n
  <2>1. n = 1 => t = <<>>
    <3>1. t \in Seq(Steps)
      BY <1>2, TodoTail DEF NextStep
    <3>2. QED
      BY <1>3, <3>1, EmptySeq
  <2>2. n > 1 => 1 \in 1..(n - 1) /\ 2 \in 1..n /\ 1 + 1 = 2
    OBVIOUS
  <2>3. QED
    BY <1>3, <2>1, <2>2
<1>6. Len(t) > 1 => n > 2 /\ t[2] = todo[3] /\ t[1] = todo[2] /\ 3 \in 1..n /\ 2 \in 1..n
  <2>1. n > 2 => 1 \in 1..(n - 1) /\ 2 \in 1..(n - 1) /\ 3 \in 1..n /\ 2 \in 1..n /\ 1 + 1 = 2 /\ 2 + 1 = 3
    OBVIOUS
  <2>2. QED
    BY <1>3, <2>1
<1>7. 2 \in 1..n =>
        /\ todo[2].k = "retain" => todo[1].k = "makeRoom"
        /\ todo[2].k = "handOut" => todo[1].k \in {"order", "retain"} /\ todo[1].g = todo[2].g
        /\ todo[2].k = "launch" => todo[1].k = "retire"
  <2>1. 2 - 1 = 1 /\ 2 > 1
    OBVIOUS
  <2>2. QED
    BY <1>1, <1>4, <2>1 DEF StepsOrdered
<1>8. 3 \in 1..n /\ todo[3].k = "launch" => todo[1].k = "checkOpen"
  <2>1. 3 - 2 = 1 /\ 3 > 2
    OBVIOUS
  <2>2. QED
    BY <1>1, <1>4, <2>1 DEF StepsOrdered
<1>9. t # <<>> /\ t[1].k = "retain" => Len(deques'.owner) < MaxInflight
  BY <1>5, <1>7
<1>10. t # <<>> /\ t[1].k = "handOut" => native'[t[1].g] # "running" \/ t[1].g \in Range(deques'.owner)
  BY <1>5, <1>7
<1>11. t # <<>> /\ t[1].k = "launch" => ownerState' = "open"
  BY <1>1, <1>4, <1>5, <1>7 DEF FrontOK
<1>12. Len(t) > 1 /\ t[1].k = "retire" /\ t[2].k = "launch" => ownerState' = "open"
  BY <1>6, <1>8
<1>13. QED
  BY <1>2, <1>9, <1>10, <1>11, <1>12 DEF FrontOK

\* The step at the front stays, and what it rests on does.
LEMMA FrontStays ==
  ASSUME FastInv, UNCHANGED <<todo, ownerState>>, Len(deques'.owner) \in Nat,
         Len(deques'.owner) <= Len(deques.owner),
         \A g \in FastGroups : native'[g] = "running" => native[g] = "running",
         \A g \in FastGroups : native'[g] = "running" /\ g \in Range(deques.owner)
                                 => g \in Range(deques'.owner)
  PROVE  FrontOK(todo)'
<1>1. FrontOK(todo) /\ deques \in Deques /\ MaxInflight \in Nat
  BY FastConstants DEF FastInv, FastShape
<1>2. Len(deques.owner) \in Nat
  BY <1>1, LenProperties DEF Deques
<1>3. todo # <<>> /\ todo[1].k = "retain" => Len(deques'.owner) < MaxInflight
  BY <1>1, <1>2 DEF FrontOK
<1>4. todo # <<>> /\ todo[1].k = "handOut" => todo[1].g \in FastGroups
  BY TodoTail DEF Steps, Alone, Uses, Fills, Keeps
<1>5. todo # <<>> /\ todo[1].k = "handOut" =>
        native'[todo[1].g] # "running" \/ todo[1].g \in Range(deques'.owner)
  BY <1>1, <1>4 DEF FrontOK
<1>6. QED
  BY <1>1, <1>3, <1>5 DEF FrontOK

\* A step that launches nothing, under one owner state.
LEMMA MovesHanding ==
  ASSUME FastInv, UNCHANGED <<native, taken, ownerState, registered, op>>,
         HandedOK', handed' \in [FastGroups -> {"no", "host", "stream"}],
         \/ UNCHANGED <<finished, totals>>
         \/ \E g \in FastGroups : native[g] = "ok" /\ Finish(g),
         deques' \in Deques, Len(deques'.owner) <= MaxInflight, InWindow' <= Slots,
         \A g \in Range(deques'.pending) : native[g] # "none",
         todo' \in Seq(Steps), StepsOrdered(todo)', LaunchesOK(todo)', UntakenOK', CloseOK(todo)',
         FrontOK(todo)',
         \A i \in 1..Len(todo') : todo'[i].k \in Keeps => InWindow' < Slots
  PROVE  FastInv'
<1>1. FastShape /\ CountOK /\ HandedOK /\ ClosedOK
  BY DEF FastInv
<1>2. CountOK' /\ finished' \subseteq FastGroups /\ totals' \in [FastGroups -> Nat]
  <2>1. CASE UNCHANGED <<finished, totals>>
    BY <1>1, <2>1 DEF CountOK, FastShape
  <2>2. ASSUME NEW g \in FastGroups, native[g] = "ok", Finish(g)
        PROVE  CountOK' /\ finished' \subseteq FastGroups /\ totals' \in [FastGroups -> Nat]
    <3>1. CASE g \in finished
      BY <1>1, <2>2, <3>1 DEF CountOK, FastShape, Finish
    <3>2. CASE g \notin finished
      <4>1. /\ finished' = finished \cup {g} /\ totals' = [totals EXCEPT ![g] = @ + 1]
            /\ totals \in [FastGroups -> Nat] /\ totals[g] = 0
        BY <1>1, <2>2, <3>2 DEF Finish, CountOK, FastShape
      <4>2. totals' \in [FastGroups -> Nat] /\ totals'[g] = 1
            /\ \A h \in FastGroups \ {g} : totals'[h] = totals[h]
        BY <4>1
      <4>3. QED
        BY <1>1, <2>2, <4>1, <4>2 DEF CountOK, FastShape
    <3>3. QED
      BY <3>1, <3>2
  <2>3. QED
    BY <2>1, <2>2
<1>3. FastShape'
  BY <1>1, <1>2 DEF FastShape
<1>4. HandedOK'
  OBVIOUS
<1>5. ClosedOK'
  BY <1>1 DEF ClosedOK
<1>6. WindowOK'
  BY DEF WindowOK
<1>7. QED
  BY <1>2, <1>3, <1>4, <1>5, <1>6 DEF FastInv

\* ... and hands nothing out.
LEMMA Moves ==
  ASSUME FastInv, UNCHANGED <<native, taken, handed, ownerState, registered, op>>,
         \/ UNCHANGED <<finished, totals>>
         \/ \E g \in FastGroups : native[g] = "ok" /\ Finish(g),
         deques' \in Deques, Len(deques'.owner) <= MaxInflight, InWindow' <= Slots,
         \A g \in Range(deques'.pending) : native[g] # "none",
         \A g \in FastGroups : native[g] = "running" /\ g \in Range(deques.owner)
                                 => g \in Range(deques'.owner),
         todo' \in Seq(Steps), StepsOrdered(todo)', LaunchesOK(todo)', UntakenOK', CloseOK(todo)',
         FrontOK(todo)',
         \A i \in 1..Len(todo') : todo'[i].k \in Keeps => InWindow' < Slots
  PROVE  FastInv'
<1>1. FastShape /\ HandedOK
  BY DEF FastInv
<1>2. HandedOK' /\ handed' \in [FastGroups -> {"no", "host", "stream"}]
  BY <1>1 DEF HandedOK, FastShape
<1>3. QED
  BY <1>2, MovesHanding

LEMMA WindowStays ==
  ASSUME FastInv, UNCHANGED deques
  PROVE  /\ deques' \in Deques /\ Len(deques'.owner) \in Nat /\ Len(deques'.owner) <= MaxInflight
         /\ InWindow' = InWindow /\ InWindow' \in Nat /\ InWindow' <= Slots
         /\ \A g \in Range(deques'.pending) : native[g] # "none"
<1>1. deques \in Deques /\ WindowOK
  BY DEF FastInv, FastShape
<1>2. PICK a \in Nat, b \in Nat, c \in Nat :
        a = Len(deques.owner) /\ b = Len(deques.pending) /\ c = Len(deques.consumed)
  BY <1>1, LenProperties DEF Deques
<1>3. InWindow = b + c /\ InWindow' = InWindow
  BY <1>2 DEF InWindow
<1>4. b + c \in Nat
  OBVIOUS
<1>5. QED
  BY <1>1, <1>2, <1>3, <1>4 DEF WindowOK

\* A step that is over, and changed nothing else.
LEMMA StepDone ==
  ASSUME FastInv, todo # <<>>, NextStep,
         UNCHANGED <<native, finished, totals, deques, taken, handed, ownerState, registered, op>>,
         todo[1].k # "launch",
         todo[1].k = "makeRoom" => Len(deques.owner) < MaxInflight,
         todo[1].k \in {"order", "retain"} =>
           native[todo[1].g] # "running" \/ todo[1].g \in Range(deques.owner),
         todo[1].k = "checkOpen" => ownerState = "open"
  PROVE  FastInv'
<1>1. FrontOK(todo)'
  BY FrontAfter
<1>2. /\ LaunchesOK(todo)' /\ UntakenOK' /\ CloseOK(todo)' /\ StepsOrdered(todo)'
      /\ todo' \in Seq(Steps) /\ Len(todo) \in Nat \ {0} /\ Len(todo') = Len(todo) - 1
      /\ \A i \in 1..(Len(todo) - 1) : todo'[i] = todo[i + 1] /\ i + 1 \in 1..Len(todo)
  BY ListShrinks
<1>3. /\ deques' \in Deques /\ Len(deques'.owner) <= MaxInflight
      /\ InWindow' = InWindow /\ InWindow' <= Slots
      /\ \A g \in Range(deques'.pending) : native[g] # "none"
  BY WindowStays
<1>4. \A i \in 1..Len(todo') : todo'[i].k \in Keeps => InWindow' < Slots
  BY <1>2, <1>3 DEF FastInv, WindowOK
<1>5. QED
  BY <1>1, <1>2, <1>3, <1>4, Moves

\* A completed group leaves a deque.
LEMMA Popping ==
  ASSUME FastInv, NEW q \in Queues, deques[q] # <<>>, Pop(q),
         native[Oldest(q)] = "ok", Finish(Oldest(q)),
         UNCHANGED <<todo, native, taken, handed, ownerState, registered, op>>
  PROVE  FastInv'
<1>1. /\ deques' \in Deques /\ Oldest(q) \in FastGroups
      /\ Len(deques'.owner) <= Len(deques.owner) /\ Len(deques'.owner) <= MaxInflight
      /\ InWindow' \in Nat /\ InWindow' <= InWindow /\ InWindow' <= Slots
      /\ \A g \in Range(deques'.pending) : native[g] # "none"
      /\ \A g \in FastGroups : native[g] = "running" /\ g \in Range(deques.owner)
                                  => g \in Range(deques'.owner)
  BY Popped
<1>2. LaunchesOK(todo)' /\ UntakenOK' /\ CloseOK(todo)' /\ StepsOrdered(todo)'
  <2>1. NoLaunch
    BY DEF NoLaunch
  <2>2. QED
    BY <2>1, ListStays
<1>3. Len(deques'.owner) \in Nat
  BY <1>1, LenProperties DEF Deques
<1>4. FrontOK(todo)'
  BY <1>1, <1>3, FrontStays
<1>5. \A i \in 1..Len(todo') : todo'[i].k \in Keeps => InWindow' < Slots
  <2>1. InWindow \in Nat /\ Slots \in Nat
    <3>1. PICK b \in Nat, c \in Nat : b = Len(deques.pending) /\ c = Len(deques.consumed)
      BY LenProperties DEF FastInv, FastShape, Deques
    <3>2. InWindow = b + c
      BY <3>1 DEF InWindow
    <3>3. b + c \in Nat
      OBVIOUS
    <3>4. QED
      BY <3>2, <3>3, FastConstants
  <2>2. \A i \in 1..Len(todo) : todo[i].k \in Keeps => InWindow < Slots
    BY DEF FastInv, WindowOK
  <2>3. InWindow < Slots => InWindow' < Slots
    BY <1>1, <2>1
  <2>4. QED
    BY <2>2, <2>3
<1>6. todo' \in Seq(Steps)
  BY DEF FastInv, FastShape
<1>7. QED
  BY <1>1, <1>2, <1>4, <1>5, <1>6, Moves

\* A failure leaves the method; it may have left a deque before.
LEMMA Raising ==
  ASSUME FastInv, Raise,
         UNCHANGED <<native, finished, totals, taken, handed, ownerState, registered, op>>,
         \/ UNCHANGED deques
         \/ \E q \in Queues : deques[q] # <<>> /\ Pop(q) /\ native[Oldest(q)] = "failed"
  PROVE  FastInv'
<1>1. /\ LaunchesOK(todo)' /\ UntakenOK' /\ CloseOK(todo)' /\ StepsOrdered(todo)' /\ FrontOK(todo)'
      /\ todo' \in Seq(Steps) /\ \A i \in 1..Len(todo') : todo'[i].k = "closeNative"
  <2>1. NoLaunch
    BY DEF NoLaunch
  <2>2. QED
    BY <2>1, ListEnds
<1>2. /\ deques' \in Deques /\ Len(deques'.owner) <= MaxInflight /\ InWindow' <= Slots
      /\ \A g \in Range(deques'.pending) : native[g] # "none"
      /\ \A g \in FastGroups : native[g] = "running" /\ g \in Range(deques.owner)
                                  => g \in Range(deques'.owner)
  <2>1. CASE UNCHANGED deques
    BY <2>1, WindowStays
  <2>2. CASE \E q \in Queues : deques[q] # <<>> /\ Pop(q) /\ native[Oldest(q)] = "failed"
    BY <2>2, Popped
  <2>3. QED
    BY <2>1, <2>2
<1>3. \A i \in 1..Len(todo') : todo'[i].k \in Keeps => InWindow' < Slots
  BY <1>1 DEF Keeps
<1>4. QED
  BY <1>1, <1>2, <1>3, Moves

\* _retire and done(): what is known to be complete leaves its deque.
LEMMA PollKeeps ==
  ASSUME FastInv, NEW q \in Queues, NEW k \in {"retire", "retireSwap"}, Poll(k, q)
  PROVE  FastInv'
<1>1. /\ todo # <<>> /\ todo[1].k = k
      /\ UNCHANGED <<native, taken, handed, ownerState, registered, op>>
  BY TodoTail DEF Poll, Doing, stateVars, opVars
<1>2. CASE NextStep /\ UNCHANGED <<finished, totals, deques>>
  <2>1. todo[1].k \notin {"launch", "makeRoom", "order", "retain", "checkOpen"}
    BY <1>1
  <2>2. QED
    BY <1>1, <1>2, <2>1, StepDone
<1>3. CASE deques[q] # <<>> /\ native[Oldest(q)] = "ok" /\ Finish(Oldest(q)) /\ Pop(q) /\ UNCHANGED todo
  BY <1>1, <1>3, Popping
<1>4. CASE Raise /\ UNCHANGED <<finished, totals, deques>>
  BY <1>1, <1>4, Raising
<1>5. QED
  BY <1>2, <1>3, <1>4 DEF Poll

\* The loops that wait for the oldest groups of a deque.
LEMMA BlockKeeps ==
  ASSUME FastInv, NEW q \in Queues, NEW keep \in Nat,
         NEW k \in {"makeRoom", "drainOwner", "drainSwap", "drainPending", "drainConsumed"}, Block(k, q, keep),
         k = "makeRoom" => q = "owner" /\ keep = MaxInflight - 1
  PROVE  FastInv'
<1>1. /\ todo # <<>> /\ todo[1].k = k
      /\ UNCHANGED <<native, taken, handed, ownerState, registered, op>>
  BY TodoTail DEF Block, Doing, stateVars, opVars
<1>2. Len(deques[q]) \in Nat /\ (Len(deques[q]) > keep => deques[q] # <<>>)
  <2>1. deques[q] \in Seq(FastGroups)
    BY DEF FastInv, FastShape, Deques, Queues
  <2>2. QED
    BY <2>1, LenProperties, EmptySeq
<1>3. CASE Len(deques[q]) <= keep /\ NextStep /\ UNCHANGED <<finished, totals, deques>>
  <2>1. todo[1].k \notin {"launch", "order", "retain", "checkOpen"}
    BY <1>1
  <2>2. todo[1].k = "makeRoom" => Len(deques.owner) < MaxInflight
    <3>1. MaxInflight \in Nat
      BY FastConstants
    <3>2. QED
      BY <1>1, <1>2, <1>3, <3>1
  <2>3. QED
    BY <1>1, <1>3, <2>1, <2>2, StepDone
<1>4. CASE Len(deques[q]) > keep /\ native[Oldest(q)] = "ok" /\ Finish(Oldest(q)) /\ Pop(q) /\ UNCHANGED todo
  BY <1>1, <1>2, <1>4, Popping
<1>5. CASE Len(deques[q]) > keep /\ native[Oldest(q)] = "failed" /\ Pop(q) /\ Raise /\ UNCHANGED <<finished, totals>>
  BY <1>1, <1>2, <1>5, Raising
<1>6. QED
  BY <1>3, <1>4, <1>5 DEF Block

\* The step at the front uses a group that was launched.
LEMMA HeadUsed ==
  ASSUME FastInv, todo # <<>>, todo[1].k \in Uses
  PROVE  todo[1].g \in FastGroups /\ native[todo[1].g] # "none"
<1>1. todo[1] \in Steps /\ Len(todo) \in Nat \ {0} /\ LaunchesOK(todo)
  BY TodoTail DEF FastInv
<1>2. todo[1].g \in FastGroups
  BY <1>1 DEF Steps, Alone, Uses, Keeps, Fills
<1>3. 1 \in 1..Len(todo) /\ 1..(1 - 1) = {}
  BY <1>1
<1>4. QED
  BY <1>1, <1>2, <1>3 DEF LaunchesOK, LaunchesBy

LEMMA CheckOpenKeeps == ASSUME FastInv, CheckOpen PROVE FastInv'
<1>1. /\ todo # <<>> /\ todo[1].k = "checkOpen"
      /\ UNCHANGED <<native, finished, totals, deques, taken, handed, ownerState, registered, op>>
  BY TodoTail DEF CheckOpen, Doing, stateVars, opVars
<1>2. CASE ownerState = "open" /\ NextStep
  <2>1. todo[1].k \notin {"launch", "makeRoom", "order", "retain"}
    BY <1>1
  <2>2. QED
    BY <1>1, <1>2, <2>1, StepDone
<1>3. CASE Raise
  BY <1>1, <1>3, Raising
<1>4. QED
  BY <1>2, <1>3 DEF CheckOpen

\* A list whose first step is done, and a window that did not grow.
LEMMA RestKeeps ==
  ASSUME FastInv, todo # <<>>, NextStep, UNCHANGED deques
  PROVE  \A i \in 1..Len(todo') : todo'[i].k \in Keeps => InWindow' < Slots
<1>1. /\ Len(todo) \in Nat \ {0} /\ Len(todo') = Len(todo) - 1
      /\ \A i \in 1..(Len(todo) - 1) : todo'[i] = todo[i + 1] /\ i + 1 \in 1..Len(todo)
  BY TodoTail DEF NextStep
<1>2. InWindow' = InWindow
  BY WindowStays
<1>3. QED
  BY <1>1, <1>2 DEF FastInv, WindowOK

\* FastCompletion.wait: the group's copies succeeded when it returns.
LEMMA WaitKeeps == ASSUME FastInv, Wait PROVE FastInv'
<1>1. /\ todo # <<>> /\ todo[1].k = "wait" /\ Head(todo) = todo[1]
      /\ UNCHANGED <<native, deques, taken, ownerState, registered, op>>
  BY TodoTail DEF Wait, Doing, stateVars, opVars
<1>2. PICK g \in FastGroups : g = todo[1].g
  BY <1>1, HeadUsed DEF Uses
<1>3. CASE native[g] = "ok" /\ Finish(g) /\ handed' = [handed EXCEPT ![g] = "host"] /\ NextStep
  <2>1. handed \in [FastGroups -> {"no", "host", "stream"}] /\ HandedOK
    BY DEF FastInv, FastShape
  <2>2. handed' \in [FastGroups -> {"no", "host", "stream"}] /\ handed'[g] = "host"
        /\ \A h \in FastGroups \ {g} : handed'[h] = handed[h]
    BY <1>3, <2>1
  <2>3. HandedOK'
    BY <1>1, <1>3, <2>1, <2>2 DEF HandedOK
  <2>4. FrontOK(todo)'
    BY <1>1, <1>3, FrontAfter
  <2>5. /\ LaunchesOK(todo)' /\ UntakenOK' /\ CloseOK(todo)' /\ StepsOrdered(todo)' /\ todo' \in Seq(Steps)
    BY <1>1, <1>3, ListShrinks
  <2>6. \A i \in 1..Len(todo') : todo'[i].k \in Keeps => InWindow' < Slots
    BY <1>1, <1>3, RestKeeps
  <2>7. QED
    BY <1>1, <1>3, <2>2, <2>3, <2>4, <2>5, <2>6, WindowStays, MovesHanding
<1>4. CASE Raise /\ UNCHANGED <<finished, totals, handed>>
  BY <1>1, <1>4, Raising
<1>5. QED
  BY <1>1, <1>2, <1>3, <1>4 DEF Wait

\* Stream outputs are handed out of a group that ended or is retained.
LEMMA HandOutKeeps == ASSUME FastInv, HandOut PROVE FastInv'
<1>1. /\ todo # <<>> /\ todo[1].k = "handOut" /\ Head(todo) = todo[1] /\ NextStep
      /\ UNCHANGED <<native, finished, totals, deques, taken, ownerState, registered, op>>
      /\ handed' = [handed EXCEPT ![Head(todo).g] = "stream"]
  BY TodoTail DEF HandOut, Doing, stateVars, opVars
<1>2. PICK g \in FastGroups : g = todo[1].g /\ native[g] # "none"
  BY <1>1, HeadUsed DEF Uses
<1>3. native[g] # "running" \/ g \in Range(deques.owner)
  BY <1>1, <1>2 DEF FastInv, FrontOK
<1>4. handed \in [FastGroups -> {"no", "host", "stream"}] /\ HandedOK
  BY DEF FastInv, FastShape
<1>5. handed' \in [FastGroups -> {"no", "host", "stream"}] /\ handed'[g] = "stream"
      /\ \A h \in FastGroups \ {g} : handed'[h] = handed[h]
  BY <1>1, <1>2, <1>4
<1>6. HandedOK'
  BY <1>1, <1>2, <1>3, <1>4, <1>5 DEF HandedOK
<1>7. FrontOK(todo)'
  BY <1>1, FrontAfter
<1>8. /\ LaunchesOK(todo)' /\ UntakenOK' /\ CloseOK(todo)' /\ StepsOrdered(todo)' /\ todo' \in Seq(Steps)
  BY <1>1, ListShrinks
<1>9. \A i \in 1..Len(todo') : todo'[i].k \in Keeps => InWindow' < Slots
  BY <1>1, RestKeeps
<1>10. QED
  BY <1>1, <1>5, <1>6, <1>7, <1>8, <1>9, WindowStays, MovesHanding

\* A group enters a deque.
LEMMA Pushed ==
  ASSUME FastInv, NEW q \in Queues, NEW g \in FastGroups, native[g] # "none",
         deques' = [deques EXCEPT ![q] = Append(@, g)]
  PROVE  /\ deques' \in Deques /\ Len(deques'.owner) \in Nat /\ Len(deques.owner) \in Nat
         /\ Len(deques'.owner) = (IF q = "owner" THEN Len(deques.owner) + 1 ELSE Len(deques.owner))
         /\ InWindow \in Nat
         /\ InWindow' = (IF q \in {"pending", "consumed"} THEN InWindow + 1 ELSE InWindow)
         /\ Range(deques.owner) \subseteq Range(deques'.owner)
         /\ q = "owner" => g \in Range(deques'.owner)
         /\ \A h \in Range(deques'.pending) : native[h] # "none"
<1>1. deques \in Deques /\ \A h \in Range(deques.pending) : native[h] # "none"
  BY DEF FastInv, FastShape, WindowOK
<1>2. /\ deques[q] \in Seq(FastGroups) /\ deques.owner \in Seq(FastGroups)
      /\ deques.pending \in Seq(FastGroups) /\ deques.consumed \in Seq(FastGroups)
  BY <1>1 DEF Deques, Queues
<1>3. PICK s : s = Append(deques[q], g)
  OBVIOUS
<1>4. PICK e : e = deques'
  OBVIOUS
<1>5. PICK d \in Deques : d = deques
  BY <1>1
<1>6. /\ s \in Seq(FastGroups) /\ Len(s) = Len(d[q]) + 1 /\ g \in Range(s)
      /\ Range(d[q]) \subseteq Range(s) /\ Range(s) \subseteq Range(d[q]) \cup {g}
  BY <1>2, <1>3, <1>5, Longer
<1>7. e = [d EXCEPT ![q] = s]
  BY <1>3, <1>4, <1>5
<1>8. /\ e \in Deques
      /\ e.owner = (IF q = "owner" THEN s ELSE d.owner)
      /\ e.pending = (IF q = "pending" THEN s ELSE d.pending)
      /\ e.consumed = (IF q = "consumed" THEN s ELSE d.consumed)
  <2>1. CASE q = "owner"
    BY <1>6, <1>7, <2>1 DEF Deques
  <2>2. CASE q = "swap"
    BY <1>6, <1>7, <2>2 DEF Deques
  <2>3. CASE q = "pending"
    BY <1>6, <1>7, <2>3 DEF Deques
  <2>4. CASE q = "consumed"
    BY <1>6, <1>7, <2>4 DEF Deques
  <2>5. QED
    BY <2>1, <2>2, <2>3, <2>4 DEF Queues
<1>9. PICK a \in Nat, b \in Nat, c \in Nat :
        a = Len(d.owner) /\ b = Len(d.pending) /\ c = Len(d.consumed)
  BY <1>2, <1>5, LenProperties
<1>10. /\ Len(e.owner) = (IF q = "owner" THEN a + 1 ELSE a)
       /\ Len(e.pending) = (IF q = "pending" THEN b + 1 ELSE b)
       /\ Len(e.consumed) = (IF q = "consumed" THEN c + 1 ELSE c)
  BY <1>6, <1>8, <1>9
<1>11. InWindow = b + c
  BY <1>5, <1>9 DEF InWindow
<1>12. InWindow' = Len(e.pending) + Len(e.consumed)
  BY <1>4 DEF InWindow
<1>13. InWindow' = IF q \in {"pending", "consumed"} THEN (b + c) + 1 ELSE b + c
  <2>1. CASE q = "pending"
    BY <1>10, <1>12, <2>1
  <2>2. CASE q = "consumed"
    BY <1>10, <1>12, <2>2
  <2>3. CASE q \notin {"pending", "consumed"}
    BY <1>10, <1>12, <2>3
  <2>4. QED
    BY <2>1, <2>2, <2>3
<1>14. b + c \in Nat /\ a \in Nat /\ a + 1 \in Nat
  OBVIOUS
<1>15. Range(d.owner) \subseteq Range(e.owner) /\ (q = "owner" => g \in Range(e.owner))
  BY <1>6, <1>8
<1>16. \A h \in Range(e.pending) : native[h] # "none"
  BY <1>1, <1>5, <1>6, <1>8
<1>17. /\ Len(e.owner) \in Nat /\ Len(d.owner) \in Nat
       /\ Len(e.owner) = (IF q = "owner" THEN Len(d.owner) + 1 ELSE Len(d.owner))
  BY <1>9, <1>10, <1>14
<1>18. InWindow \in Nat /\ InWindow' = (IF q \in {"pending", "consumed"} THEN InWindow + 1 ELSE InWindow)
  BY <1>11, <1>13, <1>14
<1>19. QED
  BY <1>4, <1>5, <1>8, <1>15, <1>16, <1>17, <1>18

\* The deques that share a completion: each has room for it.
LEMMA PushKeeps ==
  ASSUME FastInv, NEW q \in Queues, NEW k \in {"retain", "keepRestored"} \cup Keeps, Push(k, q),
         q = "owner" <=> k = "retain", q \in {"pending", "consumed"} <=> k \in Keeps
  PROVE  FastInv'
<1>1. /\ todo # <<>> /\ todo[1].k = k /\ Head(todo) = todo[1] /\ NextStep
      /\ UNCHANGED <<native, finished, totals, taken, handed, ownerState, registered, op>>
  BY TodoTail DEF Push, Doing, stateVars, opVars
<1>2. k \in Uses /\ k \notin {"launch", "makeRoom", "order", "checkOpen"}
  BY DEF Uses, Keeps
<1>3. PICK g \in FastGroups : g = todo[1].g /\ native[g] # "none"
  BY <1>1, <1>2, HeadUsed
<1>4. deques' = [deques EXCEPT ![q] = Append(@, g)]
  BY <1>1, <1>3 DEF Push
<1>5. /\ deques' \in Deques /\ Len(deques'.owner) \in Nat /\ Len(deques.owner) \in Nat
      /\ Len(deques'.owner) = (IF q = "owner" THEN Len(deques.owner) + 1 ELSE Len(deques.owner))
      /\ InWindow \in Nat
      /\ InWindow' = (IF q \in {"pending", "consumed"} THEN InWindow + 1 ELSE InWindow)
      /\ Range(deques.owner) \subseteq Range(deques'.owner)
      /\ q = "owner" => g \in Range(deques'.owner)
      /\ \A h \in Range(deques'.pending) : native[h] # "none"
  BY <1>3, <1>4, Pushed
<1>6. MaxInflight \in Nat /\ Slots \in Nat /\ WindowOK /\ FrontOK(todo) /\ StepsOrdered(todo)
  BY FastConstants DEF FastInv
<1>7. FrontOK(todo)'
  BY <1>1, <1>2, <1>3, <1>5, FrontAfter
<1>8. /\ LaunchesOK(todo)' /\ UntakenOK' /\ CloseOK(todo)' /\ StepsOrdered(todo)' /\ todo' \in Seq(Steps)
      /\ Len(todo) \in Nat \ {0} /\ Len(todo') = Len(todo) - 1
      /\ \A i \in 1..(Len(todo) - 1) : todo'[i] = todo[i + 1] /\ i + 1 \in 1..Len(todo)
  BY <1>1, <1>2, ListShrinks
<1>9. Len(deques'.owner) <= MaxInflight
  <2>1. CASE q = "owner"
    <3>1. Len(deques.owner) < MaxInflight
      BY <1>1, <1>6, <2>1 DEF FrontOK
    <3>2. QED
      BY <1>5, <1>6, <2>1, <3>1
  <2>2. CASE q # "owner"
    BY <1>5, <1>6, <2>2 DEF WindowOK
  <2>3. QED
    BY <2>1, <2>2
<1>10. InWindow' <= Slots /\ \A i \in 1..Len(todo') : todo'[i].k \in Keeps => InWindow' < Slots
  <2>1. CASE k \in Keeps
    <3>1. 1 \in 1..Len(todo)
      BY <1>8
    <3>2. InWindow < Slots /\ InWindow' = InWindow + 1
      BY <1>1, <1>5, <1>6, <2>1, <3>1 DEF WindowOK
    <3>3. \A i \in 1..Len(todo') : todo'[i].k \notin Keeps
      <4>1. ASSUME NEW i \in 1..(Len(todo) - 1) PROVE todo'[i].k \notin Keeps
        <5>1. i + 1 \in 1..Len(todo) /\ 1 \in 1..((i + 1) - 1) /\ todo'[i] = todo[i + 1]
          BY <1>8
        <5>2. PICK m \in 1..Len(todo) : m = i + 1
          BY <5>1
        <5>3. todo[m].k \notin Keeps
          BY <1>1, <1>6, <2>1, <5>1, <5>2 DEF StepsOrdered
        <5>4. QED
          BY <5>1, <5>2, <5>3
      <4>2. QED
        BY <1>8, <4>1
    <3>4. QED
      BY <1>5, <1>6, <3>2, <3>3
  <2>2. CASE k \notin Keeps
    <3>1. InWindow' = InWindow
      BY <1>5, <2>2
    <3>2. QED
      BY <1>6, <1>8, <3>1 DEF WindowOK
  <2>3. QED
    BY <2>1, <2>2
<1>11. QED
  BY <1>1, <1>5, <1>7, <1>8, <1>9, <1>10, Moves

\* One native submission, or its refusal.
LEMMA LaunchKeeps == ASSUME FastInv, Launch PROVE FastInv'
<1>1. /\ todo # <<>> /\ todo[1].k = "launch" /\ Head(todo) = todo[1] /\ todo[1] \in Steps
      /\ Len(todo) \in Nat \ {0}
      /\ UNCHANGED <<finished, totals, deques, taken, handed, ownerState, registered, op>>
  BY TodoTail DEF Launch, Doing, stateVars, opVars
<1>2. CASE NextStep /\ native' = [native EXCEPT ![Head(todo).g] = "running"]
  <2>1. /\ native \in [FastGroups -> {"none", "running", "ok", "failed"}] /\ CountOK /\ HandedOK
        /\ LaunchesOK(todo) /\ FrontOK(todo) /\ WindowOK /\ ClosedOK /\ FastShape
    BY DEF FastInv, FastShape
  <2>2. PICK g \in FastGroups : g = todo[1].g
    BY <1>1 DEF Steps, Alone, Fills
  <2>3. native[g] = "none"
    <3>1. 1 \in 1..Len(todo)
      BY <1>1
    <3>2. QED
      BY <1>1, <2>1, <2>2, <3>1 DEF LaunchesOK, LaunchesBy
  <2>4. ownerState = "open"
    BY <1>1, <2>1 DEF FrontOK
  <2>5. /\ native' \in [FastGroups -> {"none", "running", "ok", "failed"}]
        /\ native'[g] = "running" /\ \A h \in FastGroups \ {g} : native'[h] = native[h]
    BY <1>1, <1>2, <2>1, <2>2
  <2>6. /\ LaunchesOK(todo)' /\ UntakenOK' /\ CloseOK(todo)' /\ StepsOrdered(todo)' /\ todo' \in Seq(Steps)
    BY <1>1, <1>2, <2>2, <2>3, <2>5, ListShrinks
  <2>7. FrontOK(todo)'
    BY <1>1, <1>2, FrontAfter
  <2>8. CountOK'
    BY <1>1, <2>1, <2>3, <2>5 DEF CountOK, FastShape
  <2>9. HandedOK'
    BY <1>1, <2>1, <2>3, <2>5 DEF HandedOK
  <2>10. ClosedOK'
    BY <1>1, <2>1, <2>4 DEF ClosedOK
  <2>11. FastShape'
    BY <1>1, <2>1, <2>5, <2>6 DEF FastShape
  <2>12. WindowOK'
    <3>1. \A i \in 1..Len(todo') : todo'[i].k \in Keeps => InWindow' < Slots
      BY <1>1, <1>2, RestKeeps
    <3>2. /\ Len(deques'.owner) <= MaxInflight /\ InWindow' <= Slots
          /\ \A h \in Range(deques'.pending) : native[h] # "none"
      BY <1>1, WindowStays
    <3>3. \A h \in Range(deques'.pending) : native'[h] # "none"
      <4>1. deques'.pending \in Seq(FastGroups)
        BY <2>11 DEF FastShape, Deques
      <4>2. \A h \in Range(deques'.pending) : h \in FastGroups
        <5>1. DOMAIN deques'.pending = 1..Len(deques'.pending)
              /\ \A i \in 1..Len(deques'.pending) : deques'.pending[i] \in FastGroups
          BY <4>1, LenProperties, ElementOfSeq
        <5>2. QED
          BY <5>1 DEF Range
      <4>3. QED
        BY <2>5, <3>2, <4>2
    <3>4. QED
      BY <3>1, <3>2, <3>3 DEF WindowOK
  <2>13. QED
    BY <2>6, <2>7, <2>8, <2>9, <2>10, <2>11, <2>12 DEF FastInv
<1>3. CASE Raise /\ UNCHANGED native
  BY <1>1, <1>3, Raising
<1>4. QED
  BY <1>2, <1>3 DEF Launch

\* The GPU completes or fails a group.
LEMMA CompletesKeeps == ASSUME FastInv, NEW g \in FastGroups, Completes(g) PROVE FastInv'
<1>1. /\ native \in [FastGroups -> {"none", "running", "ok", "failed"}] /\ CountOK /\ HandedOK
      /\ WindowOK /\ ClosedOK /\ FastShape /\ todo \in Seq(Steps)
  BY DEF FastInv, FastShape
<1>2. /\ UNCHANGED <<todo, finished, totals, deques, taken, handed, ownerState, registered, op>>
      /\ native[g] = "running"
  BY DEF Completes, stateVars, opVars
<1>3. /\ native' \in [FastGroups -> {"none", "running", "ok", "failed"}]
      /\ native'[g] \in {"ok", "failed"} /\ \A h \in FastGroups \ {g} : native'[h] = native[h]
  BY <1>1 DEF Completes
<1>4. NoLaunch
  BY <1>2, <1>3 DEF NoLaunch
<1>5. /\ LaunchesOK(todo)' /\ UntakenOK' /\ CloseOK(todo)' /\ StepsOrdered(todo)'
  BY <1>2, <1>4, ListStays
<1>6. Len(deques'.owner) \in Nat /\ Len(deques'.owner) <= Len(deques.owner)
  <2>1. PICK n \in Nat : n = Len(deques.owner)
    BY <1>1, LenProperties DEF FastShape, Deques
  <2>2. n <= n
    OBVIOUS
  <2>3. QED
    BY <1>2, <2>1, <2>2
<1>7. FrontOK(todo)'
  BY <1>2, <1>3, <1>6, FrontStays
<1>8. CountOK'
  BY <1>1, <1>2, <1>3 DEF CountOK, FastShape
<1>9. HandedOK'
  BY <1>1, <1>2, <1>3 DEF HandedOK
<1>10. ClosedOK'
  BY <1>1, <1>2, <1>3 DEF ClosedOK
<1>11. FastShape'
  BY <1>1, <1>2, <1>3 DEF FastShape
<1>12. WindowOK'
  <2>1. /\ Len(deques'.owner) <= MaxInflight /\ InWindow' <= Slots /\ InWindow' = InWindow
        /\ \A h \in Range(deques'.pending) : native[h] # "none"
    BY <1>2, WindowStays
  <2>2. \A h : native[h] # "none" /\ h \in FastGroups => native'[h] # "none"
    BY <1>3
  <2>3. \A h \in Range(deques'.pending) : h \in FastGroups
    <3>1. deques'.pending \in Seq(FastGroups)
      BY <1>11 DEF FastShape, Deques
    <3>2. DOMAIN deques'.pending = 1..Len(deques'.pending)
          /\ \A i \in 1..Len(deques'.pending) : deques'.pending[i] \in FastGroups
      BY <3>1, LenProperties, ElementOfSeq
    <3>3. QED
      BY <3>2 DEF Range
  <2>4. \A i \in 1..Len(todo') : todo'[i].k \in Keeps => InWindow' < Slots
    BY <1>1, <1>2, <2>1 DEF WindowOK
  <2>5. QED
    BY <2>1, <2>2, <2>3, <2>4 DEF WindowOK
<1>13. QED
  BY <1>5, <1>7, <1>8, <1>9, <1>10, <1>11, <1>12 DEF FastInv

\* A list that stays under an unchanged window.
LEMMA ListAndWindowStay ==
  ASSUME FastInv, UNCHANGED <<todo, native, deques, taken, ownerState>>
  PROVE  /\ LaunchesOK(todo)' /\ UntakenOK' /\ CloseOK(todo)' /\ StepsOrdered(todo)'
         /\ FrontOK(todo)' /\ todo' \in Seq(Steps) /\ deques' \in Deques
         /\ \A i \in 1..Len(todo') : todo'[i].k \in Keeps => InWindow' < Slots
<1>1. NoLaunch
  BY DEF NoLaunch
<1>2. /\ LaunchesOK(todo)' /\ UntakenOK' /\ CloseOK(todo)' /\ StepsOrdered(todo)'
  BY <1>1, ListStays
<1>3. FrontOK(todo)' /\ todo' \in Seq(Steps) /\ deques' \in Deques
  BY DEF FastInv, FrontOK, FastShape
<1>4. \A i \in 1..Len(todo') : todo'[i].k \in Keeps => InWindow' < Slots
  BY WindowStays DEF FastInv, WindowOK
<1>5. QED
  BY <1>2, <1>3, <1>4

LEMMA DoneKeeps == ASSUME FastInv, NEW g \in FastGroups, DirectDone(g) PROVE FastInv'
<1>1. /\ UNCHANGED <<todo, native, deques, taken, handed, ownerState, registered, op>>
      /\ native[g] = "ok" /\ Finish(g)
  BY DEF DirectDone, stateVars, opVars
<1>2. /\ deques' \in Deques /\ Len(deques'.owner) <= MaxInflight /\ InWindow' <= Slots
      /\ \A h \in Range(deques'.pending) : native[h] # "none"
  BY <1>1, WindowStays
<1>3. /\ LaunchesOK(todo)' /\ UntakenOK' /\ CloseOK(todo)' /\ StepsOrdered(todo)'
      /\ FrontOK(todo)' /\ todo' \in Seq(Steps)
      /\ \A i \in 1..Len(todo') : todo'[i].k \in Keeps => InWindow' < Slots
  BY <1>1, ListAndWindowStay
<1>4. QED
  BY <1>1, <1>2, <1>3, Moves

\* The native resources are freed once nothing runs on them.
LEMMA CloseNativeKeeps == ASSUME FastInv, CloseNative PROVE FastInv'
<1>1. /\ todo # <<>> /\ todo[1].k = "closeNative" /\ NextStep /\ Len(todo) \in Nat \ {0}
      /\ UNCHANGED <<native, finished, totals, deques, taken, handed, registered, op>>
      /\ ownerState' = "closed" /\ op # "executing" /\ \A g \in FastGroups : native[g] # "running"
  BY TodoTail DEF CloseNative, Doing, opVars
<1>2. ownerState # "open"
  <2>1. 1 \in 1..Len(todo)
    BY <1>1
  <2>2. QED
    BY <1>1, <2>1 DEF FastInv, CloseOK
<1>3. /\ LaunchesOK(todo)' /\ UntakenOK' /\ CloseOK(todo)' /\ StepsOrdered(todo)' /\ todo' \in Seq(Steps)
  BY <1>1, ListShrinks
<1>4. FrontOK(todo)'
  BY <1>1, FrontAfter
<1>5. FastShape /\ CountOK /\ HandedOK /\ ClosedOK
  BY DEF FastInv
<1>6. FastShape' /\ CountOK' /\ HandedOK'
  BY <1>1, <1>3, <1>5 DEF FastShape, CountOK, HandedOK
<1>7. ClosedOK'
  BY <1>1, <1>2, <1>5 DEF ClosedOK
<1>8. WindowOK'
  <2>1. \A i \in 1..Len(todo') : todo'[i].k \in Keeps => InWindow' < Slots
    BY <1>1, RestKeeps
  <2>2. /\ Len(deques'.owner) <= MaxInflight /\ InWindow' <= Slots
        /\ \A h \in Range(deques'.pending) : native[h] # "none"
    BY <1>1, WindowStays
  <2>3. QED
    BY <1>1, <2>1, <2>2 DEF WindowOK
<1>9. QED
  BY <1>3, <1>4, <1>6, <1>7, <1>8 DEF FastInv

\* Handles are resolved and programs execute only under an open owner.
LEMMA OpKeeps ==
  ASSUME FastInv,
         \/ Prepare \/ OpExecute \/ OpEnds
         \/ \E p \in Programs : Register(p) \/ Collected(p) \/ Lookup(p)
  PROVE  FastInv'
<1>1. UNCHANGED <<todo, native, finished, totals, deques, taken, handed, ownerState>>
  BY DEF Prepare, OpExecute, OpEnds, Register, Collected, Lookup, OpUnchanged, stateVars
<1>2. FastShape /\ CountOK /\ HandedOK /\ ClosedOK
  BY DEF FastInv
<1>3. ClosedOK'
  <2>1. ownerState # "open" => registered' = {}
    BY <1>2 DEF ClosedOK, Prepare, OpExecute, OpEnds, Register, Collected, Lookup
  <2>2. ownerState = "closed" => op' # "executing"
    BY <1>2 DEF ClosedOK, Prepare, OpExecute, OpEnds, Register, Collected, Lookup
  <2>3. QED
    BY <1>1, <1>2, <2>1, <2>2 DEF ClosedOK
<1>4. FastShape' /\ CountOK' /\ HandedOK'
  BY <1>1, <1>2 DEF FastShape, CountOK, HandedOK
<1>5. /\ LaunchesOK(todo)' /\ UntakenOK' /\ CloseOK(todo)' /\ StepsOrdered(todo)'
      /\ FrontOK(todo)'
      /\ \A i \in 1..Len(todo') : todo'[i].k \in Keeps => InWindow' < Slots
  BY <1>1, ListAndWindowStay
<1>6. WindowOK'
  BY <1>1, <1>5, WindowStays DEF WindowOK
<1>7. QED
  BY <1>3, <1>4, <1>5, <1>6 DEF FastInv

-----------------------------------------------------------------------------
\* The steps of a method that begins.
NewList(s) ==
  /\ s \in Seq(Steps) /\ StepsOrdered(s) /\ LaunchesOK(s) /\ CloseOK(s) /\ FrontOK(s)
  /\ \A i \in 1..Len(s) : s[i].k \notin Keeps

LEMMA Begins ==
  ASSUME FastInv, NEW s, todo' = s, NewList(s),
         UNCHANGED <<native, finished, totals, deques, taken, handed, ownerState, registered, op>>
  PROVE  FastInv'
<1>1. StepsOrdered(todo)' /\ LaunchesOK(todo)' /\ CloseOK(todo)' /\ FrontOK(todo)' /\ todo' \in Seq(Steps)
  BY DEF NewList, StepsOrdered, LaunchesOK, LaunchesBy, CloseOK, FrontOK
<1>2. UntakenOK'
  BY DEF FastInv, UntakenOK
<1>3. \A i \in 1..Len(todo') : todo'[i].k \in Keeps => InWindow' < Slots
  BY DEF NewList
<1>4. QED
  BY <1>1, <1>2, <1>3, WindowStays, Moves

\* Steps that neither launch nor depend on the one before them.
LEMMA PlainList ==
  ASSUME NEW s \in Seq(Steps),
         \A i \in 1..Len(s) :
           /\ s[i].k \notin {"retain", "handOut", "launch", "closeNative"} \cup Keeps
           /\ s[i].k \in Uses => native[s[i].g] # "none"
  PROVE  NewList(s)
<1>1. Len(s) \in Nat /\ (s # <<>> => 1 \in 1..Len(s)) /\ (Len(s) > 1 => 2 \in 1..Len(s))
  <2>1. PICK n \in Nat : n = Len(s)
    BY LenProperties
  <2>2. s # <<>> => n # 0
    BY <2>1, EmptySeq
  <2>3. QED
    BY <2>1, <2>2
<1>2. StepsOrdered(s) /\ LaunchesOK(s) /\ CloseOK(s)
  BY DEF StepsOrdered, LaunchesOK, LaunchesBy, CloseOK
<1>3. FrontOK(s)
  BY <1>1 DEF FrontOK
<1>4. QED
  BY <1>2, <1>3 DEF NewList

LEMMA OrderingList ==
  ASSUME NEW g \in FastGroups, native[g] # "none", NEW s, s = Ordering(g)
  PROVE  NewList(s) /\ Len(s) = 2 /\ s[1] = On("order", g) /\ s[2] = On("handOut", g)
<1>1. /\ s \in Seq(Steps) /\ Len(s) = 2 /\ s[1] = On("order", g) /\ s[2] = On("handOut", g)
      /\ s[1].k = "order" /\ s[2].k = "handOut" /\ s[1].g = g /\ s[2].g = g
  BY DEF Ordering, On, Steps, Uses
<1>2. \A i \in 1..2 : i = 1 \/ i = 2
  OBVIOUS
<1>3. StepsOrdered(s)
  BY <1>1, <1>2 DEF StepsOrdered, Keeps, Fills
<1>4. LaunchesOK(s) /\ CloseOK(s) /\ FrontOK(s) /\ \A i \in 1..Len(s) : s[i].k \notin Keeps
  BY <1>1, <1>2 DEF LaunchesOK, LaunchesBy, CloseOK, FrontOK, Keeps
<1>5. QED
  BY <1>1, <1>3, <1>4 DEF NewList

\* Two lists after each other.
LEMMA Joined ==
  ASSUME NEW T, NEW p \in Seq(T), NEW s \in Seq(T)
  PROVE  /\ p \o s \in Seq(T) /\ Len(p \o s) = Len(p) + Len(s)
         /\ \A i \in 1..Len(p) : (p \o s)[i] = p[i]
         /\ \A i \in 1..Len(s) : (p \o s)[Len(p) + i] = s[i]
<1>1. PICK n \in Nat, m \in Nat : n = Len(p) /\ m = Len(s)
  BY LenProperties
<1>2. PICK r : r = p \o s
  OBVIOUS
<1>3. /\ r \in Seq(T) /\ Len(r) = n + m
      /\ \A i \in 1..(n + m) : r[i] = IF i <= n THEN p[i] ELSE s[i - n]
  BY <1>1, <1>2, ConcatProperties
<1>4. \A i \in 1..n : r[i] = p[i]
  BY <1>3
<1>5. ASSUME NEW i \in 1..m PROVE r[n + i] = s[i]
  <2>1. n + i \in 1..(n + m) /\ ~(n + i <= n) /\ (n + i) - n = i
    OBVIOUS
  <2>2. QED
    BY <1>3, <2>1
<1>6. QED
  BY <1>1, <1>2, <1>3, <1>4, <1>5

\* A submission that another method makes first.
LEMMA SubmittingList ==
  ASSUME NEW g \in FastGroups, NEW s, s = Submitting(g)
  PROVE  /\ s \in Seq(Steps) /\ Len(s) = 3
         /\ s[1].k = "checkOpen" /\ s[2].k = "retire" /\ s[3].k = "launch" /\ s[3].g = g
BY DEF Submitting, Do, On, Steps, Alone, Uses

LEMMA SubmitList ==
  ASSUME NEW g \in Direct \cup Restores, native[g] = "none", NEW s, s = Submitting(g)
  PROVE  NewList(s)
<1>1. /\ s \in Seq(Steps) /\ Len(s) = 3 /\ s[3].g = g
      /\ s[1].k = "checkOpen" /\ s[2].k = "retire" /\ s[3].k = "launch"
  <2>1. g \in FastGroups
    BY DEF FastGroups
  <2>2. QED
    BY <2>1, SubmittingList
<1>2. \A i \in 1..3 : i = 1 \/ i = 2 \/ i = 3
  OBVIOUS
<1>3. StepsOrdered(s)
  BY <1>1, <1>2 DEF StepsOrdered, Keeps, Fills
<1>4. LaunchesOK(s)
  BY <1>1, <1>2 DEF LaunchesOK, LaunchesBy, Uses, Keeps
<1>5. CloseOK(s) /\ FrontOK(s) /\ \A i \in 1..Len(s) : s[i].k \notin Keeps
  BY <1>1, <1>2 DEF CloseOK, FrontOK, Keeps
<1>6. QED
  BY <1>1, <1>3, <1>4, <1>5 DEF NewList

\* evict(): the swap's deque is polled, the group submitted and waited for.
LEMMA EvictList ==
  ASSUME NEW g \in Direct \cup Restores, native[g] = "none",
         NEW s, s = <<Do("retireSwap")>> \o Submitting(g) \o <<On("wait", g)>>
  PROVE  NewList(s)
<1>1. PICK a : a = <<Do("retireSwap")>>
  OBVIOUS
<1>2. PICK b : b = Submitting(g)
  OBVIOUS
<1>3. PICK c : c = <<On("wait", g)>>
  OBVIOUS
<1>4. g \in FastGroups
  BY DEF FastGroups
<1>5. /\ a \in Seq(Steps) /\ Len(a) = 1 /\ a[1].k = "retireSwap"
      /\ c \in Seq(Steps) /\ Len(c) = 1 /\ c[1].k = "wait" /\ c[1].g = g
  BY <1>1, <1>3, <1>4 DEF Do, On, Steps, Alone, Uses
<1>6. /\ b \in Seq(Steps) /\ Len(b) = 3 /\ b[1].k = "checkOpen" /\ b[2].k = "retire"
      /\ b[3].k = "launch" /\ b[3].g = g
  BY <1>2, <1>4, SubmittingList
<1>7. PICK d : d = a \o b
  OBVIOUS
<1>8. /\ d \in Seq(Steps) /\ Len(d) = 1 + 3
      /\ \A i \in 1..1 : d[i] = a[i]
      /\ \A i \in 1..3 : d[1 + i] = b[i]
  <2>1. a \in Seq(Steps) /\ b \in Seq(Steps)
    BY <1>5, <1>6
  <2>2. /\ a \o b \in Seq(Steps) /\ Len(a \o b) = Len(a) + Len(b)
        /\ \A i \in 1..Len(a) : (a \o b)[i] = a[i]
        /\ \A i \in 1..Len(b) : (a \o b)[Len(a) + i] = b[i]
    BY <2>1, Joined
  <2>3. QED
    BY <1>5, <1>6, <1>7, <2>2
<1>9. /\ Len(d) = 4 /\ d[1] = a[1] /\ d[2] = b[1] /\ d[3] = b[2] /\ d[4] = b[3]
  BY <1>8
<1>10. /\ s \in Seq(Steps) /\ Len(s) = 4 + 1
       /\ \A i \in 1..4 : s[i] = d[i]
       /\ \A i \in 1..1 : s[4 + i] = c[i]
  BY <1>2, <1>1, <1>3, <1>5, <1>7, <1>8, <1>9, Joined
<1>11. /\ s \in Seq(Steps) /\ Len(s) = 5 /\ s[1].k = "retireSwap" /\ s[2].k = "checkOpen"
       /\ s[3].k = "retire" /\ s[4].k = "launch" /\ s[5].k = "wait" /\ s[4].g = g /\ s[5].g = g
  BY <1>5, <1>6, <1>9, <1>10
<1>12. \A i \in 1..5 : i = 1 \/ i = 2 \/ i = 3 \/ i = 4 \/ i = 5
  OBVIOUS
<1>13. StepsOrdered(s)
  BY <1>11, <1>12 DEF StepsOrdered, Keeps, Fills
<1>14. LaunchesOK(s)
  <2>1. \E j \in 1..(5 - 1) : s[j].k = "launch" /\ s[j].g = s[5].g
    <3>1. 4 \in 1..(5 - 1)
      OBVIOUS
    <3>2. QED
      BY <1>11, <3>1
  <2>2. \A i \in 1..5 : s[i].k \in Uses => i = 5
    BY <1>11, <1>12 DEF Uses, Keeps
  <2>3. \A i \in 1..5 : s[i].k = "launch" => i = 4
    BY <1>11, <1>12
  <2>4. QED
    BY <1>11, <2>1, <2>2, <2>3 DEF LaunchesOK, LaunchesBy
<1>15. CloseOK(s) /\ FrontOK(s) /\ \A i \in 1..Len(s) : s[i].k \notin Keeps
  BY <1>11, <1>12 DEF CloseOK, FrontOK, Keeps
<1>16. QED
  BY <1>11, <1>13, <1>14, <1>15 DEF NewList

LEMMA RestoreOrder ==
  ASSUME NEW s, Len(s) = 7, s[1].k = "retireSwap", s[2].k = "checkOpen", s[3].k = "retire",
         s[4].k = "launch", s[5].k = "order", s[6].k = "handOut", s[7].k = "keepRestored",
         s[5].g = s[6].g
  PROVE  StepsOrdered(s)
<1>1. \A i \in 1..7 : i = 1 \/ i = 2 \/ i = 3 \/ i = 4 \/ i = 5 \/ i = 6 \/ i = 7
  OBVIOUS
<1>2. QED
  BY <1>1 DEF StepsOrdered, Keeps, Fills

\* restore(): ... its stream ordered after the copy, and the group kept.
LEMMA RestoreList ==
  ASSUME NEW g \in Direct \cup Restores, native[g] = "none", NEW s,
         s = <<Do("retireSwap")>> \o Submitting(g) \o Ordering(g) \o <<On("keepRestored", g)>>
  PROVE  NewList(s)
<1>1. PICK a : a = <<Do("retireSwap")>>
  OBVIOUS
<1>2. PICK b : b = Submitting(g)
  OBVIOUS
<1>3. PICK c : c = Ordering(g)
  OBVIOUS
<1>4. PICK e : e = <<On("keepRestored", g)>>
  OBVIOUS
<1>5. g \in FastGroups
  BY DEF FastGroups
<1>6. /\ a \in Seq(Steps) /\ Len(a) = 1 /\ a[1].k = "retireSwap"
      /\ e \in Seq(Steps) /\ Len(e) = 1 /\ e[1].k = "keepRestored" /\ e[1].g = g
      /\ c \in Seq(Steps) /\ Len(c) = 2 /\ c[1].k = "order" /\ c[1].g = g
      /\ c[2].k = "handOut" /\ c[2].g = g
  BY <1>1, <1>3, <1>4, <1>5 DEF Do, On, Ordering, Steps, Alone, Uses
<1>7. /\ b \in Seq(Steps) /\ Len(b) = 3 /\ b[1].k = "checkOpen" /\ b[2].k = "retire"
      /\ b[3].k = "launch" /\ b[3].g = g
  BY <1>2, <1>5, SubmittingList
<1>8. PICK d : d = a \o b
  OBVIOUS
<1>9. /\ d \in Seq(Steps) /\ Len(d) = 1 + 3
      /\ \A i \in 1..1 : d[i] = a[i]
      /\ \A i \in 1..3 : d[1 + i] = b[i]
  <2>1. a \in Seq(Steps) /\ b \in Seq(Steps)
    BY <1>6, <1>7
  <2>2. /\ a \o b \in Seq(Steps) /\ Len(a \o b) = Len(a) + Len(b)
        /\ \A i \in 1..Len(a) : (a \o b)[i] = a[i]
        /\ \A i \in 1..Len(b) : (a \o b)[Len(a) + i] = b[i]
    BY <2>1, Joined
  <2>3. QED
    BY <1>6, <1>7, <1>8, <2>2
<1>10. /\ Len(d) = 4 /\ d[1] = a[1] /\ d[2] = b[1] /\ d[3] = b[2] /\ d[4] = b[3]
  BY <1>9
<1>11. PICK f : f = d \o c
  OBVIOUS
<1>12. /\ f \in Seq(Steps) /\ Len(f) = 4 + 2
       /\ \A i \in 1..4 : f[i] = d[i]
       /\ \A i \in 1..2 : f[4 + i] = c[i]
  <2>1. d \in Seq(Steps) /\ c \in Seq(Steps)
    BY <1>6, <1>9, <1>10
  <2>2. /\ d \o c \in Seq(Steps) /\ Len(d \o c) = Len(d) + Len(c)
        /\ \A i \in 1..Len(d) : (d \o c)[i] = d[i]
        /\ \A i \in 1..Len(c) : (d \o c)[Len(d) + i] = c[i]
    BY <2>1, Joined
  <2>3. QED
    BY <1>6, <1>9, <1>10, <1>11, <2>2
<1>13. /\ Len(f) = 6 /\ f[1] = d[1] /\ f[2] = d[2] /\ f[3] = d[3] /\ f[4] = d[4]
       /\ f[5] = c[1] /\ f[6] = c[2]
  BY <1>12
<1>14. s = f \o e
  BY <1>1, <1>2, <1>3, <1>4, <1>8, <1>11
<1>15. /\ s \in Seq(Steps) /\ Len(s) = 6 + 1
       /\ \A i \in 1..6 : s[i] = f[i]
       /\ \A i \in 1..1 : s[6 + i] = e[i]
  <2>1. f \in Seq(Steps) /\ e \in Seq(Steps)
    BY <1>6, <1>12, <1>13
  <2>2. /\ f \o e \in Seq(Steps) /\ Len(f \o e) = Len(f) + Len(e)
        /\ \A i \in 1..Len(f) : (f \o e)[i] = f[i]
        /\ \A i \in 1..Len(e) : (f \o e)[Len(f) + i] = e[i]
    BY <2>1, Joined
  <2>3. QED
    BY <1>6, <1>12, <1>13, <1>14, <2>2
<1>16. /\ Len(s) = 7 /\ s[1] = f[1] /\ s[2] = f[2] /\ s[3] = f[3] /\ s[4] = f[4]
       /\ s[5] = f[5] /\ s[6] = f[6] /\ s[7] = e[1]
  <2>1. Len(s) = 7 /\ s[1] = f[1] /\ s[2] = f[2] /\ s[3] = f[3]
    BY <1>15
  <2>2. s[4] = f[4] /\ s[5] = f[5] /\ s[6] = f[6]
    BY <1>15
  <2>3. s[6 + 1] = e[1]
    BY <1>15
  <2>4. QED
    BY <2>1, <2>2, <2>3
<1>17. /\ s[1].k = "retireSwap" /\ s[2].k = "checkOpen" /\ s[3].k = "retire" /\ s[4].k = "launch"
       /\ s[5].k = "order" /\ s[6].k = "handOut" /\ s[7].k = "keepRestored"
       /\ s[4].g = g /\ s[5].g = g /\ s[6].g = g /\ s[7].g = g
  <2>1. s[1] = a[1] /\ s[2] = b[1] /\ s[3] = b[2] /\ s[4] = b[3]
    BY <1>10, <1>13, <1>16
  <2>2. s[5] = c[1] /\ s[6] = c[2] /\ s[7] = e[1]
    BY <1>13, <1>16
  <2>3. QED
    BY <1>6, <1>7, <2>1, <2>2
<1>18. \A i \in 1..7 : i = 1 \/ i = 2 \/ i = 3 \/ i = 4 \/ i = 5 \/ i = 6 \/ i = 7
  OBVIOUS
<1>19. StepsOrdered(s)
  BY <1>16, <1>17, RestoreOrder
<1>20. LaunchesOK(s)
  <2>1. \A i \in 5..7 : \E j \in 1..(i - 1) : s[j].k = "launch" /\ s[j].g = s[i].g
    <3>1. \A i \in 5..7 : 4 \in 1..(i - 1) /\ (i = 5 \/ i = 6 \/ i = 7)
      OBVIOUS
    <3>2. \A i \in 5..7 : s[4].k = "launch" /\ s[4].g = s[i].g
      BY <1>17, <3>1
    <3>3. QED
      BY <3>1, <3>2
  <2>2. \A i \in 1..7 : s[i].k \in Uses => i \in 5..7
    <3>1. 5 \in 5..7 /\ 6 \in 5..7 /\ 7 \in 5..7
      OBVIOUS
    <3>2. QED
      BY <1>17, <1>18, <3>1 DEF Uses, Keeps
  <2>3. \A i \in 1..7 : s[i].k = "launch" => i = 4
    BY <1>17, <1>18
  <2>4. QED
    <3>1. ASSUME NEW i \in 1..7, s[i].k = "launch"
          PROVE  native[s[i].g] = "none" /\ s[i].g \in Direct \cup Restores
      BY <1>17, <2>3, <3>1
    <3>2. ASSUME NEW i \in 1..7, s[i].k \in Uses
          PROVE  \E j \in 1..(i - 1) : s[j].k = "launch" /\ s[j].g = s[i].g
      BY <2>1, <2>2, <3>2
    <3>3. QED
      BY <1>16, <3>1, <3>2 DEF LaunchesOK, LaunchesBy
<1>21. CloseOK(s) /\ FrontOK(s) /\ \A i \in 1..Len(s) : s[i].k \notin Keeps
  BY <1>16, <1>17, <1>18 DEF CloseOK, FrontOK, Keeps
<1>22. QED
  BY <1>15, <1>19, <1>20, <1>21 DEF NewList

-----------------------------------------------------------------------------
\* A method that calls another: the called one's steps come first.
StackOK(p, r) ==
  /\ Len(r) > 0 => r[1].k \notin {"retain", "launch"}
  /\ Len(r) > 0 /\ r[1].k = "handOut" =>
       Len(p) > 0 /\ p[Len(p)].k \in {"order", "retain"} /\ p[Len(p)].g = r[1].g
  /\ Len(r) > 1 => r[2].k # "launch"
  /\ (\A i \in 1..Len(p) : p[i].k \notin Keeps \cup Fills) \/ (\A i \in 1..Len(r) : r[i].k \notin Keeps)
  /\ (\A i \in 1..Len(p) : p[i].k \notin Fills \cup {"launch"}) \/ (\A i \in 1..Len(r) : r[i].k # "launch")

LEMMA Stacked ==
  ASSUME NEW p \in Seq(Steps), NEW r \in Seq(Steps), NEW k,
         StepsOrdered(p), StepsOrdered(r), LaunchesBy(p, k), LaunchesBy(r, k), StackOK(p, r)
  PROVE  /\ p \o r \in Seq(Steps) /\ StepsOrdered(p \o r) /\ LaunchesBy(p \o r, k)
         /\ Len(p \o r) = Len(p) + Len(r)
         /\ \A i \in 1..Len(p) : (p \o r)[i] = p[i]
         /\ \A i \in 1..Len(r) : (p \o r)[Len(p) + i] = r[i]
<1>n. PICK n \in Nat, m \in Nat : n = Len(p) /\ m = Len(r)
  BY LenProperties
<1>c. /\ m > 0 => r[1].k \notin {"retain", "launch"}
      /\ m > 0 /\ r[1].k = "handOut" => n > 0 /\ p[n].k \in {"order", "retain"} /\ p[n].g = r[1].g
      /\ m > 1 => r[2].k # "launch"
      /\ (\A i \in 1..n : p[i].k \notin Keeps \cup Fills) \/ (\A i \in 1..m : r[i].k \notin Keeps)
      /\ (\A i \in 1..n : p[i].k \notin Fills \cup {"launch"}) \/ (\A i \in 1..m : r[i].k # "launch")
  BY <1>n DEF StackOK
<1>1. PICK s : s = p \o r
  OBVIOUS
<1>2. /\ s \in Seq(Steps) /\ Len(s) = n + m
      /\ \A i \in 1..n : s[i] = p[i]
      /\ \A i \in 1..m : s[n + i] = r[i]
  <2>1. /\ p \o r \in Seq(Steps) /\ Len(p \o r) = Len(p) + Len(r)
        /\ \A i \in 1..Len(p) : (p \o r)[i] = p[i]
        /\ \A i \in 1..Len(r) : (p \o r)[Len(p) + i] = r[i]
    BY Joined
  <2>2. QED
    BY <1>n, <1>1, <2>1
<1>3. ASSUME NEW i \in 1..n
      PROVE  /\ i > 1 /\ s[i].k = "retain" => s[i - 1].k = "makeRoom"
             /\ i > 1 /\ s[i].k = "handOut" => s[i - 1].k \in {"order", "retain"} /\ s[i - 1].g = s[i].g
             /\ i > 1 /\ s[i].k = "launch" => s[i - 1].k = "retire"
             /\ i > 2 /\ s[i].k = "launch" => s[i - 2].k = "checkOpen"
             /\ s[i].k \in Keeps => \A j \in 1..(i - 1) : s[j].k \notin Keeps \cup Fills
             /\ s[i].k = "launch" => \A j \in 1..(i - 1) : s[j].k \notin Fills \cup {"launch"}
  <2>1. s[i] = p[i] /\ \A j \in 1..(i - 1) : j \in 1..n /\ s[j] = p[j]
    BY <1>2
  <2>2. (i > 1 => i - 1 \in 1..(i - 1)) /\ (i > 2 => i - 2 \in 1..(i - 1))
    OBVIOUS
  <2>3. /\ i > 1 /\ p[i].k = "retain" => p[i - 1].k = "makeRoom"
        /\ i > 1 /\ p[i].k = "handOut" => p[i - 1].k \in {"order", "retain"} /\ p[i - 1].g = p[i].g
        /\ i > 1 /\ p[i].k = "launch" => p[i - 1].k = "retire"
        /\ i > 2 /\ p[i].k = "launch" => p[i - 2].k = "checkOpen"
        /\ p[i].k \in Keeps => \A j \in 1..(i - 1) : p[j].k \notin Keeps \cup Fills
        /\ p[i].k = "launch" => \A j \in 1..(i - 1) : p[j].k \notin Fills \cup {"launch"}
    BY <1>n DEF StepsOrdered
  <2>4. QED
    BY <2>1, <2>2, <2>3
<1>4. ASSUME NEW l \in 1..m, NEW i, i = n + l
      PROVE  /\ i > 1 /\ s[i].k = "retain" => s[i - 1].k = "makeRoom"
             /\ i > 1 /\ s[i].k = "handOut" => s[i - 1].k \in {"order", "retain"} /\ s[i - 1].g = s[i].g
             /\ i > 1 /\ s[i].k = "launch" => s[i - 1].k = "retire"
             /\ i > 2 /\ s[i].k = "launch" => s[i - 2].k = "checkOpen"
             /\ s[i].k \in Keeps => \A j \in 1..(i - 1) : s[j].k \notin Keeps \cup Fills
             /\ s[i].k = "launch" => \A j \in 1..(i - 1) : s[j].k \notin Fills \cup {"launch"}
  <2>1. s[i] = r[l]
    BY <1>2, <1>4
  <2>2. \A j \in 1..(i - 1) : (j \in 1..n /\ s[j] = p[j]) \/ (\E q \in 1..(l - 1) : s[j] = r[q] /\ q \in 1..m)
    <3>1. ASSUME NEW j \in 1..(i - 1), j > n
          PROVE  \E q \in 1..(l - 1) : s[j] = r[q] /\ q \in 1..m
      <4>1. j - n \in 1..(l - 1) /\ j - n \in 1..m /\ n + (j - n) = j
        BY <1>4, <3>1
      <4>2. s[n + (j - n)] = r[j - n]
        BY <1>2, <4>1
      <4>3. QED
        BY <4>1, <4>2
    <3>2. \A j \in 1..(i - 1) : j > n \/ j \in 1..n
      BY <1>4
    <3>3. QED
      BY <1>2, <3>1, <3>2
  <2>3. l > 1 => s[i - 1] = r[l - 1]
    <3>1. l > 1 => l - 1 \in 1..m /\ n + (l - 1) = i - 1
      BY <1>4
    <3>2. QED
      BY <1>2, <3>1
  <2>4. l > 2 => s[i - 2] = r[l - 2]
    <3>1. l > 2 => l - 2 \in 1..m /\ n + (l - 2) = (n + l) - 2
      <4>1. l > 2 => l - 2 \in 1..m
        OBVIOUS
      <4>2. l \in Nat /\ \A q \in Nat : n + (q - 2) = (n + q) - 2
        OBVIOUS
      <4>3. QED
        BY <4>1, <4>2
    <3>2. l > 2 => s[n + (l - 2)] = r[l - 2]
      BY <1>2, <3>1
    <3>3. QED
      BY <1>4, <3>1, <3>2
  <2>5. l = 1 => i - 1 = n /\ m > 0
    BY <1>4
  <2>6. l = 2 => m > 1
    OBVIOUS
  <2>7. /\ l > 1 /\ r[l].k = "retain" => r[l - 1].k = "makeRoom"
        /\ l > 1 /\ r[l].k = "handOut" => r[l - 1].k \in {"order", "retain"} /\ r[l - 1].g = r[l].g
        /\ l > 1 /\ r[l].k = "launch" => r[l - 1].k = "retire"
        /\ l > 2 /\ r[l].k = "launch" => r[l - 2].k = "checkOpen"
        /\ r[l].k \in Keeps => \A j \in 1..(l - 1) : r[j].k \notin Keeps \cup Fills
        /\ r[l].k = "launch" => \A j \in 1..(l - 1) : r[j].k \notin Fills \cup {"launch"}
    BY <1>n DEF StepsOrdered
  <2>8. l = 1 \/ l = 2 \/ l > 2
    OBVIOUS
  <2>9. s[i].k = "retain" => s[i - 1].k = "makeRoom"
    BY <1>c, <2>1, <2>3, <2>5, <2>7, <2>8
  <2>10. i > 1 /\ s[i].k = "handOut" => s[i - 1].k \in {"order", "retain"} /\ s[i - 1].g = s[i].g
    <3>1. CASE l = 1
      <4>1. n > 0 => n \in 1..n
        OBVIOUS
      <4>2. QED
        BY <1>2, <1>c, <2>1, <2>5, <3>1, <4>1
    <3>2. CASE l > 1
      BY <2>1, <2>3, <2>7, <3>2
    <3>3. QED
      BY <3>1, <3>2
  <2>11. s[i].k = "launch" => s[i - 1].k = "retire" /\ s[i - 2].k = "checkOpen"
    BY <1>c, <2>1, <2>3, <2>4, <2>5, <2>6, <2>7, <2>8
  <2>12. s[i].k \in Keeps => \A j \in 1..(i - 1) : s[j].k \notin Keeps \cup Fills
    BY <1>c, <2>1, <2>2, <2>7
  <2>13. s[i].k = "launch" => \A j \in 1..(i - 1) : s[j].k \notin Fills \cup {"launch"}
    BY <1>c, <2>1, <2>2, <2>7
  <2>14. QED
    BY <2>9, <2>10, <2>11, <2>12, <2>13
<1>5. \A i \in 1..(n + m) : i \in 1..n \/ \E l \in 1..m : i = n + l
  <2>1. \A i \in 1..(n + m) : i \in 1..n \/ (i - n \in 1..m /\ i = n + (i - n))
    OBVIOUS
  <2>2. QED
    BY <2>1
<1>6. StepsOrdered(s)
  <2> SUFFICES ASSUME NEW i \in 1..(n + m)
               PROVE  /\ i > 1 /\ s[i].k = "retain" => s[i - 1].k = "makeRoom"
                      /\ i > 1 /\ s[i].k = "handOut" => s[i - 1].k \in {"order", "retain"} /\ s[i - 1].g = s[i].g
                      /\ i > 1 /\ s[i].k = "launch" => s[i - 1].k = "retire"
                      /\ i > 2 /\ s[i].k = "launch" => s[i - 2].k = "checkOpen"
                      /\ s[i].k \in Keeps => \A j \in 1..(i - 1) : s[j].k \notin Keeps \cup Fills
                      /\ s[i].k = "launch" => \A j \in 1..(i - 1) : s[j].k \notin Fills \cup {"launch"}
    BY <1>2 DEF StepsOrdered
  <2>1. CASE i \in 1..n
    BY <1>3, <2>1
  <2>2. CASE \E l \in 1..m : i = n + l
    BY <1>4, <2>2
  <2>3. QED
    BY <1>5, <2>1, <2>2
<1>7. LaunchesBy(s, k)
  <2>1. ASSUME NEW i \in 1..(n + m), s[i].k = "launch"
        PROVE  /\ native[s[i].g] = "none"
               /\ s[i].g \in Direct \cup Restores \/ \E q \in 1..k : s[i].g = Prefetched[q]
    <3>1. CASE i \in 1..n
      BY <1>n, <1>2, <2>1, <3>1 DEF LaunchesBy
    <3>2. CASE \E l \in 1..m : i = n + l
      BY <1>n, <1>2, <2>1, <3>2 DEF LaunchesBy
    <3>3. QED
      BY <1>5, <3>1, <3>2
  <2>2. ASSUME NEW i \in 1..(n + m), s[i].k \in Uses
        PROVE  \/ native[s[i].g] # "none"
               \/ \E j \in 1..(i - 1) : s[j].k = "launch" /\ s[j].g = s[i].g
    <3>1. CASE i \in 1..n
      <4>1. s[i] = p[i]
        BY <1>2, <3>1
      <4>2. i \in Nat /\ i <= n /\ n \in Nat
        BY <1>n, <3>1
      <4>3. \A j \in 1..(i - 1) : j \in 1..n
        BY <4>2
      <4>4. \A j \in 1..(i - 1) : s[j] = p[j]
        BY <1>2, <4>3
      <4>5. p[i].k \in Uses =>
              \/ native[p[i].g] # "none"
              \/ \E j \in 1..(i - 1) : p[j].k = "launch" /\ p[j].g = p[i].g
        BY <1>n, <3>1 DEF LaunchesBy
      <4>6. QED
        BY <2>2, <4>1, <4>4, <4>5
    <3>2. ASSUME NEW l \in 1..m, i = n + l, native[s[i].g] = "none"
          PROVE  \E j \in 1..(i - 1) : s[j].k = "launch" /\ s[j].g = s[i].g
      <4>1. s[i] = r[l]
        BY <1>2, <3>2
      <4>2. PICK q \in 1..(l - 1) : r[q].k = "launch" /\ r[q].g = r[l].g
        BY <1>n, <2>2, <3>2, <4>1 DEF LaunchesBy
      <4>3. q \in 1..m /\ n + q \in 1..(i - 1)
        BY <3>2
      <4>4. s[n + q] = r[q]
        BY <1>2, <4>3
      <4>5. QED
        BY <4>1, <4>2, <4>3, <4>4
    <3>3. QED
      BY <1>5, <3>1, <3>2
  <2>3. QED
    BY <1>2, <2>1, <2>2 DEF LaunchesBy
<1>8. QED
  BY <1>n, <1>1, <1>2, <1>6, <1>7

\* The calls of the user's thread that have plain or new lists.
LEMMA CallKeeps == ASSUME FastInv, NEW s, NewList(s), Call(s) PROVE FastInv'
<1>1. /\ todo' = s
      /\ UNCHANGED <<native, finished, totals, deques, taken, handed, ownerState, registered, op>>
  BY DEF Call, stateVars, opVars
<1>2. QED
  BY <1>1, Begins

LEMMA OneStep ==
  ASSUME NEW k \in Alone \ {"closeNative"}
  PROVE  NewList(<<Do(k)>>)
<1>1. PICK s : s = <<Do(k)>>
  OBVIOUS
<1>2. s \in Seq(Steps) /\ Len(s) = 1 /\ s[1].k = k
  BY <1>1 DEF Do, Steps
<1>3. k \notin {"retain", "handOut", "launch", "closeNative"} \cup Keeps \cup Uses
  BY DEF Alone, Fills, Keeps, Uses
<1>4. \A i \in 1..1 : i = 1
  OBVIOUS
<1>5. QED
  BY <1>1, <1>2, <1>3, <1>4, PlainList

LEMMA TwoSteps ==
  ASSUME NEW k \in Alone \ {"closeNative"}, NEW l \in Alone \ {"closeNative"}
  PROVE  NewList(<<Do(k), Do(l)>>)
<1>1. PICK s : s = <<Do(k), Do(l)>>
  OBVIOUS
<1>2. s \in Seq(Steps) /\ Len(s) = 2 /\ s[1].k = k /\ s[2].k = l
  BY <1>1 DEF Do, Steps
<1>3. {k, l} \cap ({"retain", "handOut", "launch", "closeNative"} \cup Keeps \cup Uses) = {}
  BY DEF Alone, Fills, Keeps, Uses
<1>4. \A i \in 1..2 : i = 1 \/ i = 2
  OBVIOUS
<1>5. QED
  BY <1>1, <1>2, <1>3, <1>4, PlainList

LEMMA CallsKeep ==
  ASSUME FastInv,
         \/ \E g \in Direct : DirectSubmit(g) \/ DirectWait(g) \/ DirectWaitStream(g) \/ Evict(g)
         \/ \E g \in Restores : Restore(g)
         \/ Drain \/ NextGroup
  PROVE  FastInv'
<1>1. ASSUME NEW g \in Direct, DirectSubmit(g) PROVE FastInv'
  <2>1. native[g] = "none" /\ Call(Submitting(g)) /\ g \in Direct \cup Restores
    BY <1>1 DEF DirectSubmit
  <2>2. QED
    BY <2>1, SubmitList, CallKeeps
<1>2. ASSUME NEW g \in Direct, DirectWait(g) PROVE FastInv'
  <2>1. native[g] # "none" /\ Call(<<On("wait", g)>>) /\ g \in FastGroups
    BY <1>2 DEF DirectWait, FastGroups
  <2>2. PICK s : s = <<On("wait", g)>>
    OBVIOUS
  <2>3. s \in Seq(Steps) /\ Len(s) = 1 /\ s[1].k = "wait" /\ s[1].g = g
    BY <2>1, <2>2 DEF On, Steps, Uses
  <2>4. \A i \in 1..1 : i = 1
    OBVIOUS
  <2>5. NewList(s)
    BY <2>1, <2>3, <2>4, PlainList DEF Keeps
  <2>6. QED
    BY <2>1, <2>2, <2>5, CallKeeps
<1>3. ASSUME NEW g \in Direct, DirectWaitStream(g) PROVE FastInv'
  <2>1. native[g] # "none" /\ Call(Ordering(g)) /\ g \in FastGroups
    BY <1>3 DEF DirectWaitStream, FastGroups
  <2>2. QED
    BY <2>1, OrderingList, CallKeeps
<1>4. ASSUME NEW g \in Direct, Evict(g) PROVE FastInv'
  <2>1. /\ native[g] = "none" /\ Call(<<Do("retireSwap")>> \o Submitting(g) \o <<On("wait", g)>>)
        /\ g \in Direct \cup Restores
    BY <1>4 DEF Evict
  <2>2. QED
    BY <2>1, EvictList, CallKeeps
<1>5. ASSUME NEW g \in Restores, Restore(g) PROVE FastInv'
  <2>1. /\ native[g] = "none" /\ g \in Direct \cup Restores
        /\ Call(<<Do("retireSwap")>> \o Submitting(g) \o Ordering(g) \o <<On("keepRestored", g)>>)
    BY <1>5 DEF Restore
  <2>2. QED
    BY <2>1, RestoreList, CallKeeps
<1>6. CASE Drain
  <2>1. Call(<<Do("drainSwap")>>) /\ "drainSwap" \in Alone \ {"closeNative"}
    BY <1>6 DEF Drain, Alone
  <2>2. QED
    BY <2>1, OneStep, CallKeeps
<1>7. CASE NextGroup
  <2>1. Call(<<Do("fill"), Do("take")>>) /\ {"fill", "take"} \subseteq Alone \ {"closeNative"}
    BY <1>7 DEF NextGroup, Alone, Fills
  <2>2. QED
    BY <2>1, TwoSteps, CallKeeps
<1>8. QED
  BY <1>1, <1>2, <1>3, <1>4, <1>5, <1>6, <1>7

\* A window opens, and is closed.
LEMMA WindowKeeps == ASSUME FastInv, OpenWindow \/ CloseWindow PROVE FastInv'
<1>1. UNCHANGED <<native, finished, totals, deques, taken, handed, ownerState, registered, op>>
  BY DEF OpenWindow, CloseWindow, opVars
<1>2. todo' = <<Do("fillOne")>> \/ todo' = <<Do("drainPending"), Do("drainConsumed")>>
  BY DEF OpenWindow, CloseWindow, CloseSteps
<1>3. {"fillOne", "drainPending", "drainConsumed"} \subseteq Alone \ {"closeNative"}
  BY DEF Alone, Fills
<1>4. QED
  BY <1>1, <1>2, <1>3, OneStep, TwoSteps, Begins

\* close() releases the handles first; the rest of it may fail.
LEMMA CloseKeeps == ASSUME FastInv, Close PROVE FastInv'
<1>1. /\ UNCHANGED <<native, finished, totals, deques, taken, handed, op>>
      /\ ownerState' = "closing" /\ registered' = {}
      /\ todo' = <<Do("drainOwner"), Do("closeNative")>>
  BY DEF Close
<1>2. PICK s : s = todo'
  OBVIOUS
<1>3. s \in Seq(Steps) /\ Len(s) = 2 /\ s[1].k = "drainOwner" /\ s[2].k = "closeNative"
  BY <1>1, <1>2 DEF Do, Steps, Alone
<1>4. \A i \in 1..2 : i = 1 \/ i = 2
  OBVIOUS
<1>5. /\ StepsOrdered(todo)' /\ LaunchesOK(todo)' /\ FrontOK(todo)' /\ CloseOK(todo)'
      /\ \A i \in 1..Len(todo') : todo'[i].k \notin Keeps
  <2>1. StepsOrdered(s) /\ \A i \in 1..Len(s) : s[i].k \notin Keeps \cup Uses \cup {"launch"}
    BY <1>3, <1>4 DEF StepsOrdered, Keeps, Fills, Uses
  <2>2. LaunchesOK(todo)'
    BY <1>2, <2>1 DEF LaunchesOK, LaunchesBy
  <2>3. FrontOK(todo)' /\ CloseOK(todo)'
    BY <1>1, <1>2, <1>3 DEF FrontOK, CloseOK
  <2>4. QED
    BY <1>2, <2>1, <2>2, <2>3 DEF StepsOrdered
<1>6. UntakenOK'
  BY <1>1 DEF FastInv, UntakenOK
<1>7. FastShape /\ CountOK /\ HandedOK /\ ClosedOK
  BY DEF FastInv
<1>8. FastShape' /\ CountOK' /\ HandedOK'
  BY <1>1, <1>2, <1>3, <1>7 DEF FastShape, CountOK, HandedOK
<1>9. ClosedOK'
  BY <1>1 DEF ClosedOK
<1>10. WindowOK'
  <2>1. /\ Len(deques'.owner) <= MaxInflight /\ InWindow' <= Slots
        /\ \A h \in Range(deques'.pending) : native[h] # "none"
    BY <1>1, WindowStays
  <2>2. QED
    BY <1>1, <1>5, <2>1 DEF WindowOK
<1>11. QED
  BY <1>5, <1>6, <1>8, <1>9, <1>10 DEF FastInv

\* wait_stream() of a group that may still run: it will be retained.
LEMMA OrderKeeps == ASSUME FastInv, Order PROVE FastInv'
<1>1. /\ todo # <<>> /\ todo[1].k = "order" /\ Head(todo) = todo[1] /\ Len(todo) \in Nat \ {0}
      /\ UNCHANGED <<native, finished, totals, deques, taken, handed, ownerState, registered, op>>
  BY TodoTail DEF Order, Doing, stateVars, opVars
<1>2. PICK g \in FastGroups : g = todo[1].g /\ native[g] # "none"
  BY <1>1, HeadUsed DEF Uses
<1>3. CASE g \in finished /\ NextStep
  <2>1. native[g] = "ok"
    BY <1>3 DEF FastInv, CountOK
  <2>2. QED
    BY <1>1, <1>2, <1>3, <2>1, StepDone
<1>4. CASE todo' = <<Do("retire"), Do("makeRoom"), On("retain", g)>> \o Tail(todo)
  <2>1. PICK p : p = <<Do("retire"), Do("makeRoom"), On("retain", g)>>
    OBVIOUS
  <2>2. PICK r : r = Tail(todo)
    OBVIOUS
  <2>3. /\ p \in Seq(Steps) /\ Len(p) = 3 /\ p[1].k = "retire" /\ p[2].k = "makeRoom"
        /\ p[3].k = "retain" /\ p[3].g = g
    BY <2>1 DEF Do, On, Steps, Alone, Uses
  <2>4. PICK n \in Nat \ {0} : n = Len(todo)
    BY <1>1
  <2>5. /\ r \in Seq(Steps) /\ Len(r) = n - 1 /\ StepsOrdered(r) /\ n - 1 \in Nat
        /\ \A i \in 1..(n - 1) : r[i] = todo[i + 1] /\ i + 1 \in 1..n
    BY <1>1, <2>2, <2>4, TodoTail
  <2>6. StepsOrdered(todo) /\ LaunchesOK(todo) /\ CloseOK(todo) /\ WindowOK
    BY DEF FastInv
  <2>7. \A i \in 1..3 : i = 1 \/ i = 2 \/ i = 3
    OBVIOUS
  <2>8. /\ StepsOrdered(p) /\ LaunchesOK(p)
        /\ \A i \in 1..3 : p[i].k \notin Keeps \cup Fills \cup {"launch", "closeNative"}
    <3>1. StepsOrdered(p) /\ \A i \in 1..3 : p[i].k \notin Keeps \cup Fills \cup {"launch", "closeNative"}
      BY <2>3, <2>7 DEF StepsOrdered, Keeps, Fills
    <3>2. LaunchesOK(p)
      BY <1>2, <2>3, <2>7 DEF LaunchesOK, LaunchesBy, Uses, Keeps
    <3>3. QED
      BY <3>1, <3>2
  <2>9. LaunchesOK(r)
    <3>1. ASSUME NEW i \in 1..(n - 1), r[i].k \in Uses, native[r[i].g] = "none"
          PROVE  \E j \in 1..(i - 1) : r[j].k = "launch" /\ r[j].g = r[i].g
      <4>1. PICK q \in 1..n : q = i + 1 /\ r[i] = todo[q]
        BY <2>5
      <4>2. PICK j \in 1..(q - 1) : todo[j].k = "launch" /\ todo[j].g = todo[q].g
        BY <2>4, <2>6, <3>1, <4>1 DEF LaunchesOK, LaunchesBy
      <4>3. j # 1
        BY <1>1, <4>2
      <4>4. j - 1 \in 1..(i - 1) /\ j - 1 \in 1..(n - 1) /\ (j - 1) + 1 = j
        BY <4>1, <4>3
      <4>5. r[j - 1] = todo[(j - 1) + 1]
        BY <2>5, <4>4
      <4>6. QED
        BY <4>1, <4>2, <4>4, <4>5
    <3>2. ASSUME NEW i \in 1..(n - 1), r[i].k = "launch"
          PROVE  /\ native[r[i].g] = "none"
                 /\ r[i].g \in Direct \cup Restores \/ \E m \in 1..taken : r[i].g = Prefetched[m]
      BY <2>4, <2>5, <2>6, <3>2 DEF LaunchesOK, LaunchesBy
    <3>3. QED
      BY <2>5, <3>1, <3>2 DEF LaunchesOK, LaunchesBy
  <2>10. n - 1 > 0 => r[1].k \notin {"retain", "launch"} /\ (r[1].k = "handOut" => r[1].g = g)
    <3>1. n - 1 > 0 => 1 \in 1..(n - 1) /\ 2 \in 1..n /\ 1 + 1 = 2 /\ 2 - 1 = 1 /\ 2 > 1
      OBVIOUS
    <3>2. n - 1 > 0 => r[1] = todo[2]
      BY <2>5, <3>1
    <3>3. n - 1 > 0 =>
            /\ todo[2].k = "retain" => todo[1].k = "makeRoom"
            /\ todo[2].k = "handOut" => todo[1].g = todo[2].g
            /\ todo[2].k = "launch" => todo[1].k = "retire"
      BY <2>4, <2>6, <3>1 DEF StepsOrdered
    <3>4. QED
      BY <1>1, <1>2, <3>2, <3>3
  <2>11. n - 1 > 1 => r[2].k # "launch"
    <3>1. n - 1 > 1 => 2 \in 1..(n - 1) /\ 3 \in 1..n /\ 2 + 1 = 3 /\ 3 - 2 = 1 /\ 3 > 2
      OBVIOUS
    <3>2. n - 1 > 1 => r[2] = todo[3]
      BY <2>5, <3>1
    <3>3. n - 1 > 1 => (todo[3].k = "launch" => todo[1].k = "checkOpen")
      BY <2>4, <2>6, <3>1 DEF StepsOrdered
    <3>4. QED
      BY <1>1, <3>2, <3>3
  <2>12. PICK s : s = p \o r
    OBVIOUS
  <2>13. /\ s \in Seq(Steps) /\ StepsOrdered(s) /\ LaunchesOK(s) /\ Len(s) = 3 + (n - 1)
         /\ \A i \in 1..3 : s[i] = p[i]
         /\ \A i \in 1..(n - 1) : s[3 + i] = r[i]
    <3>1. 3 \in Nat /\ n - 1 \in Nat /\ 3 > 0
      BY <2>5
    <3>2. /\ \A i \in 1..3 : p[i].k \notin Keeps \cup Fills
          /\ \A i \in 1..3 : p[i].k \notin Fills \cup {"launch"}
          /\ n - 1 > 0 => r[1].k \notin {"retain", "launch"}
          /\ n - 1 > 0 /\ r[1].k = "handOut" =>
               3 > 0 /\ p[3].k \in {"order", "retain"} /\ p[3].g = r[1].g
      BY <2>3, <2>8, <2>10, <3>1
    <3>3. /\ p \in Seq(Steps) /\ r \in Seq(Steps) /\ 3 = Len(p) /\ n - 1 = Len(r)
          /\ StepsOrdered(p) /\ StepsOrdered(r) /\ LaunchesOK(p) /\ LaunchesOK(r)
      BY <2>3, <2>5, <2>8, <2>9
    <3>4. StackOK(p, r)
      BY <2>11, <3>2, <3>3 DEF StackOK
    <3>5. /\ p \o r \in Seq(Steps) /\ StepsOrdered(p \o r) /\ LaunchesBy(p \o r, taken)
          /\ Len(p \o r) = Len(p) + Len(r)
          /\ \A i \in 1..Len(p) : (p \o r)[i] = p[i]
          /\ \A i \in 1..Len(r) : (p \o r)[Len(p) + i] = r[i]
      BY <3>3, <3>4, Stacked DEF LaunchesOK
    <3>6. QED
      BY <2>12, <3>3, <3>5 DEF LaunchesOK
  <2>14. todo' = s
    BY <1>4, <2>1, <2>2, <2>12
  <2>15. \A i \in 1..(3 + (n - 1)) : i \in 1..3 \/ \E l \in 1..(n - 1) : i = 3 + l
    <3>1. \A i \in 1..(3 + (n - 1)) : i \in 1..3 \/ (i - 3 \in 1..(n - 1) /\ i = 3 + (i - 3))
      OBVIOUS
    <3>2. QED
      BY <3>1
  <2>16. \A i \in 1..Len(s) : \/ s[i].k \notin Keeps \cup {"closeNative"}
                              \/ \E l \in 1..n : s[i] = todo[l]
    <3>1. ASSUME NEW i \in 1..3 PROVE s[i].k \notin Keeps \cup {"closeNative"}
      BY <2>8, <2>13
    <3>2. ASSUME NEW l \in 1..(n - 1) PROVE s[3 + l] = todo[l + 1] /\ l + 1 \in 1..n
      BY <2>5, <2>13
    <3>3. ASSUME NEW i \in 1..(3 + (n - 1))
          PROVE  \/ s[i].k \notin Keeps \cup {"closeNative"}
                 \/ \E l \in 1..n : s[i] = todo[l]
      <4>1. CASE i \in 1..3
        BY <3>1, <4>1
      <4>2. ASSUME NEW l \in 1..(n - 1), i = 3 + l PROVE \E q \in 1..n : s[i] = todo[q]
        BY <3>2, <4>2
      <4>3. QED
        BY <2>15, <4>1, <4>2
    <3>4. QED
      BY <2>13, <3>3
  <2>17. \A i \in 1..Len(todo') : todo'[i].k \in Keeps => InWindow' < Slots
    <3>1. InWindow' = InWindow
      BY <1>1, WindowStays
    <3>2. QED
      BY <2>4, <2>6, <2>14, <2>16, <3>1 DEF WindowOK
  <2>18. CloseOK(todo)'
    BY <1>1, <2>4, <2>6, <2>14, <2>16 DEF CloseOK
  <2>19. FrontOK(todo)'
    <3>1. s[1].k = "retire" /\ s[2].k = "makeRoom"
      BY <2>3, <2>7, <2>13
    <3>2. QED
      BY <1>1, <2>14, <3>1 DEF FrontOK
  <2>20. StepsOrdered(todo)' /\ LaunchesOK(todo)' /\ todo' \in Seq(Steps)
    <3>1. StepsOrdered(todo)'
      BY <2>13, <2>14 DEF StepsOrdered
    <3>2. LaunchesOK(todo)'
      BY <1>1, <2>13, <2>14 DEF LaunchesOK, LaunchesBy
    <3>3. todo' \in Seq(Steps)
      BY <2>13, <2>14
    <3>4. QED
      BY <3>1, <3>2, <3>3
  <2>21. UntakenOK'
    BY <1>1 DEF FastInv, UntakenOK
  <2>22. QED
    BY <1>1, <2>17, <2>18, <2>19, <2>20, <2>21, WindowStays, Moves
<1>5. CASE Raise
  BY <1>1, <1>5, Raising
<1>6. QED
  BY <1>1, <1>2, <1>3, <1>4, <1>5 DEF Order

\* next(): the oldest pending group is ordered and moves to `consumed`.
LEMMA TakeKeeps == ASSUME FastInv, Take PROVE FastInv'
<1>1. UNCHANGED <<native, finished, totals, taken, handed, ownerState, registered, op>>
  BY DEF Take, opVars
<1>2. CASE deques.pending = <<>>
  <2>1. UNCHANGED deques /\ todo' = <<Do("drainPending"), Do("drainConsumed")>>
    BY <1>2 DEF Take, CloseSteps
  <2>2. {"drainPending", "drainConsumed"} \subseteq Alone \ {"closeNative"}
    BY DEF Alone
  <2>3. QED
    BY <1>1, <2>1, <2>2, TwoSteps, Begins
<1>3. CASE deques.pending # <<>>
  <2>1. PICK g : g = Oldest("pending")
    OBVIOUS
  <2>2. Pop("pending") /\ todo' = Ordering(g) \o <<On("keepConsumed", g), Do("fillNow")>>
    BY <1>3, <2>1 DEF Take
  <2>3. "pending" \in Queues /\ deques["pending"] # <<>>
    BY <1>3 DEF Queues
  <2>4. /\ deques' \in Deques /\ g \in FastGroups /\ Len(deques'.owner) <= MaxInflight
        /\ InWindow' <= Slots /\ InWindow' < Slots
        /\ \A h \in Range(deques'.pending) : native[h] # "none"
        /\ \A h \in FastGroups : native[h] = "running" /\ h \in Range(deques.owner)
                                    => h \in Range(deques'.owner)
    BY <1>1, <2>1, <2>2, <2>3, Popped
  <2>5. native[g] # "none"
    <3>1. deques.pending \in Seq(FastGroups) /\ WindowOK
      BY DEF FastInv, FastShape, Deques
    <3>2. Head(deques.pending) \in Range(deques.pending)
      BY <1>3, <3>1, Shorter
    <3>3. QED
      BY <2>1, <3>1, <3>2 DEF WindowOK, Oldest
  <2>6. PICK a : a = Ordering(g)
    OBVIOUS
  <2>7. PICK b : b = <<On("keepConsumed", g), Do("fillNow")>>
    OBVIOUS
  <2>8. PICK s : s = a \o b
    OBVIOUS
  <2>9. /\ a \in Seq(Steps) /\ Len(a) = 2 /\ a[1].k = "order" /\ a[1].g = g
        /\ a[2].k = "handOut" /\ a[2].g = g
        /\ b \in Seq(Steps) /\ Len(b) = 2 /\ b[1].k = "keepConsumed" /\ b[1].g = g
        /\ b[2].k = "fillNow"
    BY <2>4, <2>6, <2>7 DEF Ordering, On, Do, Steps, Alone, Uses, Keeps, Fills
  <2>10. /\ a \o b \in Seq(Steps) /\ Len(a \o b) = Len(a) + Len(b)
         /\ \A i \in 1..Len(a) : (a \o b)[i] = a[i]
         /\ \A i \in 1..Len(b) : (a \o b)[Len(a) + i] = b[i]
    <3>1. a \in Seq(Steps) /\ b \in Seq(Steps)
      BY <2>9
    <3>2. QED
      BY <3>1, Joined
  <2>11. /\ s \in Seq(Steps) /\ Len(s) = 2 + 2
         /\ \A i \in 1..2 : s[i] = a[i]
         /\ \A i \in 1..2 : s[2 + i] = b[i]
    BY <2>8, <2>9, <2>10
  <2>12. Len(s) = 4 /\ s[1] = a[1] /\ s[2] = a[2] /\ s[3] = b[1] /\ s[4] = b[2]
    BY <2>11
  <2>13. /\ s[1].k = "order" /\ s[2].k = "handOut" /\ s[3].k = "keepConsumed" /\ s[4].k = "fillNow"
         /\ s[1].g = g /\ s[2].g = g /\ s[3].g = g
    BY <2>9, <2>12
  <2>14. \A i \in 1..4 : i = 1 \/ i = 2 \/ i = 3 \/ i = 4
    OBVIOUS
  <2>15. StepsOrdered(s)
    <3>1. \A i \in 1..4 : s[i].k \notin {"retain", "launch"}
      BY <2>13, <2>14
    <3>2. \A i \in 1..4 : s[i].k = "handOut" => i = 2 /\ i - 1 = 1
      BY <2>13, <2>14
    <3>3. \A i \in 1..4 : s[i].k \in Keeps => i = 3
      BY <2>13, <2>14 DEF Keeps
    <3>4. \A j \in 1..(3 - 1) : s[j].k \notin Keeps \cup Fills
      BY <2>13 DEF Keeps, Fills
    <3>5. QED
      BY <2>12, <2>13, <3>1, <3>2, <3>3, <3>4 DEF StepsOrdered
  <2>16. LaunchesOK(s)
    BY <2>5, <2>12, <2>13, <2>14 DEF LaunchesOK, LaunchesBy, Uses, Keeps
  <2>17. todo' = s
    BY <2>2, <2>6, <2>7, <2>8
  <2>18. /\ StepsOrdered(todo)' /\ LaunchesOK(todo)' /\ todo' \in Seq(Steps)
    BY <1>1, <2>11, <2>15, <2>16, <2>17 DEF StepsOrdered, LaunchesOK, LaunchesBy
  <2>19. CloseOK(todo)' /\ FrontOK(todo)'
    BY <2>12, <2>13, <2>14, <2>17 DEF CloseOK, FrontOK
  <2>20. UntakenOK'
    BY <1>1 DEF FastInv, UntakenOK
  <2>21. QED
    BY <1>1, <2>4, <2>18, <2>19, <2>20, Moves
<1>4. QED
  BY <1>2, <1>3

\* The window submits its next group, on top of what it was doing.
LEMMA FillLaunches ==
  ASSUME FastInv, todo # <<>>, todo[1].k \in {"fillOne", "fill", "fillNow"},
         taken < Len(Prefetched), InWindow < Slots, taken' = taken + 1,
         todo' = Submitting(Prefetched[taken + 1]) \o <<On("keepPending", Prefetched[taken + 1])>> \o todo,
         UNCHANGED <<native, finished, totals, deques, handed, ownerState, registered, op>>
  PROVE  FastInv'
<1>1. /\ todo \in Seq(Steps) /\ StepsOrdered(todo) /\ LaunchesBy(todo, taken) /\ CloseOK(todo)
      /\ UntakenOK /\ WindowOK /\ taken \in 0..Len(Prefetched)
      /\ Prefetched \in Seq(Range(Prefetched)) /\ FastShape
  BY FastConstants DEF FastInv, FastShape, LaunchesOK
<1>2. taken \in Nat /\ taken + 1 \in 1..Len(Prefetched) /\ taken + 1 \in (taken + 1)..Len(Prefetched)
      /\ taken + 1 \in 1..(taken + 1)
  <2>1. PICK z \in Nat : z = Len(Prefetched)
    BY <1>1, LenProperties
  <2>2. QED
    BY <1>1, <2>1
<1>3. PICK g : g = Prefetched[taken + 1]
  OBVIOUS
<1>4. g \in FastGroups /\ native[g] = "none"
  BY <1>1, <1>2, <1>3, ElementOfSeq DEF FastGroups, UntakenOK
<1>5. PICK a : a = Submitting(g)
  OBVIOUS
<1>6. PICK b : b = <<On("keepPending", g)>>
  OBVIOUS
<1>7. /\ a \in Seq(Steps) /\ Len(a) = 3
      /\ a[1].k = "checkOpen" /\ a[2].k = "retire" /\ a[3].k = "launch" /\ a[3].g = g
      /\ b \in Seq(Steps) /\ Len(b) = 1 /\ b[1].k = "keepPending" /\ b[1].g = g
  <2>1. /\ b \in Seq(Steps) /\ Len(b) = 1 /\ b[1].k = "keepPending" /\ b[1].g = g
    BY <1>4, <1>6 DEF On, Steps, Uses, Keeps
  <2>2. QED
    BY <1>4, <1>5, <2>1, SubmittingList
<1>8. PICK p : p = a \o b
  OBVIOUS
<1>9. /\ p \in Seq(Steps) /\ Len(p) = 4 /\ p[1].k = "checkOpen" /\ p[2].k = "retire"
      /\ p[3].k = "launch" /\ p[3].g = g /\ p[4].k = "keepPending" /\ p[4].g = g
  <2>1. /\ a \o b \in Seq(Steps) /\ Len(a \o b) = Len(a) + Len(b)
        /\ \A i \in 1..Len(a) : (a \o b)[i] = a[i]
        /\ \A i \in 1..Len(b) : (a \o b)[Len(a) + i] = b[i]
    <3>1. a \in Seq(Steps) /\ b \in Seq(Steps)
      BY <1>7
    <3>2. QED
      BY <3>1, Joined
  <2>2. /\ p \in Seq(Steps) /\ Len(p) = 3 + 1
        /\ \A i \in 1..3 : p[i] = a[i]
        /\ \A i \in 1..1 : p[3 + i] = b[i]
    BY <1>7, <1>8, <2>1
  <2>3. Len(p) = 4 /\ p[1] = a[1] /\ p[2] = a[2] /\ p[3] = a[3] /\ p[4] = b[1]
    BY <2>2
  <2>4. QED
    BY <1>7, <2>2, <2>3
<1>10. \A i \in 1..4 : i = 1 \/ i = 2 \/ i = 3 \/ i = 4
  OBVIOUS
<1>11. StepsOrdered(p)
  <2>1. \A i \in 1..4 : p[i].k \notin {"retain", "handOut"}
    BY <1>9, <1>10
  <2>2. \A i \in 1..4 : p[i].k = "launch" => i = 3 /\ i - 1 = 2 /\ i - 2 = 1
    BY <1>9, <1>10
  <2>3. \A j \in 1..(3 - 1) : p[j].k \notin Fills \cup {"launch"}
    BY <1>9, <1>10 DEF Fills
  <2>4. \A i \in 1..4 : p[i].k \in Keeps => i = 4
    BY <1>9, <1>10 DEF Keeps
  <2>5. \A j \in 1..(4 - 1) : p[j].k \notin Keeps \cup Fills
    BY <1>9, <1>10 DEF Fills, Keeps
  <2>6. QED
    BY <1>9, <2>1, <2>2, <2>3, <2>4, <2>5 DEF StepsOrdered
<1>12. LaunchesBy(p, taken + 1)
  <2>1. \A i \in 1..4 : p[i].k \in Uses => i = 4
    BY <1>9, <1>10 DEF Uses, Keeps
  <2>2. \A i \in 1..4 : p[i].k = "launch" => i = 3
    BY <1>9, <1>10
  <2>3. \E j \in 1..(4 - 1) : p[j].k = "launch" /\ p[j].g = p[4].g
    <3>1. 3 \in 1..(4 - 1)
      OBVIOUS
    <3>2. QED
      BY <1>9, <3>1
  <2>4. \E m \in 1..(taken + 1) : p[3].g = Prefetched[m]
    BY <1>2, <1>3, <1>9
  <2>5. QED
    BY <1>4, <1>9, <2>1, <2>2, <2>3, <2>4 DEF LaunchesBy
<1>13. LaunchesBy(todo, taken + 1)
  <2>1. \A m \in 1..taken : m \in 1..(taken + 1)
    BY <1>2
  <2>2. QED
    BY <1>1, <2>1 DEF LaunchesBy
<1>14. PICK n \in Nat \ {0} : n = Len(todo)
  BY TodoTail
<1>15. todo[1].k \in Fills /\ 1 \in 1..n
  BY <1>14 DEF Fills
<1>16. /\ \A i \in 1..n : todo[i].k \notin Keeps
       /\ \A i \in 1..n : todo[i].k # "launch"
  <2>1. \A i \in 1..n : i = 1 \/ 1 \in 1..(i - 1)
    OBVIOUS
  <2>2. todo[1].k \notin Keeps /\ todo[1].k # "launch"
    BY <1>15 DEF Fills, Keeps
  <2>3. \A i \in 1..n : todo[i].k \in Keeps => \A j \in 1..(i - 1) : todo[j].k \notin Keeps \cup Fills
    BY <1>1, <1>14 DEF StepsOrdered
  <2>4. \A i \in 1..n : todo[i].k = "launch" => \A j \in 1..(i - 1) : todo[j].k \notin Fills \cup {"launch"}
    BY <1>1, <1>14 DEF StepsOrdered
  <2>5. QED
    BY <1>15, <2>1, <2>2, <2>3, <2>4
<1>17. StackOK(p, todo)
  <2>1. n > 1 => 2 \in 1..n
    OBVIOUS
  <2>2. todo[1].k \notin {"retain", "launch", "handOut"}
    BY <1>15 DEF Fills
  <2>3. QED
    BY <1>14, <1>16, <2>1, <2>2 DEF StackOK
<1>18. PICK s : s = p \o todo
  OBVIOUS
<1>19. /\ s \in Seq(Steps) /\ StepsOrdered(s) /\ LaunchesBy(s, taken + 1) /\ Len(s) = 4 + n
       /\ \A i \in 1..4 : s[i] = p[i]
       /\ \A i \in 1..n : s[4 + i] = todo[i]
  <2>1. /\ p \o todo \in Seq(Steps) /\ StepsOrdered(p \o todo) /\ LaunchesBy(p \o todo, taken + 1)
        /\ Len(p \o todo) = Len(p) + Len(todo)
        /\ \A i \in 1..Len(p) : (p \o todo)[i] = p[i]
        /\ \A i \in 1..Len(todo) : (p \o todo)[Len(p) + i] = todo[i]
    BY <1>1, <1>9, <1>11, <1>12, <1>13, <1>17, Stacked
  <2>2. QED
    BY <1>9, <1>14, <1>18, <2>1
<1>20. todo' = s
  <2>1. PICK x : x = Submitting(g) \o <<On("keepPending", g)>>
    OBVIOUS
  <2>2. x = p
    BY <1>5, <1>6, <1>8, <2>1
  <2>3. todo' = x \o todo
    BY <1>3, <2>1
  <2>4. QED
    BY <1>18, <2>2, <2>3
<1>21. StepsOrdered(todo)' /\ LaunchesOK(todo)' /\ todo' \in Seq(Steps)
  <2>1. StepsOrdered(todo)' /\ todo' \in Seq(Steps)
    BY <1>19, <1>20 DEF StepsOrdered
  <2>2. ASSUME NEW i \in 1..Len(s), s[i].k = "launch"
        PROVE  /\ native'[s[i].g] = "none"
               /\ s[i].g \in Direct \cup Restores \/ \E m \in 1..taken' : s[i].g = Prefetched[m]
    BY <1>19, <2>2 DEF LaunchesBy
  <2>3. ASSUME NEW i \in 1..Len(s), s[i].k \in Uses
        PROVE  \/ native'[s[i].g] # "none"
               \/ \E j \in 1..(i - 1) : s[j].k = "launch" /\ s[j].g = s[i].g
    BY <1>19, <2>3 DEF LaunchesBy
  <2>4. LaunchesOK(todo)'
    <3>1. ASSUME NEW i \in 1..Len(todo')
          PROVE  /\ todo'[i].k = "launch" =>
                      /\ native'[todo'[i].g] = "none"
                      /\ todo'[i].g \in Direct \cup Restores
                         \/ \E m \in 1..taken' : todo'[i].g = Prefetched[m]
                 /\ todo'[i].k \in Uses =>
                      \/ native'[todo'[i].g] # "none"
                      \/ \E j \in 1..(i - 1) : todo'[j].k = "launch" /\ todo'[j].g = todo'[i].g
      <4>1. i \in 1..Len(s) /\ todo'[i] = s[i]
        BY <1>20
      <4>2. \A j \in 1..(i - 1) : todo'[j] = s[j]
        BY <1>20
      <4>3. s[i].k = "launch" =>
              /\ native'[s[i].g] = "none"
              /\ s[i].g \in Direct \cup Restores \/ \E m \in 1..taken' : s[i].g = Prefetched[m]
        BY <2>2, <4>1
      <4>4. s[i].k \in Uses =>
              \/ native'[s[i].g] # "none"
              \/ \E j \in 1..(i - 1) : s[j].k = "launch" /\ s[j].g = s[i].g
        BY <2>3, <4>1
      <4>5. QED
        BY <4>1, <4>2, <4>3, <4>4
    <3>2. QED
      BY <3>1 DEF LaunchesOK, LaunchesBy
  <2>5. QED
    BY <2>1, <2>4
<1>22. \A i \in 1..(4 + n) : i \in 1..4 \/ \E l \in 1..n : i = 4 + l
  <2>1. \A i \in 1..(4 + n) : i \in 1..4 \/ (i - 4 \in 1..n /\ i = 4 + (i - 4))
    OBVIOUS
  <2>2. QED
    BY <2>1
<1>23. CloseOK(todo)'
  <2>1. ASSUME NEW i \in 1..(4 + n), s[i].k = "closeNative" PROVE ownerState # "open"
    <3>1. CASE i \in 1..4
      <4>1. s[i] = p[i] /\ p[i].k # "closeNative"
        BY <1>9, <1>10, <1>19, <3>1
      <4>2. QED
        BY <2>1, <4>1
    <3>2. ASSUME NEW l \in 1..n, i = 4 + l PROVE ownerState # "open"
      <4>1. s[i] = todo[l]
        BY <1>19, <3>2
      <4>2. QED
        BY <1>1, <1>14, <2>1, <4>1 DEF CloseOK
    <3>3. QED
      BY <1>22, <3>1, <3>2
  <2>2. QED
    BY <1>19, <1>20, <2>1 DEF CloseOK
<1>24. FrontOK(todo)'
  <2>1. s[1].k = "checkOpen"
    <3>1. 1 \in 1..4
      OBVIOUS
    <3>2. QED
      BY <1>9, <1>19, <3>1
  <2>2. QED
    BY <1>20, <2>1 DEF FrontOK
<1>25. UntakenOK'
  <2>1. PICK z \in Nat : z = Len(Prefetched)
    BY <1>1, LenProperties
  <2>2. \A m \in ((taken + 1) + 1)..z : m \in (taken + 1)..z
    BY <1>2
  <2>3. QED
    BY <1>1, <2>1, <2>2 DEF UntakenOK
<1>26. WindowOK'
  <2>1. /\ Len(deques'.owner) <= MaxInflight /\ InWindow' = InWindow /\ InWindow' <= Slots
        /\ \A h \in Range(deques'.pending) : native[h] # "none"
    BY WindowStays
  <2>2. QED
    BY <2>1 DEF WindowOK
<1>27. FastShape' /\ CountOK' /\ HandedOK' /\ ClosedOK'
  <2>1. taken' \in 0..Len(Prefetched)
    <3>1. PICK z \in Nat : z = Len(Prefetched)
      BY <1>1, LenProperties
    <3>2. QED
      BY <1>2, <3>1
  <2>2. FastShape'
    BY <1>1, <1>21, <2>1 DEF FastShape
  <2>3. CountOK' /\ HandedOK' /\ ClosedOK'
    BY DEF FastInv, CountOK, HandedOK, ClosedOK
  <2>4. QED
    BY <2>2, <2>3
<1>28. QED
  BY <1>21, <1>23, <1>24, <1>25, <1>26, <1>27 DEF FastInv

LEMMA FillKeeps == ASSUME FastInv, Fill PROVE FastInv'
<1>1. /\ todo # <<>> /\ todo[1].k \in {"fillOne", "fill", "fillNow"} /\ Head(todo) = todo[1]
      /\ UNCHANGED <<native, handed, ownerState, registered, op>>
  BY TodoTail DEF Fill, Doing, stateVars, opVars
<1>2. CASE NextStep /\ UNCHANGED <<deques, finished, totals, taken>>
  <2>1. todo[1].k \notin {"launch", "makeRoom", "order", "retain", "checkOpen"}
    BY <1>1
  <2>2. QED
    BY <1>1, <1>2, <2>1, StepDone
<1>3. CASE /\ deques.consumed # <<>> /\ native[Head(deques.consumed)] = "ok"
           /\ Finish(Head(deques.consumed)) /\ Pop("consumed") /\ UNCHANGED <<todo, taken>>
  <2>1. "consumed" \in Queues /\ Oldest("consumed") = Head(deques.consumed)
        /\ deques["consumed"] # <<>>
    BY <1>3 DEF Queues, Oldest
  <2>2. QED
    BY <1>1, <1>3, <2>1, Popping
<1>4. CASE Raise /\ UNCHANGED <<deques, finished, totals, taken>>
  BY <1>1, <1>4, Raising
<1>5. CASE /\ taken < Len(Prefetched) /\ InWindow < Slots /\ taken' = taken + 1
           /\ todo' = Submitting(Prefetched[taken + 1])
                        \o <<On("keepPending", Prefetched[taken + 1])>> \o todo
           /\ UNCHANGED <<deques, finished, totals>>
  BY <1>1, <1>5, FillLaunches
<1>6. QED
  BY <1>1, <1>2, <1>3, <1>4, <1>5 DEF Fill

LEMMA FastInitially == ASSUME FastInit PROVE FastInv
<1>1. /\ todo = <<>> /\ Len(todo) = 0 /\ todo \in Seq(Steps)
      /\ native = [g \in FastGroups |-> "none"] /\ finished = {} /\ totals = [g \in FastGroups |-> 0]
      /\ deques = [owner |-> <<>>, swap |-> <<>>, pending |-> <<>>, consumed |-> <<>>]
      /\ taken = 0 /\ handed = [g \in FastGroups |-> "no"] /\ ownerState = "open"
  BY DEF FastInit
<1>2. StepsOrdered(todo) /\ LaunchesOK(todo) /\ CloseOK(todo) /\ FrontOK(todo)
  BY <1>1 DEF StepsOrdered, LaunchesOK, LaunchesBy, CloseOK, FrontOK
<1>3. PICK z \in Nat : z = Len(Prefetched)
  BY FastConstants, LenProperties
<1>4. /\ deques.owner = <<>> /\ deques.swap = <<>> /\ deques.pending = <<>> /\ deques.consumed = <<>>
      /\ deques \in Deques
  BY <1>1 DEF Deques
<1>5. FastShape
  BY <1>1, <1>3, <1>4 DEF FastShape
<1>6. UntakenOK
  <2>1. \A m \in (0 + 1)..z : m \in 1..z
    OBVIOUS
  <2>2. \A m \in 1..z : Prefetched[m] \in FastGroups
    BY <1>3, FastConstants, ElementOfSeq DEF FastGroups
  <2>3. QED
    BY <1>1, <1>3, <2>1, <2>2 DEF UntakenOK
<1>7. WindowOK
  <2>1. Len(deques.owner) = 0 /\ Len(deques.pending) = 0 /\ Len(deques.consumed) = 0
    BY <1>4
  <2>2. MaxInflight \in Nat /\ Slots \in Nat
    BY FastConstants
  <2>3. InWindow = 0
    BY <2>1 DEF InWindow
  <2>4. Range(deques.pending) = {}
    BY <1>4 DEF Range
  <2>5. QED
    BY <1>1, <2>1, <2>2, <2>3, <2>4 DEF WindowOK
<1>8. CountOK /\ HandedOK /\ ClosedOK
  BY <1>1 DEF CountOK, HandedOK, ClosedOK
<1>9. QED
  BY <1>2, <1>5, <1>6, <1>7, <1>8 DEF FastInv

LEMMA FastNextKeeps == ASSUME FastInv, [FastNext]_fastVars PROVE FastInv'
<1>1. CASE UNCHANGED fastVars
  <2>1. UNCHANGED <<todo, native, finished, totals, deques, taken, handed, ownerState, registered, op>>
    BY <1>1 DEF fastVars
  <2>2. FastShape /\ CountOK /\ HandedOK /\ ClosedOK
    BY DEF FastInv
  <2>3. FastShape' /\ CountOK' /\ HandedOK' /\ ClosedOK'
    BY <2>1, <2>2 DEF FastShape, CountOK, HandedOK, ClosedOK
  <2>4. /\ LaunchesOK(todo)' /\ UntakenOK' /\ CloseOK(todo)' /\ StepsOrdered(todo)' /\ FrontOK(todo)'
        /\ \A i \in 1..Len(todo') : todo'[i].k \in Keeps => InWindow' < Slots
    BY <2>1, ListAndWindowStay
  <2>5. WindowOK'
    BY <2>1, <2>4, WindowStays DEF WindowOK
  <2>6. QED
    BY <2>3, <2>4, <2>5 DEF FastInv
<1>2. ASSUME NEW g \in FastGroups, Completes(g) PROVE FastInv'
  BY <1>2, CompletesKeeps
<1>3. ASSUME NEW g \in Direct, DirectDone(g) PROVE FastInv'
  BY <1>3, DoneKeeps DEF FastGroups
<1>4. CASE \/ \E g \in Direct : DirectSubmit(g) \/ DirectWait(g) \/ DirectWaitStream(g) \/ Evict(g)
           \/ \E g \in Restores : Restore(g)
           \/ Drain \/ NextGroup
  BY <1>4, CallsKeep
<1>5. CASE OpenWindow \/ CloseWindow
  BY <1>5, WindowKeeps
<1>6. CASE Close \/ CloseNative
  BY <1>6, CloseKeeps, CloseNativeKeeps
<1>7. CASE CheckOpen \/ Launch \/ Wait \/ Order \/ HandOut \/ Take \/ Fill
  BY <1>7, CheckOpenKeeps, LaunchKeeps, WaitKeeps, OrderKeeps, HandOutKeeps, TakeKeeps, FillKeeps
<1>8. CASE RetireOwner \/ RetireSwap
  BY <1>8, PollKeeps DEF RetireOwner, RetireSwap, Queues
<1>9. CASE MakeRoom
  <2>1. MaxInflight - 1 \in Nat
    BY FastConstants
  <2>2. QED
    BY <1>9, <2>1, BlockKeeps DEF MakeRoom, Queues
<1>10. CASE DrainOwner \/ DrainSwap \/ DrainPending \/ DrainConsumed
  BY <1>10, BlockKeeps DEF DrainOwner, DrainSwap, DrainPending, DrainConsumed, Queues
<1>11. CASE Retain \/ KeepRestored \/ KeepPending \/ KeepConsumed
  BY <1>11, PushKeeps DEF Retain, KeepRestored, KeepPending, KeepConsumed, Queues, Keeps
<1>12. CASE \/ Prepare \/ OpExecute \/ OpEnds
            \/ \E p \in Programs : Register(p) \/ Collected(p) \/ Lookup(p)
  BY <1>12, OpKeeps
<1>13. QED
  BY <1>1, <1>2, <1>3, <1>4, <1>5, <1>6, <1>7, <1>8, <1>9, <1>10, <1>11, <1>12 DEF FastNext

\* What holds between any two steps of the user's thread, the GPU and the
\* thread of the compiled graph (fast.py).
THEOREM FastInvariant == FastSpec => []FastInv
BY FastInitially, FastNextKeeps, PTL DEF FastSpec

\* However many deques share a completion, its group is counted once, and only
\* when it succeeded; the owner retains at most max_inflight completions and a
\* window keeps at most `slots` groups (_finish, _retain, FastPrefetch._fill).
THEOREM FlightsAreCounted == FastSpec => []FlightsCounted
<1>1. FastInv => FlightsCounted
  <2> SUFFICES ASSUME FastInv PROVE FlightsCounted
    OBVIOUS
  <2>1. CountedOnce
    BY DEF FastInv, CountOK, CountedOnce
  <2>2. InFlightBounded
    BY DEF FastInv, WindowOK, InWindow, InFlightBounded
  <2>3. QED
    BY <2>1, <2>2 DEF FlightsCounted
<1>2. QED
  BY <1>1, FastInvariant, PTL

\* Host outputs are handed out after their copies landed, a group whose stream
\* was ordered is retained while it runs, and a closed owner runs nothing
\* (wait, wait_stream, close).
THEOREM OutputsStaySafe == FastSpec => []OutputsSafe
<1>1. FastInv => OutputsSafe
  BY DEF FastInv, HandedOK, ClosedOK, OutputsSafe, HandedOutSafely, FastCloseDrains
<1>2. QED
  BY <1>1, FastInvariant, PTL

(****************************************************************************)
(* Prepared programs.                                                       *)
(*                                                                          *)
(* A result is made of the live operands, but its metadata and parameters   *)
(* come from what the program kept: the invariant says whose they are.      *)
(****************************************************************************)
SpecOK(spec) ==
  \E source \in SourceForms, index \in IndexForms :
    /\ BindsSource(source, "cpu") /\ BindsIndex(index)
    /\ spec = [key |-> SpecKey(source, index), rows |-> source.rows, count |-> Len(index.values)]

ProgramKept ==
  /\ producer \in {"typed", "layout"} =>
       /\ \E t \in SourceForms : preparedFrom.form = _signature(t) /\ preparedFrom.rows = t.rows
       /\ program.signature = preparedFrom.form
       /\ program.destination = destination(preparedFrom.rows)
       /\ producer = "typed" => program.parameters.version = <<preparedFrom.scale>>
  /\ producer = "indexed" =>
       /\ program = [prepared |-> TRUE, specs |-> program.specs]
       /\ \A spec \in program.specs : SpecOK(spec)
  /\ producer = "pooled" => program.views = TableRows

ProgramInv ==
  /\ producer \in Producers
  /\ tensors \in [source : SourceForms, version : Nat, index : IndexForms, scale : ScaleExtents,
                  scaleVersion : Nat, changes : Nat]
  /\ program.prepared => ProgramKept
  /\ captured # None => program.prepared
  /\ ProgramsExact

\* An output is not an error.
LEMMA OutputsAreNotErrors ==
  ASSUME NEW metadata, NEW cells
  PROVE  Result(metadata, cells) # Raised
BY DEF Result, Raised

\* What a signature and a key say of the operands they were taken from.
LEMMA SignatureRows ==
  ASSUME NEW s, NEW t, _signature(s) = _signature(t)
  PROVE  /\ s.rows = t.rows /\ s.columns = t.columns /\ s.strides = t.strides
         /\ s.dtype = t.dtype /\ s.device = t.device
BY DEF _signature

LEMMA KeyFacts ==
  ASSUME NEW s, NEW t, NEW i, NEW j, SpecKey(s, i) = SpecKey(t, j)
  PROVE  s.rows = t.rows /\ Len(i.values) = Len(j.values)
<1>1. _signature(s) = _signature(t) /\ Len(i.values) = Len(j.values)
  BY DEF SpecKey
<1>. QED
  BY <1>1, SignatureRows

\* A typed or layout program on a source of its signature (TypedProgram,
\* LayoutProgram).
LEMMA BoundRuns ==
  ASSUME ProgramInv, program.prepared, producer \in {"typed", "layout"}, NEW out
  PROVE  /\ RunBound(out) # Raised => RunBound(out) = BoundMeaning
         /\ BoundLegal /\ out \in {"none", "fits"} => RunBound(out) # Raised
<1>1. PICK t \in SourceForms : preparedFrom.form = _signature(t) /\ preparedFrom.rows = t.rows
  BY DEF ProgramInv, ProgramKept
<1>2. /\ program.signature = preparedFrom.form
      /\ program.destination = destination(preparedFrom.rows)
      /\ producer = "typed" => ScaleVersion = preparedFrom.scale
  <2>1. program.signature = preparedFrom.form /\ program.destination = destination(preparedFrom.rows)
    BY DEF ProgramInv, ProgramKept
  <2>2. ASSUME producer = "typed"
        PROVE  ScaleVersion = preparedFrom.scale
    <3>1. program.parameters.version = <<preparedFrom.scale>>
      BY <2>2 DEF ProgramInv, ProgramKept
    <3>2. <<preparedFrom.scale>> # <<>> /\ <<preparedFrom.scale>>[1] = preparedFrom.scale
      OBVIOUS
    <3>. QED
      BY <3>1, <3>2 DEF ScaleVersion
  <2>. QED
    BY <2>1, <2>2
<1>3. check => tensors.source.rows = preparedFrom.rows
  BY <1>1, <1>2, SignatureRows DEF check
<1>4. ASSUME RunBound(out) # Raised
      PROVE  RunBound(out) = BoundMeaning
  <2>1. check
    BY <1>4 DEF RunBound
  <2>2. RunBound(out) = Result(program.destination,
         [c \in 1 .. Columns |-> [r \in 1 .. tensors.source.rows |->
            IF producer = "typed" THEN <<Row(r), ScaleVersion>> ELSE Row(r)]])
    BY <1>4 DEF RunBound
  <2>3. CASE producer = "typed"
    <3>1. RunBound(out) = Result(program.destination,
           [c \in 1 .. Columns |-> [r \in 1 .. tensors.source.rows |-> <<Row(r), preparedFrom.scale>>]])
      BY <1>2, <2>2, <2>3
    <3>2. BoundMeaning = Result(destination(tensors.source.rows),
           [c \in 1 .. Columns |-> [r \in 1 .. tensors.source.rows |-> <<Row(r), preparedFrom.scale>>]])
      BY <2>3 DEF BoundMeaning
    <3>. QED
      BY <1>2, <1>3, <2>1, <3>1, <3>2
  <2>4. CASE producer = "layout"
    <3>1. RunBound(out) = Result(program.destination,
           [c \in 1 .. Columns |-> [r \in 1 .. tensors.source.rows |-> Row(r)]])
      BY <2>2, <2>4
    <3>2. BoundMeaning = Result(destination(tensors.source.rows),
           [c \in 1 .. Columns |-> [r \in 1 .. tensors.source.rows |-> Row(r)]])
      BY <2>4 DEF BoundMeaning
    <3>. QED
      BY <1>2, <1>3, <2>1, <3>1, <3>2
  <2>. QED
    BY <2>3, <2>4
<1>5. ASSUME BoundLegal, out \in {"none", "fits"}
      PROVE  RunBound(out) # Raised
  <2>1. check /\ DestinationOK(out)
    BY <1>2, <1>5 DEF BoundLegal, check, DestinationOK
  <2>. QED
    BY <2>1, OutputsAreNotErrors DEF RunBound
<1>. QED
  BY <1>4, <1>5

\* The metadata an indexed program uses is that of this call's operands,
\* bound now or kept from operands that look the same.
LEMMA SpecIsOurs ==
  ASSUME ProgramInv, program.prepared, producer = "indexed",
         Admits(tensors.source, tensors.index)
  PROVE  LET spec == Spec(tensors.source, tensors.index)
         IN  /\ spec.rows = tensors.source.rows /\ spec.count = Len(tensors.index.values)
             /\ SpecOK(spec)
<1> DEFINE source == tensors.source
           index == tensors.index
           known == {s \in program.specs : s.key = SpecKey(source, index)}
           spec == Spec(source, index)
<1>1. source \in SourceForms /\ index \in IndexForms
  BY DEF ProgramInv
<1>2. CASE known # {}
  <2>1. spec \in known
    BY <1>2 DEF Spec
  <2>2. PICK t \in SourceForms, j \in IndexForms :
          /\ BindsSource(t, "cpu") /\ BindsIndex(j)
          /\ spec = [key |-> SpecKey(t, j), rows |-> t.rows, count |-> Len(j.values)]
    BY <2>1 DEF ProgramInv, ProgramKept, SpecOK
  <2>3. SpecKey(t, j) = SpecKey(source, index)
    BY <2>1, <2>2
  <2>4. t.rows = source.rows /\ Len(j.values) = Len(index.values)
    BY <2>3, KeyFacts
  <2>. QED
    BY <2>2, <2>4 DEF SpecOK
<1>3. CASE known = {}
  <2>1. spec = [key |-> SpecKey(source, index), rows |-> source.rows, count |-> Len(index.values)]
    BY <1>3 DEF Spec
  <2>2. BindsSource(source, "cpu") /\ BindsIndex(index)
    BY <1>3 DEF Admits
  <2>3. SpecOK(spec)
    <3> HIDE DEF spec
    <3>. QED
      BY <1>1, <2>1, <2>2 DEF SpecOK
  <2>4. spec.rows = source.rows /\ spec.count = Len(index.values)
    <3> HIDE DEF spec
    <3>. QED
      BY <2>1
  <2>. QED
    BY <2>3, <2>4
<1>. QED
  BY <1>2, <1>3

\* An indexed program selects what index_select would (IndexedProgram).
LEMMA IndexedRuns ==
  ASSUME ProgramInv, program.prepared, producer = "indexed", NEW out
  PROVE  /\ RunIndexed(out) # Raised => RunIndexed(out) = IndexedMeaning
         /\ IndexedLegal /\ out \in {"none", "fits"} => RunIndexed(out) # Raised
<1> DEFINE source == tensors.source
           index == tensors.index
           spec == Spec(source, index)
           cells == [k \in DOMAIN index.values |-> Row(index.values[k] + 1)]
           runs == /\ Admits(source, index) /\ IndexOK(index)
                   /\ bind_indexed(spec, source, index) /\ DestinationOK(out)
<1>1. RunIndexed(out) = IF ~runs THEN Raised ELSE Result(destination(spec.count), cells)
  BY DEF RunIndexed
<1>2. Admits(source, index) => spec.rows = source.rows /\ spec.count = Len(index.values)
  BY SpecIsOurs
<1>3. IndexedMeaning = Result(destination(Len(index.values)), cells)
  BY DEF IndexedMeaning
<1>4. ASSUME IndexedLegal, out \in {"none", "fits"}
      PROVE  runs
  <2>1. Admits(source, index) /\ IndexOK(index) /\ DestinationOK(out)
    BY <1>4 DEF IndexedLegal, Admits, BindsIndex, IndexOK, DestinationOK
  <2>2. bind_indexed(spec, source, index)
    BY <1>2, <1>4, <2>1 DEF IndexedLegal, bind_indexed
  <2>. QED
    BY <2>1, <2>2
<1> HIDE DEF spec, cells
<1>5. runs => Result(destination(spec.count), cells) # Raised
  BY OutputsAreNotErrors
<1>. QED
  BY <1>1, <1>2, <1>3, <1>4, <1>5

\* A non-empty set of natural numbers has a least element.
LEMMA LeastNumber ==
  ASSUME NEW S, S \subseteq Nat, S # {}
  PROVE  \E least \in S : \A x \in S : least <= x
<1> DEFINE before == {ss \in Nat \X Nat : ss[1] < ss[2]}
<1>1. IsWellFoundedOn(before, Nat)
  BY NatLessThanWellFounded DEF OpToRel
<1>2. \A x, y \in Nat : x < y => <<x, y>> \in before
  OBVIOUS
<1> HIDE DEF before
<1>3. PICK least \in S : \A x \in S : <<x, least>> \notin before
  BY <1>1, WFMin
<1>4. ASSUME NEW x \in S
      PROVE  least <= x
  <2>1. x \in Nat /\ least \in Nat
    OBVIOUS
  <2>2. ~(x < least)
    BY <1>2, <1>3, <2>1
  <2>. QED
    BY <2>1, <2>2
<1>. QED
  BY <1>4

\* A sequence that never falls from one element to the next is ordered.
LEMMA RisingOrdered ==
  ASSUME NEW n \in Nat, NEW off, \A x \in 1 .. n : off[x] \in Int,
         \A x \in 1 .. n : x > 1 => off[x] >= off[x - 1],
         NEW b \in 1 .. n, NEW c \in 1 .. n, b <= c
  PROVE  off[b] <= off[c]
<1> DEFINE Falls == {x \in b .. n : off[x] < off[b]}
<1>1. Falls = {}
  <2> SUFFICES ASSUME Falls # {} PROVE FALSE
    OBVIOUS
  <2>1. Falls \subseteq Nat
    OBVIOUS
  <2>2. PICK x \in Falls : \A y \in Falls : x <= y
    BY <2>1, LeastNumber
  <2>3. b \in Int /\ x \in Int /\ x \in 1 .. n /\ b < x
    BY <2>2
  <2>4. x - 1 \in b .. n /\ x - 1 \in 1 .. n /\ x > 1 /\ ~(x <= x - 1)
    BY <2>3
  <2>5. x - 1 \notin Falls
    BY <2>2, <2>4
  <2>6. ~(off[x - 1] < off[b]) /\ off[x] < off[b] /\ off[x] >= off[x - 1]
    BY <2>2, <2>3, <2>4, <2>5
  <2>7. off[x - 1] \in Int /\ off[x] \in Int /\ off[b] \in Int
    BY <2>3, <2>4
  <2>. QED
    BY <2>6, <2>7
<1>2. c \in b .. n
  OBVIOUS
<1>3. ~(off[c] < off[b])
  BY <1>1, <1>2
<1>4. off[b] \in Int /\ off[c] \in Int
  OBVIOUS
<1>. QED
  BY <1>3, <1>4

\* Offsets that start at 0 and never fall are ordered.
LEMMA OffsetsOrdered ==
  ASSUME NEW bag, bag.indices \in Seq(Int), bag.offsets \in Seq(Int), OffsetsOK(bag),
         NEW b \in DOMAIN bag.offsets, NEW c \in DOMAIN bag.offsets, b <= c
  PROVE  bag.offsets[b] <= bag.offsets[c]
<1>1. PICK off \in Seq(Int), n \in Nat : off = bag.offsets /\ n = Len(off)
  BY LenProperties
<1>2. DOMAIN off = 1 .. n /\ \A x \in 1 .. n : off[x] \in Int
  BY <1>1, LenProperties, ElementOfSeq
<1>3. \A x \in 1 .. n : x > 1 => off[x] >= off[x - 1]
  BY <1>1, <1>2 DEF OffsetsOK
<1>4. b \in 1 .. n /\ c \in 1 .. n
  BY <1>1, <1>2
<1>5. off[b] <= off[c]
  BY <1>2, <1>3, <1>4, RisingOrdered
<1>. QED
  BY <1>1, <1>5

\* The greatest element of a set that has one.
LEMMA GreatestIs ==
  ASSUME NEW S, S \subseteq Int, NEW m \in S, \A x \in S : x <= m
  PROVE  Max(S) = m
<1>1. \A y \in S : m >= y
  OBVIOUS
<1>2. Max(S) \in S /\ \A y \in S : Max(S) >= y
  BY <1>1 DEF Max
<1>3. PICK greatest \in S : greatest = Max(S)
  BY <1>2
<1>4. greatest \in Int /\ m \in Int /\ greatest >= m /\ greatest <= m
  BY <1>2, <1>3
<1>. QED
  BY <1>3, <1>4

LEMMA LeastIs ==
  ASSUME NEW S, S \subseteq Int, NEW m \in S, \A x \in S : m <= x
  PROVE  Min(S) = m
<1>1. Min(S) \in S /\ \A y \in S : Min(S) <= y
  BY DEF Min
<1>2. PICK least \in S : least = Min(S)
  BY <1>1
<1>3. least \in Int /\ m \in Int /\ least <= m /\ m <= least
  BY <1>1, <1>2
<1>. QED
  BY <1>2, <1>3

\* The last of ordered offsets below k is the b-th when k is between it and
\* the next one.
LEMMA LastStart ==
  ASSUME NEW n \in Nat, NEW off, NEW k \in Int, NEW b \in 1 .. n, NEW end,
         \A x \in 1 .. n : off[x] \in Int, \A x, y \in 1 .. n : x <= y => off[x] <= off[y],
         off[1] < k, b < n => end = off[b + 1], b >= n => k <= end
  PROVE  Max({x \in 1 .. n : off[x] < k}) = b <=> off[b] < k /\ k <= end
<1> DEFINE Begun == {x \in 1 .. n : off[x] < k}
<1>1. ASSUME off[b] < k, k <= end
      PROVE  Max(Begun) = b
  <2>1. ASSUME NEW x \in Begun, b < x
        PROVE  FALSE
    <3>1. b < n /\ b + 1 \in 1 .. n /\ b + 1 <= x /\ x \in 1 .. n /\ off[x] < k
      BY <2>1
    <3>2. off[b + 1] <= off[x] /\ k <= off[b + 1] /\ off[b + 1] \in Int /\ off[x] \in Int
      BY <1>1, <3>1
    <3>. QED
      BY <3>1, <3>2
  <2>2. \A x \in Begun : x <= b
    BY <2>1
  <2>3. b \in Begun /\ Begun \subseteq Int
    BY <1>1
  <2> HIDE DEF Begun
  <2>. QED
    BY <2>2, <2>3, GreatestIs
<1>2. ASSUME Max(Begun) = b
      PROVE  off[b] < k /\ k <= end
  <2> DEFINE Bounds == {y \in Nat : \A x \in Begun : x <= y}
  <2>1. 1 \in Begun /\ Begun \subseteq Nat /\ n \in Bounds /\ Bounds \subseteq Nat
    OBVIOUS
  <2>2. PICK y \in Bounds : \A z \in Bounds : y <= z
    BY <2>1, LeastNumber
  <2>3. y \in Begun
    <3> SUFFICES ASSUME y \notin Begun PROVE FALSE
      OBVIOUS
    <3>1. \A x \in Begun : x \in Nat /\ x <= y /\ x # y
      BY <2>1, <2>2
    <3>2. y \in Nat /\ y >= 1 /\ \A x \in Begun : x <= y - 1
      BY <2>1, <2>2, <3>1
    <3>3. y - 1 \in Bounds
      BY <3>2
    <3>4. y <= y - 1
      BY <2>2, <3>3
    <3>. QED
      BY <3>2, <3>4
  <2>4. Max(Begun) = y
    <3>1. Begun \subseteq Int /\ \A x \in Begun : x <= y
      BY <2>1, <2>2
    <3> HIDE DEF Begun
    <3>. QED
      BY <2>3, <3>1, GreatestIs
  <2>5. b \in Begun /\ \A x \in Begun : x <= b
    BY <1>2, <2>2, <2>3, <2>4
  <2>6. CASE b < n
    <3>1. b + 1 \in 1 .. n /\ ~(b + 1 <= b) /\ end = off[b + 1]
      BY <2>6
    <3>2. ~(off[b + 1] < k) /\ off[b + 1] \in Int
      BY <2>5, <3>1
    <3>. QED
      BY <2>5, <3>1, <3>2
  <2>7. CASE ~(b < n)
    BY <2>5, <2>7
  <2>. QED
    BY <2>6, <2>7
<1>. QED
  BY <1>1, <1>2

\* The indices between two offsets are those of one bag: each index is in the
\* last bag that starts before it, and no earlier bag reaches it.
LEMMA BagHolds ==
  ASSUME NEW bag, bag.indices \in Seq(Int), bag.offsets \in Seq(Int), OffsetsOK(bag),
         NEW b \in DOMAIN bag.offsets
  PROVE  /\ bag.offsets[b] \in Nat /\ BagEnd(bag, b) \in bag.offsets[b] .. Len(bag.indices)
         /\ {k \in DOMAIN bag.indices : BagOf(bag, k) = b} = bag.offsets[b] + 1 .. BagEnd(bag, b)
<1> DEFINE off == bag.offsets
           n == Len(off)
           m == Len(bag.indices)
           first == off[b]
           end == BagEnd(bag, b)
<1>1. /\ n \in Nat /\ DOMAIN off = 1 .. n /\ \A x \in 1 .. n : off[x] \in Int
      /\ m \in Nat /\ DOMAIN bag.indices = 1 .. m
  BY LenProperties, ElementOfSeq
<1>2. off[1] = 0 /\ 1 \in 1 .. n /\ \A x \in 1 .. n : 0 <= off[x] /\ off[x] <= m
  <2>1. 1 \in 1 .. n
    BY <1>1
  <2>2. off[1] = 0 /\ \A x \in 1 .. n : off[x] <= m
    BY <1>1 DEF OffsetsOK
  <2>3. \A x \in 1 .. n : off[1] <= off[x]
    BY <1>1, <2>1, OffsetsOrdered
  <2>. QED
    BY <1>1, <2>1, <2>2, <2>3
<1>3. end = IF b < n THEN off[b + 1] ELSE m
  BY DEF BagEnd
<1>4. first \in Nat /\ end \in first .. m
  <2>1. CASE b < n
    <3>1. b + 1 \in 1 .. n /\ b <= b + 1
      BY <1>1, <2>1
    <3>2. first <= off[b + 1]
      BY <1>1, <3>1, OffsetsOrdered
    <3>. QED
      BY <1>1, <1>2, <1>3, <2>1, <3>1, <3>2
  <2>2. CASE ~(b < n)
    BY <1>1, <1>2, <1>3, <2>2
  <2>. QED
    BY <2>1, <2>2
<1>5. ASSUME NEW k \in 1 .. m
      PROVE  BagOf(bag, k) = b <=> first < k /\ k <= end
  <2>1. BagOf(bag, k) = Max({x \in 1 .. n : off[x] < k})
    BY <1>1 DEF BagOf
  <2>2. \A x, y \in 1 .. n : x <= y => off[x] <= off[y]
    BY <1>1, OffsetsOrdered
  <2>3. b \in 1 .. n /\ k \in Int /\ off[1] < k /\ (b >= n => k <= end)
    BY <1>1, <1>2, <1>3
  <2>. QED
    BY <1>1, <1>3, <2>1, <2>2, <2>3, LastStart
<1>6. {k \in 1 .. m : BagOf(bag, k) = b} = first + 1 .. end
  <2>1. ASSUME NEW k \in 1 .. m, BagOf(bag, k) = b
        PROVE  k \in first + 1 .. end
    BY <1>1, <1>4, <1>5, <2>1
  <2>2. ASSUME NEW k \in first + 1 .. end
        PROVE  k \in 1 .. m /\ BagOf(bag, k) = b
    <3>1. k \in 1 .. m /\ first < k /\ k <= end
      BY <1>1, <1>4
    <3>. QED
      BY <1>5, <3>1
  <2>. QED
    BY <2>1, <2>2
<1>. QED
  BY <1>1, <1>4, <1>6

\* The size of the interval of one bag, in the forms the code and the library write.
LEMMA IntervalSize ==
  ASSUME NEW first \in Nat, NEW end \in Nat, first <= end
  PROVE  /\ end - (first + 1) + 1 = end - first
         /\ (IF first + 1 > end THEN 0 ELSE end - (first + 1) + 1) = end - first
         /\ (IF first + 1 <= end THEN end - (first + 1) + 1 ELSE 0) = end - first
<1>1. end - (first + 1) + 1 = end - first
  OBVIOUS
<1>2. CASE first = end
  BY <1>2
<1>3. CASE first < end
  BY <1>1, <1>3
<1>. QED
  BY <1>1, <1>2, <1>3

\* The place of the i-th index of a bag.
LEMMA IndexPlace ==
  ASSUME NEW first \in Int, NEW i \in Int
  PROVE  first + 1 + i - 1 = first + i
OBVIOUS

LEMMA IndexInside ==
  ASSUME NEW first \in Nat, NEW m \in Nat, NEW end \in Nat, end <= m, NEW i \in 1 .. end - first
  PROVE  /\ i \in Int /\ 1 <= i /\ i <= end - first
         /\ first + 1 \in first + 1 .. end
         /\ first + i \in 1 .. m
<1>1. i \in Int /\ 1 <= i /\ i <= end - first
  OBVIOUS
<1>2. first + i <= end /\ first + 1 <= end
  BY <1>1
<1>3. first + 1 \in first + 1 .. end
  BY <1>2
<1>4. first + i \in 1 .. m
  BY <1>1, <1>2
<1>. QED
  BY <1>1, <1>3, <1>4

\* What the native bags read is what EmbeddingBag means by them.
BagMeaning(bag, b) ==
  LET mine == {k \in DOMAIN bag.indices : BagOf(bag, k) = b}
  IN  [n \in 1 .. Cardinality(mine) |-> bag.indices[Min(mine) + n - 1]]

LEMMA BagIsMeant ==
  ASSUME NEW bag, bag.indices \in Seq(Int), bag.offsets \in Seq(Int), OffsetsOK(bag),
         NEW b \in DOMAIN bag.offsets
  PROVE  Bag(bag, b) = BagMeaning(bag, b)
<1> DEFINE mine == {k \in DOMAIN bag.indices : BagOf(bag, k) = b}
           meant == [n \in 1 .. Cardinality(mine) |-> bag.indices[Min(mine) + n - 1]]
<1>1. PICK first \in Nat, m \in Nat, end \in Nat :
        /\ first = bag.offsets[b] /\ m = Len(bag.indices) /\ end = BagEnd(bag, b)
        /\ first <= end /\ end <= m
  BY BagHolds, LenProperties
<1>2. mine = first + 1 .. end /\ first + 1 \in Int /\ end \in Int
  BY <1>1, BagHolds
<1>3. \A k \in 1 .. m : bag.indices[k] \in Int
  BY <1>1, ElementOfSeq
<1>4. Bag(bag, b) = SubSeq(bag.indices, first + 1, end)
  BY <1>1 DEF Bag
<1>5. Cardinality(mine) = end - first
  <2>1. Cardinality(first + 1 .. end) = IF first + 1 > end THEN 0 ELSE end - (first + 1) + 1
    BY <1>2, FS_Interval
  <2>2. (IF first + 1 > end THEN 0 ELSE end - (first + 1) + 1) = end - first
    BY <1>1, IntervalSize
  <2>. QED
    BY <1>2, <2>1, <2>2
<1>6. /\ Bag(bag, b) \in Seq(Int) /\ Len(Bag(bag, b)) = end - first
      /\ \A i \in 1 .. end - first : Bag(bag, b)[i] = bag.indices[first + i]
  <2>1. \A i \in first + 1 .. end : bag.indices[i] \in Int
    BY <1>1, <1>3
  <2>2. /\ SubSeq(bag.indices, first + 1, end) \in Seq(Int)
        /\ Len(SubSeq(bag.indices, first + 1, end)) = IF first + 1 <= end THEN end - (first + 1) + 1 ELSE 0
        /\ \A i \in 1 .. end - (first + 1) + 1 :
             SubSeq(bag.indices, first + 1, end)[i] = bag.indices[first + 1 + i - 1]
    BY <1>2, <2>1, SubSeqProperties
  <2>3. (IF first + 1 <= end THEN end - (first + 1) + 1 ELSE 0) = end - first
    BY <1>1, IntervalSize
  <2>4. end - (first + 1) + 1 = end - first /\ \A i \in Int : first + 1 + i - 1 = first + i
    BY <1>1, IntervalSize, IndexPlace
  <2>. QED
    BY <1>4, <2>2, <2>3, <2>4
<1>7. \A i \in 1 .. end - first : Min(mine) + i - 1 = first + i /\ bag.indices[first + i] \in Int
  <2> SUFFICES ASSUME NEW i \in 1 .. end - first
               PROVE  Min(mine) + i - 1 = first + i /\ bag.indices[first + i] \in Int
    OBVIOUS
  <2> HIDE DEF mine
  <2>1. i \in Int /\ first + 1 \in first + 1 .. end /\ first + i \in 1 .. m
    BY <1>1, IndexInside
  <2>2. first + 1 .. end \subseteq Int /\ \A x \in first + 1 .. end : first + 1 <= x
    BY <1>2
  <2>3. Min(first + 1 .. end) = first + 1
    BY <2>1, <2>2, LeastIs
  <2>4. Min(mine) + i - 1 = first + i
    BY <1>1, <1>2, <2>1, <2>3, IndexPlace
  <2>. QED
    BY <1>3, <2>1, <2>4
<1> HIDE DEF mine
<1>8. /\ meant = [n \in 1 .. end - first |-> bag.indices[Min(mine) + n - 1]]
  BY <1>5
<1>9. meant = [n \in 1 .. end - first |-> bag.indices[first + n]]
  BY <1>7, <1>8
<1>10. end - first \in Nat
  BY <1>1
<1>11. meant \in Seq(Int) /\ Len(meant) = end - first
  <2>1. PICK size \in Nat : size = end - first
    BY <1>10
  <2>2. meant \in [1 .. size -> Int]
    BY <1>7, <1>9, <2>1
  <2> HIDE DEF meant
  <2>3. meant \in Seq(Int)
    BY <2>2, IsASeq
  <2>4. PICK l \in Nat : l = Len(meant) /\ 1 .. l = 1 .. size
    BY <2>2, <2>3, LenProperties
  <2>5. l = size
    <3>1. ASSUME NEW x \in Nat, NEW y \in Nat, 1 .. x = 1 .. y, x < y  PROVE FALSE
      <4>1. y \in 1 .. y /\ y \notin 1 .. x
        BY <3>1
      <4>. QED
        BY <3>1, <4>1
    <3>. QED
      BY <2>4, <3>1
  <2>. QED
    BY <2>1, <2>3, <2>4, <2>5
<1>12. \A i \in 1 .. end - first : meant[i] = bag.indices[first + i]
  BY <1>9
<1>13. Bag(bag, b) = meant
  <2> HIDE DEF meant
  <2>. QED
    BY <1>6, <1>11, <1>12, SeqEqual
<1>. QED
  BY <1>13 DEF mine, BagMeaning

\* A pooled program sums the rows EmbeddingBag would (PooledProgram).
LEMMA PooledRuns ==
  ASSUME ProgramInv, program.prepared, producer = "pooled", NEW out,
         NEW bags \in [DOMAIN TableRows -> BagForms]
  PROVE  RunPooled(bags, out) # Raised => RunPooled(bags, out) = PooledMeaning(bags)
<1> DEFINE rows == DOMAIN bags[1].offsets
           cells == [b \in rows |-> [t \in DOMAIN bags |-> Bag(bags[t], b)]]
<1> SUFFICES ASSUME RunPooled(bags, out) # Raised
             PROVE  RunPooled(bags, out) = PooledMeaning(bags)
  OBVIOUS
<1>1. 1 \in DOMAIN bags
  <2>1. DOMAIN TableRows = 1 .. Len(TableRows) /\ Len(TableRows) \in Nat /\ Len(TableRows) # 0
    BY ProgramConstants, LenProperties, EmptySeq
  <2>. QED
    BY <2>1
<1>2. \A t \in DOMAIN bags : bags[t].indices \in Seq(Int) /\ bags[t].offsets \in Seq(Int)
  BY ProgramConstants
<1>3. /\ \A t \in DOMAIN bags : Len(bags[t].offsets) = Len(bags[1].offsets) /\ OffsetsOK(bags[t])
      /\ RunPooled(bags, out) = Result(destination(Len(bags[1].offsets)), cells)
  BY DEF RunPooled
<1>4. \A t \in DOMAIN bags : DOMAIN bags[t].offsets = rows
  BY <1>1, <1>2, <1>3, LenProperties
<1>5. ASSUME NEW t \in DOMAIN bags, NEW b \in rows
      PROVE  Bag(bags[t], b) = BagMeaning(bags[t], b)
  <2>1. PICK bag : bag = bags[t]
    OBVIOUS
  <2>2. /\ bag.indices \in Seq(Int) /\ bag.offsets \in Seq(Int)
        /\ b \in DOMAIN bag.offsets /\ OffsetsOK(bag)
    BY <1>2, <1>3, <1>4, <2>1
  <2>3. Bag(bag, b) = BagMeaning(bag, b)
    BY <2>2, BagIsMeant
  <2>. QED
    BY <2>1, <2>3
<1>6. PooledMeaning(bags) = Result(destination(Len(bags[1].offsets)),
                                   [b \in rows |-> [t \in DOMAIN bags |-> BagMeaning(bags[t], b)]])
  BY DEF PooledMeaning, BagMeaning
<1> HIDE DEF rows
<1>7. cells = [b \in rows |-> [t \in DOMAIN bags |-> BagMeaning(bags[t], b)]]
  BY <1>5
<1>. QED
  BY <1>3, <1>6, <1>7

\* A call of any kind returns what its recipe means, or raises; it does not
\* raise for operands the recipe admits.
LEMMA CallIsExact ==
  ASSUME ProgramInv, program.prepared, NEW traced, NEW outs, NEW call \in Calls(traced, outs)
  PROVE  /\ Run(call) # Raised => ownerOpen /\ Run(call) = Meaning(call)
         /\ ownerOpen /\ call.out \in {"none", "fits"} /\ Legal => Run(call) # Raised
<1>1. producer \in Producers
  BY DEF ProgramInv
<1>2. CASE producer = "indexed"
  BY <1>2, IndexedRuns DEF Run, Meaning, Legal
<1>3. CASE producer = "pooled"
  <2>1. call.bags \in [DOMAIN TableRows -> BagForms]
    BY <1>3 DEF Calls
  <2>. QED
    BY <1>3, <2>1, PooledRuns DEF Run, Meaning, Legal
<1>4. CASE producer \in {"typed", "layout"}
  BY <1>4, BoundRuns DEF Run, Meaning, Legal
<1>. QED
  BY <1>1, <1>2, <1>3, <1>4 DEF Producers

\* Bindings of an indexed program that a call may add.
LEMMA SpecsStayOurs ==
  ASSUME ProgramInv, program.prepared, producer = "indexed"
  PROVE  \A spec \in SpecsAfter : SpecOK(spec)
<1>1. \A spec \in program.specs : SpecOK(spec)
  BY DEF ProgramInv, ProgramKept
<1>2. Admits(tensors.source, tensors.index) => SpecOK(Spec(tensors.source, tensors.index))
  BY SpecIsOurs
<1>. QED
  BY <1>1, <1>2 DEF SpecsAfter

\* A program keeps what it was prepared from, whatever is called.
LEMMA ProgramStaysKept ==
  ASSUME ProgramInv, program.prepared, Effects, UNCHANGED <<producer, preparedFrom>>
  PROVE  program'.prepared /\ ProgramKept'
<1>1. ProgramKept
  BY DEF ProgramInv
<1>2. CASE program' = program
  BY <1>1, <1>2 DEF ProgramKept, destination
<1>3. CASE producer = "indexed" /\ program' = [program EXCEPT !.specs = SpecsAfter]
  <2>1. program = [prepared |-> TRUE, specs |-> program.specs]
    BY <1>1, <1>3 DEF ProgramKept
  <2>2. program' = [prepared |-> TRUE, specs |-> SpecsAfter]
    BY <1>3, <2>1
  <2>3. \A spec \in SpecsAfter : SpecOK(spec)
    BY <1>3, SpecsStayOurs
  <2>4. \A spec \in SpecsAfter : SpecOK(spec)'
    BY <2>3 DEF SpecOK
  <2>. QED
    BY <1>3, <2>2, <2>4 DEF ProgramKept
<1>. QED
  BY <1>2, <1>3 DEF Effects

\* The answer of a call that changes no operand.
LEMMA AnswersAreExact ==
  ASSUME ProgramInv, program.prepared, Effects, NEW traced \in BOOLEAN, NEW outs,
         NEW call \in Calls(traced, outs), NEW given, Answers(call, given),
         given # Raised => given = Run(call) /\ (traced => given.metadata = captured),
         ~traced => given = Run(call),
         UNCHANGED <<tensors, producer, preparedFrom, ownerOpen, captured>>
  PROVE  ProgramInv'
<1>1. answer' = [call |-> call, value |-> given] /\ call.op = traced
  BY DEF Answers, Calls
<1>2. Meaning(call)' = Meaning(call) /\ Legal' = Legal
  BY DEF Meaning, IndexedMeaning, PooledMeaning, BoundMeaning, Legal, IndexedLegal, BoundLegal, Row, destination
<1>3. ProgramsExact'
  <2>1. given # Raised => ownerOpen /\ given = Meaning(call)
    BY CallIsExact
  <2>2. ownerOpen /\ ~traced /\ call.out \in {"none", "fits"} /\ Legal => given # Raised
    BY CallIsExact
  <2>. QED
    BY <1>1, <1>2, <2>1, <2>2 DEF ProgramsExact
<1>4. program'.prepared /\ ProgramKept'
  BY ProgramStaysKept
<1>. QED
  BY <1>3, <1>4 DEF ProgramInv

LEMMA ProgramsInitially == ProgramsInit => ProgramInv
<1> SUFFICES ASSUME ProgramsInit PROVE ProgramInv
  OBVIOUS
<1>1. ~program.prepared /\ captured = None /\ answer = None
  BY DEF ProgramsInit, Unprepared
<1>2. /\ producer \in Producers
      /\ tensors \in [source : SourceForms, version : Nat, index : IndexForms, scale : ScaleExtents,
                      scaleVersion : Nat, changes : Nat]
  BY DEF ProgramsInit
<1>. QED
  BY <1>1, <1>2 DEF ProgramInv, ProgramsExact

LEMMA ProgramsNextKeeps == ProgramInv /\ [ProgramsNext]_programVars => ProgramInv'
<1> SUFFICES ASSUME ProgramInv, [ProgramsNext]_programVars PROVE ProgramInv'
  OBVIOUS
<1>1. /\ producer \in Producers
      /\ tensors \in [source : SourceForms, version : Nat, index : IndexForms, scale : ScaleExtents,
                      scaleVersion : Nat, changes : Nat]
      /\ program.prepared => ProgramKept
      /\ captured # None => program.prepared
  BY DEF ProgramInv
<1>2. ASSUME UNCHANGED <<producer, program, preparedFrom>>
      PROVE  ProgramKept => ProgramKept'
  BY <1>2 DEF ProgramKept, destination
<1>3. CASE ChangeTensors
  <2>1. /\ answer' = None /\ UNCHANGED <<producer, program, preparedFrom, ownerOpen, captured>>
        /\ tensors' \in [source : SourceForms, version : Nat, index : IndexForms, scale : ScaleExtents,
                         scaleVersion : Nat, changes : Nat]
    <3>1. answer' = None /\ UNCHANGED <<producer, program, preparedFrom, ownerOpen, captured>>
      BY <1>3 DEF ChangeTensors
    <3>2. PICK operands \in [source : SourceForms, version : Nat, index : IndexForms, scale : ScaleExtents,
                             scaleVersion : Nat, changes : Nat] : operands = tensors
      BY <1>1
    <3>3. CASE \E s \in SourceForms :
                 tensors' = [tensors EXCEPT !.source = s, !.version = @ + 1, !.changes = @ + 1]
      <4>1. PICK s \in SourceForms :
              tensors' = [operands EXCEPT !.source = s, !.version = operands.version + 1,
                                          !.changes = operands.changes + 1]
        BY <3>2, <3>3
      <4>2. operands.version + 1 \in Nat /\ operands.changes + 1 \in Nat
        OBVIOUS
      <4>. QED
        BY <3>1, <4>1, <4>2
    <3>4. CASE \E i \in IndexForms : tensors' = [tensors EXCEPT !.index = i, !.changes = @ + 1]
      <4>1. PICK i \in IndexForms :
              tensors' = [operands EXCEPT !.index = i, !.changes = operands.changes + 1]
        BY <3>2, <3>4
      <4>2. operands.changes + 1 \in Nat
        OBVIOUS
      <4>. QED
        BY <3>1, <4>1, <4>2
    <3>5. CASE \E n \in ScaleExtents :
                 tensors' = [tensors EXCEPT !.scale = n, !.scaleVersion = @ + 1, !.changes = @ + 1]
      <4>1. PICK n \in ScaleExtents :
              tensors' = [operands EXCEPT !.scale = n, !.scaleVersion = operands.scaleVersion + 1,
                                          !.changes = operands.changes + 1]
        BY <3>2, <3>5
      <4>2. operands.scaleVersion + 1 \in Nat /\ operands.changes + 1 \in Nat
        OBVIOUS
      <4>. QED
        BY <3>1, <4>1, <4>2
    <3>. QED
      BY <1>3, <3>3, <3>4, <3>5 DEF ChangeTensors
  <2>. QED
    BY <1>1, <1>2, <2>1 DEF ProgramInv, ProgramsExact, None
<1>4. CASE CloseOwner
  <2>1. answer' = None /\ UNCHANGED <<tensors, producer, program, preparedFrom, captured>>
    BY <1>4 DEF CloseOwner
  <2>. QED
    BY <1>1, <1>2, <2>1 DEF ProgramInv, ProgramsExact, None
<1>5. CASE Capture
  <2>1. answer' = None /\ program.prepared /\ UNCHANGED <<tensors, producer, program, preparedFrom, ownerOpen>>
    BY <1>5 DEF Capture
  <2>. QED
    BY <1>1, <1>2, <2>1 DEF ProgramInv, ProgramsExact, None
<1>6. CASE PrepareProgram
  <2>1. /\ answer' = None /\ preparedFrom' = Operands /\ program'.prepared
        /\ UNCHANGED <<tensors, producer, ownerOpen, captured>>
        /\ program' = CASE producer = "indexed" -> [prepared |-> TRUE, specs |-> {}]
                        [] producer = "pooled"  -> [prepared |-> TRUE, views |-> TableRows]
                        [] OTHER            -> _init_common
    BY <1>6 DEF PrepareProgram
  <2>2. ProgramKept'
    <3>1. CASE producer = "indexed"
      BY <2>1, <3>1 DEF ProgramKept
    <3>2. CASE producer = "pooled"
      BY <2>1, <3>2 DEF ProgramKept
    <3>3. CASE producer \in {"typed", "layout"}
      <4>1. program' = _init_common
        BY <2>1, <3>3
      <4>2. program' = [prepared |-> TRUE, signature |-> _signature(tensors.source),
              destination |-> destination(tensors.source.rows),
              parameters |-> IF producer = "typed" THEN _parameter_snapshot(tensors.scale) ELSE None]
        BY <2>1, <4>1 DEF _init_common, Unprepared
      <4>3. /\ preparedFrom'.form = _signature(tensors.source) /\ preparedFrom'.rows = tensors.source.rows
            /\ preparedFrom'.scale = tensors.scaleVersion
        BY <2>1 DEF Operands
      <4>4. producer = "typed" => program'.parameters.version = <<tensors.scaleVersion>>
        BY <4>2 DEF _parameter_snapshot
      <4>5. \A rows : destination(rows)' = destination(rows)
        BY <2>1 DEF destination
      <4>6. program'.signature = preparedFrom'.form /\ program'.destination = destination(preparedFrom'.rows)
        BY <4>2, <4>3
      <4>7. tensors.source \in SourceForms
        BY <1>1
      <4>. QED
        BY <2>1, <3>3, <4>3, <4>4, <4>5, <4>6, <4>7 DEF ProgramKept
    <3>. QED
      BY <1>1, <3>1, <3>2, <3>3 DEF Producers
  <2>. QED
    BY <1>1, <2>1, <2>2 DEF ProgramInv, ProgramsExact, None
<1>7. CASE ExecuteProgram
  <2>1. PICK call \in Calls(FALSE, Outs) : Answers(call, Run(call))
    BY <1>7 DEF ExecuteProgram
  <2>. QED
    BY <1>7, <2>1, AnswersAreExact DEF ExecuteProgram
<1>8. CASE RunOp
  <2>1. PICK call \in Calls(TRUE, {"none"}) : Answers(call, _verify(Run(call), captured))
    BY <1>8 DEF RunOp
  <2>2. _verify(Run(call), captured) # Raised =>
          /\ _verify(Run(call), captured) = Run(call)
          /\ _verify(Run(call), captured).metadata = captured
    BY DEF _verify
  <2>3. program.prepared
    BY <1>1, <1>8 DEF RunOp
  <2>. QED
    BY <1>8, <2>1, <2>2, <2>3, AnswersAreExact DEF RunOp
<1>9. CASE UNCHANGED programVars
  <2>1. UNCHANGED <<tensors, producer, program, preparedFrom, ownerOpen, captured, answer>>
    BY <1>9 DEF programVars
  <2>2. Legal' = Legal
    BY <2>1 DEF Legal, IndexedLegal, BoundLegal
  <2>3. Meaning(answer.call)' = Meaning(answer.call)
    BY <2>1 DEF Meaning, IndexedMeaning, PooledMeaning, BoundMeaning, Row, destination
  <2>4. ProgramsExact'
    BY <1>1, <2>1, <2>2, <2>3 DEF ProgramInv, ProgramsExact
  <2>. QED
    BY <1>1, <1>2, <2>1, <2>4 DEF ProgramInv
<1>. QED
  BY <1>3, <1>4, <1>5, <1>6, <1>7, <1>8, <1>9 DEF ProgramsNext

\* What a prepared program kept stays true of what it was prepared from
\* (TypedProgram, LayoutProgram, IndexedProgram, PooledProgram).
THEOREM ProgramInvariant == ProgramsSpec => []ProgramInv
BY ProgramsInitially, ProgramsNextKeeps, PTL DEF ProgramsSpec

\* A call returns what its recipe says of the live operands and the parameters
\* of its preparation, or raises; it never raises for operands the recipe
\* admits, and a captured graph gets only the metadata it was promised.
THEOREM ProgramsStayExact == ProgramsSpec => []ProgramsExact
<1>1. ProgramInv => ProgramsExact
  BY DEF ProgramInv
<1>. QED
  BY <1>1, ProgramInvariant, PTL
=============================================================================
