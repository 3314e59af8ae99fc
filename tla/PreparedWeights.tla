--------------------------- MODULE PreparedWeights ---------------------------
(****************************************************************************)
(* The weights a process keeps prepared, in two parts that share no state:  *)
(* layouts of live slots, then packed snapshots for the wire.               *)
(*                                                                          *)
(* The live-slot weight cache (reloc_torch/weights.py): get(name) resolves  *)
(* a module slot, reuses the transformed host layout of an earlier call     *)
(* only if identity, version and bytes are unchanged, and otherwise builds  *)
(* it again.  One lock covers a whole get(), so calls of this owner are     *)
(* serial; the module itself belongs to other threads, which replace the    *)
(* slot, write it in place (the version counter moves) or write its memory  *)
(* behind Torch's back (it does not).                                       *)
(****************************************************************************)
EXTENDS Naturals, FiniteSets, Charges

CONSTANTS
  Contents,          \* possible contents of the weight
  NoWeight,          \* no stable state, no result
  MaxWrites, MaxGets \* bounds of the model

ASSUME WeightConstants ==
  /\ NoWeight \notin Contents /\ Contents # {} /\ {MaxWrites, MaxGets} \subseteq Nat

VARIABLES
  slot,       \* the live slot: identity, version counter, contents
  old,        \* contents of the tensor a get() resolved, once it is replaced
  stable,     \* the retained state, or NoWeight
  get,        \* the call in progress, or the last one
  held,       \* contents the slot had since the call began
  silent,     \* history: unversioned writes while the layout was being built
  masked,     \* history: two of them restored the bytes and were not seen
  wclosed, writes, gets

weightVars == <<slot, old, stable, get, held, silent, masked, wclosed, writes, gets>>

NoGet == [pc |-> "idle", id |-> 0, version |-> 0, current |-> NoWeight,
          prepared |-> NoWeight, result |-> NoWeight]

WeightsInit ==
  /\ \E v \in Contents : slot = [id |-> 0, version |-> 0, contents |-> v]
  /\ old = NoWeight /\ stable = NoWeight /\ get = NoGet /\ held = {} /\ silent = 0 /\ masked = FALSE
  /\ wclosed = FALSE /\ writes = 0 /\ gets = 0

(* The contents of the tensor the call resolved: the slot's, unless the     *)
(* slot was replaced meanwhile.                                             *)
Src == IF slot.id = get.id THEN slot.contents ELSE old

-----------------------------------------------------------------------------
(* The module's own threads.                                                *)
Write ==
  /\ writes < MaxWrites /\ writes' = writes + 1
  /\ \E v \in Contents :
       \/ /\ slot' = [slot EXCEPT !.version = @ + 1, !.contents = v]
          /\ UNCHANGED <<old, silent>>
       \/ /\ v # slot.contents /\ slot' = [slot EXCEPT !.contents = v]
          /\ silent' = IF get.pc = "publish" \/ get.pc = "build" THEN silent + 1 ELSE silent
          /\ UNCHANGED old
       \/ /\ slot' = [id |-> slot.id + 1, version |-> 0, contents |-> v]
          /\ old' = IF slot.id = get.id THEN slot.contents ELSE old
          /\ UNCHANGED silent
       /\ held' = held \cup {v}
  /\ UNCHANGED <<stable, get, masked, wclosed, gets>>

-----------------------------------------------------------------------------
(* get(): the current values through the adapter when autograd is live, the *)
(* recipe cannot be compiled or nothing is retained; else _stable_get.      *)
Resolve ==
  /\ get.pc = "idle" /\ ~wclosed /\ gets < MaxGets /\ gets' = gets + 1
  /\ held' = {slot.contents} /\ silent' = 0
  /\ \E pc \in {"compare", "direct"} :
       get' = [NoGet EXCEPT !.pc = pc, !.id = slot.id, !.version = slot.version]
  /\ UNCHANGED <<slot, old, stable, masked, wclosed, writes>>

(* Identity, descriptor, version and a byte comparison; any difference      *)
(* drops the retained layout.                                               *)
\* Defect: only the version counter decides about reuse
CompareVersion ==
  /\ get.pc = "compare"
  /\ LET same == stable # NoWeight /\ slot.id = stable.id /\ slot.version = stable.version IN
     /\ get' = [get EXCEPT !.pc = IF same THEN "deliver" ELSE "build", !.current = Src,
                           !.version = slot.version]
     /\ stable' = IF same THEN stable ELSE NoWeight
  /\ UNCHANGED <<slot, old, held, silent, masked, wclosed, writes, gets>>
Compare ==
  /\ get.pc = "compare"
  /\ LET same == /\ stable # NoWeight
                 /\ get.id = stable.id /\ slot.id = stable.id
                 /\ slot.version = stable.version /\ Src = stable.saved
     IN /\ get' = [get EXCEPT !.pc = IF same THEN "deliver" ELSE "build", !.current = Src,
                              !.version = IF slot.id = get.id THEN slot.version ELSE @]
        /\ stable' = IF same THEN stable ELSE NoWeight
  /\ UNCHANGED <<slot, old, held, silent, masked, wclosed, writes, gets>>

(* _materialize through the CPU relocation executor; a recipe that cannot   *)
(* be bound replays on the live values.                                     *)
Materialize ==
  /\ get.pc = "build"
  /\ \E pc \in {"publish", "direct"} :
       get' = [get EXCEPT !.pc = pc, !.prepared = IF pc = "publish" THEN Src ELSE NoWeight]
  /\ UNCHANGED <<slot, old, stable, held, silent, masked, wclosed, writes, gets>>

(* "Publish only if the source did not change while preparing".             *)
\* Defect: the layout is published without looking at the source again
PublishAlways ==
  /\ get.pc = "publish"
  /\ stable' = [id |-> get.id, version |-> get.version, saved |-> get.current,
                prepared |-> get.prepared]
  /\ get' = [get EXCEPT !.pc = "deliver"]
  /\ masked' = (masked \/ silent > 1) /\ UNCHANGED <<slot, old, held, silent, wclosed, writes, gets>>
Publish ==
  /\ get.pc = "publish"
  /\ IF slot.id = get.id /\ slot.version = get.version /\ Src = get.current
     THEN /\ stable' = [id |-> get.id, version |-> get.version, saved |-> get.current,
                        prepared |-> get.prepared]
          /\ get' = [get EXCEPT !.pc = "deliver"]
     ELSE get' = [get EXCEPT !.pc = "direct", !.id = slot.id] /\ UNCHANGED stable
  /\ masked' = (masked \/ silent > 1) /\ UNCHANGED <<slot, old, held, silent, wclosed, writes, gets>>

(* A fresh tensor: of the retained layout, or of the current values.        *)
Deliver ==
  /\ get.pc \in {"deliver", "direct"}
  /\ get' = [get EXCEPT !.pc = "done",
                        !.result = IF get.pc = "deliver" THEN stable.prepared ELSE Src]
  /\ UNCHANGED <<slot, old, stable, held, silent, masked, wclosed, writes, gets>>

Return ==
  /\ get.pc = "done" /\ get' = NoGet /\ held' = {} /\ silent' = 0 /\ old' = NoWeight
  /\ UNCHANGED <<slot, stable, masked, wclosed, writes, gets>>

(* invalidate() and close() wait for the lock.                              *)
Invalidate ==
  /\ get.pc = "idle" /\ ~wclosed /\ stable # NoWeight /\ stable' = NoWeight
  /\ UNCHANGED <<slot, old, get, held, silent, masked, wclosed, writes, gets>>

CloseWeights ==
  /\ get.pc = "idle" /\ ~wclosed /\ wclosed' = TRUE /\ stable' = NoWeight
  /\ UNCHANGED <<slot, old, get, held, silent, masked, writes, gets>>

WeightsNext ==
  \/ Write \/ Resolve \/ Compare \/ Materialize \/ Publish \/ Deliver \/ Return
  \/ Invalidate \/ CloseWeights

WeightsSpec == WeightsInit /\ [][WeightsNext]_weightVars

-----------------------------------------------------------------------------
(* "Stable data is rebuilt whenever any of these differ": a result has the  *)
(* contents the slot had at some moment of the call, although other threads *)
(* write, replace and write behind Torch's back at any step.  Unversioned   *)
(* writes that restore the bytes while the layout is built cannot be told   *)
(* from none (see PublishedUnchanged); `masked` sets them aside.            *)
WeightsFresh == get.pc = "done" => get.result \in held \/ masked

(* "Publish only if the source did not change while preparing": what is     *)
(* retained is the layout of the bytes it is compared with later.           *)
PublishedUnchanged == stable # NoWeight => stable.prepared = stable.saved

(****************************************************************************)
(* Prepared INT8 wire weights (reloc_torch/wire_weights.py): prepare()      *)
(* reserves a snapshot's bytes, packs it and replaces the revision of its   *)
(* name; submitted loads keep the revision they resolved; a snapshot's      *)
(* charge is returned by a finalizer when its last owner lets go of it.     *)
(*                                                                          *)
(* The owner's lock covers prepare(), submit(), invalidate() and close();   *)
(* transfers retire, and finalizers run, at any time.  A revision is its    *)
(* number; revision r of a name has the size SizeOf[name].                  *)
(****************************************************************************)
CONSTANTS
  Names, SizeOf,
  MaxPrepared, MaxSnapshots,  \* the budget: bytes, and live snapshots
  MaxRevisions, MaxLoads      \* bounds of the model

ASSUME WireConstants ==
  /\ \A n \in Names : SizeOf[n] \in Nat
  /\ {MaxPrepared, MaxSnapshots, MaxRevisions, MaxLoads} \subseteq Nat

VARIABLES
  entries,     \* the current revision of each name, 0 for none
  nameOf,      \* the name of every revision made so far
  packed,      \* revisions whose storage exists (an owner refers to it)
  loads,       \* revisions of the submitted loads, one per slot, 0 for none
  live, count, \* the budget: bytes and snapshots charged
  preparing,   \* the prepare() in progress: name and step
  members,     \* FastWeights: the revision of each name it holds a member of
  fastCall,    \* its call in progress: the name, and the revision it resolved
  asked,       \* history: the revision current when each load resolved its name
  revision, wireClosed

fastWeightVars == <<members, fastCall, asked>>
wireVars == <<entries, nameOf, packed, loads, live, count, preparing, revision, wireClosed, fastWeightVars>>

NoFastCall == [name |-> "none", rev |-> 0]
NotPreparing == [pc |-> "idle", name |-> "none"]
Revisions == 1..MaxRevisions

WireInit ==
  /\ entries = [n \in Names |-> 0] /\ nameOf = [r \in Revisions |-> "none"]
  /\ packed = {} /\ loads = [i \in 1..MaxLoads |-> 0]
  /\ live = 0 /\ count = 0 /\ preparing = NotPreparing /\ revision = 0 /\ wireClosed = FALSE
  /\ members = [n \in Names |-> 0] /\ fastCall = NoFastCall /\ asked = [i \in 1..MaxLoads |-> 0]

Unlocked == preparing.pc = "idle"
Candidate == revision + 1

-----------------------------------------------------------------------------
(* _Budget.reserve and release.                                             *)
\* Defect: only the bytes are bounded, not the snapshots
ReserveBytes(n) == live + SizeOf[n] <= MaxPrepared
CanReserve(n) == live + SizeOf[n] <= MaxPrepared /\ count < MaxSnapshots

Credit(n) == live' = live - SizeOf[n] /\ count' = count - 1

(* prepare(): validation and the entry bound first, then the reservation; a *)
(* refusal leaves the previous revision.                                    *)
Reserve(n) ==
  /\ Unlocked /\ ~wireClosed /\ Candidate \in Revisions
  /\ CanReserve(n)
  /\ live' = live + SizeOf[n] /\ count' = count + 1
  /\ preparing' = [pc |-> "bind", name |-> n]
  /\ UNCHANGED <<entries, nameOf, packed, loads, revision, wireClosed, fastWeightVars>>

(* Binding and the template fail before any finalizer exists: prepare()     *)
(* returns the charge itself.                                               *)
BindOrFail ==
  /\ preparing.pc = "bind"
  /\ \/ /\ preparing' = [preparing EXCEPT !.pc = "pack"]
        /\ packed' = packed \cup {Candidate}
        /\ nameOf' = [nameOf EXCEPT ![Candidate] = preparing.name]
        /\ UNCHANGED <<live, count>>
     \/ Credit(preparing.name) /\ preparing' = NotPreparing /\ UNCHANGED <<packed, nameOf>>
  /\ UNCHANGED <<entries, loads, revision, wireClosed, fastWeightVars>>

(* The storage exists and its finalizer is attached: a failure from here on *)
(* drops the storage, and the finalizer alone returns the charge.           *)
\* Defect: a failure after the finalizer is attached returns the charge too
PackOrFailTwice ==
  /\ preparing.pc = "pack" /\ preparing' = NotPreparing
  /\ \/ /\ entries' = [entries EXCEPT ![preparing.name] = Candidate]
        /\ revision' = Candidate /\ UNCHANGED <<packed, live, count>>
     \/ /\ packed' = packed \ {Candidate}
        /\ live' = live - 2 * SizeOf[preparing.name] /\ count' = count - 2
        /\ UNCHANGED <<entries, revision>>
  /\ UNCHANGED <<nameOf, loads, wireClosed, fastWeightVars>>
PackOrFail ==
  /\ preparing.pc = "pack" /\ preparing' = NotPreparing
  /\ \/ /\ entries' = [entries EXCEPT ![preparing.name] = Candidate]
        /\ revision' = Candidate /\ UNCHANGED <<packed, live, count>>
     \/ /\ packed' = packed \ {Candidate} /\ Credit(preparing.name)
        /\ UNCHANGED <<entries, revision>>
  /\ UNCHANGED <<nameOf, loads, wireClosed, fastWeightVars>>

(* Who still refers to a revision's storage: the entry of its name, a load  *)
(* that has not retired, a FastWeights member or the call that resolved it, *)
(* or the prepare() that is making it.                                      *)
Owned(r) ==
  \/ \E n \in Names : entries[n] = r
  \/ \E i \in DOMAIN loads : loads[i] = r
  \/ \E n \in Names : members[n] = r
  \/ fastCall.rev = r
  \/ preparing.pc = "pack" /\ r = Candidate

(* The finalizer of a packed source whose last owner has gone.              *)
\* Defect: a replaced revision is credited although loads still use it
FinalizeReplaced(r) ==
  /\ r \in packed /\ \A n \in Names : entries[n] # r
  /\ ~(preparing.pc = "pack" /\ r = Candidate)
  /\ packed' = packed \ {r} /\ Credit(nameOf[r])
  /\ UNCHANGED <<entries, nameOf, loads, preparing, revision, wireClosed, fastWeightVars>>
Finalize(r) ==
  /\ r \in packed /\ ~Owned(r)
  /\ packed' = packed \ {r} /\ Credit(nameOf[r])
  /\ UNCHANGED <<entries, nameOf, loads, preparing, revision, wireClosed, fastWeightVars>>

-----------------------------------------------------------------------------
(* submit(), load() and prefetch(): a group of the entries as they are now. *)
Submit(n, i) ==
  /\ Unlocked /\ ~wireClosed /\ entries[n] # 0 /\ loads[i] = 0
  /\ loads' = [loads EXCEPT ![i] = entries[n]] /\ asked' = [asked EXCEPT ![i] = entries[n]]
  /\ UNCHANGED <<entries, nameOf, packed, live, count, preparing, revision, wireClosed, members, fastCall>>

Retire(i) ==
  /\ loads[i] # 0 /\ loads' = [loads EXCEPT ![i] = 0]
  /\ UNCHANGED <<entries, nameOf, packed, live, count, preparing, revision, wireClosed, fastWeightVars>>

InvalidateEntries(S) ==
  /\ Unlocked /\ ~wireClosed /\ \E n \in S : entries[n] # 0
  /\ entries' = [n \in Names |-> IF n \in S THEN 0 ELSE entries[n]]
  /\ UNCHANGED <<nameOf, packed, loads, live, count, preparing, revision, wireClosed, fastWeightVars>>

(* close() drains the queue under the lock.                                 *)
CloseWire ==
  /\ Unlocked /\ ~wireClosed /\ wireClosed' = TRUE
  /\ entries' = [n \in Names |-> 0] /\ loads' = [i \in DOMAIN loads |-> 0]
  /\ UNCHANGED <<nameOf, packed, live, count, preparing, revision, fastWeightVars>>

(* FastWeights: fast_entries() resolves the name under the owner's lock;    *)
(* the member is looked up and the group submitted after it.                *)
FastEntries(n) ==
  /\ Unlocked /\ ~wireClosed /\ entries[n] # 0 /\ fastCall = NoFastCall
  /\ fastCall' = [name |-> n, rev |-> entries[n]]
  /\ UNCHANGED <<entries, nameOf, packed, loads, live, count, preparing, revision, wireClosed, members, asked>>

\* Defect: a member is rebuilt only when there is none for the name
MemberOnceOnly(n, r) == IF members[n] = 0 THEN r ELSE members[n]
Member(n, r) == IF members[n] = 0 \/ members[n] # r THEN r ELSE members[n]
FastSubmit(i) ==
  /\ fastCall # NoFastCall /\ loads[i] = 0 /\ fastCall' = NoFastCall
  /\ LET n == fastCall.name
         m == Member(n, fastCall.rev)
     IN  /\ members' = [members EXCEPT ![n] = m]
         /\ loads' = [loads EXCEPT ![i] = m] /\ asked' = [asked EXCEPT ![i] = fastCall.rev]
  /\ UNCHANGED <<entries, nameOf, packed, live, count, preparing, revision, wireClosed>>

WireNext ==
  \/ BindOrFail \/ PackOrFail \/ CloseWire \/ InvalidateEntries(Names)
  \/ \E n \in Names :
       \/ Reserve(n) \/ InvalidateEntries({n}) \/ FastEntries(n)
       \/ \E i \in DOMAIN loads : Submit(n, i)
  \/ \E i \in DOMAIN loads : Retire(i) \/ FastSubmit(i)
  \/ \E r \in Revisions : Finalize(r)

WireSpec == WireInit /\ [][WireNext]_wireVars

-----------------------------------------------------------------------------
(* The size of each revision of a set, by the name it was made for.         *)
SizesIn(S, names) == [r \in S |-> SizeOf[names[r]]]

(* "prepared/pinned weight budget (including retired snapshots)": what is   *)
(* charged is exactly the storage that exists, plus the reservation of a    *)
(* prepare() that has none yet, whichever step of it failed; it never       *)
(* exceeds the budget.                                                      *)
WireBudgetExact ==
  LET reserved == IF preparing.pc = "bind" THEN 1 ELSE 0 IN
  /\ count = Cardinality(packed) + reserved /\ count <= MaxSnapshots
  /\ live = Total(packed, SizesIn(packed, nameOf))
            + (IF reserved = 1 THEN SizeOf[preparing.name] ELSE 0)
  /\ live <= MaxPrepared

(* "submitted work retains its original revision", and a failed prepare()   *)
(* "leaves the previous revision intact": whatever is current or submitted  *)
(* still has its storage, and a load moves the revision that was current    *)
(* when its name was resolved, not the one a FastWeights member was built   *)
(* from earlier.                                                            *)
RevisionsKept ==
  /\ \A n \in Names : entries[n] # 0 => entries[n] \in packed /\ nameOf[entries[n]] = n
  /\ \A i \in DOMAIN loads : loads[i] # 0 => loads[i] \in packed /\ loads[i] = asked[i]

(* The budget charges exactly the revisions that are kept, and everything   *)
(* that is current or submitted is kept.                                    *)
RevisionsAccounted == WireBudgetExact /\ RevisionsKept
=============================================================================
