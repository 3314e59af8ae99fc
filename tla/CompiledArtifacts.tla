-------------------------- MODULE CompiledArtifacts --------------------------
(****************************************************************************)
(* How a recipe becomes a compiled artifact (reloc_torch: backend.py,       *)
(* cache.py, compiler.py, artifact_store.py).  Threads of a process share   *)
(* an in-memory ArtifactCache that compiles a key once and lets the others  *)
(* wait.  The compile goes through CompilerClient, which runs the exporter  *)
(* binary, or first consults an ArtifactStore: a directory shared by        *)
(* processes, guarded by one flock.                                         *)
(*                                                                          *)
(* The environment may rebuild the exporter, damage a stored file and kill  *)
(* a process at any step.  A file is modelled by the key in its name, by    *)
(* the exporter version that produced its plan and by whether its bytes are *)
(* whole; the directory is the sequence of its files, oldest mtime first.   *)
(****************************************************************************)
EXTENDS Naturals, FiniteSets, SequencesExt, FiniteSetsExt, Charges

CONSTANTS
  Threads, Procs, ProcOf,   \* each thread belongs to one process
  StoreChoices,             \* sets of processes whose client has a cache_dir
  Recipes,
  Size,                     \* bytes of a recipe's serialised artifact
  Unsupported,              \* <<recipe, version>> pairs the exporter rejects
  Capacity,                 \* ArtifactCache capacity, artifacts and rejections
  MaxBytes, MaxEntries,     \* ArtifactStore limits
  None,
  MaxVersion, MaxCalls, MaxFaults   \* bounds of the model

ASSUME ArtifactConstants ==
  /\ ProcOf \in [Threads -> Procs] /\ StoreChoices \subseteq SUBSET Procs
  /\ None \notin Threads
  /\ Size \in [Recipes -> Nat \ {0}]
  /\ Unsupported \subseteq Recipes \X (1..MaxVersion)
  /\ {Capacity, MaxBytes, MaxEntries, MaxVersion} \subseteq Nat \ {0}
  /\ {MaxCalls, MaxFaults} \subseteq Nat

VARIABLES
  withStore, \* the processes whose client was given a cache_dir
  version,  \* of the exporter binary now installed
  disk,     \* the *.artifact files, oldest first
  temps,    \* number of .write-* files in the directory
  lock,     \* the thread that holds the flock, or None
  cache,    \* the ArtifactCache of each process
  call,     \* what each thread is doing
  calls, faults

vars == <<withStore, version, disk, temps, lock, cache, call, calls, faults>>

Versions == 1..MaxVersion
Keys == Recipes \X Versions
Files == [key : Keys, ver : Versions, state : {"whole", "partial", "damaged"}]
Outcomes == [kind : {"artifact", "unsupported"}, recipe : Recipes, ver : 0..MaxVersion]
              \cup {[kind |-> "error"], [kind |-> "none"]}
NoOutcome == [kind |-> "none"]
Failed == [kind |-> "error"]

Rest == [pc |-> "idle", key |-> None, identity |-> 0, out |-> NoOutcome, since |-> 0]
Compiling == {"identify", "direct", "enter", "compile", "publish", "replace",
              "verify", "finish"}
Locked == {"compile", "publish", "replace"}

(* The exporter identity used for in-memory keys: a stat of the binary.     *)
IdentityMemoized == 1      \* Defect: the stat is taken once, at the first use
Identity == version

EmptyCache == [entries |-> <<>>, rejections |-> <<>>, pending |-> {}]

(* CompilerClient: with a cache_dir it keeps its artifacts in a store.      *)
Clients == withStore \in StoreChoices

Init ==
  /\ Clients
  /\ version = 1 /\ disk = <<>> /\ temps = 0 /\ lock = None
  /\ cache = [p \in Procs |-> EmptyCache]
  /\ call = [t \in Threads |-> Rest]
  /\ calls = 0 /\ faults = 0

Mine(t) == cache[ProcOf[t]]
Goto(t, pc) == call' = [call EXCEPT ![t].pc = pc]
Conclude(t, pc, out) == call' = [call EXCEPT ![t].pc = pc, ![t].out = out]

-----------------------------------------------------------------------------
(* ArtifactCache: two LRU tables of <<key, outcome>>, newest last.          *)

Has(table, key) == \E i \in DOMAIN table : table[i].key = key
Get(table, key) == (CHOOSE e \in Range(table) : e.key = key).out
Without(table, key) == RemoveFirstMatch(table, LAMBDA e : e.key = key)

\* Defect: the table is not trimmed
TrimNever(table) == table
Trim(table) == IF Len(table) > Capacity
               THEN SubSeq(table, Len(table) - Capacity + 1, Len(table)) ELSE table

Touch(table, key) == Append(Without(table, key), [key |-> key, out |-> Get(table, key)])
Put(table, key, out) == Trim(Append(Without(table, key), [key |-> key, out |-> out]))

(* A recipe fixes its wire version, its kind and its direction; of what a   *)
(* key is made of besides, only the compiler's identity changes.            *)
artifact_key(recipe) == <<recipe, Identity>>

(* RelocBackend.compile_recipe: the key is computed, then looked up.        *)
CompileRecipe(t, r) ==
  /\ call[t].pc \in {"idle", "done"} /\ calls < MaxCalls
  /\ calls' = calls + 1
  /\ call' = [call EXCEPT ![t] = [Rest EXCEPT !.pc = "lookup", !.key = artifact_key(r),
                                              !.since = version]]
  /\ UNCHANGED <<withStore, version, disk, temps, lock, cache, faults>>

(* The loop of get_or_compile under the condition's lock.                   *)
Hit(t, table) ==
  LET key == call[t].key IN
  /\ Has(Mine(t)[table], key)
  /\ cache' = [cache EXCEPT ![ProcOf[t]][table] = Touch(@, key)]
  /\ Conclude(t, "done", Get(Mine(t)[table], key))

Enlist(t) ==
  /\ call[t].key \notin Mine(t).pending
  /\ cache' = [cache EXCEPT ![ProcOf[t]].pending = @ \cup {call[t].key}]
  /\ Goto(t, IF ProcOf[t] \in withStore THEN "identify" ELSE "direct")

\* Defect: a second caller of a pending key compiles too
JoinCompiles(t) ==
  /\ call[t].key \in Mine(t).pending
  /\ Goto(t, IF ProcOf[t] \in withStore THEN "identify" ELSE "direct")
  /\ UNCHANGED cache
Join(t) ==
  /\ call[t].key \in Mine(t).pending
  /\ Goto(t, "waiting")
  /\ UNCHANGED cache

Lookup(t) ==
  /\ call[t].pc = "lookup"
  /\ \/ Hit(t, "entries")
     \/ ~Has(Mine(t).entries, call[t].key) /\ Hit(t, "rejections")
     \/ /\ ~Has(Mine(t).entries, call[t].key)
        /\ ~Has(Mine(t).rejections, call[t].key)
        /\ Enlist(t) \/ Join(t)
  /\ UNCHANGED <<withStore, version, disk, temps, lock, calls, faults>>

(* The end of get_or_compile: the outcome is recorded, the key is no longer *)
(* pending and every waiter of the cache looks again.                       *)
Recorded(t, out) ==
  LET c == [Mine(t) EXCEPT !.pending = @ \ {call[t].key}] IN
  CASE out.kind = "artifact" -> [c EXCEPT !.entries = Put(@, call[t].key, out)]
    [] out.kind = "unsupported" -> [c EXCEPT !.rejections = Put(@, call[t].key, out)]
    [] OTHER -> c

NotifyAll(t, out) ==
  [u \in Threads |->
     CASE u = t -> [call[t] EXCEPT !.pc = "done", !.out = out, !.identity = 0]
       [] ProcOf[u] = ProcOf[t] /\ call[u].pc = "waiting" -> [call[u] EXCEPT !.pc = "lookup"]
       [] OTHER -> call[u]]

(* What CompilerClient.compile hands back: an answer of the store only if   *)
(* the exporter is still the one it was looked up for.                      *)
Answer(t) ==
  IF call[t].pc = "verify" /\ call[t].identity # version THEN Failed ELSE call[t].out

\* Defect: only a success notifies the waiters
FinishQuietly(t) ==
  LET out == Answer(t) IN
  /\ call[t].pc \in {"verify", "finish"}
  /\ cache' = [cache EXCEPT ![ProcOf[t]] = Recorded(t, out)]
  /\ call' = IF out.kind = "artifact" THEN NotifyAll(t, out)
             ELSE [call EXCEPT ![t].pc = "done", ![t].out = out]
  /\ UNCHANGED <<withStore, version, disk, temps, lock, calls, faults>>
Finish(t) ==
  /\ call[t].pc \in {"verify", "finish"}
  /\ cache' = [cache EXCEPT ![ProcOf[t]] = Recorded(t, Answer(t))]
  /\ call' = NotifyAll(t, Answer(t))
  /\ UNCHANGED <<withStore, version, disk, temps, lock, calls, faults>>

-----------------------------------------------------------------------------
(* CompilerClient: the exporter is a subprocess; it answers with a plan, it *)
(* rejects the recipe, or it fails.                                         *)

Fault == faults < MaxFaults /\ faults' = faults + 1

Export(r) ==
  [kind |-> IF <<r, version>> \in Unsupported THEN "unsupported" ELSE "artifact",
   recipe |-> r, ver |-> version]

RecipeOf(t) == call[t].key[1]

CompileDirect(t) ==
  /\ call[t].pc = "direct"
  /\ \/ Conclude(t, "finish", Export(RecipeOf(t))) /\ UNCHANGED faults
     \/ Conclude(t, "finish", Failed) /\ Fault
  /\ UNCHANGED <<withStore, version, disk, temps, lock, cache, calls>>

(* compile: the content digest names the file and is read again at the end. *)
Identify(t) ==
  /\ call[t].pc = "identify"
  /\ call' = [call EXCEPT ![t].pc = "enter", ![t].identity = version]
  /\ UNCHANGED <<withStore, version, disk, temps, lock, cache, calls, faults>>

-----------------------------------------------------------------------------
(* ArtifactStore, under the flock.                                          *)

FileKey(t) == <<RecipeOf(t), call[t].identity>>
Bytes(files) == Total({files[i].key : i \in DOMAIN files}, [k \in Keys |-> Size[k[1]]])
Fits(files, incoming, slots) ==
  Bytes(files) + incoming <= MaxBytes /\ Len(files) + slots <= MaxEntries
NewerThan(k) == SubSeq(disk, k + 1, Len(disk))

\* Defect: room is made for the bytes of the new file, not for its entry
TrimDiskBytes(incoming, slots) ==
  NewerThan(Min({k \in 0..Len(disk) : k = Len(disk) \/ Fits(NewerThan(k), incoming, 0)}))
(* _trim: the oldest files go until what is left, with what is to come, fits. *)
TrimDisk(incoming, slots) ==
  NewerThan(Min({k \in 0..Len(disk) : k = Len(disk) \/ Fits(NewerThan(k), incoming, slots)}))

Release(t) == lock' = None

\* Defect: the envelope is not checked
ValidAlways(f) == TRUE
(* The envelope parses, names its key and admits a plan for the recipe.     *)
Valid(f) == f.state = "whole"

(* Under the flock the file is served and becomes the newest, or it is      *)
(* unlinked and missed.                                                     *)
Probe(t) ==
  LET files == TrimDisk(0, 0)
      found == {f \in Range(files) : f.key = FileKey(t)}
      rest == Without(files, FileKey(t)) IN
  \/ \E f \in found :
       /\ Valid(f)
       /\ disk' = Append(rest, f)
       /\ Conclude(t, "verify", [kind |-> "artifact", recipe |-> f.key[1],
                                 ver |-> IF f.state = "whole" THEN f.ver ELSE 0])
       /\ UNCHANGED lock
  \/ /\ \A f \in found : ~Valid(f)
     /\ disk' = rest
     /\ Goto(t, "compile")
     /\ lock' = t

\* Defect: files left by a killed writer are not collected
EnterLeavesTemps(t) ==
  /\ call[t].pc = "enter" /\ lock = None
  /\ Probe(t)
  /\ UNCHANGED <<withStore, version, temps, cache, calls, faults>>
(* _locked: flock, then the temporary files of killed writers are removed.  *)
(* The directory is only touched under the flock, so that the trim and the  *)
(* probe that follow are one step with it.                                  *)
Enter(t) ==
  /\ call[t].pc = "enter" /\ lock = None
  /\ temps' = 0
  /\ Probe(t)
  /\ UNCHANGED <<withStore, version, cache, calls, faults>>

(* compile_stable runs the exporter inside the lock; an exception unlocks.  *)
Compile(t) ==
  LET out == Export(RecipeOf(t)) IN
  /\ call[t].pc = "compile"
  /\ \/ out.kind = "artifact" /\ Conclude(t, "publish", out) /\ UNCHANGED <<lock, faults>>
     \/ out.kind = "unsupported" /\ Conclude(t, "finish", out) /\ Release(t) /\ UNCHANGED faults
     \/ Conclude(t, "finish", Failed) /\ Release(t) /\ Fault
  /\ UNCHANGED <<withStore, version, disk, temps, cache, calls>>

NewFile(t, state) == [key |-> FileKey(t), ver |-> call[t].out.ver, state |-> state]

WriteTemp(t, files) ==
  /\ disk' = files
  /\ temps' = temps + 1
  /\ Goto(t, "replace")
  /\ UNCHANGED lock

Unkept(t, pc, out) == Conclude(t, pc, out) /\ Release(t) /\ UNCHANGED <<disk, temps>>
Room(t) == TrimDisk(Size[RecipeOf(t)], 1)

\* Defect: a rebuild during the compilation is not noticed
PublishUnstable(t) ==
  /\ call[t].pc = "publish"
  /\ IF Size[RecipeOf(t)] <= MaxBytes THEN WriteTemp(t, Room(t))
     ELSE Unkept(t, "verify", call[t].out)
  /\ UNCHANGED <<withStore, version, cache, calls, faults>>
\* Defect: the artifact is written at its final path
PublishInPlace(t) ==
  /\ call[t].pc = "publish"
  /\ CASE call[t].identity # version -> Unkept(t, "finish", Failed)
       [] Size[RecipeOf(t)] <= MaxBytes -> WriteTemp(t, Append(Room(t), NewFile(t, "partial")))
       [] OTHER -> Unkept(t, "verify", call[t].out)
  /\ UNCHANGED <<withStore, version, cache, calls, faults>>
(* The exporter must not have changed; then room is made and the bytes go   *)
(* to a temporary file.  An artifact larger than the store is not kept.     *)
Publish(t) ==
  /\ call[t].pc = "publish"
  /\ CASE call[t].identity # version -> Unkept(t, "finish", Failed)
       [] call[t].identity = version /\ Size[RecipeOf(t)] <= MaxBytes -> WriteTemp(t, Room(t))
       [] OTHER -> Unkept(t, "verify", call[t].out)
  /\ UNCHANGED <<withStore, version, cache, calls, faults>>

(* os.replace publishes the whole file at once; if the write or the rename  *)
(* fails the temporary file is removed and the call fails.                  *)
Replace(t) ==
  /\ call[t].pc = "replace"
  /\ temps' = temps - 1
  /\ Release(t)
  /\ \/ /\ disk' = Append(Without(disk, FileKey(t)), NewFile(t, "whole"))
        /\ Goto(t, "verify")
        /\ UNCHANGED faults
     \/ Fault /\ Conclude(t, "finish", Failed) /\ UNCHANGED disk
  /\ UNCHANGED <<withStore, version, cache, calls>>

-----------------------------------------------------------------------------
(* The environment.                                                         *)

Rebuild ==
  /\ version < MaxVersion
  /\ version' = version + 1
  /\ UNCHANGED <<withStore, disk, temps, lock, cache, call, calls, faults>>

Damage ==
  /\ Fault
  /\ \E i \in DOMAIN disk : disk' = [disk EXCEPT ![i].state = "damaged"]
  /\ UNCHANGED <<withStore, version, temps, lock, cache, call, calls>>

(* A process is killed and started again: its memory is lost, the kernel    *)
(* drops its flock, the directory stays as it is.                           *)
Crash(p) ==
  /\ Fault
  /\ cache' = [cache EXCEPT ![p] = EmptyCache]
  /\ call' = [t \in Threads |-> IF ProcOf[t] = p THEN Rest ELSE call[t]]
  /\ lock' = IF lock # None /\ ProcOf[lock] = p THEN None ELSE lock
  /\ UNCHANGED <<withStore, version, disk, temps, calls>>

Step(t) ==
  \/ Lookup(t) \/ CompileDirect(t) \/ Identify(t) \/ Enter(t) \/ Compile(t)
  \/ Publish(t) \/ Replace(t) \/ Finish(t)

Next ==
  \/ \E t \in Threads : Step(t) \/ \E r \in Recipes : CompileRecipe(t, r)
  \/ \E p \in Procs : Crash(p)
  \/ Rebuild
  \/ Damage

Spec == Init /\ [][Next]_vars

(* A thread that can take a step of its call takes it: the condition's      *)
(* waiters are notified, the exporter and the flock's holder run on.        *)
FairSpec == Spec /\ \A t \in Threads : WF_vars(Step(t))

-----------------------------------------------------------------------------
TableOK(table) ==
  /\ \A i \in DOMAIN table : table[i].key \in Keys /\ table[i].out \in Outcomes
  /\ IsInjective([i \in DOMAIN table |-> table[i].key])

(* The state is well formed: an LRU table holds a key once, and the lock is *)
(* held exactly inside the locked region.                                   *)
TypeOK ==
  /\ version \in Versions /\ temps \in Nat
  /\ disk \in Seq(Files)
  /\ \A p \in Procs :
       /\ cache[p].pending \subseteq Keys
       /\ TableOK(cache[p].entries) /\ TableOK(cache[p].rejections)
  /\ \A t \in Threads : (call[t].pc \in Locked) <=> (lock = t)

(* ArtifactCache: "Concurrent requests for one key compile once".  A key is *)
(* pending exactly while one thread of the process compiles it (a key left  *)
(* pending would block its waiters for ever), nobody compiles what is       *)
(* already decided, and a decision is an artifact or a rejection, not both. *)
SingleFlight ==
  \A p \in Procs :
    LET flying == {t \in Threads : ProcOf[t] = p /\ call[t].pc \in Compiling}
        decided(table) == {cache[p][table][i].key : i \in DOMAIN cache[p][table]} IN
    /\ cache[p].pending = {call[t].key : t \in flying}
    /\ \A t, u \in flying : call[t].key = call[u].key => t = u
    /\ decided("entries") \cap decided("rejections") = {}
    /\ cache[p].pending \cap (decided("entries") \cup decided("rejections")) = {}

(* CompilerClient.identity: "a rebuilt exporter never reuses artifacts or   *)
(* rejections produced by the previous binary".  What a call returns was    *)
(* compiled for its recipe by an exporter at least as new as the one        *)
(* installed when the call began, through both caches, waiting and retries. *)
FreshResult ==
  \A t \in Threads :
    call[t].pc = "done" /\ call[t].out.kind \in {"artifact", "unsupported"} =>
      call[t].out.recipe = RecipeOf(t) /\ call[t].out.ver >= call[t].since

(* ArtifactStore: "a killed writer cannot publish a partial plan".  Every   *)
(* file was written whole by the exporter its name stands for, although the *)
(* exporter may be rebuilt and the writer killed at every step.             *)
StoredWhole ==
  \A i \in DOMAIN disk : disk[i].state # "partial" /\ disk[i].ver = disk[i].key[2]

(* The directory never holds two files of a key nor more than the limits of *)
(* the store, and no writer ever adds its temporary file to one that a      *)
(* killed writer left; neither table of a process outgrows its capacity.    *)
StoreBounded ==
  /\ \A p \in Procs : Len(cache[p].entries) <= Capacity
                      /\ Len(cache[p].rejections) <= Capacity
  /\ IsInjective([i \in DOMAIN disk |-> disk[i].key])
  /\ Fits(disk, 0, 0)
  /\ temps <= 1

(* What is on disk and in memory is whole and within its limits, also after *)
(* a crash between any two steps.                                           *)
StoreSound == StoredWhole /\ StoreBounded

(* Every get_or_compile ends for its caller, in an artifact, a rejection or *)
(* an error: no waiter is forgotten when the compiling thread fails, is     *)
(* rejected or publishes an entry that is evicted before the waiter runs.   *)
CallsEnd ==
  \A t \in Threads : call[t].pc = "lookup" ~> call[t].pc \in {"done", "idle"}
=============================================================================
