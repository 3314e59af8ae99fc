-------------------------- MODULE TransferRequests --------------------------
(****************************************************************************)
(* Prepared transfer requests: single layout requests (transport.py), typed *)
(* requests whose dispatch templates are shared through a bounded cache     *)
(* (dispatch.py, execution_templates.py), groups of requests (group.py) and *)
(* a serving session that prepares and runs one request at a time           *)
(* (preparation.py).                                                        *)
(*                                                                          *)
(* Callers share the requests.  A request or group is executed under locks  *)
(* that are tried, never waited for; everything an execution took is given  *)
(* back when it ends, however it ends.  Sources and parameter values are    *)
(* versions that change between and during executions.                      *)
(****************************************************************************)
EXTENDS Naturals, SequencesExt, Charges

CONSTANTS
  Callers, Layouts, Typeds, Groups,
  Members,           \* the requests of each group, in order
  Bytes,             \* parameter bytes of a value version: a template's charge
  MaxEntries, MaxParameterBytes,          \* limits of the template cache
  Nobody,
  MaxEdits, MaxStarts                     \* bounds of the model

Requests == Layouts \cup Typeds

ASSUME RequestConstants ==
  /\ Layouts \cap Typeds = {} /\ Groups \cap Requests = {} /\ Nobody \notin Callers
  /\ IsFiniteSet(Requests)
  /\ \A g \in Groups : Members[g] \in Seq(Requests) /\ IsInjective(Members[g])
  /\ \A v \in 0..MaxEdits : Bytes[v] \in Nat
  /\ {MaxEntries, MaxParameterBytes, MaxEdits, MaxStarts} \subseteq Nat

VARIABLES
  request,           \* each request: what preparation recorded, and consumed
  group,             \* each group: made, consumed
  lockOf,            \* the execution lock of every request and group
  act,               \* what each caller is doing
  content, value,    \* versions: each source's metadata, the parameter's bytes
  templates,         \* the cache, least recently used first
  launched,          \* history: native launches of each request and group
  session,           \* the serving session: its lock and its flag
  starts

requestVars == <<request, group, lockOf, act, content, value, templates, launched, session,
                 starts>>

Absent == [made |-> FALSE, snap |-> 0, vals |-> 0, consumed |-> FALSE]
NoAct == [pc |-> "idle", target |-> <<>>, todo |-> <<>>, hit |-> FALSE]

RequestsInit ==
  /\ request = [r \in Requests |-> Absent]
  /\ group = [g \in Groups |-> [made |-> FALSE, consumed |-> FALSE]]
  /\ lockOf = [x \in Requests \cup Groups |-> Nobody]
  /\ act = [c \in Callers |-> NoAct]
  /\ content = [r \in Requests |-> 0] /\ value = 0
  /\ templates = <<>> /\ launched = [x \in Requests \cup Groups |-> 0]
  /\ session = [lock |-> Nobody, closed |-> FALSE]
  /\ starts = 0

Starts(c) == act[c].pc = "idle" /\ starts < MaxStarts /\ starts' = starts + 1
At(c, pc) == act[c].pc = pc

(* Every lock is released: the ExitStack of a group, the finally of a       *)
(* single request, the session's own lock.                                  *)
\* Defect: a group that fails to lock a member keeps the locks it has
GiveBackNothing(c) ==
  /\ lockOf' = lockOf
  /\ session' = [session EXCEPT !.lock = IF @ = c THEN Nobody ELSE @]
  /\ act' = [act EXCEPT ![c] = NoAct]
GiveBack(c) ==
  /\ lockOf' = [x \in DOMAIN lockOf |-> IF lockOf[x] = c THEN Nobody ELSE lockOf[x]]
  /\ session' = [session EXCEPT !.lock = IF @ = c THEN Nobody ELSE @]
  /\ act' = [act EXCEPT ![c] = NoAct]

Edit ==
  /\ value + Total(Requests, content) < MaxEdits
  /\ \/ value' = value + 1 /\ UNCHANGED content
     \/ \E r \in Requests : content' = [content EXCEPT ![r] = @ + 1] /\ UNCHANGED value
  /\ UNCHANGED <<request, group, lockOf, act, templates, launched, session, starts>>

-----------------------------------------------------------------------------
(* TemplateCache: entries of exact parameter bytes, least recently used     *)
(* first, bounded in number and in bytes.                                   *)

Cacheable(v) == MaxEntries > 0 /\ Bytes[v] <= MaxParameterBytes
ChargeOf(ts) == Total(Range(ts), Bytes)
Touch(ts, v) == Append(RemoveAt(ts, CHOOSE i \in DOMAIN ts : ts[i] = v), v)

(* Evict the oldest until the new entry fits.                               *)
\* Defect: only the number of entries is bounded
RoomForEntries(ts, v) == IF Len(ts) < MaxEntries THEN ts ELSE Tail(ts)
RoomFor(ts, v) ==
  LET fits(k) == /\ Len(ts) - k < MaxEntries
                 /\ ChargeOf(SubSeq(ts, k + 1, Len(ts))) + Bytes[v] <= MaxParameterBytes
      k == CHOOSE n \in 0..Len(ts) : fits(n) /\ \A m \in 0..(n - 1) : ~fits(m)
  IN SubSeq(ts, k + 1, Len(ts))

Put(ts, v) ==
  IF ~Cacheable(v) THEN ts
  ELSE IF v \in Range(ts) THEN Touch(ts, v) ELSE Append(RoomFor(ts, v), v)

-----------------------------------------------------------------------------
(* Preparation.                                                             *)

(* Every preparation makes a request object of its own.                     *)
New(r) == ~request[r].made /\ \A c \in Callers : act[c].target # <<r>>
Made(r, vals) ==
  request' = [request EXCEPT ![r] =
    [made |-> TRUE, snap |-> content[r], vals |-> vals, consumed |-> FALSE]]

(* After its preparation a session goes on to execute, a caller returns.    *)
Prepared(c, r) ==
  act' = [act EXCEPT ![c] = IF session.lock = c
            THEN [pc |-> "lock", target |-> <<r>>, todo |-> <<r>>, hit |-> FALSE] ELSE NoAct]

(* prepare_transfer: admission, binding and the snapshot of the source.     *)
PrepareLayout(c, r) ==
  /\ Starts(c) /\ r \in Layouts /\ New(r)
  /\ Made(r, 0)
  /\ UNCHANGED <<group, lockOf, act, content, value, templates, launched, session>>

(* prepare_typed_transfer: the parameter bytes are part of the key; a hit   *)
(* is used, a miss is bound and compiled outside the cache's lock.          *)
PrepareTyped(c, r) ==
  /\ Starts(c) /\ r \in Typeds /\ New(r)
  /\ act' = [act EXCEPT ![c] = [pc |-> "template", target |-> <<r>>, todo |-> <<value>>,
                                hit |-> value \in Range(templates)]]
  /\ templates' = IF value \in Range(templates) THEN Touch(templates, value) ELSE templates
  /\ UNCHANGED <<request, group, lockOf, content, value, launched, session>>

(* The new template is put; one that another caller put first wins.         *)
PutTemplate(c) ==
  /\ At(c, "template")
  /\ templates' = IF act[c].hit THEN templates ELSE Put(templates, Head(act[c].todo))
  /\ Made(Head(act[c].target), Head(act[c].todo))
  /\ Prepared(c, Head(act[c].target))
  /\ UNCHANGED <<group, lockOf, content, value, launched, session, starts>>

ClearTemplates ==
  /\ templates # <<>> /\ templates' = <<>>
  /\ UNCHANGED <<request, group, lockOf, act, content, value, launched, session, starts>>

(* prepare_transfer_group: fresh, distinct members.                         *)
PrepareGroup(c, g) ==
  /\ Starts(c) /\ ~group[g].made
  /\ \A r \in Range(Members[g]) : request[r].made /\ ~request[r].consumed
  /\ group' = [group EXCEPT ![g].made = TRUE]
  /\ UNCHANGED <<request, lockOf, act, content, value, templates, launched, session>>

-----------------------------------------------------------------------------
(* execute_transfer, execute_typed_transfer and _execute_transfer_group.    *)

Target(x) == IF x \in Groups THEN <<x>> \o Members[x] ELSE <<x>>
RequestsIn(xs) == SelectSeq(xs, LAMBDA x : x \in Requests)

Execute(c, x) ==
  /\ Starts(c)
  /\ IF x \in Groups THEN group[x].made ELSE request[x].made
  /\ act' = [act EXCEPT ![c] =
       [pc |-> "lock", target |-> Target(x), todo |-> Target(x), hit |-> FALSE]]
  /\ UNCHANGED <<request, group, lockOf, content, value, templates, launched, session>>

Consumed(x) == IF x \in Groups THEN group[x].consumed ELSE request[x].consumed

(* One lock at a time, without waiting; a consumed one is refused.          *)
\* Defect: the consumed flag is not looked at again under the lock
TryLockOnly(c) ==
  /\ At(c, "lock") /\ act[c].todo # <<>>
  /\ IF lockOf[Head(act[c].todo)] # Nobody THEN GiveBack(c)
     ELSE /\ lockOf' = [lockOf EXCEPT ![Head(act[c].todo)] = c]
          /\ act' = [act EXCEPT ![c].todo = Tail(@)]
          /\ UNCHANGED session
  /\ UNCHANGED <<request, group, content, value, templates, launched, starts>>
TryLock(c) ==
  LET x == Head(act[c].todo) IN
  /\ At(c, "lock") /\ act[c].todo # <<>>
  /\ IF lockOf[x] # Nobody \/ Consumed(x) THEN GiveBack(c)
     ELSE /\ lockOf' = [lockOf EXCEPT ![x] = c]
          /\ act' = [act EXCEPT ![c].todo = Tail(@)]
          /\ UNCHANGED session
  /\ UNCHANGED <<request, group, content, value, templates, launched, starts>>

Current(r) == request[r].snap = content[r] /\ (r \in Typeds => request[r].vals = value)

(* All rechecks come before any output is allocated.                        *)
RecheckAll(c) ==
  /\ At(c, "lock") /\ act[c].todo = <<>>
  /\ IF \A r \in Range(RequestsIn(act[c].target)) : Current(r)
     THEN act' = [act EXCEPT ![c].pc = "allocate"] /\ UNCHANGED <<lockOf, session>>
     ELSE GiveBack(c)
  /\ UNCHANGED <<request, group, content, value, templates, launched, starts>>

(* Outputs and the native request: a failure here leaves all reusable.      *)
AllocateFails(c) ==
  /\ At(c, "allocate") /\ GiveBack(c)
  /\ UNCHANGED <<request, group, content, value, templates, launched, starts>>

(* Consumed from here on: the group with every member, then the launch.     *)
\* Defect: launching a group consumes the group but not its members
LaunchGroupOnly(c) ==
  LET xs == act[c].target IN
  /\ At(c, "allocate") /\ act' = [act EXCEPT ![c].pc = "running"]
  /\ group' = [g \in Groups |-> IF g \in Range(xs) THEN [group[g] EXCEPT !.consumed = TRUE]
                                ELSE group[g]]
  /\ request' = [r \in Requests |-> IF xs = <<r>> THEN [request[r] EXCEPT !.consumed = TRUE]
                                    ELSE request[r]]
  /\ launched' = [x \in DOMAIN launched |-> launched[x] + IF x \in Range(xs) THEN 1 ELSE 0]
  /\ UNCHANGED <<lockOf, content, value, templates, session, starts>>
LaunchRequests(c) ==
  LET xs == act[c].target IN
  /\ At(c, "allocate") /\ act' = [act EXCEPT ![c].pc = "running"]
  /\ group' = [g \in Groups |-> IF g \in Range(xs) THEN [group[g] EXCEPT !.consumed = TRUE]
                                ELSE group[g]]
  /\ request' = [r \in Requests |-> IF r \in Range(xs)
                                    THEN [request[r] EXCEPT !.consumed = TRUE] ELSE request[r]]
  /\ launched' = [x \in DOMAIN launched |-> launched[x] + IF x \in Range(xs) THEN 1 ELSE 0]
  /\ UNCHANGED <<lockOf, content, value, templates, session, starts>>

(* The native call ends, well or not: nothing is given back to be retried.  *)
ExecutionEnds(c) ==
  /\ At(c, "running") /\ GiveBack(c)
  /\ UNCHANGED <<request, group, content, value, templates, launched, starts>>

-----------------------------------------------------------------------------
(* PreparedTransfers: transfer and warm hold the session's lock from the    *)
(* check to the end of the execution of a request of their own.             *)
SessionTransfer(c, r) ==
  /\ Starts(c) /\ session.lock = Nobody /\ ~session.closed
  /\ r \in Typeds /\ New(r)
  /\ session' = [session EXCEPT !.lock = c]
  /\ act' = [act EXCEPT ![c] = [pc |-> "template", target |-> <<r>>, todo |-> <<value>>,
                                hit |-> value \in Range(templates)]]
  /\ templates' = IF value \in Range(templates) THEN Touch(templates, value) ELSE templates
  /\ UNCHANGED <<request, group, lockOf, content, value, launched>>

(* The output bound, checked between preparation and execution.             *)
SessionRefuses(c) ==
  /\ At(c, "lock") /\ session.lock = c /\ Len(act[c].todo) = Len(act[c].target)
  /\ GiveBack(c)
  /\ UNCHANGED <<request, group, content, value, templates, launched, starts>>

SessionClose(c) ==
  /\ Starts(c) /\ session.lock = Nobody /\ ~session.closed
  /\ session' = [session EXCEPT !.closed = TRUE]
  /\ UNCHANGED <<request, group, lockOf, act, content, value, templates, launched>>

-----------------------------------------------------------------------------
ExecutionStep(c) ==
  \/ PutTemplate(c) \/ TryLock(c) \/ RecheckAll(c) \/ AllocateFails(c) \/ LaunchRequests(c)
  \/ ExecutionEnds(c) \/ SessionRefuses(c)

RequestsNext ==
  \/ \E c \in Callers :
       \/ ExecutionStep(c) \/ SessionClose(c)
       \/ \E r \in Requests : PrepareLayout(c, r) \/ PrepareTyped(c, r) \/ SessionTransfer(c, r)
       \/ \E g \in Groups : PrepareGroup(c, g)
       \/ \E x \in Requests \cup Groups : Execute(c, x)
  \/ Edit \/ ClearTemplates

RequestsSpec == RequestsInit /\ [][RequestsNext]_requestVars

-----------------------------------------------------------------------------
(* "Execution consumes each member exactly once": over all launches, by     *)
(* callers that race for the same request alone, in a group and in another  *)
(* group, no request runs twice, and a group runs with all its members.     *)
LaunchedOnce ==
  /\ \A x \in DOMAIN launched : launched[x] <= 1
  /\ \A g \in Groups : launched[g] = 1 => \A r \in Range(Members[g]) : launched[r] = 1

(* What failed before its launch can be executed again: a request or group  *)
(* is consumed exactly by a launch, and a caller that is done, however its  *)
(* call ended, holds neither an execution lock nor the session.             *)
ReusableUntilLaunched ==
  /\ \A x \in DOMAIN launched : Consumed(x) <=> launched[x] > 0
  /\ \A x \in DOMAIN lockOf : lockOf[x] # Nobody => ~At(lockOf[x], "idle")
  /\ session.lock # Nobody => ~At(session.lock, "idle")

(* The template cache keeps within its entries and its parameter bytes, and *)
(* holds a key once, although callers build the same template at once.      *)
TemplatesBounded ==
  /\ Len(templates) <= MaxEntries /\ ChargeOf(templates) <= MaxParameterBytes
  /\ IsInjective(templates)

(* A request or group runs once at most, stays usable until it does, and    *)
(* leaves no lock and no unaccounted template behind, however callers race. *)
RequestsSafe == LaunchedOnce /\ ReusableUntilLaunched /\ TemplatesBounded
=============================================================================
