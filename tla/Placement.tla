------------------------------ MODULE Placement ------------------------------
(****************************************************************************)
(* Completed-call placement (reloc_torch/placement.py): before a blocking   *)
(* call, choose() picks the implementation that a profile of measurements   *)
(* says is cheapest, or the saved Torch path when the profile does not      *)
(* apply; succeeded() remembers which paths are warm.                       *)
(*                                                                          *)
(* Callers share one policy; its lock is held only around each dictionary,  *)
(* so a step here is what the code does between two of them.  Meanwhile the *)
(* resource owner is cleared or closed and the context and the machine      *)
(* change.  The profile is replaced only while nobody chooses.  A cost is a *)
(* small number in place of the interpolated milliseconds.                  *)
(****************************************************************************)
EXTENDS Naturals, SequencesExt, FiniteSetsExt

CONSTANTS
  Placers,         \* the threads that make blocking calls
  Families,        \* recipes: "layout", "typed" and "other"
  Contexts,        \* scheduling states the application reports
  Machines,        \* hardware fingerprints
  Forces,          \* paths force() may demand, and "no"
  Profiles,        \* hardware, and costs of <<family, path, state, context>>
  Capacity,        \* entries of each history
  MaxClears, MaxCalls, MaxShifts  \* bounds of the model

ASSUME PlacementConstants ==
  /\ \A p \in Profiles : \A m \in DOMAIN p.costs : p.costs[m] \in Nat
  /\ {Capacity, MaxClears, MaxCalls, MaxShifts} \subseteq Nat

VARIABLES
  policy,   \* profile, _cached_profile, _seen and _predictions
  resources,    \* the adapter's native resources
  world,    \* the context and the machine, as they are now
  placing,  \* each caller's call
  warmed    \* calls that succeeded (history)

placementVars == <<policy, resources, world, placing, warmed>>

NoProfile == [hardware |-> "none"]
NotPlacing == [pc |-> "none"]

PlacementInit ==
  /\ \E p \in Profiles \cup {NoProfile} :
       policy = [profile |-> p, cached |-> p, seen |-> <<>>, predictions |-> <<>>]
  /\ \E retained, made \in BOOLEAN :
       /\ made => retained
       /\ resources = [retained |-> retained, made |-> made, generation |-> 0, open |-> TRUE]
  /\ \E c \in Contexts, m \in Machines :
       world = [context |-> c, machine |-> m, shifts |-> 0, calls |-> 0]
  /\ placing = [t \in Placers |-> NotPlacing] /\ warmed = {}

-----------------------------------------------------------------------------
(* What a recipe may run on.                                                *)

candidates(f) ==
  CASE f = "layout" -> {"native", "torch_cpu", "torch_gpu", "sym_cpu"}
    [] f = "typed"  -> {"torch_cpu", "torch_gpu", "sym_cpu", "sym_gpu"}
    [] OTHER        -> {}
Conservative(f) == IF f = "typed" THEN "torch_cpu" ELSE "native"
Sym == {"sym_cpu", "sym_gpu"}

\* placement_configuration(): (id(resources), generation), 0 before AUTO made
\* the owner.
Epoch == IF resources.made THEN resources.generation + 1 ELSE 0

Key(call, epoch) == [family |-> call.family, context |-> call.context, epoch |-> epoch]

\* predict(), for the paths with measurements that reach this call.
Predict(profile, f, states, c) ==
  LET measured(p) == <<f, p, states[p], c>>
      known == {p \in candidates(f) : measured(p) \in DOMAIN profile.costs}
  IN  [p \in known |-> profile.costs[measured(p)]]

\* An OrderedDict of at most Capacity entries, oldest first: move_to_end(),
\* the assignment to a key, popitem().
Touched(history, entry) == Append(RemoveFirst(history, entry), entry)
Index(predictions, k) == CHOOSE i \in DOMAIN predictions : predictions[i].key = k
Has(predictions, k) == \E i \in DOMAIN predictions : predictions[i].key = k
Assigned(predictions, entry) ==
  IF Has(predictions, entry.key)
  THEN [predictions EXCEPT ![Index(predictions, entry.key)] = entry]
  ELSE Append(predictions, entry)
Bounded(history) == IF Len(history) > Capacity THEN Tail(history) ELSE history

PredictionKeyStateless(call) == [key |-> Key(call, call.epoch), states |-> <<>>]
PredictionKey(call) == [key |-> Key(call, call.epoch), states |-> call.states]

-----------------------------------------------------------------------------
(* choose()                                                                 *)

NoStates == [p \in {} |-> "cold"]
NoCosts == [p \in {} |-> 0]

Becomes(t, call) == placing' = [placing EXCEPT ![t] = call]
Returns(t) == Becomes(t, NotPlacing)
At(t, pc) == placing[t].pc = pc

(* A closed owner raises; a recipe that is not qualified takes the existing *)
(* runtime, without placement, or raises if a path was forced.              *)
Choose(t, f, forced) ==
  /\ At(t, "none") /\ world.calls < MaxCalls /\ resources.open
  /\ candidates(f) # {}
  /\ Becomes(t, [pc |-> "states", family |-> f, forced |-> forced, context |-> world.context,
                 epoch |-> Epoch, retained |-> resources.retained, profile |-> policy.profile,
                 states |-> NoStates, path |-> "none", predicted |-> NoCosts])
  /\ world' = [world EXCEPT !.calls = @ + 1]
  /\ UNCHANGED <<policy, resources, warmed>>

Warm(call, path) ==
  /\ <<Key(call, call.epoch), path>> \in Range(policy.seen)
  /\ call.retained \/ path \notin Sym

Decide(t, call, path, costs) ==
  Becomes(t, [call EXCEPT !.pc = "run", !.path = path, !.predicted = costs])

(* The states are read under the lock.  A forced path must be qualified.    *)
ReadStates(t) ==
  /\ At(t, "states")
  /\ LET call == placing[t]
         stated == [call EXCEPT !.pc = "lookup", !.states =
                      [p \in candidates(call.family) |-> IF Warm(call, p) THEN "warm" ELSE "cold"]]
     IN  IF call.forced # "no"
         THEN IF call.forced \in candidates(call.family)
              THEN Decide(t, stated, call.forced, NoCosts)
              ELSE Returns(t)
         ELSE IF policy.profile = NoProfile
         THEN Decide(t, stated, Conservative(call.family), NoCosts)
         ELSE Becomes(t, stated)
  /\ UNCHANGED <<policy, resources, world, warmed>>

Cheapest(costs) == CHOOSE p \in DOMAIN costs : \A q \in DOMAIN costs : costs[p] <= costs[q]
Chosen(call, costs) == IF Conservative(call.family) \in DOMAIN costs THEN Cheapest(costs)
                       ELSE Conservative(call.family)

\* hardware(): the model and driver are looked up once for each device,
\* affinity and thread settings are read now.
Hardware == world.machine

(* The fingerprint of the machine is taken now.  If it is the profile's,    *)
(* the saved predictions are looked up; another profile's are forgotten.    *)
KnownForgetless == policy
Known == IF policy.cached = policy.profile THEN policy
         ELSE [policy EXCEPT !.predictions = <<>>, !.cached = policy.profile]
LookUp(t) ==
  /\ At(t, "lookup")
  /\ LET call == placing[t]
         k == PredictionKey(call)
     IN  IF policy.profile.hardware # Hardware
         THEN Decide(t, call, Conservative(call.family), NoCosts) /\ UNCHANGED policy
         ELSE IF Has(Known.predictions, k)
         THEN LET entry == Known.predictions[Index(Known.predictions, k)] IN
              /\ policy' = [Known EXCEPT !.predictions = Touched(@, entry)]
              /\ Decide(t, call, Chosen(call, entry.costs), entry.costs)
         ELSE policy' = Known /\ Becomes(t, [call EXCEPT !.pc = "predict"])
  /\ UNCHANGED <<resources, world, warmed>>

(* Without the lock predictions are computed; two callers may both do so.   *)
RecordPrediction(t) ==
  /\ At(t, "predict")
  /\ LET call == placing[t]
         costs == Predict(policy.profile, call.family, call.states, call.context)
         entry == [key |-> PredictionKey(call), costs |-> costs]
     IN  /\ policy' = [policy EXCEPT !.predictions = Bounded(Assigned(@, entry))]
         /\ Decide(t, call, Chosen(call, costs), costs)
  /\ UNCHANGED <<resources, world, warmed>>

-----------------------------------------------------------------------------
(* The call itself, and succeeded().                                        *)

(* The chosen path runs once.  A failure is terminal; a Sym path makes the  *)
(* owner if it is not made yet, and needs it open.                          *)
RunPath(t) ==
  /\ At(t, "run")
  /\ LET call == placing[t] IN
     \/ /\ call.path \in Sym => resources.open
        /\ resources' = [resources EXCEPT !.made = @ \/ (call.path \in Sym /\ resources.retained)]
        /\ Becomes(t, [call EXCEPT !.pc = "succeeded"])
     \/ Returns(t) /\ UNCHANGED resources
  /\ UNCHANGED <<policy, world, warmed>>

KeyUntimed(call) == Key(call, call.epoch)
KeyNow(call) == Key(call, Epoch)

(* The epoch is read again, because this call may have made the owner.  A   *)
(* closed owner makes the completed call raise.                             *)
Succeeded(t) ==
  /\ At(t, "succeeded")
  /\ LET call == placing[t]
         path == call.path
     IN  IF resources.open
         THEN /\ policy' = [policy EXCEPT !.seen = Bounded(Touched(@, <<KeyNow(call), path>>))]
              /\ warmed' = warmed \cup {[family |-> call.family, context |-> call.context,
                                         path |-> path, returned |-> Epoch]}
         ELSE UNCHANGED <<policy, warmed>>
  /\ Returns(t) /\ UNCHANGED <<resources, world>>

-----------------------------------------------------------------------------
(* The rest of the program.                                                 *)

ClearOwner ==
  /\ resources.open /\ resources.made /\ resources.generation < MaxClears
  /\ resources' = [resources EXCEPT !.generation = @ + 1]
  /\ UNCHANGED <<policy, world, placing, warmed>>
ClosePlacementOwner ==
  /\ resources.open /\ resources' = [resources EXCEPT !.open = FALSE]
  /\ UNCHANGED <<policy, world, placing, warmed>>
Shift ==
  /\ world.shifts < MaxShifts
  /\ \E c \in Contexts, m \in Machines :
       world' = [world EXCEPT !.context = c, !.machine = m, !.shifts = @ + 1]
  /\ UNCHANGED <<policy, resources, placing, warmed>>
ReplaceProfile ==
  /\ world.shifts < MaxShifts /\ world' = [world EXCEPT !.shifts = @ + 1]
  /\ \A t \in Placers : ~At(t, "states") /\ ~At(t, "lookup") /\ ~At(t, "predict")
  /\ \E p \in Profiles : policy' = [policy EXCEPT !.profile = p]
  /\ UNCHANGED <<resources, placing, warmed>>

PlacementNext ==
  \/ \E t \in Placers :
       \/ \E f \in Families, forced \in Forces : Choose(t, f, forced)
       \/ ReadStates(t) \/ LookUp(t) \/ RecordPrediction(t) \/ RunPath(t) \/ Succeeded(t)
  \/ ClearOwner \/ ClosePlacementOwner \/ Shift \/ ReplaceProfile
PlacementSpec == PlacementInit /\ [][PlacementNext]_placementVars

-----------------------------------------------------------------------------
Decided(t) == At(t, "run") \/ At(t, "succeeded")

(* A call that takes the cheapest path takes it on the evidence of the      *)
(* profile installed while it chose, for the states and the context it was  *)
(* called in, never on predictions saved under another profile, context or  *)
(* state; without evidence for the conservative path it takes that path.    *)
(* A path is believed warm only if a matching call succeeded and had not    *)
(* returned before the owner was last cleared (choose, succeeded).          *)
PlacementJustified ==
  \A t \in Placers : Decided(t) =>
    LET call == placing[t] IN
    /\ call.path \in candidates(call.family)
    /\ call.predicted # NoCosts =>
         call.predicted = Predict(call.profile, call.family, call.states, call.context)
    /\ call.forced = "no" /\ call.path # Conservative(call.family)
         => /\ Conservative(call.family) \in DOMAIN call.predicted
            /\ \A p \in DOMAIN call.predicted : call.predicted[call.path] <= call.predicted[p]
    /\ \A p \in DOMAIN call.states : call.states[p] = "warm" =>
         \E w \in warmed : /\ w.family = call.family /\ w.context = call.context /\ w.path = p
                           /\ w.returned = call.epoch
==============================================================================
