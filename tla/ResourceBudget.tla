--------------------------- MODULE ResourceBudget ---------------------------
(***************************************************************************)
(* What TransferResourceCache promises about its limits, without queues,   *)
(* threads, leases or construction ("Budgets are per cache and include     *)
(* reservations and quarantined resources", TransferResources.h).          *)
(* A holder is charged for one context, its workers and its staging ring   *)
(* from admission until it is released; a charge never changes its key or  *)
(* shrinks, a permanent charge is never released, and no step leaves the   *)
(* charges above a limit.                                                  *)
(***************************************************************************)
EXTENDS Charges

CONSTANTS Slots, Devices, Keys, DeviceOf, SlotsOf, WorkersOf,
          MaxContexts, MaxContextsPerDevice, MaxBackgroundWorkers,
          MaxRetainedBytes, MaxLiveStagingBytes

VARIABLE charge

\* A record with used = FALSE is no charge at all.
Charge == [used : BOOLEAN, key : Keys, capacity : Nat, permanent : BOOLEAN]

RingBytes(c) == SlotsOf[c.key] * c.capacity

Used == {s \in Slots : charge[s].used}
UsedOn(d) == {s \in Used : DeviceOf[charge[s].key] = d}
Retained == {s \in Used : RingBytes(charge[s]) <= MaxRetainedBytes}
Ring == [s \in Slots |-> RingBytes(charge[s])]
Gatherers == [s \in Slots |-> WorkersOf[charge[s].key]]

WithinLimits ==
  /\ Cardinality(Used) <= MaxContexts
  /\ \A d \in Devices : Cardinality(UsedOn(d)) <= MaxContextsPerDevice
  /\ Total(Used, Gatherers) <= MaxBackgroundWorkers
  /\ Total(Retained, Ring) <= MaxRetainedBytes
  /\ Total(Used, Ring) <= MaxLiveStagingBytes

Init == \A s \in Slots : ~charge[s].used

Others(s) == \A x \in Slots \ {s} : charge'[x] = charge[x]

Reserve(s) ==
  /\ ~charge[s].used
  /\ charge'[s].used /\ ~charge'[s].permanent
  /\ Others(s)
  /\ WithinLimits'

Extend(s) ==
  /\ charge[s].used /\ ~charge[s].permanent
  /\ charge'[s].used /\ ~charge'[s].permanent
  /\ charge'[s].key = charge[s].key
  /\ charge'[s].capacity > charge[s].capacity
  /\ Others(s)
  /\ WithinLimits'

Release(s) ==
  /\ charge[s].used /\ ~charge[s].permanent
  /\ ~charge'[s].used
  /\ Others(s)

Condemn(s) ==
  /\ charge[s].used /\ ~charge[s].permanent
  /\ charge' = [charge EXCEPT ![s].permanent = TRUE]

Next == \E s \in Slots : Reserve(s) \/ Extend(s) \/ Release(s) \/ Condemn(s)

Spec == Init /\ [][Next]_charge
=============================================================================
