----------------------- MODULE MCDispatchResourcePool -----------------------
(***************************************************************************)
(* Instances of DispatchResourcePool.  Key ka needs one stream and kb two  *)
(* of the same device; kc is on another device and needs a worker.         *)
(***************************************************************************)
EXTENDS DispatchResourcePool

CONSTANTS gpu0, gpu1, ka, kb, kc

MCDeviceOf == [k \in Keys |-> IF k = kc THEN gpu1 ELSE gpu0]
MCStreamsOf == [k \in Keys |-> IF k = kb THEN 2 ELSE 1]
MCWorkersOf == [k \in Keys |-> IF k = kc THEN 1 ELSE 0]

Symmetry == Permutations(Threads) \cup Permutations(Handles)
=============================================================================
