---------------------- MODULE MCTransferResourceCache ----------------------
(***************************************************************************)
(* Instances of TransferResourceCache.  Two devices; one key of each needs *)
(* a ring of two slots or an owned worker, so every limit can bind.        *)
(***************************************************************************)
EXTENDS TransferResourceCache

CONSTANTS gpu, host, ka, kb

MCDeviceOf == ka :> gpu @@ kb :> host
MCSlotsOf == ka :> 2 @@ kb :> 1
MCWorkersOf == ka :> 0 @@ kb :> 1

MCSameDevice == ka :> gpu @@ kb :> gpu

Symmetry == Permutations(Threads) \cup Permutations(Slots)
=============================================================================
