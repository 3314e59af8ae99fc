-------------------------- MODULE TransferPromise --------------------------
(***************************************************************************)
(* What one chunked transfer promises its caller, whatever the staging     *)
(* ring, the queues and the failures in between: windows of the            *)
(* destination receive their bytes and keep them; success means that every *)
(* window has them; and once the transfer reported success or an ordinary  *)
(* failure, or gave its staging back, nothing moves any more.  Only        *)
(* "unknown", with the staging retained, leaves copies behind.             *)
(***************************************************************************)
CONSTANT Windows

VARIABLES moved, result, storage

vars == <<moved, result, storage>>

Init == moved = {} /\ result = "running" /\ storage = "held"

Move ==
  /\ result \in {"running", "unknown"} /\ storage # "freed"
  /\ \E W \in SUBSET Windows : moved' = moved \cup W
  /\ UNCHANGED <<result, storage>>

End ==
  /\ result = "running"
  /\ result' \in {"ok", "failed", "unknown"}
  /\ storage' \in {"freed", "retained"}
  /\ result' = "ok" => moved = Windows /\ storage' = "freed"
  /\ UNCHANGED moved

Next == Move \/ End

Spec == Init /\ [][Next]_vars
=============================================================================
