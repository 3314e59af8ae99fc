--------------------------- MODULE MCTransferQueue ---------------------------
(* Two users share one group; a window of three groups needs its oldest     *)
(* slot back for the third.  The window's and a user's streams are shared.  *)
EXTENDS TransferQueue, TLC

CONSTANTS a, b, w, ua, g1, g2, g3, s1, s2

MCWindowGroups == <<g1, g2, g3>>
MCStreamOf == a :> s1 @@ b :> s2 @@ w :> s1
MCSize == ua :> 2 @@ g1 :> 1 @@ g2 :> 2 @@ g3 :> 1
=============================================================================
