-------------------------------- MODULE MCClient -------------------------------
(***************************************************************************)
(* A client with two units, one of which holds the private key, for TLC.   *)
(***************************************************************************)
EXTENDS Client, TLC

CONSTANTS u1, u2

TwoUnits == {u1, u2}
Sizes == u1 :> 3 @@ u2 :> 1
KeyInFirst == {<<u1, 0>>}
AllFaults == FaultKinds
=============================================================================
