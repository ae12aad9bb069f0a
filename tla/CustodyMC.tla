------------------------------ MODULE CustodyMC ------------------------------
(* Two lanes that share a token, for TLC.                                    *)
EXTENDS Custody, TLC

CONSTANTS l1, l2, b, x

TwoLanes == b :> l2 @@ x :> l1
OneHolds == l1 :> 1 @@ l2 :> 0
OneEach == [l \in {l1, l2} |-> 1]
=============================================================================
