----------------------------- MODULE OrderPathMC -----------------------------
(* Instances of OrderPath for TLC.                                           *)
EXTENDS OrderPath, TLC

CONSTANTS la, lb, b1, b2, s1, salt

\* Every buy copies the same order of the leader.
OneSalt == [b \in Buys |-> salt]

\* The second buy is another lane's.
OwnLane == [h \in Orders |-> IF h = b2 THEN lb ELSE la]
=============================================================================
