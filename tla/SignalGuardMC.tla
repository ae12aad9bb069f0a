---------------------------- MODULE SignalGuardMC ----------------------------
(* Instances of SignalGuard for TLC: his orders a and b are of the two sides *)
(* of one market; c is of a's side, copied by a second lane.                 *)
EXTENDS SignalGuard, TLC

CONSTANTS a, b, c, l1, l2, mkt, x, y

Lane == a :> l1 @@ b :> l1 @@ c :> l2
Cond == a :> mkt @@ b :> mkt @@ c :> mkt
Token == a :> x @@ b :> y @@ c :> x
=============================================================================
