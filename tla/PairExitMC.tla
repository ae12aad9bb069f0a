----------------------------- MODULE PairExitMC ------------------------------
(* One market, for TLC; its two legs are alike.                              *)
EXTENDS PairExit, TLC

CONSTANTS a, b

Sides == Permutations(Legs)

\* What follows a merge that was misread is not looked at.
InSight == "misread" \notin lapsed
=============================================================================
