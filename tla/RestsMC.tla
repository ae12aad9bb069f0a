------------------------------ MODULE RestsMC -------------------------------
(* Two rests of one lane, for TLC.                                           *)
EXTENDS Rests, TLC
=============================================================================
