------------------------------- MODULE PlaneMC --------------------------------
(* One lane, for TLC, and what may go wrong at once.                         *)
EXTENDS Plane, TLC

CONSTANT lane

Stops == {"forget", "race", "recover", "runtime"}
Exits == {"split", "reboot", "resumed", "unwritten"}
AtOnce == {Stops, Exits}
=============================================================================
