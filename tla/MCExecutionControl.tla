------------------------- MODULE MCExecutionControl -------------------------
(* Bounded instances of ExecutionControl.                                   *)
EXTENDS ExecutionControl, TLC

\* The first stage, where the last iteration ends the experiment, has one more.
TwoAndOne == <<2, 1>>
JustOne   == <<1>>

=============================================================================
