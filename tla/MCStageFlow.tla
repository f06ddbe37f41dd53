---------------------------- MODULE MCStageFlow ----------------------------
(* A run small enough for TLC: two attempts in a stage, two metrics.         *)
EXTENDS StageFlow
=============================================================================
