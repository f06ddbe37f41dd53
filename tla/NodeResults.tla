---------------------------- MODULE NodeResults ----------------------------
(***************************************************************************)
(* What process_node makes of one execution of the tree search: the node   *)
(* it returns, from what the coding agent left in the workspace and what   *)
(* the language models said.  No error gets out of here: whatever goes     *)
(* wrong gives a buggy node.                                               *)
(***************************************************************************)
EXTENDS Naturals

CONSTANT MaxMetric  \* metrics are 1..MaxMetric, larger is better; 0 is none

(* A node is what the selection tells apart: whether it works (is_buggy    *)
(* and is_buggy_plots are False), its metric, and whether it repeats       *)
(* another node under a new seed.                                          *)
Nodes == [good : BOOLEAN, metric : 0..MaxMetric, seed : BOOLEAN]
Bad == [good |-> FALSE, metric |-> 0, seed |-> FALSE]

Executions ==
    [failed : BOOLEAN,    \* the session timed out, was terminated or failed
     file : BOOLEAN,      \* node_result.json is there and can be read
     code : BOOLEAN,      \* the agent file is there and not empty
     keeps : BOOLEAN,     \* the fields the stage asks for are there
     parses : BOOLEAN,    \* they make a Node
     claim : {"works", "buggy", "silent"},  \* is_buggy, with an analysis
     approved : BOOLEAN,  \* what a language model says if it is silent
     metric : 0..MaxMetric,                 \* what parse_metrics.py yields
     plots : BOOLEAN,     \* is_buggy_plots is False
     pngs : BOOLEAN,      \* there are plots
     vlm : {"valid", "invalid", "none"}]    \* a vision model's verdict

(* The contract of the last two stages: sound plots are on disk.           *)
KeepsContract(e, stage) ==
    e.keeps /\ (stage \in {3, 4} /\ e.plots => e.pngs)

Reported(e, stage) == e.file /\ e.code /\ KeepsContract(e, stage)

(* The agent's own word counts, even when its session failed; only if it   *)
(* said nothing a failed session is a bug.                                 *)
Works(e) ==
    /\ e.parses
    /\ e.claim = "works" \/ (e.claim = "silent" /\ e.approved /\ ~e.failed)

(* Metrics are only looked for on a node that works; without any it is     *)
(* buggy.                                                                  *)
Measured(e) == Works(e) /\ e.metric > 0

(* The vision model has the last word on the plots of the last two stages. *)
PlotsWork(e, stage) ==
    IF stage \in {3, 4} /\ e.pngs /\ e.vlm # "none" THEN e.vlm = "valid" ELSE e.plots

NodeOf(e, stage, seed) ==
    IF Reported(e, stage) /\ Measured(e) /\ PlotsWork(e, stage)
    THEN [good |-> TRUE, metric |-> e.metric, seed |-> seed]
    ELSE Bad

ResultTable ==
    [stage \in 1..4 |->
        [seed \in BOOLEAN |-> {NodeOf(e, stage, seed) : e \in Executions}]]
=============================================================================
