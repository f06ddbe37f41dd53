---- MODULE MCEventFlow ----
(* Small scenarios side by side: their sizes add up instead of multiplying. *)
EXTENDS EventFlow, TLC

Scenario(events, start, ends, opens, fails, odd) ==
    [script |-> events, fresh |-> start, verdicts |-> ends, connections |-> opens,
     failures |-> fails, oddities |-> odd]

MCScenarios == {
    Scenario(<<"running_code", "run_completed">>, FALSE, 0, 0, 0, 1),
    Scenario(<<"running_code">>, FALSE, 0, 1, 0, 0),
    Scenario(<<"running_code">>, FALSE, 0, 0, 1, 0),
    Scenario(<<"codex_event", "stage_summary">>, FALSE, 0, 0, 1, 0),
    Scenario(<<"stage_completed">>, FALSE, 1, 0, 0, 0),
    Scenario(<<>>, FALSE, 0, 2, 0, 1),
    Scenario(<<>>, TRUE, 0, 1, 0, 0) }
====
