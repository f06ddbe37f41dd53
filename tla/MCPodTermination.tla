-------------------------- MODULE MCPodTermination --------------------------
(* Model checking of PodTermination: the processes are interchangeable, and *)
(* so are the runs with their pods.                                         *)
EXTENDS PodTermination, TLC

Symmetry == Permutations(Workers) \cup Permutations(Runs) \cup Permutations(Pods)
=============================================================================
