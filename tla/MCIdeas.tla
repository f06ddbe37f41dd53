---- MODULE MCIdeas ----
(* Two imports, one of them a manual idea or a seed, beside two people. *)
EXTENDS Ideas, TLC

Symmetry == Permutations(Requests) \cup Permutations(Writers)
====
