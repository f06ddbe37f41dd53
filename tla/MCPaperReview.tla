---- MODULE MCPaperReview ----
(* One session, one run and one review, two handlers beside the review's task. *)
EXTENDS PaperReview, TLC

Symmetry == Permutations(Handlers)
====
