--------------------------- MODULE MCRunLifecycle ---------------------------
(* Bounded instances of RunLifecycle.  Handlers are interchangeable, and so *)
(* are the pods RunPod hands out.                                           *)
EXTENDS RunLifecycle, TLC

Symmetry == Permutations(Handlers) \cup Permutations(Pods)

\* The history only grows: once a task has written a pod over one it had not
\* read, the properties of rl_restarts, which all allow for that, hold for
\* good, and there is no need to go on.
Unrepointed == "repointed" \notin history

=============================================================================
