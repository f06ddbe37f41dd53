------------------------- MODULE TerminationContract -------------------------
(***************************************************************************)
(* What the rest of the server may rely on when it has asked for the        *)
(* termination of a run: the pod is destroyed before its deletion is        *)
(* stamped, the stamp comes before the request is closed as terminated and  *)
(* before the pod is paid for, and every request is closed in the end.      *)
(* Deliberately allowed: a closed request may be opened again (a retry      *)
(* after "failed", a late fault after "terminated"), and the pod may be     *)
(* gone long before anyone knows.                                           *)
(***************************************************************************)
EXTENDS Naturals

CONSTANT Runs

VARIABLES verdict,  \* state of the termination request of each run
          podUp,    \* the run's pod exists at RunPod
          stamped,  \* pod_terminated_at is set
          paid      \* the pod's billing was reconciled

cvars == <<verdict, podUp, stamped, paid>>

Closed == {"terminated", "failed"}

CInit ==
    /\ verdict = [r \in Runs |-> "none"]
    /\ podUp = [r \in Runs |-> TRUE]
    /\ stamped = [r \in Runs |-> FALSE]
    /\ paid = [r \in Runs |-> FALSE]

\* A request, or the return of a closed one.
Open(r) ==
    /\ verdict' = [verdict EXCEPT ![r] = "open"]
    /\ UNCHANGED <<podUp, stamped, paid>>

\* The pod goes away, by our doing or not.
Destroy(r) ==
    /\ podUp' = [podUp EXCEPT ![r] = FALSE]
    /\ UNCHANGED <<verdict, stamped, paid>>

Stamp(r) ==
    /\ ~podUp[r]
    /\ stamped' = [stamped EXCEPT ![r] = TRUE]
    /\ UNCHANGED <<verdict, podUp, paid>>

Close(r) ==
    /\ verdict[r] # "none"
    /\ \/ stamped[r] /\ verdict' = [verdict EXCEPT ![r] = "terminated"]
       \/ verdict' = [verdict EXCEPT ![r] = "failed"]
    /\ UNCHANGED <<podUp, stamped, paid>>

Pay(r) ==
    /\ stamped[r]
    /\ paid' = [paid EXCEPT ![r] = TRUE]
    /\ UNCHANGED <<verdict, podUp, stamped>>

CNext == \E r \in Runs : Open(r) \/ Destroy(r) \/ Stamp(r) \/ Close(r) \/ Pay(r)

CSafety == CInit /\ [][CNext]_cvars

\* Every opened request is closed.
CompletesRequests == \A r \in Runs : verdict[r] = "open" ~> verdict[r] \in Closed

CSpec == CSafety /\ CompletesRequests
=============================================================================
