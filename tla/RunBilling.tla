----------------------------- MODULE RunBilling -----------------------------
(***************************************************************************)
(* What one research run costs its user: the hold transactions the pipeline *)
(* monitor places while the run is going on, the reconciliation with the    *)
(* bill of RunPod that the termination job attempts once the pod is gone,   *)
(* and the BillingRetryWorker that attempts it again.  Every transaction on *)
(* the wallet is atomic; the sequence of them is not, and a task may raise  *)
(* or be lost between any two.  Amounts are left out: what counts is which  *)
(* transactions have been made, and how often.                              *)
(***************************************************************************)
EXTENDS Naturals

CONSTANTS
    MaxPods,     \* bound: pods of the run, restarts included
    MaxHolds,    \* bound: hold transactions of the run
    MaxRetries,  \* _DEFAULT_MAX_RETRY_COUNT
    MaxFaults,   \* bound: database calls that raise
    MaxCrashes,  \* bound: processes that die in a reconciliation
    MaxOutages   \* bound: times the retry worker does not run for 48 hours

ASSUME BillingAssumption ==
    /\ MaxPods \in Nat \ {0}
    /\ MaxRetries \in Nat \ {0}
    /\ {MaxHolds, MaxFaults, MaxCrashes, MaxOutages} \subseteq Nat

VARIABLES
    outcome,   \* how the run ended, "going_on" as long as it has not
    pod,       \* the pod of the run: its restarts count it up
    checking,  \* the monitor has seen the run active and will place a hold
    holds,     \* the hold transactions
    charges,   \* debits of the actual cost, by pod
    refunds,   \* refunds of the run
    bill,      \* RunPod has billing records for the run's pod
    hw,        \* research_pipeline_runs.hw_billing_status
    retries,   \* hw_billing_retry_count
    due,       \* the backoff since hw_billing_last_retry_at is over
    expired,   \* updated_at is more than 48 hours ago
    worker,    \* the reconciliation that is going on
    blame,     \* history: what has gone wrong
    spent      \* how much of each bound is used up

runVars    == <<outcome, pod>>
moneyVars == <<holds, charges, refunds>>
rowVars    == <<hw, retries, due, expired>>
logVars    == <<blame, spent>>
billingVars == <<outcome, pod, checking, holds, charges, refunds, bill, hw,
                 retries, due, expired, worker, blame, spent>>

-----------------------------------------------------------------------------

Pods  == 1..MaxPods
Holds == 1..MaxHolds

\* "broken": failed, and not because its user stopped it.
Outcomes == {"going_on", "completed", "stopped", "broken"}

BillingPoints == {"idle", "count", "fetch", "reverse", "charge", "refund",
                  "mark", "await", "fall_back", "refund_estimate"}

\* "job" is the termination job of the run, which runs once (SettledOnce of
\* PodTermination); "retry" the retry worker.
NoWorker == [who |-> "nobody", pc |-> "idle"]

BillingTypeOK ==
    /\ outcome \in Outcomes
    /\ pod \in Pods
    /\ checking \in BOOLEAN
    /\ holds \in [Holds -> {"none", "held", "reversed"}]
    /\ charges \in [Pods -> Nat]
    /\ refunds \in Nat
    /\ bill \in BOOLEAN
    /\ hw \in {"pending", "awaiting_billing_data", "charged", "charged_estimated"}
    /\ retries \in 0..MaxRetries
    /\ due \in BOOLEAN /\ expired \in BOOLEAN
    /\ worker \in [who : {"nobody", "job", "retry", "past"}, pc : BillingPoints]
    /\ blame \in SUBSET {"fault", "lost", "crash", "late_hold"}
    /\ spent \in [faults : Nat, crashes : Nat, outages : Nat]

\* Before the job the worker is "nobody", after it "past".
BillingInit ==
    /\ outcome = "going_on"
    /\ pod = 1
    /\ checking = FALSE
    /\ holds = [h \in Holds |-> "none"]
    /\ charges = [p \in Pods |-> 0]
    /\ refunds = 0
    /\ bill = FALSE
    /\ hw = "pending"
    /\ retries = 0
    /\ due = FALSE /\ expired = FALSE
    /\ worker = NoWorker
    /\ blame = {}
    /\ spent = [faults |-> 0, crashes |-> 0, outages |-> 0]

WorkerAt(pc)   == worker.pc = pc
WorkerGoes(pc) == worker' = [worker EXCEPT !.pc = pc]
WorkerEnds     == worker' = [who |-> "past", pc |-> "idle"]

-----------------------------------------------------------------------------
(* The run and its holds.                                                   *)

\* attempt_pod_restart replaces the pod of the row.
PodRestarted ==
    /\ outcome = "going_on" /\ pod < MaxPods
    /\ pod' = pod + 1
    /\ UNCHANGED <<outcome, checking, moneyVars, bill, rowVars, worker, logVars>>

\* The run is closed and its pod deleted.
RunEnds ==
    /\ outcome = "going_on"
    /\ outcome' \in Outcomes \ {"going_on"}
    /\ UNCHANGED <<pod, checking, moneyVars, bill, rowVars, worker, logVars>>

\* _handle_running_run lists the run as running, then asks RunPod for the pod.
CheckStarts ==
    /\ outcome = "going_on" /\ ~checking
    /\ \E h \in Holds : holds[h] = "none"
    /\ checking' = TRUE
    /\ UNCHANGED <<runVars, moneyVars, bill, rowVars, worker, logVars>>

\* The holds of the run have been looked up for the last time.
HoldsReversed == hw = "charged" \/ worker.pc \in {"charge", "refund", "mark"}

\* _bill_run_if_needed, whatever has become of the run meanwhile; it sets
\* last_billed_at, and with it updated_at.
PlaceHold ==
    /\ checking
    /\ checking' = FALSE
    /\ \E h \in Holds :
          holds[h] = "none" /\ holds' = [holds EXCEPT ![h] = "held"]
    /\ blame' = blame \cup (IF HoldsReversed THEN {"late_hold"} ELSE {})
    /\ expired' = FALSE
    /\ UNCHANGED <<runVars, charges, refunds, bill, hw, retries, due, worker,
                   spent>>

\* RunPod's billing records appear some time after the pod was deleted.
BillAppears ==
    /\ outcome # "going_on" /\ ~bill
    /\ bill' = TRUE
    /\ UNCHANGED <<runVars, checking, moneyVars, rowVars, worker, logVars>>

-----------------------------------------------------------------------------
(* The retry worker's selection of runs.                                    *)

\* The interval of the backoff has passed.
BackoffEnds ==
    /\ hw = "awaiting_billing_data" /\ WorkerAt("idle") /\ ~due
    /\ due' = TRUE
    /\ UNCHANGED <<runVars, checking, moneyVars, bill, hw, retries, expired,
                   worker, logVars>>

\* No write to the row for 48 hours.  Each retry writes it, and two retries
\* are at most four hours apart: no process has been the monitor.
Outage ==
    /\ hw = "awaiting_billing_data" /\ WorkerAt("idle")
    /\ ~expired /\ spent.outages < MaxOutages
    /\ expired' = TRUE
    /\ spent' = [spent EXCEPT !.outages = @ + 1]
    /\ UNCHANGED <<runVars, checking, moneyVars, bill, hw, retries, due,
                   worker, blame>>

\* Mutants: charged runs are listed again; a run is listed once less than
\* retry_billing_for_run counts on.
AwaitingAnyStatus ==
    hw \in {"awaiting_billing_data", "charged"} /\ retries < MaxRetries

AwaitingOnceLess ==
    hw = "awaiting_billing_data" /\ retries < MaxRetries - 1 /\ due /\ ~expired

\* list_runs_awaiting_billing
Awaiting ==
    hw = "awaiting_billing_data" /\ retries < MaxRetries /\ due /\ ~expired

\* _record_pod_billing_event is called by the termination job, ...
JobStarts ==
    /\ outcome # "going_on" /\ worker = NoWorker
    /\ worker' = [who |-> "job", pc |-> "fetch"]
    /\ UNCHANGED <<runVars, checking, moneyVars, bill, rowVars, logVars>>

\* ... and by retry_billing_for_run.
RetryStarts ==
    /\ WorkerAt("idle") /\ Awaiting
    /\ worker' = [who |-> "retry", pc |-> "count"]
    /\ UNCHANGED <<runVars, checking, moneyVars, bill, rowVars, logVars>>

CountRetry ==
    /\ WorkerAt("count")
    /\ retries' = retries + 1
    /\ due' = FALSE /\ expired' = FALSE
    /\ WorkerGoes("fetch")
    /\ UNCHANGED <<runVars, checking, moneyVars, bill, hw, logVars>>

-----------------------------------------------------------------------------
(* _record_pod_billing_event, statement by statement.                       *)

\* RunPod does not answer, or has no records yet, or has them.
FetchBill ==
    /\ WorkerAt("fetch")
    /\ \/ WorkerGoes("await")
       \/ bill /\ WorkerGoes("reverse")
    /\ UNCHANGED <<runVars, checking, moneyVars, bill, rowVars, logVars>>

\* reverse_hold_transactions: one transaction, each hold at most once.
ReverseHolds ==
    /\ WorkerAt("reverse")
    /\ holds' = [h \in Holds |-> IF holds[h] = "held" THEN "reversed" ELSE holds[h]]
    /\ WorkerGoes("charge")
    /\ UNCHANGED <<runVars, checking, charges, refunds, bill, rowVars, logVars>>

\* charge_cents
ChargeActual ==
    /\ WorkerAt("charge")
    /\ charges' = [charges EXCEPT ![pod] = @ + 1]
    /\ WorkerGoes("refund")
    /\ UNCHANGED <<runVars, checking, holds, refunds, bill, rowVars, logVars>>

\* _refund_failed_run_if_eligible: only failures that are not user_stop.
Refunded == IF outcome = "broken" THEN refunds + 1 ELSE refunds

RefundActual ==
    /\ WorkerAt("refund")
    /\ refunds' = Refunded
    /\ WorkerGoes("mark")
    /\ UNCHANGED <<runVars, checking, holds, charges, bill, rowVars, logVars>>

\* The event and its publication follow; nothing depends on them.
MarkCharged ==
    /\ WorkerAt("mark")
    /\ hw' = "charged" /\ expired' = FALSE
    /\ WorkerEnds
    /\ UNCHANGED <<runVars, checking, moneyVars, bill, retries, due, logVars>>

\* The caller that has used up its retries falls back to the holds.
MarkAwaiting ==
    /\ WorkerAt("await")
    /\ hw' = "awaiting_billing_data" /\ due' = FALSE /\ expired' = FALSE
    /\ IF worker.who = "retry" /\ retries >= MaxRetries
       THEN WorkerGoes("fall_back") ELSE WorkerEnds
    /\ UNCHANGED <<runVars, checking, moneyVars, bill, retries, logVars>>

-----------------------------------------------------------------------------
(* The fallback of retry_billing_for_run.                                   *)

\* Mutant: the holds are reversed although nothing else is charged.
FallBackReversing ==
    /\ WorkerAt("fall_back")
    /\ hw' = "charged_estimated" /\ expired' = FALSE
    /\ holds' = [h \in Holds |-> IF holds[h] = "held" THEN "reversed" ELSE holds[h]]
    /\ WorkerGoes("refund_estimate")
    /\ UNCHANGED <<runVars, checking, charges, refunds, bill, retries, due, logVars>>

\* "by NOT reversing them": the holds become the price.
FallBack ==
    /\ WorkerAt("fall_back")
    /\ hw' = "charged_estimated" /\ expired' = FALSE
    /\ WorkerGoes("refund_estimate")
    /\ UNCHANGED <<runVars, checking, moneyVars, bill, retries, due, logVars>>

RefundEstimate ==
    /\ WorkerAt("refund_estimate")
    /\ refunds' = Refunded
    /\ WorkerEnds
    /\ UNCHANGED <<runVars, checking, holds, charges, bill, rowVars, logVars>>

-----------------------------------------------------------------------------
(* Failures.                                                                *)

\* A database call raises.  In the try block of the reconciliation that marks
\* the run for a retry; anywhere else it ends the attempt, which is lost if it
\* was about to mark the run for a retry or as estimated.
Fault ==
    /\ ~WorkerAt("idle") /\ ~WorkerAt("fetch") /\ spent.faults < MaxFaults
    /\ IF worker.pc \in {"reverse", "charge", "refund", "mark"}
       THEN WorkerGoes("await") ELSE WorkerEnds
    /\ spent' = [spent EXCEPT !.faults = @ + 1]
    /\ blame' = blame \cup
          {IF worker.pc \in {"await", "fall_back"} THEN "lost" ELSE "fault"}
    /\ UNCHANGED <<runVars, checking, moneyVars, bill, rowVars>>

\* The process goes down; the termination row is closed: the job is past.
Crash ==
    /\ ~WorkerAt("idle") /\ spent.crashes < MaxCrashes
    /\ WorkerEnds
    /\ spent' = [spent EXCEPT !.crashes = @ + 1]
    /\ blame' = blame \cup {"crash"}
    /\ UNCHANGED <<runVars, checking, moneyVars, bill, rowVars>>

-----------------------------------------------------------------------------

Reconcile == \/ FetchBill \/ ReverseHolds \/ ChargeActual \/ RefundActual
             \/ MarkCharged \/ MarkAwaiting \/ CountRetry
             \/ FallBack \/ RefundEstimate

BillingNext ==
    \/ PodRestarted \/ RunEnds \/ CheckStarts \/ PlaceHold \/ BillAppears
    \/ BackoffEnds \/ Outage
    \/ JobStarts \/ RetryStarts \/ Reconcile \/ Fault \/ Crash

\* The job is started, time passes, the retry worker keeps polling, calls
\* return.  RunPod need not ever have a bill.
Fairness ==
    /\ WF_billingVars(JobStarts) /\ WF_billingVars(BackoffEnds)
    /\ WF_billingVars(RetryStarts) /\ WF_billingVars(Reconcile)

BillingSpec == BillingInit /\ [][BillingNext]_billingVars
FairSpec == BillingSpec /\ Fairness

-----------------------------------------------------------------------------
(* Properties.                                                              *)

AtRest   == WorkerAt("idle")
Open     == {h \in Holds : holds[h] = "held"}
Reversed == {h \in Holds : holds[h] = "reversed"}
Debits   == {p \in Pods : charges[p] > 0}

\* The settlement is exact unless something has gone wrong: the last pod is
\* charged once and no hold is left, or the holds are the price; a run that
\* broke down is refunded once, any other never.
SettlementIsExact ==
    AtRest /\ blame = {} =>
       /\ hw = "charged" => charges[pod] = 1 /\ Debits = {pod} /\ Open = {}
       /\ hw = "charged_estimated" => Debits = {} /\ Reversed = {}
       /\ hw \in {"charged", "charged_estimated"} =>
             refunds = IF outcome = "broken" THEN 1 ELSE 0

\* Whatever goes wrong, "charged" means that the actual cost was charged, and
\* only runs that broke down are refunded.
ChargedIsCharged ==
    /\ hw = "charged" => charges[pod] > 0
    /\ refunds > 0 => outcome = "broken"

\* A settled run stays settled: nothing is charged after "charged", and
\* nothing but the refund follows "charged_estimated".
SettledIsFinal ==
    [][/\ hw = "charged" => UNCHANGED <<hw, charges, refunds>>
       /\ hw = "charged_estimated" => UNCHANGED <<hw, charges>>]_billingVars

\* Every run that has ended is settled, by RunPod's bill or by its holds, and
\* calls that raise inside the reconciliation do not prevent it.  A crash, a
\* call that raises while the run is marked, or 48 hours without a monitor do.
RunsAreSettled ==
    outcome # "going_on" ~>
       \/ hw \in {"charged", "charged_estimated"}
       \/ blame \cap {"lost", "crash"} # {} \/ spent.outages > 0

\* "Research runs: Periodic "hold" transactions during execution, then
\* reconciled with actual RunPod billing at termination": every pod is charged.
EveryPodIsCharged == hw = "charged" => Debits = 1..pod

=============================================================================
