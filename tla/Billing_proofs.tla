--------------------------- MODULE Billing_proofs ---------------------------
(***************************************************************************)
(* Proofs about what a user pays, for any bounds: of RunBilling, that the   *)
(* settlement of a run is exact unless something has gone wrong, that       *)
(* "charged" always means charged, and that a settled run stays settled; of *)
(* Wallet and PaperReview, for any number of handlers, sessions, runs and   *)
(* reviews and any amounts, that purchases and refunds take effect once,    *)
(* that flags contradict the balance only for a cause, and that reviews are *)
(* charged exactly when they complete.                                      *)
(***************************************************************************)
EXTENDS RunBilling, PaperReview, TLAPS

(* The runs: RunBilling.                                                    *)

Priced == {"charged", "charged_estimated"}

\* What the point of the reconciliation says about the run, faults or not.
Progress ==
    /\ worker.who = "nobody" => worker.pc = "idle" /\ hw = "pending"
    /\ worker.who # "nobody" => outcome # "going_on"
    /\ worker.pc \notin {"idle", "refund_estimate"} => hw \notin Priced
    /\ worker.pc = "fall_back" => hw = "awaiting_billing_data"
    /\ worker.pc = "refund_estimate" => hw = "charged_estimated"
    /\ worker.pc \in {"refund", "mark"} => charges[pod] > 0
    /\ ChargedIsCharged

\* The refund a settled run has got.
Due == IF outcome = "broken" THEN 1 ELSE 0

Untouched == Debits = {} /\ Reversed = {}
Charged   == charges[pod] = 1 /\ Debits = {pod} /\ Open = {}

\* The state of the ledger at each point, as long as nothing has gone wrong.
Ledger ==
    blame = {} =>
       /\ hw \notin Priced /\ worker.pc \notin {"charge", "refund", "mark"} =>
             Untouched /\ refunds = 0
       /\ worker.pc = "charge" => Debits = {} /\ Open = {} /\ refunds = 0
       /\ worker.pc = "refund" => Charged /\ refunds = 0
       /\ worker.pc = "mark" => Charged /\ refunds = Due
       /\ hw = "charged" => Charged /\ refunds = Due
       /\ hw = "charged_estimated" => Untouched
       /\ worker.pc = "refund_estimate" => refunds = 0
       /\ hw = "charged_estimated" /\ worker.pc = "idle" => refunds = Due

-----------------------------------------------------------------------------

\* A run is only listed while it has retries left, so that the count of the
\* retry keeps to its limit.
BillingTyped == BillingTypeOK /\ (worker.pc = "count" => retries < MaxRetries)

\* The initial state is well typed.
LEMMA InitBillingTyped == BillingInit => BillingTyped
<1> SUFFICES ASSUME BillingInit PROVE BillingTyped
  OBVIOUS
<1> USE BillingAssumption
     DEF BillingInit, Outcomes, Pods, Holds, BillingPoints, NoWorker
<1>1. charges \in [Pods -> Nat] /\ holds \in [Holds -> {"none", "held", "reversed"}]
  OBVIOUS
<1>2. worker \in [who : {"nobody", "job", "retry", "past"}, pc : BillingPoints]
  OBVIOUS
<1>3. spent \in [faults : Nat, crashes : Nat, outages : Nat]
  OBVIOUS
<1>4. pod \in Pods /\ retries \in 0..MaxRetries
  OBVIOUS
<1> QED BY <1>1, <1>2, <1>3, <1>4 DEF BillingTypeOK, BillingTyped

\* The worker's record stays a record wherever it goes.
LEMMA WorkerTyped ==
    ASSUME BillingTypeOK, NEW pc \in BillingPoints
    PROVE  /\ WorkerGoes(pc) =>
                 /\ worker' \in [who : {"nobody", "job", "retry", "past"}, pc : BillingPoints]
                 /\ worker'.pc = pc /\ worker'.who = worker.who
           /\ WorkerEnds =>
                 /\ worker' \in [who : {"nobody", "job", "retry", "past"}, pc : BillingPoints]
                 /\ worker'.pc = "idle" /\ worker'.who = "past"
  BY DEF BillingTypeOK, WorkerGoes, WorkerEnds, BillingPoints

\* Every statement of the reconciliation keeps the state well typed.
LEMMA ReconcileTyped == BillingTyped /\ Reconcile => BillingTyped'
<1> SUFFICES ASSUME BillingTyped, Reconcile PROVE BillingTyped'
  OBVIOUS
<1>t. BillingTypeOK
  BY DEF BillingTyped
<1>w. \A pc \in BillingPoints : WorkerGoes(pc) =>
         /\ worker' \in [who : {"nobody", "job", "retry", "past"}, pc : BillingPoints]
         /\ worker'.pc = pc
  BY <1>t, WorkerTyped
<1>e. WorkerEnds =>
         /\ worker' \in [who : {"nobody", "job", "retry", "past"}, pc : BillingPoints]
         /\ worker'.pc = "idle"
  BY <1>t, WorkerTyped DEF BillingPoints
<1>p. {"idle", "count", "fetch", "reverse", "charge", "refund", "mark", "await",
       "fall_back", "refund_estimate"} \subseteq BillingPoints
  BY DEF BillingPoints
<1> USE BillingAssumption, <1>t, <1>w, <1>e, <1>p
     DEF BillingTyped, BillingTypeOK, runVars, moneyVars, rowVars, logVars, WorkerAt
<1>1. CASE FetchBill BY <1>1 DEF FetchBill
<1>2. CASE ReverseHolds BY <1>2 DEF ReverseHolds
<1>3. CASE ChargeActual BY <1>3 DEF ChargeActual
<1>4. CASE RefundActual BY <1>4 DEF RefundActual, Refunded
<1>5. CASE MarkCharged BY <1>5 DEF MarkCharged
<1>6. CASE MarkAwaiting BY <1>6 DEF MarkAwaiting
<1>7. CASE CountRetry
  <2>1. retries' \in 0..MaxRetries
    BY <1>7 DEF CountRetry
  <2>2. worker' \in [who : {"nobody", "job", "retry", "past"}, pc : BillingPoints]
        /\ worker'.pc = "fetch"
    BY <1>7 DEF CountRetry
  <2> QED BY <1>7, <2>1, <2>2 DEF CountRetry
<1>8. CASE FallBack BY <1>8 DEF FallBack
<1>9. CASE RefundEstimate BY <1>9 DEF RefundEstimate, Refunded
<1> QED
  BY <1>1, <1>2, <1>3, <1>4, <1>5, <1>6, <1>7, <1>8, <1>9 DEF Reconcile

\* The failures keep the state well typed.
LEMMA FailuresTyped == BillingTyped /\ (Fault \/ Crash \/ Outage) => BillingTyped'
<1> SUFFICES ASSUME BillingTyped, Fault \/ Crash \/ Outage PROVE BillingTyped'
  OBVIOUS
<1>t. BillingTypeOK
  BY DEF BillingTyped
<1>1. spent' \in [faults : Nat, crashes : Nat, outages : Nat]
  <2>1. spent \in [faults : Nat, crashes : Nat, outages : Nat]
    BY <1>t DEF BillingTypeOK
  <2>2. CASE Fault
    <3>1. spent' = [spent EXCEPT !.faults = @ + 1]
      BY <2>2 DEF Fault
    <3> QED BY <2>1, <3>1
  <2>3. CASE Crash
    <3>1. spent' = [spent EXCEPT !.crashes = @ + 1]
      BY <2>3 DEF Crash
    <3> QED BY <2>1, <3>1
  <2>4. CASE Outage
    <3>1. spent' = [spent EXCEPT !.outages = @ + 1]
      BY <2>4 DEF Outage
    <3> QED BY <2>1, <3>1
  <2> QED BY <2>2, <2>3, <2>4
<1>2. /\ worker' \in [who : {"nobody", "job", "retry", "past"}, pc : BillingPoints]
      /\ worker'.pc # "count"
  <2>1. "await" \in BillingPoints /\ "idle" \in BillingPoints
    BY DEF BillingPoints
  <2>2. CASE Fault
    <3>1. WorkerGoes("await") \/ WorkerEnds
      BY <2>2 DEF Fault
    <3> QED BY <1>t, <2>1, <3>1, WorkerTyped
  <2>3. CASE Crash
    <3>1. WorkerEnds
      BY <2>3 DEF Crash
    <3> QED BY <1>t, <2>1, <3>1, WorkerTyped
  <2>4. CASE Outage
    <3>1. worker.pc = "idle" /\ worker' = worker
      BY <2>4 DEF Outage, WorkerAt
    <3> QED BY <1>t, <3>1 DEF BillingTypeOK
  <2> QED BY <2>2, <2>3, <2>4
<1>3. blame' \in SUBSET {"fault", "lost", "crash", "late_hold"}
  BY <1>t DEF Fault, Crash, Outage, BillingTypeOK
<1>4. /\ UNCHANGED <<runVars, checking, moneyVars, bill, hw, retries, due>>
      /\ expired' \in BOOLEAN
  BY <1>t DEF Fault, Crash, Outage, BillingTypeOK, rowVars
<1> QED BY <1>t, <1>1, <1>2, <1>3, <1>4 DEF BillingTyped, BillingTypeOK, runVars, moneyVars

\* Every step keeps the state well typed.
LEMMA StepBillingTyped == BillingTyped /\ [BillingNext]_billingVars => BillingTyped'
<1> SUFFICES ASSUME BillingTyped, [BillingNext]_billingVars PROVE BillingTyped'
  OBVIOUS
<1>t. BillingTypeOK
  BY DEF BillingTyped
<1> USE <1>t DEF runVars, moneyVars, rowVars, logVars, WorkerAt
<1>1. CASE PodRestarted
  <2>1. pod' \in Pods
    BY <1>1, BillingAssumption DEF PodRestarted, BillingTypeOK, Pods
  <2>2. UNCHANGED <<outcome, checking, moneyVars, bill, rowVars, worker, logVars>>
    BY <1>1 DEF PodRestarted
  <2> QED BY <2>1, <2>2 DEF BillingTyped, BillingTypeOK
<1>2. CASE RunEnds
  BY <1>2 DEF RunEnds, BillingTyped, BillingTypeOK, Outcomes
<1>3. CASE CheckStarts \/ BillAppears \/ BackoffEnds
  BY <1>3 DEF CheckStarts, BillAppears, BackoffEnds, BillingTyped, BillingTypeOK
<1>4. CASE PlaceHold
  <2>1. holds' \in [Holds -> {"none", "held", "reversed"}]
    BY <1>4 DEF PlaceHold, BillingTypeOK
  <2>2. blame' \in SUBSET {"fault", "lost", "crash", "late_hold"}
    BY <1>4 DEF PlaceHold, BillingTypeOK
  <2>3. /\ checking' = FALSE /\ expired' = FALSE
        /\ UNCHANGED <<runVars, charges, refunds, bill, hw, retries, due,
                       worker, spent>>
    BY <1>4 DEF PlaceHold
  <2> QED BY <2>1, <2>2, <2>3 DEF BillingTyped, BillingTypeOK
<1>5. CASE JobStarts \/ RetryStarts
  <2>1. /\ worker' \in [who : {"nobody", "job", "retry", "past"}, pc : BillingPoints]
        /\ worker'.pc = "count" => retries < MaxRetries
    BY <1>5 DEF JobStarts, RetryStarts, Awaiting, BillingPoints
  <2>2. UNCHANGED <<runVars, checking, moneyVars, bill, rowVars, logVars>>
    BY <1>5 DEF JobStarts, RetryStarts
  <2> QED BY <2>1, <2>2 DEF BillingTyped, BillingTypeOK
<1>6. CASE Reconcile BY <1>6, ReconcileTyped
<1>7. CASE Fault \/ Crash \/ Outage BY <1>7, FailuresTyped
<1>8. CASE UNCHANGED billingVars BY <1>8 DEF billingVars, BillingTyped, BillingTypeOK
<1> QED
  BY <1>1, <1>2, <1>3, <1>4, <1>5, <1>6, <1>7, <1>8 DEF BillingNext

\* Type correctness, for every value of the constants; the limit of the
\* retries is part of it.
THEOREM BillingTypeCorrect == BillingSpec => []BillingTypeOK
<1>1. BillingSpec => []BillingTyped
  BY InitBillingTyped, StepBillingTyped, PTL DEF BillingSpec
<1>2. BillingTyped => BillingTypeOK
  BY DEF BillingTyped
<1> QED BY <1>1, <1>2, PTL

-----------------------------------------------------------------------------

\* Nothing has been charged or refunded in the initial state.
LEMMA InitProgress == BillingInit => Progress
  BY DEF BillingInit, Progress, Priced, ChargedIsCharged, NoWorker

\* The statements of the reconciliation keep Progress: "charged" is only
\* written after the charge, a refund only given to a run that broke down.
LEMMA ReconcileProgress == BillingTyped /\ Progress /\ Reconcile => Progress'
<1> SUFFICES ASSUME BillingTyped, Progress, Reconcile PROVE Progress'
  OBVIOUS
<1>t. BillingTypeOK
  BY DEF BillingTyped
<1>w. \A pc \in BillingPoints : WorkerGoes(pc) =>
         worker'.pc = pc /\ worker'.who = worker.who
  BY <1>t, WorkerTyped
<1>e. WorkerEnds => worker'.pc = "idle" /\ worker'.who = "past"
  BY <1>t, WorkerTyped DEF BillingPoints
<1>p. {"idle", "count", "fetch", "reverse", "charge", "refund", "mark", "await",
       "fall_back", "refund_estimate"} \subseteq BillingPoints
  BY DEF BillingPoints
<1>c. charges \in [Pods -> Nat] /\ pod \in Pods /\ refunds \in Nat
  BY <1>t DEF BillingTypeOK
<1> USE <1>w, <1>e, <1>p, <1>c
     DEF Progress, Priced, ChargedIsCharged, runVars, moneyVars, rowVars,
         logVars, WorkerAt
<1>1. CASE FetchBill BY <1>1 DEF FetchBill
<1>2. CASE ReverseHolds BY <1>2 DEF ReverseHolds
<1>3. CASE ChargeActual BY <1>3 DEF ChargeActual
<1>4. CASE RefundActual BY <1>4 DEF RefundActual, Refunded
<1>5. CASE MarkCharged BY <1>5 DEF MarkCharged
<1>6. CASE MarkAwaiting BY <1>6 DEF MarkAwaiting
<1>7. CASE CountRetry BY <1>7 DEF CountRetry
<1>8. CASE FallBack BY <1>8 DEF FallBack
<1>9. CASE RefundEstimate BY <1>9 DEF RefundEstimate, Refunded
<1> QED
  BY <1>1, <1>2, <1>3, <1>4, <1>5, <1>6, <1>7, <1>8, <1>9 DEF Reconcile

\* Every step keeps Progress.
LEMMA StepProgress == BillingTyped /\ Progress /\ [BillingNext]_billingVars => Progress'
<1> SUFFICES ASSUME BillingTyped, Progress, [BillingNext]_billingVars PROVE Progress'
  OBVIOUS
<1>c. charges \in [Pods -> Nat] /\ pod \in Pods /\ refunds \in Nat
      /\ worker \in [who : {"nobody", "job", "retry", "past"}, pc : BillingPoints]
  BY DEF BillingTyped, BillingTypeOK
<1> USE <1>c
     DEF Progress, Priced, ChargedIsCharged, runVars, moneyVars, rowVars,
         logVars, WorkerAt, WorkerGoes, WorkerEnds
<1>1. CASE PodRestarted BY <1>1 DEF PodRestarted
<1>2. CASE RunEnds BY <1>2 DEF RunEnds
<1>3. CASE CheckStarts BY <1>3 DEF CheckStarts
<1>4. CASE PlaceHold
  <2>1. UNCHANGED <<runVars, charges, refunds, hw, worker>>
    BY <1>4 DEF PlaceHold
  <2> QED BY <2>1
<1>5. CASE BillAppears BY <1>5 DEF BillAppears
<1>6. CASE BackoffEnds BY <1>6 DEF BackoffEnds
<1>7. CASE Outage BY <1>7 DEF Outage
<1>8. CASE JobStarts BY <1>8 DEF JobStarts, NoWorker
<1>9. CASE RetryStarts BY <1>9 DEF RetryStarts, Awaiting
<1>10. CASE Reconcile BY <1>10, ReconcileProgress
<1>11. CASE Fault BY <1>11 DEF Fault
<1>12. CASE Crash BY <1>12 DEF Crash
<1>13. CASE UNCHANGED billingVars BY <1>13 DEF billingVars
<1> QED
  BY <1>1, <1>2, <1>3, <1>4, <1>5, <1>6, <1>7, <1>8, <1>9, <1>10, <1>11, <1>12,
     <1>13 DEF BillingNext

\* "charged" means that the actual cost was charged, whatever goes wrong
\* between the statements, and only runs that broke down are refunded.
THEOREM ChargedMeansCharged == BillingSpec => []ChargedIsCharged
<1>1. BillingInit => BillingTyped /\ Progress
  BY InitBillingTyped, InitProgress
<1>2. BillingTyped /\ Progress /\ [BillingNext]_billingVars =>
         (BillingTyped /\ Progress)'
  BY StepBillingTyped, StepProgress
<1>3. Progress => ChargedIsCharged
  BY DEF Progress
<1> QED BY <1>1, <1>2, <1>3, PTL DEF BillingSpec

\* What SettledIsFinal asks of a step.
Final ==
    /\ hw = "charged" => UNCHANGED <<hw, charges, refunds>>
    /\ hw = "charged_estimated" => UNCHANGED <<hw, charges>>

\* A settled run is not listed again and nobody is reconciling it, but for
\* the refund of a run settled by its holds.
LEMMA StepFinal == BillingTyped /\ Progress /\ [BillingNext]_billingVars => Final
<1> SUFFICES ASSUME BillingTyped, Progress, [BillingNext]_billingVars PROVE Final
  OBVIOUS
<1> USE DEF Final, Progress, Priced, runVars, moneyVars, rowVars, logVars,
            WorkerAt
<1>1. CASE Reconcile
  BY <1>1 DEF Reconcile, FetchBill, ReverseHolds, ChargeActual, RefundActual,
     MarkCharged, MarkAwaiting, CountRetry, FallBack, RefundEstimate
<1>2. CASE PlaceHold
  <2>1. UNCHANGED <<charges, refunds, hw>>
    BY <1>2 DEF PlaceHold
  <2> QED BY <2>1
<1>3. CASE PodRestarted \/ RunEnds \/ CheckStarts \/ BillAppears
  BY <1>3 DEF PodRestarted, RunEnds, CheckStarts, BillAppears
<1>4. CASE BackoffEnds \/ Outage \/ JobStarts \/ RetryStarts
  BY <1>4 DEF BackoffEnds, Outage, JobStarts, RetryStarts
<1>5. CASE Fault \/ Crash
  BY <1>5 DEF Fault, Crash
<1>6. CASE UNCHANGED billingVars
  BY <1>6 DEF billingVars
<1> QED BY <1>1, <1>2, <1>3, <1>4, <1>5, <1>6 DEF BillingNext

\* A settled run stays settled, and is charged no more.
THEOREM SettledStays == BillingSpec => SettledIsFinal
<1>1. BillingInit => BillingTyped /\ Progress
  BY InitBillingTyped, InitProgress
<1>2. BillingTyped /\ Progress /\ [BillingNext]_billingVars =>
         (BillingTyped /\ Progress)'
  BY StepBillingTyped, StepProgress
<1>3. BillingTyped /\ Progress /\ [BillingNext]_billingVars => [Final]_billingVars
  BY StepFinal
<1>4. BillingSpec => [][Final]_billingVars
  BY <1>1, <1>2, <1>3, PTL DEF BillingSpec
<1> QED BY <1>4 DEF SettledIsFinal, Final

-----------------------------------------------------------------------------

\* The wallet is empty in the initial state.
LEMMA InitLedger == BillingInit => Ledger
  BY DEF BillingInit, Ledger, Priced, Untouched, Debits, Reversed, NoWorker

\* The ledger only looks at these variables.
LEMMA UnseenLedger ==
    ASSUME Ledger, UNCHANGED <<runVars, moneyVars, hw, worker, blame>>
    PROVE  Ledger'
  BY DEF Ledger, Priced, Untouched, Charged, Due, Debits, Reversed, Open,
         runVars, moneyVars

\* The statements of the reconciliation: what each does to the ledger.
LEMMA ReconcileLedger == BillingTyped /\ Progress /\ Ledger /\ Reconcile => Ledger'
<1> SUFFICES ASSUME BillingTyped, Progress, Ledger, Reconcile PROVE Ledger'
  OBVIOUS
<1>t. BillingTypeOK
  BY DEF BillingTyped
<1>w. \A pc \in BillingPoints : WorkerGoes(pc) =>
         worker'.pc = pc /\ worker'.who = worker.who
  BY <1>t, WorkerTyped
<1>e. WorkerEnds => worker'.pc = "idle" /\ worker'.who = "past"
  BY <1>t, WorkerTyped DEF BillingPoints
<1>p. {"idle", "count", "fetch", "reverse", "charge", "refund", "mark", "await",
       "fall_back", "refund_estimate"} \subseteq BillingPoints
  BY DEF BillingPoints
<1>c. /\ charges \in [Pods -> Nat] /\ pod \in Pods /\ refunds \in Nat
      /\ holds \in [Holds -> {"none", "held", "reversed"}]
  BY <1>t DEF BillingTypeOK
<1> USE <1>w, <1>e, <1>p, <1>c
     DEF Progress, Priced, Ledger, runVars, moneyVars, rowVars, logVars,
         WorkerAt
\* Statements that leave run and wallet alone keep what is said of them.
<1>k. ASSUME UNCHANGED <<runVars, moneyVars>>
      PROVE  Untouched' = Untouched /\ Charged' = Charged /\ Due' = Due
             /\ Debits' = Debits /\ Open' = Open
  BY <1>k DEF Untouched, Charged, Due, Debits, Reversed, Open
<1>1. CASE FetchBill BY <1>1, <1>k DEF FetchBill
<1>2. CASE ReverseHolds
  <2>1. Open' = {}
    BY <1>2 DEF ReverseHolds, Open
  <2>2. Debits' = Debits
    BY <1>2 DEF ReverseHolds, Debits
  <2> QED BY <1>2, <2>1, <2>2 DEF ReverseHolds, Untouched
<1>3. CASE ChargeActual
  <2>1. Open' = Open
    BY <1>3 DEF ChargeActual, Open
  <2>2. Debits = {} => charges'[pod] = 1 /\ Debits' = {pod}
    BY <1>3 DEF ChargeActual, Debits
  <2> QED BY <1>3, <2>1, <2>2 DEF ChargeActual, Charged
<1>4. CASE RefundActual
  <2>1. Charged' = Charged /\ Due' = Due
    BY <1>4 DEF RefundActual, Charged, Due, Debits, Open
  <2>2. refunds = 0 => refunds' = Due
    BY <1>4 DEF RefundActual, Refunded, Due
  <2> QED BY <1>4, <2>1, <2>2 DEF RefundActual
<1>5. CASE MarkCharged BY <1>5, <1>k DEF MarkCharged
<1>6. CASE MarkAwaiting BY <1>6, <1>k DEF MarkAwaiting
<1>7. CASE CountRetry BY <1>7, <1>k DEF CountRetry
<1>8. CASE FallBack BY <1>8, <1>k DEF FallBack
<1>9. CASE RefundEstimate
  <2>1. Untouched' = Untouched /\ Due' = Due
    BY <1>9 DEF RefundEstimate, Untouched, Due, Debits, Reversed
  <2>2. refunds = 0 => refunds' = Due
    BY <1>9 DEF RefundEstimate, Refunded, Due
  <2> QED BY <1>9, <2>1, <2>2 DEF RefundEstimate
<1> QED
  BY <1>1, <1>2, <1>3, <1>4, <1>5, <1>6, <1>7, <1>8, <1>9 DEF Reconcile

\* Every step keeps the ledger, or is to blame for what is wrong with it.
LEMMA StepLedger ==
    BillingTyped /\ Progress /\ Ledger /\ [BillingNext]_billingVars => Ledger'
<1> SUFFICES ASSUME BillingTyped, Progress, Ledger, [BillingNext]_billingVars PROVE Ledger'
  OBVIOUS
<1>c. /\ charges \in [Pods -> Nat] /\ pod \in Pods /\ refunds \in Nat
      /\ holds \in [Holds -> {"none", "held", "reversed"}]
      /\ worker \in [who : {"nobody", "job", "retry", "past"}, pc : BillingPoints]
      /\ hw \in {"pending", "awaiting_billing_data", "charged", "charged_estimated"}
  BY DEF BillingTyped, BillingTypeOK
<1> USE DEF runVars, moneyVars, rowVars, logVars
\* As long as the run is going on, no reconciliation has touched its wallet.
<1>r. ASSUME outcome = "going_on"
      PROVE  worker.pc = "idle" /\ hw = "pending"
  BY <1>r DEF Progress
<1>1. CASE PodRestarted \/ RunEnds
  <2>1. worker.pc = "idle" /\ hw = "pending" /\ UNCHANGED <<worker, hw, moneyVars, blame>>
    BY <1>1, <1>r DEF PodRestarted, RunEnds
  <2>2. Untouched' = Untouched
    BY <2>1 DEF Untouched, Debits, Reversed
  <2> QED BY <2>1, <2>2 DEF Ledger, Priced
<1>2. CASE CheckStarts \/ BillAppears \/ BackoffEnds
  BY <1>2, UnseenLedger DEF CheckStarts, BillAppears, BackoffEnds
<1>3. CASE Outage
  BY <1>3, UnseenLedger DEF Outage
<1>4. CASE PlaceHold
  <2>1. /\ UNCHANGED <<runVars, charges, refunds, hw, worker>>
        /\ HoldsReversed => "late_hold" \in blame'
        /\ blame' = {} => blame = {}
    BY <1>4 DEF PlaceHold
  <2>2. PICK i \in Holds :
           holds[i] = "none" /\ holds' = [holds EXCEPT ![i] = "held"]
    BY <1>4 DEF PlaceHold
  <2>3. Reversed' = Reversed /\ Debits' = Debits /\ Due' = Due
    BY <1>c, <2>1, <2>2 DEF Reversed, Debits, Due
  <2> QED BY <2>1, <2>3 DEF Ledger, Priced, Untouched, HoldsReversed
<1>5. CASE JobStarts \/ RetryStarts
  <2>1. /\ worker.pc = "idle" /\ worker'.pc \in {"fetch", "count"}
        /\ hw \notin Priced
        /\ UNCHANGED <<runVars, moneyVars, hw, blame>>
    BY <1>5
       DEF JobStarts, RetryStarts, NoWorker, Awaiting, Progress, Priced, WorkerAt
  <2>2. Untouched' = Untouched
    BY <2>1 DEF Untouched, Debits, Reversed
  <2> QED BY <2>1, <2>2 DEF Ledger, Priced
<1>6. CASE Reconcile
  BY <1>6, ReconcileLedger
<1>7. CASE Fault \/ Crash
  <2>1. blame' # {}
    BY <1>7 DEF Fault, Crash
  <2> QED BY <2>1 DEF Ledger
<1>8. CASE UNCHANGED billingVars
  BY <1>8, UnseenLedger DEF billingVars
<1> QED BY <1>1, <1>2, <1>3, <1>4, <1>5, <1>6, <1>7, <1>8 DEF BillingNext

\* As long as no call raised, no process died and no hold came late: a run
\* marked "charged" was charged for its last pod once and has no hold left, a
\* run settled by its holds keeps them all, and the refund fits the outcome.
THEOREM ExactSettlement == BillingSpec => []SettlementIsExact
<1>1. BillingInit => BillingTyped /\ Progress /\ Ledger
  BY InitBillingTyped, InitProgress, InitLedger
<1>2. BillingTyped /\ Progress /\ Ledger /\ [BillingNext]_billingVars =>
         (BillingTyped /\ Progress /\ Ledger)'
  BY StepBillingTyped, StepProgress, StepLedger
<1>3. Ledger => SettlementIsExact
  BY DEF Ledger, SettlementIsExact, Priced, Charged, Untouched, Due, AtRest, WorkerAt
<1> QED BY <1>1, <1>2, <1>3, PTL DEF BillingSpec

-----------------------------------------------------------------------------
(* The wallet and the reviews: Wallet and PaperReview.                      *)

Tasks == [job : Jobs, of : Sessions \cup Runs \cup {None}, at : Points, seen : Int]

\* Where a handler of each kind can be, and what it is about.
Consistent(t) ==
    /\ t.job = "none" => t = Idle
    /\ t.job = "completed" => /\ t.of \in Sessions
                              /\ t.at \in {"close", "credit", "read", "unlock_runs", "unlock_reviews"}
    /\ t.job = "refund" => t.of \in Sessions /\ t.at \in {"check", "look_up", "take_off"}
    /\ t.job = "usage" => t.of \in Runs /\ t.at \in {"debit", "read", "lock_runs", "lock_reviews"}
    /\ t.job = "hold" => /\ t.of \in Runs
                         /\ t.at \in {"debit", "read", "lock_runs", "lock_reviews", "mark"}
    /\ t.job = "end" => t.of \in Runs /\ t.at \in {"read", "write"}
    /\ t.job = "launch" => t.of \in Runs /\ t.at \in {"check", "create"}

Typed == TypeOK /\ \A h \in Handlers : Consistent(task[h])

-----------------------------------------------------------------------------

\* A handler that is to credit the session it has closed.
Credits(h, s) == task[h].job = "completed" /\ task[h].of = s /\ task[h].at = "credit"

\* A session that is completed has been credited, or will be by the one handler
\* that closed it, unless that handler was cut off.
Purchased(s) ==
    /\ credited[s] <= 1
    /\ credited[s] = 1 => session[s] = "completed"
    /\ session[s] = "none" => paid[s] = "no"
    /\ session[s] = "expired" <=> paid[s] = "expired"
    /\ mail[<<"completed", s>>] = "none" <=> paid[s] \in {"no", "expired"}
    /\ mail[<<"completed", s>>] = "answered" => session[s] = "completed"
    /\ session[s] = "completed" /\ credited[s] = 0 =>
          <<"completed", s>> \in mangled \/ \E h \in Handlers : Credits(h, s)
    /\ \A h \in Handlers :
          /\ task[h].job = "completed" /\ task[h].of = s =>
                /\ mail[<<"completed", s>>] # "none"
                /\ task[h].at # "close" => session[s] = "completed"
          /\ Credits(h, s) => credited[s] = 0
    /\ \A h, k \in Handlers : Credits(h, s) /\ Credits(k, s) => h = k

Refunds(h, s) == task[h].job = "refund" /\ task[h].of = s

\* A refund that nobody has handled beside another is taken off by the one
\* handler that has found it missing.
RefundedOnce(s) ==
    <<"refund", s>> \notin mangled =>
      /\ refunded[s] <= 1
      /\ mail[<<"refund", s>>] = "answered" => refunded[s] = 1
      /\ \A h \in Handlers :
            Refunds(h, s) /\ task[h].at \in {"look_up", "take_off"} => refunded[s] = 0
      /\ \A h, k \in Handlers : Refunds(h, s) /\ Refunds(k, s) => h = k

Effects == \A s \in Sessions : Purchased(s) /\ RefundedOnce(s)

-----------------------------------------------------------------------------

\* A handler of a purchase that is still to unlock c if the balance allows it.
Unlocks(h, c) ==
    /\ task[h].job = "completed"
    /\ \/ task[h].at \in {"read", "unlock_runs"}
       \/ task[h].at = "unlock_reviews" /\ c \in Reviews

\* What the user can pay for is open, or to be opened, or has strayed.
Openings ==
    balance > 0 => \A c \in Content : enough[c] = "no" =>
       c \in strayed \/ \E h \in Handlers : Unlocks(h, c)

\* A handler or a review's task that is still to lock c if the balance demands it.
Locks(h, c) ==
    /\ task[h].job \in {"usage", "hold"}
    /\ \/ task[h].at \in {"read", "lock_runs"}
       \/ task[h].at = "lock_reviews" /\ c \in Reviews

LocksToo(v, c) ==
    \/ job[v] \in {"read", "lock_runs"}
    \/ job[v] = "lock_reviews" /\ c \in Reviews

\* What the user cannot pay for is locked, or to be locked, or has strayed.
Closings ==
    balance <= 0 => \A c \in Active : enough[c] # "no" =>
       \/ c \in strayed
       \/ \E h \in Handlers : Locks(h, c)
       \/ \E v \in Reviews : LocksToo(v, c)

-----------------------------------------------------------------------------

\* What the row and the debits of a review are at each point of its task.
Accounted(v) ==
    /\ job[v] \in {"none", "insert", "begin"} => ~old[v]
    /\ job[v] \in {"none", "insert"} => charged[v] = 0 /\ status[v] = "none"
    /\ job[v] = "begin" => charged[v] = 0 /\ status[v] = "pending"
    /\ job[v] \in {"work", "complete"} => charged[v] = 0 /\ status[v] # "completed"
    /\ job[v] \in {"store", "debit"} => charged[v] = 0 /\ status[v] = "completed"
    /\ job[v] \in {"read", "lock_runs", "lock_reviews", "reread", "flag_no", "flag_yes"} =>
          charged[v] = 1 /\ status[v] = "completed"
    /\ charged[v] <= 1
    /\ v \notin cut =>
          /\ job[v] = "fail" => charged[v] = 0 /\ status[v] # "completed"
          /\ job[v] = "excuse" => charged[v] = 0 /\ status[v] = "failed"
          /\ job[v] \in {"clear", "over", "dead"} => (charged[v] = 1 <=> status[v] = "completed")
          /\ job[v] \in {"clear", "over"} => status[v] \in {"completed", "failed"}

Accounts == \A v \in Reviews : Accounted(v)

-----------------------------------------------------------------------------
(* Types. *)

\* What becomes of the handlers' tasks when one of them goes on.
LEMMA TaskGoes ==
    ASSUME Typed, NEW h \in Handlers, NEW at \in Points, Goto(h, at)
    PROVE  /\ task' \in [Handlers -> Tasks]
           /\ \A k \in Handlers : k # h => task'[k] = task[k]
           /\ task'[h].job = task[h].job /\ task'[h].of = task[h].of
           /\ task'[h].at = at
<1>1. task \in [Handlers -> Tasks]
  BY DEF Typed, TypeOK, WalletTypeOK, Tasks
<1>2. task' = [task EXCEPT ![h] = [task[h] EXCEPT !.at = at]]
  BY Zenon DEF Goto
<1>3. task[h] \in Tasks
  BY <1>1
<1>4. [task[h] EXCEPT !.at = at] \in Tasks
  BY <1>3 DEF Tasks
<1>5. task'[h] = [task[h] EXCEPT !.at = at]
  BY <1>1, <1>2
<1>6. task'[h].job = task[h].job /\ task'[h].of = task[h].of /\ task'[h].at = at
  BY <1>3, <1>5 DEF Tasks
<1> QED BY <1>1, <1>2, <1>4, <1>6

\* ... when it ends ...
LEMMA TaskEnds ==
    ASSUME Typed, NEW h \in Handlers, Done(h)
    PROVE  /\ task' \in [Handlers -> Tasks]
           /\ \A k \in Handlers : k # h => task'[k] = task[k]
           /\ task'[h] = Idle
<1>1. task \in [Handlers -> Tasks]
  BY DEF Typed, TypeOK, WalletTypeOK, Tasks
<1>2. Idle \in Tasks
  BY DEF Idle, Tasks, Jobs, Points
<1> QED BY <1>1, <1>2 DEF Done

\* ... and when it begins.
LEMMA TaskBegins ==
    ASSUME Typed, NEW h \in Handlers, NEW j \in Jobs, NEW o \in Sessions \cup Runs,
           NEW at \in Points, Begin(h, j, o, at)
    PROVE  /\ task' \in [Handlers -> Tasks]
           /\ \A k \in Handlers : k # h => task'[k] = task[k]
           /\ task'[h].job = j /\ task'[h].of = o /\ task'[h].at = at
           /\ task[h] = Idle
<1>1. task \in [Handlers -> Tasks]
  BY DEF Typed, TypeOK, WalletTypeOK, Tasks
<1> DEFINE t == [job |-> j, of |-> o, at |-> at, seen |-> 0]
<1>2. t \in Tasks /\ t.job = j /\ t.of = o /\ t.at = at
  BY DEF Tasks
<1>3. task' = [task EXCEPT ![h] = t] /\ task[h] = Idle
  BY DEF Begin
<1> HIDE DEF t
<1> QED BY <1>1, <1>2, <1>3

\* An idle handler is nowhere and about nothing.
LEMMA IdleIs == Idle.job = "none" /\ Idle.of = None /\ Idle.at = "idle"
  BY DEF Idle

\* Everything begins well typed.
LEMMA InitTyped == Init => Typed
<1> SUFFICES ASSUME Init PROVE Typed
  OBVIOUS
<1>1. task \in [Handlers -> Tasks] /\ \A h \in Handlers : task[h] = Idle
  <2>1. Idle \in Tasks
    BY DEF Idle, Tasks, Jobs, Points
  <2> QED BY <2>1 DEF Init, WalletInit
<1>2. left \in [{"requests", "oddities"} -> Nat]
  BY ConstantsAssumption DEF Init, WalletInit
<1>3. WalletTypeOK
  BY <1>1, <1>2, ConstantsAssumption DEF Init, WalletInit, WalletTypeOK, Tasks
<1>4. TypeOK
  BY <1>3, ReviewAssumption DEF Init, TypeOK, ReviewPoints, Inside
<1> QED BY <1>1, <1>4, IdleIs DEF Typed, Consistent

\* The steps at Stripe start no task.
LEMMA StripeTyped ==
    ASSUME Typed, NEW s \in Sessions,
           CreateSession(s) \/ Pay(s) \/ Refund(s) \/ Expire(s), UNCHANGED reviewVars
    PROVE  Typed'
<1> USE DEF Typed, TypeOK, WalletTypeOK, reviewVars
<1>1. task' = task
  BY DEF CreateSession, Pay, Refund, Post, Expire
<1>2. CASE CreateSession(s)
  BY <1>1, <1>2 DEF CreateSession, ledgerVars, contentVars, historyVars, Consistent
<1>3. CASE Pay(s) \/ Refund(s)
  <2>1. mail' \in [Events -> {"none", "due", "answered"}]
    BY <1>3 DEF Pay, Refund, Post
  <2> QED
    BY <1>1, <1>3, <2>1 DEF Pay, Refund, Post, ledgerVars, contentVars, historyVars, Consistent
<1>4. CASE Expire(s)
  BY <1>1, <1>4 DEF Expire, ledgerVars, contentVars, historyVars, Consistent
<1> QED BY <1>2, <1>3, <1>4

\* The bounds stay numbers.
LEMMA LeftTyped ==
    ASSUME Typed, NEW what \in {"requests", "oddities"}, Spend(what)
    PROVE  left' \in [{"requests", "oddities"} -> Nat]
  BY DEF Typed, TypeOK, WalletTypeOK, Spend

\* Neither do the credits from elsewhere.
LEMMA AdjustTyped ==
    ASSUME Typed, Adjust, UNCHANGED reviewVars
    PROVE  Typed'
<1> USE DEF Typed, TypeOK, WalletTypeOK
<1>1. left' \in [{"requests", "oddities"} -> Nat]
  BY LeftTyped DEF Adjust
<1>2. strayed' \subseteq Content /\ balance' \in Int
  BY ConstantsAssumption DEF Adjust, Transact, Contradicted, Active
<1> QED
  BY <1>1, <1>2 DEF Adjust, stripeVars, contentVars, reviewVars, Consistent

\* A handler that has taken up an event or a request is where it should be.
LEMMA StartTyped ==
    ASSUME Typed, NEW h \in Handlers, UNCHANGED reviewVars,
           \/ \E e \in Events : Deliver(h, e)
           \/ \E r \in Runs : UsageStarts(h, r) \/ HoldStarts(h, r) \/ EndStarts(h, r)
                                \/ LaunchStarts(h, r)
    PROVE  Typed'
<1>0. /\ balance \in Int /\ session' = session /\ paid' = paid /\ mail' = mail
      /\ balance' = balance /\ credited' = credited /\ refunded' = refunded
      /\ status' = status /\ enough' = enough /\ strayed' = strayed
      /\ UNCHANGED <<job, old, charged, cut, startups>>
  BY DEF Deliver, UsageStarts, HoldStarts, EndStarts, LaunchStarts, stripeVars,
         ledgerVars, contentVars, historyVars, reviewVars, Typed, TypeOK, WalletTypeOK
<1>1. left' \in [{"requests", "oddities"} -> Nat]
  <2>1. left' = left \/ Spend("requests") \/ Spend("oddities")
    BY DEF Deliver, UsageStarts, HoldStarts, EndStarts, LaunchStarts
  <2> QED BY <2>1, LeftTyped DEF Typed, TypeOK, WalletTypeOK
<1>2. mangled' \subseteq Events
  BY DEF Deliver, UsageStarts, HoldStarts, EndStarts, LaunchStarts, historyVars,
         Typed, TypeOK, WalletTypeOK
<1>3. task' \in [Handlers -> Tasks] /\ \A k \in Handlers : Consistent(task'[k])
  <2>1. CASE \E e \in Events : Deliver(h, e)
    <3>1. PICK e \in Events : Deliver(h, e)
      BY <2>1
    <3>2. PICK kind \in {"completed", "refund"}, s \in Sessions : e = <<kind, s>>
      BY DEF Events
    <3>3. Begin(h, kind, s, IF kind = "completed" THEN "close" ELSE "check")
      BY <3>1, <3>2 DEF Deliver
    <3> QED BY <3>2, <3>3, TaskBegins DEF Consistent, Typed, Jobs, Points
  <2>2. CASE \E r \in Runs : UsageStarts(h, r) \/ HoldStarts(h, r) \/ EndStarts(h, r)
                                \/ LaunchStarts(h, r)
    <3>1. PICK r \in Runs : \/ Begin(h, "usage", r, "debit") \/ Begin(h, "hold", r, "debit")
                            \/ Begin(h, "end", r, "read") \/ Begin(h, "launch", r, "check")
      BY <2>2 DEF UsageStarts, HoldStarts, EndStarts, LaunchStarts
    <3>2. CASE Begin(h, "usage", r, "debit")
      BY <3>2, TaskBegins DEF Consistent, Typed, Jobs, Points
    <3>3. CASE Begin(h, "hold", r, "debit")
      BY <3>3, TaskBegins DEF Consistent, Typed, Jobs, Points
    <3>4. CASE Begin(h, "end", r, "read")
      BY <3>4, TaskBegins DEF Consistent, Typed, Jobs, Points
    <3>5. CASE Begin(h, "launch", r, "check")
      BY <3>5, TaskBegins DEF Consistent, Typed, Jobs, Points
    <3> QED BY <3>1, <3>2, <3>3, <3>4, <3>5
  <2> QED BY <2>1, <2>2
<1> QED BY <1>0, <1>1, <1>2, <1>3 DEF Typed, TypeOK, WalletTypeOK, Tasks, Content, Active

\* Writing flags keeps them flags.
LEMMA FlagsTyped ==
    ASSUME Typed, NEW C \in SUBSET Content, NEW flag \in {"no", "yes"}, SetFlags(C, flag)
    PROVE  /\ enough' \in [Content -> {"null", "no", "yes"}]
           /\ strayed' \subseteq Content
  BY DEF Typed, TypeOK, WalletTypeOK, SetFlags

\* An answered event has been handled by a task that ends.
LEMMA AnswerTyped ==
    ASSUME Typed, NEW h \in Handlers, Answer(h)
    PROVE  /\ mail' \in [Events -> {"none", "due", "answered"}]
           /\ Done(h)
  BY DEF Typed, TypeOK, WalletTypeOK, Answer

\* Whose task is at a point that only some tasks pass.
LEMMA WhoIsAt ==
    ASSUME Typed, NEW h \in Handlers
    PROVE  /\ task[h].at \in {"close", "credit", "unlock_runs", "unlock_reviews"} =>
                 task[h].job = "completed"
           /\ task[h].at \in {"look_up", "take_off"} => task[h].job = "refund"
           /\ task[h].at \in {"debit", "lock_runs", "lock_reviews"} =>
                 task[h].job \in {"usage", "hold"}
           /\ task[h].at = "mark" => task[h].job = "hold"
           /\ task[h].at = "write" => task[h].job = "end"
           /\ task[h].at = "create" => task[h].job = "launch"
           /\ task[h].job \in {"completed", "refund"} => task[h].of \in Sessions
           /\ task[h].job \in {"usage", "hold", "end", "launch"} => task[h].of \in Runs
<1>1. task[h].job \in Jobs
  BY DEF Typed, TypeOK, WalletTypeOK
<1>2. Consistent(task[h])
  BY DEF Typed
<1> QED BY <1>1, <1>2, IdleIs DEF Consistent, Jobs

\* What a handler's step does to the tasks.
LEMMA HandlerTasks ==
    ASSUME Typed, NEW h \in Handlers, HandlerStep(h) \/ Fails(h)
    PROVE  /\ task' \in [Handlers -> Tasks]
           /\ \A k \in Handlers : Consistent(task'[k])
<1>e. Done(h) => /\ task' \in [Handlers -> Tasks]
                 /\ \A k \in Handlers : Consistent(task'[k])
  BY TaskEnds, IdleIs DEF Typed, Consistent
<1>a. Answer(h) => Done(h)
  BY DEF Answer
<1>g. ASSUME NEW at \in Points, Goto(h, at),
             \/ task[h].job = "completed" /\ at \in {"credit", "read", "unlock_runs", "unlock_reviews"}
             \/ task[h].job = "refund" /\ at \in {"look_up", "take_off"}
             \/ task[h].job \in {"usage", "hold"} /\ at \in {"read", "lock_runs", "lock_reviews"}
             \/ task[h].job = "hold" /\ at = "mark"
             \/ task[h].job = "launch" /\ at = "create"
      PROVE  /\ task' \in [Handlers -> Tasks]
             /\ \A k \in Handlers : Consistent(task'[k])
  BY <1>g, TaskGoes DEF Typed, Consistent
<1>w. ASSUME task' = [task EXCEPT ![h].at = "write", ![h].seen = balance], task[h].job = "end"
      PROVE  /\ task' \in [Handlers -> Tasks]
             /\ \A k \in Handlers : Consistent(task'[k])
  <2> DEFINE t == [task[h] EXCEPT !.at = "write", !.seen = balance]
  <2>1. task \in [Handlers -> Tasks] /\ task[h] \in Tasks /\ balance \in Int
    BY DEF Typed, TypeOK, WalletTypeOK, Tasks
  <2>2. t \in Tasks /\ t.job = "end" /\ t.of = task[h].of /\ t.at = "write"
    BY <2>1, <1>w DEF Tasks, Points
  <2>3. task' = [task EXCEPT ![h] = t]
    BY <1>w, Zenon
  <2>4. task[h].of \in Runs
    BY <1>w DEF Typed, Consistent
  <2> HIDE DEF t
  <2>5. Consistent(t)
    BY <2>2, <2>4 DEF Consistent
  <2> QED BY <2>1, <2>2, <2>3, <2>5 DEF Typed
<1>1. CASE CloseSession(h)
  BY <1>1, <1>a, <1>e, <1>g, WhoIsAt DEF CloseSession, Points
<1>2. CASE Credit(h) \/ UnlockRuns(h)
  BY <1>2, <1>g, WhoIsAt DEF Credit, UnlockRuns, Points
<1>3. CASE UnlockReviews(h) \/ TakeOff(h) \/ MarkRun(h) \/ WriteEnd(h) \/ CreateRun(h) \/ Fails(h)
  BY <1>3, <1>a, <1>e DEF UnlockReviews, TakeOff, MarkRun, WriteEnd, CreateRun, Fails
<1>4. CASE CheckRefund(h) \/ LookUp(h)
  BY <1>4, <1>a, <1>e, <1>g, WhoIsAt DEF CheckRefund, LookUp, Points
<1>5. CASE Debit(h) \/ LockRuns(h)
  BY <1>5, <1>g, WhoIsAt DEF Debit, LockRuns, Points
<1>6. CASE LockReviews(h) \/ CheckBalance(h)
  BY <1>6, <1>e, <1>g, WhoIsAt DEF LockReviews, CheckBalance, Points
<1>7. CASE ReadBalance(h)
  BY <1>7, <1>a, <1>e, <1>g, <1>w, WhoIsAt DEF ReadBalance, Points
<1> QED BY <1>1, <1>2, <1>3, <1>4, <1>5, <1>6, <1>7 DEF HandlerStep

\* A handler's step keeps everything well typed.
LEMMA HandlerTyped ==
    ASSUME Typed, NEW h \in Handlers, HandlerStep(h) \/ Fails(h), UNCHANGED reviewVars
    PROVE  Typed'
<1>o. /\ task[h].job = "completed" => task[h].of \in Sessions
      /\ task[h].at \in {"mark", "write", "create"} => task[h].of \in Runs
  BY WhoIsAt
<1>1. balance' \in Int
  BY ConstantsAssumption DEF HandlerStep, CloseSession, Credit, UnlockRuns, UnlockReviews, CheckRefund,
     LookUp, TakeOff, Debit, ReadBalance, LockRuns, LockReviews, MarkRun, WriteEnd, CheckBalance,
     CreateRun, Fails, Transact, ledgerVars, Typed, TypeOK, WalletTypeOK
<1>2. session' \in [Sessions -> {"none", "created", "completed", "expired"}] /\ paid' = paid
  BY DEF HandlerStep, CloseSession, Credit, UnlockRuns, UnlockReviews, CheckRefund,
     LookUp, TakeOff, Debit, ReadBalance, LockRuns, LockReviews, MarkRun, WriteEnd, CheckBalance,
     CreateRun, Fails, stripeVars, Typed, TypeOK, WalletTypeOK
<1>3. mail' \in [Events -> {"none", "due", "answered"}]
  <2>1. Answer(h) \/ mail' = mail
    BY DEF HandlerStep, CloseSession, Credit, UnlockRuns, UnlockReviews, CheckRefund,
     LookUp, TakeOff, Debit, ReadBalance, LockRuns, LockReviews, MarkRun, WriteEnd, CheckBalance,
     CreateRun, Fails, stripeVars
  <2> QED BY <2>1, AnswerTyped DEF Typed, TypeOK, WalletTypeOK
<1>4. credited' \in [Sessions -> Nat] /\ refunded' \in [Sessions -> Nat]
  BY DEF HandlerStep, CloseSession, Credit, UnlockRuns, UnlockReviews, CheckRefund,
     LookUp, TakeOff, Debit, ReadBalance, LockRuns, LockReviews, MarkRun, WriteEnd, CheckBalance,
     CreateRun, Fails, ledgerVars, Typed, TypeOK, WalletTypeOK
<1>5. status' \in [Content -> {"none", "pending", "processing", "active", "completed", "failed", "ended"}]
  BY DEF HandlerStep, CloseSession, Credit, UnlockRuns, UnlockReviews, CheckRefund,
     LookUp, TakeOff, Debit, ReadBalance, LockRuns, LockReviews, MarkRun, WriteEnd, CheckBalance,
     CreateRun, Fails, contentVars, Typed, TypeOK, WalletTypeOK
<1>6. enough' \in [Content -> {"null", "no", "yes"}] /\ strayed' \subseteq Content
  <2>1. \/ \E C \in SUBSET Content, flag \in {"no", "yes"} : SetFlags(C, flag)
        \/ /\ enough' = enough
           /\ \/ strayed' = strayed \/ strayed' = strayed \cup Contradicted(balance)
              \/ strayed' = strayed \cup Contradicted(balance')
              \/ task[h].at = "create" /\ strayed' = strayed \cup {task[h].of}
    <3>1. CASE UnlockRuns(h) \/ UnlockReviews(h)
      BY <3>1 DEF UnlockRuns, UnlockReviews, Unlock, Content
    <3>2. CASE LockRuns(h) \/ LockReviews(h)
      BY <3>2 DEF LockRuns, LockReviews, LockActive, Content
    <3>3. CASE MarkRun(h) \/ WriteEnd(h)
      BY <3>3, <1>o DEF MarkRun, WriteEnd, Content
    <3>4. CASE Fails(h) \/ TakeOff(h)
      BY <3>4 DEF Fails, TakeOff, contentVars
    <3>5. CASE CreateRun(h)
      BY <3>5 DEF CreateRun
    <3> QED
      BY <3>1, <3>2, <3>3, <3>4, <3>5 DEF HandlerStep, CloseSession, Credit, CheckRefund, LookUp,
         Debit, ReadBalance, CheckBalance, contentVars, historyVars
  <2>2. \A b : Contradicted(b) \subseteq Content
    BY DEF Contradicted, Active
  <2> QED BY <2>1, <2>2, <1>o, FlagsTyped DEF Typed, TypeOK, WalletTypeOK, Content
<1>7. mangled' \subseteq Events
  <2>1. \/ mangled' = mangled
        \/ /\ mangled' = mangled \cup {<<"completed", task[h].of>>} /\ task[h].at = "credit"
        \/ /\ mangled' = mangled \cup {<<"refund", task[h].of>>} /\ task[h].at = "look_up"
    BY DEF HandlerStep, CloseSession, Credit, UnlockRuns, UnlockReviews, CheckRefund,
     LookUp, TakeOff, Debit, ReadBalance, LockRuns, LockReviews, MarkRun, WriteEnd, CheckBalance,
     CreateRun, Fails, historyVars
  <2>2. task[h].at \in {"credit", "look_up"} => task[h].of \in Sessions
    BY WhoIsAt
  <2> QED BY <2>1, <2>2 DEF Typed, TypeOK, WalletTypeOK, Events
<1>8. left' \in [{"requests", "oddities"} -> Nat]
  <2>1. left' = left \/ Spend("oddities")
    BY DEF HandlerStep, CloseSession, Credit, UnlockRuns, UnlockReviews, CheckRefund,
     LookUp, TakeOff, Debit, ReadBalance, LockRuns, LockReviews, MarkRun, WriteEnd, CheckBalance,
     CreateRun, Fails
  <2> QED BY <2>1, LeftTyped DEF Typed, TypeOK, WalletTypeOK
<1>9. WalletTypeOK'
  BY <1>1, <1>2, <1>3, <1>4, <1>5, <1>6, <1>7, <1>8, HandlerTasks
     DEF Typed, TypeOK, WalletTypeOK, Tasks, Content, Events
<1> QED BY <1>9, HandlerTasks DEF Typed, TypeOK, reviewVars

\* A step of a review keeps everything well typed, ...
LEMMA ReviewTyped ==
    ASSUME Typed, NEW v \in Reviews,
           Submit(v) \/ TaskStep(v) \/ TaskRaises(v) \/ HandlerRaises(v) \/ TaskDies(v) \/ Age(v)
    PROVE  Typed'
<1>1. /\ UNCHANGED <<session, paid, mail, credited, refunded, task, mangled>>
      /\ left' = left \/ Spend("oddities")
  BY DEF Submit, TaskStep, TaskRaises, HandlerRaises, TaskDies, Age, InsertReview,
     BeginReview, WorkEnds, CompleteReview, Store, DebitReview, ReadCharged, LockRunsFor,
     LockReviewsFor, LockFor, Reread, FlagReview, Flag, FailReview, Excuse, Clear, Passes,
     UnchangedStripe, stripeVars, walletVars
<1>2. balance' \in Int
  BY ReviewAssumption DEF Submit, TaskStep, TaskRaises, HandlerRaises, TaskDies, Age, InsertReview,
     BeginReview, WorkEnds, CompleteReview, Store, DebitReview, ReadCharged, LockRunsFor,
     LockReviewsFor, LockFor, Reread, FlagReview, Flag, FailReview, Excuse, Clear, Passes,
     walletVars, Transact, Typed, TypeOK, WalletTypeOK
<1>3. status' \in [Content -> {"none", "pending", "processing", "active", "completed", "failed", "ended"}]
  BY DEF Submit, TaskStep, TaskRaises, HandlerRaises, TaskDies, Age, InsertReview,
     BeginReview, WorkEnds, CompleteReview, Store, DebitReview, ReadCharged, LockRunsFor,
     LockReviewsFor, LockFor, Reread, FlagReview, Flag, FailReview, Excuse, Clear, Passes, SetStatus,
     walletVars, Typed, TypeOK, WalletTypeOK
<1>4. job' \in [Reviews -> ReviewPoints]
  BY DEF Submit, TaskStep, TaskRaises, HandlerRaises, TaskDies, Age, InsertReview,
     BeginReview, WorkEnds, CompleteReview, Store, DebitReview, ReadCharged, LockRunsFor,
     LockReviewsFor, LockFor, Reread, FlagReview, Flag, FailReview, Excuse, Clear, Passes,
     Step, ReviewPoints, Inside, Typed, TypeOK
<1>5. old' \in [Reviews -> BOOLEAN] /\ cut' \subseteq Reviews
  BY DEF Submit, TaskStep, TaskRaises, HandlerRaises, TaskDies, Age, InsertReview,
     BeginReview, WorkEnds, CompleteReview, Store, DebitReview, ReadCharged, LockRunsFor,
     LockReviewsFor, LockFor, Reread, FlagReview, Flag, FailReview, Excuse, Clear, Passes,
     Typed, TypeOK
<1>6. charged' \in [Reviews -> Nat] /\ startups' \in Nat
  BY DEF Submit, TaskStep, TaskRaises, HandlerRaises, TaskDies, Age, InsertReview,
     BeginReview, WorkEnds, CompleteReview, Store, DebitReview, ReadCharged, LockRunsFor,
     LockReviewsFor, LockFor, Reread, FlagReview, Flag, FailReview, Excuse, Clear, Passes,
     Typed, TypeOK
<1>7. enough' \in [Content -> {"null", "no", "yes"}] /\ strayed' \subseteq Content
  <2>1. \/ \E C \in SUBSET Content, flag \in {"no", "yes"} : SetFlags(C, flag)
        \/ /\ enough' = enough
           /\ \/ strayed' = strayed \/ strayed' = strayed \cup Contradicted(balance)
              \/ strayed' = strayed \cup {v}
    <3>1. CASE LockRunsFor(v) \/ LockReviewsFor(v)
      BY <3>1 DEF LockRunsFor, LockReviewsFor, LockFor, LockActive, Content
    <3>2. CASE FlagReview(v) \/ Excuse(v)
      BY <3>2 DEF FlagReview, Excuse, Flag, Content
    <3>3. CASE InsertReview(v)
      BY <3>3 DEF InsertReview
    <3> QED
      BY <3>1, <3>2, <3>3 DEF Submit, TaskStep, TaskRaises, HandlerRaises, TaskDies, Age,
         BeginReview, WorkEnds, CompleteReview, Store, DebitReview, ReadCharged,
         Reread, FailReview, Clear, Passes, walletVars
  <2>2. Contradicted(balance) \subseteq Content
    BY DEF Contradicted, Active
  <2> QED BY <2>1, <2>2, FlagsTyped DEF Typed, TypeOK, WalletTypeOK, Content
<1>8. left' \in [{"requests", "oddities"} -> Nat]
  BY <1>1, LeftTyped DEF Typed, TypeOK, WalletTypeOK
<1>9. WalletTypeOK'
  BY <1>1, <1>2, <1>3, <1>7, <1>8 DEF Typed, TypeOK, WalletTypeOK, Content, Events
<1>10. \A h \in Handlers : Consistent(task'[h])
  BY <1>1 DEF Typed
<1> QED BY <1>4, <1>5, <1>6, <1>9, <1>10 DEF Typed, TypeOK

\* ... and so does a recovery.
LEMMA RecoverTyped == Typed /\ Recover => Typed'
  BY DEF Recover, UnchangedStripe, stripeVars, Typed, TypeOK, WalletTypeOK, Consistent

\* The cases of a step, as the proofs below take them.
LEMMA StepCases ==
    ASSUME [Next]_vars
    PROVE  \/ /\ UNCHANGED reviewVars
              /\ \/ \E s \in Sessions : CreateSession(s) \/ Pay(s) \/ Refund(s) \/ Expire(s)
                 \/ Adjust
                 \/ \E h \in Handlers, e \in Events : Deliver(h, e)
                 \/ \E h \in Handlers, r \in Runs :
                       UsageStarts(h, r) \/ HoldStarts(h, r) \/ EndStarts(h, r) \/ LaunchStarts(h, r)
                 \/ \E h \in Handlers : HandlerStep(h) \/ Fails(h)
           \/ \E v \in Reviews :
                 Submit(v) \/ TaskStep(v) \/ TaskRaises(v) \/ HandlerRaises(v) \/ TaskDies(v) \/ Age(v)
           \/ Recover
           \/ UNCHANGED vars
  BY DEF Next, WalletNext

\* Every step keeps everything well typed.
LEMMA StepTyped == Typed /\ [Next]_vars => Typed'
<1> SUFFICES ASSUME Typed, [Next]_vars PROVE Typed'
  OBVIOUS
<1>1. CASE UNCHANGED vars
  BY <1>1 DEF vars, walletVars, reviewVars, Typed, TypeOK, WalletTypeOK, Active, Consistent
<1> QED BY <1>1, StepCases, StripeTyped, AdjustTyped, StartTyped, HandlerTyped, ReviewTyped, RecoverTyped

\* The wallet, the handlers and the reviews are well typed at all times.
THEOREM WalletTypeCorrect == Spec => []TypeOK
<1>1. Typed => TypeOK
  BY DEF Typed
<1> QED BY <1>1, InitTyped, StepTyped, PTL DEF Spec

-----------------------------------------------------------------------------
(* Purchases and refunds. *)

\* Nobody has bought anything yet.
LEMMA InitEffects == Init => Effects
  BY IdleIs DEF Init, WalletInit, Effects, Purchased, RefundedOnce, Credits, Refunds, Events

\* The answer to an event is the answer to that event only.
LEMMA AnswersOne ==
    ASSUME Typed, NEW h \in Handlers, Answer(h),
           NEW kind \in {"completed", "refund"}, NEW s \in Sessions
    PROVE  mail'[<<kind, s>>] = IF task[h].job = kind /\ task[h].of = s
                                  THEN "answered" ELSE mail[<<kind, s>>]
  BY DEF Typed, TypeOK, WalletTypeOK, Answer, Events

\* An event is handled by somebody who is about it.
LEMMA HandledBy ==
    ASSUME Typed, NEW kind \in {"completed", "refund"}, NEW s \in Sessions
    PROVE  Handled(<<kind, s>>) <=> \E h \in Handlers : task[h].job = kind /\ task[h].of = s
  BY DEF Handled

\* A step at Stripe.
LEMMA StripeEffects ==
    ASSUME Typed, Effects, NEW z \in Sessions,
           CreateSession(z) \/ Pay(z) \/ Refund(z) \/ Expire(z)
    PROVE  Effects'
<1> SUFFICES ASSUME NEW s \in Sessions PROVE Purchased(s)' /\ RefundedOnce(s)'
  BY DEF Effects
<1>1. Purchased(s) /\ RefundedOnce(s)
  BY DEF Effects
<1>2. UNCHANGED <<credited, refunded, mangled, task>>
  BY DEF CreateSession, Pay, Refund, Post, Expire, ledgerVars, historyVars
<1> USE <1>1, <1>2 DEF Purchased, RefundedOnce, Credits, Refunds, Typed, TypeOK, WalletTypeOK
<1>3. CASE CreateSession(z)
  BY <1>3 DEF CreateSession
<1>4. CASE Expire(z)
  BY <1>4 DEF Expire
<1>5. CASE Pay(z)
  <2>1. /\ mail'[<<"completed", s>>] = IF s = z THEN "due" ELSE mail[<<"completed", s>>]
        /\ mail'[<<"refund", s>>] = mail[<<"refund", s>>]
    BY <1>5 DEF Pay, Post, Events
  <2>2. session[z] # "none" /\ paid[z] = "no" /\ UNCHANGED session
        /\ paid'[s] = IF s = z THEN "paid" ELSE paid[s]
    BY <1>5 DEF Pay, Post
  <2> QED BY <1>2, <2>1, <2>2
<1>6. CASE Refund(z)
  <2>1. /\ mail'[<<"refund", s>>] = IF s = z THEN "due" ELSE mail[<<"refund", s>>]
        /\ mail'[<<"completed", s>>] = mail[<<"completed", s>>]
    BY <1>6 DEF Refund, Post, Events
  <2>2. session[z] # "none" /\ paid[z] = "paid" /\ UNCHANGED session
        /\ paid'[s] = IF s = z THEN "back" ELSE paid[s]
    BY <1>6 DEF Refund, Post
  <2> QED BY <1>2, <2>1, <2>2
<1> QED BY <1>3, <1>4, <1>5, <1>6

\* An event is delivered: a handler is about it that was idle before.
LEMMA DeliverEffects ==
    ASSUME Typed, Effects, NEW h \in Handlers, NEW e \in Events, Deliver(h, e)
    PROVE  Effects'
<1> SUFFICES ASSUME NEW s \in Sessions PROVE Purchased(s)' /\ RefundedOnce(s)'
  BY DEF Effects
<1>1. Purchased(s) /\ RefundedOnce(s)
  BY DEF Effects
<1>2. UNCHANGED <<session, paid, mail, credited, refunded>>
  BY DEF Deliver, stripeVars, ledgerVars
<1>3. PICK kind \in {"completed", "refund"}, z \in Sessions : e = <<kind, z>>
  BY DEF Events
<1>4. /\ \A k \in Handlers : k # h => task'[k] = task[k]
      /\ task'[h].job = kind /\ task'[h].of = z
      /\ task'[h].at = IF kind = "completed" THEN "close" ELSE "check"
      /\ task[h] = Idle
  <2>1. Begin(h, kind, z, IF kind = "completed" THEN "close" ELSE "check")
    BY <1>3 DEF Deliver
  <2> QED BY <2>1, TaskBegins DEF Jobs, Points
<1>5. mail[<<kind, z>>] # "none"
  BY <1>3 DEF Deliver
<1>6. /\ mangled \subseteq mangled'
      /\ kind = "refund" /\ Handled(<<kind, z>>) => <<kind, z>> \in mangled'
  BY <1>3 DEF Deliver
<1>7. Purchased(s)'
  BY <1>1, <1>2, <1>4, <1>5, <1>6, IdleIs DEF Purchased, Credits
<1>8. RefundedOnce(s)'
  BY <1>1, <1>2, <1>4, <1>6, HandledBy, IdleIs DEF RefundedOnce, Refunds
<1> QED BY <1>7, <1>8

\* A handler that is not about to credit and touches neither sessions nor events
\* may end, begin something else, or go on.
LEMMA SameEffects ==
    ASSUME Typed, Effects, NEW h \in Handlers,
           UNCHANGED <<session, paid, mail, credited, refunded, mangled>>,
           \A k \in Handlers : k # h => task'[k] = task[k],
           task[h].at # "credit",
           \/ task'[h].job \notin {"completed", "refund"}
           \/ /\ task'[h].job = "completed" /\ task[h].job = "completed"
              /\ task'[h].of = task[h].of
              /\ task[h].at # "close" /\ task'[h].at # "credit"
    PROVE  Effects'
<1> SUFFICES ASSUME NEW s \in Sessions PROVE Purchased(s)' /\ RefundedOnce(s)'
  BY DEF Effects
<1>1. Purchased(s) /\ RefundedOnce(s)
  BY DEF Effects
<1> QED BY <1>1 DEF Purchased, RefundedOnce, Credits, Refunds

\* A purchase is answered by a handler that finds the session completed.
LEMMA PurchaseAnswered ==
    ASSUME Typed, Effects, NEW h \in Handlers, Answer(h),
           task[h].job = "completed", task[h].at # "credit",
           session[task[h].of] = "completed",
           UNCHANGED <<session, paid, credited, refunded, mangled>>
    PROVE  Effects'
<1> SUFFICES ASSUME NEW s \in Sessions PROVE Purchased(s)' /\ RefundedOnce(s)'
  BY DEF Effects
<1>1. Purchased(s) /\ RefundedOnce(s)
  BY DEF Effects
<1>2. /\ mail'[<<"completed", s>>] =
            IF task[h].of = s THEN "answered" ELSE mail[<<"completed", s>>]
      /\ mail'[<<"refund", s>>] = mail[<<"refund", s>>]
  BY AnswersOne
<1>3. task'[h] = Idle /\ \A k \in Handlers : k # h => task'[k] = task[k]
  BY TaskEnds DEF Answer
<1>4. paid[s] \in {"no", "paid", "back", "expired"}
  BY DEF Typed, TypeOK, WalletTypeOK
<1> QED BY <1>1, <1>2, <1>3, <1>4, IdleIs DEF Purchased, RefundedOnce, Credits, Refunds

\* A refund is answered by a handler that finds it taken off, or that is not
\* the one to do so.
LEMMA RefundAnswered ==
    ASSUME Typed, Effects, NEW h \in Handlers, Answer(h), task[h].job = "refund",
           \/ refunded[task[h].of] > 0 /\ UNCHANGED <<refunded, mangled>>
           \/ /\ task[h].at = "take_off" /\ UNCHANGED mangled
              /\ refunded' = [refunded EXCEPT ![task[h].of] = @ + 1]
           \/ UNCHANGED refunded /\ mangled' = mangled \cup {<<"refund", task[h].of>>},
           UNCHANGED <<session, paid, credited>>
    PROVE  Effects'
<1> SUFFICES ASSUME NEW s \in Sessions PROVE Purchased(s)' /\ RefundedOnce(s)'
  BY DEF Effects
<1>1. Purchased(s) /\ RefundedOnce(s)
  BY DEF Effects
<1>2. /\ mail'[<<"refund", s>>] = IF task[h].of = s THEN "answered" ELSE mail[<<"refund", s>>]
      /\ mail'[<<"completed", s>>] = mail[<<"completed", s>>]
  BY AnswersOne
<1>3. task'[h] = Idle /\ \A k \in Handlers : k # h => task'[k] = task[k]
  BY TaskEnds DEF Answer
<1>4. refunded[s] \in Nat /\ task[h].of \in Sessions
  BY WhoIsAt DEF Typed, TypeOK, WalletTypeOK
<1>5. Purchased(s)'
  BY <1>1, <1>2, <1>3, IdleIs DEF Purchased, Credits
<1>6. /\ mangled \subseteq mangled'
      /\ <<"refund", s>> \notin mangled' /\ task[h].of = s =>
            \/ refunded[s] > 0 /\ refunded'[s] = refunded[s]
            \/ task[h].at = "take_off" /\ refunded'[s] = refunded[s] + 1
      /\ task[h].of # s => refunded'[s] = refunded[s]
  BY <1>4 DEF Typed, TypeOK, WalletTypeOK
<1>7. RefundedOnce(s)'
  BY <1>1, <1>2, <1>3, <1>4, <1>6, IdleIs DEF RefundedOnce, Refunds
<1> QED BY <1>5, <1>7

\* The steps of a handler of a purchase.
LEMMA PurchaseEffects ==
    ASSUME Typed, Effects, NEW h \in Handlers,
           CloseSession(h) \/ Credit(h) \/ UnlockRuns(h) \/ UnlockReviews(h)
    PROVE  Effects'
<1>j. task[h].job = "completed" /\ task[h].of \in Sessions
  BY WhoIsAt DEF CloseSession, Credit, UnlockRuns, UnlockReviews
<1>p. Purchased(task[h].of)
  BY <1>j DEF Effects
<1>1. CASE CloseSession(h) /\ session[task[h].of] = "created"
  <2> SUFFICES ASSUME NEW s \in Sessions PROVE Purchased(s)' /\ RefundedOnce(s)'
    BY DEF Effects
  <2>1. Purchased(s) /\ RefundedOnce(s)
    BY DEF Effects
  <2>2. /\ UNCHANGED <<paid, mail, credited, refunded, mangled>>
        /\ session'[s] = IF task[h].of = s THEN "completed" ELSE session[s]
        /\ session[task[h].of] = "created" /\ task[h].at = "close" /\ Goto(h, "credit")
    BY <1>1 DEF CloseSession, ledgerVars, historyVars, Typed, TypeOK, WalletTypeOK
  <2>3. /\ task'[h].job = "completed" /\ task'[h].of = task[h].of /\ task'[h].at = "credit"
        /\ \A k \in Handlers : k # h => task'[k] = task[k]
    BY <1>j, <2>2, TaskGoes DEF Points
  <2>4. credited[s] \in Nat
    BY DEF Typed, TypeOK, WalletTypeOK
  <2> QED BY <1>j, <2>1, <2>2, <2>3, <2>4 DEF Purchased, RefundedOnce, Credits, Refunds
<1>2. CASE CloseSession(h) /\ session[task[h].of] # "created"
  <2>1. session[task[h].of] = "completed"
    BY <1>2, <1>j, <1>p DEF Purchased, Typed, TypeOK, WalletTypeOK
  <2> QED
    BY <1>2, <1>j, <2>1, PurchaseAnswered DEF CloseSession, ledgerVars, historyVars
<1>3. CASE Credit(h)
  <2> SUFFICES ASSUME NEW s \in Sessions PROVE Purchased(s)' /\ RefundedOnce(s)'
    BY DEF Effects
  <2>1. Purchased(s) /\ RefundedOnce(s)
    BY DEF Effects
  <2>2. /\ UNCHANGED <<session, paid, mail, refunded, mangled>>
        /\ credited'[s] = IF task[h].of = s THEN credited[s] + 1 ELSE credited[s]
        /\ task[h].at = "credit" /\ Goto(h, "read")
    BY <1>3 DEF Credit, stripeVars, historyVars, Typed, TypeOK, WalletTypeOK
  <2>3. /\ task'[h].job = "completed" /\ task'[h].of = task[h].of /\ task'[h].at = "read"
        /\ \A k \in Handlers : k # h => task'[k] = task[k]
    BY <1>j, <2>2, TaskGoes DEF Points
  <2>4. credited[s] \in Nat
    BY DEF Typed, TypeOK, WalletTypeOK
  <2> QED BY <1>j, <2>1, <2>2, <2>3, <2>4 DEF Purchased, RefundedOnce, Credits, Refunds
<1>4. CASE UnlockRuns(h)
  BY <1>4, <1>j, TaskGoes, SameEffects DEF UnlockRuns, stripeVars, ledgerVars, Points
<1>5. CASE UnlockReviews(h)
  <2>1. session[task[h].of] = "completed"
    BY <1>5, <1>j, <1>p DEF Purchased, UnlockReviews
  <2> QED
    BY <1>5, <1>j, <2>1, PurchaseAnswered DEF UnlockReviews, ledgerVars
<1> QED BY <1>1, <1>2, <1>3, <1>4, <1>5

\* The steps of a handler of a refund.
LEMMA RefundEffects ==
    ASSUME Typed, Effects, NEW h \in Handlers,
           CheckRefund(h) \/ LookUp(h) \/ TakeOff(h)
    PROVE  Effects'
<1>j. task[h].job = "refund" /\ task[h].of \in Sessions
  BY WhoIsAt DEF CheckRefund, LookUp, TakeOff
<1>r. refunded[task[h].of] \in Nat
  BY <1>j DEF Typed, TypeOK, WalletTypeOK
<1>g. ASSUME NEW at \in {"look_up", "take_off"}, Goto(h, at),
             UNCHANGED <<session, paid, mail, credited, refunded, mangled>>,
             task[h].at = "look_up" \/ refunded[task[h].of] = 0
      PROVE  Effects'
  <2> SUFFICES ASSUME NEW s \in Sessions PROVE Purchased(s)' /\ RefundedOnce(s)'
    BY DEF Effects
  <2>1. Purchased(s) /\ RefundedOnce(s)
    BY DEF Effects
  <2>2. /\ task'[h].job = "refund" /\ task'[h].of = task[h].of /\ task'[h].at = at
        /\ \A k \in Handlers : k # h => task'[k] = task[k]
    BY <1>g, <1>j, TaskGoes DEF Points
  <2>3. Purchased(s)'
    BY <1>g, <1>j, <2>1, <2>2 DEF Purchased, Credits
  <2>4. RefundedOnce(s)'
    BY <1>g, <1>j, <2>1, <2>2 DEF RefundedOnce, Refunds
  <2> QED BY <2>3, <2>4
<1>1. CASE CheckRefund(h)
  BY <1>1, <1>j, <1>r, <1>g, RefundAnswered DEF CheckRefund, ledgerVars, historyVars
<1>2. CASE LookUp(h)
  BY <1>2, <1>j, <1>g, RefundAnswered DEF LookUp, ledgerVars
<1>3. CASE TakeOff(h)
  BY <1>3, <1>j, RefundAnswered DEF TakeOff
<1> QED BY <1>1, <1>2, <1>3

\* A handler that is cut off between closing a session and its credit is the
\* one way to lose a purchase.
LEMMA FailsEffects ==
    ASSUME Typed, Effects, NEW h \in Handlers, Fails(h)
    PROVE  Effects'
<1>1. /\ UNCHANGED <<session, paid, mail, credited, refunded>>
      /\ mangled' = IF task[h].at = "credit" THEN mangled \cup {<<"completed", task[h].of>>}
                                              ELSE mangled
  BY DEF Fails, stripeVars, ledgerVars
<1>2. task'[h] = Idle /\ \A k \in Handlers : k # h => task'[k] = task[k]
  BY TaskEnds DEF Fails
<1>3. CASE task[h].at # "credit"
  BY <1>1, <1>2, <1>3, SameEffects, IdleIs
<1>4. CASE task[h].at = "credit"
  <2> SUFFICES ASSUME NEW s \in Sessions PROVE Purchased(s)' /\ RefundedOnce(s)'
    BY DEF Effects
  <2>1. Purchased(s) /\ RefundedOnce(s)
    BY DEF Effects
  <2>2. /\ <<"refund", s>> \in mangled' <=> <<"refund", s>> \in mangled
        /\ <<"completed", s>> \in mangled' <=>
              <<"completed", s>> \in mangled \/ task[h].of = s
    BY <1>1, <1>4
  <2>3. Purchased(s)'
    BY <1>1, <1>2, <2>1, <2>2, IdleIs DEF Purchased, Credits
  <2>4. RefundedOnce(s)'
    BY <1>1, <1>2, <2>1, <2>2, IdleIs DEF RefundedOnce, Refunds
  <2> QED BY <2>3, <2>4
<1> QED BY <1>3, <1>4

\* Charges, holds, launches and ends of runs, and the one read of the balance
\* they share with purchases.
LEMMA RequestEffects ==
    ASSUME Typed, Effects, NEW h \in Handlers,
           \/ \E r \in Runs : UsageStarts(h, r) \/ HoldStarts(h, r) \/ EndStarts(h, r)
                                \/ LaunchStarts(h, r)
           \/ Debit(h) \/ ReadBalance(h) \/ LockRuns(h) \/ LockReviews(h) \/ MarkRun(h)
           \/ WriteEnd(h) \/ CheckBalance(h) \/ CreateRun(h)
    PROVE  Effects'
<1>1. CASE \E r \in Runs : UsageStarts(h, r) \/ HoldStarts(h, r) \/ EndStarts(h, r)
                             \/ LaunchStarts(h, r)
  <2>1. PICK r \in Runs : \/ Begin(h, "usage", r, "debit") \/ Begin(h, "hold", r, "debit")
                          \/ Begin(h, "end", r, "read") \/ Begin(h, "launch", r, "check")
    BY <1>1 DEF UsageStarts, HoldStarts, EndStarts, LaunchStarts
  <2>2. /\ task[h] = Idle /\ \A k \in Handlers : k # h => task'[k] = task[k]
        /\ task'[h].job \in {"usage", "hold", "end", "launch"}
    BY <2>1, TaskBegins DEF Jobs, Points
  <2>3. UNCHANGED <<session, paid, mail, credited, refunded, mangled>>
    BY <1>1 DEF UsageStarts, HoldStarts, EndStarts, LaunchStarts, stripeVars, ledgerVars, historyVars
  <2> QED BY <2>2, <2>3, SameEffects, IdleIs
<1>2. CASE Debit(h) \/ LockRuns(h)
  BY <1>2, WhoIsAt, TaskGoes, SameEffects DEF Debit, LockRuns, stripeVars, ledgerVars, historyVars, Points
<1>3. CASE MarkRun(h) \/ WriteEnd(h) \/ CreateRun(h)
  BY <1>3, IdleIs, TaskEnds, SameEffects DEF MarkRun, WriteEnd, CreateRun, stripeVars, ledgerVars
<1>4. CASE LockReviews(h) \/ CheckBalance(h)
  BY <1>4, WhoIsAt, IdleIs, TaskEnds, TaskGoes, SameEffects
     DEF LockReviews, CheckBalance, stripeVars, ledgerVars, historyVars, Points
<1>5. CASE ReadBalance(h)
  <2>1. UNCHANGED <<session, paid, credited, refunded, mangled>> /\ task[h].at = "read"
    BY <1>5 DEF ReadBalance, ledgerVars, historyVars
  <2>2. CASE task[h].job = "completed" /\ Answer(h)
    <3>1. task[h].of \in Sessions
      BY <2>2, WhoIsAt
    <3>2. Purchased(task[h].of)
      BY <3>1 DEF Effects
    <3>3. session[task[h].of] = "completed"
      BY <2>1, <2>2, <3>2 DEF Purchased
    <3> QED BY <2>1, <2>2, <3>3, PurchaseAnswered
  <2>3. CASE task[h].job = "completed" /\ Goto(h, "unlock_runs") /\ UNCHANGED mail
    BY <2>1, <2>3, TaskGoes, SameEffects DEF Points
  <2>4. CASE task[h].job \in {"usage", "hold"} /\ Goto(h, "lock_runs") /\ UNCHANGED mail
    BY <2>1, <2>4, TaskGoes, SameEffects DEF Points
  <2>5. CASE Done(h) /\ UNCHANGED mail
    BY <2>1, <2>5, TaskEnds, IdleIs, SameEffects
  <2>6. CASE /\ task[h].job = "end" /\ UNCHANGED mail
             /\ task' = [task EXCEPT ![h].at = "write", ![h].seen = balance]
    <3> DEFINE t == [task[h] EXCEPT !.at = "write", !.seen = balance]
    <3>1. task \in [Handlers -> Tasks] /\ task[h] \in Tasks
      BY DEF Typed, TypeOK, WalletTypeOK, Tasks
    <3>2. t.job = "end"
      BY <3>1, <2>6 DEF Tasks
    <3>3. task' = [task EXCEPT ![h] = t]
      BY <2>6, Zenon
    <3> HIDE DEF t
    <3> QED BY <2>1, <2>6, <3>1, <3>2, <3>3, SameEffects
  <2> QED BY <1>5, <2>2, <2>3, <2>4, <2>5, <2>6 DEF ReadBalance
<1> QED BY <1>1, <1>2, <1>3, <1>4, <1>5

\* Credits from elsewhere and whatever the reviews' tasks do leave purchases alone.
LEMMA ReviewEffects ==
    ASSUME Effects, UnchangedStripe \/ UNCHANGED walletVars
           \/ UNCHANGED <<session, paid, mail, credited, refunded, mangled, task>>
    PROVE  Effects'
<1>1. UNCHANGED <<session, paid, mail, credited, refunded, mangled, task>>
  BY DEF UnchangedStripe, walletVars, stripeVars
<1> SUFFICES ASSUME NEW s \in Sessions PROVE Purchased(s)' /\ RefundedOnce(s)'
  BY DEF Effects
<1>2. Purchased(s) /\ RefundedOnce(s)
  BY DEF Effects
<1>3. Purchased(s)'
  BY <1>1, <1>2 DEF Purchased, Credits
<1>4. RefundedOnce(s)'
  BY <1>1, <1>2 DEF RefundedOnce, Refunds
<1> QED BY <1>3, <1>4

\* Purchases and refunds keep their effects, whatever happens.
LEMMA StepEffects == Typed /\ Effects /\ [Next]_vars => Effects'
<1> SUFFICES ASSUME Typed, Effects, [Next]_vars PROVE Effects'
  OBVIOUS
<1>1. CASE UNCHANGED vars
  BY <1>1, ReviewEffects DEF vars
<1>2. CASE \E s \in Sessions : CreateSession(s) \/ Pay(s) \/ Refund(s) \/ Expire(s)
  BY <1>2, StripeEffects
<1>3. CASE \E h \in Handlers : \E e \in Events : Deliver(h, e)
  BY <1>3, DeliverEffects
<1>4. CASE \E h \in Handlers, r \in Runs :
              UsageStarts(h, r) \/ HoldStarts(h, r) \/ EndStarts(h, r) \/ LaunchStarts(h, r)
  BY <1>4, RequestEffects
<1>5. CASE \E h \in Handlers : HandlerStep(h) \/ Fails(h)
  BY <1>5, PurchaseEffects, RefundEffects, RequestEffects, FailsEffects DEF HandlerStep
<1>6. CASE Adjust
  BY <1>6, ReviewEffects DEF Adjust, stripeVars
<1>7. CASE Recover \/ \E v \in Reviews : TaskStep(v) \/ TaskRaises(v) \/ HandlerRaises(v)
                                          \/ TaskDies(v) \/ Age(v) \/ Submit(v)
  <2>1. UnchangedStripe \/ UNCHANGED walletVars
    BY <1>7 DEF Recover, TaskStep, TaskRaises, HandlerRaises, TaskDies, Age, Submit, Passes,
       InsertReview, BeginReview, WorkEnds, CompleteReview, Store, DebitReview, ReadCharged,
       LockRunsFor, LockReviewsFor, LockFor, Reread, FlagReview, Flag, FailReview, Excuse, Clear
  <2> QED BY <2>1, ReviewEffects
<1> QED BY <1>1, <1>2, <1>3, <1>4, <1>5, <1>6, <1>7 DEF Next, WalletNext

\* A purchase is credited and a refund taken off exactly once by the time Stripe
\* has its answer, however often the event is delivered, unless the handler was
\* cut off after closing the session, or two handlers were about the refund.
THEOREM PurchasesAreCredited == Spec => []EffectsHaveACause
<1>1. Init => Typed /\ Effects
  BY InitTyped, InitEffects
<1>2. Typed /\ Effects /\ [Next]_vars => (Typed /\ Effects)'
  BY StepTyped, StepEffects
<1>3. Typed /\ Effects => EffectsHaveACause
  <2> SUFFICES ASSUME Typed, Effects, NEW s \in Sessions
               PROVE  LET settled(kind) == /\ mail[<<kind, s>>] = "answered"
                                           /\ ~Handled(<<kind, s>>) /\ <<kind, s>> \notin mangled
                      IN  /\ credited[s] <= 1
                          /\ settled("completed") => credited[s] = 1
                          /\ settled("refund") => refunded[s] = 1
    BY DEF EffectsHaveACause
  <2>1. Purchased(s) /\ RefundedOnce(s) /\ credited[s] \in Nat
    BY DEF Effects, Typed, TypeOK, WalletTypeOK
  <2>2. \A h \in Handlers : Credits(h, s) => Handled(<<"completed", s>>)
    BY HandledBy DEF Credits
  <2> QED BY <2>1, <2>2 DEF Purchased, RefundedOnce
<1> QED BY <1>1, <1>2, <1>3, PTL DEF Spec

-----------------------------------------------------------------------------
(* The charges of the reviews. *)

\* No review has been submitted yet.
LEMMA InitAccounts == Init => Accounts
  BY DEF Init, WalletInit, Content, Accounts, Accounted

\* Whatever leaves a review's task, debits and row alone leaves its account alone.
LEMMA SameAccount ==
    ASSUME NEW v \in Reviews, Accounted(v),
           job'[v] = job[v], charged'[v] = charged[v], status'[v] = status[v],
           v \in cut' <=> v \in cut,
           old'[v] = old[v] \/ job[v] \in {"work", "dead"}
    PROVE  Accounted(v)'
  BY DEF Accounted

\* The handlers write the rows of runs only.
LEMMA HandlersLeaveReviews ==
    ASSUME Typed, NEW h \in Handlers, HandlerStep(h) \/ Fails(h), NEW v \in Reviews
    PROVE  status'[v] = status[v]
<1>1. CASE WriteEnd(h) \/ CreateRun(h)
  <2>1. task[h].of \in Runs
    BY <1>1, WhoIsAt DEF WriteEnd, CreateRun
  <2>2. v # task[h].of /\ v \in Content
    BY <2>1, ConstantsAssumption DEF Content
  <2> QED BY <1>1, <2>2 DEF WriteEnd, CreateRun, Typed, TypeOK, WalletTypeOK
<1>2. CASE ~(WriteEnd(h) \/ CreateRun(h))
  BY <1>2 DEF HandlerStep, CloseSession, Credit, UnlockRuns, UnlockReviews, CheckRefund,
     LookUp, TakeOff, Debit, ReadBalance, LockRuns, LockReviews, MarkRun, CheckBalance,
     Fails, contentVars
<1> QED BY <1>1, <1>2

\* So do the other steps of the wallet.
LEMMA WalletAccounts ==
    ASSUME Typed, Accounts, WalletNext, UNCHANGED reviewVars
    PROVE  Accounts'
<1> SUFFICES ASSUME NEW v \in Reviews PROVE Accounted(v)'
  BY DEF Accounts
<1>1. status'[v] = status[v]
  <2>1. CASE \E h \in Handlers : HandlerStep(h) \/ Fails(h)
    BY <2>1, HandlersLeaveReviews
  <2>2. CASE ~\E h \in Handlers : HandlerStep(h) \/ Fails(h)
    BY <2>2 DEF WalletNext, CreateSession, Pay, Refund, Post, Expire, Deliver, UsageStarts,
       HoldStarts, EndStarts, LaunchStarts, Adjust, contentVars
  <2> QED BY <2>1, <2>2
<1> QED BY <1>1, SameAccount DEF Accounts, reviewVars

\* The steps of one review's task leave the others alone.
LEMMA OthersAccounted ==
    ASSUME Typed, Accounts, NEW v \in Reviews,
           Submit(v) \/ TaskStep(v) \/ TaskRaises(v) \/ HandlerRaises(v) \/ TaskDies(v) \/ Age(v),
           NEW u \in Reviews, u # v
    PROVE  Accounted(u)'
<1>1. job'[u] = job[u] /\ status'[u] = status[u] /\ old'[u] = old[u]
  BY DEF Submit, TaskStep, TaskRaises, HandlerRaises, TaskDies, Age, InsertReview,
     BeginReview, WorkEnds, CompleteReview, Store, DebitReview, ReadCharged, LockRunsFor,
     LockReviewsFor, LockFor, Reread, FlagReview, Flag, FailReview, Excuse, Clear, Passes,
     Step, SetStatus, walletVars, Typed, TypeOK, WalletTypeOK, Content
<1>2. charged'[u] = charged[u] /\ (u \in cut' <=> u \in cut)
  BY DEF Submit, TaskStep, TaskRaises, HandlerRaises, TaskDies, Age, InsertReview,
     BeginReview, WorkEnds, CompleteReview, Store, DebitReview, ReadCharged, LockRunsFor,
     LockReviewsFor, LockFor, Reread, FlagReview, Flag, FailReview, Excuse, Clear, Passes,
     Typed, TypeOK
<1> QED BY <1>1, <1>2, SameAccount DEF Accounts

\* The steps of a review's task account for it.
LEMMA TaskAccounts ==
    ASSUME Typed, Accounts, NEW v \in Reviews,
           Submit(v) \/ TaskStep(v) \/ TaskRaises(v) \/ HandlerRaises(v) \/ TaskDies(v) \/ Age(v)
    PROVE  Accounted(v)'
<1> USE DEF Step, Passes, SetStatus, UnchangedStripe
<1>0. /\ Accounted(v) /\ v \in Content /\ job \in [Reviews -> ReviewPoints]
      /\ charged \in [Reviews -> Nat] /\ old \in [Reviews -> BOOLEAN] /\ cut \subseteq Reviews
      /\ status \in [Content -> {"none", "pending", "processing", "active",
                                 "completed", "failed", "ended"}]
  BY DEF Accounts, Typed, TypeOK, WalletTypeOK, Content
<1>1. CASE Submit(v) \/ WorkEnds(v) \/ Store(v) \/ ReadCharged(v) \/ Reread(v) \/ Clear(v)
  <2>1. /\ job'[v] \in CASE job[v] = "none" -> {"insert"} [] job[v] = "work" -> {"complete"}
                         [] job[v] = "store" -> {"debit"}
                         [] job[v] = "read" -> {"lock_runs", "reread"}
                         [] job[v] = "reread" -> {"flag_yes", "flag_no"}
                         [] job[v] = "clear" -> {"over"}
        /\ job[v] \in {"none", "work", "store", "read", "reread", "clear"}
        /\ UNCHANGED <<status, old, charged, cut>>
    BY <1>0, <1>1 DEF Submit, WorkEnds, Store, ReadCharged, Reread, Clear, walletVars
  <2> QED BY <1>0, <2>1 DEF Accounted
<1>2. CASE InsertReview(v)
  BY <1>0, <1>2 DEF InsertReview, Accounted
<1>3. CASE BeginReview(v)
  BY <1>0, <1>3 DEF BeginReview, Accounted
<1>4. CASE CompleteReview(v)
  BY <1>0, <1>4 DEF CompleteReview, Accounted
<1>5. CASE DebitReview(v)
  BY <1>0, <1>5 DEF DebitReview, Accounted
<1>6. CASE LockRunsFor(v) \/ LockReviewsFor(v)
  BY <1>0, <1>6 DEF LockRunsFor, LockReviewsFor, LockFor, Accounted
<1>7. CASE FlagReview(v) \/ Excuse(v)
  BY <1>0, <1>7 DEF FlagReview, Excuse, Flag, Accounted
<1>8. CASE FailReview(v)
  BY <1>0, <1>8 DEF FailReview, Accounted
<1>9. CASE TaskRaises(v)
  BY <1>0, <1>9 DEF TaskRaises, After, Inside, Accounted
<1>10. CASE HandlerRaises(v)
  BY <1>0, <1>10 DEF HandlerRaises, Accounted
<1>11. CASE TaskDies(v)
  BY <1>0, <1>11 DEF TaskDies, After, ReviewPoints, Inside, Accounted
<1>12. CASE Age(v)
  BY <1>0, <1>12, SameAccount DEF Age, walletVars
<1> QED
  BY <1>1, <1>2, <1>3, <1>4, <1>5, <1>6, <1>7, <1>8, <1>9, <1>10, <1>11, <1>12 DEF TaskStep

\* A recovery fails rows that are not over: no task has completed them.
LEMMA RecoverAccounts == Typed /\ Accounts /\ Recover => Accounts'
<1> SUFFICES ASSUME Typed, Accounts, Recover, NEW v \in Reviews PROVE Accounted(v)'
  BY DEF Accounts
<1>1. UNCHANGED <<job, old, charged, cut>> /\ Accounted(v) /\ v \in Content
  BY DEF Recover, Accounts, Content
<1>2. \/ status'[v] = status[v]
      \/ /\ status[v] \in {"pending", "processing", "active"} /\ old[v]
         /\ status'[v] = "failed"
  BY <1>1 DEF Recover, Active
<1> QED BY <1>1, <1>2 DEF Accounted

\* Every step keeps the accounts.
LEMMA StepAccounts == Typed /\ Accounts /\ [Next]_vars => Accounts'
<1> SUFFICES ASSUME Typed, Accounts, [Next]_vars PROVE Accounts'
  OBVIOUS
<1>1. CASE UNCHANGED vars
  BY <1>1, SameAccount DEF vars, walletVars, reviewVars, Accounts
<1>2. CASE \E v \in Reviews :
              Submit(v) \/ TaskStep(v) \/ TaskRaises(v) \/ HandlerRaises(v) \/ TaskDies(v) \/ Age(v)
  BY <1>2, TaskAccounts, OthersAccounted DEF Accounts
<1> QED BY <1>1, <1>2, WalletAccounts, RecoverAccounts DEF Next

\* A review whose task is over has been charged once if it is completed and not at
\* all if it has failed, whatever recoveries failed meanwhile, unless its task was
\* cut off after it had written the content; and no review is charged twice.
THEOREM ReviewsAreChargedOnce == Spec => []ReviewsAreSettled
<1>1. Init => Typed /\ Accounts
  BY InitTyped, InitAccounts
<1>2. Typed /\ Accounts /\ [Next]_vars => (Typed /\ Accounts)'
  BY StepTyped, StepAccounts
<1>3. Typed /\ Accounts => ReviewsAreSettled
  BY DEF Accounts, Accounted, ReviewsAreSettled, Settled
<1> QED BY <1>1, <1>2, <1>3, PTL DEF Spec

-----------------------------------------------------------------------------
(* Flags and the balance. *)

\* Somebody who writes the flag of c strays from the balance exactly when the
\* flag contradicts it.
FlagWritten(c) ==
    \/ enough'[c] = enough[c] /\ (c \in strayed => c \in strayed')
    \/ /\ balance' = balance
       /\ c \in strayed' <=> (enough'[c] = "no" <=> balance > 0)

\* SetFlags does.
LEMMA FlagsWritten ==
    ASSUME Typed, NEW C \in SUBSET Content, NEW flag \in {"no", "yes"}, SetFlags(C, flag),
           balance' = balance, NEW c \in Content
    PROVE  FlagWritten(c)
<1>1. enough'[c] = IF c \in C THEN flag ELSE enough[c]
  BY DEF SetFlags
<1>2. CASE c \in C
  <2>1. c \in strayed' <=> (flag = "no" <=> balance > 0)
    BY <1>2 DEF SetFlags
  <2> QED BY <1>1, <1>2, <2>1 DEF FlagWritten
<1>3. CASE c \notin C
  BY <1>1, <1>3 DEF SetFlags, FlagWritten
<1> QED BY <1>2, <1>3

\* So does every step.
LEMMA StepFlags ==
    ASSUME Typed, [Next]_vars, NEW c \in Content
    PROVE  FlagWritten(c)
<1>1. \/ balance' = balance /\ \E C \in SUBSET Content, flag \in {"no", "yes"} : SetFlags(C, flag)
      \/ enough' = enough /\ strayed \subseteq strayed'
  <2>1. CASE \E h \in Handlers : UnlockRuns(h) \/ UnlockReviews(h)
    BY <2>1 DEF UnlockRuns, UnlockReviews, Unlock, Content, ledgerVars
  <2>2. CASE \E h \in Handlers : LockRuns(h) \/ LockReviews(h)
    BY <2>2 DEF LockRuns, LockReviews, LockActive, Content, ledgerVars
  <2>3. CASE \E h \in Handlers : MarkRun(h) \/ WriteEnd(h)
    BY <2>3, WhoIsAt DEF MarkRun, WriteEnd, Content, ledgerVars
  <2>4. CASE \E v \in Reviews : LockRunsFor(v) \/ LockReviewsFor(v)
    BY <2>4 DEF LockRunsFor, LockReviewsFor, LockFor, LockActive, Content
  <2>5. CASE \E v \in Reviews : FlagReview(v) \/ Excuse(v)
    BY <2>5 DEF FlagReview, Excuse, Flag, Content
  <2>6. CASE UNCHANGED vars \/ Adjust \/ Recover
    BY <2>6 DEF vars, walletVars, Adjust, Recover, contentVars
  <2>7. CASE \E h \in Handlers :
               \/ \E e \in Events : Deliver(h, e)
               \/ \E r \in Runs : UsageStarts(h, r) \/ HoldStarts(h, r) \/ EndStarts(h, r)
                                    \/ LaunchStarts(h, r)
               \/ CloseSession(h) \/ Credit(h) \/ CheckRefund(h) \/ LookUp(h) \/ TakeOff(h)
               \/ Debit(h) \/ ReadBalance(h) \/ CheckBalance(h) \/ CreateRun(h) \/ Fails(h)
    BY <2>7 DEF Deliver, UsageStarts, HoldStarts, EndStarts, LaunchStarts, CloseSession, Credit,
       CheckRefund, LookUp, TakeOff, Debit, ReadBalance, CheckBalance, CreateRun, Fails,
       contentVars, historyVars
  <2>8. CASE \E v \in Reviews :
               Submit(v) \/ InsertReview(v) \/ BeginReview(v) \/ WorkEnds(v) \/ CompleteReview(v)
               \/ Store(v) \/ DebitReview(v) \/ ReadCharged(v) \/ Reread(v) \/ FailReview(v)
               \/ Clear(v) \/ TaskRaises(v) \/ HandlerRaises(v) \/ TaskDies(v) \/ Age(v)
    BY <2>8 DEF Submit, InsertReview, BeginReview, WorkEnds, CompleteReview, Store, DebitReview,
       ReadCharged, Reread, FailReview, Clear, TaskRaises, HandlerRaises, TaskDies, Age, Passes,
       walletVars
  <2>9. CASE \E s \in Sessions : CreateSession(s) \/ Pay(s) \/ Refund(s) \/ Expire(s)
    BY <2>9 DEF CreateSession, Pay, Refund, Post, Expire, contentVars, historyVars
  <2> QED BY <2>1, <2>2, <2>3, <2>4, <2>5, <2>6, <2>7, <2>8, <2>9 DEF Next, WalletNext, HandlerStep, TaskStep
<1> QED BY <1>1, FlagsWritten DEF FlagWritten

\* A handler that goes on leaves the other handlers where they are.
LEMMA OthersStay ==
    ASSUME Typed, NEW h \in Handlers,
           \/ HandlerStep(h) \/ Fails(h) \/ \E e \in Events : Deliver(h, e)
           \/ \E r \in Runs : UsageStarts(h, r) \/ HoldStarts(h, r) \/ EndStarts(h, r)
                                \/ LaunchStarts(h, r)
    PROVE  \A k \in Handlers : k # h => task'[k] = task[k]
  BY DEF HandlerStep, CloseSession, Credit, UnlockRuns, UnlockReviews, CheckRefund, LookUp,
     TakeOff, Debit, ReadBalance, LockRuns, LockReviews, MarkRun, WriteEnd, CheckBalance,
     CreateRun, Fails, Deliver, UsageStarts, HoldStarts, EndStarts, LaunchStarts, Begin, Goto,
     Done, Answer, Typed, TypeOK, WalletTypeOK

\* The tasks are the handlers' own.
LEMMA TasksStay ==
    ASSUME [Next]_vars,
           ~\E h \in Handlers :
              \/ HandlerStep(h) \/ Fails(h) \/ \E e \in Events : Deliver(h, e)
              \/ \E r \in Runs : UsageStarts(h, r) \/ HoldStarts(h, r) \/ EndStarts(h, r)
                                   \/ LaunchStarts(h, r)
    PROVE  task' = task
  BY DEF Next, WalletNext, vars, walletVars, CreateSession, Pay, Refund, Post, Expire, Adjust,
     Recover, Submit, TaskStep, InsertReview, BeginReview, WorkEnds, CompleteReview, Store,
     DebitReview, ReadCharged, LockRunsFor, LockReviewsFor, LockFor, Reread, FlagReview, Flag,
     FailReview, Excuse, Clear, TaskRaises, HandlerRaises, TaskDies, Age, Passes, UnchangedStripe

\* A handler that is to unlock c does, or leaves it to its next step, or strays.
LEMMA UnlocksStay ==
    ASSUME Typed, [Next]_vars, NEW c \in Content, NEW k \in Handlers, Unlocks(k, c),
           balance' > 0, enough[c] = "no", enough'[c] = "no", c \notin strayed'
    PROVE  \E h \in Handlers : Unlocks(h, c)'
<1>1. CASE ~\E h \in Handlers :
              \/ HandlerStep(h) \/ Fails(h) \/ \E e \in Events : Deliver(h, e)
              \/ \E r \in Runs : UsageStarts(h, r) \/ HoldStarts(h, r) \/ EndStarts(h, r)
                                   \/ LaunchStarts(h, r)
  BY <1>1, TasksStay DEF Unlocks
<1>2. ASSUME NEW h \in Handlers, h # k,
              \/ HandlerStep(h) \/ Fails(h) \/ \E e \in Events : Deliver(h, e)
              \/ \E r \in Runs : UsageStarts(h, r) \/ HoldStarts(h, r) \/ EndStarts(h, r)
                                   \/ LaunchStarts(h, r)
      PROVE  \E j \in Handlers : Unlocks(j, c)'
  BY <1>2, OthersStay DEF Unlocks
<1>3. CASE \/ \E e \in Events : Deliver(k, e)
           \/ \E r \in Runs : UsageStarts(k, r) \/ HoldStarts(k, r) \/ EndStarts(k, r)
                                \/ LaunchStarts(k, r)
  BY <1>3, IdleIs DEF Deliver, UsageStarts, HoldStarts, EndStarts, LaunchStarts, Begin, Unlocks
<1>4. CASE Fails(k)
  BY <1>4, StepTyped DEF Fails, Unlocks, Contradicted, contentVars, ledgerVars
<1>5. CASE UnlockRuns(k)
  <2>1. task'[k].job = "completed" /\ task'[k].at = "unlock_reviews"
    BY <1>5, TaskGoes DEF UnlockRuns, Points, Unlocks
  <2>2. c \notin Runs
    BY <1>5 DEF UnlockRuns, Unlock, SetFlags
  <2> QED BY <2>1, <2>2 DEF Unlocks, Content
<1>6. CASE UnlockReviews(k)
  BY <1>6 DEF UnlockReviews, Unlock, SetFlags, Unlocks
<1>7. CASE ReadBalance(k)
  <2>1. balance > 0 /\ balance \in Int /\ task[k].job = "completed"
    BY <1>7 DEF ReadBalance, Unlocks, ledgerVars, Typed, TypeOK, WalletTypeOK
  <2>2. Goto(k, "unlock_runs")
    BY <1>7, <2>1 DEF ReadBalance
  <2> QED BY <2>1, <2>2, TaskGoes DEF Points, Unlocks
<1>8. CASE HandlerStep(k) /\ ~(UnlockRuns(k) \/ UnlockReviews(k) \/ ReadBalance(k))
  BY <1>8, WhoIsAt DEF HandlerStep, CloseSession, Credit, CheckRefund, LookUp, TakeOff, Debit,
     LockRuns, LockReviews, MarkRun, WriteEnd, CheckBalance, CreateRun, Unlocks
<1> QED BY <1>1, <1>2, <1>3, <1>4, <1>5, <1>6, <1>7, <1>8

\* The steps that move the balance.
LEMMA BalanceMoves ==
    ASSUME [Next]_vars, balance' # balance
    PROVE  \/ Adjust
           \/ \E h \in Handlers : Credit(h) \/ TakeOff(h) \/ Debit(h)
           \/ \E v \in Reviews : DebitReview(v)
<1>1. CASE \/ UNCHANGED vars \/ Recover
           \/ \E s \in Sessions : CreateSession(s) \/ Pay(s) \/ Refund(s) \/ Expire(s)
  BY <1>1 DEF vars, walletVars, Recover, CreateSession, Pay, Refund, Post, Expire, ledgerVars
<1>2. CASE \E h \in Handlers :
             \/ \E e \in Events : Deliver(h, e)
             \/ \E r \in Runs : UsageStarts(h, r) \/ HoldStarts(h, r) \/ EndStarts(h, r)
                                  \/ LaunchStarts(h, r)
             \/ HandlerStep(h) \/ Fails(h)
  BY <1>2 DEF Deliver, UsageStarts, HoldStarts, EndStarts, LaunchStarts, HandlerStep,
     CloseSession, UnlockRuns, UnlockReviews, CheckRefund, LookUp, ReadBalance, LockRuns,
     LockReviews, MarkRun, WriteEnd, CheckBalance, CreateRun, Fails, ledgerVars
<1>3. CASE \E v \in Reviews :
             Submit(v) \/ TaskStep(v) \/ TaskRaises(v) \/ HandlerRaises(v) \/ TaskDies(v) \/ Age(v)
  BY <1>3 DEF Submit, TaskStep, InsertReview, BeginReview, WorkEnds, CompleteReview, Store,
     ReadCharged, LockRunsFor, LockReviewsFor, LockFor, Reread, FlagReview, Flag, FailReview,
     Excuse, Clear, TaskRaises, HandlerRaises, TaskDies, Age, Passes, walletVars
<1> QED BY <1>1, <1>2, <1>3 DEF Next, WalletNext

\* A balance that rises is unlocked for by the purchase that raised it, or strays.
LEMMA RiseUnlocks ==
    ASSUME Typed, [Next]_vars, NEW c \in Content,
           balance' > 0, ~(balance > 0), enough'[c] = "no", c \notin strayed'
    PROVE  \E h \in Handlers : Unlocks(h, c)'
<1>0. balance \in Int /\ {Price, Cost, ReviewCost} \subseteq Nat
  BY ConstantsAssumption, ReviewAssumption DEF Typed, TypeOK, WalletTypeOK
<1>1. CASE \E h \in Handlers : Credit(h)
  <2>1. PICK h \in Handlers : Credit(h)
    BY <1>1
  <2>2. task'[h].job = "completed" /\ task'[h].at = "read"
    BY <2>1, WhoIsAt, TaskGoes DEF Credit, Points
  <2> QED BY <2>2 DEF Unlocks
<1>2. CASE Adjust
  BY <1>2 DEF Adjust, Contradicted, contentVars
<1>3. CASE (\E h \in Handlers : TakeOff(h) \/ Debit(h)) \/ \E v \in Reviews : DebitReview(v)
  BY <1>0, <1>3 DEF TakeOff, Debit, DebitReview, Transact
<1> QED BY <1>1, <1>2, <1>3, BalanceMoves

\* What the user can pay for stays open, is to be opened, or strays.
LEMMA StepOpenings == Typed /\ Openings /\ [Next]_vars => Openings'
<1> SUFFICES ASSUME Typed, Openings, [Next]_vars, balance' > 0,
                    NEW c \in Content, enough'[c] = "no", c \notin strayed'
             PROVE  \E h \in Handlers : Unlocks(h, c)'
  BY DEF Openings
<1>1. balance > 0 => enough[c] = "no" /\ c \notin strayed
  BY StepFlags DEF FlagWritten
<1>2. CASE balance > 0
  BY <1>1, <1>2, UnlocksStay DEF Openings
<1> QED BY <1>2, RiseUnlocks

\* With nothing under way and money in the wallet, content that is withheld has
\* strayed for one of the causes: a purchase unlocks everything otherwise.
THEOREM RestrictionsHaveACause == Spec => []RestrictionHasACause
<1>1. Init => Typed /\ Openings
  BY InitTyped DEF Init, WalletInit, Openings
<1>2. Typed /\ Openings /\ [Next]_vars => (Typed /\ Openings)'
  BY StepTyped, StepOpenings
<1>3. Typed /\ Openings => RestrictionHasACause
  BY IdleIs DEF Openings, Unlocks, RestrictionHasACause, Quiet
<1> QED BY <1>1, <1>2, <1>3, PTL DEF Spec

\* Whatever becomes active was so before, or is put down as strayed when the user
\* has no balance.
LEMMA BecomesActive ==
    ASSUME Typed, Accounts, [Next]_vars, NEW c \in Content, c \in Active', c \notin Active,
           ~(balance > 0)
    PROVE  c \in strayed'
<1>0. status' # status
  BY DEF Active, Content
<1>1. CASE \E h \in Handlers : HandlerStep(h) \/ Fails(h)
  <2>1. PICK h \in Handlers : HandlerStep(h) \/ Fails(h)
    BY <1>1
  <2>2. WriteEnd(h) \/ CreateRun(h)
    BY <1>0, <2>1 DEF HandlerStep, CloseSession, Credit, UnlockRuns, UnlockReviews, CheckRefund,
       LookUp, TakeOff, Debit, ReadBalance, LockRuns, LockReviews, MarkRun, CheckBalance,
       Fails, contentVars
  <2>3. task[h].of \in Content
    BY <2>2, WhoIsAt DEF WriteEnd, CreateRun, Content
  <2> QED BY <2>2, <2>3 DEF WriteEnd, CreateRun, Active, Content, Typed, TypeOK, WalletTypeOK
<1>2. CASE \E v \in Reviews :
              Submit(v) \/ TaskStep(v) \/ TaskRaises(v) \/ HandlerRaises(v) \/ TaskDies(v) \/ Age(v)
  <2>1. PICK v \in Reviews :
              Submit(v) \/ TaskStep(v) \/ TaskRaises(v) \/ HandlerRaises(v) \/ TaskDies(v) \/ Age(v)
    BY <1>2
  <2>2. InsertReview(v) \/ BeginReview(v) \/ CompleteReview(v) \/ FailReview(v)
    BY <1>0, <2>1 DEF Submit, TaskStep, WorkEnds, Store, DebitReview, ReadCharged, LockRunsFor,
       LockReviewsFor, LockFor, Reread, FlagReview, Flag, Excuse, Clear, TaskRaises,
       HandlerRaises, TaskDies, Age, Passes, walletVars
  <2>3. v \in Content /\ (job[v] = "begin" => v \in Active)
    BY DEF Content, Active, Accounts, Accounted
  <2> QED
    BY <2>2, <2>3 DEF InsertReview, BeginReview, CompleteReview, FailReview, Step, SetStatus,
       Active, Content, Typed, TypeOK, WalletTypeOK
<1>3. CASE Recover
  BY <1>3 DEF Recover, Active, Content
<1>4. CASE ~Recover /\ (~\E h \in Handlers : HandlerStep(h) \/ Fails(h)) /\ ~\E v \in Reviews :
              Submit(v) \/ TaskStep(v) \/ TaskRaises(v) \/ HandlerRaises(v) \/ TaskDies(v) \/ Age(v)
  BY <1>0, <1>4 DEF Next, WalletNext, vars, walletVars, CreateSession, Pay, Refund, Post, Expire,
     Adjust, Deliver, UsageStarts, HoldStarts, EndStarts, LaunchStarts, contentVars
<1> QED BY <1>1, <1>2, <1>3, <1>4

\* A handler that is to lock c does, or leaves it to its next step, or strays.
LEMMA LocksStay ==
    ASSUME Typed, [Next]_vars, NEW c \in Content, NEW k \in Handlers, Locks(k, c),
           ~(balance' > 0), c \in Active, c \in Active', enough[c] # "no", enough'[c] # "no",
           c \notin strayed'
    PROVE  \E h \in Handlers : Locks(h, c)'
<1>1. CASE ~\E h \in Handlers :
              \/ HandlerStep(h) \/ Fails(h) \/ \E e \in Events : Deliver(h, e)
              \/ \E r \in Runs : UsageStarts(h, r) \/ HoldStarts(h, r) \/ EndStarts(h, r)
                                   \/ LaunchStarts(h, r)
  BY <1>1, TasksStay DEF Locks
<1>2. ASSUME NEW h \in Handlers, h # k,
              \/ HandlerStep(h) \/ Fails(h) \/ \E e \in Events : Deliver(h, e)
              \/ \E r \in Runs : UsageStarts(h, r) \/ HoldStarts(h, r) \/ EndStarts(h, r)
                                   \/ LaunchStarts(h, r)
      PROVE  \E j \in Handlers : Locks(j, c)'
  BY <1>2, OthersStay DEF Locks
<1>3. CASE \/ \E e \in Events : Deliver(k, e)
           \/ \E r \in Runs : UsageStarts(k, r) \/ HoldStarts(k, r) \/ EndStarts(k, r)
                                \/ LaunchStarts(k, r)
  BY <1>3, IdleIs DEF Deliver, UsageStarts, HoldStarts, EndStarts, LaunchStarts, Begin, Locks
<1>4. CASE Fails(k)
  BY <1>4 DEF Fails, Locks, Contradicted, contentVars, ledgerVars
<1>5. CASE LockRuns(k)
  <2>1. task'[k].job \in {"usage", "hold"} /\ task'[k].at = "lock_reviews"
    BY <1>5, TaskGoes DEF LockRuns, Points, Locks
  <2>2. c \notin Runs
    BY <1>5 DEF LockRuns, LockActive, SetFlags
  <2> QED BY <2>1, <2>2 DEF Locks, Content
<1>6. CASE LockReviews(k)
  BY <1>6 DEF LockReviews, LockActive, SetFlags, Locks
<1>7. CASE ReadBalance(k)
  <2>1. balance <= 0 /\ task[k].job \in {"usage", "hold"}
    BY <1>7 DEF ReadBalance, Locks, ledgerVars, Typed, TypeOK, WalletTypeOK
  <2>2. Goto(k, "lock_runs")
    BY <1>7, <2>1 DEF ReadBalance
  <2> QED BY <2>1, <2>2, TaskGoes DEF Points, Locks
<1>8. CASE HandlerStep(k) /\ ~(LockRuns(k) \/ LockReviews(k) \/ ReadBalance(k))
  BY <1>8, WhoIsAt DEF HandlerStep, CloseSession, Credit, UnlockRuns, UnlockReviews, CheckRefund,
     LookUp, TakeOff, Debit, MarkRun, WriteEnd, CheckBalance, CreateRun, Locks
<1> QED BY <1>1, <1>2, <1>3, <1>4, <1>5, <1>6, <1>7, <1>8

\* The tasks of the reviews are their own.
LEMMA JobsStay ==
    ASSUME Typed, [Next]_vars, NEW v \in Reviews,
           ~(Submit(v) \/ TaskStep(v) \/ TaskRaises(v) \/ HandlerRaises(v) \/ TaskDies(v) \/ Age(v))
    PROVE  job'[v] = job[v]
<1>1. CASE \E u \in Reviews :
              Submit(u) \/ TaskStep(u) \/ TaskRaises(u) \/ HandlerRaises(u) \/ TaskDies(u) \/ Age(u)
  BY <1>1 DEF Submit, TaskStep, InsertReview, BeginReview, WorkEnds, CompleteReview, Store,
     DebitReview, ReadCharged, LockRunsFor, LockReviewsFor, LockFor, Reread, FlagReview, Flag,
     FailReview, Excuse, Clear, TaskRaises, HandlerRaises, TaskDies, Age, Passes, Step,
     Typed, TypeOK
<1> QED BY <1>1 DEF Next, Recover, vars, reviewVars

\* So does the task of a review.
LEMMA LocksTooStay ==
    ASSUME Typed, [Next]_vars, NEW c \in Content, NEW v \in Reviews, LocksToo(v, c),
           ~(balance' > 0), c \in Active, c \in Active', enough[c] # "no", enough'[c] # "no",
           c \notin strayed'
    PROVE  LocksToo(v, c)'
<1>0. job \in [Reviews -> ReviewPoints] /\ balance \in Int
  BY DEF Typed, TypeOK, WalletTypeOK
<1>1. CASE ~(Submit(v) \/ TaskStep(v) \/ TaskRaises(v) \/ HandlerRaises(v) \/ TaskDies(v) \/ Age(v))
  BY <1>1, JobsStay DEF LocksToo
<1>2. CASE ReadCharged(v)
  <2>1. balance' = balance /\ Step(v, "read", IF balance <= 0 THEN "lock_runs" ELSE "reread")
    BY <1>2 DEF ReadCharged, Passes, walletVars
  <2> QED BY <1>0, <2>1 DEF Step, LocksToo
<1>3. CASE LockRunsFor(v)
  BY <1>0, <1>3 DEF LockRunsFor, LockFor, LockActive, SetFlags, Step, LocksToo, Content
<1>4. CASE LockReviewsFor(v)
  BY <1>0, <1>4 DEF LockReviewsFor, LockFor, LockActive, SetFlags, Step, LocksToo
<1>5. CASE TaskRaises(v) \/ TaskDies(v)
  BY <1>5 DEF TaskRaises, TaskDies, Contradicted, LocksToo
<1>6. CASE Submit(v) \/ HandlerRaises(v) \/ Age(v)
           \/ (TaskStep(v) /\ ~(ReadCharged(v) \/ LockRunsFor(v) \/ LockReviewsFor(v)))
  BY <1>6 DEF Submit, TaskStep, InsertReview, BeginReview, WorkEnds, CompleteReview, Store,
     DebitReview, Reread, FlagReview, Flag, FailReview, Excuse, Clear, HandlerRaises, Age,
     Passes, Step, LocksToo
<1> QED BY <1>1, <1>2, <1>3, <1>4, <1>5, <1>6

\* A balance that is used up is locked for by the charge that took it, or strays.
LEMMA FallLocks ==
    ASSUME Typed, [Next]_vars, NEW c \in Content,
           ~(balance' > 0), balance > 0, c \in Active', enough'[c] # "no", c \notin strayed'
    PROVE  (\E h \in Handlers : Locks(h, c)') \/ (\E v \in Reviews : LocksToo(v, c)')
<1>0. balance \in Int /\ {Price, Cost} \subseteq Nat
  BY ConstantsAssumption DEF Typed, TypeOK, WalletTypeOK
<1>1. CASE \E h \in Handlers : Debit(h)
  <2>1. PICK h \in Handlers : Debit(h)
    BY <1>1
  <2>2. task'[h].job \in {"usage", "hold"} /\ task'[h].at = "read"
    BY <2>1, WhoIsAt, TaskGoes DEF Debit, Points
  <2> QED BY <2>2 DEF Locks
<1>2. CASE \E v \in Reviews : DebitReview(v)
  BY <1>2 DEF DebitReview, Step, LocksToo, Typed, TypeOK
<1>3. CASE \E h \in Handlers : TakeOff(h)
  BY <1>3 DEF TakeOff, Contradicted, contentVars, Active
<1>4. CASE (\E h \in Handlers : Credit(h)) \/ Adjust
  BY <1>0, <1>4 DEF Credit, Adjust, Transact
<1> QED BY <1>1, <1>2, <1>3, <1>4, BalanceMoves

\* What the user cannot pay for stays locked, is to be locked, or strays.
LEMMA StepClosings == Typed /\ Accounts /\ Closings /\ [Next]_vars => Closings'
<1> SUFFICES ASSUME Typed, Accounts, Closings, [Next]_vars PROVE Closings'
  OBVIOUS
<1>t. balance' \in Int
  BY StepTyped DEF Typed, TypeOK, WalletTypeOK
<1> SUFFICES ASSUME ~(balance' > 0),
                    NEW c \in Content, c \in Active', enough'[c] # "no", c \notin strayed'
             PROVE  (\E h \in Handlers : Locks(h, c)') \/ (\E v \in Reviews : LocksToo(v, c)')
  BY <1>t DEF Closings, Active, Content
<1>0. balance \in Int
  BY DEF Typed, TypeOK, WalletTypeOK
<1>1. CASE ~(balance > 0)
  <2>1. enough[c] # "no" /\ c \notin strayed
    BY <1>1, StepFlags DEF FlagWritten
  <2>2. c \in Active
    BY <1>1, BecomesActive
  <2> QED BY <1>0, <1>1, <2>1, <2>2, LocksStay, LocksTooStay DEF Closings
<1> QED BY <1>1, FallLocks

\* With nothing under way and no money in the wallet, active content that is open
\* has strayed for one of the causes: a charge locks everything otherwise.
THEOREM OverdraftsHaveACause == Spec => []OverdraftHasACause
<1>1. Init => Typed /\ Accounts /\ Closings
  BY InitTyped, InitAccounts DEF Init, WalletInit, Closings, Active
<1>2. Typed /\ Accounts /\ Closings /\ [Next]_vars => (Typed /\ Accounts /\ Closings)'
  BY StepTyped, StepAccounts, StepClosings
<1>3. Typed /\ Accounts /\ Closings => OverdraftHasACause
  BY IdleIs DEF Closings, Locks, LocksToo, OverdraftHasACause, Quiet, Settled
<1> QED BY <1>1, <1>2, <1>3, PTL DEF Spec

=============================================================================
