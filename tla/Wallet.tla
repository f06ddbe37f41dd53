------------------------------- MODULE Wallet -------------------------------
(***************************************************************************)
(* One user's wallet and the content it pays for.  Every request handler is *)
(* a task that awaits the database between its steps: the Stripe webhook    *)
(* credits a purchase and unlocks, a charge debits, reads the balance and   *)
(* locks, a launch reads the balance and creates a run.  Each step is one   *)
(* transaction; nothing holds two of them together.  PaperReview adds the   *)
(* tasks of the paper reviews, whose rows are locked and unlocked here.     *)
(***************************************************************************)
EXTENDS Integers, FiniteSets

CONSTANTS
    Handlers,      \* request handlers that run at the same time
    Sessions,      \* Stripe checkout sessions
    Runs,          \* research runs of the user
    Reviews,       \* paper reviews of the user
    None,          \* the subject of an idle handler
    FirstBalance,  \* credit_cents_new_users
    Price,         \* cents of a purchase, amount_added_cents
    Cost,          \* cents of a charge
    MinBalance,    \* min_balance_cents_for_*
    MaxRequests,   \* bound: launches, charges, holds and ends of runs
    MaxOddities    \* bound: deliveries of an event besides the first, credits no
                   \* purchase brought, and steps that raise or are cut off

ASSUME ConstantsAssumption ==
    /\ {FirstBalance, MaxRequests, MaxOddities} \subseteq Nat
    /\ {Price, Cost, MinBalance} \subseteq Nat \ {0}
    /\ Runs \cap Reviews = {}
    /\ None \notin Sessions \cup Runs \cup Reviews

VARIABLES
    balance,   \* billing_user_wallets.balance
    session,   \* status of the rows of billing_stripe_checkout_sessions
    paid,      \* at Stripe: what has become of the session
    mail,      \* at Stripe: "due" until the webhook answers 200
    credited,  \* purchase transactions of a session
    refunded,  \* refund transactions of a session
    status,    \* of the rows of research_pipeline_runs and paper_reviews
    enough,    \* has_enough_credits of these rows
    task,      \* what a handler is doing
    mangled,   \* history: events that mishaps or overlaps kept from taking effect once
    strayed,   \* history: content whose flag the balance has contradicted
    left       \* what is left of each bound

stripeVars  == <<session, paid, mail>>
ledgerVars  == <<balance, credited, refunded>>
contentVars == <<status, enough>>
historyVars == <<mangled, strayed>>
walletVars  == <<balance, session, paid, mail, credited, refunded, status,
                 enough, task, mangled, strayed, left>>

-----------------------------------------------------------------------------

Content == Runs \cup Reviews
Events  == {"completed", "refund"} \X Sessions
Jobs    == {"none", "completed", "refund", "usage", "hold", "end", "launch"}
Points  == {"idle", "close", "credit", "read", "unlock_runs", "unlock_reviews",
            "check", "look_up", "take_off", "debit", "lock_runs",
            "lock_reviews", "mark", "write", "create"}

Idle == [job |-> "none", of |-> None, at |-> "idle", seen |-> 0]

\* The statuses lock_active_* select.
Active == {c \in Content : status[c] \in {"pending", "processing", "active"}}

\* Content whose flag says the opposite of the balance b.
Contradicted(b) == IF b > 0 THEN {c \in Content : enough[c] = "no"}
                            ELSE {c \in Active : enough[c] # "no"}

WalletInit ==
    /\ balance = FirstBalance
    /\ session = [s \in Sessions |-> "none"]
    /\ paid = [s \in Sessions |-> "no"]
    /\ mail = [e \in Events |-> "none"]
    /\ credited = [s \in Sessions |-> 0]
    /\ refunded = [s \in Sessions |-> 0]
    /\ status = [c \in Content |-> "none"]
    /\ enough = [c \in Content |-> "null"]
    /\ task = [h \in Handlers |-> Idle]
    /\ mangled = {}
    /\ strayed = {}
    /\ left = [requests |-> MaxRequests, oddities |-> MaxOddities]

Spend(what) == left[what] > 0 /\ left' = [left EXCEPT ![what] = @ - 1]

Begin(h, job, of, at) ==
    /\ task[h] = Idle
    /\ task' = [task EXCEPT ![h] = [job |-> job, of |-> of, at |-> at, seen |-> 0]]

Goto(h, at) == task' = [task EXCEPT ![h].at = at]
Done(h)     == task' = [task EXCEPT ![h] = Idle]

\* A transaction of a positive or a negative amount.
Transact(amount) == balance' = balance + amount

\* UPDATE ... SET has_enough_credits for the rows of C.  The balance may have
\* changed since it was read.
SetFlags(C, flag) ==
    /\ enough' = [c \in Content |-> IF c \in C THEN flag ELSE enough[c]]
    /\ strayed' = IF (flag = "no") = (balance > 0) THEN strayed \cup C ELSE strayed \ C

LockActive(C) == SetFlags(C \cap Active, "no")
Unlock(C)     == SetFlags({c \in C : enough[c] = "no"}, "yes")

-----------------------------------------------------------------------------
(* The Stripe side, and the checkout. *)

\* create_checkout_session: the user gets the URL once the row exists.
CreateSession(s) ==
    /\ session[s] = "none"
    /\ session' = [session EXCEPT ![s] = "created"]
    /\ UNCHANGED <<paid, mail, ledgerVars, contentVars, task, historyVars, left>>

Post(s, from, to, kind) ==
    /\ session[s] # "none" /\ paid[s] = from
    /\ paid' = [paid EXCEPT ![s] = to]
    /\ mail' = [mail EXCEPT ![<<kind, s>>] = "due"]
    /\ UNCHANGED <<session, ledgerVars, contentVars, task, historyVars, left>>

Pay(s)    == Post(s, "no", "paid", "completed")
Refund(s) == Post(s, "paid", "back", "refund")

\* checkout.session.expired of a session nobody paid, in one update.
Expire(s) ==
    /\ session[s] = "created" /\ paid[s] = "no"
    /\ paid' = [paid EXCEPT ![s] = "expired"]
    /\ session' = [session EXCEPT ![s] = "expired"]
    /\ UNCHANGED <<mail, ledgerVars, contentVars, task, historyVars, left>>

Handled(e) == \E h \in Handlers : <<task[h].job, task[h].of>> = e

\* Stripe delivers again what it got no answer to, and sometimes what it got one to.
Deliver(h, e) ==
    /\ mail[e] # "none"
    /\ Begin(h, e[1], e[2], IF e[1] = "completed" THEN "close" ELSE "check")
    /\ IF mail[e] = "due" /\ ~Handled(e) THEN UNCHANGED left ELSE Spend("oddities")
    /\ mangled' = IF e[1] = "refund" /\ Handled(e) THEN mangled \cup {e} ELSE mangled
    /\ UNCHANGED <<stripeVars, ledgerVars, contentVars, strayed>>

Answer(h) ==
    /\ mail' = [mail EXCEPT ![<<task[h].job, task[h].of>>] = "answered"]
    /\ Done(h)

CloseSessionBlindly(h) ==
    /\ task[h].at = "close"
    /\ session' = [session EXCEPT ![task[h].of] = "completed"]
    /\ Goto(h, "credit")
    /\ UNCHANGED <<paid, mail, ledgerVars, contentVars, historyVars, left>>

\* The compare-and-set of _complete_checkout_session.
CloseSession(h) ==
    /\ task[h].at = "close"
    /\ LET s == task[h].of IN
         IF session[s] = "created"
           THEN session' = [session EXCEPT ![s] = "completed"] /\ Goto(h, "credit") /\ UNCHANGED mail
           ELSE Answer(h) /\ UNCHANGED session
    /\ UNCHANGED <<paid, ledgerVars, contentVars, historyVars, left>>

Credit(h) ==
    /\ task[h].at = "credit"
    /\ Transact(Price)
    /\ credited' = [credited EXCEPT ![task[h].of] = @ + 1]
    /\ Goto(h, "read")
    /\ UNCHANGED <<stripeVars, refunded, contentVars, historyVars, left>>

UnlockRuns(h) ==
    /\ task[h].at = "unlock_runs"
    /\ Unlock(Runs)
    /\ Goto(h, "unlock_reviews")
    /\ UNCHANGED <<stripeVars, ledgerVars, status, mangled, left>>

UnlockNothing(h) ==
    /\ task[h].at = "unlock_reviews"
    /\ Answer(h)
    /\ UNCHANGED <<session, paid, ledgerVars, contentVars, historyVars, left>>

UnlockReviews(h) ==
    /\ task[h].at = "unlock_reviews"
    /\ Unlock(Reviews)
    /\ Answer(h)
    /\ UNCHANGED <<session, paid, ledgerVars, status, mangled, left>>

\* get_transaction_by_stripe_refund_id.
CheckRefund(h) ==
    /\ task[h].at = "check" /\ task[h].job = "refund"
    /\ IF refunded[task[h].of] > 0 THEN Answer(h) ELSE Goto(h, "look_up") /\ UNCHANGED mail
    /\ UNCHANGED <<session, paid, ledgerVars, contentVars, historyVars, left>>

\* The charge, the session at Stripe and our row of it.  A charge that cannot
\* be retrieved is only reported, and the event is answered.
LookUp(h) ==
    /\ task[h].at = "look_up"
    /\ \/ Goto(h, "take_off") /\ UNCHANGED <<mail, mangled, left>>
       \/ /\ Spend("oddities")
          /\ Answer(h)
          /\ mangled' = mangled \cup {<<"refund", task[h].of>>}
    /\ UNCHANGED <<session, paid, ledgerVars, contentVars, strayed>>

\* A refund locks nothing.
TakeOff(h) ==
    /\ task[h].at = "take_off"
    /\ Transact(-Price)
    /\ refunded' = [refunded EXCEPT ![task[h].of] = @ + 1]
    /\ Answer(h)
    /\ strayed' = strayed \cup Contradicted(balance')
    /\ UNCHANGED <<session, paid, credited, contentVars, mangled, left>>

-----------------------------------------------------------------------------
(* Charges, holds and the ends of runs. *)

\* charge_for_llm_usage: the token-usage webhook of a run, a chat message or
\* a summary.  The status of the run is not looked at.
UsageStarts(h, r) ==
    /\ status[r] # "none"
    /\ Begin(h, "usage", r, "debit")
    /\ Spend("requests")
    /\ UNCHANGED <<stripeVars, ledgerVars, contentVars, historyVars>>

HoldStarts(h, r) ==
    /\ status[r] = "active"
    /\ Begin(h, "hold", r, "debit")
    /\ Spend("requests")
    /\ UNCHANGED <<stripeVars, ledgerVars, contentVars, historyVars>>

\* run-finished, whatever the status, or the user's stop.
EndStarts(h, r) ==
    /\ status[r] # "none"
    /\ Begin(h, "end", r, "read")
    /\ Spend("requests")
    /\ UNCHANGED <<stripeVars, ledgerVars, contentVars, historyVars>>

LaunchStarts(h, r) ==
    /\ status[r] = "none"
    /\ \A k \in Handlers : task[k].of # r
    /\ Begin(h, "launch", r, "check")
    /\ Spend("requests")
    /\ UNCHANGED <<stripeVars, ledgerVars, contentVars, historyVars>>

Debit(h) ==
    /\ task[h].at = "debit"
    /\ Transact(-Cost)
    /\ Goto(h, "read")
    /\ UNCHANGED <<stripeVars, credited, refunded, contentVars, historyVars, left>>

\* get_user_wallet_balance, and what each caller does with what it reads.
ReadBalance(h) ==
    /\ task[h].at = "read"
    /\ \/ /\ task[h].job = "completed" /\ balance > 0
          /\ Goto(h, "unlock_runs") /\ UNCHANGED mail
       \/ task[h].job = "completed" /\ balance <= 0 /\ Answer(h)
       \/ /\ task[h].job \in {"usage", "hold"}
          /\ IF balance <= 0 THEN Goto(h, "lock_runs") ELSE Done(h)
          /\ UNCHANGED mail
       \/ /\ task[h].job = "end"
          /\ task' = [task EXCEPT ![h].at = "write", ![h].seen = balance]
          /\ UNCHANGED mail
    /\ UNCHANGED <<session, paid, ledgerVars, contentVars, historyVars, left>>

LockNoRuns(h) ==
    /\ task[h].at = "lock_runs"
    /\ Goto(h, "lock_reviews")
    /\ UNCHANGED <<stripeVars, ledgerVars, contentVars, historyVars, left>>

LockRuns(h) ==
    /\ task[h].at = "lock_runs"
    /\ LockActive(Runs)
    /\ Goto(h, "lock_reviews")
    /\ UNCHANGED <<stripeVars, ledgerVars, status, mangled, left>>

\* The monitor goes on to write the flag of the run it holds for.
LockReviews(h) ==
    /\ task[h].at = "lock_reviews"
    /\ LockActive(Reviews)
    /\ IF task[h].job = "hold" THEN Goto(h, "mark") ELSE Done(h)
    /\ UNCHANGED <<stripeVars, ledgerVars, status, mangled, left>>

MarkRun(h) ==
    /\ task[h].at = "mark"
    /\ SetFlags({task[h].of}, "no")
    /\ Done(h)
    /\ UNCHANGED <<stripeVars, ledgerVars, status, mangled, left>>

WriteEnd(h) ==
    /\ task[h].at = "write"
    /\ status' = [status EXCEPT ![task[h].of] = "ended"]
    /\ SetFlags({task[h].of}, IF task[h].seen > 0 THEN "yes" ELSE "no")
    /\ Done(h)
    /\ UNCHANGED <<stripeVars, ledgerVars, mangled, left>>

\* enforce_minimum_balance.
CheckBalance(h) ==
    /\ task[h].at = "check" /\ task[h].job = "launch"
    /\ IF balance >= MinBalance THEN Goto(h, "create") ELSE Done(h)
    /\ UNCHANGED <<stripeVars, ledgerVars, contentVars, historyVars, left>>

CreateRun(h) ==
    /\ task[h].at = "create"
    /\ status' = [status EXCEPT ![task[h].of] = "active"]
    /\ strayed' = IF balance > 0 THEN strayed ELSE strayed \cup {task[h].of}
    /\ Done(h)
    /\ UNCHANGED <<stripeVars, ledgerVars, enough, mangled, left>>

\* The grant of an administrator, a pending credit that is claimed, the refund
\* of a failed run, the reversal of holds: credits that unlock nothing.
Adjust ==
    /\ Spend("oddities")
    /\ Transact(Cost)
    /\ strayed' = strayed \cup IF balance' > 0 THEN Contradicted(balance') ELSE {}
    /\ UNCHANGED <<stripeVars, credited, refunded, contentVars, task, mangled>>

\* A step raises, or the process dies: the webhook answers 500 or not at all.
Fails(h) ==
    /\ task[h] # Idle
    /\ Spend("oddities")
    /\ Done(h)
    /\ mangled' = IF task[h].at = "credit" THEN mangled \cup {<<"completed", task[h].of>>} ELSE mangled
    /\ strayed' = IF task[h].at \in {"read", "unlock_runs", "unlock_reviews",
                                     "lock_runs", "lock_reviews"}
                    THEN strayed \cup Contradicted(balance) ELSE strayed
    /\ UNCHANGED <<stripeVars, ledgerVars, contentVars>>

HandlerStep(h) ==
    \/ CloseSession(h) \/ Credit(h) \/ UnlockRuns(h) \/ UnlockReviews(h)
    \/ CheckRefund(h) \/ LookUp(h) \/ TakeOff(h)
    \/ Debit(h) \/ ReadBalance(h) \/ LockRuns(h) \/ LockReviews(h) \/ MarkRun(h)
    \/ WriteEnd(h) \/ CheckBalance(h) \/ CreateRun(h)

WalletNext ==
    \/ \E s \in Sessions : CreateSession(s) \/ Pay(s) \/ Refund(s) \/ Expire(s)
    \/ \E h \in Handlers :
         \/ \E e \in Events : Deliver(h, e)
         \/ \E r \in Runs : UsageStarts(h, r) \/ HoldStarts(h, r) \/ EndStarts(h, r)
                              \/ LaunchStarts(h, r)
         \/ HandlerStep(h) \/ Fails(h)
    \/ Adjust

-----------------------------------------------------------------------------

WalletTypeOK ==
    /\ balance \in Int
    /\ session \in [Sessions -> {"none", "created", "completed", "expired"}]
    /\ paid \in [Sessions -> {"no", "paid", "back", "expired"}]
    /\ mail \in [Events -> {"none", "due", "answered"}]
    /\ credited \in [Sessions -> Nat]
    /\ refunded \in [Sessions -> Nat]
    /\ status \in [Content -> {"none", "pending", "processing", "active",
                               "completed", "failed", "ended"}]
    /\ enough \in [Content -> {"null", "no", "yes"}]
    /\ task \in [Handlers -> [job : Jobs, of : Sessions \cup Runs \cup {None},
                              at : Points, seen : Int]]
    /\ mangled \subseteq Events
    /\ strayed \subseteq Content
    /\ left \in [{"requests", "oddities"} -> Nat]

\* It does, but for a purchase whose handler ended between closing the session
\* and the credit, a refund that was delivered while it was being handled, and
\* a refund whose charge could not be retrieved.  A purchase is never credited
\* twice, however often it is delivered.
EffectsHaveACause ==
    \A s \in Sessions :
      LET settled(kind) == /\ mail[<<kind, s>>] = "answered"
                           /\ ~Handled(<<kind, s>>) /\ <<kind, s>> \notin mangled
      IN  /\ credited[s] <= 1
          /\ settled("completed") => credited[s] = 1
          /\ settled("refund") => refunded[s] = 1

=============================================================================
