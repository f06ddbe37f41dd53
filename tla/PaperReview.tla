----------------------------- MODULE PaperReview -----------------------------
(***************************************************************************)
(* The standalone paper reviews of the wallet's user.  start_review checks  *)
(* the balance, inserts a pending row and leaves the rest to a background   *)
(* task: the review itself in a thread, its content, its token usages, the  *)
(* charge, the flag.  The task dies with its process; what it leaves is     *)
(* failed when some server starts and finds it older than the threshold,    *)
(* which a review that is still being worked on can be as well.             *)
(***************************************************************************)
EXTENDS Wallet

CONSTANTS
    ReviewCost,  \* cents, at least one
    MaxStartups  \* bound: servers that start after the first

ASSUME ReviewAssumption ==
    /\ ReviewCost \in Nat \ {0}
    /\ MaxStartups \in Nat

VARIABLES
    job,       \* where the request and the background task of a review are
    old,       \* created more than _STALE_REVIEW_THRESHOLD_MINUTES ago
    charged,   \* debits of a review
    cut,       \* history: reviews whose task was cut off after it had completed them
    startups   \* servers that may still start

reviewVars == <<job, old, charged, cut, startups>>
vars == <<walletVars, reviewVars>>

-----------------------------------------------------------------------------

Inside == {"begin", "work", "complete", "store", "debit", "read", "lock_runs",
           "lock_reviews", "reread"}
After(at) == at \in {"store", "debit", "read", "lock_runs", "lock_reviews", "reread",
                     "flag_no", "flag_yes"}

ReviewPoints == Inside \cup {"none", "insert", "flag_no", "flag_yes", "fail",
                             "excuse", "clear", "over", "dead"}

Init ==
    /\ WalletInit
    /\ job = [v \in Reviews |-> "none"]
    /\ old = [v \in Reviews |-> FALSE]
    /\ charged = [v \in Reviews |-> 0]
    /\ cut = {}
    /\ startups = MaxStartups

\* Steps that leave the wallet's other variables alone.
UnchangedStripe == UNCHANGED <<stripeVars, credited, refunded, task, mangled>>

Step(v, from, to) == job[v] = from /\ job' = [job EXCEPT ![v] = to]

\* A step of the task that writes nothing the model keeps.
Passes(v, from, to) ==
    /\ Step(v, from, to)
    /\ UNCHANGED <<walletVars, old, charged, cut, startups>>

SetStatus(v, new) == status' = [status EXCEPT ![v] = new]

\* enforce_minimum_balance, then the upload of the paper.
Submit(v) == balance >= MinBalance /\ Passes(v, "none", "insert")

InsertReview(v) ==
    /\ Step(v, "insert", "begin")
    /\ SetStatus(v, "pending")
    /\ strayed' = IF balance > 0 THEN strayed ELSE strayed \cup {v}
    /\ UNCHANGED <<balance, enough, left, old, charged, cut, startups>>
    /\ UnchangedStripe

BeginReview(v) ==
    /\ Step(v, "begin", "work")
    /\ SetStatus(v, "processing")
    /\ UNCHANGED <<balance, enough, strayed, left, old, charged, cut, startups>>
    /\ UnchangedStripe

WorkEnds(v) == Passes(v, "work", "complete")

\* The content and the status, in one transaction, whatever the status is now.
CompleteReview(v) ==
    /\ Step(v, "complete", "store")
    /\ SetStatus(v, "completed")
    /\ UNCHANGED <<balance, enough, strayed, left, old, charged, cut, startups>>
    /\ UnchangedStripe

StoreAndForget(v) == Passes(v, "store", "reread")

\* The analyses and the token usages.
Store(v) == Passes(v, "store", "debit")

DebitReview(v) ==
    /\ Step(v, "debit", "read")
    /\ Transact(-ReviewCost)
    /\ charged' = [charged EXCEPT ![v] = @ + 1]
    /\ UNCHANGED <<status, enough, strayed, left, old, cut, startups>>
    /\ UnchangedStripe

ReadCharged(v) == Passes(v, "read", IF balance <= 0 THEN "lock_runs" ELSE "reread")

LockFor(v, C, from, to) ==
    /\ Step(v, from, to)
    /\ LockActive(C)
    /\ UNCHANGED <<balance, status, left, old, charged, cut, startups>>
    /\ UnchangedStripe

LockRunsFor(v)    == LockFor(v, Runs, "lock_runs", "lock_reviews")
LockReviewsFor(v) == LockFor(v, Reviews, "lock_reviews", "reread")

\* The balance is read once more, and the flag written in a step of its own.
Reread(v) == Passes(v, "reread", IF balance > 0 THEN "flag_yes" ELSE "flag_no")

Flag(v, flag, from) ==
    /\ Step(v, from, "clear")
    /\ SetFlags({v}, flag)
    /\ UNCHANGED <<balance, status, left, old, charged, cut, startups>>
    /\ UnchangedStripe

FlagReview(v) == Flag(v, "yes", "flag_yes") \/ Flag(v, "no", "flag_no")

\* finally: the progress of the row, and the temporary file.
Clear(v) == Passes(v, "clear", "over")

\* Whatever raises in the try block fails the review, completed or not.
TaskRaises(v) ==
    /\ job[v] \in Inside \cup {"flag_no", "flag_yes"}
    /\ Spend("oddities")
    /\ job' = [job EXCEPT ![v] = "fail"]
    /\ cut' = IF After(job[v]) THEN cut \cup {v} ELSE cut
    /\ strayed' = IF job[v] \in {"read", "lock_runs", "lock_reviews"}
                    THEN strayed \cup Contradicted(balance) ELSE strayed
    /\ UNCHANGED <<balance, status, enough, old, charged, startups>>
    /\ UnchangedStripe

FailReview(v) ==
    /\ Step(v, "fail", "excuse")
    /\ SetStatus(v, "failed")
    /\ UNCHANGED <<balance, enough, strayed, left, old, charged, cut, startups>>
    /\ UnchangedStripe

\* Failed reviews stay readable.
Excuse(v) == Flag(v, "yes", "excuse")

\* The exception handler raises in turn: finally still runs.
HandlerRaises(v) ==
    /\ job[v] \in {"fail", "excuse"}
    /\ Spend("oddities")
    /\ job' = [job EXCEPT ![v] = "clear"]
    /\ cut' = cut \cup {v}
    /\ UNCHANGED <<balance, status, enough, strayed, old, charged, startups>>
    /\ UnchangedStripe

\* The process dies with the task.
TaskDies(v) ==
    /\ job[v] \notin {"none", "insert", "over", "dead"}
    /\ Spend("oddities")
    /\ job' = [job EXCEPT ![v] = "dead"]
    /\ cut' = IF After(job[v]) \/ job[v] \in {"fail", "excuse"} THEN cut \cup {v} ELSE cut
    /\ strayed' = IF job[v] \in {"read", "lock_runs", "lock_reviews"}
                    THEN strayed \cup Contradicted(balance) ELSE strayed
    /\ UNCHANGED <<balance, status, enough, old, charged, startups>>
    /\ UnchangedStripe

\* A premium review takes longer than the threshold, or nobody works on it.
Age(v) ==
    /\ job[v] \in {"work", "dead"} /\ ~old[v]
    /\ old' = [old EXCEPT ![v] = TRUE]
    /\ UNCHANGED <<walletVars, job, charged, cut, startups>>

\* recover_stale_paper_reviews, once in every server that starts.
Recover ==
    /\ startups > 0
    /\ startups' = startups - 1
    /\ status' = [c \in Content |->
                    IF c \in Reviews \cap Active /\ old[c] THEN "failed" ELSE status[c]]
    /\ UNCHANGED <<balance, enough, strayed, left, job, old, charged, cut>>
    /\ UnchangedStripe

TaskStep(v) ==
    \/ InsertReview(v) \/ BeginReview(v) \/ WorkEnds(v) \/ CompleteReview(v) \/ Store(v)
    \/ DebitReview(v) \/ ReadCharged(v) \/ LockRunsFor(v) \/ LockReviewsFor(v)
    \/ Reread(v) \/ FlagReview(v) \/ FailReview(v) \/ Excuse(v) \/ Clear(v)

Next ==
    \/ WalletNext /\ UNCHANGED reviewVars
    \/ \E v \in Reviews :
         Submit(v) \/ TaskStep(v) \/ TaskRaises(v) \/ HandlerRaises(v) \/ TaskDies(v) \/ Age(v)
    \/ Recover

Spec == Init /\ [][Next]_vars

-----------------------------------------------------------------------------

TypeOK ==
    /\ WalletTypeOK
    /\ job \in [Reviews -> ReviewPoints]
    /\ old \in [Reviews -> BOOLEAN]
    /\ charged \in [Reviews -> Nat]
    /\ cut \subseteq Reviews
    /\ startups \in Nat

Settled(v) == job[v] \in {"none", "over", "dead"}

\* Nothing is under way.
Quiet == (\A h \in Handlers : task[h] = Idle) /\ (\A v \in Reviews : Settled(v))

\* Content is withheld from a user with a positive balance only when the flag
\* was written from a balance that had changed since it was read, or the
\* balance rose by a credit that unlocks nothing, or the handler of the
\* purchase was cut off: a purchase unlocks everything otherwise.
RestrictionHasACause ==
    Quiet /\ balance > 0 => \A c \in Content : enough[c] = "no" => c \in strayed

\* Active content is open to a user without a balance only when it was created
\* or unlocked from a balance that had changed since, or a refund took the
\* balance, or the charge was cut off before it locked.
OverdraftHasACause ==
    Quiet /\ balance <= 0 => \A c \in Active : enough[c] # "no" => c \in strayed

\* A review whose task is over has completed or failed; it has been charged once
\* if it is completed and not at all if it has failed, also when a recovery
\* failed it while it was being worked on.  Only a task that was cut off after it
\* had written the content leaves a completed review nobody paid for or a failed
\* one that was paid for, and only a process that died one that never ends.
ReviewsAreSettled ==
    \A v \in Reviews :
      /\ charged[v] <= 1
      /\ Settled(v) /\ v \notin cut => (charged[v] = 1 <=> status[v] = "completed")
      /\ job[v] = "over" /\ v \notin cut => status[v] \in {"completed", "failed"}

=============================================================================
