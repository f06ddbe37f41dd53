--------------------------- MODULE PodTermination ---------------------------
(***************************************************************************)
(* The pod-termination service of the server: the rows of the table         *)
(* research_pipeline_run_terminations, the election of one server process   *)
(* as pipeline monitor, and the PodTerminationWorker the elected process    *)
(* runs.  A worker claims rows under a lease, keeps the claimed SNAPSHOTS   *)
(* in an in-memory queue, and runs one asynchronous job per run: upload     *)
(* artifacts, delete the pod at RunPod, close the row, reconcile billing.   *)
(* Every await of a job is a step of its own, so jobs, the feeder, API      *)
(* requests, lease expiry and process death interleave between them.        *)
(***************************************************************************)
EXTENDS Naturals, Sequences, FiniteSets

CONSTANTS
    Runs,               \* research runs (primary key of the table)
    Workers,            \* server processes, each running a pipeline monitor
    Pods,               \* pods at RunPod
    NoWorker, NoPod,    \* "NULL" of the lock holder and of a job's pod id
    MaxUploadAttempts,  \* _TERMINATION_MAX_UPLOAD_ATTEMPTS
    MaxConcurrency,     \* max_concurrency of the worker (semaphore size)
    MaxStops,           \* bound: processes stopped or crashed
    MaxLockLosses,      \* bound: advisory locks lost by a live process
    MaxDbFaults,        \* bound: database calls that raise inside a job
    MaxLoopFaults,      \* bound: database calls that raise outside the jobs
    AttemptCap          \* bound: no new request for a row with this many attempts

ASSUME ConstantsAssumption ==
    /\ NoWorker \notin Workers
    /\ NoPod \notin Pods
    /\ MaxUploadAttempts \in Nat \ {0}
    /\ MaxConcurrency \in Nat \ {0}
    /\ {MaxStops, MaxLockLosses, MaxDbFaults, MaxLoopFaults, AttemptCap}
          \subseteq Nat

VARIABLES
    rows,       \* the termination row of each run ("none": not inserted)
    podOf,      \* research_pipeline_runs.pod_id
    reachable,  \* research_pipeline_runs.public_ip and ssh_port are set
    pods,       \* what RunPod knows of each pod
    stored,     \* the run's workspace archive has reached the artifact store
    lock,       \* holder of the monitor's advisory lock
    mode,       \* state of each process's monitor task
    queue,      \* PodTerminationWorker._queue of each process
    jobs,       \* the termination jobs of each process
    settled,    \* history: billing reconciliations of the run (2: several)
    overran,    \* history: the row changed hands beneath a live holder
    spent       \* how much of each bound is used up

runVars    == <<podOf, reachable>>
outerVars  == <<pods, stored>>
leaderVars == <<lock, mode>>
workVars   == <<queue, jobs>>
histVars   == <<settled, overran>>
vars == <<rows, podOf, reachable, pods, stored, lock, mode, queue, jobs,
          settled, overran, spent>>

-----------------------------------------------------------------------------
(* State spaces.                                                            *)

Statuses == {"none", "requested", "in_progress", "terminated", "failed"}

\* lease: "none" is a NULL lease_expires_at, "lapsed" one in the past.
Rows == [status   : Statuses,
         attempts : Nat,
         uploaded : BOOLEAN,
         podGone  : BOOLEAN,
         lease    : {"none", "live", "lapsed"}]

NoRow == [status |-> "none", attempts |-> 0, uploaded |-> FALSE,
          podGone |-> FALSE, lease |-> "none"]

\* What the worker keeps of a claimed row.
Snapshots == [run : Runs, attempts : Nat, uploaded : BOOLEAN]

JobStates == {"idle", "waiting", "read", "upload", "stamp_upload",
              "reschedule", "delete", "stamp_gone", "give_up", "finish",
              "reread", "reread_terminated", "bill", "rescue", "linger"}

Jobs == [pc       : JobStates,
         attempt  : Nat,
         uploaded : BOOLEAN,
         pod      : Pods \cup {NoPod}]

NoJob == [pc |-> "idle", attempt |-> 0, uploaded |-> FALSE, pod |-> NoPod]

Bounds == [stops : Nat, lockLosses : Nat, dbFaults : Nat, loopFaults : Nat]

\* "unfed": leading, but the queue feeder has died; "headless": leading, but
\* the termination dispatcher has died.  Nothing restarts either of them.
Modes == {"standby", "elected", "leading", "unfed", "headless"}

TypeOK ==
    /\ rows \in [Runs -> Rows]
    /\ podOf \in [Runs -> Pods]
    /\ reachable \in [Runs -> BOOLEAN]
    /\ pods \in [Pods -> {"absent", "up", "lost", "deleted"}]
    /\ stored \in [Runs -> BOOLEAN]
    /\ lock \in Workers \cup {NoWorker}
    /\ mode \in [Workers -> Modes]
    /\ queue \in [Workers -> Seq(Snapshots)]
    /\ jobs \in [Workers -> [Runs -> Jobs]]
    /\ settled \in [Runs -> 0..2]
    /\ overran \in [Runs -> BOOLEAN]
    /\ spent \in Bounds

Init ==
    /\ rows = [r \in Runs |-> NoRow]
    /\ podOf \in {f \in [Runs -> Pods] :
                     \A r, s \in Runs : r # s => f[r] # f[s]}
    /\ reachable = [r \in Runs |-> FALSE]
    /\ pods = [p \in Pods |->
                  IF \E r \in Runs : podOf[r] = p THEN "up" ELSE "absent"]
    /\ stored = [r \in Runs |-> FALSE]
    /\ lock = NoWorker
    /\ mode = [w \in Workers |-> "standby"]
    /\ queue = [w \in Workers |-> <<>>]
    /\ jobs = [w \in Workers |-> [r \in Runs |-> NoJob]]
    /\ settled = [r \in Runs |-> 0]
    /\ overran = [r \in Runs |-> FALSE]
    /\ spent = [stops |-> 0, lockLosses |-> 0, dbFaults |-> 0, loopFaults |-> 0]

-----------------------------------------------------------------------------
(* The statements of the termination table, each one transaction.  None of  *)
(* them but the claim looks at the status, the lease or its owner.          *)

\* Mutants of the statements: a request reopens a closed row, a claim never takes
\* over a lapsed lease, a give-up forgets the attempts or is recorded as success.
EnqueuedAgain(row) ==
    IF row.status \in {"none", "failed", "terminated"}
    THEN [row EXCEPT !.status = "requested", !.lease = "none"] ELSE row

ClaimableRequestedOnly(row) == row.status = "requested"

\* enqueue_research_pipeline_run_termination
Enqueued(row) ==
    CASE row.status = "none" ->
             [row EXCEPT !.status = "requested"]
      [] row.status = "failed" ->
             [row EXCEPT !.status = "requested", !.lease = "none"]
      [] OTHER -> row

\* The WHERE clause of the claim.  A row in progress always has a lease, and
\* its 50 minutes end before the 60 minutes of the "stuck" disjunct.
Claimable(row) ==
    \/ row.status = "requested"
    \/ row.status = "in_progress" /\ row.lease = "lapsed"

Claimed(row)          == [row EXCEPT !.status = "in_progress", !.lease = "live"]
Rescheduled(row, n)   == [row EXCEPT !.status = "requested", !.attempts = n,
                                     !.lease = "none"]
ArtifactsStamped(row) == [row EXCEPT !.uploaded = TRUE]

PodStamped(row)       == [row EXCEPT !.podGone = TRUE]
Terminated(row, n)    == [row EXCEPT !.status = "terminated", !.lease = "none",
                                     !.attempts = IF @ > n THEN @ ELSE n]
GivenUp(row, n)       == [row EXCEPT !.status = "failed", !.attempts = n,
                                     !.lease = "none"]

-----------------------------------------------------------------------------
(* The environment of the service.                                          *)

\* The statement every requester issues: the run-finished and gpu-shortage
\* webhooks, the user's stop request and the monitor's _fail_run.
RequestTermination(r) ==
    /\ rows[r].attempts < AttemptCap
    /\ rows' = [rows EXCEPT ![r] = Enqueued(rows[r])]
    /\ UNCHANGED <<runVars, outerVars, leaderVars, workVars, histVars, spent>>

\* The pod's SSH address is stored in the run row once the pod is ready.
PodReachable(r) ==
    /\ ~reachable[r]
    /\ reachable' = [reachable EXCEPT ![r] = TRUE]
    /\ UNCHANGED <<rows, podOf, outerVars, leaderVars, workVars, histVars, spent>>

\* RunPod reclaims a pod: a later DELETE is answered 404.
PodVanishes(p) ==
    /\ pods[p] = "up"
    /\ pods' = [pods EXCEPT ![p] = "lost"]
    /\ UNCHANGED <<rows, runVars, stored, leaderVars, workVars, histVars, spent>>

\* A live process holds a snapshot of the row, queued or in a job.
HeldBy(w, r) == \/ jobs[w][r].pc # "idle"
                \/ \E i \in DOMAIN queue[w] : queue[w][i].run = r

Held(r) == \E w \in Workers : HeldBy(w, r)

\* 50 minutes pass since the claim.  The dispatcher empties its queue far
\* faster than that, so only a job (its upload alone may take three times
\* three hours) or an abandoned row can see its lease end.
LeaseLapses(r) ==
    /\ rows[r].status = "in_progress" /\ rows[r].lease = "live"
    /\ \A w \in Workers : \A i \in DOMAIN queue[w] : queue[w][i].run # r
    /\ rows' = [rows EXCEPT ![r].lease = "lapsed"]
    /\ overran' = [overran EXCEPT ![r] = @ \/ Held(r)]
    /\ UNCHANGED <<runVars, outerVars, leaderVars, workVars, settled, spent>>

-----------------------------------------------------------------------------
(* Election of the monitor and start and end of its worker.                 *)

\* pg_try_advisory_lock succeeds: the dispatcher task is created.
Elect(w) ==
    /\ mode[w] = "standby" /\ lock = NoWorker
    /\ lock' = w
    /\ mode' = [mode EXCEPT ![w] = "elected"]
    /\ UNCHANGED <<rows, runVars, outerVars, workVars, histVars, spent>>

\* Some other process goes on as leader: it has lost its lock unknowingly.
OtherLeader(w) == \E v \in Workers \ {w} : mode[v] # "standby"

\* reset_stale_termination_leases: every row in progress is requested again,
\* whoever is working on it; then the feeder starts.
ResetLeases(w) ==
    /\ mode[w] = "elected"
    /\ rows' = [r \in Runs |->
                   IF rows[r].status = "in_progress"
                   THEN [rows[r] EXCEPT !.status = "requested",
                                        !.lease = "none"]
                   ELSE rows[r]]
    /\ mode' = [mode EXCEPT ![w] = "leading"]
    /\ overran' = [r \in Runs |-> overran[r] \/ OtherLeader(w)]
    /\ UNCHANGED <<runVars, outerVars, lock, workVars, settled, spent>>

\* A stop request or a crash: the jobs are cancelled where they stand, the
\* queue is lost, the rows stay as they are, the lock (if held) is free.
StopWorker(w) ==
    /\ mode[w] # "standby" /\ spent.stops < MaxStops
    /\ mode' = [mode EXCEPT ![w] = "standby"]
    /\ lock' = IF lock = w THEN NoWorker ELSE lock
    /\ queue' = [queue EXCEPT ![w] = <<>>]
    /\ jobs' = [jobs EXCEPT ![w] = [r \in Runs |-> NoJob]]
    /\ spent' = [spent EXCEPT !.stops = @ + 1]
    /\ UNCHANGED <<rows, runVars, outerVars, histVars>>

\* PostgreSQL drops the session that holds the advisory lock; the process
\* does not look at it again and goes on as the leader.
LoseLock(w) ==
    /\ lock = w /\ spent.lockLosses < MaxLockLosses
    /\ lock' = NoWorker
    /\ spent' = [spent EXCEPT !.lockLosses = @ + 1]
    /\ UNCHANGED <<rows, runVars, outerVars, mode, workVars, histVars>>

\* The reset raises: the dispatcher task ends, the monitor does not notice.
ResetFails(w) ==
    /\ mode[w] = "elected" /\ spent.loopFaults < MaxLoopFaults
    /\ mode' = [mode EXCEPT ![w] = "headless"]
    /\ spent' = [spent EXCEPT !.loopFaults = @ + 1]
    /\ UNCHANGED <<rows, runVars, outerVars, lock, workVars, histVars>>

\* A claim raises: the feeder task ends, the dispatcher does not notice.
ClaimFails(w) ==
    /\ mode[w] = "leading" /\ spent.loopFaults < MaxLoopFaults
    /\ mode' = [mode EXCEPT ![w] = "unfed"]
    /\ spent' = [spent EXCEPT !.loopFaults = @ + 1]
    /\ UNCHANGED <<rows, runVars, outerVars, lock, workVars, histVars>>

-----------------------------------------------------------------------------
(* Feeder and dispatcher of one worker.                                     *)

\* Which claimable row comes first (the oldest not locked by another
\* transaction) does not matter: the feeder drains them all.
Claim(w, r) ==
    /\ mode[w] = "leading" /\ Claimable(rows[r])
    /\ rows' = [rows EXCEPT ![r] = Claimed(@)]
    /\ queue' = [queue EXCEPT ![w] = Append(@,
                    [run |-> r, attempts |-> rows[r].attempts,
                     uploaded |-> rows[r].uploaded])]
    /\ UNCHANGED <<runVars, outerVars, leaderVars, jobs, histVars, spent>>

\* The job a snapshot starts; attempt_number is fixed by the snapshot.
StartedJob(snap) == [pc |-> "waiting", attempt |-> snap.attempts + 1,
                     uploaded |-> snap.uploaded, pod |-> NoPod]

\* A run that is in flight in this process is skipped: its snapshot is
\* dropped and its row stays in progress.
Dispatch(w) ==
    /\ queue[w] # <<>>
    /\ queue' = [queue EXCEPT ![w] = Tail(@)]
    /\ LET snap == Head(queue[w]) IN
       jobs' = IF jobs[w][snap.run].pc = "idle"
               THEN [jobs EXCEPT ![w][snap.run] = StartedJob(snap)]
               ELSE jobs
    /\ UNCHANGED <<rows, runVars, outerVars, leaderVars, histVars, spent>>

-----------------------------------------------------------------------------
(* One job.  JobAt is its program counter, JobGoes where it goes next.      *)

JobAt(w, r, pc)   == jobs[w][r].pc = pc
JobGoes(w, r, pc) == jobs' = [jobs EXCEPT ![w][r].pc = pc]
JobEnds(w, r)     == jobs' = [jobs EXCEPT ![w][r] = NoJob]

LastAttempt(w, r) == jobs[w][r].attempt >= MaxUploadAttempts

\* asyncio.Semaphore(max_concurrency)
Running(w) == {r \in Runs : jobs[w][r].pc \notin {"idle", "waiting"}}

EnterSemaphore(w, r) ==
    /\ JobAt(w, r, "waiting")
    /\ Cardinality(Running(w)) < MaxConcurrency
    /\ JobGoes(w, r, "read")
    /\ UNCHANGED <<rows, runVars, outerVars, leaderVars, queue, histVars, spent>>

\* Mutant: no retries after a failed upload.
AlwaysDelete(w, r) == "delete"

\* Where the job goes once the upload has failed or was impossible.
AfterUploadFailure(w, r) == IF LastAttempt(w, r) THEN "delete" ELSE "reschedule"

\* Read the run row, keep its pod id, and decide about the upload.
ReadRun(w, r) ==
    /\ JobAt(w, r, "read")
    /\ LET job  == jobs[w][r]
           next == IF job.uploaded \/ job.attempt > MaxUploadAttempts THEN "delete"
                   ELSE IF reachable[r] THEN "upload"
                   ELSE AfterUploadFailure(w, r)
       IN jobs' = [jobs EXCEPT ![w][r] =
                      [@ EXCEPT !.pc = next, !.pod = podOf[r]]]
    /\ UNCHANGED <<rows, runVars, outerVars, leaderVars, queue, histVars, spent>>

\* upload_runpod_artifacts_via_ssh returns normally whether or not the pod
\* uploaded anything: exit status, timeouts and exceptions are only logged.
UploadReturns(w, r) ==
    /\ JobAt(w, r, "upload")
    /\ stored' \in {stored, [stored EXCEPT ![r] = TRUE]}
    /\ JobGoes(w, r, "stamp_upload")
    /\ UNCHANGED <<rows, runVars, pods, leaderVars, queue, histVars, spent>>

\* Only the preparation of the SSH key can raise.
UploadRaises(w, r) ==
    /\ JobAt(w, r, "upload")
    /\ JobGoes(w, r, AfterUploadFailure(w, r))
    /\ UNCHANGED <<rows, runVars, outerVars, leaderVars, queue, histVars, spent>>

StampUpload(w, r) ==
    /\ JobAt(w, r, "stamp_upload")
    /\ rows' = [rows EXCEPT ![r] = ArtifactsStamped(@)]
    /\ JobGoes(w, r, "delete")
    /\ UNCHANGED <<runVars, outerVars, leaderVars, queue, histVars, spent>>

Reschedule(w, r) ==
    /\ JobAt(w, r, "reschedule")
    /\ rows' = [rows EXCEPT ![r] = Rescheduled(@, jobs[w][r].attempt)]
    /\ JobGoes(w, r, "reread")
    /\ UNCHANGED <<runVars, outerVars, leaderVars, queue, histVars, spent>>

DeletedAt(p) == [pods EXCEPT ![p] = IF @ = "up" THEN "deleted" ELSE @]

\* RunPod answers 2xx for a pod it has, 404 for one it has not: both count.
DeleteAcknowledged(w, r) ==
    /\ JobAt(w, r, "delete")
    /\ pods' = DeletedAt(jobs[w][r].pod)
    /\ JobGoes(w, r, "stamp_gone")
    /\ UNCHANGED <<rows, runVars, stored, leaderVars, queue, histVars, spent>>

\* Mutant: every RunPodError is taken for a 404.
DeleteRefusedAsGone(w, r) ==
    /\ JobAt(w, r, "delete")
    /\ JobGoes(w, r, "stamp_gone")
    /\ UNCHANGED <<rows, runVars, outerVars, leaderVars, queue, histVars, spent>>

\* Any other RunPodError, whether or not the pod was deleted.
DeleteRefused(w, r) ==
    /\ JobAt(w, r, "delete")
    /\ pods' \in {pods, DeletedAt(jobs[w][r].pod)}
    /\ JobGoes(w, r, IF LastAttempt(w, r) THEN "give_up" ELSE "reschedule")
    /\ UNCHANGED <<rows, runVars, stored, leaderVars, queue, histVars, spent>>

\* A transport error is not a RunPodError: the job's exception handler runs.
DeleteUnanswered(w, r) ==
    /\ JobAt(w, r, "delete")
    /\ pods' \in {pods, DeletedAt(jobs[w][r].pod)}
    /\ JobGoes(w, r, "rescue")
    /\ UNCHANGED <<rows, runVars, stored, leaderVars, queue, histVars, spent>>

StampGone(w, r) ==
    /\ JobAt(w, r, "stamp_gone")
    /\ rows' = [rows EXCEPT ![r] = PodStamped(@)]
    /\ JobGoes(w, r, "finish")
    /\ UNCHANGED <<runVars, outerVars, leaderVars, queue, histVars, spent>>

Finish(w, r) ==
    /\ JobAt(w, r, "finish")
    /\ rows' = [rows EXCEPT ![r] = Terminated(@, jobs[w][r].attempt)]
    /\ JobGoes(w, r, "reread_terminated")
    /\ UNCHANGED <<runVars, outerVars, leaderVars, queue, histVars, spent>>

GiveUp(w, r) ==
    /\ JobAt(w, r, "give_up")
    /\ rows' = [rows EXCEPT ![r] = GivenUp(@, jobs[w][r].attempt)]
    /\ JobGoes(w, r, "reread")
    /\ UNCHANGED <<runVars, outerVars, leaderVars, queue, histVars, spent>>

\* The row is read back to publish its status; then the job is over.
Reread(w, r) ==
    /\ \/ JobAt(w, r, "reread") /\ JobEnds(w, r)
       \/ JobAt(w, r, "linger") /\ JobEnds(w, r)
       \/ JobAt(w, r, "reread_terminated") /\ JobGoes(w, r, "bill")
    /\ UNCHANGED <<rows, runVars, outerVars, leaderVars, queue, histVars, spent>>

\* _record_pod_billing_event, best effort: whatever it raises is swallowed.
SettleBilling(w, r) ==
    /\ JobAt(w, r, "bill")
    /\ settled' = [settled EXCEPT ![r] = IF @ = 2 THEN 2 ELSE @ + 1]
    /\ JobEnds(w, r)
    /\ UNCHANGED <<rows, runVars, outerVars, leaderVars, queue, overran, spent>>

\* Another job, or a snapshot waiting in a queue, stands for the same run.
HeldElsewhere(w, r) ==
    \/ \E v \in Workers \ {w} : HeldBy(v, r)
    \/ \E i \in DOMAIN queue[w] : queue[w][i].run = r

\* _handle_job_exception
Rescue(w, r) ==
    /\ JobAt(w, r, "rescue")
    /\ rows' = [rows EXCEPT ![r] =
                   IF LastAttempt(w, r) THEN GivenUp(@, jobs[w][r].attempt)
                                        ELSE Rescheduled(@, jobs[w][r].attempt)]
    /\ JobGoes(w, r, "linger")
    /\ overran' = [overran EXCEPT ![r] = @ \/ HeldElsewhere(w, r)]
    /\ UNCHANGED <<runVars, outerVars, leaderVars, queue, settled, spent>>

\* A database call of the job raises.  Inside the upload's try block that is
\* an upload failure, inside the handler it ends the job, anywhere else the
\* handler runs - even for the read that follows mark_terminated.
DbFault(w, r) ==
    /\ spent.dbFaults < MaxDbFaults
    /\ \/ JobAt(w, r, "stamp_upload") /\ JobGoes(w, r, AfterUploadFailure(w, r))
       \/ JobAt(w, r, "rescue") /\ JobEnds(w, r)
       \/ /\ jobs[w][r].pc \in {"read", "reschedule", "stamp_gone", "finish",
                                "give_up", "reread", "reread_terminated"}
          /\ JobGoes(w, r, "rescue")
    /\ spent' = [spent EXCEPT !.dbFaults = @ + 1]
    /\ UNCHANGED <<rows, runVars, outerVars, leaderVars, queue, histVars>>

-----------------------------------------------------------------------------

JobStep(w, r) ==
    \/ ReadRun(w, r)
    \/ UploadReturns(w, r) \/ UploadRaises(w, r) \/ StampUpload(w, r)
    \/ Reschedule(w, r)
    \/ DeleteAcknowledged(w, r) \/ DeleteRefused(w, r) \/ DeleteUnanswered(w, r)
    \/ StampGone(w, r) \/ Finish(w, r) \/ GiveUp(w, r)
    \/ Reread(w, r) \/ SettleBilling(w, r)
    \/ Rescue(w, r)

WorkerStep(w) ==
    \/ Elect(w) \/ ResetLeases(w) \/ ResetFails(w) \/ ClaimFails(w)
    \/ StopWorker(w) \/ LoseLock(w) \/ Dispatch(w)
    \/ \E r \in Runs : Claim(w, r) \/ EnterSemaphore(w, r) \/ JobStep(w, r)
                          \/ DbFault(w, r)

Environment ==
    \/ \E r \in Runs : RequestTermination(r) \/ PodReachable(r) \/ LeaseLapses(r)
    \/ \E p \in Pods : PodVanishes(p)

Next == Environment \/ \E w \in Workers : WorkerStep(w)

\* Processes keep contending for the lock, event loops keep running, calls
\* return, time passes; the semaphore wakes its waiters in order.
Fairness ==
    /\ WF_vars(\E w \in Workers : Elect(w))
    /\ \A w \in Workers : WF_vars(ResetLeases(w)) /\ WF_vars(Dispatch(w))
    /\ \A w \in Workers, r \in Runs :
          WF_vars(Claim(w, r)) /\ SF_vars(EnterSemaphore(w, r))
                               /\ WF_vars(JobStep(w, r))
    /\ \A r \in Runs : WF_vars(LeaseLapses(r))

Spec == Init /\ [][Next]_vars
FairSpec == Spec /\ Fairness

-----------------------------------------------------------------------------
(* Properties.                                                              *)

\* pod_terminated_at is honest: it is only set once RunPod no longer has the
\* pod of the run (the hw-stats webhook discards data on its strength).
PodStampIsHonest ==
    \A r \in Runs : rows[r].podGone => pods[podOf[r]] # "up"

\* A row is closed as terminated only with the deletion acknowledged, and it
\* stays acknowledged if a late fault reopens the row.
TerminatedMeansGone ==
    \A r \in Runs :
       /\ rows[r].status = "terminated" => rows[r].podGone
       /\ settled[r] > 0 => rows[r].podGone

\* The row of a run whose pod the service has destroyed shows why: the upload was
\* stamped or the attempts before the last one are used up.  Only a row that
\* changed hands beneath a live holder can show less, for the holder that comes
\* late writes its own, lower count over the one the deletion was based on.
DeletionIsEarned ==
    \A r \in Runs : pods[podOf[r]] = "deleted" =>
       \/ rows[r].uploaded
       \/ rows[r].attempts >= MaxUploadAttempts - 1
       \/ overran[r]

\* The pod of a run is charged at most once by this service, again unless
\* the row was given away while it was still held.
SettledOnce ==
    \A r \in Runs : settled[r] = 2 => overran[r]

\* What a requester sees of the service: requested and in progress are the
\* same to it.
Verdict == [r \in Runs |-> IF rows[r].status \in {"requested", "in_progress"}
                           THEN "open" ELSE rows[r].status]
PodUp   == [r \in Runs |-> pods[podOf[r]] = "up"]
Stamped == [r \in Runs |-> rows[r].podGone]
Paid    == [r \in Runs |-> settled[r] > 0]

Contract == INSTANCE TerminationContract
            WITH verdict <- Verdict, podUp <- PodUp, stamped <- Stamped,
                 paid <- Paid

\* The service implements the contract, whatever jobs, leaders and faults
\* overlap: no stamp before the deletion, no "terminated" before the stamp.
HonoursContract == Contract!CSafety

\* Every request is closed in the end, across restarts, lapsed leases,
\* dropped snapshots and faults inside the jobs.
CompletesRequests == Contract!CompletesRequests

=============================================================================
