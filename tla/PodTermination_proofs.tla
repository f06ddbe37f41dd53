------------------------ MODULE PodTermination_proofs ------------------------
(***************************************************************************)
(* Proofs about PodTermination, for any number of runs, processes and pods  *)
(* and any retry limits: the state stays well typed, the deletion stamp is  *)
(* honest, a closed or paid row carries it, the service implements          *)
(* TerminationContract, a bill is settled once, and a pod is destroyed only *)
(* after its upload or at its last attempt.                                 *)
(***************************************************************************)
EXTENDS PodTermination, TLAPS

\* Every statement of the termination table yields a well-formed row.
LEMMA StatementsTyped ==
    ASSUME NEW row \in Rows, NEW n \in Nat
    PROVE  /\ Enqueued(row) \in Rows
           /\ Claimed(row) \in Rows
           /\ Rescheduled(row, n) \in Rows
           /\ ArtifactsStamped(row) \in Rows
           /\ PodStamped(row) \in Rows
           /\ Terminated(row, n) \in Rows
           /\ GivenUp(row, n) \in Rows
  BY DEF Rows, Statuses, Enqueued, Claimed, Rescheduled, ArtifactsStamped,
         PodStamped, Terminated, GivenUp

\* No statement clears the deletion stamp.
LEMMA StatementsKeepStamp ==
    ASSUME NEW row \in Rows, NEW n \in Nat
    PROVE  /\ Enqueued(row).podGone = row.podGone
           /\ Claimed(row).podGone = row.podGone
           /\ Rescheduled(row, n).podGone = row.podGone
           /\ ArtifactsStamped(row).podGone = row.podGone
           /\ PodStamped(row).podGone
           /\ Terminated(row, n).podGone = row.podGone
           /\ GivenUp(row, n).podGone = row.podGone
  BY DEF Rows, Statuses, Enqueued, Claimed, Rescheduled, ArtifactsStamped,
         PodStamped, Terminated, GivenUp

\* A job's step touches that job only: what it moves, and what it keeps.
LEMMA JobGoesEffect ==
    ASSUME TypeOK, NEW w \in Workers, NEW r \in Runs, NEW pc \in JobStates,
           JobGoes(w, r, pc)
    PROVE  /\ jobs' \in [Workers -> [Runs -> Jobs]]
           /\ jobs'[w][r].pc = pc
           /\ jobs'[w][r].pod = jobs[w][r].pod
           /\ jobs'[w][r].attempt = jobs[w][r].attempt
           /\ jobs'[w][r].uploaded = jobs[w][r].uploaded
           /\ \A v \in Workers, s \in Runs :
                 v # w \/ s # r => jobs'[v][s] = jobs[v][s]
<1> DEFINE job == [jobs[w][r] EXCEPT !.pc = pc]
<1>1. jobs \in [Workers -> [Runs -> Jobs]]
  BY DEF TypeOK
<1>2. job \in Jobs
  <2>1. jobs[w][r] \in Jobs
    BY <1>1
  <2> QED BY <2>1 DEF Jobs
<1>3. jobs' = [jobs EXCEPT ![w] = [jobs[w] EXCEPT ![r] = job]]
  BY Zenon DEF JobGoes
<1> HIDE DEF job
<1>4. [jobs[w] EXCEPT ![r] = job] \in [Runs -> Jobs]
  BY <1>1, <1>2
<1>5. /\ job.pc = pc /\ job.pod = jobs[w][r].pod /\ job.attempt = jobs[w][r].attempt
      /\ job.uploaded = jobs[w][r].uploaded
  BY <1>1 DEF job, Jobs
<1>6. QED
  BY <1>1, <1>2, <1>3, <1>4, <1>5

\* A job that ends is cleared, and no other job is touched.
LEMMA JobEndsEffect ==
    ASSUME TypeOK, NEW w \in Workers, NEW r \in Runs, JobEnds(w, r)
    PROVE  /\ jobs' \in [Workers -> [Runs -> Jobs]]
           /\ jobs'[w][r] = NoJob
           /\ \A v \in Workers, s \in Runs :
                 v # w \/ s # r => jobs'[v][s] = jobs[v][s]
<1>1. jobs \in [Workers -> [Runs -> Jobs]]
  BY DEF TypeOK
<1>2. NoJob \in Jobs
  BY DEF NoJob, Jobs, JobStates
<1>3. jobs' = [jobs EXCEPT ![w] = [jobs[w] EXCEPT ![r] = NoJob]]
  BY Zenon DEF JobEnds
<1>4. [jobs[w] EXCEPT ![r] = NoJob] \in [Runs -> Jobs]
  BY <1>1, <1>2
<1>5. QED
  BY <1>1, <1>2, <1>3, <1>4

\* Counting a fault and deleting a pod keep their variables well typed.
LEMMA SpendingTyped ==
    ASSUME NEW b \in Bounds
    PROVE  /\ [b EXCEPT !.stops = @ + 1] \in Bounds
           /\ [b EXCEPT !.lockLosses = @ + 1] \in Bounds
           /\ [b EXCEPT !.dbFaults = @ + 1] \in Bounds
           /\ [b EXCEPT !.loopFaults = @ + 1] \in Bounds
  BY DEF Bounds

\* Deleting a pod leaves no pod up that was not, and not that one.
LEMMA DeletedAtTyped ==
    ASSUME TypeOK, NEW p
    PROVE  /\ DeletedAt(p) \in [Pods -> {"absent", "up", "lost", "deleted"}]
           /\ \A q \in Pods : DeletedAt(p)[q] = "up" => pods[q] = "up"
           /\ p \in Pods => DeletedAt(p)[p] # "up"
  BY DEF TypeOK, DeletedAt

\* A failed upload leads to the deletion or to another attempt.
LEMMA AfterUploadFailureTyped ==
    ASSUME NEW w, NEW r
    PROVE  AfterUploadFailure(w, r) \in {"delete", "reschedule"}
  BY DEF AfterUploadFailure

\* The initial state is well typed.
LEMMA InitTyped == Init => TypeOK
  BY ConstantsAssumption
     DEF Init, TypeOK, NoRow, Rows, Statuses, NoJob, Jobs, JobStates, Bounds, Modes

\* The environment keeps the state well typed.
LEMMA EnvironmentTyped == TypeOK /\ Environment => TypeOK'
<1> SUFFICES ASSUME TypeOK, Environment PROVE TypeOK'
  OBVIOUS
<1> USE DEF runVars, outerVars, leaderVars, workVars, histVars
<1>1. ASSUME NEW r \in Runs, RequestTermination(r) PROVE TypeOK'
  BY <1>1, StatementsTyped DEF RequestTermination, TypeOK
<1>2. ASSUME NEW r \in Runs, PodReachable(r) PROVE TypeOK'
  BY <1>2 DEF PodReachable, TypeOK
<1>3. ASSUME NEW r \in Runs, LeaseLapses(r) PROVE TypeOK'
  <2>1. rows' \in [Runs -> Rows]
    <3>1. [rows[r] EXCEPT !.lease = "lapsed"] \in Rows
      BY DEF TypeOK, Rows
    <3>2. rows' = [rows EXCEPT ![r] = [rows[r] EXCEPT !.lease = "lapsed"]]
      BY <1>3, Zenon DEF LeaseLapses
    <3> QED BY <3>1, <3>2 DEF TypeOK
  <2>2. overran' \in [Runs -> BOOLEAN]
    BY <1>3, Zenon DEF LeaseLapses, TypeOK, Held
  <2> QED BY <1>3, <2>1, <2>2 DEF LeaseLapses, TypeOK
<1>4. ASSUME NEW p \in Pods, PodVanishes(p) PROVE TypeOK'
  BY <1>4 DEF PodVanishes, TypeOK
<1> QED BY <1>1, <1>2, <1>3, <1>4 DEF Environment

\* Every step of a job keeps the state well typed.
LEMMA JobStepTyped ==
    ASSUME TypeOK, NEW w \in Workers, NEW r \in Runs, JobStep(w, r)
    PROVE  TypeOK'
<1> USE DEF runVars, outerVars, leaderVars, workVars, histVars
<1>j. jobs[w][r] \in Jobs /\ rows[r] \in Rows /\ jobs[w][r].attempt \in Nat
  BY DEF TypeOK, Jobs
<1>1. CASE ReadRun(w, r)
  <2> DEFINE job == jobs[w][r]
             next == IF job.uploaded \/ job.attempt > MaxUploadAttempts THEN "delete"
                     ELSE IF reachable[r] THEN "upload"
                     ELSE AfterUploadFailure(w, r)
             read == [job EXCEPT !.pc = next, !.pod = podOf[r]]
  <2>1. next \in JobStates
    BY AfterUploadFailureTyped DEF JobStates
  <2> HIDE DEF next
  <2>2. read \in Jobs
    <3>1. podOf[r] \in Pods
      BY DEF TypeOK
    <3>2. [job EXCEPT !.pc = next] \in Jobs
      BY <1>j, <2>1 DEF Jobs
    <3>3. read = [[job EXCEPT !.pc = next] EXCEPT !.pod = podOf[r]]
      BY <1>j DEF Jobs
    <3> QED BY <3>1, <3>2, <3>3 DEF Jobs
  <2>3. jobs' = [jobs EXCEPT ![w] = [jobs[w] EXCEPT ![r] = read]]
    BY <1>1, Zenon DEF ReadRun, next
  <2> HIDE DEF read
  <2>4. [jobs[w] EXCEPT ![r] = read] \in [Runs -> Jobs]
    BY <2>2 DEF TypeOK
  <2>5. jobs' \in [Workers -> [Runs -> Jobs]]
    BY <2>3, <2>4 DEF TypeOK
  <2> QED BY <1>1, <2>5 DEF ReadRun, TypeOK
<1>2. CASE UploadReturns(w, r)
  BY <1>2, JobGoesEffect DEF UploadReturns, TypeOK, JobStates
<1>3. CASE UploadRaises(w, r)
  BY <1>3, JobGoesEffect, AfterUploadFailureTyped DEF UploadRaises, TypeOK, JobStates
<1>4. CASE StampUpload(w, r)
  BY <1>4, <1>j, JobGoesEffect, StatementsTyped DEF StampUpload, TypeOK, JobStates
<1>5. CASE Reschedule(w, r)
  BY <1>5, <1>j, JobGoesEffect, StatementsTyped DEF Reschedule, TypeOK, JobStates
<1>6. CASE DeleteAcknowledged(w, r)
  <2>1. pods' \in [Pods -> {"absent", "up", "lost", "deleted"}]
    BY <1>6, DeletedAtTyped DEF DeleteAcknowledged, TypeOK
  <2>2. jobs' \in [Workers -> [Runs -> Jobs]]
    BY <1>6, JobGoesEffect DEF DeleteAcknowledged, JobStates
  <2> QED BY <1>6, <2>1, <2>2 DEF DeleteAcknowledged, TypeOK
<1>7. CASE DeleteRefused(w, r)
  <2>1. pods' \in [Pods -> {"absent", "up", "lost", "deleted"}]
    BY <1>7, DeletedAtTyped DEF DeleteRefused, TypeOK
  <2>2. jobs' \in [Workers -> [Runs -> Jobs]]
    BY <1>7, JobGoesEffect DEF DeleteRefused, JobStates
  <2> QED BY <1>7, <2>1, <2>2 DEF DeleteRefused, TypeOK
<1>8. CASE DeleteUnanswered(w, r)
  <2>1. pods' \in [Pods -> {"absent", "up", "lost", "deleted"}]
    BY <1>8, DeletedAtTyped DEF DeleteUnanswered, TypeOK
  <2>2. jobs' \in [Workers -> [Runs -> Jobs]]
    BY <1>8, JobGoesEffect DEF DeleteUnanswered, JobStates
  <2> QED BY <1>8, <2>1, <2>2 DEF DeleteUnanswered, TypeOK
<1>9. CASE StampGone(w, r)
  BY <1>9, <1>j, JobGoesEffect, StatementsTyped DEF StampGone, TypeOK, JobStates
<1>10. CASE Finish(w, r)
  BY <1>10, <1>j, JobGoesEffect, StatementsTyped DEF Finish, TypeOK, JobStates
<1>11. CASE GiveUp(w, r)
  BY <1>11, <1>j, JobGoesEffect, StatementsTyped DEF GiveUp, TypeOK, JobStates
<1>12. CASE Reread(w, r)
  BY <1>12, JobGoesEffect, JobEndsEffect DEF Reread, TypeOK, JobStates
<1>13. CASE SettleBilling(w, r)
  <2>1. settled[r] \in 0..2
    BY DEF TypeOK
  <2>2. (IF settled[r] = 2 THEN 2 ELSE settled[r] + 1) \in 0..2
    BY <2>1
  <2>3. settled' \in [Runs -> 0..2]
    BY <1>13, <2>2 DEF SettleBilling, TypeOK
  <2> QED BY <1>13, <2>3, JobEndsEffect DEF SettleBilling, TypeOK
<1>14. CASE Rescue(w, r)
  <2>1. rows' \in [Runs -> Rows]
    BY <1>14, <1>j, StatementsTyped DEF Rescue, TypeOK
  <2>2. overran' \in [Runs -> BOOLEAN]
    BY <1>14, Zenon DEF Rescue, TypeOK, HeldElsewhere
  <2> QED BY <1>14, <2>1, <2>2, JobGoesEffect DEF Rescue, TypeOK, JobStates
<1> QED BY <1>1, <1>2, <1>3, <1>4, <1>5, <1>6, <1>7, <1>8, <1>9, <1>10,
           <1>11, <1>12, <1>13, <1>14 DEF JobStep

\* Every other step of a process keeps the state well typed.
LEMMA WorkerStepTyped ==
    ASSUME TypeOK, NEW w \in Workers, WorkerStep(w)
    PROVE  TypeOK'
<1> USE DEF runVars, outerVars, leaderVars, workVars, histVars
<1>1. CASE Elect(w)
  BY <1>1 DEF Elect, TypeOK, Modes
<1>2. CASE ResetLeases(w)
  <2>1. rows' \in [Runs -> Rows]
    <3>1. \A r \in Runs : [rows[r] EXCEPT !.status = "requested",
                                          !.lease = "none"] \in Rows
      BY DEF TypeOK, Rows, Statuses
    <3> QED BY <1>2, <3>1 DEF ResetLeases, TypeOK
  <2>2. overran' \in [Runs -> BOOLEAN]
    BY <1>2, Zenon DEF ResetLeases, TypeOK, OtherLeader
  <2> QED BY <1>2, <2>1, <2>2 DEF ResetLeases, TypeOK, Modes
<1>3. CASE ResetFails(w)
  BY <1>3, SpendingTyped DEF ResetFails, TypeOK, Modes
<1>4. CASE ClaimFails(w)
  BY <1>4, SpendingTyped DEF ClaimFails, TypeOK, Modes
<1>5. CASE StopWorker(w)
  <2>1. NoJob \in Jobs
    BY DEF NoJob, Jobs, JobStates
  <2>2. [r \in Runs |-> NoJob] \in [Runs -> Jobs]
    BY <2>1
  <2>3. jobs' \in [Workers -> [Runs -> Jobs]]
    BY <1>5, <2>2 DEF StopWorker, TypeOK
  <2>4. queue' \in [Workers -> Seq(Snapshots)]
    BY <1>5 DEF StopWorker, TypeOK
  <2>5. lock' \in Workers \cup {NoWorker}
    BY <1>5 DEF StopWorker, TypeOK
  <2> QED BY <1>5, <2>3, <2>4, <2>5, SpendingTyped DEF StopWorker, TypeOK, Modes
<1>6. CASE LoseLock(w)
  BY <1>6, SpendingTyped DEF LoseLock, TypeOK
<1>7. CASE Dispatch(w)
  <2> DEFINE snap == Head(queue[w])
  <2>1. queue[w] \in Seq(Snapshots) /\ queue[w] # <<>>
    BY <1>7 DEF Dispatch, TypeOK
  <2>2. snap \in Snapshots /\ Tail(queue[w]) \in Seq(Snapshots)
    BY <2>1
  <2>3. snap.run \in Runs /\ StartedJob(snap) \in Jobs
    BY <2>2 DEF Snapshots, StartedJob, Jobs, JobStates
  <2>4. jobs' = IF jobs[w][snap.run].pc = "idle"
                THEN [jobs EXCEPT ![w] = [jobs[w] EXCEPT ![snap.run] =
                                                         StartedJob(snap)]]
                ELSE jobs
    BY <1>7, Zenon DEF Dispatch
  <2>5. [jobs[w] EXCEPT ![snap.run] = StartedJob(snap)] \in [Runs -> Jobs]
    BY <2>3 DEF TypeOK
  <2>6. jobs' \in [Workers -> [Runs -> Jobs]]
    BY <2>4, <2>5 DEF TypeOK
  <2>7. queue' \in [Workers -> Seq(Snapshots)]
    BY <1>7, <2>2 DEF Dispatch, TypeOK
  <2> QED BY <1>7, <2>6, <2>7 DEF Dispatch, TypeOK
<1>8. ASSUME NEW r \in Runs, Claim(w, r) PROVE TypeOK'
  <2>1. [run |-> r, attempts |-> rows[r].attempts,
         uploaded |-> rows[r].uploaded] \in Snapshots
    BY DEF TypeOK, Rows, Snapshots
  <2>2. queue' \in [Workers -> Seq(Snapshots)]
    BY <1>8, <2>1 DEF Claim, TypeOK
  <2>3. rows' \in [Runs -> Rows]
    BY <1>8, StatementsTyped DEF Claim, TypeOK
  <2> QED BY <1>8, <2>2, <2>3 DEF Claim, TypeOK
<1>9. ASSUME NEW r \in Runs, EnterSemaphore(w, r) PROVE TypeOK'
  BY <1>9, JobGoesEffect DEF EnterSemaphore, TypeOK, JobStates
<1>10. ASSUME NEW r \in Runs, JobStep(w, r) PROVE TypeOK'
  BY <1>10, JobStepTyped
<1>11. ASSUME NEW r \in Runs, DbFault(w, r) PROVE TypeOK'
  <2>1. jobs' \in [Workers -> [Runs -> Jobs]]
    BY <1>11, JobGoesEffect, JobEndsEffect, AfterUploadFailureTyped
       DEF DbFault, JobStates
  <2> QED BY <1>11, <2>1, SpendingTyped DEF DbFault, TypeOK
<1> QED BY <1>1, <1>2, <1>3, <1>4, <1>5, <1>6, <1>7, <1>8, <1>9, <1>10, <1>11
        DEF WorkerStep

\* Every step keeps the state well typed.
LEMMA StepTyped == TypeOK /\ [Next]_vars => TypeOK'
<1> SUFFICES ASSUME TypeOK, [Next]_vars PROVE TypeOK'
  OBVIOUS
<1>1. CASE Environment
  BY <1>1, EnvironmentTyped
<1>2. ASSUME NEW w \in Workers, WorkerStep(w) PROVE TypeOK'
  BY <1>2, WorkerStepTyped
<1>3. CASE UNCHANGED vars
  BY <1>3 DEF vars, TypeOK
<1> QED BY <1>1, <1>2, <1>3 DEF Next

\* The state stays well typed, in any number of processes and runs.
THEOREM TypeCorrect == Spec => []TypeOK
  BY InitTyped, StepTyped, PTL DEF Spec

-----------------------------------------------------------------------------
(* The deletion stamp.  The stamp and the verdict are written by different  *)
(* steps of a job, after an answer of RunPod that names a pod read earlier; *)
(* the invariant says what a job knows at each of those steps.              *)

\* The row's stamp against the pod, its verdict and payment against the stamp.
RunFiled(r) ==
    /\ rows[r].podGone => pods[podOf[r]] # "up"
    /\ rows[r].status = "terminated" => rows[r].podGone
    /\ settled[r] > 0 => rows[r].podGone

\* What a job of the run has established by the time it gets to each step.
JobFiled(w, r) ==
    /\ jobs[w][r].pc \in {"upload", "stamp_upload", "delete"} =>
          jobs[w][r].pod = podOf[r]
    /\ jobs[w][r].pc = "stamp_gone" => pods[podOf[r]] # "up"
    /\ jobs[w][r].pc \in {"finish", "reread_terminated", "bill"} =>
          rows[r].podGone

Filed == /\ \A r \in Runs : RunFiled(r)
         /\ \A w \in Workers, r \in Runs : JobFiled(w, r)

\* A step that leaves the jobs alone, clears no stamp, revives no pod and
\* closes and pays nothing keeps everything filed.
LEMMA QuietStep ==
    ASSUME TypeOK, Filed, podOf' = podOf,
           \A w \in Workers, r \in Runs :
              jobs'[w][r] = jobs[w][r] \/ jobs'[w][r].pc \in {"idle", "waiting"},
           \A r \in Runs : rows'[r].podGone = rows[r].podGone,
           \A r \in Runs : rows'[r].status = "terminated" =>
                              rows[r].status = "terminated",
           \A p \in Pods : pods'[p] = "up" => pods[p] = "up",
           settled' = settled
    PROVE  Filed'
<1>0. podOf \in [Runs -> Pods]
  BY DEF TypeOK
<1>1. ASSUME NEW r \in Runs PROVE RunFiled(r)'
  BY <1>0 DEF Filed, RunFiled
<1>2. ASSUME NEW w \in Workers, NEW r \in Runs PROVE JobFiled(w, r)'
  <2>1. JobFiled(w, r) /\ podOf[r] \in Pods
    BY <1>0 DEF Filed
  <2>2. CASE jobs'[w][r] = jobs[w][r]
    BY <2>1, <2>2 DEF JobFiled
  <2>3. CASE jobs'[w][r].pc \in {"idle", "waiting"}
    BY <2>3 DEF JobFiled
  <2> QED BY <2>2, <2>3
<1> QED BY <1>1, <1>2 DEF Filed

\* A job of run r moves: only this run and this job need a look.
LEMMA JobMoves ==
    ASSUME TypeOK, Filed, NEW w \in Workers, NEW r \in Runs, podOf' = podOf,
           \A v \in Workers, s \in Runs :
              v # w \/ s # r => jobs'[v][s] = jobs[v][s],
           \A s \in Runs \ {r} : rows'[s] = rows[s] /\ settled'[s] = settled[s],
           rows[r].podGone => rows'[r].podGone,
           \A p \in Pods : pods'[p] = "up" => pods[p] = "up",
           RunFiled(r)', JobFiled(w, r)'
    PROVE  Filed'
<1>0. podOf \in [Runs -> Pods]
  BY DEF TypeOK
<1>1. ASSUME NEW s \in Runs PROVE RunFiled(s)'
  <2>1. CASE s = r
    BY <2>1
  <2>2. CASE s # r
    BY <1>0, <2>2 DEF Filed, RunFiled
  <2> QED BY <2>1, <2>2
<1>2. ASSUME NEW v \in Workers, NEW s \in Runs PROVE JobFiled(v, s)'
  <2>1. CASE v = w /\ s = r
    BY <2>1
  <2>2. CASE v # w \/ s # r
    <3>1. jobs'[v][s] = jobs[v][s] /\ JobFiled(v, s) /\ podOf[s] \in Pods
      BY <1>0, <2>2 DEF Filed
    <3>2. rows[s].podGone => rows'[s].podGone
      OBVIOUS
    <3> QED BY <3>1, <3>2 DEF JobFiled
  <2> QED BY <2>1, <2>2
<1> QED BY <1>1, <1>2 DEF Filed

\* Every step of a job keeps Filed: the stamp is set only for a pod seen gone.
LEMMA JobStepFiled ==
    ASSUME TypeOK, Filed, NEW w \in Workers, NEW r \in Runs, JobStep(w, r)
    PROVE  Filed'
<1> USE DEF runVars, outerVars, leaderVars, workVars, histVars
<1>j. /\ jobs[w][r] \in Jobs /\ rows[r] \in Rows /\ jobs[w][r].attempt \in Nat
      /\ RunFiled(r) /\ JobFiled(w, r) /\ podOf[r] \in Pods
      /\ settled[r] \in 0..2
  BY DEF TypeOK, Jobs, Filed
<1>1. CASE ReadRun(w, r)
  <2> DEFINE job == jobs[w][r]
             next == IF job.uploaded \/ job.attempt > MaxUploadAttempts THEN "delete"
                     ELSE IF reachable[r] THEN "upload"
                     ELSE AfterUploadFailure(w, r)
             read == [job EXCEPT !.pc = next, !.pod = podOf[r]]
  <2>1. next \in {"delete", "upload", "reschedule"}
    BY AfterUploadFailureTyped
  <2> HIDE DEF next
  <2>2. read.pc \in {"delete", "upload", "reschedule"} /\ read.pod = podOf[r]
    BY <1>j, <2>1 DEF Jobs
  <2>3. jobs' = [jobs EXCEPT ![w] = [jobs[w] EXCEPT ![r] = read]]
    BY <1>1, Zenon DEF ReadRun, next
  <2> HIDE DEF read
  <2>4. /\ jobs'[w][r] = read
        /\ \A v \in Workers, s \in Runs :
              v # w \/ s # r => jobs'[v][s] = jobs[v][s]
    BY <2>3 DEF TypeOK
  <2>5. JobFiled(w, r)'
    BY <1>1, <2>2, <2>4 DEF ReadRun, JobFiled
  <2>6. RunFiled(r)'
    BY <1>1, <1>j DEF ReadRun, RunFiled
  <2> QED BY <1>1, <2>4, <2>5, <2>6, JobMoves DEF ReadRun
<1>2. CASE UploadReturns(w, r)
  <2>2. RunFiled(r)'
    BY <1>2, <1>j DEF UploadReturns, RunFiled
  <2>3. JobFiled(w, r)'
    BY <1>2, <1>j, JobGoesEffect
       DEF UploadReturns, JobAt, JobFiled, JobStates
  <2> QED BY <1>2, <2>2, <2>3, JobMoves, JobGoesEffect
          DEF UploadReturns, JobStates
<1>3. CASE UploadRaises(w, r)
  <2>2. RunFiled(r)'
    BY <1>3, <1>j DEF UploadRaises, RunFiled
  <2>3. JobFiled(w, r)'
    BY <1>3, <1>j, JobGoesEffect, AfterUploadFailureTyped
       DEF UploadRaises, JobAt, JobFiled, JobStates
  <2> QED BY <1>3, <2>2, <2>3, JobMoves, JobGoesEffect, AfterUploadFailureTyped
          DEF UploadRaises, JobStates
<1>4. CASE StampUpload(w, r)
  <2>1. /\ rows'[r] = ArtifactsStamped(rows[r])
        /\ \A s \in Runs \ {r} : rows'[s] = rows[s]
    BY <1>4 DEF StampUpload, TypeOK
  <2>2. /\ rows[r].podGone => rows'[r].podGone
        /\ RunFiled(r)'
    BY <1>4, <1>j, <2>1, StatementsKeepStamp
       DEF StampUpload, JobAt, RunFiled, JobFiled, ArtifactsStamped, Rows
  <2>3. JobFiled(w, r)'
    BY <1>4, <1>j, <2>1, JobGoesEffect, StatementsKeepStamp
       DEF StampUpload, JobAt, JobFiled, JobStates
  <2> QED BY <1>4, <2>1, <2>2, <2>3, JobMoves, JobGoesEffect
          DEF StampUpload, JobStates
<1>5. CASE Reschedule(w, r)
  <2>1. /\ rows'[r] = Rescheduled(rows[r], jobs[w][r].attempt)
        /\ \A s \in Runs \ {r} : rows'[s] = rows[s]
    BY <1>5 DEF Reschedule, TypeOK
  <2>2. /\ rows[r].podGone => rows'[r].podGone
        /\ RunFiled(r)'
    BY <1>5, <1>j, <2>1, StatementsKeepStamp
       DEF Reschedule, JobAt, RunFiled, JobFiled, Rescheduled, Rows
  <2>3. JobFiled(w, r)'
    BY <1>5, <1>j, <2>1, JobGoesEffect, StatementsKeepStamp
       DEF Reschedule, JobAt, JobFiled, JobStates
  <2> QED BY <1>5, <2>1, <2>2, <2>3, JobMoves, JobGoesEffect
          DEF Reschedule, JobStates
<1>6. CASE DeleteAcknowledged(w, r)
  <2>1. /\ \A p \in Pods : pods'[p] = "up" => pods[p] = "up"
        /\ pods'[podOf[r]] = "up" => pods[podOf[r]] = "up"
    BY <1>6, <1>j, DeletedAtTyped DEF DeleteAcknowledged
  <2>2. RunFiled(r)'
    BY <1>6, <1>j, <2>1 DEF DeleteAcknowledged, RunFiled
  <2>3. JobFiled(w, r)'
    BY <1>6, <1>j, <2>1, JobGoesEffect, DeletedAtTyped
       DEF DeleteAcknowledged, JobAt, JobFiled, JobStates
  <2> QED BY <1>6, <2>1, <2>2, <2>3, JobMoves, JobGoesEffect
          DEF DeleteAcknowledged, JobStates
<1>7. CASE DeleteRefused(w, r)
  <2>1. /\ \A p \in Pods : pods'[p] = "up" => pods[p] = "up"
        /\ pods'[podOf[r]] = "up" => pods[podOf[r]] = "up"
    BY <1>7, <1>j, DeletedAtTyped DEF DeleteRefused
  <2>2. RunFiled(r)'
    BY <1>7, <1>j, <2>1 DEF DeleteRefused, RunFiled
  <2>3. JobFiled(w, r)'
    BY <1>7, <1>j, <2>1, JobGoesEffect, DeletedAtTyped
       DEF DeleteRefused, JobAt, JobFiled, JobStates
  <2> QED BY <1>7, <2>1, <2>2, <2>3, JobMoves, JobGoesEffect
          DEF DeleteRefused, JobStates
<1>8. CASE DeleteUnanswered(w, r)
  <2>1. /\ \A p \in Pods : pods'[p] = "up" => pods[p] = "up"
        /\ pods'[podOf[r]] = "up" => pods[podOf[r]] = "up"
    BY <1>8, <1>j, DeletedAtTyped DEF DeleteUnanswered
  <2>2. RunFiled(r)'
    BY <1>8, <1>j, <2>1 DEF DeleteUnanswered, RunFiled
  <2>3. JobFiled(w, r)'
    BY <1>8, <1>j, <2>1, JobGoesEffect, DeletedAtTyped
       DEF DeleteUnanswered, JobAt, JobFiled, JobStates
  <2> QED BY <1>8, <2>1, <2>2, <2>3, JobMoves, JobGoesEffect
          DEF DeleteUnanswered, JobStates
<1>9. CASE StampGone(w, r)
  <2>1. /\ rows'[r] = PodStamped(rows[r])
        /\ \A s \in Runs \ {r} : rows'[s] = rows[s]
    BY <1>9 DEF StampGone, TypeOK
  <2>2. /\ rows[r].podGone => rows'[r].podGone
        /\ RunFiled(r)'
    BY <1>9, <1>j, <2>1, StatementsKeepStamp
       DEF StampGone, JobAt, RunFiled, JobFiled, PodStamped, Rows
  <2>3. JobFiled(w, r)'
    BY <1>9, <1>j, <2>1, JobGoesEffect, StatementsKeepStamp
       DEF StampGone, JobAt, JobFiled, JobStates
  <2> QED BY <1>9, <2>1, <2>2, <2>3, JobMoves, JobGoesEffect
          DEF StampGone, JobStates
<1>10. CASE Finish(w, r)
  <2>1. /\ rows'[r] = Terminated(rows[r], jobs[w][r].attempt)
        /\ \A s \in Runs \ {r} : rows'[s] = rows[s]
    BY <1>10 DEF Finish, TypeOK
  <2>2. /\ rows[r].podGone => rows'[r].podGone
        /\ RunFiled(r)'
    BY <1>10, <1>j, <2>1, StatementsKeepStamp
       DEF Finish, JobAt, RunFiled, JobFiled, Terminated, Rows
  <2>3. JobFiled(w, r)'
    BY <1>10, <1>j, <2>1, JobGoesEffect, StatementsKeepStamp
       DEF Finish, JobAt, JobFiled, JobStates
  <2> QED BY <1>10, <2>1, <2>2, <2>3, JobMoves, JobGoesEffect
          DEF Finish, JobStates
<1>11. CASE GiveUp(w, r)
  <2>1. /\ rows'[r] = GivenUp(rows[r], jobs[w][r].attempt)
        /\ \A s \in Runs \ {r} : rows'[s] = rows[s]
    BY <1>11 DEF GiveUp, TypeOK
  <2>2. /\ rows[r].podGone => rows'[r].podGone
        /\ RunFiled(r)'
    BY <1>11, <1>j, <2>1, StatementsKeepStamp
       DEF GiveUp, JobAt, RunFiled, JobFiled, GivenUp, Rows
  <2>3. JobFiled(w, r)'
    BY <1>11, <1>j, <2>1, JobGoesEffect, StatementsKeepStamp
       DEF GiveUp, JobAt, JobFiled, JobStates
  <2> QED BY <1>11, <2>1, <2>2, <2>3, JobMoves, JobGoesEffect
          DEF GiveUp, JobStates
<1>12. CASE Reread(w, r)
  <2>1. RunFiled(r)'
    BY <1>12, <1>j DEF Reread, RunFiled
  <2>2. JobFiled(w, r)'
    BY <1>12, <1>j, JobGoesEffect, JobEndsEffect
       DEF Reread, JobAt, JobFiled, JobStates, NoJob
  <2> QED BY <1>12, <2>1, <2>2, JobMoves, JobGoesEffect, JobEndsEffect
          DEF Reread, JobStates
<1>13. CASE SettleBilling(w, r)
  <2>1. \A s \in Runs \ {r} : settled'[s] = settled[s]
    BY <1>13 DEF SettleBilling, TypeOK
  <2>2. RunFiled(r)'
    BY <1>13, <1>j DEF SettleBilling, RunFiled, JobAt, JobFiled
  <2>3. JobFiled(w, r)'
    BY <1>13, JobEndsEffect DEF SettleBilling, JobFiled, NoJob
  <2> QED BY <1>13, <2>1, <2>2, <2>3, JobMoves, JobEndsEffect DEF SettleBilling
<1>14. CASE Rescue(w, r)
  <2>1. \A s \in Runs \ {r} : rows'[s] = rows[s]
    BY <1>14 DEF Rescue, TypeOK
  <2>2. \/ rows'[r] = GivenUp(rows[r], jobs[w][r].attempt)
        \/ rows'[r] = Rescheduled(rows[r], jobs[w][r].attempt)
    BY <1>14 DEF Rescue, TypeOK
  <2>3. rows'[r].podGone = rows[r].podGone /\ rows'[r].status # "terminated"
    BY <1>j, <2>2 DEF GivenUp, Rescheduled, Rows
  <2>4. RunFiled(r)'
    BY <1>14, <1>j, <2>3 DEF Rescue, RunFiled
  <2>5. JobFiled(w, r)'
    BY <1>14, JobGoesEffect DEF Rescue, JobFiled, JobStates
  <2> QED BY <1>14, <2>1, <2>3, <2>4, <2>5, JobMoves, JobGoesEffect
          DEF Rescue, JobStates
<1> QED BY <1>1, <1>2, <1>3, <1>4, <1>5, <1>6, <1>7, <1>8, <1>9, <1>10,
           <1>11, <1>12, <1>13, <1>14 DEF JobStep

\* Every step of the system keeps Filed.
LEMMA StepFiled == TypeOK /\ Filed /\ [Next]_vars => Filed'
<1> SUFFICES ASSUME TypeOK, Filed, [Next]_vars PROVE Filed'
  OBVIOUS
<1> USE DEF runVars, outerVars, leaderVars, workVars, histVars
<1>1. ASSUME NEW r \in Runs, RequestTermination(r) PROVE Filed'
  <2>1. \A s \in Runs : /\ rows'[s].podGone = rows[s].podGone
                        /\ rows'[s].status = "terminated" =>
                              rows[s].status = "terminated"
    BY <1>1, StatementsKeepStamp DEF RequestTermination, TypeOK, Enqueued, Rows
  <2> QED BY <1>1, <2>1, QuietStep DEF RequestTermination
<1>2. ASSUME NEW r \in Runs, PodReachable(r) PROVE Filed'
  BY <1>2, QuietStep DEF PodReachable
<1>3. ASSUME NEW r \in Runs, LeaseLapses(r) PROVE Filed'
  <2>1. rows' = [rows EXCEPT ![r] = [rows[r] EXCEPT !.lease = "lapsed"]]
    BY <1>3, Zenon DEF LeaseLapses
  <2>2. \A s \in Runs : /\ rows'[s].podGone = rows[s].podGone
                        /\ rows'[s].status = rows[s].status
    BY <2>1 DEF TypeOK, Rows
  <2> QED BY <1>3, <2>2, QuietStep DEF LeaseLapses
<1>4. ASSUME NEW p \in Pods, PodVanishes(p) PROVE Filed'
  <2>1. \A q \in Pods : pods'[q] = "up" => pods[q] = "up"
    BY <1>4 DEF PodVanishes, TypeOK
  <2> QED BY <1>4, <2>1, QuietStep DEF PodVanishes
<1>5. ASSUME NEW w \in Workers, WorkerStep(w) PROVE Filed'
  <2>1. CASE Elect(w)
    BY <2>1, QuietStep DEF Elect
  <2>2. CASE ResetLeases(w)
    <3>1. \A r \in Runs : /\ rows'[r].podGone = rows[r].podGone
                          /\ rows'[r].status = "terminated" =>
                                rows[r].status = "terminated"
      BY <2>2 DEF ResetLeases, TypeOK, Rows
    <3> QED BY <2>2, <3>1, QuietStep DEF ResetLeases
  <2>3. CASE ResetFails(w) \/ ClaimFails(w) \/ LoseLock(w)
    BY <2>3, QuietStep DEF ResetFails, ClaimFails, LoseLock
  <2>4. CASE StopWorker(w)
    <3>1. \A v \in Workers, r \in Runs :
             jobs'[v][r] = jobs[v][r] \/ jobs'[v][r].pc = "idle"
      BY <2>4 DEF StopWorker, TypeOK, NoJob
    <3> QED BY <2>4, <3>1, QuietStep DEF StopWorker
  <2>5. CASE Dispatch(w)
    <3> DEFINE snap == Head(queue[w])
    <3>1. snap.run \in Runs
      <4>1. queue[w] \in Seq(Snapshots) /\ queue[w] # <<>>
        BY <2>5 DEF Dispatch, TypeOK
      <4>2. snap \in Snapshots
        BY <4>1
      <4> QED BY <4>2 DEF Snapshots
    <3>2. jobs' = IF jobs[w][snap.run].pc = "idle"
                  THEN [jobs EXCEPT ![w] = [jobs[w] EXCEPT ![snap.run] =
                                                           StartedJob(snap)]]
                  ELSE jobs
      BY <2>5, Zenon DEF Dispatch
    <3>3. StartedJob(snap).pc = "waiting"
      BY DEF StartedJob
    <3>4. \A v \in Workers, r \in Runs :
             jobs'[v][r] = jobs[v][r] \/ jobs'[v][r].pc = "waiting"
      BY <3>1, <3>2, <3>3 DEF TypeOK
    <3> QED BY <2>5, <3>4, QuietStep DEF Dispatch
  <2>6. ASSUME NEW r \in Runs, Claim(w, r) PROVE Filed'
    <3>1. \A s \in Runs : /\ rows'[s].podGone = rows[s].podGone
                          /\ rows'[s].status = "terminated" =>
                                rows[s].status = "terminated"
      BY <2>6, StatementsKeepStamp DEF Claim, TypeOK, Claimed, Rows
    <3> QED BY <2>6, <3>1, QuietStep DEF Claim
  <2>7. ASSUME NEW r \in Runs, EnterSemaphore(w, r) PROVE Filed'
    <3>1. JobFiled(w, r)'
      BY <2>7, JobGoesEffect DEF EnterSemaphore, JobFiled, JobStates
    <3>2. RunFiled(r)'
      BY <2>7 DEF EnterSemaphore, Filed, RunFiled
    <3> QED BY <2>7, <3>1, <3>2, JobMoves, JobGoesEffect
            DEF EnterSemaphore, JobStates
  <2>8. ASSUME NEW r \in Runs, JobStep(w, r) PROVE Filed'
    BY <2>8, JobStepFiled
  <2>9. ASSUME NEW r \in Runs, DbFault(w, r) PROVE Filed'
    <3>1. JobFiled(w, r)'
      <4>1. jobs'[w][r].pc \in {"delete", "reschedule", "rescue", "idle"}
        BY <2>9, JobGoesEffect, JobEndsEffect, AfterUploadFailureTyped
           DEF DbFault, JobStates, NoJob
      <4>2. jobs'[w][r].pc = "delete" => jobs'[w][r].pod = podOf[r]
        BY <2>9, JobGoesEffect, JobEndsEffect, AfterUploadFailureTyped
           DEF DbFault, JobStates, NoJob, JobAt, Filed, JobFiled
      <4> QED BY <2>9, <4>1, <4>2 DEF DbFault, JobFiled
    <3>2. RunFiled(r)'
      BY <2>9 DEF DbFault, Filed, RunFiled
    <3> QED BY <2>9, <3>1, <3>2, JobMoves, JobGoesEffect, JobEndsEffect,
               AfterUploadFailureTyped DEF DbFault, JobStates
  <2> QED BY <1>5, <2>1, <2>2, <2>3, <2>4, <2>5, <2>6, <2>7, <2>8, <2>9
          DEF WorkerStep
<1>6. CASE UNCHANGED vars
  BY <1>6, QuietStep DEF vars
<1> QED BY <1>1, <1>2, <1>3, <1>4, <1>5, <1>6 DEF Next, Environment

\* No row is stamped and no job runs in the initial state.
LEMMA InitFiled == Init => Filed
  BY DEF Init, Filed, RunFiled, JobFiled, NoRow, NoJob

\* The deletion stamp is honest, a terminated or paid row carries it.
THEOREM StampIsHonest == Spec => [](PodStampIsHonest /\ TerminatedMeansGone)
<1>1. Spec => []Filed
  BY TypeCorrect, InitFiled, StepFiled, PTL DEF Spec
<1>2. Filed => PodStampIsHonest /\ TerminatedMeansGone
  BY DEF Filed, RunFiled, PodStampIsHonest, TerminatedMeansGone
<1> QED BY <1>1, <1>2, PTL

-----------------------------------------------------------------------------
(* Refinement: PodTermination implements the safety part of                 *)
(* TerminationContract.  Besides Filed it takes that every job and snapshot *)
(* stands for a row that exists, and that no two runs share a pod.          *)

Known == /\ \A r, s \in Runs : r # s => podOf[r] # podOf[s]
         /\ \A w \in Workers, r \in Runs :
               jobs[w][r].pc # "idle" => rows[r].status # "none"
         /\ \A w \in Workers : \A i \in DOMAIN queue[w] :
               rows[queue[w][i].run].status # "none"

\* Nothing is queued or running in the initial state.
LEMMA InitKnown == Init => Known
  BY DEF Init, Known, NoJob

\* A row once inserted stays: no statement takes it back to "none".
LEMMA RowsStay ==
    ASSUME TypeOK, [Next]_vars, NEW r \in Runs, rows[r].status # "none"
    PROVE  rows'[r].status # "none"
<1> USE DEF runVars, outerVars, leaderVars, workVars, histVars
<1>1. CASE UNCHANGED vars
  BY <1>1 DEF vars
<1>2. ASSUME NEW s \in Runs, RequestTermination(s) PROVE rows'[r].status # "none"
  BY <1>2 DEF RequestTermination, TypeOK, Enqueued, Rows
<1>3. ASSUME NEW s \in Runs, PodReachable(s) PROVE rows'[r].status # "none"
  BY <1>3 DEF PodReachable
<1>4. ASSUME NEW s \in Runs, LeaseLapses(s) PROVE rows'[r].status # "none"
  <2>1. rows' = [rows EXCEPT ![s] = [rows[s] EXCEPT !.lease = "lapsed"]]
    BY <1>4, Zenon DEF LeaseLapses
  <2> QED BY <2>1 DEF TypeOK, Rows
<1>5. ASSUME NEW p \in Pods, PodVanishes(p) PROVE rows'[r].status # "none"
  BY <1>5 DEF PodVanishes
<1>6. ASSUME NEW w \in Workers, WorkerStep(w) PROVE rows'[r].status # "none"
  <2>1. CASE \/ Elect(w) \/ ResetFails(w) \/ ClaimFails(w) \/ StopWorker(w)
             \/ LoseLock(w) \/ Dispatch(w)
    BY <2>1 DEF Elect, ResetFails, ClaimFails, StopWorker, LoseLock, Dispatch
  <2>2. CASE ResetLeases(w)
    BY <2>2 DEF ResetLeases, TypeOK, Rows
  <2>3. ASSUME NEW s \in Runs, Claim(w, s) PROVE rows'[r].status # "none"
    BY <2>3 DEF Claim, Claimed, TypeOK, Rows
  <2>4. ASSUME NEW s \in Runs, EnterSemaphore(w, s) \/ DbFault(w, s)
        PROVE  rows'[r].status # "none"
    BY <2>4 DEF EnterSemaphore, DbFault
  <2>5. ASSUME NEW s \in Runs, JobStep(w, s) PROVE rows'[r].status # "none"
    <3>0. jobs[w][s].attempt \in Nat
      BY DEF TypeOK, Jobs
    <3>1. CASE \/ ReadRun(w, s) \/ UploadReturns(w, s) \/ UploadRaises(w, s)
               \/ DeleteAcknowledged(w, s) \/ DeleteRefused(w, s)
               \/ DeleteUnanswered(w, s) \/ Reread(w, s) \/ SettleBilling(w, s)
      BY <3>1 DEF ReadRun, UploadReturns, UploadRaises, DeleteAcknowledged,
                  DeleteRefused, DeleteUnanswered, Reread, SettleBilling
    <3>2. CASE StampUpload(w, s)
      BY <3>2 DEF StampUpload, ArtifactsStamped, TypeOK, Rows
    <3>3. CASE Reschedule(w, s)
      BY <3>0, <3>3 DEF Reschedule, Rescheduled, TypeOK, Rows
    <3>4. CASE StampGone(w, s)
      BY <3>4 DEF StampGone, PodStamped, TypeOK, Rows
    <3>5. CASE Finish(w, s)
      BY <3>0, <3>5 DEF Finish, Terminated, TypeOK, Rows
    <3>6. CASE GiveUp(w, s)
      BY <3>0, <3>6 DEF GiveUp, GivenUp, TypeOK, Rows
    <3>7. CASE Rescue(w, s)
      BY <3>0, <3>7 DEF Rescue, GivenUp, Rescheduled, TypeOK, Rows
    <3> QED BY <2>5, <3>1, <3>2, <3>3, <3>4, <3>5, <3>6, <3>7 DEF JobStep
  <2> QED BY <1>6, <2>1, <2>2, <2>3, <2>4, <2>5 DEF WorkerStep
<1> QED BY <1>1, <1>2, <1>3, <1>4, <1>5, <1>6 DEF Next, Environment

\* Every step of the system keeps Known: rows are claimed only if they exist.
LEMMA StepKnown == TypeOK /\ Known /\ [Next]_vars => Known'
<1> SUFFICES ASSUME TypeOK, Known, [Next]_vars PROVE Known'
  OBVIOUS
<1> USE DEF runVars, outerVars, leaderVars, workVars, histVars
<1> DEFINE Quiet ==
             /\ podOf' = podOf
             /\ \A w \in Workers, r \in Runs :
                   jobs'[w][r].pc # "idle" => rows[r].status # "none"
             /\ \A w \in Workers : \A i \in DOMAIN queue'[w] :
                   /\ queue'[w][i].run \in Runs
                   /\ rows[queue'[w][i].run].status # "none"
<1>q. ASSUME Quiet PROVE Known'
  BY <1>q, RowsStay DEF Known
<1>r. \A w \in Workers : \A i \in DOMAIN queue[w] : queue[w][i].run \in Runs
  <2>1. \A w \in Workers : \A i \in DOMAIN queue[w] : queue[w][i] \in Snapshots
    BY DEF TypeOK
  <2> QED BY <2>1 DEF Snapshots
<1> HIDE DEF Quiet
<1>1. CASE UNCHANGED vars
  BY <1>1, <1>r, <1>q DEF vars, Known, Quiet
<1>2. CASE Environment
  BY <1>2, <1>r, <1>q DEF Environment, RequestTermination, PodReachable,
       LeaseLapses, PodVanishes, Known, Quiet
<1>3. ASSUME NEW w \in Workers, WorkerStep(w) PROVE Quiet
  <2>1. CASE \/ Elect(w) \/ ResetLeases(w) \/ ResetFails(w) \/ ClaimFails(w)
             \/ LoseLock(w)
    BY <2>1, <1>r DEF Elect, ResetLeases, ResetFails, ClaimFails, LoseLock,
                      Known, Quiet
  <2>2. CASE StopWorker(w)
    <3>1. \A v \in Workers, r \in Runs :
             jobs'[v][r] = jobs[v][r] \/ jobs'[v][r].pc = "idle"
      BY <2>2 DEF StopWorker, TypeOK, NoJob
    <3>2. \A v \in Workers : queue'[v] = queue[v] \/ queue'[v] = <<>>
      BY <2>2 DEF StopWorker, TypeOK
    <3> QED BY <2>2, <3>1, <3>2, <1>r DEF StopWorker, Known, Quiet
  <2>3. CASE Dispatch(w)
    <3> DEFINE snap == Head(queue[w])
    <3>1. /\ queue[w] \in Seq(Snapshots) /\ queue[w] # <<>>
      BY <2>3 DEF Dispatch, TypeOK
    <3>2. /\ snap.run \in Runs /\ rows[snap.run].status # "none"
      <4>1. 1 \in DOMAIN queue[w] /\ snap = queue[w][1]
        BY <3>1
      <4> QED BY <4>1, <1>r DEF Known
    <3>3. jobs' = IF jobs[w][snap.run].pc = "idle"
                  THEN [jobs EXCEPT ![w] = [jobs[w] EXCEPT ![snap.run] =
                                                           StartedJob(snap)]]
                  ELSE jobs
      BY <2>3, Zenon DEF Dispatch
    <3> HIDE DEF snap
    <3>4. \A v \in Workers, r \in Runs :
             jobs'[v][r] = jobs[v][r] \/ r = snap.run
      BY <3>2, <3>3 DEF TypeOK
    <3>5. \A i \in DOMAIN queue'[w] :
             i + 1 \in DOMAIN queue[w] /\ queue'[w][i] = queue[w][i + 1]
      <4>1. queue'[w] = Tail(queue[w])
        BY <2>3 DEF Dispatch, TypeOK
      <4> QED BY <3>1, <4>1
    <3>6. \A v \in Workers \ {w} : queue'[v] = queue[v]
      BY <2>3 DEF Dispatch, TypeOK
    <3> QED BY <2>3, <3>2, <3>4, <3>5, <3>6, <1>r DEF Dispatch, Known, Quiet
  <2>4. ASSUME NEW r \in Runs, Claim(w, r) PROVE Quiet
    <3> DEFINE snap == [run |-> r, attempts |-> rows[r].attempts,
                        uploaded |-> rows[r].uploaded]
    <3>1. rows[r].status # "none"
      BY <2>4 DEF Claim, Claimable
    <3>2. queue'[w] = Append(queue[w], snap)
      BY <2>4 DEF Claim, TypeOK
    <3>3. \A i \in DOMAIN queue'[w] :
             queue'[w][i].run = r \/ (i \in DOMAIN queue[w]
                                      /\ queue'[w][i] = queue[w][i])
      <4>1. queue[w] \in Seq(Snapshots)
        BY DEF TypeOK
      <4>2. snap \in Snapshots
        BY DEF TypeOK, Rows, Snapshots
      <4>3. snap.run = r
        OBVIOUS
      <4> HIDE DEF snap
      <4> QED BY <3>2, <4>1, <4>2, <4>3
    <3>4. \A v \in Workers \ {w} : queue'[v] = queue[v]
      BY <2>4 DEF Claim, TypeOK
    <3> HIDE DEF snap
    <3> QED BY <2>4, <3>1, <3>3, <3>4, <1>r DEF Claim, Known, Quiet
  <2>5. ASSUME NEW r \in Runs, EnterSemaphore(w, r) PROVE Quiet
    BY <2>5, <1>r, JobGoesEffect
       DEF EnterSemaphore, JobAt, JobStates, Known, Quiet
  <2>6. ASSUME NEW r \in Runs, JobStep(w, r) \/ DbFault(w, r) PROVE Quiet
    <3>1. jobs[w][r].pc # "idle"
      BY <2>6 DEF JobStep, DbFault, ReadRun, UploadReturns, UploadRaises,
           StampUpload, Reschedule, DeleteAcknowledged, DeleteRefused,
           DeleteUnanswered, StampGone, Finish, GiveUp, Reread, SettleBilling,
           Rescue, JobAt
    <3>2. podOf' = podOf /\ queue' = queue
      BY <2>6 DEF JobStep, DbFault, ReadRun, UploadReturns, UploadRaises,
           StampUpload, Reschedule, DeleteAcknowledged, DeleteRefused,
           DeleteUnanswered, StampGone, Finish, GiveUp, Reread, SettleBilling,
           Rescue
    <3>3. \E job : jobs' = [jobs EXCEPT ![w] = [jobs[w] EXCEPT ![r] = job]]
      BY <2>6, Zenon
         DEF JobStep, DbFault, ReadRun, UploadReturns, UploadRaises,
           StampUpload, Reschedule, DeleteAcknowledged, DeleteRefused,
           DeleteUnanswered, StampGone, Finish, GiveUp, Reread, SettleBilling,
           Rescue, JobGoes, JobEnds
    <3>4. \A v \in Workers, s \in Runs : jobs'[v][s] = jobs[v][s] \/ s = r
      BY <3>3 DEF TypeOK
    <3> QED BY <3>1, <3>2, <3>4, <1>r DEF Known, Quiet
  <2> QED BY <1>3, <2>1, <2>2, <2>3, <2>4, <2>5, <2>6 DEF WorkerStep
<1> QED BY <1>1, <1>2, <1>3, <1>q DEF Next

\* Steps that a requester cannot see.
LEMMA Unseen ==
    ASSUME podOf' = podOf, pods' = pods, settled' = settled,
           \A r \in Runs : /\ rows'[r].podGone = rows[r].podGone
                           /\ Verdict'[r] = Verdict[r]
    PROVE  UNCHANGED Contract!cvars
  BY DEF Contract!cvars, Verdict, PodUp, Stamped, Paid

\* A step that only moves the verdict of one run.
LEMMA OnlyVerdict ==
    ASSUME podOf' = podOf, pods' = pods, settled' = settled, NEW r \in Runs,
           rows'[r].podGone = rows[r].podGone,
           \A s \in Runs \ {r} : rows'[s] = rows[s]
    PROVE  /\ Verdict' = [Verdict EXCEPT ![r] = Verdict'[r]]
           /\ UNCHANGED <<PodUp, Stamped, Paid>>
  BY DEF Verdict, PodUp, Stamped, Paid

\* A step in which at most pods disappear, all of them the pod of run r.
LEMMA OnlyPod ==
    ASSUME TypeOK, Known, podOf' = podOf, rows' = rows, settled' = settled,
           NEW r \in Runs,
           \A p \in Pods \ {podOf[r]} : pods'[p] = pods[p],
           pods'[podOf[r]] = "up" => pods[podOf[r]] = "up"
    PROVE  \/ UNCHANGED Contract!cvars
           \/ Contract!Destroy(r)
<1>1. UNCHANGED <<Verdict, Stamped, Paid>>
  BY DEF Verdict, Stamped, Paid
<1>2. \A s \in Runs \ {r} : podOf[s] \in Pods \ {podOf[r]}
  BY DEF TypeOK, Known
<1>3. \A s \in Runs \ {r} : PodUp'[s] = PodUp[s]
  BY <1>2 DEF PodUp
<1>4. CASE pods'[podOf[r]] = "up"
  <2>1. \A s \in Runs : PodUp'[s] = PodUp[s]
    BY <1>3, <1>4 DEF PodUp
  <2>2. PodUp' = PodUp
    BY <2>1 DEF PodUp
  <2> QED BY <1>1, <2>2 DEF Contract!cvars
<1>5. CASE pods'[podOf[r]] # "up"
  <2>1. PodUp'[r] = FALSE
    BY <1>5 DEF PodUp
  <2>2. PodUp' = [PodUp EXCEPT ![r] = FALSE]
    BY <1>3, <2>1 DEF PodUp
  <2> QED BY <1>1, <2>2 DEF Contract!Destroy
<1> QED BY <1>4, <1>5

\* The steps of a job, one by one.
LEMMA JobStepRefines ==
    ASSUME TypeOK, Filed, Known, NEW w \in Workers, NEW r \in Runs, JobStep(w, r)
    PROVE  Contract!CNext \/ UNCHANGED Contract!cvars
<1> USE DEF runVars, outerVars, leaderVars, workVars, histVars
<1>j. /\ jobs[w][r] \in Jobs /\ rows[r] \in Rows /\ jobs[w][r].attempt \in Nat
      /\ podOf[r] \in Pods /\ JobFiled(w, r) /\ RunFiled(r)
  BY DEF TypeOK, Jobs, Filed
<1>k. jobs[w][r].pc # "idle" => rows[r].status # "none" /\ Verdict[r] # "none"
  BY DEF Known, Verdict
<1>1. CASE \/ ReadRun(w, r) \/ UploadReturns(w, r) \/ UploadRaises(w, r)
           \/ Reread(w, r)
  BY <1>1, Unseen DEF ReadRun, UploadReturns, UploadRaises, Reread, Verdict
<1>2. CASE StampUpload(w, r)
  <2>1. \A s \in Runs : /\ rows'[s].podGone = rows[s].podGone
                        /\ rows'[s].status = rows[s].status
    BY <1>2 DEF StampUpload, ArtifactsStamped, TypeOK, Rows
  <2> QED BY <1>2, <2>1, Unseen DEF StampUpload, Verdict
<1>3. CASE Reschedule(w, r)
  <2>1. /\ rows'[r].podGone = rows[r].podGone /\ rows'[r].status = "requested"
        /\ \A s \in Runs \ {r} : rows'[s] = rows[s]
    BY <1>3, <1>j DEF Reschedule, Rescheduled, TypeOK, Rows
  <2>2. Verdict'[r] = "open"
    BY <2>1 DEF Verdict
  <2>3. Contract!Open(r)
    BY <1>3, <2>1, <2>2, OnlyVerdict DEF Reschedule, Contract!Open
  <2> QED BY <2>3 DEF Contract!CNext
<1>4. CASE DeleteAcknowledged(w, r) \/ DeleteRefused(w, r) \/ DeleteUnanswered(w, r)
  <2>1. jobs[w][r].pod = podOf[r]
    BY <1>4, <1>j DEF DeleteAcknowledged, DeleteRefused, DeleteUnanswered,
                      JobAt, JobFiled
  <2>2. pods' = pods \/ pods' = DeletedAt(podOf[r])
    BY <1>4, <2>1 DEF DeleteAcknowledged, DeleteRefused, DeleteUnanswered
  <2>3. /\ \A p \in Pods \ {podOf[r]} : pods'[p] = pods[p]
        /\ pods'[podOf[r]] = "up" => pods[podOf[r]] = "up"
    BY <2>2, <1>j DEF DeletedAt, TypeOK
  <2>4. podOf' = podOf /\ rows' = rows /\ settled' = settled
    BY <1>4 DEF DeleteAcknowledged, DeleteRefused, DeleteUnanswered
  <2> QED BY <2>3, <2>4, OnlyPod DEF Contract!CNext
<1>5. CASE StampGone(w, r)
  <2>1. /\ rows'[r].podGone /\ rows'[r].status = rows[r].status
        /\ \A s \in Runs \ {r} : rows'[s] = rows[s]
    BY <1>5, <1>j DEF StampGone, PodStamped, TypeOK, Rows
  <2>2. ~PodUp[r]
    BY <1>5, <1>j DEF StampGone, JobAt, JobFiled, PodUp
  <2>3. Stamped' = [Stamped EXCEPT ![r] = TRUE]
    BY <2>1 DEF Stamped
  <2>4. UNCHANGED <<Verdict, PodUp, Paid>>
    BY <1>5, <2>1 DEF StampGone, Verdict, PodUp, Paid
  <2>5. Contract!Stamp(r)
    BY <2>2, <2>3, <2>4 DEF Contract!Stamp
  <2> QED BY <2>5 DEF Contract!CNext
<1>6. CASE Finish(w, r)
  <2>1. /\ rows'[r].podGone = rows[r].podGone /\ rows'[r].status = "terminated"
        /\ \A s \in Runs \ {r} : rows'[s] = rows[s]
    BY <1>6, <1>j DEF Finish, Terminated, TypeOK, Rows
  <2>2. Stamped[r] /\ Verdict[r] # "none"
    BY <1>6, <1>j, <1>k DEF Finish, JobAt, JobFiled, Stamped
  <2>3. Verdict'[r] = "terminated"
    BY <2>1 DEF Verdict
  <2>4. Contract!Close(r)
    BY <1>6, <2>1, <2>2, <2>3, OnlyVerdict DEF Finish, Contract!Close
  <2> QED BY <2>4 DEF Contract!CNext
<1>7. CASE GiveUp(w, r) \/ Rescue(w, r)
  <2>1. /\ rows'[r].podGone = rows[r].podGone
        /\ rows'[r].status \in {"failed", "requested"}
        /\ \A s \in Runs \ {r} : rows'[s] = rows[s]
    <3>1. /\ \/ rows'[r] = GivenUp(rows[r], jobs[w][r].attempt)
             \/ rows'[r] = Rescheduled(rows[r], jobs[w][r].attempt)
          /\ \A s \in Runs \ {r} : rows'[s] = rows[s]
      BY <1>7 DEF GiveUp, Rescue, TypeOK
    <3> QED BY <1>j, <3>1 DEF GivenUp, Rescheduled, Rows
  <2>2. Verdict[r] # "none"
    BY <1>7, <1>k DEF GiveUp, Rescue, JobAt
  <2>3. Verdict'[r] \in {"failed", "open"}
    BY <2>1 DEF Verdict
  <2>4. /\ Verdict' = [Verdict EXCEPT ![r] = Verdict'[r]]
        /\ UNCHANGED <<PodUp, Stamped, Paid>>
    BY <1>7, <2>1, OnlyVerdict DEF GiveUp, Rescue
  <2>5. Contract!Close(r) \/ Contract!Open(r)
    BY <2>2, <2>3, <2>4 DEF Contract!Close, Contract!Open
  <2> QED BY <2>5 DEF Contract!CNext
<1>8. CASE SettleBilling(w, r)
  <2>1. /\ settled'[r] > 0
        /\ \A s \in Runs \ {r} : settled'[s] = settled[s]
    <3>1. settled[r] \in 0..2
      BY DEF TypeOK
    <3> QED BY <1>8, <3>1 DEF SettleBilling, TypeOK
  <2>2. Paid' = [Paid EXCEPT ![r] = TRUE]
    BY <2>1 DEF Paid
  <2>3. UNCHANGED <<Verdict, PodUp, Stamped>>
    BY <1>8 DEF SettleBilling, Verdict, PodUp, Stamped
  <2>4. Stamped[r]
    BY <1>8, <1>j DEF SettleBilling, JobAt, JobFiled, Stamped
  <2>5. Contract!Pay(r)
    BY <2>2, <2>3, <2>4 DEF Contract!Pay
  <2> QED BY <2>5 DEF Contract!CNext
<1> QED BY <1>1, <1>2, <1>3, <1>4, <1>5, <1>6, <1>7, <1>8 DEF JobStep

\* Every step of the system is a step of the contract, or changes nothing it sees.
LEMMA StepRefines ==
    ASSUME TypeOK, Filed, Known, [Next]_vars
    PROVE  [Contract!CNext]_(Contract!cvars)
<1> USE DEF runVars, outerVars, leaderVars, workVars, histVars
<1>1. CASE UNCHANGED vars
  BY <1>1, Unseen DEF vars, Verdict
<1>2. ASSUME NEW r \in Runs, RequestTermination(r)
      PROVE  Contract!CNext \/ UNCHANGED Contract!cvars
  <2>1. /\ rows'[r].podGone = rows[r].podGone
        /\ rows'[r].status = rows[r].status \/ rows'[r].status = "requested"
        /\ \A s \in Runs \ {r} : rows'[s] = rows[s]
    BY <1>2 DEF RequestTermination, Enqueued, TypeOK, Rows
  <2>2. CASE rows'[r].status = rows[r].status
    BY <1>2, <2>1, <2>2, Unseen DEF RequestTermination, Verdict
  <2>3. CASE rows'[r].status = "requested"
    <3>1. Verdict'[r] = "open"
      BY <2>3 DEF Verdict
    <3>2. Contract!Open(r)
      BY <1>2, <2>1, <3>1, OnlyVerdict DEF RequestTermination, Contract!Open
    <3> QED BY <3>2 DEF Contract!CNext
  <2> QED BY <2>1, <2>2, <2>3
<1>3. ASSUME NEW r \in Runs, PodReachable(r) PROVE UNCHANGED Contract!cvars
  BY <1>3, Unseen DEF PodReachable, Verdict
<1>4. ASSUME NEW r \in Runs, LeaseLapses(r) PROVE UNCHANGED Contract!cvars
  <2>1. rows' = [rows EXCEPT ![r] = [rows[r] EXCEPT !.lease = "lapsed"]]
    BY <1>4, Zenon DEF LeaseLapses
  <2>2. \A s \in Runs : /\ rows'[s].podGone = rows[s].podGone
                        /\ rows'[s].status = rows[s].status
    BY <2>1 DEF TypeOK, Rows
  <2> QED BY <1>4, <2>2, Unseen DEF LeaseLapses, Verdict
<1>5. ASSUME NEW p \in Pods, PodVanishes(p)
      PROVE  Contract!CNext \/ UNCHANGED Contract!cvars
  <2>0. /\ pods'[p] = "lost" /\ \A q \in Pods \ {p} : pods'[q] = pods[q]
        /\ podOf' = podOf /\ rows' = rows /\ settled' = settled
    BY <1>5 DEF PodVanishes, TypeOK
  <2>1. CASE \E r \in Runs : podOf[r] = p
    BY <2>0, <2>1, OnlyPod DEF Contract!CNext
  <2>2. CASE ~ \E r \in Runs : podOf[r] = p
    <3>1. \A r \in Runs : pods'[podOf[r]] = pods[podOf[r]]
      BY <2>0, <2>2 DEF TypeOK
    <3> QED BY <2>0, <3>1 DEF Contract!cvars, Verdict, PodUp, Stamped, Paid
  <2> QED BY <2>1, <2>2
<1>6. ASSUME NEW w \in Workers, WorkerStep(w)
      PROVE  Contract!CNext \/ UNCHANGED Contract!cvars
  <2>1. CASE \/ Elect(w) \/ ResetFails(w) \/ ClaimFails(w) \/ StopWorker(w)
             \/ LoseLock(w) \/ Dispatch(w)
    BY <2>1, Unseen DEF Elect, ResetFails, ClaimFails, StopWorker, LoseLock,
                        Dispatch, Verdict
  <2>2. CASE ResetLeases(w)
    <3>1. \A r \in Runs :
             /\ rows'[r].podGone = rows[r].podGone
             /\ \/ rows'[r].status = rows[r].status
                \/ rows[r].status = "in_progress" /\ rows'[r].status = "requested"
      BY <2>2 DEF ResetLeases, TypeOK, Rows
    <3> QED BY <2>2, <3>1, Unseen DEF ResetLeases, Verdict
  <2>3. ASSUME NEW r \in Runs, Claim(w, r) PROVE UNCHANGED Contract!cvars
    <3>1. \A s \in Runs :
             /\ rows'[s].podGone = rows[s].podGone
             /\ \/ rows'[s].status = rows[s].status
                \/ /\ rows[s].status \in {"requested", "in_progress"}
                   /\ rows'[s].status = "in_progress"
      BY <2>3 DEF Claim, Claimable, Claimed, TypeOK, Rows
    <3> QED BY <2>3, <3>1, Unseen DEF Claim, Verdict
  <2>4. ASSUME NEW r \in Runs, EnterSemaphore(w, r) \/ DbFault(w, r)
        PROVE  UNCHANGED Contract!cvars
    BY <2>4, Unseen DEF EnterSemaphore, DbFault, Verdict
  <2>5. ASSUME NEW r \in Runs, JobStep(w, r)
        PROVE  Contract!CNext \/ UNCHANGED Contract!cvars
    BY <2>5, JobStepRefines
  <2> QED BY <1>6, <2>1, <2>2, <2>3, <2>4, <2>5 DEF WorkerStep
<1> QED BY <1>1, <1>2, <1>3, <1>4, <1>5, <1>6 DEF Next, Environment

\* The initial states are initial states of the contract.
LEMMA InitRefines == Init => Contract!CInit
<1> SUFFICES ASSUME Init PROVE Contract!CInit
  OBVIOUS
<1>1. \A r \in Runs : pods[podOf[r]] = "up"
  <2>1. podOf \in [Runs -> Pods]
    BY DEF Init
  <2> QED BY <2>1 DEF Init
<1>2. PodUp = [r \in Runs |-> TRUE]
  BY <1>1 DEF PodUp
<1>3. /\ Verdict = [r \in Runs |-> "none"]
      /\ Stamped = [r \in Runs |-> FALSE]
      /\ Paid = [r \in Runs |-> FALSE]
  <2>1. \A r \in Runs : rows[r] = NoRow /\ settled[r] = 0
    BY DEF Init
  <2>2. NoRow.status = "none" /\ NoRow.podGone = FALSE
    BY DEF NoRow
  <2>3. \A r \in Runs : rows[r].status = "none" /\ ~rows[r].podGone
    BY <2>1, <2>2
  <2>4. Verdict = [r \in Runs |-> "none"]
    BY <2>3 DEF Verdict
  <2>5. Stamped = [r \in Runs |-> FALSE]
    BY <2>1, <2>2, Zenon DEF Stamped
  <2>6. Paid = [r \in Runs |-> FALSE]
    <3>1. \A r \in Runs : ~(settled[r] > 0)
      BY <2>1
    <3>2. \A r \in Runs : (settled[r] > 0) = FALSE
      BY <3>1
    <3> QED BY <3>2, Zenon DEF Paid
  <2> QED BY <2>4, <2>5, <2>6
<1> QED BY <1>2, <1>3 DEF Contract!CInit

\* The service implements the contract of its requesters.
THEOREM ImplementsContract == Spec => HonoursContract
<1>1. Spec => []Filed
  BY TypeCorrect, InitFiled, StepFiled, PTL DEF Spec
<1>2. Spec => []Known
  BY TypeCorrect, InitKnown, StepKnown, PTL DEF Spec
<1> QED BY <1>1, <1>2, TypeCorrect, InitRefines, StepRefines, PTL
        DEF Spec, HonoursContract, Contract!CSafety

-----------------------------------------------------------------------------
(* Who holds a row.  A process that leads is the only one with jobs and      *)
(* snapshots, unless a leader that had lost its lock unknowingly went on,    *)
(* and then every row has overrun.  As long as a row has not, one job or one *)
(* snapshot at most is in charge of it, and the row is in progress for it.   *)

Leads(w) == mode[w] \in {"leading", "unfed"}

Led ==
    /\ \A w \in Workers : ~Leads(w) =>
          queue[w] = <<>> /\ \A r \in Runs : jobs[w][r].pc = "idle"
    /\ \A v, w \in Workers : v # w /\ Leads(v) /\ Leads(w) => \A r \in Runs : overran[r]

\* What a snapshot or a job believes of the upload is true, and a job that is to
\* delete the pod knows of the upload or is at its last attempt.
Uploaded ==
    /\ \A w \in Workers : \A i \in DOMAIN queue[w] :
          queue[w][i].uploaded => rows[queue[w][i].run].uploaded
    /\ \A w \in Workers, r \in Runs :
          /\ jobs[w][r].uploaded => rows[r].uploaded
          /\ jobs[w][r].pc = "delete" => rows[r].uploaded \/ LastAttempt(w, r)

\* The steps of a job before it gives the row back or closes it.
InHand == {"waiting", "read", "upload", "stamp_upload", "reschedule", "delete",
           "stamp_gone", "give_up", "finish"}

Closing == {"reread_terminated", "bill"}

JobOwns(w, r) ==
    /\ jobs[w][r].pc \in InHand =>
          /\ rows[r].status = "in_progress" /\ rows[r].lease = "live"
          /\ jobs[w][r].attempt = rows[r].attempts + 1
          /\ \A i \in DOMAIN queue[w] : queue[w][i].run # r
    /\ jobs[w][r].pc \in Closing => rows[r].status = "terminated"
    /\ jobs[w][r].pc # "idle" => rows[r].attempts <= jobs[w][r].attempt
    /\ settled[r] # 0 => jobs[w][r].pc = "idle"

SnapshotOwns(w, i, r) ==
    /\ rows[r].status = "in_progress" /\ rows[r].lease = "live"
    /\ rows[r].attempts = queue[w][i].attempts
    /\ \A j \in DOMAIN queue[w] : queue[w][j].run = r => j = i

Earned(r) == rows[r].uploaded \/ rows[r].attempts >= MaxUploadAttempts - 1

RunOwned(r) ==
    /\ \A w \in Workers : JobOwns(w, r)
    /\ \A w \in Workers : \A i \in DOMAIN queue[w] :
          queue[w][i].run = r => SnapshotOwns(w, i, r)
    /\ settled[r] # 0 => settled[r] = 1 /\ rows[r].status = "terminated"
    /\ pods[podOf[r]] = "deleted" => Earned(r)

Owned == \A r \in Runs : ~overran[r] => RunOwned(r)

\* What the statements write besides the stamp of the deletion ...
LEMMA StatementsWrite ==
    ASSUME NEW row \in Rows
    PROVE  /\ Enqueued(row).attempts = row.attempts /\ Enqueued(row).uploaded = row.uploaded
           /\ row.status \in {"in_progress", "terminated"} => Enqueued(row) = row
           /\ Claimed(row).status = "in_progress" /\ Claimed(row).lease = "live"
           /\ Claimed(row).attempts = row.attempts /\ Claimed(row).uploaded = row.uploaded
           /\ ArtifactsStamped(row).uploaded
           /\ ArtifactsStamped(row).attempts = row.attempts
           /\ ArtifactsStamped(row).status = row.status
           /\ ArtifactsStamped(row).lease = row.lease
           /\ PodStamped(row).attempts = row.attempts /\ PodStamped(row).uploaded = row.uploaded
           /\ PodStamped(row).status = row.status /\ PodStamped(row).lease = row.lease
  BY DEF Rows, Statuses, Enqueued, Claimed, ArtifactsStamped, PodStamped

\* ... and those that count the attempts.
LEMMA CountsWrite ==
    ASSUME NEW row \in Rows, NEW n \in Nat
    PROVE  /\ Rescheduled(row, n).attempts = n /\ Rescheduled(row, n).uploaded = row.uploaded
           /\ GivenUp(row, n).attempts = n /\ GivenUp(row, n).uploaded = row.uploaded
           /\ Terminated(row, n).status = "terminated"
           /\ Terminated(row, n).attempts = IF row.attempts > n THEN row.attempts ELSE n
           /\ Terminated(row, n).uploaded = row.uploaded
  BY DEF Rows, Rescheduled, GivenUp, Terminated

\* The first of the queue, and the rest of it.
LEMMA HeadAndTail ==
    ASSUME NEW q \in Seq(Snapshots), q # <<>>
    PROVE  /\ 1 \in DOMAIN q /\ Head(q) = q[1] /\ Head(q) \in Snapshots
           /\ \A i \in DOMAIN Tail(q) : i + 1 \in DOMAIN q /\ Tail(q)[i] = q[i + 1]
  OBVIOUS

\* A snapshot more at the end of the queue.
LEMMA OneMore ==
    ASSUME NEW q \in Seq(Snapshots), NEW snap \in Snapshots
    PROVE  \A i \in DOMAIN Append(q, snap) :
              \/ i \in DOMAIN q /\ Append(q, snap)[i] = q[i]
              \/ i = Len(q) + 1 /\ i \notin DOMAIN q /\ Append(q, snap)[i] = snap
  OBVIOUS

\* The job a dispatched snapshot starts.
LEMMA DispatchEffect ==
    ASSUME TypeOK, NEW w \in Workers, Dispatch(w)
    PROVE  LET snap == Head(queue[w]) IN
           /\ queue[w] # <<>> /\ queue[w] \in Seq(Snapshots) /\ snap \in Snapshots
           /\ queue' = [queue EXCEPT ![w] = Tail(queue[w])]
           /\ \/ jobs[w][snap.run].pc # "idle" /\ jobs' = jobs
              \/ /\ jobs[w][snap.run].pc = "idle"
                 /\ jobs'[w][snap.run] = StartedJob(snap)
                 /\ \A v \in Workers, s \in Runs :
                       v # w \/ s # snap.run => jobs'[v][s] = jobs[v][s]
<1> DEFINE snap == Head(queue[w])
<1>1. queue[w] # <<>> /\ queue[w] \in Seq(Snapshots) /\ jobs \in [Workers -> [Runs -> Jobs]]
  BY DEF Dispatch, TypeOK
<1>2. snap \in Snapshots /\ snap.run \in Runs
  BY <1>1, HeadAndTail DEF Snapshots
<1>3. CASE jobs[w][snap.run].pc = "idle"
  <2>1. jobs' = [jobs EXCEPT ![w] = [jobs[w] EXCEPT ![snap.run] = StartedJob(snap)]]
    BY <1>3, Zenon DEF Dispatch
  <2> QED BY <1>1, <1>2, <1>3, <2>1 DEF Dispatch
<1> QED BY <1>1, <1>2, <1>3 DEF Dispatch

\* What a job has read of the run's row.
LEMMA ReadRunEffect ==
    ASSUME TypeOK, NEW w \in Workers, NEW r \in Runs, ReadRun(w, r)
    PROVE  /\ jobs[w][r].pc = "read"
           /\ jobs'[w][r].pc \in {"delete", "upload", "reschedule"}
           /\ jobs'[w][r].pc = "delete" => jobs[w][r].uploaded \/ LastAttempt(w, r)
           /\ jobs'[w][r].attempt = jobs[w][r].attempt
           /\ jobs'[w][r].uploaded = jobs[w][r].uploaded
           /\ \A v \in Workers, s \in Runs :
                 v # w \/ s # r => jobs'[v][s] = jobs[v][s]
<1> DEFINE job  == jobs[w][r]
           next == IF job.uploaded \/ job.attempt > MaxUploadAttempts THEN "delete"
                   ELSE IF reachable[r] THEN "upload"
                   ELSE AfterUploadFailure(w, r)
           read == [job EXCEPT !.pc = next, !.pod = podOf[r]]
<1>1. jobs \in [Workers -> [Runs -> Jobs]] /\ job \in Jobs
  BY DEF TypeOK
<1>2. /\ next \in {"delete", "upload", "reschedule"}
      /\ next = "delete" => job.uploaded \/ LastAttempt(w, r)
  BY <1>1, ConstantsAssumption DEF AfterUploadFailure, LastAttempt, Jobs
<1>3. jobs' = [jobs EXCEPT ![w] = [jobs[w] EXCEPT ![r] = read]]
  BY Zenon DEF ReadRun
<1> HIDE DEF next
<1>4. read.pc = next /\ read.attempt = job.attempt /\ read.uploaded = job.uploaded
  BY <1>1 DEF Jobs
<1> HIDE DEF read
<1>5. /\ jobs'[w][r] = read
      /\ \A v \in Workers, s \in Runs : v # w \/ s # r => jobs'[v][s] = jobs[v][s]
  BY <1>1, <1>3
<1>6. jobs[w][r].pc = "read"
  BY DEF ReadRun, JobAt
<1> QED BY <1>2, <1>4, <1>5, <1>6

\* A row once given away counts as that.
LEMMA OverranStays ==
    ASSUME TypeOK, [Next]_vars, NEW r \in Runs, overran[r]
    PROVE  overran'[r]
<1>1. CASE \E s \in Runs : LeaseLapses(s)
  BY <1>1, Zenon DEF LeaseLapses, TypeOK
<1>2. CASE \E w \in Workers : ResetLeases(w)
  BY <1>2, Zenon DEF ResetLeases
<1>3. CASE \E w \in Workers, s \in Runs : Rescue(w, s)
  BY <1>3, Zenon DEF Rescue, TypeOK
<1>4. CASE overran' = overran
  BY <1>4
<1>5. CASE \E w \in Workers : WorkerStep(w) /\ ~ResetLeases(w)
  <2>1. PICK w \in Workers : WorkerStep(w) /\ ~ResetLeases(w)
    BY <1>5
  <2>2. CASE \E s \in Runs : JobStep(w, s) /\ ~Rescue(w, s)
    BY <1>4, <2>2 DEF JobStep, ReadRun, UploadReturns, UploadRaises, StampUpload, Reschedule,
       DeleteAcknowledged, DeleteRefused, DeleteUnanswered, StampGone, Finish, GiveUp, Reread,
       SettleBilling, histVars
  <2> QED
    BY <1>3, <1>4, <2>1, <2>2 DEF WorkerStep, Elect, ResetFails, ClaimFails, StopWorker, LoseLock,
       Dispatch, Claim, EnterSemaphore, DbFault, histVars
<1>6. CASE Environment \/ UNCHANGED vars
  BY <1>1, <1>4, <1>6 DEF Environment, RequestTermination, PodReachable, PodVanishes, histVars, vars
<1> QED BY <1>2, <1>5, <1>6 DEF Next

\* What a step of one job, its wait for the semaphore or a fault in it leaves alone.
LEMMA OtherJobsStay ==
    ASSUME TypeOK, NEW w \in Workers, NEW r \in Runs,
           JobStep(w, r) \/ DbFault(w, r) \/ EnterSemaphore(w, r)
    PROVE  /\ jobs[w][r].pc # "idle"
           /\ \A v \in Workers, s \in Runs : v # w \/ s # r => jobs'[v][s] = jobs[v][s]
           /\ \A s \in Runs : s # r => /\ rows'[s] = rows[s] /\ settled'[s] = settled[s]
                                       /\ overran'[s] = overran[s]
           /\ queue' = queue /\ podOf' = podOf /\ mode' = mode
<1> USE DEF runVars, outerVars, leaderVars, workVars, histVars, JobAt
<1>0. /\ jobs \in [Workers -> [Runs -> Jobs]] /\ rows \in [Runs -> Rows]
      /\ settled \in [Runs -> 0..2] /\ overran \in [Runs -> BOOLEAN]
  BY DEF TypeOK
<1>1. CASE ReadRun(w, r)
  BY <1>1, ReadRunEffect DEF ReadRun
<1>2. CASE (JobStep(w, r) /\ ~ReadRun(w, r)) \/ DbFault(w, r) \/ EnterSemaphore(w, r)
  <2>1. \/ JobEnds(w, r)
        \/ \E pc \in JobStates : JobGoes(w, r, pc)
    BY <1>2, AfterUploadFailureTyped DEF JobStep, DbFault, EnterSemaphore, UploadReturns,
       UploadRaises, StampUpload, Reschedule, DeleteAcknowledged, DeleteRefused, DeleteUnanswered,
       StampGone, Finish, GiveUp, Reread, SettleBilling, Rescue, JobStates
  <2>2. \A v \in Workers, s \in Runs : v # w \/ s # r => jobs'[v][s] = jobs[v][s]
    BY <2>1, JobGoesEffect, JobEndsEffect
  <2>3. /\ jobs[w][r].pc # "idle"
        /\ queue' = queue /\ podOf' = podOf /\ mode' = mode
    BY <1>2 DEF JobStep, DbFault, EnterSemaphore, UploadReturns, UploadRaises, StampUpload,
       Reschedule, DeleteAcknowledged, DeleteRefused, DeleteUnanswered, StampGone, Finish, GiveUp,
       Reread, SettleBilling, Rescue
  <2>4. \A s \in Runs : s # r => rows'[s] = rows[s] /\ settled'[s] = settled[s]
    BY <1>0, <1>2 DEF JobStep, DbFault, EnterSemaphore, UploadReturns, UploadRaises, StampUpload,
       Reschedule, DeleteAcknowledged, DeleteRefused, DeleteUnanswered, StampGone, Finish, GiveUp,
       Reread, SettleBilling, Rescue
  <2>5. \A s \in Runs : s # r => overran'[s] = overran[s]
    <3>1. CASE Rescue(w, r)
      BY <1>0, <3>1, Zenon DEF Rescue
    <3> QED
      BY <1>2, <3>1 DEF JobStep, DbFault, EnterSemaphore, UploadReturns, UploadRaises, StampUpload,
         Reschedule, DeleteAcknowledged, DeleteRefused, DeleteUnanswered, StampGone, Finish, GiveUp,
         Reread, SettleBilling
  <2> QED BY <2>2, <2>3, <2>4, <2>5
<1> QED BY <1>1, <1>2

\* Nothing is queued or running at first.
LEMMA InitLed == Init => Led /\ Uploaded /\ Owned
  BY ConstantsAssumption DEF Init, Led, Leads, Uploaded, LastAttempt, Owned, RunOwned, JobOwns,
     InHand, Closing, NoJob, NoRow, Known

\* Only a process that leads takes work on, and a second one that comes to lead
\* gives every row away.
LEMMA StepLed == TypeOK /\ Led /\ [Next]_vars => Led'
<1> SUFFICES ASSUME TypeOK, Led, [Next]_vars PROVE Led'
  OBVIOUS
<1> USE DEF runVars, outerVars, leaderVars, workVars, histVars
<1>o. \A r \in Runs : overran[r] => overran'[r]
  BY OverranStays
<1>f. ASSUME \A w \in Workers : Leads(w)' => Leads(w),
             \A w \in Workers : ~Leads(w) => queue'[w] = queue[w] /\ jobs'[w] = jobs[w],
             \A w \in Workers : Leads(w) /\ ~Leads(w)' =>
                queue'[w] = <<>> /\ \A r \in Runs : jobs'[w][r].pc = "idle"
      PROVE  Led'
  BY <1>f, <1>o DEF Led
<1>1. CASE Environment \/ UNCHANGED vars
  BY <1>1, <1>f DEF Environment, RequestTermination, PodReachable, PodVanishes, LeaseLapses, vars, Leads
<1>2. ASSUME NEW w \in Workers, WorkerStep(w) PROVE Led'
  <2>t. /\ mode \in [Workers -> Modes] /\ queue \in [Workers -> Seq(Snapshots)]
        /\ jobs \in [Workers -> [Runs -> Jobs]]
    BY DEF TypeOK
  <2>1. CASE Elect(w) \/ LoseLock(w)
    BY <1>f, <2>t, <2>1 DEF Elect, LoseLock, Leads
  <2>2. CASE ResetFails(w) \/ ClaimFails(w)
    BY <1>f, <2>t, <2>2 DEF ResetFails, ClaimFails, Leads
  <2>3. CASE StopWorker(w)
    <3>1. /\ \A v \in Workers : v # w => mode'[v] = mode[v] /\ queue'[v] = queue[v] /\ jobs'[v] = jobs[v]
          /\ mode'[w] = "standby" /\ queue'[w] = <<>> /\ jobs'[w] = [r \in Runs |-> NoJob]
      BY <2>t, <2>3 DEF StopWorker
    <3> QED BY <1>o, <3>1 DEF Leads, Led, NoJob
  <2>4. CASE ResetLeases(w)
    <3>1. \A v \in Workers : v # w /\ Leads(v) => \A r \in Runs : overran'[r]
      BY <2>4, Zenon DEF ResetLeases, OtherLeader, Leads
    <3>2. mode'[w] = "leading" /\ \A v \in Workers : v # w => mode'[v] = mode[v]
      BY <2>t, <2>4 DEF ResetLeases
    <3> QED BY <1>o, <2>4, <3>1, <3>2 DEF ResetLeases, Leads, Led
  <2>5. CASE Dispatch(w)
    <3>1. /\ queue[w] # <<>> /\ mode' = mode
          /\ \A v \in Workers : v # w => queue'[v] = queue[v] /\ jobs'[v] = jobs[v]
      BY <2>t, <2>5 DEF Dispatch
    <3> QED BY <1>f, <3>1 DEF Led, Leads
  <2>6. CASE \E r \in Runs : Claim(w, r)
    BY <1>f, <2>t, <2>6 DEF Claim, Leads
  <2>7. CASE \E r \in Runs : EnterSemaphore(w, r) \/ JobStep(w, r) \/ DbFault(w, r)
    <3>1. /\ queue' = queue /\ mode' = mode /\ Leads(w)
          /\ \A v \in Workers : v # w => \A r \in Runs : jobs'[v][r] = jobs[v][r]
      BY <2>7, OtherJobsStay DEF Led
    <3> QED BY <1>o, <3>1 DEF Led, Leads
  <2> QED BY <1>2, <2>1, <2>2, <2>3, <2>4, <2>5, <2>6, <2>7 DEF WorkerStep
<1> QED BY <1>1, <1>2 DEF Next

\* The stamp of the upload stays.
LEMMA UploadStays ==
    ASSUME TypeOK, [Next]_vars, NEW r \in Runs, rows[r].uploaded
    PROVE  rows'[r].uploaded
<1> USE DEF runVars, outerVars, leaderVars, workVars, histVars
<1>0. rows \in [Runs -> Rows] /\ jobs \in [Workers -> [Runs -> Jobs]]
  BY DEF TypeOK
<1>1. CASE \E s \in Runs : LeaseLapses(s)
  <2>1. PICK s \in Runs : rows' = [rows EXCEPT ![s] = [rows[s] EXCEPT !.lease = "lapsed"]]
    BY <1>1, Zenon DEF LeaseLapses
  <2> QED BY <1>0, <2>1 DEF Rows
<1>2. CASE \E w \in Workers : ResetLeases(w)
  <2>1. rows[r] \in Rows
    BY <1>0
  <2>2. \/ rows'[r] = rows[r]
        \/ rows'[r] = [rows[r] EXCEPT !.status = "requested", !.lease = "none"]
    BY <1>2 DEF ResetLeases
  <2> QED BY <2>1, <2>2 DEF Rows
<1>3. CASE \E s \in Runs : RequestTermination(s)
  <2>1. PICK s \in Runs : rows' = [rows EXCEPT ![s] = Enqueued(rows[s])]
    BY <1>3 DEF RequestTermination
  <2> QED BY <1>0, <2>1, StatementsWrite
<1>5. CASE \E w \in Workers, s \in Runs : Claim(w, s)
  <2>1. PICK s \in Runs : rows' = [rows EXCEPT ![s] = Claimed(rows[s])]
    BY <1>5 DEF Claim
  <2> QED BY <1>0, <2>1, StatementsWrite
<1>4. ASSUME NEW w \in Workers, NEW s \in Runs, JobStep(w, s) PROVE rows'[r].uploaded
  <2>0. rows[s] \in Rows /\ jobs[w][s].attempt \in Nat
    BY <1>0 DEF Jobs
  <2>1. CASE StampUpload(w, s) \/ Reschedule(w, s) \/ StampGone(w, s) \/ Finish(w, s)
             \/ GiveUp(w, s) \/ Rescue(w, s)
    BY <1>0, <2>0, <2>1, StatementsWrite, CountsWrite DEF StampUpload, Reschedule, StampGone, Finish, GiveUp, Rescue
  <2> QED
    BY <1>4, <2>1 DEF JobStep, ReadRun, UploadReturns, UploadRaises, DeleteAcknowledged,
       DeleteRefused, DeleteUnanswered, Reread, SettleBilling
<1> QED BY <1>1, <1>2, <1>3, <1>4, <1>5 DEF Next, Environment, WorkerStep, PodReachable, PodVanishes,
        Elect, ResetFails, ClaimFails, StopWorker, LoseLock, Dispatch, EnterSemaphore, DbFault, vars

\* Snapshots and jobs that know of the upload are right, and no job deletes a pod
\* before the upload is stamped or its attempts are used up.
LEMMA StepUploaded == TypeOK /\ Uploaded /\ [Next]_vars => Uploaded'
<1> SUFFICES ASSUME TypeOK, Uploaded, [Next]_vars PROVE Uploaded'
  OBVIOUS
<1> USE DEF runVars, outerVars, leaderVars, workVars, histVars
<1>0. /\ rows \in [Runs -> Rows] /\ jobs \in [Workers -> [Runs -> Jobs]]
      /\ queue \in [Workers -> Seq(Snapshots)] /\ queue' \in [Workers -> Seq(Snapshots)]
      /\ \A r \in Runs : rows[r].uploaded => rows'[r].uploaded
  BY StepTyped, UploadStays DEF TypeOK
\* Jobs that do not come to delete a pod, and snapshots that were there before.
<1>j. ASSUME NEW w \in Workers, NEW r \in Runs,
             jobs'[w][r].uploaded => jobs[w][r].uploaded,
             jobs'[w][r].attempt = jobs[w][r].attempt,
             jobs'[w][r].pc = "delete" =>
                jobs[w][r].pc = "delete" \/ jobs[w][r].uploaded \/ LastAttempt(w, r) \/ rows'[r].uploaded
      PROVE  /\ jobs'[w][r].uploaded => rows'[r].uploaded
             /\ jobs'[w][r].pc = "delete" => rows'[r].uploaded \/ LastAttempt(w, r)'
  BY <1>0, <1>j DEF Uploaded, LastAttempt
<1>q. ASSUME NEW w \in Workers, queue'[w] = queue[w] \/ queue'[w] = <<>>
      PROVE  \A i \in DOMAIN queue'[w] : queue'[w][i].uploaded => rows'[queue'[w][i].run].uploaded
  <2> SUFFICES ASSUME NEW i \in DOMAIN queue'[w], queue'[w] = queue[w], queue'[w][i].uploaded
               PROVE  rows'[queue'[w][i].run].uploaded
    BY <1>q
  <2>1. queue[w][i] \in Snapshots
    BY <1>0
  <2> QED BY <1>0, <2>1 DEF Uploaded, Snapshots
<1>e. ASSUME \A w \in Workers : queue'[w] = queue[w] \/ queue'[w] = <<>>,
             \A w \in Workers, r \in Runs : jobs'[w][r] = jobs[w][r] \/ jobs'[w][r] = NoJob
      PROVE  Uploaded'
  <2>1. ASSUME NEW w \in Workers, NEW r \in Runs
        PROVE  /\ jobs'[w][r].uploaded => rows'[r].uploaded
               /\ jobs'[w][r].pc = "delete" => rows'[r].uploaded \/ LastAttempt(w, r)'
    <3>1. CASE jobs'[w][r] = jobs[w][r]
      BY <1>j, <3>1
    <3>2. CASE jobs'[w][r] = NoJob
      BY <3>2 DEF NoJob
    <3> QED BY <1>e, <3>1, <3>2
  <2> QED BY <1>e, <1>q, <2>1 DEF Uploaded
<1>1. CASE Environment \/ UNCHANGED vars
  BY <1>1, <1>e DEF Environment, RequestTermination, PodReachable, PodVanishes, LeaseLapses, vars
<1>2. ASSUME NEW w \in Workers, WorkerStep(w) PROVE Uploaded'
  <2>1. CASE Elect(w) \/ LoseLock(w) \/ ResetLeases(w) \/ ResetFails(w) \/ ClaimFails(w)
    BY <1>e, <2>1 DEF Elect, LoseLock, ResetLeases, ResetFails, ClaimFails
  <2>2. CASE StopWorker(w)
    BY <1>0, <1>e, <2>2 DEF StopWorker
  <2>3. CASE Dispatch(w)
    <3> DEFINE snap == Head(queue[w])
    <3>1. /\ queue[w] # <<>> /\ queue[w] \in Seq(Snapshots) /\ snap \in Snapshots
          /\ queue' = [queue EXCEPT ![w] = Tail(queue[w])]
          /\ \/ jobs[w][snap.run].pc # "idle" /\ jobs' = jobs
             \/ /\ jobs[w][snap.run].pc = "idle"
                /\ jobs'[w][snap.run] = StartedJob(snap)
                /\ \A v \in Workers, s \in Runs :
                      v # w \/ s # snap.run => jobs'[v][s] = jobs[v][s]
      BY <2>3, DispatchEffect
    <3>2. snap.uploaded => rows'[snap.run].uploaded
      BY <1>0, <3>1, HeadAndTail DEF Uploaded, Snapshots
    <3>3. ASSUME NEW v \in Workers
          PROVE  \A i \in DOMAIN queue'[v] : queue'[v][i].uploaded => rows'[queue'[v][i].run].uploaded
      <4>1. CASE v # w
        BY <1>0, <1>q, <3>1, <4>1
      <4>2. CASE v = w
        <5> SUFFICES ASSUME NEW i \in DOMAIN Tail(queue[w]), Tail(queue[w])[i].uploaded
                     PROVE  rows'[Tail(queue[w])[i].run].uploaded
          BY <1>0, <3>1, <4>2
        <5>1. i + 1 \in DOMAIN queue[w] /\ Tail(queue[w])[i] = queue[w][i + 1]
          BY <3>1, HeadAndTail
        <5>2. queue[w][i + 1] \in Snapshots
          BY <3>1, <5>1
        <5> QED BY <1>0, <5>1, <5>2 DEF Uploaded, Snapshots
      <4> QED BY <4>1, <4>2
    <3>4. ASSUME NEW v \in Workers, NEW r \in Runs
          PROVE  /\ jobs'[v][r].uploaded => rows'[r].uploaded
                 /\ jobs'[v][r].pc = "delete" => rows'[r].uploaded \/ LastAttempt(v, r)'
      <4>1. CASE jobs'[v][r] = jobs[v][r]
        BY <1>j, <4>1
      <4>2. CASE v = w /\ r = snap.run /\ jobs'[v][r] = StartedJob(snap)
        BY <3>2, <4>2 DEF StartedJob
      <4> QED BY <3>1, <4>1, <4>2
    <3> QED BY <3>3, <3>4 DEF Uploaded
  <2>4. ASSUME NEW s \in Runs, Claim(w, s) PROVE Uploaded'
    <3> DEFINE snap == [run |-> s, attempts |-> rows[s].attempts, uploaded |-> rows[s].uploaded]
    <3>1. snap \in Snapshots /\ snap.run = s /\ snap.uploaded = rows[s].uploaded
      BY <1>0 DEF Snapshots, Rows
    <3>2. queue' = [queue EXCEPT ![w] = Append(queue[w], snap)] /\ jobs' = jobs
      BY <2>4 DEF Claim
    <3> HIDE DEF snap
    <3>3. ASSUME NEW v \in Workers
          PROVE  \A i \in DOMAIN queue'[v] : queue'[v][i].uploaded => rows'[queue'[v][i].run].uploaded
      <4>1. CASE v # w
        BY <1>0, <1>q, <3>2, <4>1
      <4>2. CASE v = w
        <5> SUFFICES ASSUME NEW i \in DOMAIN Append(queue[w], snap), Append(queue[w], snap)[i].uploaded
                     PROVE  rows'[Append(queue[w], snap)[i].run].uploaded
          BY <1>0, <3>2, <4>2
        <5>1. CASE Append(queue[w], snap)[i] = snap
          BY <1>0, <3>1, <5>1
        <5>2. CASE i \in DOMAIN queue[w] /\ Append(queue[w], snap)[i] = queue[w][i]
          <6>1. queue[w][i] \in Snapshots
            BY <1>0, <5>2
          <6> QED BY <1>0, <5>2, <6>1 DEF Uploaded, Snapshots
        <5> QED BY <1>0, <3>1, <5>1, <5>2, OneMore
      <4> QED BY <4>1, <4>2
    <3> QED BY <1>j, <3>2, <3>3 DEF Uploaded
  <2>5. ASSUME NEW s \in Runs, EnterSemaphore(w, s) \/ JobStep(w, s) \/ DbFault(w, s)
        PROVE  Uploaded'
    <3>1. /\ \A v \in Workers, r \in Runs : v # w \/ r # s => jobs'[v][r] = jobs[v][r]
          /\ queue' = queue
      BY <2>5, OtherJobsStay
    <3>2. \/ jobs'[w][s] = NoJob
          \/ /\ jobs'[w][s].uploaded = jobs[w][s].uploaded /\ jobs'[w][s].attempt = jobs[w][s].attempt
             /\ jobs'[w][s].pc = "delete" =>
                  jobs[w][s].pc = "delete" \/ jobs[w][s].uploaded \/ LastAttempt(w, s) \/ rows'[s].uploaded
      <4>1. CASE ReadRun(w, s)
        BY <4>1, ReadRunEffect
      <4>2. CASE StampUpload(w, s)
        <5>1. rows' = [rows EXCEPT ![s] = ArtifactsStamped(rows[s])] /\ JobGoes(w, s, "delete")
          BY <4>2 DEF StampUpload
        <5>2. rows'[s].uploaded
          BY <1>0, <5>1 DEF ArtifactsStamped, Rows
        <5> QED BY <5>1, <5>2, JobGoesEffect DEF JobStates
      <4>3. CASE UploadRaises(w, s) \/ DbFault(w, s)
        <5>1. \/ JobEnds(w, s) \/ JobGoes(w, s, AfterUploadFailure(w, s)) \/ JobGoes(w, s, "rescue")
          BY <4>3 DEF UploadRaises, DbFault
        <5>2. /\ AfterUploadFailure(w, s) \in JobStates /\ "rescue" \in JobStates
              /\ AfterUploadFailure(w, s) = "delete" => LastAttempt(w, s)
          BY DEF AfterUploadFailure, JobStates
        <5> QED BY <5>1, <5>2, JobGoesEffect, JobEndsEffect
      <4>4. CASE \/ /\ JobStep(w, s) /\ ~ReadRun(w, s) /\ ~StampUpload(w, s)
                    /\ ~UploadRaises(w, s)
                 \/ EnterSemaphore(w, s)
        <5>1. JobEnds(w, s) \/ \E pc \in JobStates \ {"delete"} : JobGoes(w, s, pc)
          BY <4>4 DEF JobStep, EnterSemaphore, UploadReturns, Reschedule, DeleteAcknowledged,
             DeleteRefused, DeleteUnanswered, StampGone, Finish, GiveUp, Reread, SettleBilling,
             Rescue, JobStates
        <5> QED BY <5>1, JobGoesEffect, JobEndsEffect
      <4> QED BY <2>5, <4>1, <4>2, <4>3, <4>4
    <3>3. ASSUME NEW v \in Workers, NEW r \in Runs
          PROVE  /\ jobs'[v][r].uploaded => rows'[r].uploaded
                 /\ jobs'[v][r].pc = "delete" => rows'[r].uploaded \/ LastAttempt(v, r)'
      <4>1. CASE jobs'[v][r] = jobs[v][r]
        BY <1>j, <4>1
      <4>2. CASE v = w /\ r = s
        BY <1>j, <3>2, <4>2 DEF NoJob
      <4> QED BY <3>1, <4>1, <4>2
    <3> QED BY <1>q, <3>1, <3>3 DEF Uploaded
  <2> QED BY <1>2, <2>1, <2>2, <2>3, <2>4, <2>5 DEF WorkerStep
<1> QED BY <1>1, <1>2 DEF Next

\* The queue of w is, at most, shorter by its first snapshots.
Drops(w) == \E k \in Nat : \A i \in DOMAIN queue'[w] :
                i + k \in DOMAIN queue[w] /\ queue'[w][i] = queue[w][i + k]

\* Whoever is in charge of a row may go on without giving it back, drop it or end.
LEMMA RunKept ==
    ASSUME TypeOK, TypeOK', NEW r \in Runs, RunOwned(r),
           rows'[r].attempts = rows[r].attempts, rows[r].uploaded => rows'[r].uploaded,
           rows[r].status \in {"in_progress", "terminated"} =>
              rows'[r].status = rows[r].status /\ rows'[r].lease = rows[r].lease,
           settled'[r] = settled[r], podOf' = podOf,
           pods'[podOf[r]] = "deleted" => pods[podOf[r]] = "deleted" \/ Earned(r)',
           \A w \in Workers : Drops(w),
           \A w \in Workers :
              \/ jobs'[w][r].pc = "idle"
              \/ /\ jobs'[w][r].attempt = jobs[w][r].attempt /\ jobs[w][r].pc # "idle"
                 /\ jobs'[w][r].pc \in InHand => jobs[w][r].pc \in InHand
                 /\ jobs'[w][r].pc \in Closing => jobs[w][r].pc \in Closing
    PROVE  RunOwned(r)'
<1>1. ASSUME NEW w \in Workers, NEW i \in DOMAIN queue'[w], queue'[w][i].run = r
      PROVE  /\ SnapshotOwns(w, i, r)'
             /\ \E j \in DOMAIN queue[w] : queue[w][j].run = r
  <2>1. PICK k \in Nat : \A j \in DOMAIN queue'[w] :
                j + k \in DOMAIN queue[w] /\ queue'[w][j] = queue[w][j + k]
    BY DEF Drops
  <2>2. SnapshotOwns(w, i + k, r)
    BY <1>1, <2>1 DEF RunOwned
  <2>3. \A j \in DOMAIN queue'[w] : queue'[w][j].run = r => j = i
    <3> SUFFICES ASSUME NEW j \in DOMAIN queue'[w], queue'[w][j].run = r PROVE j = i
      OBVIOUS
    <3>1. j + k = i + k /\ i + k \in DOMAIN queue[w] /\ j + k \in DOMAIN queue[w]
      BY <2>1, <2>2 DEF SnapshotOwns
    <3>2. i \in Nat /\ j \in Nat
      BY DEF TypeOK
    <3> QED BY <3>1, <3>2
  <2> QED BY <1>1, <2>1, <2>2, <2>3 DEF SnapshotOwns
<1>2. ASSUME NEW w \in Workers PROVE JobOwns(w, r)'
  <2>1. JobOwns(w, r)
    BY DEF RunOwned
  <2>2. CASE jobs'[w][r].pc = "idle"
    BY <2>2 DEF JobOwns, InHand, Closing
  <2>3. CASE jobs'[w][r].pc # "idle"
    BY <1>1, <2>1, <2>3 DEF JobOwns
  <2> QED BY <2>2, <2>3
<1>3. settled'[r] # 0 => settled'[r] = 1 /\ rows'[r].status = "terminated"
  BY DEF RunOwned
<1>4. pods'[podOf'[r]] = "deleted" => Earned(r)'
  BY DEF RunOwned, Earned
<1> QED BY <1>1, <1>2, <1>3, <1>4 DEF RunOwned

\* As long as a row has not overrun, only one process can hold it.
LEMMA SoleLeader ==
    ASSUME Led, NEW r \in Runs, ~overran[r], NEW w \in Workers, Leads(w), NEW v \in Workers, v # w
    PROVE  queue[v] = <<>> /\ jobs[v][r].pc = "idle"
  BY DEF Led

\* A job that writes its count of attempts and stops being in charge.
LEMMA RunGivenBack ==
    ASSUME TypeOK, TypeOK', NEW r \in Runs, NEW w \in Workers, RunOwned(r),
           jobs[w][r].pc # "idle", queue' = queue, podOf' = podOf, pods' = pods,
           settled'[r] = settled[r],
           \A v \in Workers : v # w => jobs'[v][r].pc = "idle",
           \A v \in Workers : \A i \in DOMAIN queue[v] : queue[v][i].run # r,
           rows'[r].attempts = jobs[w][r].attempt, rows'[r].uploaded = rows[r].uploaded,
           jobs'[w][r].attempt = jobs[w][r].attempt,
           \/ jobs'[w][r].pc \in {"reread", "linger"}
           \/ jobs'[w][r].pc = "reread_terminated" /\ rows'[r].status = "terminated"
    PROVE  RunOwned(r)'
<1>0. /\ rows[r].attempts \in Nat /\ jobs[w][r].attempt \in Nat /\ podOf[r] \in Pods
      /\ rows[r].attempts <= jobs[w][r].attempt /\ settled[r] = 0
  <2>1. rows[r] \in Rows /\ jobs[w][r] \in Jobs /\ podOf[r] \in Pods
    BY DEF TypeOK
  <2> QED BY <2>1 DEF RunOwned, JobOwns, Rows, Jobs
<1>1. ASSUME NEW v \in Workers PROVE JobOwns(v, r)'
  <2>1. CASE v = w
    BY <1>0, <2>1 DEF JobOwns, InHand, Closing
  <2>2. CASE v # w
    BY <2>2 DEF JobOwns, InHand, Closing
  <2> QED BY <2>1, <2>2
<1>2. pods[podOf[r]] = "deleted" => Earned(r)'
  BY <1>0, ConstantsAssumption DEF RunOwned, Earned
<1> QED BY <1>0, <1>1, <1>2 DEF RunOwned

\* A step of the job in charge, or of one that lingers.
LEMMA JobOwned ==
    ASSUME TypeOK, TypeOK', Led, Uploaded, Filed, NEW w \in Workers, NEW r \in Runs,
           RunOwned(r), ~overran[r], ~overran'[r],
           JobStep(w, r) \/ DbFault(w, r) \/ EnterSemaphore(w, r)
    PROVE  RunOwned(r)'
<1> USE DEF runVars, outerVars, leaderVars, workVars, histVars
<1>0. /\ jobs[w][r].pc # "idle" /\ queue' = queue /\ podOf' = podOf
      /\ \A v \in Workers : v # w =>
            jobs[v][r].pc = "idle" /\ jobs'[v][r].pc = "idle" /\ queue[v] = <<>>
  BY OtherJobsStay, SoleLeader DEF Led
<1>1. /\ rows \in [Runs -> Rows] /\ jobs[w][r] \in Jobs /\ rows[r] \in Rows
      /\ jobs[w][r].attempt \in Nat /\ podOf[r] \in Pods /\ settled \in [Runs -> 0..2]
      /\ rows[r].attempts \in Nat
  BY DEF TypeOK, Jobs, Rows
<1>2. JobOwns(w, r)
  BY DEF RunOwned
<1>d. \A v \in Workers : Drops(v)
  <2> SUFFICES ASSUME NEW v \in Workers PROVE Drops(v)
    OBVIOUS
  <2>1. \A i \in DOMAIN queue[v] : i + 0 = i
    BY DEF TypeOK
  <2> QED BY <1>0, <2>1 DEF Drops
\* The job goes on, and the row stays as it is but for the stamps.
<1>k. ASSUME rows'[r].attempts = rows[r].attempts, rows[r].uploaded => rows'[r].uploaded,
             rows'[r].status = rows[r].status, rows'[r].lease = rows[r].lease,
             settled'[r] = settled[r],
             pods'[podOf[r]] = "deleted" => pods[podOf[r]] = "deleted" \/ Earned(r)',
             \/ jobs'[w][r].pc = "idle"
             \/ /\ jobs'[w][r].attempt = jobs[w][r].attempt
                /\ jobs'[w][r].pc \in InHand => jobs[w][r].pc \in InHand
                /\ jobs'[w][r].pc \in Closing => jobs[w][r].pc \in Closing
      PROVE  RunOwned(r)'
  BY <1>0, <1>d, <1>k, RunKept
<1>3. CASE EnterSemaphore(w, r)
  BY <1>3, <1>k, JobGoesEffect DEF EnterSemaphore, JobAt, JobStates, InHand, Closing
<1>4. CASE ReadRun(w, r)
  BY <1>4, <1>k, ReadRunEffect DEF ReadRun, InHand, Closing
<1>5. CASE UploadReturns(w, r) \/ UploadRaises(w, r)
  BY <1>5, <1>k, JobGoesEffect, AfterUploadFailureTyped
     DEF UploadReturns, UploadRaises, JobAt, JobStates, InHand, Closing
<1>6. CASE StampUpload(w, r)
  <2>1. rows'[r] = ArtifactsStamped(rows[r]) /\ JobGoes(w, r, "delete") /\ jobs[w][r].pc = "stamp_upload"
        /\ settled' = settled /\ pods' = pods
    BY <1>1, <1>6 DEF StampUpload, JobAt
  <2> QED BY <1>1, <2>1, <1>k, StatementsWrite, JobGoesEffect DEF JobStates, InHand, Closing
<1>7. CASE StampGone(w, r)
  <2>1. rows'[r] = PodStamped(rows[r]) /\ JobGoes(w, r, "finish") /\ jobs[w][r].pc = "stamp_gone"
        /\ settled' = settled /\ pods' = pods
    BY <1>1, <1>7 DEF StampGone, JobAt
  <2> QED BY <1>1, <2>1, <1>k, StatementsWrite, JobGoesEffect DEF JobStates, InHand, Closing
<1>8. CASE DeleteAcknowledged(w, r) \/ DeleteRefused(w, r) \/ DeleteUnanswered(w, r)
  <2>1. rows' = rows /\ settled' = settled /\ jobs[w][r].pc = "delete"
    BY <1>8 DEF DeleteAcknowledged, DeleteRefused, DeleteUnanswered, JobAt
  <2>2. Earned(r)'
    <3>1. rows[r].uploaded \/ jobs[w][r].attempt >= MaxUploadAttempts
      BY <2>1 DEF Uploaded, LastAttempt
    <3>2. jobs[w][r].attempt = rows[r].attempts + 1
      BY <1>2, <2>1 DEF JobOwns, InHand
    <3> QED BY <1>1, <2>1, <3>1, <3>2, ConstantsAssumption DEF Earned
  <2>3. \E pc \in {"stamp_gone", "give_up", "reschedule", "rescue"} : JobGoes(w, r, pc)
    BY <1>8 DEF DeleteAcknowledged, DeleteRefused, DeleteUnanswered
  <2> QED BY <1>k, <2>1, <2>2, <2>3, JobGoesEffect DEF JobStates, InHand, Closing
<1>9. CASE Reread(w, r) \/ DbFault(w, r)
  <2>1. rows' = rows /\ settled' = settled /\ pods' = pods
    BY <1>9 DEF Reread, DbFault
  <2>2. \/ JobEnds(w, r) \/ JobGoes(w, r, "rescue")
        \/ JobGoes(w, r, "bill") /\ jobs[w][r].pc = "reread_terminated"
        \/ JobGoes(w, r, AfterUploadFailure(w, r)) /\ jobs[w][r].pc = "stamp_upload"
    BY <1>9 DEF Reread, DbFault, JobAt
  <2> QED BY <1>k, <2>1, <2>2, JobGoesEffect, JobEndsEffect, AfterUploadFailureTyped
          DEF JobStates, InHand, Closing, NoJob
\* The job gives the row back or closes it: nobody else holds it.
<1>n. ASSUME jobs[w][r].pc \in InHand
      PROVE  \A v \in Workers : \A i \in DOMAIN queue[v] : queue[v][i].run # r
  BY <1>0, <1>2, <1>n DEF JobOwns
<1>10. CASE Reschedule(w, r) \/ GiveUp(w, r)
  <2>1. /\ rows'[r] \in {Rescheduled(rows[r], jobs[w][r].attempt), GivenUp(rows[r], jobs[w][r].attempt)}
        /\ JobGoes(w, r, "reread") /\ jobs[w][r].pc \in InHand
        /\ settled' = settled /\ pods' = pods
    BY <1>1, <1>10 DEF Reschedule, GiveUp, JobAt, InHand
  <2> QED BY <1>0, <1>1, <1>n, <2>1, CountsWrite, JobGoesEffect, RunGivenBack DEF JobStates
<1>11. CASE Finish(w, r)
  <2>1. /\ rows'[r] = Terminated(rows[r], jobs[w][r].attempt)
        /\ JobGoes(w, r, "reread_terminated") /\ jobs[w][r].pc \in InHand
        /\ settled' = settled /\ pods' = pods
    BY <1>1, <1>11 DEF Finish, JobAt, InHand
  <2>2. jobs[w][r].attempt = rows[r].attempts + 1
    BY <1>2, <2>1 DEF JobOwns
  <2>3. rows'[r].attempts = jobs[w][r].attempt /\ rows'[r].uploaded = rows[r].uploaded
        /\ rows'[r].status = "terminated"
    BY <1>1, <2>1, <2>2, CountsWrite
  <2> QED BY <1>0, <1>1, <1>n, <2>1, <2>3, JobGoesEffect, RunGivenBack DEF JobStates
<1>12. CASE Rescue(w, r)
  <2>1. /\ rows'[r] \in {Rescheduled(rows[r], jobs[w][r].attempt), GivenUp(rows[r], jobs[w][r].attempt)}
        /\ JobGoes(w, r, "linger") /\ settled' = settled /\ pods' = pods
    BY <1>1, <1>12 DEF Rescue, JobAt
  <2>2. ~HeldElsewhere(w, r)
    BY <1>12, Zenon DEF Rescue, TypeOK
  <2>3. \A v \in Workers : \A i \in DOMAIN queue[v] : queue[v][i].run # r
    BY <1>0, <2>2 DEF HeldElsewhere
  <2> QED BY <1>0, <1>1, <2>1, <2>3, CountsWrite, JobGoesEffect, RunGivenBack DEF JobStates
<1>13. CASE SettleBilling(w, r)
  <2>1. /\ settled[r] = 0 /\ rows[r].status = "terminated"
        /\ \A i \in DOMAIN queue[w] : queue[w][i].run # r
    BY <1>2, <1>13 DEF SettleBilling, JobAt, JobOwns, Closing, RunOwned, SnapshotOwns
  <2>2. settled'[r] = 1 /\ rows' = rows /\ pods' = pods /\ jobs'[w][r].pc = "idle"
    BY <1>1, <1>13, <2>1, JobEndsEffect DEF SettleBilling, NoJob
  <2>3. ASSUME NEW v \in Workers PROVE JobOwns(v, r)'
    BY <1>0, <2>2 DEF JobOwns, InHand, Closing
  <2>4. \A v \in Workers : \A i \in DOMAIN queue'[v] : queue'[v][i].run # r
    BY <1>0, <2>1
  <2>5. pods'[podOf'[r]] = "deleted" => Earned(r)'
    BY <1>0, <2>2 DEF RunOwned, Earned
  <2> QED BY <2>1, <2>2, <2>3, <2>4, <2>5 DEF RunOwned
<1> QED BY <1>3, <1>4, <1>5, <1>6, <1>7, <1>8, <1>9, <1>10, <1>11, <1>12, <1>13 DEF JobStep

\* A step of one run's job cannot delete the pod of another.
LEMMA OtherPodsStay ==
    ASSUME TypeOK, Known, Filed, NEW w \in Workers, NEW s \in Runs,
           JobStep(w, s) \/ DbFault(w, s) \/ EnterSemaphore(w, s),
           NEW r \in Runs, r # s
    PROVE  pods'[podOf[r]] = pods[podOf[r]]
<1>0. pods \in [Pods -> {"absent", "up", "lost", "deleted"}] /\ podOf[r] \in Pods /\ podOf[r] # podOf[s]
  BY DEF TypeOK, Known
<1>1. CASE DeleteAcknowledged(w, s) \/ DeleteRefused(w, s) \/ DeleteUnanswered(w, s)
  <2>1. jobs[w][s].pod = podOf[s]
    BY <1>1 DEF DeleteAcknowledged, DeleteRefused, DeleteUnanswered, JobAt, Filed, JobFiled
  <2> QED
    BY <1>0, <1>1, <2>1 DEF DeleteAcknowledged, DeleteRefused, DeleteUnanswered, DeletedAt
<1>2. CASE ~(DeleteAcknowledged(w, s) \/ DeleteRefused(w, s) \/ DeleteUnanswered(w, s))
  BY <1>2 DEF JobStep, DbFault, EnterSemaphore, ReadRun, UploadReturns, UploadRaises, StampUpload,
     Reschedule, StampGone, Finish, GiveUp, Reread, SettleBilling, Rescue, outerVars
<1> QED BY <1>1, <1>2

\* A snapshot that is taken of a claimable row is the only hold on it.
LEMMA ClaimOwned ==
    ASSUME TypeOK, NEW r \in Runs, RunOwned(r), NEW w \in Workers, NEW s \in Runs, Claim(w, s)
    PROVE  RunOwned(r)'
<1> DEFINE snap == [run |-> s, attempts |-> rows[s].attempts, uploaded |-> rows[s].uploaded]
<1>1. /\ rows \in [Runs -> Rows] /\ queue \in [Workers -> Seq(Snapshots)]
      /\ UNCHANGED <<jobs, settled, pods, podOf>>
  BY DEF Claim, runVars, outerVars, histVars, TypeOK
<1>2. snap \in Snapshots /\ snap.run = s /\ snap.attempts = rows[s].attempts
  BY <1>1 DEF Snapshots, Rows
<1>3. rows' = [rows EXCEPT ![s] = Claimed(rows[s])]
      /\ queue' = [queue EXCEPT ![w] = Append(queue[w], snap)] /\ Claimable(rows[s])
  BY DEF Claim
<1> HIDE DEF snap
\* What was in the queues before, and what was not.
<1>4. ASSUME NEW v \in Workers, NEW i \in DOMAIN queue'[v]
      PROVE  \/ i \in DOMAIN queue[v] /\ queue'[v][i] = queue[v][i]
             \/ /\ v = w /\ i = Len(queue[w]) + 1 /\ i \notin DOMAIN queue[w]
                /\ queue'[v][i] = snap
  BY <1>1, <1>2, <1>3, OneMore
<1>5. CASE r # s
  <2>1. rows'[r] = rows[r]
    BY <1>1, <1>3, <1>5
  <2>2. ASSUME NEW v \in Workers, NEW i \in DOMAIN queue'[v], queue'[v][i].run = r
        PROVE  i \in DOMAIN queue[v] /\ queue'[v][i] = queue[v][i]
    BY <1>2, <1>4, <1>5, <2>2
  <2>3. ASSUME NEW v \in Workers PROVE JobOwns(v, r)'
    BY <1>1, <2>1, <2>2 DEF RunOwned, JobOwns
  <2>4. ASSUME NEW v \in Workers, NEW i \in DOMAIN queue'[v], queue'[v][i].run = r
        PROVE  SnapshotOwns(v, i, r)'
    BY <1>1, <2>1, <2>2, <2>4 DEF RunOwned, SnapshotOwns
  <2> QED BY <1>1, <2>1, <2>3, <2>4 DEF RunOwned, Earned
<1>6. CASE r = s
  <2>1. /\ rows[r].status \in {"requested", "in_progress"}
        /\ rows[r].status = "in_progress" => rows[r].lease = "lapsed"
    BY <1>3, <1>6 DEF Claimable
  <2>2. /\ rows'[r].status = "in_progress" /\ rows'[r].lease = "live"
        /\ rows'[r].attempts = rows[r].attempts /\ rows'[r].uploaded = rows[r].uploaded
    BY <1>1, <1>3, <1>6, StatementsWrite
  <2>3. \A v \in Workers : /\ jobs[v][r].pc \notin InHand /\ jobs[v][r].pc \notin Closing
                           /\ \A i \in DOMAIN queue[v] : queue[v][i].run # r
    BY <2>1 DEF RunOwned, JobOwns, SnapshotOwns
  <2>4. ASSUME NEW v \in Workers PROVE JobOwns(v, r)'
    BY <1>1, <2>1, <2>2, <2>3 DEF RunOwned, JobOwns
  <2>5. ASSUME NEW v \in Workers, NEW i \in DOMAIN queue'[v], queue'[v][i].run = r
        PROVE  SnapshotOwns(v, i, r)'
    <3>1. v = w /\ i = Len(queue[w]) + 1 /\ queue'[v][i] = snap
      BY <1>4, <2>3, <2>5
    <3>2. \A j \in DOMAIN queue'[v] : queue'[v][j].run = r => j = i
      BY <1>4, <2>3, <3>1
    <3> QED BY <1>2, <1>6, <2>2, <3>1, <3>2 DEF SnapshotOwns
  <2>6. settled[r] = 0
    BY <2>1 DEF RunOwned
  <2> QED BY <1>1, <2>2, <2>4, <2>5, <2>6 DEF RunOwned, Earned
<1> QED BY <1>5, <1>6

\* A job that a snapshot starts takes its hold over.
LEMMA DispatchOwned ==
    ASSUME TypeOK, TypeOK', Led, NEW r \in Runs, ~overran[r], RunOwned(r), NEW w \in Workers, Dispatch(w)
    PROVE  RunOwned(r)'
<1> DEFINE snap == Head(queue[w])
<1>1. /\ queue[w] # <<>> /\ queue[w] \in Seq(Snapshots) /\ snap \in Snapshots
      /\ queue' = [queue EXCEPT ![w] = Tail(queue[w])]
      /\ \/ jobs[w][snap.run].pc # "idle" /\ jobs' = jobs
         \/ /\ jobs[w][snap.run].pc = "idle"
            /\ jobs'[w][snap.run] = StartedJob(snap)
            /\ \A v \in Workers, s \in Runs :
                  v # w \/ s # snap.run => jobs'[v][s] = jobs[v][s]
  BY DispatchEffect
<1>2. UNCHANGED <<rows, settled, pods, podOf>> /\ queue \in [Workers -> Seq(Snapshots)]
  BY DEF Dispatch, runVars, outerVars, histVars, TypeOK
<1>3. /\ 1 \in DOMAIN queue[w] /\ snap = queue[w][1]
      /\ \A i \in DOMAIN Tail(queue[w]) :
            i + 1 \in DOMAIN queue[w] /\ Tail(queue[w])[i] = queue[w][i + 1]
  BY <1>1, HeadAndTail
<1> HIDE DEF snap
<1>d. \A v \in Workers : Drops(v)
  <2> SUFFICES ASSUME NEW v \in Workers PROVE Drops(v)
    OBVIOUS
  <2>1. CASE v = w
    BY <1>1, <1>2, <1>3, <2>1 DEF Drops
  <2>2. CASE v # w
    <3>1. queue'[v] = queue[v] /\ \A i \in DOMAIN queue[v] : i + 0 = i
      BY <1>1, <1>2, <2>2
    <3> QED BY <3>1 DEF Drops
  <2> QED BY <2>1, <2>2
<1>4. CASE \A v \in Workers : jobs'[v][r] = jobs[v][r]
  BY <1>2, <1>d, <1>4, RunKept
<1>5. CASE snap.run = r /\ jobs'[w][r] = StartedJob(snap)
           /\ \A v \in Workers : v # w => jobs'[v][r] = jobs[v][r]
  <2>1. SnapshotOwns(w, 1, r) /\ settled[r] = 0
    BY <1>3, <1>5 DEF RunOwned, SnapshotOwns
  <2>2. /\ jobs'[w][r].pc = "waiting" /\ jobs'[w][r].attempt = rows[r].attempts + 1
        /\ rows[r].attempts \in Nat
    BY <1>1, <1>3, <1>5, <2>1 DEF StartedJob, SnapshotOwns, TypeOK, Rows
  <2>3. \A v \in Workers : v # w => queue[v] = <<>> /\ jobs[v][r].pc = "idle"
    BY <1>1, SoleLeader DEF Led
  <2>4. \A v \in Workers : \A i \in DOMAIN queue'[v] : queue'[v][i].run # r
    <3> SUFFICES ASSUME NEW v \in Workers, NEW i \in DOMAIN queue'[v], queue'[v][i].run = r PROVE FALSE
      OBVIOUS
    <3>1. CASE v # w
      BY <1>1, <1>2, <2>3, <3>1
    <3>2. CASE v = w
      <4>1. queue'[w] = Tail(queue[w]) /\ i \in Nat \ {0}
        BY <1>1, <1>2, <3>2
      <4>2. i + 1 \in DOMAIN queue[w] /\ queue[w][i + 1].run = r
        BY <1>3, <3>2, <4>1
      <4> QED BY <2>1, <4>1, <4>2 DEF SnapshotOwns
    <3> QED BY <3>1, <3>2
  <2>5. ASSUME NEW v \in Workers PROVE JobOwns(v, r)'
    <3>1. CASE v = w
      BY <1>2, <2>1, <2>2, <2>4, <3>1 DEF JobOwns, InHand, Closing, SnapshotOwns
    <3>2. CASE v # w
      BY <1>5, <2>3, <3>2 DEF JobOwns, InHand, Closing
    <3> QED BY <3>1, <3>2
  <2> QED BY <1>2, <2>1, <2>4, <2>5 DEF RunOwned, Earned
<1> QED BY <1>1, <1>4, <1>5

\* Every step keeps the hold on a row that has not overrun.
LEMMA StepOwned ==
    TypeOK /\ Led /\ Uploaded /\ Filed /\ Known /\ Owned /\ [Next]_vars => Owned'
<1> SUFFICES ASSUME TypeOK, Led, Uploaded, Filed, Known, Owned, [Next]_vars,
                    NEW r \in Runs, ~overran'[r]
             PROVE  RunOwned(r)'
  BY DEF Owned
<1>0. TypeOK' /\ ~overran[r] /\ RunOwned(r) /\ rows[r] \in Rows /\ rows \in [Runs -> Rows]
  BY StepTyped, OverranStays DEF Owned, TypeOK
<1>d. ASSUME \A w \in Workers : queue'[w] = queue[w] \/ queue'[w] = <<>>
      PROVE  \A w \in Workers : Drops(w)
  <2> SUFFICES ASSUME NEW w \in Workers PROVE Drops(w)
    OBVIOUS
  <2>1. \A i \in DOMAIN queue[w] : i + 0 = i
    BY DEF TypeOK
  <2> QED BY <1>d, <2>1 DEF Drops
<1>k. ASSUME rows'[r] = rows[r], settled'[r] = settled[r], podOf' = podOf,
             pods'[podOf[r]] = "deleted" => pods[podOf[r]] = "deleted",
             \A w \in Workers : queue'[w] = queue[w] \/ queue'[w] = <<>>,
             \A w \in Workers : jobs'[w][r] = jobs[w][r] \/ jobs'[w][r] = NoJob
      PROVE  RunOwned(r)'
  BY <1>0, <1>d, <1>k, RunKept DEF NoJob
<1> USE DEF runVars, outerVars, leaderVars, workVars, histVars
<1>1. ASSUME NEW s \in Runs, RequestTermination(s) PROVE RunOwned(r)'
  <2>1. rows'[r] = rows[r] \/ rows'[r] = Enqueued(rows[r])
    BY <1>0, <1>1 DEF RequestTermination
  <2>2. UNCHANGED <<settled, podOf, pods, queue, jobs>>
    BY <1>1 DEF RequestTermination
  <2>3. CASE rows'[r] = Enqueued(rows[r])
    BY <1>0, <1>d, <2>2, <2>3, StatementsWrite, RunKept DEF RunOwned, JobOwns, InHand, Closing
  <2> QED BY <1>k, <2>1, <2>2, <2>3
<1>2. ASSUME NEW s \in Runs, LeaseLapses(s) PROVE RunOwned(r)'
  <2>1. UNCHANGED <<settled, podOf, pods, queue, jobs>>
    BY <1>2 DEF LeaseLapses
  <2>2. CASE r # s
    BY <1>0, <1>2, <1>k, <2>1, <2>2 DEF LeaseLapses
  <2>3. CASE r = s
    <3>1. ~Held(r) /\ rows[r].status = "in_progress"
      BY <1>2, <2>3, Zenon DEF LeaseLapses, TypeOK
    <3>2. rows' = [rows EXCEPT ![r] = [rows[r] EXCEPT !.lease = "lapsed"]]
      BY <1>2, <2>3, Zenon DEF LeaseLapses
    <3>3. /\ rows'[r].attempts = rows[r].attempts /\ rows'[r].uploaded = rows[r].uploaded
      BY <1>0, <3>2 DEF Rows
    <3>4. \A w \in Workers : jobs[w][r].pc = "idle" /\ \A i \in DOMAIN queue[w] : queue[w][i].run # r
      BY <3>1 DEF Held, HeldBy
    <3>5. settled[r] = 0
      BY <1>0, <3>1 DEF RunOwned
    <3> QED BY <1>0, <2>1, <3>3, <3>4, <3>5 DEF RunOwned, JobOwns, InHand, Closing, Earned
  <2> QED BY <2>2, <2>3
<1>3. CASE UNCHANGED vars \/ (\E s \in Runs : PodReachable(s)) \/ (\E p \in Pods : PodVanishes(p))
  BY <1>3, <1>k DEF vars, PodReachable, PodVanishes, TypeOK
<1>4. ASSUME NEW w \in Workers, WorkerStep(w) PROVE RunOwned(r)'
  <2>1. CASE Elect(w) \/ LoseLock(w) \/ ResetFails(w) \/ ClaimFails(w)
    BY <1>k, <2>1 DEF Elect, LoseLock, ResetFails, ClaimFails
  <2>2. CASE StopWorker(w)
    BY <1>k, <2>2 DEF StopWorker, TypeOK
  <2>3. CASE ResetLeases(w)
    <3>1. ~OtherLeader(w)
      BY <2>3, Zenon DEF ResetLeases
    <3>2. \A v \in Workers : ~Leads(v)
      BY <2>3, <3>1 DEF ResetLeases, OtherLeader, Leads
    <3>3. /\ UNCHANGED <<settled, podOf, pods, queue, jobs>>
          /\ \A v \in Workers : queue[v] = <<>> /\ jobs[v][r].pc = "idle"
      BY <2>3, <3>2 DEF ResetLeases, Led
    <3>4. \/ rows'[r] = rows[r]
          \/ /\ rows'[r] = [rows[r] EXCEPT !.status = "requested", !.lease = "none"]
             /\ rows[r].status = "in_progress"
      BY <2>3 DEF ResetLeases
    <3>5. /\ rows'[r].attempts = rows[r].attempts /\ rows'[r].uploaded = rows[r].uploaded
          /\ rows[r].status = "terminated" => rows'[r].status = "terminated"
      BY <1>0, <3>4 DEF Rows
    <3> QED BY <1>0, <3>3, <3>5 DEF RunOwned, JobOwns, InHand, Closing, Earned
  <2>4. CASE Dispatch(w)
    BY <1>0, <2>4, DispatchOwned
  <2>5. ASSUME NEW s \in Runs, Claim(w, s) PROVE RunOwned(r)'
    BY <1>0, <2>5, ClaimOwned
  <2>6. ASSUME NEW s \in Runs, EnterSemaphore(w, s) \/ JobStep(w, s) \/ DbFault(w, s)
        PROVE  RunOwned(r)'
    <3>1. CASE r = s
      BY <1>0, <2>6, <3>1, JobOwned
    <3>2. CASE r # s
      BY <1>k, <2>6, <3>2, OtherJobsStay, OtherPodsStay
    <3> QED BY <3>1, <3>2
  <2> QED BY <1>4, <2>1, <2>2, <2>3, <2>4, <2>5, <2>6 DEF WorkerStep
<1> QED BY <1>1, <1>2, <1>3, <1>4 DEF Next, Environment

\* The invariant that the next three theorems share.
LEMMA AlwaysOwned == Spec => [](TypeOK /\ Filed /\ Known /\ Led /\ Uploaded /\ Owned)
<1>1. Init => TypeOK /\ Filed /\ Known /\ Led /\ Uploaded /\ Owned
  BY InitTyped, InitFiled, InitKnown, InitLed
<1>2. TypeOK /\ Filed /\ Known /\ Led /\ Uploaded /\ Owned /\ [Next]_vars
        => (TypeOK /\ Filed /\ Known /\ Led /\ Uploaded /\ Owned)'
  BY StepTyped, StepFiled, StepKnown, StepLed, StepUploaded, StepOwned
<1> QED BY <1>1, <1>2, PTL DEF Spec

\* The pod of a run is reconciled at most once, unless the row was given away
\* while somebody still held it.
THEOREM BillsAreSettledOnce == Spec => []SettledOnce
<1>1. TypeOK /\ Owned => SettledOnce
  BY DEF Owned, RunOwned, SettledOnce
<1> QED BY <1>1, AlwaysOwned, PTL

\* The row of a deleted pod shows the upload or the attempts used up, unless it
\* was given away while somebody still held it.
THEOREM DeletionsAreEarned == Spec => []DeletionIsEarned
<1>1. TypeOK /\ Owned => DeletionIsEarned
  BY DEF Owned, RunOwned, Earned, DeletionIsEarned
<1> QED BY <1>1, AlwaysOwned, PTL

\* Whatever overlaps, the service destroys the pod of a run in a step of a job of
\* that run, whose upload is stamped or whose last attempt it is.
THEOREM DeletionsAreJobs ==
    Spec => [][\A r \in Runs :
                  pods[podOf[r]] # "deleted" /\ pods'[podOf[r]] = "deleted" =>
                     \E w \in Workers : /\ jobs[w][r].pc = "delete"
                                        /\ rows[r].uploaded \/ LastAttempt(w, r)]_vars
<1> DEFINE A == \A r \in Runs :
                  pods[podOf[r]] # "deleted" /\ pods'[podOf[r]] = "deleted" =>
                     \E w \in Workers : /\ jobs[w][r].pc = "delete"
                                        /\ rows[r].uploaded \/ LastAttempt(w, r)
<1>1. TypeOK /\ Filed /\ Known /\ Uploaded /\ [Next]_vars => [A]_vars
  <2> SUFFICES ASSUME TypeOK, Filed, Known, Uploaded, Next, NEW r \in Runs,
                      pods[podOf[r]] # "deleted", pods'[podOf[r]] = "deleted"
               PROVE  \E w \in Workers : /\ jobs[w][r].pc = "delete"
                                         /\ rows[r].uploaded \/ LastAttempt(w, r)
    OBVIOUS
  <2>1. \E w \in Workers, s \in Runs : JobStep(w, s) \/ DbFault(w, s) \/ EnterSemaphore(w, s)
    BY DEF Next, Environment, WorkerStep, RequestTermination, PodReachable, LeaseLapses,
       PodVanishes, Elect, ResetLeases, ResetFails, ClaimFails, StopWorker, LoseLock, Dispatch,
       Claim, outerVars, TypeOK
  <2>2. PICK w \in Workers : JobStep(w, r) \/ DbFault(w, r) \/ EnterSemaphore(w, r)
    BY <2>1, OtherPodsStay
  <2>3. jobs[w][r].pc = "delete"
    BY <2>2 DEF JobStep, DbFault, EnterSemaphore, ReadRun, UploadReturns, UploadRaises, StampUpload,
       Reschedule, DeleteAcknowledged, DeleteRefused, DeleteUnanswered, StampGone, Finish, GiveUp,
       Reread, SettleBilling, Rescue, JobAt, outerVars
  <2> QED BY <2>3 DEF Uploaded
<1> QED BY <1>1, AlwaysOwned, PTL DEF Spec

=============================================================================
