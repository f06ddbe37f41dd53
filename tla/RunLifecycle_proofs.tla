------------------------- MODULE RunLifecycle_proofs -------------------------
(***************************************************************************)
(* Proofs about RunLifecycle, for any number of pods, handlers and restarts *)
(* and any number of disturbances: the state stays well typed, the pod the  *)
(* row names is the one whose webhooks are accepted, a closed run has its   *)
(* termination requested, and a pod that nobody will delete has a cause.    *)
(***************************************************************************)
EXTENDS RunLifecycle, TLAPS

TaskTypes == [Tasks -> TaskStates]

Bounds == [stops : Nat, deaths : Nat, refusals : Nat, duplicates : Nat,
           mishaps : Nat]

\* A task that moves or ends keeps the tasks well typed.
LEMMA TasksTyped ==
    ASSUME TypeOK, NEW t \in Tasks
    PROVE  /\ \A pc \in Points : TaskGoes(t, pc) => tasks' \in TaskTypes
           /\ TaskEnds(t) => tasks' \in TaskTypes
<1>1. tasks \in TaskTypes /\ NoTask \in TaskStates
  BY DEF TypeOK, TaskTypes, NoTask, TaskStates, Kinds, Points, Webhooks
<1>2. ASSUME NEW pc \in Points PROVE [tasks[t] EXCEPT !.pc = pc] \in TaskStates
  BY <1>1, <1>2 DEF TaskTypes, TaskStates
<1>3. \A x \in TaskStates : [tasks EXCEPT ![t] = x] \in TaskTypes
  BY <1>1 DEF TaskTypes
<1>4. ASSUME NEW pc \in Points, TaskGoes(t, pc) PROVE tasks' \in TaskTypes
  <2>1. tasks' = [tasks EXCEPT ![t] = [tasks[t] EXCEPT !.pc = pc]]
    BY <1>1, <1>4 DEF TaskGoes, TaskTypes
  <2> QED BY <2>1, <1>2, <1>3
<1>5. ASSUME TaskEnds(t) PROVE tasks' \in TaskTypes
  BY <1>1, <1>3, <1>5 DEF TaskEnds
<1> QED BY <1>4, <1>5

\* The points a restart and a check lead to are points of a task.
LEMMA PointsTyped ==
    /\ {RestartPoint(n) : n \in Nat} \subseteq {"give_up", "delete_old"}
    /\ HeartbeatPoint \in {"fail", "idle", "poll"}
    /\ TypeOK => CheckPoint \in {"give_up", "delete_old", "fail", "idle", "poll", "backfill"}
<1>1. \A n : RestartPoint(n) \in {"give_up", "delete_old"}
  BY DEF RestartPoint
<1>2. HeartbeatPoint \in {"fail", "idle", "poll"}
  BY DEF HeartbeatPoint
<1>3. CheckPoint \in {"give_up", "delete_old", "fail", "idle", "poll", "backfill"}
  BY <1>1, <1>2 DEF CheckPoint
<1> QED BY <1>1, <1>2, <1>3

\* Counting an event keeps the counters well typed.
LEMMA SpendingTyped ==
    ASSUME NEW b \in Bounds
    PROVE  /\ [b EXCEPT !.stops = @ + 1] \in Bounds
           /\ [b EXCEPT !.deaths = @ + 1] \in Bounds
           /\ [b EXCEPT !.refusals = @ + 1] \in Bounds
           /\ [b EXCEPT !.duplicates = @ + 1] \in Bounds
           /\ [b EXCEPT !.mishaps = @ + 1] \in Bounds
  BY DEF Bounds

\* The initial state is well typed.
LEMMA InitTyped == Init => TypeOK
<1> SUFFICES ASSUME Init PROVE TypeOK
  OBVIOUS
<1>1. run \in Runs
  BY DEF Init, NoRun, Runs, Statuses
<1>2. tasks \in [Tasks -> TaskStates]
  BY DEF Init, NoTask, TaskStates, Kinds, Webhooks, Points
<1>3. pods \in [Pods -> PodStates] /\ waiters \in [Pods -> {"none", "waiting"}]
  BY DEF Init, PodStates, AlivePods
<1>4. /\ overdue \in BOOLEAN /\ mail \in SUBSET Calls
      /\ term \in {"none", "open", "terminated", "failed"}
      /\ cleaner \in [pc : {"idle", "delete", "close"}, pod : Pods \cup {NoPod}]
      /\ history \in SUBSET Notes
      /\ spent \in [stops : Nat, deaths : Nat, refusals : Nat, duplicates : Nat,
                    mishaps : Nat]
  BY DEF Init
<1> QED BY <1>1, <1>2, <1>3, <1>4 DEF TypeOK

\* Time, RunPod and the programs in the pods keep the state well typed.
LEMMA OutsideTyped ==
    TypeOK /\ (Clock \/ \E p \in Pods : PodStep(p)) => TypeOK'
<1> SUFFICES ASSUME TypeOK, Clock \/ \E p \in Pods : PodStep(p) PROVE TypeOK'
  OBVIOUS
<1> USE DEF rowVars, podVars, cleanVars, logVars
<1>1. CASE Clock
  BY <1>1 DEF Clock, DeadlinePasses, HeartbeatLapses, RuntimeExpires, TypeOK, Runs
<1>2. ASSUME NEW p \in Pods, NEW kind \in Webhooks, Posts(p, kind)
      PROVE  mail' \in SUBSET Calls
  BY <1>2 DEF Posts, TypeOK, Calls
<1>3. ASSUME NEW p \in Pods, NEW state \in PodStates
      PROVE  [pods EXCEPT ![p] = state] \in [Pods -> PodStates]
  BY <1>3 DEF TypeOK
<1>4. ASSUME NEW p \in Pods, PodStep(p) PROVE TypeOK'
  <2>1. {"running", "short", "over", "exited", "gone"} \subseteq PodStates
    BY DEF PodStates, AlivePods
  <2>2. {"started", "shortage", "finished"} \subseteq Webhooks
    BY DEF Webhooks
  <2>3. pods' \in [Pods -> PodStates]
    BY <1>3, <1>4, <2>1 DEF PodStep, PodStarts, PodIsShort, PodFinishes, PodFails
  <2>4. mail' \in SUBSET Calls
    <3>1. CASE PodFails(p)
      BY <3>1 DEF PodFails, TypeOK
    <3> QED BY <1>2, <1>4, <2>2, <3>1 DEF PodStep, PodStarts, PodIsShort, PodFinishes
  <2>5. spent' \in Bounds
    BY <1>4, SpendingTyped DEF PodStep, PodStarts, PodIsShort, PodFinishes, PodFails,
       TypeOK, Bounds
  <2>6. UNCHANGED <<run, overdue, tasks, waiters, term, cleaner, history>>
    BY <1>4 DEF PodStep, PodStarts, PodIsShort, PodFinishes, PodFails
  <2> QED BY <2>3, <2>4, <2>5, <2>6 DEF TypeOK, Bounds
<1> QED BY <1>1, <1>4

\* What a request makes of an idle task is well typed.
LEMMA RequestsTyped ==
    ASSUME TypeOK, NEW t \in Tasks, Requests(t)
    PROVE  TypeOK'
<1> USE DEF rowVars, podVars, cleanVars, logVars
<1>1. ASSUME NEW kind \in Kinds, NEW pc \in Points
      PROVE  [NoTask EXCEPT !.kind = kind, !.pc = pc] \in TaskStates
  BY <1>1 DEF NoTask, TaskStates, Points
<1>2. \A x \in TaskStates : [tasks EXCEPT ![t] = x] \in TaskTypes
  BY DEF TypeOK, TaskTypes
<1>3. {"launch", "stop", "beat"} \cup Webhooks \subseteq Kinds
      /\ {"launch", "read", "enqueue_stop", "enqueue"} \subseteq Points
  BY DEF Kinds, Points
<1>4. tasks' \in TaskTypes
  <2>1. ASSUME NEW call \in mail, WebhookArrives(t, call) PROVE tasks' \in TaskTypes
    <3>1. call.kind \in Webhooks
      BY DEF TypeOK, Calls
    <3> QED BY <1>1, <1>2, <1>3, <2>1, <3>1 DEF WebhookArrives
  <2>2. ASSUME NEW p \in Pods, HeartbeatArrives(t, p) PROVE tasks' \in TaskTypes
    BY <1>1, <1>2, <1>3, <2>2 DEF HeartbeatArrives
  <2>3. CASE LaunchRequested(t)
    BY <1>1, <1>2, <1>3, <2>3 DEF LaunchRequested
  <2>4. CASE StopRequested(t)
    BY <1>1, <1>2, <1>3, <2>4 DEF StopRequested
  <2> QED BY <2>1, <2>2, <2>3, <2>4 DEF Requests
<1>5. mail' \in SUBSET Calls
  BY DEF Requests, LaunchRequested, StopRequested, WebhookArrives, HeartbeatArrives, TypeOK
<1>6. spent' \in Bounds
  BY SpendingTyped DEF Requests, LaunchRequested, StopRequested, WebhookArrives,
     HeartbeatArrives, TypeOK, Bounds
<1>7. UNCHANGED <<run, overdue, pods, waiters, term, cleaner, history>>
  BY DEF Requests, LaunchRequested, StopRequested, WebhookArrives, HeartbeatArrives
<1> QED BY <1>4, <1>5, <1>6, <1>7 DEF TypeOK, TaskTypes, Bounds

\* The tasks after a step of a task are well typed.
LEMMA StepTasksTyped ==
    ASSUME TypeOK, NEW t \in Tasks, TaskStep(t)
    PROVE  tasks' \in TaskTypes
<1>1. tasks[t] \in TaskStates /\ NoTask \in TaskStates /\ run \in Runs
  BY DEF TypeOK, NoTask, TaskStates, Kinds, Points, Webhooks
<1>2. \A x \in TaskStates : [tasks EXCEPT ![t] = x] \in TaskTypes
  BY DEF TypeOK, TaskTypes
<1>3. \A n : RestartPoint(n) \in {"give_up", "delete_old"}
  BY DEF RestartPoint
<1>4. {"idle", "write", "delete_old", "enqueue", "launch", "give_up", "spawn",
       "insert", "update", "backfill_write"} \subseteq Points
  BY DEF Points
<1>5. TaskEnds(t) => tasks' \in TaskTypes
  BY TasksTyped
<1>6. \A pc \in Points : TaskGoes(t, pc) => tasks' \in TaskTypes
  BY TasksTyped
<1>7. Resume(t) => tasks' \in TaskTypes
  BY <1>1, <1>5, <1>6 DEF Resume, TaskStates
<1>8. CASE ReadRow(t)
  <2>1. ASSUME NEW pc \in Points PROVE [tasks[t] EXCEPT !.pc = pc] \in TaskStates
    BY <1>1, <2>1 DEF TaskStates
  <2>2. [tasks[t] EXCEPT !.pc = "delete_old", !.pod = run.pod, !.restarts = run.restarts]
           \in TaskStates
    BY <1>1, <1>4 DEF TaskStates, Runs
  <2>3. \E x \in TaskStates : tasks' = [tasks EXCEPT ![t] = x]
    <3> DEFINE next == CASE tasks[t].kind = "shortage" -> RestartPoint(run.restarts)
                         [] tasks[t].kind = "beat" /\ ~IsActive -> "idle"
                         [] OTHER -> "write"
    <3>1. next \in {"give_up", "delete_old", "idle", "write"}
      BY <1>3
    <3>2. tasks' = [tasks EXCEPT ![t] =
              CASE next = "idle"       -> NoTask
                [] next = "delete_old" -> [tasks[t] EXCEPT !.pc = next, !.pod = run.pod,
                                                    !.restarts = run.restarts]
                [] OTHER               -> [tasks[t] EXCEPT !.pc = next]]
      BY <1>8 DEF ReadRow, TypeOK
    <3> HIDE DEF next
    <3>3. CASE next = "idle"
      BY <3>2, <3>3, <1>1
    <3>4. CASE next = "delete_old"
      BY <3>2, <3>4, <2>2
    <3>5. CASE next \in {"give_up", "write"}
      BY <3>2, <3>5, <2>1, <1>4
    <3> QED BY <3>1, <3>3, <3>4, <3>5
  <2> QED BY <2>3, <1>2
<1>9. CASE WriteRow(t) \/ Enqueue(t) \/ FailRun(t) \/ PollPod(t) \/ DeleteOldPod(t)
        \/ LaunchFails(t) \/ InsertRow(t) \/ UpdateRow(t) \/ SpawnWaiter(t)
  BY <1>3, <1>4, <1>5, <1>6, <1>9
     DEF WriteRow, Enqueue, FailRun, PollPod, DeleteOldPod, LaunchFails,
         InsertRow, UpdateRow, SpawnWaiter
<1>10. CASE Backfill(t) \/ BackfillWrite(t)
  BY <1>4, <1>6, <1>7, <1>10 DEF Backfill, BackfillWrite
<1>11. CASE LaunchPod(t)
  <2>1. PICK p \in Pods : tasks' = [tasks EXCEPT ![t] = [tasks[t] EXCEPT !.fresh = p,
           !.pc = IF tasks[t].kind = "launch" THEN "insert" ELSE "update"]]
    BY <1>11 DEF LaunchPod, TypeOK
  <2>2. [tasks[t] EXCEPT !.fresh = p,
           !.pc = IF tasks[t].kind = "launch" THEN "insert" ELSE "update"] \in TaskStates
    BY <1>1, <1>4 DEF TaskStates
  <2> QED BY <2>1, <2>2, <1>2
<1> QED BY <1>8, <1>9, <1>10, <1>11 DEF TaskStep

\* Every step of a task keeps the state well typed.
LEMMA TaskStepTyped ==
    ASSUME TypeOK, NEW t \in Tasks, TaskStep(t)
    PROVE  TypeOK'
<1> USE DEF rowVars, podVars, cleanVars, logVars
<1>1. tasks' \in TaskTypes
  BY StepTasksTyped
<1>2. tasks[t] \in TaskStates
  BY DEF TypeOK
<1>3. run' \in Runs
  <2>1. CASE UNCHANGED run
    BY <2>1 DEF TypeOK
  <2>2. CASE WriteRow(t)
    <3>1. run \in Runs
      BY DEF TypeOK
    <3>2. CASE run' = [run EXCEPT !.status = "running", !.beat = "fresh",
                                  !.deadline = "ahead"]
      BY <3>1, <3>2 DEF Runs, Statuses
    <3>3. CASE run' = [run EXCEPT !.beat = "fresh"]
      BY <3>1, <3>3 DEF Runs
    <3>4. ASSUME NEW outcome \in {"completed", "failed"},
                 run' = [run EXCEPT !.status = outcome, !.beat = "fresh"]
          PROVE  run' \in Runs
      BY <3>1, <3>4 DEF Runs, Statuses
    <3>5. CASE run' = [run EXCEPT !.status = "failed"]
      BY <3>1, <3>5 DEF Runs, Statuses
    <3> QED BY <2>2, <3>2, <3>3, <3>4, <3>5 DEF WriteRow
  <2>3. CASE FailRun(t)
    <3>1. run \in Runs
      BY DEF TypeOK
    <3>2. CASE tasks[t].kind = "shortage"
      BY <2>3, <3>1, <3>2 DEF FailRun, Runs, Statuses
    <3>3. CASE tasks[t].kind # "shortage"
      BY <2>3, <3>1, <3>3 DEF FailRun, Runs, Statuses
    <3> QED BY <3>2, <3>3
  <2>4. CASE BackfillWrite(t)
    BY <1>2, <2>4 DEF BackfillWrite, TypeOK, Runs, TaskStates
  <2>5. CASE InsertRow(t)
    BY <1>2, <2>5 DEF InsertRow, NoRun, Runs, Statuses, TaskStates
  <2>6. CASE UpdateRow(t)
    <3>1. run' = [run EXCEPT !.pod = tasks[t].fresh, !.token = tasks[t].fresh,
                             !.restarts = tasks[t].restarts + 1,
                             !.deadline = "ahead", !.status = "initializing"]
      BY <2>6 DEF UpdateRow
    <3>2. run \in Runs /\ tasks[t].fresh \in Pods \cup {NoPod} /\ tasks[t].restarts + 1 \in Nat
      BY <1>2 DEF TypeOK, TaskStates
    <3> QED BY <3>1, <3>2 DEF Runs, Statuses
  <2> QED BY <2>1, <2>2, <2>3, <2>4, <2>5, <2>6
          DEF TaskStep, ReadRow, Enqueue, Backfill, PollPod, DeleteOldPod, LaunchPod,
              LaunchFails, SpawnWaiter
<1>4. pods' \in [Pods -> PodStates]
  <2>1. CASE UNCHANGED pods
    BY <2>1 DEF TypeOK
  <2>2. CASE DeleteOldPod(t)
    BY <2>2 DEF DeleteOldPod, WithoutPod, TypeOK, PodStates
  <2>3. CASE LaunchPod(t)
    BY <2>3 DEF LaunchPod, TypeOK, PodStates, AlivePods
  <2> QED BY <2>1, <2>2, <2>3
          DEF TaskStep, ReadRow, WriteRow, Enqueue, FailRun, Backfill, BackfillWrite,
              PollPod, LaunchFails, InsertRow, UpdateRow, SpawnWaiter
<1>5. waiters' \in [Pods -> {"none", "waiting"}]
  <2>1. CASE UNCHANGED waiters
    BY <2>1 DEF TypeOK
  <2>2. CASE SpawnWaiter(t)
    BY <2>2 DEF SpawnWaiter, TypeOK
  <2> QED BY <2>1, <2>2
          DEF TaskStep, ReadRow, WriteRow, Enqueue, FailRun, Backfill, BackfillWrite,
              PollPod, DeleteOldPod, LaunchPod, LaunchFails, InsertRow, UpdateRow
<1>6. history' \in SUBSET Notes /\ spent' \in Bounds
  <2>1. CASE UNCHANGED <<history, spent>>
    BY <2>1 DEF TypeOK, Bounds
  <2>2. CASE DeleteOldPod(t)
    BY <2>2, SpendingTyped DEF DeleteOldPod, TypeOK, Notes, Bounds
  <2>3. CASE FailRun(t) \/ BackfillWrite(t) \/ UpdateRow(t)
    BY <2>3 DEF FailRun, BackfillWrite, UpdateRow, Repointed, TypeOK, Notes, Bounds
  <2> QED BY <2>1, <2>2, <2>3
          DEF TaskStep, ReadRow, WriteRow, Enqueue, Backfill, PollPod, LaunchPod,
              LaunchFails, InsertRow, SpawnWaiter
<1>7. term' \in {"none", "open", "terminated", "failed"}
  <2>1. CASE UNCHANGED term
    BY <2>1 DEF TypeOK
  <2>2. CASE Enqueue(t)
    BY <2>2 DEF Enqueue, TypeOK
  <2> QED BY <2>1, <2>2
          DEF TaskStep, ReadRow, WriteRow, FailRun, Backfill, BackfillWrite, PollPod,
              DeleteOldPod, LaunchPod, LaunchFails, InsertRow, UpdateRow, SpawnWaiter
<1>8. UNCHANGED <<overdue, mail, cleaner>>
  BY DEF TaskStep, ReadRow, WriteRow, Enqueue, FailRun, Backfill, BackfillWrite, PollPod,
         DeleteOldPod, LaunchPod, LaunchFails, InsertRow, UpdateRow, SpawnWaiter
<1> QED BY <1>1, <1>3, <1>4, <1>5, <1>6, <1>7, <1>8 DEF TypeOK, TaskTypes, Bounds

\* The termination service, a waiter and the loss of a task keep the state
\* well typed.
LEMMA OthersTyped ==
    /\ TypeOK /\ Cleaner => TypeOK'
    /\ \A p \in Pods : TypeOK /\ WaiterWrites(p) => TypeOK'
    /\ \A t \in Tasks : TypeOK /\ TaskDies(t) => TypeOK'
    /\ TypeOK /\ CheckRun => TypeOK'
<1> USE DEF rowVars, podVars, cleanVars, logVars
<1>1. ASSUME TypeOK, Cleaner PROVE TypeOK'
  <2>1. CASE CleanerReads
    BY <1>1, <2>1 DEF CleanerReads, TypeOK, Runs
  <2>2. CASE CleanerDeletes
    BY <1>1, <2>2 DEF CleanerDeletes, WithoutPod, TypeOK, PodStates
  <2>3. CASE CleanerIsRefused
    BY <1>1, <2>3, SpendingTyped DEF CleanerIsRefused, TypeOK, Notes, Bounds
  <2>4. CASE CleanerCloses
    BY <1>1, <2>4 DEF CleanerCloses, TypeOK
  <2> QED BY <1>1, <2>1, <2>2, <2>3, <2>4 DEF Cleaner
<1>2. ASSUME NEW p \in Pods, TypeOK, WaiterWrites(p) PROVE TypeOK'
  <2>1. run' \in Runs
    BY <1>2 DEF WaiterWrites, TypeOK, Runs
  <2>2. waiters' \in [Pods -> {"none", "waiting"}] /\ history' \in SUBSET Notes
    BY <1>2 DEF WaiterWrites, Repointed, TypeOK, Notes
  <2> QED BY <1>2, <2>1, <2>2 DEF WaiterWrites, TypeOK
<1>3. ASSUME NEW t \in Tasks, TypeOK, TaskDies(t) PROVE TypeOK'
  <2>1. tasks' \in TaskTypes
    BY <1>3, TasksTyped DEF TaskDies
  <2>2. history' \in SUBSET Notes /\ spent' \in Bounds
    BY <1>3, SpendingTyped DEF TaskDies, TypeOK, Notes, Bounds
  <2> QED BY <1>3, <2>1, <2>2 DEF TaskDies, TypeOK, TaskTypes, Bounds
<1>4. ASSUME TypeOK, CheckRun PROVE TypeOK'
  <2>1. CheckPoint \in Points /\ HeartbeatPoint \in Points /\ "idle" \in Points
    BY <1>4, PointsTyped DEF Points
  <2>2. run.pod \in Pods \cup {NoPod} /\ run.restarts \in Nat
    BY <1>4 DEF TypeOK, Runs
  <2>3. \E x \in TaskStates : tasks' = [tasks EXCEPT ![Monitor] = x]
    <3>1. CASE CheckPoint \in {"fail", "give_up"}
      <4>1. [NoTask EXCEPT !.kind = "monitor", !.pc = CheckPoint] \in TaskStates
        BY <2>1 DEF NoTask, TaskStates, Kinds
      <4> QED BY <1>4, <3>1, <4>1 DEF CheckRun
    <3>2. CASE CheckPoint \notin {"fail", "give_up"}
      <4> DEFINE next == IF CheckPoint = "backfill" THEN HeartbeatPoint ELSE "idle"
      <4>1. next \in Points
        BY <2>1
      <4> HIDE DEF next
      <4>2. [NoTask EXCEPT !.kind = "monitor", !.pc = CheckPoint, !.pod = run.pod,
                           !.restarts = run.restarts, !.then = next] \in TaskStates
        BY <2>1, <2>2, <4>1 DEF NoTask, TaskStates, Kinds
      <4> QED BY <1>4, <3>2, <4>2 DEF CheckRun, next
    <3> QED BY <3>1, <3>2
  <2>4. tasks' \in TaskTypes
    BY <1>4, <2>3 DEF TypeOK, TaskTypes
  <2> QED BY <1>4, <2>4 DEF CheckRun, TypeOK, TaskTypes
<1> QED BY <1>1, <1>2, <1>3, <1>4

\* Every step keeps the state well typed.
LEMMA StepTyped == TypeOK /\ [Next]_vars => TypeOK'
<1> SUFFICES ASSUME TypeOK, [Next]_vars PROVE TypeOK'
  OBVIOUS
<1>1. CASE Clock \/ \E p \in Pods : PodStep(p)
  BY <1>1, OutsideTyped
<1>2. CASE Cleaner \/ CheckRun \/ \E p \in Pods : WaiterWrites(p)
  BY <1>2, OthersTyped
<1>3. CASE \E t \in Handlers : Requests(t)
  BY <1>3, RequestsTyped DEF Tasks
<1>4. CASE \E t \in Tasks : TaskStep(t) \/ TaskDies(t)
  BY <1>4, TaskStepTyped, OthersTyped
<1>5. CASE UNCHANGED vars
  BY <1>5 DEF vars, TypeOK
<1> QED BY <1>1, <1>2, <1>3, <1>4, <1>5 DEF Next

\* The state stays well typed, whatever handlers overlap: in particular no
\* status is written that the table does not know.
THEOREM LifecycleTypeCorrect == Spec => []TypeOK
<1>1. Init => TypeOK
  BY InitTyped
<1>2. TypeOK /\ [Next]_vars => TypeOK'
  BY StepTyped
<1> QED BY <1>1, <1>2, PTL DEF Spec

-----------------------------------------------------------------------------
(* The pod in the row and the token of its webhooks.                        *)

\* Every step keeps the two together or records that it has not.
LEMMA StepNamed ==
    TypeOK /\ NamedPodIsAuthorised /\ [Next]_vars => NamedPodIsAuthorised'
<1> SUFFICES ASSUME TypeOK, NamedPodIsAuthorised, [Next]_vars
             PROVE  NamedPodIsAuthorised'
  OBVIOUS
<1> USE DEF NamedPodIsAuthorised, rowVars, podVars, cleanVars, logVars
<1>1. run \in Runs
  BY DEF TypeOK
<1>2. CASE Clock
  BY <1>1, <1>2 DEF Clock, DeadlinePasses, HeartbeatLapses, RuntimeExpires, Runs
<1>3. CASE \E p \in Pods : PodStep(p)
  BY <1>3 DEF PodStep, PodStarts, PodIsShort, PodFinishes, PodFails
<1>4. ASSUME NEW p \in Pods, WaiterWrites(p) PROVE NamedPodIsAuthorised'
  BY <1>1, <1>4 DEF WaiterWrites, Repointed, Runs
<1>5. CASE Cleaner
  BY <1>5 DEF Cleaner, CleanerReads, CleanerDeletes, CleanerIsRefused, CleanerCloses
<1>6. CASE CheckRun
  BY <1>6 DEF CheckRun
<1>7. CASE \E t \in Handlers : Requests(t)
  BY <1>7 DEF Requests, LaunchRequested, StopRequested, WebhookArrives, HeartbeatArrives
<1>8. ASSUME NEW t \in Tasks, TaskDies(t) PROVE NamedPodIsAuthorised'
  BY <1>8 DEF TaskDies
<1>9. ASSUME NEW t \in Tasks, TaskStep(t) PROVE NamedPodIsAuthorised'
  <2>1. CASE UNCHANGED <<run, history>>
    BY <2>1
  <2>2. CASE WriteRow(t)
    <3>1. run'.pod = run.pod /\ run'.token = run.token
      BY <1>1, <2>2 DEF WriteRow, Runs
    <3> QED BY <2>2, <3>1 DEF WriteRow
  <2>3. CASE FailRun(t)
    BY <1>1, <2>3 DEF FailRun, Runs
  <2>4. CASE BackfillWrite(t)
    BY <1>1, <2>4 DEF BackfillWrite, Repointed, Runs
  <2>5. CASE InsertRow(t)
    BY <2>5 DEF InsertRow, NoRun
  <2>6. CASE UpdateRow(t)
    BY <1>1, <2>6 DEF UpdateRow, Runs
  <2>7. CASE DeleteOldPod(t)
    BY <2>7 DEF DeleteOldPod
  <2> QED BY <1>9, <2>1, <2>2, <2>3, <2>4, <2>5, <2>6, <2>7
          DEF TaskStep, ReadRow, Enqueue, Backfill, PollPod, LaunchPod, LaunchFails,
              SpawnWaiter
<1>10. CASE UNCHANGED vars
  BY <1>10 DEF vars
<1> QED BY <1>2, <1>3, <1>4, <1>5, <1>6, <1>7, <1>8, <1>9, <1>10 DEF Next

\* The pod the row names is the one whose webhooks are accepted, unless a task
\* has put a pod into the row over one it had not read.
THEOREM NamedIsAuthorised == Spec => []NamedPodIsAuthorised
<1>1. Init => TypeOK /\ NamedPodIsAuthorised
  BY InitTyped DEF Init, NoRun, NamedPodIsAuthorised
<1>2. TypeOK /\ NamedPodIsAuthorised /\ [Next]_vars => TypeOK' /\ NamedPodIsAuthorised'
  BY StepTyped, StepNamed
<1> QED BY <1>1, <1>2, PTL DEF Spec

-----------------------------------------------------------------------------
(* Closed runs and their termination.                                       *)

\* A task that will come to the request.
Asking(x) == x.pc \in {"fail", "give_up", "enqueue"}

\* What the tasks know: only a webhook reads the row before it writes it, a
\* stop writes it after the request, and a check does not come to a write.
TaskKnows(x) ==
    /\ x.pc = "read" => x.kind # "stop"
    /\ x.pc = "write" /\ x.kind = "stop" => term # "none"
    /\ x.then \in {"idle", "fail", "poll"}

Asked == ClosedRunsAreRequested /\ \A t \in Tasks : TaskKnows(tasks[t])

\* The only task that takes a step at t is replaced by one that knows, and the
\* request stays in sight: then the tasks still know.
LEMMA OneTaskMoves ==
    ASSUME TypeOK, Asked, NEW t \in Tasks, NEW x,
           tasks' = [tasks EXCEPT ![t] = x],
           TaskKnows(x)', term # "none" => term' # "none",
           run'.status \in {"completed", "failed"} =>
              IsClosed \/ Asking(x) \/ term' # "none" \/ "died" \in history',
           history \subseteq history',
           Asking(tasks[t]) => Asking(x) \/ term' # "none" \/ "died" \in history'
    PROVE  Asked'
<1>1. tasks'[t] = x /\ \A u \in Tasks : u # t => tasks'[u] = tasks[u]
  BY DEF TypeOK
<1>2. \A u \in Tasks : TaskKnows(tasks[u])'
  BY <1>1 DEF Asked, TaskKnows
<1>3. ClosedRunsAreRequested'
  <2> SUFFICES ASSUME IsClosed', term' = "none", "died" \notin history'
               PROVE  \E u \in Tasks : Asking(tasks'[u])
    BY DEF ClosedRunsAreRequested, ToBeRequested, Asking
  <2>1. CASE Asking(x)
    BY <1>1, <2>1
  <2>2. CASE ~Asking(x)
    <3>1. IsClosed /\ term = "none" /\ "died" \notin history
      BY <2>2 DEF IsClosed
    <3>2. PICK u \in Tasks : Asking(tasks[u])
      BY <3>1 DEF Asked, ClosedRunsAreRequested, ToBeRequested, Asking
    <3>3. u # t
      BY <2>2, <3>2
    <3> QED BY <1>1, <3>2, <3>3
  <2> QED BY <2>1, <2>2
<1> QED BY <1>2, <1>3 DEF Asked

\* A step that leaves the tasks alone, closes nothing and withdraws nothing.
LEMMA NoTaskMoves ==
    ASSUME TypeOK, Asked, UNCHANGED tasks, term # "none" => term' # "none",
           run'.status \in {"completed", "failed"} => IsClosed,
           history \subseteq history'
    PROVE  Asked'
<1>1. \A u \in Tasks : TaskKnows(tasks[u])'
  BY DEF Asked, TaskKnows
<1>2. ClosedRunsAreRequested'
  BY DEF Asked, ClosedRunsAreRequested, ToBeRequested, IsClosed
<1> QED BY <1>1, <1>2 DEF Asked

\* Time, pods, waiters and the termination service.
LEMMA OthersAsked ==
    ASSUME TypeOK, Asked,
           Clock \/ Cleaner \/ \E p \in Pods : PodStep(p) \/ WaiterWrites(p)
    PROVE  Asked'
<1> USE DEF rowVars, podVars, cleanVars, logVars
<1>1. run \in Runs
  BY DEF TypeOK
<1>2. CASE Clock
  <2>1. run'.status = run.status /\ UNCHANGED <<tasks, term, history>>
    BY <1>1, <1>2 DEF Clock, DeadlinePasses, HeartbeatLapses, RuntimeExpires, Runs
  <2> QED BY <2>1, NoTaskMoves DEF IsClosed
<1>3. CASE Cleaner
  <2>1. /\ UNCHANGED <<run, tasks>> /\ history \subseteq history'
        /\ term # "none" => term' # "none"
    BY <1>3 DEF Cleaner, CleanerReads, CleanerDeletes, CleanerIsRefused, CleanerCloses
  <2> QED BY <2>1, NoTaskMoves DEF IsClosed
<1>4. ASSUME NEW p \in Pods, PodStep(p) PROVE Asked'
  <2>1. UNCHANGED <<run, tasks, term, history>>
    BY <1>4 DEF PodStep, PodStarts, PodIsShort, PodFinishes, PodFails
  <2> QED BY <2>1, NoTaskMoves DEF IsClosed
<1>5. ASSUME NEW p \in Pods, WaiterWrites(p) PROVE Asked'
  <2>1. /\ run'.status = run.status /\ UNCHANGED <<tasks, term>>
        /\ history \subseteq history'
    BY <1>1, <1>5 DEF WaiterWrites, Runs
  <2> QED BY <2>1, NoTaskMoves DEF IsClosed
<1> QED BY <1>2, <1>3, <1>4, <1>5

\* A task that begins.
LEMMA FreshTask ==
    ASSUME NEW kind, NEW pc
    PROVE  /\ [NoTask EXCEPT !.kind = kind, !.pc = pc].kind = kind
           /\ [NoTask EXCEPT !.kind = kind, !.pc = pc].pc = pc
           /\ [NoTask EXCEPT !.kind = kind, !.pc = pc].then = "idle"
           /\ \A p, n, then :
                 LET x == [NoTask EXCEPT !.kind = kind, !.pc = pc, !.pod = p,
                                         !.restarts = n, !.then = then]
                 IN  x.kind = kind /\ x.pc = pc /\ x.then = then
  BY DEF NoTask

\* A task that begins knows what it has to, and has asked for nothing yet.
LEMMA FreshTaskAsked ==
    ASSUME TypeOK, Asked, NEW t \in Tasks, NEW x,
           tasks' = [tasks EXCEPT ![t] = x],
           UNCHANGED <<run, term, history>>, TaskAt(t, "idle"),
           x.pc \in {"read", "write"} => x.kind # "stop",
           x.then \in {"idle", "fail", "poll"}
    PROVE  Asked'
<1>1. TaskKnows(x)'
  BY DEF TaskKnows
<1>2. ~Asking(tasks[t])
  BY DEF TaskAt, Asking
<1> QED BY <1>1, <1>2, OneTaskMoves DEF IsClosed

\* Requests are taken by idle tasks, and a check begins in one.
LEMMA BeginningsAsked ==
    ASSUME TypeOK, Asked, NEW t \in Tasks,
           Requests(t) \/ (CheckRun /\ t = Monitor)
    PROVE  Asked'
<1> USE DEF rowVars, podVars, cleanVars, logVars
<1>1. CASE LaunchRequested(t)
  <2> DEFINE x == [NoTask EXCEPT !.kind = "launch", !.pc = "launch"]
  <2>1. x.pc = "launch" /\ x.then = "idle"
    BY FreshTask
  <2>2. tasks' = [tasks EXCEPT ![t] = x] /\ UNCHANGED <<run, term, history>> /\ TaskAt(t, "idle")
    BY <1>1 DEF LaunchRequested
  <2> HIDE DEF x
  <2> QED BY <2>1, <2>2, FreshTaskAsked
<1>2. CASE StopRequested(t)
  <2> DEFINE x == [NoTask EXCEPT !.kind = "stop",
                                 !.pc = IF IsActive THEN "enqueue_stop" ELSE "enqueue"]
  <2>1. x.pc \in {"enqueue_stop", "enqueue"} /\ x.then = "idle"
    BY FreshTask
  <2>2. tasks' = [tasks EXCEPT ![t] = x] /\ UNCHANGED <<run, term, history>> /\ TaskAt(t, "idle")
    BY <1>2 DEF StopRequested
  <2> HIDE DEF x
  <2> QED BY <2>1, <2>2, FreshTaskAsked
<1>3. ASSUME NEW kind, kind # "stop", UNCHANGED <<run, term, history>>, TaskAt(t, "idle"),
             tasks' = [tasks EXCEPT ![t] = [NoTask EXCEPT !.kind = kind, !.pc = "read"]]
      PROVE  Asked'
  <2> DEFINE x == [NoTask EXCEPT !.kind = kind, !.pc = "read"]
  <2>1. x.kind = kind /\ x.then = "idle"
    BY FreshTask
  <2>2. tasks' = [tasks EXCEPT ![t] = x]
    BY <1>3
  <2> HIDE DEF x
  <2> QED BY <1>3, <2>1, <2>2, FreshTaskAsked
<1>4. ASSUME NEW call \in mail, WebhookArrives(t, call) PROVE Asked'
  <2>1. call.kind \in Webhooks
    BY DEF TypeOK, Calls
  <2>2. call.kind # "stop"
    BY <2>1 DEF Webhooks
  <2> QED BY <1>3, <1>4, <2>2 DEF WebhookArrives
<1>5. ASSUME NEW p \in Pods, HeartbeatArrives(t, p) PROVE Asked'
  BY <1>3, <1>5 DEF HeartbeatArrives
<1>6. CASE CheckRun /\ t = Monitor
  <2>1. /\ CheckPoint \in {"give_up", "delete_old", "fail", "idle", "poll", "backfill"}
        /\ HeartbeatPoint \in {"fail", "idle", "poll"}
    BY PointsTyped
  <2>2. UNCHANGED <<run, term, history>> /\ TaskAt(t, "idle")
    BY <1>6 DEF CheckRun
  <2>3. CASE CheckPoint \in {"fail", "give_up"}
    <3> DEFINE x == [NoTask EXCEPT !.kind = "monitor", !.pc = CheckPoint]
    <3>1. x.pc = CheckPoint /\ x.then = "idle"
      BY FreshTask
    <3>2. tasks' = [tasks EXCEPT ![t] = x]
      BY <1>6, <2>3 DEF CheckRun
    <3> HIDE DEF x
    <3> QED BY <2>1, <2>2, <3>1, <3>2, FreshTaskAsked
  <2>4. CASE CheckPoint \notin {"fail", "give_up"}
    <3> DEFINE next == IF CheckPoint = "backfill" THEN HeartbeatPoint ELSE "idle"
               x == [NoTask EXCEPT !.kind = "monitor", !.pc = CheckPoint,
                          !.pod = run.pod, !.restarts = run.restarts, !.then = next]
    <3>1. next \in {"idle", "fail", "poll"}
      BY <2>1
    <3>2. tasks' = [tasks EXCEPT ![t] = x]
      BY <1>6, <2>4 DEF CheckRun
    <3> HIDE DEF next
    <3>3. x.pc = CheckPoint /\ x.then = next
      BY FreshTask
    <3> HIDE DEF x
    <3> QED BY <2>1, <2>2, <3>1, <3>2, <3>3, FreshTaskAsked
  <2> QED BY <2>3, <2>4
<1> QED BY <1>1, <1>2, <1>4, <1>5, <1>6 DEF Requests

\* A task goes on to another point.
LEMMA MoveAsked ==
    ASSUME TypeOK, Asked, NEW t \in Tasks, NEW pc, TaskGoes(t, pc), pc # "read",
           pc = "write" => tasks[t].kind # "stop" \/ term' # "none",
           term # "none" => term' # "none", history \subseteq history',
           run'.status \in {"completed", "failed"} =>
              IsClosed \/ pc = "enqueue" \/ term' # "none",
           Asking(tasks[t]) => pc \in {"fail", "give_up", "enqueue"} \/ term' # "none"
    PROVE  Asked'
<1> DEFINE x == [tasks[t] EXCEPT !.pc = pc]
<1>1. tasks[t] \in TaskStates /\ TaskKnows(tasks[t])
  BY DEF TypeOK, Asked
<1>2. x.pc = pc /\ x.kind = tasks[t].kind /\ x.then = tasks[t].then
  BY <1>1 DEF TaskStates
<1>3. tasks' = [tasks EXCEPT ![t] = x]
  BY DEF TaskGoes, TypeOK
<1> HIDE DEF x
<1>4. PICK y : y = x
  OBVIOUS
<1>5. TaskKnows(y)'
  BY <1>1, <1>2, <1>4 DEF TaskKnows
<1>6. tasks' = [tasks EXCEPT ![t] = y]
  BY <1>3, <1>4
<1>7. Asking(y) <=> pc \in {"fail", "give_up", "enqueue"}
  BY <1>2, <1>4 DEF Asking
<1> QED BY <1>5, <1>6, <1>7, OneTaskMoves

\* A task ends.
LEMMA EndAsked ==
    ASSUME TypeOK, Asked, NEW t \in Tasks, TaskEnds(t),
           term # "none" => term' # "none", history \subseteq history',
           run'.status \in {"completed", "failed"} =>
              IsClosed \/ term' # "none" \/ "died" \in history',
           Asking(tasks[t]) => term' # "none" \/ "died" \in history'
    PROVE  Asked'
<1>1. TaskKnows(NoTask)'
  BY DEF TaskKnows, NoTask
<1>2. tasks' = [tasks EXCEPT ![t] = NoTask]
  BY DEF TaskEnds
<1> HIDE DEF NoTask
<1> QED BY <1>1, <1>2, OneTaskMoves

\* A task resumes its check after the backfill.
LEMMA ResumeAsked ==
    ASSUME TypeOK, Asked, NEW t \in Tasks, Resume(t), ~Asking(tasks[t]),
           UNCHANGED term, history \subseteq history',
           run'.status \in {"completed", "failed"} => IsClosed
    PROVE  Asked'
<1>1. tasks[t].then \in {"idle", "fail", "poll"}
  BY DEF Asked, TaskKnows
<1>2. CASE tasks[t].then = "idle"
  BY <1>2, EndAsked DEF Resume
<1>3. CASE tasks[t].then # "idle"
  BY <1>1, <1>3, MoveAsked DEF Resume
<1> QED BY <1>2, <1>3

\* Every step of a task keeps closed runs asked for.
LEMMA TaskStepAsked ==
    ASSUME TypeOK, Asked, NEW t \in Tasks, TaskStep(t) \/ TaskDies(t)
    PROVE  Asked'
<1> USE DEF rowVars, podVars, cleanVars, logVars
<1>1. run \in Runs /\ tasks[t] \in TaskStates /\ TaskKnows(tasks[t])
  BY DEF TypeOK, Asked
<1>2. CASE TaskDies(t)
  BY <1>2, EndAsked DEF TaskDies, IsClosed
<1>3. CASE ReadRow(t)
  <2>1. UNCHANGED <<run, term, history>> /\ ~Asking(tasks[t]) /\ tasks[t].kind # "stop"
    BY <1>1, <1>3 DEF ReadRow, TaskAt, Asking, TaskKnows
  <2> DEFINE next == CASE tasks[t].kind = "shortage" -> RestartPoint(run.restarts)
                       [] tasks[t].kind = "beat" /\ ~IsActive -> "idle"
                       [] OTHER -> "write"
             x == CASE next = "idle"       -> NoTask
                    [] next = "delete_old" -> [tasks[t] EXCEPT !.pc = next,
                                    !.pod = run.pod, !.restarts = run.restarts]
                    [] OTHER               -> [tasks[t] EXCEPT !.pc = next]
  <2>2. next \in {"give_up", "delete_old", "idle", "write"}
    BY DEF RestartPoint
  <2>3. tasks' = [tasks EXCEPT ![t] = x]
    BY <1>3 DEF ReadRow, TypeOK
  <2> HIDE DEF next
  <2>4. x.pc # "read" /\ x.kind # "stop" /\ x.then \in {"idle", "fail", "poll"}
    <3>1. CASE next = "idle"
      BY <3>1 DEF NoTask
    <3>2. CASE next = "delete_old"
      BY <1>1, <2>1, <3>2 DEF TaskStates, TaskKnows
    <3>3. CASE next \in {"give_up", "write"}
      BY <1>1, <2>1, <3>3 DEF TaskStates, TaskKnows
    <3> QED BY <2>2, <3>1, <3>2, <3>3
  <2> HIDE DEF x
  <2>5. PICK y : y = x
    OBVIOUS
  <2>6. TaskKnows(y)' /\ tasks' = [tasks EXCEPT ![t] = y]
    BY <2>3, <2>4, <2>5 DEF TaskKnows
  <2> QED BY <2>1, <2>6, OneTaskMoves DEF IsClosed
<1>4. CASE WriteRow(t)
  <2>1. UNCHANGED <<term, history>> /\ ~Asking(tasks[t])
    BY <1>4 DEF WriteRow, TaskAt, Asking
  <2>2. CASE tasks[t].kind = "finished"
    <3>1. TaskGoes(t, "enqueue")
      BY <1>4, <2>2 DEF WriteRow
    <3> QED BY <2>1, <2>2, <3>1, MoveAsked
  <2>3. CASE tasks[t].kind # "finished"
    <3>1. /\ TaskEnds(t)
          /\ \/ tasks[t].kind = "stop"
             \/ run' = [run EXCEPT !.status = "running", !.beat = "fresh",
                                   !.deadline = "ahead"]
             \/ run' = [run EXCEPT !.beat = "fresh"]
      BY <1>4, <2>3 DEF WriteRow
    <3>2. tasks[t].kind = "stop" => term # "none"
      BY <1>1, <1>4 DEF WriteRow, TaskAt, TaskKnows
    <3>3. run'.status \in {"completed", "failed"} => IsClosed \/ term # "none"
      BY <1>1, <3>1, <3>2 DEF Runs, IsClosed
    <3> QED BY <2>1, <3>1, <3>3, EndAsked
  <2> QED BY <2>2, <2>3
<1>5. CASE Enqueue(t)
  <2>1. UNCHANGED <<run, history>> /\ term' # "none"
    BY <1>5 DEF Enqueue
  <2> QED BY <1>5, <2>1, EndAsked, MoveAsked DEF Enqueue
<1>6. CASE FailRun(t)
  BY <1>6, MoveAsked DEF FailRun
<1>7. CASE Backfill(t)
  <2>1. UNCHANGED <<run, term, history>> /\ ~Asking(tasks[t])
    BY <1>7 DEF Backfill, TaskAt, Asking
  <2> QED BY <1>7, <2>1, MoveAsked, ResumeAsked DEF Backfill, IsClosed
<1>8. CASE BackfillWrite(t)
  <2>1. /\ UNCHANGED term /\ history \subseteq history' /\ ~Asking(tasks[t])
        /\ run'.status = run.status
    BY <1>1, <1>8 DEF BackfillWrite, TaskAt, Asking, Runs
  <2> QED BY <1>8, <2>1, ResumeAsked DEF BackfillWrite, IsClosed
<1>9. CASE PollPod(t) \/ LaunchFails(t)
  <2>1. UNCHANGED <<run, term, history>> /\ ~Asking(tasks[t])
    BY <1>9 DEF PollPod, LaunchFails, TaskAt, Asking
  <2>2. RestartPoint(tasks[t].restarts) \in {"give_up", "delete_old"}
    BY DEF RestartPoint
  <2> QED BY <1>9, <2>1, <2>2, MoveAsked, EndAsked DEF PollPod, LaunchFails, IsClosed
<1>10. CASE DeleteOldPod(t)
  <2>1. UNCHANGED <<run, term>> /\ history \subseteq history' /\ ~Asking(tasks[t])
    BY <1>10 DEF DeleteOldPod, TaskAt, Asking
  <2> QED BY <1>10, <2>1, MoveAsked DEF DeleteOldPod, IsClosed
<1>11. CASE LaunchPod(t)
  <2>1. UNCHANGED <<run, term, history>> /\ ~Asking(tasks[t])
    BY <1>11 DEF LaunchPod, TaskAt, Asking
  <2>2. PICK p \in Pods : tasks' = [tasks EXCEPT ![t] = [tasks[t] EXCEPT !.fresh = p,
           !.pc = IF tasks[t].kind = "launch" THEN "insert" ELSE "update"]]
    BY <1>11 DEF LaunchPod, TypeOK
  <2> DEFINE x == [tasks[t] EXCEPT !.fresh = p,
           !.pc = IF tasks[t].kind = "launch" THEN "insert" ELSE "update"]
  <2>3. x.pc \in {"insert", "update"} /\ x.then = tasks[t].then
    BY <1>1 DEF TaskStates
  <2> HIDE DEF x
  <2>4. PICK y : y = x
    OBVIOUS
  <2>5. TaskKnows(y)' /\ tasks' = [tasks EXCEPT ![t] = y]
    BY <1>1, <2>2, <2>3, <2>4 DEF TaskKnows, x
  <2> QED BY <2>1, <2>5, OneTaskMoves DEF IsClosed
<1>12. CASE InsertRow(t) \/ UpdateRow(t)
  <2>1. /\ UNCHANGED term /\ history \subseteq history' /\ ~Asking(tasks[t])
        /\ TaskGoes(t, "spawn")
    BY <1>12 DEF InsertRow, UpdateRow, TaskAt, Asking
  <2>2. run'.status = "initializing"
    BY <1>1, <1>12 DEF InsertRow, UpdateRow, Runs, NoRun
  <2> QED BY <2>1, <2>2, MoveAsked
<1>13. CASE SpawnWaiter(t)
  <2>1. UNCHANGED <<run, term, history>> /\ ~Asking(tasks[t])
    BY <1>13 DEF SpawnWaiter, TaskAt, Asking
  <2> QED BY <1>13, <2>1, EndAsked DEF SpawnWaiter, IsClosed
<1> QED BY <1>2, <1>3, <1>4, <1>5, <1>6, <1>7, <1>8, <1>9, <1>10, <1>11, <1>12, <1>13
        DEF TaskStep

\* A closed run has its termination requested, or a task is about to request
\* it, unless a task was lost: however stops, webhooks, checks and restarts of
\* the run overlap.
THEOREM ClosedAreRequested == Spec => []ClosedRunsAreRequested
<1>1. Init => TypeOK /\ Asked
  <2> SUFFICES ASSUME Init PROVE Asked
    BY InitTyped
  <2> QED BY DEF Init, NoRun, NoTask, Asked, TaskKnows, ClosedRunsAreRequested, IsClosed
<1>2. TypeOK /\ Asked /\ [Next]_vars => TypeOK' /\ Asked'
  <2> SUFFICES ASSUME TypeOK, Asked, [Next]_vars PROVE Asked'
    BY StepTyped
  <2>1. CASE Clock \/ Cleaner \/ \E p \in Pods : PodStep(p) \/ WaiterWrites(p)
    BY <2>1, OthersAsked
  <2>2. CASE CheckRun \/ \E t \in Handlers : Requests(t)
    BY <2>2, BeginningsAsked DEF Tasks
  <2>3. CASE \E t \in Tasks : TaskStep(t) \/ TaskDies(t)
    BY <2>3, TaskStepAsked
  <2>4. CASE UNCHANGED vars
    BY <2>4, NoTaskMoves DEF vars, IsClosed
  <2> QED BY <2>1, <2>2, <2>3, <2>4 DEF Next
<1>3. Asked => ClosedRunsAreRequested
  BY DEF Asked
<1> QED BY <1>1, <1>2, <1>3, PTL DEF Spec

-----------------------------------------------------------------------------
(* Pods that nobody will delete.                                            *)

Known(p)      == p \in Pods => pods[p] # "absent"
Launching(x)  == x.kind = "launch" /\ x.pc \in {"launch", "insert"}
Restarting(x) == x.kind # "launch" /\ x.pc \in {"launch", "update"}
Holding(x)    == x.pc \in {"insert", "update"}

\* The pods a task names exist or have existed, the one it replaces is gone, a
\* launch is of a run without a row, and only a launch is there before the row.
TaskFits(x) ==
    /\ Known(x.pod)
    /\ Holding(x) => x.fresh \in Pods /\ Known(x.fresh)
    /\ x.pc = "insert" => x.kind = "launch"
    /\ x.pc = "update" => x.kind # "launch"
    /\ x.pc = "write" /\ x.kind = "stop" => term # "none"
    /\ x.pc = "read" => x.kind # "launch" /\ x.kind # "stop"
    /\ x.kind = "launch" => x.pc \in {"launch", "insert", "spawn"}
    /\ Launching(x) => run.status = "none"
    /\ run.status = "none" => x.pc = "idle" \/ Launching(x)
    /\ history = {} /\ Restarting(x) /\ x.pod \in Pods => pods[x.pod] = "gone"
    /\ x.then \in {"idle", "fail", "poll"}

\* The same of the row, the waiters and the termination service, whose job is
\* about the pod the row names as long as nothing went wrong.
RowFits ==
    /\ Known(run.pod) /\ Known(cleaner.pod)
    /\ \A p \in Pods : waiters[p] = "waiting" => Known(p)
    /\ run.status = "none" =>
          /\ run.pod = NoPod /\ run.token = NoPod /\ term = "none" /\ cleaner.pc = "idle"
          /\ \A p \in Pods : waiters[p] = "none"
    /\ history = {} =>
          /\ cleaner.pc # "idle" => term = "open" /\ cleaner.pod = run.pod
          /\ cleaner.pc = "close" /\ cleaner.pod \in Pods => pods[cleaner.pod] = "gone"

OneLaunch ==
    \A t, u \in Tasks : Launching(tasks[t]) /\ Launching(tasks[u]) => t = u

AllAccounted == history = {} => \A p \in Pods : Existing(p) => Accounted(p)

Kept ==
    /\ \A t \in Tasks : TaskFits(tasks[t])
    /\ RowFits
    /\ OneLaunch
    /\ AllAccounted

USE DEF rowVars, podVars, cleanVars, logVars

\* What no step takes back.
Onward ==
    /\ \A p \in Pods : /\ pods[p] # "absent" => pods'[p] # "absent"
                       /\ pods[p] = "gone" => pods'[p] = "gone"
    /\ term # "none" => term' # "none"
    /\ history \subseteq history'

\* A task that does not move fits as long as the row is there or is not.
LEMMA FitsOn ==
    ASSUME Onward, NEW x, TaskFits(x), run.status = "none" <=> run'.status = "none"
    PROVE  TaskFits(x)'
BY DEF Onward, TaskFits, Known, Holding, Launching, Restarting

\* The row, when neither its pod nor a request or a waiter is written.
LEMMA RowFitsOn ==
    ASSUME Onward, RowFits, run'.pod = run.pod, run'.token = run.token,
           run.status = "none" <=> run'.status = "none",
           UNCHANGED <<term, cleaner, waiters>>
    PROVE  RowFits'
BY DEF Onward, RowFits, Known

\* The deletion of the row's pod is not yet made, nor given up.
Due == term \in {"none", "open"}

\* Every pod stays accounted for, if a task that holds none moves, the row names the
\* pod it named, and a request that is due is still due or made.
LEMMA AccountedOn ==
    ASSUME TypeOK, Kept, NEW t \in Tasks, NEW x, tasks' = [tasks EXCEPT ![t] = x],
           history \subseteq history',
           history' = {} =>
              /\ run'.pod = run.pod /\ ~Holding(tasks[t])
              /\ (IsActive /\ Due => IsActive' \/ Asking(x) \/ term' = "open")
              /\ (Asking(tasks[t]) /\ Due => Asking(x) \/ term' = "open")
              /\ term = "none" => term' \in {"none", "open"}
              /\ term = "open" => term' = "open"
              /\ \A p \in Pods : Existing(p)' => Existing(p) \/ (Holding(x) /\ x.fresh = p)
    PROVE  AllAccounted'
<1> SUFFICES ASSUME NEW p \in Pods, Existing(p)', history' = {}
             PROVE  Accounted(p)'
  BY DEF AllAccounted
<1>1. history = {} /\ tasks'[t] = x /\ \A u \in Tasks : u # t => tasks'[u] = tasks[u]
  BY DEF TypeOK
<1>2. CASE Holding(x) /\ x.fresh = p
  BY <1>1, <1>2 DEF Accounted, Holding
<1>3. CASE Existing(p)
  <2>1. Accounted(p)
    BY <1>1, <1>3 DEF Kept, AllAccounted
  <2>2. CASE \E u \in Tasks : tasks[u].fresh = p /\ tasks[u].pc \in {"insert", "update"}
    <3>1. PICK u \in Tasks : tasks[u].fresh = p /\ tasks[u].pc \in {"insert", "update"}
      BY <2>2
    <3>2. u # t
      BY <3>1 DEF Holding
    <3> QED BY <1>1, <3>1, <3>2 DEF Accounted
  <2>3. CASE /\ run.pod = p /\ term \in {"none", "open"}
             /\ IsActive \/ term = "open" \/ ToBeRequested
    <3>1. run'.pod = p /\ term' \in {"none", "open"}
      BY <2>3
    <3>2. ToBeRequested => ToBeRequested' \/ term' = "open"
      BY <1>1, <2>3 DEF ToBeRequested, Asking, Due
    <3>3. Asking(x) => ToBeRequested'
      BY <1>1 DEF ToBeRequested, Asking
    <3> QED BY <2>3, <3>1, <3>2, <3>3 DEF Accounted, Due
  <2> QED BY <2>1, <2>2, <2>3 DEF Accounted
<1> QED BY <1>2, <1>3

\* All of it, for a task that moves without a word about the row's pod.
LEMMA KeptOn ==
    ASSUME TypeOK, Kept, Onward, NEW t \in Tasks, NEW x, tasks' = [tasks EXCEPT ![t] = x],
           run.status = "none" <=> run'.status = "none",
           TaskFits(x)', Launching(x) => Launching(tasks[t]), RowFits',
           history' = {} =>
              /\ run'.pod = run.pod /\ ~Holding(tasks[t])
              /\ (IsActive /\ Due => IsActive' \/ Asking(x) \/ term' = "open")
              /\ (Asking(tasks[t]) /\ Due => Asking(x) \/ term' = "open")
              /\ term = "none" => term' \in {"none", "open"}
              /\ term = "open" => term' = "open"
              /\ \A p \in Pods : Existing(p)' => Existing(p) \/ (Holding(x) /\ x.fresh = p)
    PROVE  Kept'
<1>1. tasks'[t] = x /\ \A u \in Tasks : u # t => tasks'[u] = tasks[u]
  BY DEF TypeOK
<1>2. \A u \in Tasks : TaskFits(tasks[u])'
  <2> TAKE u \in Tasks
  <2>1. CASE u = t
    BY <1>1, <2>1 DEF TaskFits, Known, Holding, Launching, Restarting
  <2>2. CASE u # t
    <3>1. TaskFits(tasks[u])
      BY DEF Kept
    <3>2. PICK y : y = tasks[u]
      OBVIOUS
    <3>3. TaskFits(y)'
      BY <3>1, <3>2, FitsOn
    <3> QED BY <1>1, <2>2, <3>2, <3>3
  <2> QED BY <2>1, <2>2
<1>3. OneLaunch'
  BY <1>1 DEF Kept, OneLaunch, Launching
<1>4. AllAccounted'
  BY AccountedOn DEF Onward
<1> QED BY <1>2, <1>3, <1>4 DEF Kept

\* A step that moves no task.
LEMMA KeptStill ==
    ASSUME TypeOK, Kept, Onward, UNCHANGED tasks,
           run.status = "none" <=> run'.status = "none", RowFits',
           history' = {} =>
              /\ run'.pod = run.pod
              /\ IsActive => IsActive'
              /\ UNCHANGED term
              /\ \A p \in Pods : Existing(p)' => Existing(p)
    PROVE  Kept'
<1>1. \A u \in Tasks : TaskFits(tasks[u])'
  <2> TAKE u \in Tasks
  <2>1. PICK y : y = tasks[u]
    OBVIOUS
  <2>2. TaskFits(y)'
    BY <2>1, FitsOn DEF Kept
  <2> QED BY <2>1, <2>2
<1>2. OneLaunch'
  BY DEF Kept, OneLaunch
<1>3. Monitor \in Tasks
  BY DEF Tasks
<1>4. tasks' = [tasks EXCEPT ![Monitor] = tasks[Monitor]]
  BY <1>3 DEF TypeOK
<1>5. AllAccounted'
  <2> SUFFICES ASSUME NEW p \in Pods, Existing(p)', history' = {}
               PROVE  Accounted(p)'
    BY DEF AllAccounted
  <2>1. Accounted(p)
    BY DEF Kept, AllAccounted, Onward
  <2> QED BY <2>1 DEF Accounted, ToBeRequested
<1> QED BY <1>1, <1>2, <1>5 DEF Kept

\* Time, pods, waiters and the termination service.
LEMMA OthersKept ==
    ASSUME TypeOK, Kept,
           Clock \/ Cleaner \/ \E p \in Pods : PodStep(p) \/ WaiterWrites(p)
    PROVE  Kept'
<1>1. run \in Runs /\ RowFits /\ pods \in [Pods -> PodStates]
  BY DEF TypeOK, Kept
<1>2. CASE Clock
  <2>1. /\ run'.status = run.status /\ run'.pod = run.pod /\ run'.token = run.token
        /\ UNCHANGED <<pods, tasks, waiters, term, cleaner, history>>
    BY <1>1, <1>2 DEF Clock, DeadlinePasses, HeartbeatLapses, RuntimeExpires, Runs
  <2>2. Onward
    BY <2>1 DEF Onward
  <2>3. RowFits'
    BY <1>1, <2>1, <2>2, RowFitsOn
  <2> QED BY <2>1, <2>2, <2>3, KeptStill DEF IsActive, Existing
<1>3. CASE CleanerReads
  <2>1. /\ term = "open" /\ cleaner'.pc = "delete" /\ cleaner'.pod = run.pod
        /\ UNCHANGED <<run, pods, tasks, waiters, term, history>>
    BY <1>3 DEF CleanerReads
  <2>2. Onward
    BY <2>1 DEF Onward
  <2>3. RowFits'
    BY <1>1, <2>1 DEF RowFits, Known
  <2> QED BY <2>1, <2>2, <2>3, KeptStill DEF IsActive, Existing
<1>4. CASE CleanerDeletes
  <2>1. /\ cleaner.pc = "delete" /\ cleaner'.pc = "close" /\ cleaner'.pod = cleaner.pod
        /\ pods' = WithoutPod(cleaner.pod)
        /\ UNCHANGED <<run, tasks, waiters, term, history>>
    BY <1>4 DEF CleanerDeletes, TypeOK
  <2>2. \A p \in Pods : pods'[p] = IF p = cleaner.pod /\ Existing(p) THEN "gone" ELSE pods[p]
    BY <2>1 DEF WithoutPod
  <2>3. Onward
    BY <2>1, <2>2 DEF Onward
  <2>4. RowFits'
    BY <1>1, <2>1, <2>2 DEF RowFits, Known, Existing
  <2>5. \A p \in Pods : Existing(p)' => Existing(p)
    BY <2>2 DEF Existing
  <2> QED BY <2>1, <2>3, <2>4, <2>5, KeptStill DEF IsActive
<1>5. CASE CleanerIsRefused
  <2>1. /\ cleaner.pc = "delete" /\ cleaner'.pc = "idle" /\ cleaner'.pod = NoPod
        /\ history' # {} /\ history \subseteq history' /\ term' # "none"
        /\ UNCHANGED <<run, pods, tasks, waiters>>
    BY <1>5 DEF CleanerIsRefused
  <2>2. Onward
    BY <2>1 DEF Onward
  <2>3. RowFits'
    BY <1>1, <2>1, ConstantsAssumption DEF RowFits, Known
  <2> QED BY <2>1, <2>2, <2>3, KeptStill
<1>6. CASE CleanerCloses
  <2>1. /\ cleaner.pc = "close" /\ cleaner'.pc = "idle" /\ cleaner'.pod = NoPod
        /\ term' = "terminated" /\ UNCHANGED <<run, pods, tasks, waiters, history>>
    BY <1>6 DEF CleanerCloses
  <2>2. Onward
    BY <2>1 DEF Onward
  <2>3. RowFits'
    BY <1>1, <2>1, ConstantsAssumption DEF RowFits, Known
  <2>4. \A u \in Tasks : TaskFits(tasks[u])'
    <3> TAKE u \in Tasks
    <3>1. PICK y : y = tasks[u]
      OBVIOUS
    <3>2. TaskFits(y)'
      BY <2>1, <2>2, <3>1, FitsOn DEF Kept
    <3> QED BY <2>1, <3>1, <3>2
  <2>5. AllAccounted'
    <3> SUFFICES ASSUME NEW p \in Pods, Existing(p)', history' = {}
                 PROVE  Accounted(p)'
      BY DEF AllAccounted
    <3>1. Accounted(p) /\ Existing(p) /\ history = {}
      BY <2>1 DEF Kept, AllAccounted, Existing
    <3>2. run.pod # p
      BY <1>1, <2>1, <3>1 DEF RowFits, Existing
    <3> QED BY <2>1, <3>1, <3>2 DEF Accounted
  <2> QED BY <2>1, <2>3, <2>4, <2>5 DEF Kept, OneLaunch
<1>7. ASSUME NEW p \in Pods, PodStep(p)
      PROVE  Kept'
  <2>1. /\ UNCHANGED <<run, tasks, waiters, term, cleaner, history>>
        /\ pods[p] \in AlivePods
        /\ \E s \in AlivePods \cup {"exited", "gone"} : pods' = [pods EXCEPT ![p] = s]
    BY <1>7 DEF PodStep, PodStarts, PodIsShort, PodFinishes, PodFails, AlivePods
  <2>2. /\ \A q \in Pods : q # p => pods'[q] = pods[q]
        /\ pods'[p] # "absent" /\ Existing(p)
    BY <1>1, <2>1 DEF AlivePods, Existing
  <2>3. Onward
    BY <2>1, <2>2 DEF Onward, Existing
  <2>4. RowFits'
    BY <1>1, <2>1, <2>3, RowFitsOn
  <2>5. \A q \in Pods : Existing(q)' => Existing(q)
    BY <2>2 DEF Existing
  <2> QED BY <2>1, <2>3, <2>4, <2>5, KeptStill DEF IsActive
<1>8. ASSUME NEW p \in Pods, WaiterWrites(p)
      PROVE  Kept'
  <2>1. /\ run'.status = run.status /\ run'.pod = p /\ run'.token = run.token
        /\ waiters[p] = "waiting" /\ waiters'[p] = "none"
        /\ \A q \in Pods : q # p => waiters'[q] = waiters[q]
        /\ history \subseteq history' /\ (history' = {} => run.pod = p)
        /\ UNCHANGED <<pods, tasks, term, cleaner>>
    BY <1>1, <1>8 DEF WaiterWrites, Runs, Repointed, TypeOK
  <2>2. Onward
    BY <2>1 DEF Onward
  <2>3. RowFits'
    <3>1. run.status # "none"
      BY <1>1, <2>1 DEF RowFits
    <3>2. Known(p)
      BY <1>1, <2>1 DEF RowFits
    <3>3. history' = {} => history = {} /\ run'.pod = run.pod
      BY <2>1
    <3> QED BY <1>1, <2>1, <3>1, <3>2, <3>3 DEF RowFits, Known
  <2> QED BY <2>1, <2>2, <2>3, KeptStill DEF IsActive, Existing
<1> QED BY <1>2, <1>3, <1>4, <1>5, <1>6, <1>7, <1>8 DEF Cleaner

\* A task of another pc, or one that is over.
LEMMA Moved ==
    ASSUME TypeOK, NEW t \in Tasks, NEW pc, TaskGoes(t, pc)
    PROVE  \E x : /\ tasks' = [tasks EXCEPT ![t] = x]
                  /\ x.pc = pc /\ x.kind = tasks[t].kind /\ x.pod = tasks[t].pod
                  /\ x.fresh = tasks[t].fresh /\ x.then = tasks[t].then
<1> DEFINE x == [tasks[t] EXCEPT !.pc = pc]
<1>1. tasks[t] \in TaskStates
  BY DEF TypeOK
<1>2. /\ x.pc = pc /\ x.kind = tasks[t].kind /\ x.pod = tasks[t].pod
      /\ x.fresh = tasks[t].fresh /\ x.then = tasks[t].then
  BY <1>1 DEF TaskStates
<1>3. tasks' = [tasks EXCEPT ![t] = x]
  BY Zenon DEF TaskGoes
<1> QED BY <1>2, <1>3

LEMMA NoTaskFits ==
    ASSUME NEW x, x.pc = "idle", x.kind # "launch", x.pod = NoPod, x.then = "idle"
    PROVE  TaskFits(x) /\ ~Launching(x) /\ ~Holding(x) /\ ~Asking(x)
BY ConstantsAssumption DEF TaskFits, Launching, Restarting, Holding, Known, Asking

LEMMA Over ==
    ASSUME NEW t \in Tasks, TaskEnds(t)
    PROVE  \E x : /\ tasks' = [tasks EXCEPT ![t] = x]
                  /\ x.pc = "idle" /\ x.kind # "launch" /\ x.pod = NoPod /\ x.then = "idle"
<1>1. PICK x : x = NoTask
  OBVIOUS
<1>2. x.pc = "idle" /\ x.kind # "launch" /\ x.pod = NoPod /\ x.then = "idle"
  BY <1>1 DEF NoTask
<1>3. tasks' = [tasks EXCEPT ![t] = x]
  BY <1>1 DEF TaskEnds
<1> QED BY <1>2, <1>3

\* A task that ends, when it holds no pod and nothing is left to be requested.
LEMMA EndKept ==
    ASSUME TypeOK, Kept, Onward, NEW t \in Tasks, TaskEnds(t),
           run.status = "none" <=> run'.status = "none", RowFits',
           history' = {} =>
              /\ run'.pod = run.pod /\ ~Holding(tasks[t])
              /\ (IsActive /\ Due => IsActive' \/ term' = "open")
              /\ (Asking(tasks[t]) /\ Due => term' = "open")
              /\ term = "none" => term' \in {"none", "open"}
              /\ term = "open" => term' = "open"
              /\ \A p \in Pods : Existing(p)' => Existing(p)
    PROVE  Kept'
<1>1. PICK x : /\ tasks' = [tasks EXCEPT ![t] = x]
               /\ x.pc = "idle" /\ x.kind # "launch" /\ x.pod = NoPod /\ x.then = "idle"
  BY Over
<1>2. TaskFits(x)' /\ ~Launching(x)
  <2>1. TaskFits(x) /\ ~Launching(x)
    BY <1>1, NoTaskFits
  <2> QED BY <2>1, FitsOn
<1> QED BY <1>1, <1>2, KeptOn

\* A task that begins with what it has just read of the row.
LEMMA BeginKept ==
    ASSUME TypeOK, Kept, NEW t \in Tasks, NEW x, tasks' = [tasks EXCEPT ![t] = x],
           UNCHANGED <<run, pods, waiters, term, cleaner, history>>,
           tasks[t].pc \in {"idle", "read"},
           x.pod \in {NoPod, run.pod}, x.then \in {"idle", "fail", "poll"},
           x.pc \in Points \ {"insert", "update"},
           x.kind = "launch" \/ run.status = "none" =>
              /\ x.kind = "launch" /\ x.pc = "launch" /\ run.status = "none"
              /\ \A u \in Tasks : ~Launching(tasks[u]),
           x.pc = "launch" => x.kind = "launch",
           x.pc \in {"read", "write"} => x.kind # "stop" \/ (x.pc = "write" /\ term # "none")
    PROVE  Kept'
<1>1. Onward /\ RowFits /\ tasks[t].pc \notin {"fail", "give_up", "enqueue"} /\ ~Holding(tasks[t])
  BY DEF Onward, Kept, Holding
<1>2. RowFits'
  BY <1>1, RowFitsOn
<1>3. TaskFits(x)'
  <2>1. Known(x.pod)'
    BY <1>1, ConstantsAssumption DEF RowFits, Known
  <2> QED BY <2>1 DEF TaskFits, Holding, Launching, Restarting
<1>4. \A u \in Tasks : TaskFits(tasks[u])'
  <2> TAKE u \in Tasks
  <2>1. tasks'[t] = x /\ (u # t => tasks'[u] = tasks[u])
    BY DEF TypeOK
  <2>2. CASE u = t
    BY <1>3, <2>1, <2>2 DEF TaskFits, Known, Holding, Launching, Restarting
  <2>3. CASE u # t
    <3>1. PICK y : y = tasks[u]
      OBVIOUS
    <3>2. TaskFits(y)'
      BY <1>1, <3>1, FitsOn DEF Kept
    <3> QED BY <2>1, <2>3, <3>1, <3>2
  <2> QED BY <2>2, <2>3
<1>5. OneLaunch'
  <2>1. tasks'[t] = x /\ \A u \in Tasks : u # t => tasks'[u] = tasks[u]
    BY DEF TypeOK
  <2>2. Launching(x) => \A u \in Tasks : ~Launching(tasks[u])
    BY DEF Launching
  <2> QED BY <2>1, <2>2 DEF Kept, OneLaunch, Launching
<1>6. AllAccounted'
  BY <1>1, AccountedOn DEF IsActive, Existing, Asking
<1> QED BY <1>2, <1>4, <1>5, <1>6 DEF Kept

\* Requests are taken by idle tasks, and a check begins in one.
LEMMA BeginningsKept ==
    ASSUME TypeOK, Kept, NEW t \in Tasks,
           Requests(t) \/ (CheckRun /\ t = Monitor)
    PROVE  Kept'
<1>1. tasks[t].pc = "idle" /\ UNCHANGED <<run, pods, waiters, term, cleaner, history>>
  BY DEF Requests, LaunchRequested, StopRequested, WebhookArrives, HeartbeatArrives, CheckRun,
         TaskAt
<1>2. ASSUME NEW p \in Pods, Authorised(p)
      PROVE  run.status # "none"
  BY <1>2, ConstantsAssumption DEF Authorised, Kept, RowFits
<1>3. ASSUME NEW kind, kind \notin {"stop", "launch"}, run.status # "none",
             tasks' = [tasks EXCEPT ![t] = [NoTask EXCEPT !.kind = kind, !.pc = "read"]]
      PROVE  Kept'
  <2>1. PICK x : x = [NoTask EXCEPT !.kind = kind, !.pc = "read"]
    OBVIOUS
  <2>2. x.kind = kind /\ x.pc = "read" /\ x.pod = NoPod /\ x.then = "idle"
    BY <2>1 DEF NoTask
  <2> QED BY <1>1, <1>3, <2>1, <2>2, BeginKept DEF Points
<1>4. CASE LaunchRequested(t)
  <2>1. PICK x : x = [NoTask EXCEPT !.kind = "launch", !.pc = "launch"]
    OBVIOUS
  <2>2. x.kind = "launch" /\ x.pc = "launch" /\ x.pod = NoPod /\ x.then = "idle"
    BY <2>1 DEF NoTask
  <2>3. /\ tasks' = [tasks EXCEPT ![t] = x] /\ run.status = "none"
        /\ \A u \in Tasks : ~Launching(tasks[u])
    BY <1>4, <2>1 DEF LaunchRequested, Launching
  <2> QED BY <1>1, <2>2, <2>3, BeginKept DEF Points
<1>5. CASE StopRequested(t)
  <2>1. PICK x : x = [NoTask EXCEPT !.kind = "stop",
                                    !.pc = IF IsActive THEN "enqueue_stop" ELSE "enqueue"]
    OBVIOUS
  <2>2. /\ x.kind = "stop" /\ x.pc \in {"enqueue_stop", "enqueue"} /\ x.pod = NoPod
        /\ x.then = "idle"
    BY <2>1 DEF NoTask
  <2>3. tasks' = [tasks EXCEPT ![t] = x] /\ run.status # "none"
    BY <1>5, <2>1 DEF StopRequested
  <2> QED BY <1>1, <2>2, <2>3, BeginKept DEF Points
<1>6. ASSUME NEW call \in mail, WebhookArrives(t, call) PROVE Kept'
  <2>1. call.pod \in Pods /\ call.kind \in Webhooks
    BY DEF TypeOK, Calls
  <2>2. call.kind \notin {"stop", "launch"}
    BY <2>1 DEF Webhooks
  <2>3. /\ run.status # "none"
        /\ tasks' = [tasks EXCEPT ![t] = [NoTask EXCEPT !.kind = call.kind, !.pc = "read"]]
    BY <1>2, <1>6, <2>1 DEF WebhookArrives
  <2> QED BY <1>3, <2>2, <2>3
<1>7. ASSUME NEW p \in Pods, HeartbeatArrives(t, p) PROVE Kept'
  <2>1. /\ run.status # "none"
        /\ tasks' = [tasks EXCEPT ![t] = [NoTask EXCEPT !.kind = "beat", !.pc = "read"]]
    BY <1>2, <1>7 DEF HeartbeatArrives
  <2>2. PICK kind : kind = "beat" /\ kind \notin {"stop", "launch"}
    OBVIOUS
  <2> QED BY <1>3, <2>1, <2>2
<1>8. CASE CheckRun /\ t = Monitor
  <2>1. /\ CheckPoint \in {"give_up", "delete_old", "fail", "idle", "poll", "backfill"}
        /\ HeartbeatPoint \in {"fail", "idle", "poll"}
    BY PointsTyped
  <2>2. run.status # "none"
    BY <1>8 DEF CheckRun, IsActive, ActiveStatuses
  <2>3. PICK pc, then : pc = CheckPoint /\ then = IF CheckPoint = "backfill" THEN HeartbeatPoint ELSE "idle"
    OBVIOUS
  <2>4. then \in {"idle", "fail", "poll"} /\ pc \in Points \ {"insert", "update", "launch", "read", "write"}
    BY <2>1, <2>3 DEF Points
  <2>5. CASE pc \in {"fail", "give_up"}
    <3>1. PICK x : x = [NoTask EXCEPT !.kind = "monitor", !.pc = pc]
      OBVIOUS
    <3>2. x.kind = "monitor" /\ x.pc = pc /\ x.pod = NoPod /\ x.then = "idle"
      BY <3>1 DEF NoTask
    <3>3. tasks' = [tasks EXCEPT ![t] = x]
      BY <1>8, <2>3, <2>5, <3>1 DEF CheckRun
    <3> QED BY <1>1, <2>2, <2>4, <3>2, <3>3, BeginKept
  <2>6. CASE pc \notin {"fail", "give_up"}
    <3>1. PICK x : x = [NoTask EXCEPT !.kind = "monitor", !.pc = pc, !.pod = run.pod,
                                      !.restarts = run.restarts, !.then = then]
      OBVIOUS
    <3>2. x.kind = "monitor" /\ x.pc = pc /\ x.pod = run.pod /\ x.then = then
      BY <3>1 DEF NoTask
    <3>3. tasks' = [tasks EXCEPT ![t] = x]
      BY <1>8, <2>3, <2>6, <3>1 DEF CheckRun
    <3> QED BY <1>1, <2>2, <2>4, <3>2, <3>3, BeginKept
  <2> QED BY <2>5, <2>6
<1> QED BY <1>4, <1>5, <1>6, <1>7, <1>8 DEF Requests

\* A task of a run that has a row goes on, having written no pod into it.
LEMMA GoKept ==
    ASSUME TypeOK, Kept, Onward, NEW t \in Tasks, NEW pc, TaskGoes(t, pc),
           pc \notin {"read", "insert", "update"},
           tasks[t].kind # "launch", tasks[t].pc # "idle",
           pc = "write" => tasks[t].kind # "stop" \/ term' # "none",
           pc = "launch" => \/ history' # {}
                            \/ tasks[t].pod \in Pods => pods'[tasks[t].pod] = "gone",
           run'.status # "none", RowFits',
           history' = {} =>
              /\ run'.pod = run.pod /\ ~Holding(tasks[t])
              /\ (IsActive /\ Due => IsActive' \/ pc = "enqueue" \/ term' = "open")
              /\ (Asking(tasks[t]) /\ Due => pc \in {"fail", "give_up", "enqueue"} \/ term' = "open")
              /\ term = "none" => term' \in {"none", "open"}
              /\ term = "open" => term' = "open"
              /\ \A p \in Pods : Existing(p)' => Existing(p)
    PROVE  Kept'
<1>1. PICK x : /\ tasks' = [tasks EXCEPT ![t] = x]
               /\ x.pc = pc /\ x.kind = tasks[t].kind /\ x.pod = tasks[t].pod
               /\ x.fresh = tasks[t].fresh /\ x.then = tasks[t].then
  BY Moved
<1>2. TaskFits(tasks[t]) /\ run.status # "none"
  BY DEF Kept, TaskFits, Launching
<1>3. TaskFits(x)' /\ ~Launching(x)
  <2>1. Known(x.pod)'
    BY <1>1, <1>2 DEF TaskFits, Known, Onward
  <2> QED BY <1>1, <1>2, <2>1 DEF TaskFits, Holding, Launching, Restarting
<1>4. Asking(x) <=> pc \in {"fail", "give_up", "enqueue"}
  BY <1>1 DEF Asking
<1> QED BY <1>1, <1>2, <1>3, <1>4, KeptOn

\* A task resumes its check after the backfill.
LEMMA ResumeKept ==
    ASSUME TypeOK, Kept, Onward, NEW t \in Tasks, Resume(t), ~Asking(tasks[t]),
           tasks[t].kind # "launch", tasks[t].pc # "idle", ~Holding(tasks[t]),
           UNCHANGED <<term, pods>>, run'.status = run.status, RowFits',
           history' = {} => run'.pod = run.pod
    PROVE  Kept'
<1>1. TaskFits(tasks[t]) /\ run.status # "none"
  BY DEF Kept, TaskFits, Launching
<1>2. tasks[t].then \in {"idle", "fail", "poll"}
  BY <1>1 DEF TaskFits
<1>3. (IsActive <=> IsActive') /\ \A p \in Pods : Existing(p)' => Existing(p)
  BY DEF IsActive, Existing
<1>4. CASE tasks[t].then = "idle"
  BY <1>1, <1>3, <1>4, EndKept DEF Resume
<1>5. CASE tasks[t].then # "idle"
  BY <1>1, <1>2, <1>3, <1>5, GoKept DEF Resume
<1> QED BY <1>4, <1>5

\* The steps that leave the row, RunPod and the request alone.
LEMMA LookingKept ==
    ASSUME TypeOK, Kept, NEW t \in Tasks,
           ReadRow(t) \/ Backfill(t) \/ PollPod(t) \/ LaunchFails(t) \/ TaskDies(t)
    PROVE  Kept'
<1>1. /\ tasks[t] \in TaskStates /\ TaskFits(tasks[t]) /\ RowFits
      /\ UNCHANGED <<run, pods, waiters, term, cleaner>> /\ history \subseteq history'
  BY DEF TypeOK, Kept, ReadRow, Backfill, PollPod, LaunchFails, TaskDies
<1>2. Onward /\ RowFits'
  <2>1. Onward
    BY <1>1 DEF Onward
  <2> QED BY <1>1, <2>1, RowFitsOn
<1>3. (IsActive <=> IsActive') /\ \A p \in Pods : Existing(p)' => Existing(p)
  BY <1>1 DEF IsActive, Existing
<1>4. CASE TaskDies(t)
  <2>1. history' # {} /\ TaskEnds(t)
    BY <1>4 DEF TaskDies
  <2> QED BY <1>1, <1>2, <2>1, EndKept
<1>5. CASE ReadRow(t)
  <2>1. /\ tasks[t].pc = "read" /\ tasks[t].kind \notin {"launch", "stop"} /\ run.status # "none"
        /\ UNCHANGED history
    BY <1>1, <1>5 DEF ReadRow, TaskAt, TaskFits, Launching
  <2>2. PICK next : next = CASE tasks[t].kind = "shortage" -> RestartPoint(run.restarts)
                             [] tasks[t].kind = "beat" /\ ~IsActive -> "idle"
                             [] OTHER -> "write"
    OBVIOUS
  <2>3. next \in {"give_up", "delete_old", "idle", "write"}
    BY <2>2 DEF RestartPoint
  <2>4. tasks' = [tasks EXCEPT ![t] =
              CASE next = "idle"       -> NoTask
                [] next = "delete_old" -> [@ EXCEPT !.pc = next, !.pod = run.pod,
                                                    !.restarts = run.restarts]
                [] OTHER               -> [@ EXCEPT !.pc = next]]
    BY <1>5, <2>2 DEF ReadRow
  <2>5. CASE next = "idle"
    <3>1. TaskEnds(t)
      BY <2>4, <2>5 DEF TaskEnds
    <3> QED BY <1>1, <1>2, <1>3, <2>1, <3>1, EndKept DEF Holding, Asking
  <2>6. CASE next = "delete_old"
    <3>1. PICK x : x = [tasks[t] EXCEPT !.pc = next, !.pod = run.pod, !.restarts = run.restarts]
      OBVIOUS
    <3>2. /\ x.kind = tasks[t].kind /\ x.pc = "delete_old" /\ x.pod = run.pod
          /\ x.then = tasks[t].then
      BY <1>1, <2>6, <3>1 DEF TaskStates
    <3>3. tasks' = [tasks EXCEPT ![t] = x]
      BY <2>4, <2>6, <3>1
    <3>4. x.then \in {"idle", "fail", "poll"} /\ x.pc \in Points
      BY <1>1, <3>2 DEF TaskFits, Points
    <3> QED BY <1>1, <2>1, <3>2, <3>3, <3>4, BeginKept
  <2>7. CASE next \in {"give_up", "write"}
    <3>1. TaskGoes(t, next)
      BY <2>4, <2>7 DEF TaskGoes
    <3> QED BY <1>1, <1>2, <1>3, <2>1, <2>7, <3>1, GoKept DEF Holding, Asking
  <2> QED BY <2>3, <2>5, <2>6, <2>7
<1>6. CASE Backfill(t)
  <2>1. /\ tasks[t].pc = "backfill" /\ tasks[t].kind # "launch" /\ run.status # "none"
        /\ UNCHANGED history /\ ~Holding(tasks[t]) /\ ~Asking(tasks[t])
    BY <1>1, <1>6 DEF Backfill, TaskAt, TaskFits, Launching, Holding, Asking
  <2>2. CASE TaskGoes(t, "backfill_write")
    BY <1>1, <1>2, <1>3, <2>1, <2>2, GoKept
  <2>3. CASE Resume(t)
    BY <1>1, <1>2, <2>1, <2>3, ResumeKept
  <2> QED BY <1>6, <2>2, <2>3 DEF Backfill
<1>7. CASE PollPod(t) \/ LaunchFails(t)
  <2>1. /\ tasks[t].pc \in {"poll", "launch"} /\ UNCHANGED history
        /\ ~Holding(tasks[t]) /\ ~Asking(tasks[t])
    BY <1>1, <1>7 DEF PollPod, LaunchFails, TaskAt, TaskFits, Holding, Asking
  <2>2. CASE TaskEnds(t)
    BY <1>1, <1>2, <1>3, <2>1, <2>2, EndKept
  <2>3. ASSUME NEW pc \in {"give_up", "delete_old"}, TaskGoes(t, pc), tasks[t].kind # "launch"
        PROVE  Kept'
    <3>1. run.status # "none"
      BY <1>1, <2>1, <2>3 DEF TaskFits, Launching
    <3> QED BY <1>1, <1>2, <1>3, <2>1, <2>3, <3>1, GoKept
  <2>4. RestartPoint(tasks[t].restarts) \in {"give_up", "delete_old"}
    BY DEF RestartPoint
  <2>5. tasks[t].pc = "poll" => tasks[t].kind # "launch"
    BY <1>1 DEF TaskFits
  <2> QED BY <1>7, <2>2, <2>3, <2>4, <2>5 DEF PollPod, LaunchFails, TaskAt
<1> QED BY <1>4, <1>5, <1>6, <1>7

\* The steps that write the status or make the request.
LEMMA ClosingKept ==
    ASSUME TypeOK, Kept, NEW t \in Tasks, WriteRow(t) \/ Enqueue(t) \/ FailRun(t)
    PROVE  Kept'
<1>1. /\ tasks[t] \in TaskStates /\ TaskFits(tasks[t]) /\ RowFits /\ run \in Runs
      /\ UNCHANGED <<pods, waiters, cleaner, history>>
      /\ ~Holding(tasks[t]) /\ tasks[t].pc # "idle"
  BY DEF TypeOK, Kept, WriteRow, Enqueue, FailRun, TaskAt, Holding
<1>2. tasks[t].kind # "launch" /\ run.status # "none"
  BY <1>1 DEF TaskFits, Holding, Launching, WriteRow, Enqueue, FailRun, TaskAt
<1>3. \A p \in Pods : Existing(p)' => Existing(p)
  BY <1>1 DEF Existing
<1>4. CASE WriteRow(t)
  <2>1. /\ tasks[t].pc = "write" /\ UNCHANGED term /\ ~Asking(tasks[t])
        /\ tasks[t].kind = "stop" => term # "none"
    BY <1>1, <1>4 DEF WriteRow, TaskAt, TaskFits, Asking
  <2>2. /\ run'.pod = run.pod /\ run'.token = run.token
        /\ run'.status # "none"
        /\ tasks[t].kind \in {"started", "beat"} /\ IsActive => IsActive'
    BY <1>1, <1>2, <1>4 DEF WriteRow, Runs, IsActive, ActiveStatuses
  <2>3. Onward
    BY <1>1, <2>1 DEF Onward
  <2>4. RowFits'
    BY <1>1, <1>2, <2>1, <2>2, <2>3, RowFitsOn
  <2>5. CASE tasks[t].kind = "finished"
    <3>1. TaskGoes(t, "enqueue")
      BY <1>4, <2>5 DEF WriteRow
    <3> QED BY <1>1, <1>2, <1>3, <2>1, <2>2, <2>3, <2>4, <3>1, GoKept
  <2>6. CASE tasks[t].kind # "finished"
    <3>1. TaskEnds(t) /\ tasks[t].kind \in {"started", "beat", "stop"}
      BY <1>4, <2>6 DEF WriteRow
    <3>2. IsActive /\ Due => IsActive' \/ term' = "open"
      BY <2>1, <2>2, <3>1 DEF Due
    <3> QED BY <1>1, <1>2, <1>3, <2>1, <2>2, <2>3, <2>4, <3>1, <3>2, EndKept
  <2> QED BY <2>5, <2>6
<1>5. CASE Enqueue(t)
  <2>1. /\ UNCHANGED run
        /\ term \in {"none", "failed"} => term' = "open"
        /\ term \notin {"none", "failed"} => UNCHANGED term
    BY <1>5 DEF Enqueue
  <2>2. term' # "none" /\ (Due => term' = "open") /\ Onward
    BY <1>1, <2>1 DEF Onward, Due, TypeOK
  <2>3. RowFits'
    BY <1>1, <1>2, <2>1, <2>2 DEF RowFits, Known
  <2>4. CASE TaskAt(t, "enqueue_stop")
    <3>1. TaskGoes(t, "write")
      BY <1>5, <2>4 DEF Enqueue
    <3> QED BY <1>1, <1>2, <1>3, <2>1, <2>2, <2>3, <3>1, GoKept DEF Due
  <2>5. CASE ~TaskAt(t, "enqueue_stop")
    <3>1. TaskEnds(t)
      BY <1>5, <2>5 DEF Enqueue
    <3> QED BY <1>1, <1>2, <1>3, <2>1, <2>2, <2>3, <3>1, EndKept DEF Due
  <2> QED BY <2>4, <2>5
<1>6. CASE FailRun(t)
  <2>1. /\ TaskGoes(t, "enqueue") /\ UNCHANGED term
        /\ run'.pod = run.pod /\ run'.token = run.token /\ run'.status # "none"
    BY <1>1, <1>6 DEF FailRun, Runs
  <2>2. Onward
    BY <1>1, <2>1 DEF Onward
  <2>3. RowFits'
    BY <1>1, <1>2, <2>1, <2>2, RowFitsOn
  <2> QED BY <1>1, <1>2, <1>3, <2>1, <2>2, <2>3, GoKept
<1> QED BY <1>4, <1>5, <1>6

\* The backfill writes the pod the check has read, unless it repoints the row.
LEMMA BackfillKept ==
    ASSUME TypeOK, Kept, NEW t \in Tasks, BackfillWrite(t)
    PROVE  Kept'
<1>1. /\ tasks[t] \in TaskStates /\ TaskFits(tasks[t]) /\ RowFits /\ run \in Runs
      /\ UNCHANGED <<pods, waiters, cleaner, term>>
      /\ tasks[t].pc = "backfill_write" /\ Resume(t)
      /\ run' = [run EXCEPT !.pod = tasks[t].pod, !.address = tasks[t].pod]
      /\ history' = history \cup Repointed(tasks[t].pod)
  BY DEF TypeOK, Kept, BackfillWrite, TaskAt
<1>2. /\ ~Holding(tasks[t]) /\ ~Asking(tasks[t]) /\ tasks[t].kind # "launch"
      /\ run.status # "none"
  BY <1>1 DEF TaskFits, Holding, Launching, Asking
<1>3. /\ run'.pod = tasks[t].pod /\ run'.token = run.token /\ run'.status = run.status
      /\ history \subseteq history'
      /\ history' = {} => history = {} /\ run'.pod = run.pod
  BY <1>1 DEF Runs, Repointed
<1>4. Onward
  BY <1>1, <1>3 DEF Onward
<1>5. RowFits'
  BY <1>1, <1>2, <1>3 DEF RowFits, Known, TaskFits
<1> QED BY <1>1, <1>2, <1>3, <1>4, <1>5, ResumeKept

\* Before a restart the pod it has read is deleted, or RunPod refuses.
LEMMA DeleteKept ==
    ASSUME TypeOK, Kept, NEW t \in Tasks, DeleteOldPod(t)
    PROVE  Kept'
<1>1. /\ tasks[t] \in TaskStates /\ TaskFits(tasks[t]) /\ RowFits /\ run \in Runs
      /\ pods \in [Pods -> PodStates]
      /\ UNCHANGED <<run, waiters, cleaner, term>>
      /\ tasks[t].pc = "delete_old" /\ TaskGoes(t, "launch") /\ history \subseteq history'
  BY DEF TypeOK, Kept, DeleteOldPod, TaskAt
<1>2. /\ ~Holding(tasks[t]) /\ ~Asking(tasks[t]) /\ tasks[t].kind # "launch"
      /\ run.status # "none"
  BY <1>1 DEF TaskFits, Holding, Launching, Asking
<1>3. \/ /\ \A p \in Pods : pods'[p] = IF p = tasks[t].pod /\ Existing(p) THEN "gone" ELSE pods[p]
         /\ UNCHANGED history
      \/ UNCHANGED pods /\ history' # {}
  BY DEF DeleteOldPod, WithoutPod
<1>4. Onward
  BY <1>1, <1>3 DEF Onward
<1>5. RowFits'
  BY <1>1, <1>4, RowFitsOn
<1>6. \A p \in Pods : Existing(p)' => Existing(p)
  BY <1>3 DEF Existing
<1>7. history' # {} \/ (tasks[t].pod \in Pods => pods'[tasks[t].pod] = "gone")
  BY <1>1, <1>3 DEF TaskFits, Known, Existing
<1>8. IsActive <=> IsActive'
  BY <1>1 DEF IsActive
<1> QED BY <1>1, <1>2, <1>4, <1>5, <1>6, <1>7, <1>8, GoKept

\* A pod is started for a launch or a restart, which holds it from here on.
LEMMA LaunchKept ==
    ASSUME TypeOK, Kept, NEW t \in Tasks, LaunchPod(t)
    PROVE  Kept'
<1>1. /\ tasks[t] \in TaskStates /\ TaskFits(tasks[t]) /\ RowFits /\ run \in Runs
      /\ pods \in [Pods -> PodStates]
      /\ UNCHANGED <<run, waiters, cleaner, term, history>> /\ tasks[t].pc = "launch"
  BY DEF TypeOK, Kept, LaunchPod, TaskAt
<1>2. PICK pc : pc = IF tasks[t].kind = "launch" THEN "insert" ELSE "update"
  OBVIOUS
<1>3. PICK p \in Pods : /\ pods[p] = "absent" /\ pods' = [pods EXCEPT ![p] = "boot"]
                        /\ tasks' = [tasks EXCEPT ![t] = [@ EXCEPT !.fresh = p, !.pc = pc]]
  BY <1>2 DEF LaunchPod
<1>4. PICK x : x = [tasks[t] EXCEPT !.fresh = p, !.pc = pc]
  OBVIOUS
<1>5. /\ x.pc = pc /\ x.fresh = p /\ x.pod = tasks[t].pod /\ x.kind = tasks[t].kind
      /\ x.then = tasks[t].then
  BY <1>1, <1>4 DEF TaskStates
<1>6. tasks' = [tasks EXCEPT ![t] = x]
  BY <1>3, <1>4 DEF TypeOK
<1>7. \A q \in Pods : pods'[q] = IF q = p THEN "boot" ELSE pods[q]
  BY <1>1, <1>3
<1>8. Onward
  BY <1>1, <1>3, <1>7 DEF Onward
<1>9. RowFits'
  BY <1>1, <1>8, RowFitsOn
<1>10. Holding(x) /\ (Launching(x) => Launching(tasks[t])) /\ (Restarting(x) => Restarting(tasks[t]))
  BY <1>1, <1>2, <1>5 DEF Holding, Launching, Restarting
<1>11. TaskFits(x)'
  <2>1. Known(x.pod)' /\ Known(x.fresh)'
    BY <1>1, <1>3, <1>5, <1>7 DEF TaskFits, Known
  <2>2. history = {} /\ Restarting(x) /\ x.pod \in Pods => pods'[x.pod] = "gone"
    BY <1>1, <1>3, <1>5, <1>7, <1>10 DEF TaskFits
  <2>3. /\ x.pc = "insert" => x.kind = "launch"
        /\ x.pc = "update" => x.kind # "launch"
        /\ x.pc \in {"insert", "update"}
    BY <1>2, <1>5
  <2>4. /\ Launching(x) => run.status = "none"
        /\ run.status = "none" => Launching(x)
        /\ x.then \in {"idle", "fail", "poll"}
    BY <1>1, <1>5, <1>10, <2>3 DEF TaskFits, Launching
  <2> QED BY <1>1, <1>3, <1>5, <2>1, <2>2, <2>3, <2>4 DEF TaskFits, Holding, Launching, Restarting
<1>12. /\ ~Holding(tasks[t]) /\ ~Asking(tasks[t]) /\ (IsActive <=> IsActive')
       /\ \A q \in Pods : Existing(q)' => Existing(q) \/ (Holding(x) /\ x.fresh = q)
  BY <1>1, <1>5, <1>7, <1>10 DEF Holding, Asking, IsActive, Existing
<1> QED BY <1>1, <1>6, <1>8, <1>9, <1>10, <1>11, <1>12, KeptOn

\* The waiter is created for the pod the task has launched, if it is alive.
LEMMA SpawnKept ==
    ASSUME TypeOK, Kept, NEW t \in Tasks, SpawnWaiter(t)
    PROVE  Kept'
<1>1. /\ tasks[t] \in TaskStates /\ TaskFits(tasks[t]) /\ RowFits
      /\ waiters \in [Pods -> {"none", "waiting"}]
      /\ UNCHANGED <<run, pods, cleaner, term, history>> /\ tasks[t].pc = "spawn" /\ TaskEnds(t)
      /\ waiters' = [waiters EXCEPT ![tasks[t].fresh] =
                      IF pods[tasks[t].fresh] \in AlivePods THEN "waiting" ELSE @]
  BY DEF TypeOK, Kept, SpawnWaiter, TaskAt
<1>2. run.status # "none" /\ ~Holding(tasks[t]) /\ ~Asking(tasks[t])
  BY <1>1 DEF TaskFits, Launching, Holding, Asking
<1>3. \A p \in Pods : waiters'[p] = waiters[p] \/ (p = tasks[t].fresh /\ pods[p] \in AlivePods)
  BY <1>1
<1>4. Onward
  BY <1>1 DEF Onward
<1>5. RowFits'
  BY <1>1, <1>2, <1>3 DEF RowFits, Known, AlivePods
<1>6. (IsActive <=> IsActive') /\ \A p \in Pods : Existing(p)' => Existing(p)
  BY <1>1 DEF IsActive, Existing
<1> QED BY <1>1, <1>2, <1>4, <1>5, <1>6, EndKept

\* The launch writes the row: no other task is under way.
LEMMA InsertKept ==
    ASSUME TypeOK, Kept, NEW t \in Tasks, InsertRow(t)
    PROVE  Kept'
<1>1. /\ tasks[t] \in TaskStates /\ TaskFits(tasks[t]) /\ RowFits /\ run \in Runs
      /\ tasks \in [Tasks -> TaskStates]
      /\ UNCHANGED <<pods, waiters, cleaner, term, history>>
      /\ tasks[t].pc = "insert" /\ TaskGoes(t, "spawn")
      /\ run' = [NoRun EXCEPT !.status = "initializing", !.pod = tasks[t].fresh,
                              !.token = tasks[t].fresh]
  BY DEF TypeOK, Kept, InsertRow, TaskAt
<1>2. Launching(tasks[t]) /\ run.status = "none" /\ tasks[t].fresh \in Pods /\ Known(tasks[t].fresh)
  BY <1>1 DEF TaskFits, Holding, Launching
<1>3. PICK x : /\ tasks' = [tasks EXCEPT ![t] = x]
               /\ x.pc = "spawn" /\ x.kind = tasks[t].kind /\ x.pod = tasks[t].pod
               /\ x.fresh = tasks[t].fresh /\ x.then = tasks[t].then
  BY <1>1, Moved
<1>4. \A u \in Tasks : u # t => tasks[u].pc = "idle" /\ tasks'[u] = tasks[u] /\ ~Launching(tasks[u])
  BY <1>1, <1>2, <1>3 DEF Kept, TaskFits, OneLaunch, Launching
<1>5. run'.status = "initializing" /\ run'.pod = tasks[t].fresh /\ tasks'[t] = x
  BY <1>1, <1>3 DEF NoRun
<1>6. \A u \in Tasks : TaskFits(tasks[u])'
  <2> TAKE u \in Tasks
  <2>1. PICK y : y = tasks'[u]
    OBVIOUS
  <2>2. y.pc \in {"idle", "spawn"} /\ Known(y.pod) /\ y.then \in {"idle", "fail", "poll"}
        /\ (y.pc = "idle" => y.kind # "launch")
    <3>1. CASE u = t
      BY <1>1, <1>3, <1>5, <2>1, <3>1 DEF TaskFits
    <3>2. CASE u # t
      BY <1>4, <2>1, <3>2 DEF Kept, TaskFits
    <3> QED BY <3>1, <3>2
  <2>3. TaskFits(y)'
    BY <1>1, <1>5, <2>2 DEF TaskFits, Known, Holding, Launching, Restarting
  <2> QED BY <2>1, <2>3
<1>7. OneLaunch'
  BY <1>3, <1>4, <1>5 DEF OneLaunch, Launching
<1>8. RowFits'
  BY <1>1, <1>2, <1>5 DEF RowFits, Known
<1>9. AllAccounted'
  <2> SUFFICES ASSUME NEW p \in Pods, Existing(p)', history' = {}
               PROVE  Accounted(p)'
    BY DEF AllAccounted
  <2>1. Accounted(p) /\ term = "none" /\ run.pod = NoPod
    BY <1>1, <1>2 DEF Kept, AllAccounted, Existing, RowFits
  <2>2. PICK u \in Tasks : tasks[u].fresh = p /\ tasks[u].pc \in {"insert", "update"}
    BY <2>1, ConstantsAssumption DEF Accounted
  <2>3. u = t
    BY <1>4, <2>2
  <2> QED BY <1>1, <1>5, <2>1, <2>2, <2>3 DEF Accounted, IsActive, ActiveStatuses
<1> QED BY <1>6, <1>7, <1>8, <1>9 DEF Kept

\* A restart points the row at its pod.  If nothing has gone wrong, the pod the
\* row named is the one the restart has deleted.
LEMMA UpdateKept ==
    ASSUME TypeOK, Kept, NEW t \in Tasks, UpdateRow(t)
    PROVE  Kept'
<1>1. /\ tasks[t] \in TaskStates /\ TaskFits(tasks[t]) /\ RowFits /\ run \in Runs
      /\ tasks \in [Tasks -> TaskStates]
      /\ UNCHANGED <<pods, waiters, cleaner, term>>
      /\ tasks[t].pc = "update" /\ TaskGoes(t, "spawn")
      /\ run' = [run EXCEPT !.pod = tasks[t].fresh, !.token = tasks[t].fresh,
                          !.restarts = tasks[t].restarts + 1,
                          !.deadline = "ahead", !.status = "initializing"]
      /\ history' = history \cup Repointed(tasks[t].pod)
                          \cup (IF term # "none" THEN {"outlived"} ELSE {})
  BY DEF TypeOK, Kept, UpdateRow, TaskAt
<1>2. /\ tasks[t].fresh \in Pods /\ Known(tasks[t].fresh) /\ tasks[t].kind # "launch"
      /\ run.status # "none" /\ Restarting(tasks[t])
  BY <1>1 DEF TaskFits, Holding, Launching, Restarting
<1>3. PICK x : /\ tasks' = [tasks EXCEPT ![t] = x]
               /\ x.pc = "spawn" /\ x.kind = tasks[t].kind /\ x.pod = tasks[t].pod
               /\ x.fresh = tasks[t].fresh /\ x.then = tasks[t].then
  BY <1>1, Moved
<1>4. run'.status = "initializing" /\ run'.pod = tasks[t].fresh
  BY <1>1 DEF Runs
<1>5. history \subseteq history' /\
      (history' = {} => history = {} /\ term = "none" /\ run.pod = tasks[t].pod)
  BY <1>1 DEF Repointed
<1>6. Onward
  BY <1>1, <1>5 DEF Onward
<1>7. \A u \in Tasks : TaskFits(tasks[u])'
  <2> TAKE u \in Tasks
  <2>1. PICK y : y = tasks'[u]
    OBVIOUS
  <2>2. CASE u = t
    <3>1. /\ y.pc = "spawn" /\ y.kind # "launch" /\ Known(y.pod)
          /\ y.then \in {"idle", "fail", "poll"}
      BY <1>1, <1>2, <1>3, <2>1, <2>2 DEF TaskFits
    <3>2. TaskFits(y)'
      BY <1>1, <1>4, <3>1 DEF TaskFits, Known, Holding, Launching, Restarting
    <3> QED BY <2>1, <3>2
  <2>3. CASE u # t
    <3>1. y = tasks[u] /\ TaskFits(y)
      BY <1>1, <1>3, <2>1, <2>3 DEF Kept
    <3>2. TaskFits(y)'
      BY <1>2, <1>4, <1>6, <3>1, FitsOn
    <3> QED BY <2>1, <3>2
  <2> QED BY <2>2, <2>3
<1>8. OneLaunch'
  BY <1>1, <1>2, <1>3 DEF Kept, OneLaunch, Launching
<1>9. RowFits'
  BY <1>1, <1>2, <1>4, <1>5 DEF RowFits, Known
<1>10. AllAccounted'
  <2> SUFFICES ASSUME NEW p \in Pods, Existing(p)', history' = {}
               PROVE  Accounted(p)'
    BY DEF AllAccounted
  <2>1. Accounted(p) /\ Existing(p) /\ p # run.pod /\ term = "none"
    BY <1>1, <1>2, <1>5 DEF Kept, AllAccounted, Existing, TaskFits
  <2>2. PICK u \in Tasks : tasks[u].fresh = p /\ tasks[u].pc \in {"insert", "update"}
    BY <2>1 DEF Accounted
  <2>3. CASE u = t
    BY <1>1, <1>4, <2>1, <2>2, <2>3 DEF Accounted, IsActive, ActiveStatuses
  <2>4. CASE u # t
    BY <1>1, <1>3, <2>2, <2>4 DEF Accounted
  <2> QED BY <2>3, <2>4
<1> QED BY <1>7, <1>8, <1>9, <1>10 DEF Kept

\* Orphans have a cause: as long as no deletion is refused, no task is lost and
\* no two tasks write the row's pod or start one behind a request to delete it,
\* every pod RunPod has is one that a task will write into the row, or the row's
\* own, with the run active or its deletion due.
THEOREM OrphansAreExplained == Spec => []OrphansHaveACause
<1>1. Init => TypeOK /\ Kept
  <2> SUFFICES ASSUME Init PROVE Kept
    BY InitTyped
  <2>1. \A t \in Tasks : TaskFits(tasks[t])
    <3>1. PICK x : x = NoTask
      OBVIOUS
    <3>2. x.pc = "idle" /\ x.kind # "launch" /\ x.pod = NoPod /\ x.then = "idle"
      BY <3>1 DEF NoTask
    <3>3. TaskFits(x) /\ \A t \in Tasks : tasks[t] = x
      BY <3>1, <3>2, NoTaskFits DEF Init
    <3> QED BY <3>3
  <2>2. RowFits /\ OneLaunch /\ AllAccounted
    BY ConstantsAssumption DEF Init, NoRun, NoTask, RowFits, Known, OneLaunch, Launching,
       AllAccounted, Existing
  <2> QED BY <2>1, <2>2 DEF Kept
<1>2. TypeOK /\ Kept /\ [Next]_vars => TypeOK' /\ Kept'
  <2> SUFFICES ASSUME TypeOK, Kept, [Next]_vars PROVE Kept'
    BY StepTyped
  <2>1. CASE Clock \/ Cleaner \/ \E p \in Pods : PodStep(p) \/ WaiterWrites(p)
    BY <2>1, OthersKept
  <2>2. CASE CheckRun \/ \E t \in Handlers : Requests(t)
    BY <2>2, BeginningsKept DEF Tasks
  <2>3. CASE \E t \in Tasks : TaskStep(t) \/ TaskDies(t)
    BY <2>3, LookingKept, ClosingKept, BackfillKept, DeleteKept, LaunchKept, SpawnKept,
       InsertKept, UpdateKept DEF TaskStep
  <2>4. CASE UNCHANGED vars
    BY <2>4 DEF vars, Kept, TaskFits, RowFits, OneLaunch, AllAccounted, Known, Holding,
       Launching, Restarting, Existing, Accounted, IsActive, ToBeRequested
  <2> QED BY <2>1, <2>2, <2>3, <2>4 DEF Next
<1>3. TypeOK /\ Kept => OrphansHaveACause
  BY DEF TypeOK, Kept, AllAccounted, OrphansHaveACause, Notes
<1> QED BY <1>1, <1>2, <1>3, PTL DEF Spec

=============================================================================
