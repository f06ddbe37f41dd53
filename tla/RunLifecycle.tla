---------------------------- MODULE RunLifecycle ----------------------------
(***************************************************************************)
(* The life of one research run in the server: its row in                   *)
(* research_pipeline_runs, the pods RunPod runs for it, and the handlers    *)
(* that read and write the row concurrently - the launch and stop requests  *)
(* of the user, the webhooks of the pods, the checks of the pipeline        *)
(* monitor with the restart of pods, and the background tasks that wait for *)
(* a pod's SSH address.  No handler locks the row or checks it again: each  *)
(* one reads it once and writes columns after later awaits, so every await  *)
(* that matters is a step of its own.  Runs do not share any of this state. *)
(***************************************************************************)
EXTENDS Naturals, FiniteSets

CONSTANTS
    Pods,             \* pods RunPod can give to the run
    NoPod,            \* NULL
    Monitor,          \* the task of the process that leads the monitor
    Handlers,         \* concurrent requests of the API processes
    MaxRestarts,      \* PIPELINE_MAX_RESTART_ATTEMPTS
    MaxStops,         \* bound: stop requests of the user
    MaxDeaths,        \* bound: tasks that raise or die with their process
    MaxRefusals,      \* bound: deletions of a pod that RunPod refuses
    MaxDuplicates,    \* bound: webhooks that are delivered once more
    MaxMishaps,       \* bound: pods that stop or disappear by themselves
    MaxEvents         \* bound: all these together

ASSUME ConstantsAssumption ==
    /\ NoPod \notin Pods
    /\ Monitor \notin Handlers
    /\ {MaxRestarts, MaxStops, MaxDeaths, MaxRefusals, MaxDuplicates,
      MaxMishaps, MaxEvents} \subseteq Nat

VARIABLES
    run,        \* the row of the run
    overdue,    \* created_at is more than the maximum runtime ago
    pods,       \* the pods, and how far the program in each has got
    mail,       \* webhook calls of the pods that may still be delivered
    tasks,      \* the server's coroutines that handle this run
    waiters,    \* the background task waiting for each pod's SSH address
    term,       \* what has become of the request to terminate the pod
    cleaner,    \* the termination worker's job for this run
    history,    \* what has happened to the run that a reader should know
    spent       \* how much of each bound is used up

vars == <<run, overdue, pods, mail, tasks, waiters, term, cleaner, history, spent>>
rowVars   == <<run, overdue>>
podVars   == <<pods, mail>>
cleanVars == <<term, cleaner>>
logVars   == <<history, spent>>

-----------------------------------------------------------------------------
(* State spaces.                                                            *)

Tasks == Handlers \cup {Monitor}

\* "none": no row.  "pending" is a status no code writes.
Statuses == {"none", "initializing", "running", "completed", "failed"}

ActiveStatuses == {"initializing", "running"}

\* token is the pod whose webhook token has its hash in the row, address the
\* pod whose public_ip and ssh_port it holds.
Runs == [status   : Statuses,
         pod      : Pods \cup {NoPod},
         token    : Pods \cup {NoPod},
         address  : Pods \cup {NoPod},
         restarts : Nat,
         beat     : {"none", "fresh", "stale"},
         deadline : {"ahead", "past"}]

NoRun == [status |-> "none", pod |-> NoPod, token |-> NoPod, address |-> NoPod,
          restarts |-> 0, beat |-> "none", deadline |-> "ahead"]

\* boot, running, short of GPUs, program over; "exited": the container has
\* stopped; "gone": RunPod has no such pod any more.
AlivePods  == {"boot", "running", "short", "over"}
PodStates  == {"absent", "exited", "gone"} \cup AlivePods

Webhooks == {"started", "finished", "shortage"}
Calls    == [pod : Pods, kind : Webhooks]
Kinds    == Webhooks \cup {"beat", "none", "launch", "stop", "monitor"}

Points == {"idle", "read", "write", "launch", "insert", "spawn", "delete_old",
           "update", "fail", "give_up", "enqueue", "enqueue_stop",
           "backfill", "backfill_write", "poll"}

\* pod and restarts are what the task remembers of the row it has read, fresh
\* is the pod it has launched, then where it goes after the backfill.
TaskStates == [kind : Kinds, pc : Points, pod : Pods \cup {NoPod},
               restarts : Nat, fresh : Pods \cup {NoPod}, then : Points]

NoTask == [kind |-> "none", pc |-> "idle", pod |-> NoPod, restarts |-> 0,
           fresh |-> NoPod, then |-> "idle"]

\* "died": a task of the run raised or was lost.  "refused": RunPod refused to
\* delete a pod.  "repointed": a task wrote a pod over one it had not read.
\* "outlived": a pod was started for a run whose pod was to be terminated.
Notes == {"died", "refused", "repointed", "outlived"}

TypeOK ==
    /\ run \in Runs
    /\ overdue \in BOOLEAN
    /\ pods \in [Pods -> PodStates]
    /\ mail \in SUBSET Calls
    /\ tasks \in [Tasks -> TaskStates]
    /\ waiters \in [Pods -> {"none", "waiting"}]
    /\ term \in {"none", "open", "terminated", "failed"}
    /\ cleaner \in [pc : {"idle", "delete", "close"}, pod : Pods \cup {NoPod}]
    /\ history \in SUBSET Notes
    /\ spent \in [stops : Nat, deaths : Nat, refusals : Nat, duplicates : Nat,
                  mishaps : Nat]

Init ==
    /\ run = NoRun
    /\ overdue = FALSE
    /\ pods = [p \in Pods |-> "absent"]
    /\ mail = {}
    /\ tasks = [t \in Tasks |-> NoTask]
    /\ waiters = [p \in Pods |-> "none"]
    /\ term = "none"
    /\ cleaner = [pc |-> "idle", pod |-> NoPod]
    /\ history = {}
    /\ spent = [stops |-> 0, deaths |-> 0, refusals |-> 0, duplicates |-> 0,
                mishaps |-> 0]

-----------------------------------------------------------------------------
(* Helpers.                                                                 *)

TaskAt(t, pc)   == tasks[t].pc = pc
TaskGoes(t, pc) == tasks' = [tasks EXCEPT ![t] = [@ EXCEPT !.pc = pc]]
TaskEnds(t)     == tasks' = [tasks EXCEPT ![t] = NoTask]

IsActive == run.status \in ActiveStatuses
Existing(p) == pods[p] \notin {"absent", "gone"}

\* DELETE /pods/{id}; RunPod answers 404 for a pod it has not: no difference.
WithoutPod(p) ==
    [q \in Pods |-> IF q = p /\ Existing(q) THEN "gone" ELSE pods[q]]

MayHappen(event, max) ==
    /\ spent[event] < max
    /\ spent.stops + spent.deaths + spent.refusals + spent.duplicates + spent.mishaps
          < MaxEvents

\* attempt_pod_restart looks at the snapshot it is given, not at the row.
RestartPoint(restarts) ==
    IF restarts >= MaxRestarts THEN "give_up" ELSE "delete_old"

-----------------------------------------------------------------------------
(* Time, RunPod and the programs in the pods.  A clock only ticks while a   *)
(* check of the monitor reads it.                                           *)

DeadlinePasses ==
    /\ IsActive /\ run.deadline = "ahead"
    /\ run' = [run EXCEPT !.deadline = "past"]
    /\ UNCHANGED <<overdue, podVars, tasks, waiters, cleanVars, logVars>>

HeartbeatLapses ==
    /\ run.status = "running" /\ run.beat = "fresh"
    /\ run' = [run EXCEPT !.beat = "stale"]
    /\ UNCHANGED <<overdue, podVars, tasks, waiters, cleanVars, logVars>>

RuntimeExpires ==
    /\ run.status = "running" /\ ~overdue
    /\ overdue' = TRUE
    /\ UNCHANGED <<run, podVars, tasks, waiters, cleanVars, logVars>>

\* Each webhook is posted by a thread of its own, with retries: calls of one
\* pod may overtake each other.
Posts(p, kind) == mail' = mail \cup {[pod |-> p, kind |-> kind]}

PodStarts(p) ==
    /\ pods[p] = "boot"
    /\ pods' = [pods EXCEPT ![p] = "running"]
    /\ Posts(p, "started")
    /\ UNCHANGED <<rowVars, tasks, waiters, cleanVars, logVars>>

\* From the setup script or from the experiment itself.
PodIsShort(p) ==
    /\ pods[p] \in {"boot", "running"}
    /\ pods' = [pods EXCEPT ![p] = "short"]
    /\ Posts(p, "shortage")
    /\ UNCHANGED <<rowVars, tasks, waiters, cleanVars, logVars>>

\* The program ends; one short of GPUs first waits for the server's answer.
PodFinishes(p) ==
    /\ \/ pods[p] = "running" /\ Posts(p, "finished")
       \/ /\ pods[p] = "short"
          /\ [pod |-> p, kind |-> "shortage"] \notin mail
          /\ \A t \in Tasks : tasks[t].kind # "shortage"
          /\ Posts(p, "finished")
    /\ pods' = [pods EXCEPT ![p] = "over"]
    /\ UNCHANGED <<rowVars, tasks, waiters, cleanVars, logVars>>

\* The container stops, or RunPod takes the pod away.
PodFails(p) ==
    /\ pods[p] \in AlivePods /\ MayHappen("mishaps", MaxMishaps)
    /\ pods' \in {[pods EXCEPT ![p] = "exited"], [pods EXCEPT ![p] = "gone"]}
    /\ spent' = [spent EXCEPT !.mishaps = @ + 1]
    /\ UNCHANGED <<rowVars, mail, tasks, waiters, cleanVars, history>>

-----------------------------------------------------------------------------
(* Requests reach the server.                                               *)

\* create_and_launch_research_run: the pod first, then the row.
LaunchRequested(t) ==
    /\ TaskAt(t, "idle") /\ run.status = "none"
    /\ \A p \in Pods : pods[p] = "absent"
    /\ \A u \in Tasks : tasks[u].kind # "launch"
    /\ tasks' = [tasks EXCEPT ![t] = [NoTask EXCEPT !.kind = "launch",
                                                    !.pc = "launch"]]
    /\ UNCHANGED <<rowVars, podVars, waiters, cleanVars, logVars>>

\* verify_run_auth, before the handler reads the row.
Authorised(p) == run.token = p

\* A call is delivered to a request handler.  An answer that is lost leaves
\* the call to be sent again; what is answered 401 changes nothing.
WebhookArrives(t, call) ==
    /\ TaskAt(t, "idle") /\ call \in mail /\ Authorised(call.pod)
    /\ tasks' = [tasks EXCEPT ![t] = [NoTask EXCEPT !.kind = call.kind,
                                                    !.pc = "read"]]
    /\ \/ mail' = mail \ {call} /\ UNCHANGED spent
       \/ /\ MayHappen("duplicates", MaxDuplicates)
          /\ mail' = mail
          /\ spent' = [spent EXCEPT !.duplicates = @ + 1]
    /\ UNCHANGED <<rowVars, pods, waiters, cleanVars, history>>

\* A running program posts a heartbeat every minute.
HeartbeatArrives(t, p) ==
    /\ TaskAt(t, "idle") /\ pods[p] = "running" /\ Authorised(p)
    /\ tasks' = [tasks EXCEPT ![t] = [NoTask EXCEPT !.kind = "beat",
                                                    !.pc = "read"]]
    /\ UNCHANGED <<rowVars, podVars, waiters, cleanVars, logVars>>

\* The first await of stop_research_run: it reads the row.
StopRequested(t) ==
    /\ TaskAt(t, "idle") /\ run.status # "none" /\ MayHappen("stops", MaxStops)
    /\ spent' = [spent EXCEPT !.stops = @ + 1]
    /\ tasks' = [tasks EXCEPT ![t] =
          [NoTask EXCEPT !.kind = "stop",
                         !.pc = IF IsActive THEN "enqueue_stop" ELSE "enqueue"]]
    /\ UNCHANGED <<rowVars, podVars, waiters, cleanVars, history>>

-----------------------------------------------------------------------------
(* The webhook handlers.                                                    *)

\* get_research_pipeline_run.  Only the heartbeat looks at the status.
ReadRow(t) ==
    /\ TaskAt(t, "read")
    /\ LET next == CASE tasks[t].kind = "shortage" -> RestartPoint(run.restarts)
                     [] tasks[t].kind = "beat" /\ ~IsActive -> "idle"
                     [] OTHER -> "write"
       IN tasks' = [tasks EXCEPT ![t] =
              CASE next = "idle"       -> NoTask
                [] next = "delete_old" -> [@ EXCEPT !.pc = next, !.pod = run.pod,
                                                    !.restarts = run.restarts]
                [] OTHER               -> [@ EXCEPT !.pc = next]]
    /\ UNCHANGED <<rowVars, podVars, waiters, cleanVars, logVars>>

\* ingest_run_started, ingest_heartbeat, ingest_run_finished, and the last
\* statement of stop_research_run.
WriteRow(t) ==
    /\ TaskAt(t, "write")
    /\ \/ /\ tasks[t].kind = "started"
          /\ run' = [run EXCEPT !.status = "running", !.beat = "fresh",
                                !.deadline = "ahead"]
          /\ TaskEnds(t)
       \/ /\ tasks[t].kind = "beat"
          /\ run' = [run EXCEPT !.beat = "fresh"]
          /\ TaskEnds(t)
       \/ /\ tasks[t].kind = "finished"
          /\ \E outcome \in {"completed", "failed"} :
                run' = [run EXCEPT !.status = outcome, !.beat = "fresh"]
          /\ TaskGoes(t, "enqueue")
       \/ /\ tasks[t].kind = "stop"
          /\ run' = [run EXCEPT !.status = "failed"]
          /\ TaskEnds(t)
    /\ UNCHANGED <<overdue, podVars, waiters, cleanVars, logVars>>

\* Mutant: a request is ignored while the run still looks active.
EnqueueIfClosed(t) ==
    /\ TaskAt(t, "enqueue") \/ TaskAt(t, "enqueue_stop")
    /\ term' = IF term \in {"none", "failed"} /\ ~IsActive THEN "open" ELSE term
    /\ IF TaskAt(t, "enqueue_stop") THEN TaskGoes(t, "write") ELSE TaskEnds(t)
    /\ UNCHANGED <<rowVars, podVars, waiters, cleaner, logVars>>

\* enqueue_research_pipeline_run_termination, last in _fail_run, run-finished
\* and gpu-shortage, first in stop_research_run.
Enqueue(t) ==
    /\ TaskAt(t, "enqueue") \/ TaskAt(t, "enqueue_stop")
    /\ term' = IF term \in {"none", "failed"} THEN "open" ELSE term
    /\ IF TaskAt(t, "enqueue_stop") THEN TaskGoes(t, "write") ELSE TaskEnds(t)
    /\ UNCHANGED <<rowVars, podVars, waiters, cleaner, logVars>>

\* Mutant: the run is failed and nothing else.
FailRunOnly(t) ==
    /\ TaskAt(t, "fail") \/ TaskAt(t, "give_up")
    /\ run' = [run EXCEPT !.status = "failed"]
    /\ TaskEnds(t)
    /\ UNCHANGED <<overdue, podVars, waiters, cleanVars, logVars>>

\* _fail_run and the end of ingest_gpu_shortage.
FailRun(t) ==
    /\ TaskAt(t, "fail") \/ TaskAt(t, "give_up")
    /\ run' = [run EXCEPT !.status = "failed",
                          !.beat = IF tasks[t].kind = "shortage" THEN "fresh" ELSE @]
    /\ TaskGoes(t, "enqueue")
    /\ UNCHANGED <<overdue, podVars, waiters, cleanVars, logVars>>

-----------------------------------------------------------------------------
(* The pipeline monitor.                                                    *)

\* Where _handle_running_run goes on after the backfill, from its snapshot.
\* A stale heartbeat only raises an alert.
HeartbeatPoint ==
    CASE run.beat = "none"  -> IF run.deadline = "past" THEN "fail" ELSE "idle"
      [] run.beat = "stale" -> "idle"
      [] OTHER              -> "poll"

\* Mutant: the runtime is only looked at once the heartbeat is in order.
CheckPointHeartbeatFirst ==
    IF run.status = "initializing"
    THEN IF run.deadline = "past" THEN RestartPoint(run.restarts) ELSE "idle"
    ELSE IF HeartbeatPoint # "poll" THEN HeartbeatPoint
    ELSE IF overdue THEN "fail" ELSE HeartbeatPoint

\* _handle_pending_run and the start of _handle_running_run.
CheckPoint ==
    IF run.status = "initializing"
    THEN IF run.deadline = "past" THEN RestartPoint(run.restarts) ELSE "idle"
    ELSE IF overdue THEN "fail"
    ELSE IF run.address = NoPod /\ run.deadline = "past" THEN "backfill"
    ELSE HeartbeatPoint

\* _check_runs lists the active runs and handles this one.
CheckRun ==
    /\ TaskAt(Monitor, "idle") /\ IsActive /\ CheckPoint # "idle"
    /\ tasks' = [tasks EXCEPT ![Monitor] =
          IF CheckPoint \in {"fail", "give_up"}
          THEN [NoTask EXCEPT !.kind = "monitor", !.pc = CheckPoint]
          ELSE [NoTask EXCEPT !.kind = "monitor", !.pc = CheckPoint, !.pod = run.pod,
                              !.restarts = run.restarts,
                              !.then = IF CheckPoint = "backfill"
                                       THEN HeartbeatPoint ELSE "idle"]]
    /\ UNCHANGED <<rowVars, podVars, waiters, cleanVars, logVars>>

Resume(t) == IF tasks[t].then = "idle" THEN TaskEnds(t) ELSE TaskGoes(t, tasks[t].then)

\* _refresh_pod_connection_info: the pod answers with an address, or not.
Backfill(t) ==
    /\ TaskAt(t, "backfill")
    /\ \/ pods[tasks[t].pod] \in AlivePods /\ TaskGoes(t, "backfill_write")
       \/ Resume(t)
    /\ UNCHANGED <<rowVars, podVars, waiters, cleanVars, logVars>>

\* The pod of a write that points the row at a pod its task had not read.
Repointed(known) == IF run.pod # known THEN {"repointed"} ELSE {}

BackfillWrite(t) ==
    /\ TaskAt(t, "backfill_write")
    /\ run' = [run EXCEPT !.pod = tasks[t].pod, !.address = tasks[t].pod]
    /\ history' = history \cup Repointed(tasks[t].pod)
    /\ Resume(t)
    /\ UNCHANGED <<overdue, podVars, waiters, cleanVars, spent>>

\* get_pod; a pod RunPod has not raises RunPodError, which is only logged.
PollPod(t) ==
    /\ TaskAt(t, "poll")
    /\ IF pods[tasks[t].pod] = "exited"
       THEN TaskGoes(t, RestartPoint(tasks[t].restarts)) ELSE TaskEnds(t)
    /\ UNCHANGED <<rowVars, podVars, waiters, cleanVars, logVars>>

-----------------------------------------------------------------------------
(* attempt_pod_restart, for the monitor and the gpu-shortage webhook, and   *)
(* the part it shares with the launch.                                      *)

\* Mutant: the old pod is left alone.
KeepOldPod(t) ==
    /\ TaskAt(t, "delete_old")
    /\ TaskGoes(t, "launch")
    /\ UNCHANGED <<rowVars, podVars, waiters, cleanVars, logVars>>

\* Best effort: a deletion that is refused does not stop the restart.
DeleteOldPod(t) ==
    /\ TaskAt(t, "delete_old")
    /\ \/ /\ pods' = WithoutPod(tasks[t].pod)
          /\ UNCHANGED logVars
       \/ /\ MayHappen("refusals", MaxRefusals)
          /\ spent' = [spent EXCEPT !.refusals = @ + 1]
          /\ history' = history \cup {"refused"}
          /\ UNCHANGED pods
    /\ TaskGoes(t, "launch")
    /\ UNCHANGED <<rowVars, mail, waiters, cleanVars>>

\* launch_research_pipeline_run; which pod RunPod starts does not matter.
LaunchPod(t) ==
    /\ TaskAt(t, "launch")
    /\ \E p \in Pods :
          /\ pods[p] = "absent"
          /\ pods' = [pods EXCEPT ![p] = "boot"]
          /\ tasks' = [tasks EXCEPT ![t] =
                [@ EXCEPT !.fresh = p,
                          !.pc = IF tasks[t].kind = "launch" THEN "insert"
                                                             ELSE "update"]]
    /\ UNCHANGED <<rowVars, mail, waiters, cleanVars, logVars>>

\* No instance is available: the restart fails the run, the launch the call.
LaunchFails(t) ==
    /\ TaskAt(t, "launch")
    /\ IF tasks[t].kind = "launch" THEN TaskEnds(t) ELSE TaskGoes(t, "give_up")
    /\ UNCHANGED <<rowVars, podVars, waiters, cleanVars, logVars>>

\* create_research_pipeline_run
InsertRow(t) ==
    /\ TaskAt(t, "insert")
    /\ run' = [NoRun EXCEPT !.status = "initializing", !.pod = tasks[t].fresh,
                            !.token = tasks[t].fresh]
    /\ TaskGoes(t, "spawn")
    /\ UNCHANGED <<overdue, podVars, waiters, cleanVars, logVars>>

\* update_research_pipeline_run skips every argument that is None: of
\* public_ip, ssh_port, pod_host_id and last_heartbeat_at the old values stay.
UpdateRow(t) ==
    /\ TaskAt(t, "update")
    /\ run' = [run EXCEPT !.pod = tasks[t].fresh, !.token = tasks[t].fresh,
                          !.restarts = tasks[t].restarts + 1,
                          !.deadline = "ahead", !.status = "initializing"]
    /\ history' = history \cup Repointed(tasks[t].pod)
                          \cup (IF term # "none" THEN {"outlived"} ELSE {})
    /\ TaskGoes(t, "spawn")
    /\ UNCHANGED <<overdue, podVars, waiters, cleanVars, spent>>

\* Events are stored and published; then the waiter is created.
SpawnWaiter(t) ==
    /\ TaskAt(t, "spawn")
    /\ waiters' = [waiters EXCEPT ![tasks[t].fresh] =
                      IF pods[tasks[t].fresh] \in AlivePods THEN "waiting" ELSE @]
    /\ TaskEnds(t)
    /\ UNCHANGED <<rowVars, podVars, cleanVars, logVars>>

-----------------------------------------------------------------------------
(* _wait_for_pod_ready and _wait_for_restarted_pod_ready.  A waiter that is  *)
(* out of attempts, is refused or is lost leaves at most an event: it is    *)
(* one that takes no further step.                                          *)

\* The pod had an address when the waiter asked last; it may be gone now.
WaiterWrites(p) ==
    /\ waiters[p] = "waiting"
    /\ run' = [run EXCEPT !.pod = p, !.address = p]
    /\ history' = history \cup Repointed(p)
    /\ waiters' = [waiters EXCEPT ![p] = "none"]
    /\ UNCHANGED <<overdue, podVars, tasks, cleanVars, spent>>

-----------------------------------------------------------------------------
(* The termination service, as module PodTermination has it, for one run:   *)
(* the job reads the row's pod once, deletes it, and closes the request.    *)

CleanerReads ==
    /\ cleaner.pc = "idle" /\ term = "open"
    /\ cleaner' = [pc |-> "delete", pod |-> run.pod]
    /\ UNCHANGED <<rowVars, podVars, tasks, waiters, term, logVars>>

CleanerDeletes ==
    /\ cleaner.pc = "delete"
    /\ pods' = WithoutPod(cleaner.pod)
    /\ cleaner' = [cleaner EXCEPT !.pc = "close"]
    /\ UNCHANGED <<rowVars, mail, tasks, waiters, term, logVars>>

\* RunPod refuses: another attempt, or the request is given up.
CleanerIsRefused ==
    /\ cleaner.pc = "delete" /\ MayHappen("refusals", MaxRefusals)
    /\ spent' = [spent EXCEPT !.refusals = @ + 1]
    /\ history' = history \cup {"refused"}
    /\ term' \in {"open", "failed"}
    /\ cleaner' = [pc |-> "idle", pod |-> NoPod]
    /\ UNCHANGED <<rowVars, podVars, tasks, waiters>>

CleanerCloses ==
    /\ cleaner.pc = "close"
    /\ term' = "terminated"
    /\ cleaner' = [pc |-> "idle", pod |-> NoPod]
    /\ UNCHANGED <<rowVars, podVars, tasks, waiters, logVars>>

-----------------------------------------------------------------------------

\* An await of the task raises, or its process goes down.
TaskDies(t) ==
    /\ ~TaskAt(t, "idle") /\ MayHappen("deaths", MaxDeaths)
    /\ TaskEnds(t)
    /\ spent' = [spent EXCEPT !.deaths = @ + 1]
    /\ history' = history \cup {"died"}
    /\ UNCHANGED <<rowVars, podVars, waiters, cleanVars>>

TaskStep(t) ==
    \/ ReadRow(t) \/ WriteRow(t) \/ Enqueue(t) \/ FailRun(t)
    \/ Backfill(t) \/ BackfillWrite(t) \/ PollPod(t)
    \/ DeleteOldPod(t) \/ LaunchPod(t) \/ LaunchFails(t)
    \/ InsertRow(t) \/ UpdateRow(t) \/ SpawnWaiter(t)

Cleaner    == CleanerReads \/ CleanerDeletes \/ CleanerIsRefused \/ CleanerCloses
PodStep(p) == \/ PodStarts(p) \/ PodIsShort(p) \/ PodFinishes(p)
              \/ PodFails(p)
Clock      == DeadlinePasses \/ HeartbeatLapses \/ RuntimeExpires

Requests(t) == \/ LaunchRequested(t) \/ StopRequested(t)
               \/ \E call \in mail : WebhookArrives(t, call)
               \/ \E p \in Pods : HeartbeatArrives(t, p)

Next ==
    \/ Clock \/ Cleaner \/ CheckRun
    \/ \E p \in Pods : PodStep(p) \/ WaiterWrites(p)
    \/ \E t \in Handlers : Requests(t)
    \/ \E t \in Tasks : TaskStep(t) \/ TaskDies(t)

\* Time passes, event loops keep running, calls return; the monitor comes
\* back to the run.  Nothing is assumed of the user, the pods or the network.
Fairness ==
    /\ WF_vars(DeadlinePasses) /\ WF_vars(RuntimeExpires)
    /\ WF_vars(CheckRun) /\ WF_vars(Cleaner)
    /\ \A t \in Tasks : WF_vars(TaskStep(t))

Spec == Init /\ [][Next]_vars
FairSpec == Spec /\ Fairness

-----------------------------------------------------------------------------
(* Properties.                                                              *)

IsClosed == run.status \in {"completed", "failed"}

\* Some task will still request the termination of the run's pod.
ToBeRequested == \E t \in Tasks : tasks[t].pc \in {"fail", "give_up", "enqueue"}

\* A pod is accounted for if a task is about to write it into the row, or if
\* the row names it and the run is active or its termination under way.
Accounted(p) ==
    \/ \E t \in Tasks : tasks[t].fresh = p /\ tasks[t].pc \in {"insert", "update"}
    \/ /\ run.pod = p
       /\ term \in {"none", "open"}
       /\ IsActive \/ term = "open" \/ ToBeRequested

\* Orphans have a cause: a pod that nobody will delete is left behind only by
\* a refused deletion, a lost task, two tasks that both write the row's pod,
\* or a restart of a run whose pod is to be terminated.
OrphansHaveACause ==
    \A p \in Pods : Existing(p) /\ ~Accounted(p) =>
       history \cap {"died", "refused", "repointed", "outlived"} # {}

\* A run is not closed and then forgotten: the request for the deletion of
\* its pod has been made or is about to be made.
ClosedRunsAreRequested ==
    IsClosed => term # "none" \/ ToBeRequested \/ "died" \in history

\* The pod the row names is the pod whose webhooks are accepted, unless a
\* late writer has put another pod into the row.
NamedPodIsAuthorised ==
    run.token = run.pod \/ "repointed" \in history

\* The run ends, whatever its pods, its webhooks and the user do: deadlines
\* and the maximum runtime close it.
EveryRunEnds == <>[](run.status = "none" \/ IsClosed)

\* All pods of the run go away in the end, or there is a cause for an orphan.
PodsGoAway ==
    <>[](\/ \A p \in Pods : ~Existing(p)
         \/ history \cap {"died", "refused", "repointed", "outlived"} # {})

=============================================================================
