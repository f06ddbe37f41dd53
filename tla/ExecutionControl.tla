-------------------------- MODULE ExecutionControl --------------------------
(***************************************************************************)
(* Control over the executions inside one pod.  The agent's thread walks    *)
(* through the stages: in each iteration it registers a batch of            *)
(* executions, submits them to a process pool and collects the results.     *)
(* Each worker process prepares a workspace, starts Codex as a process of   *)
(* its own and reports its pid through a dictionary all processes share.    *)
(* The management server's thread kills single executions with the user's   *)
(* feedback, or skips the stage.  The three act on the registry, the shared *)
(* dictionary, the stage state and the GPUs concurrently; each lock is held *)
(* for one statement only, except for the stage lock during a skip.         *)
(***************************************************************************)
EXTENDS Integers, FiniteSets, Sequences, Functions

CONSTANTS
    NumExecs,         \* execution ids; one that is forgotten may come again
    NumGpus,          \* the GPUs of the pod
    NoExec, NoGpu,    \* None
    NumStages,        \* main stages of the experiment
    MaxIterations,    \* max_iterations of each stage
    NumWorkers,       \* num_workers: processes of a pool, executions of a step
    NumSeeds,         \* seeds of the batch that evaluates a finished stage
    MaxTerminations,  \* bound: terminations the user asks for
    MaxSkips,         \* bound: skips the user asks for
    MaxTimeouts,      \* bound: results that do not come in time
    MaxFaults,        \* bound: worker processes that die, submissions that fail
    MaxEvents         \* bound: all these together

ASSUME ConstantsAssumption ==
    /\ NoExec \notin Nat /\ NoGpu \notin Nat
    /\ {NumExecs, NumStages, NumWorkers} \subseteq Nat \ {0}
    /\ MaxIterations \in [1..NumStages -> Nat \ {0}]
    /\ {NumGpus, NumSeeds, MaxTerminations, MaxSkips, MaxTimeouts, MaxFaults,
      MaxEvents} \subseteq Nat
    /\ NumGpus > 0 => NumWorkers <= NumGpus /\ NumSeeds <= NumWorkers

Execs == 1..NumExecs
Gpus  == 0..NumGpus - 1

VARIABLES
    agent,     \* where the agent's thread is
    futures,   \* the futures of the batch that have not been collected
    control,   \* _stage_state and _skip_request of stage_control
    entries,   \* _entries of the registry in the main process
    shared,    \* the dictionary the processes share
    workers,   \* how far the worker of each execution has got
    gpuOf,     \* the GPU each worker was told to use
    reserved,  \* the GPU manager's assignments
    pool,      \* the executions of the current process pool
    deferred,  \* _deferred_registry_clears
    killers,   \* the terminations that are under way
    todo,      \* executions the skip under way has still to terminate
    feedback,  \* feedback that has reached a node through each execution
    history,   \* what a reader should know of the past
    spent      \* how much of each bound is used up

agentVars  == <<agent, futures>>
regVars    == <<entries, shared>>
gpuVars    == <<gpuOf, reserved>>
killVars   == <<killers, todo>>
logVars    == <<history, spent>>
vars == <<agent, futures, control, entries, shared, workers, gpuOf, reserved,
          pool, deferred, killers, todo, feedback, history, spent>>

-----------------------------------------------------------------------------
(* State spaces.                                                            *)

Stages == 1..NumStages

\* Whose words a termination carries.
Reasons == {"user", "skip", "timeout"}

AgentPoints == {"publish", "consume", "submit", "register", "future",
                "collect", "wait", "timeout", "restart", "clear", "evaluate",
                "cancel", "complete", "cleanup", "advance", "over"}

\* status of an ExecutionEntry; node: it refers to a node of the journal.
Entries == [status  : {"none", "running", "terminated"},
            payload : Reasons \cup {"none"},
            node    : BOOLEAN]

NoEntry == [status |-> "none", payload |-> "none", node |-> FALSE]

\* An entry of the shared dictionary; one with neither is as good as none.
SharedEntries == [pid : BOOLEAN, flag : {"none", "terminated", "skip"}]

NoShared == [pid |-> FALSE, flag |-> "none"]

\* "preparing" until the skip check, "starting" until the pid of Codex is
\* reported, "computing" while Codex runs, "exited" or "killed" until the pid
\* is cleared.  "orphaned": the worker has died, its Codex has not.
WorkerStates == {"none", "queued", "preparing", "starting", "computing",
                 "exited", "killed", "done", "aborted", "failed", "cancelled",
                 "orphaned"}

Unfinished == {"queued", "preparing", "starting", "computing", "exited", "killed"}

\* Future.cancel comes too late, and something still runs.
Running == (Unfinished \ {"queued"}) \cup {"orphaned"}

Killers == {"server", "agent"}

NoKiller == [pc |-> "idle", exec |-> NoExec, reason |-> "none"]

TypeOK ==
    /\ agent \in [pc : AgentPoints, stage : Stages, mode : {"step", "seeds", "substage"},
                  left : Nat, iteration : Nat, ending : BOOLEAN]
    /\ agent.iteration <= MaxIterations[agent.stage]
    /\ futures \in Seq(Execs)
    /\ control \in [stage : Stages \cup {0}, pending : BOOLEAN]
    /\ entries \in [Execs -> Entries]
    /\ shared \in [Execs -> SharedEntries]
    /\ workers \in [Execs -> WorkerStates]
    /\ gpuOf \in [Execs -> Gpus \cup {NoGpu}]
    /\ reserved \in [Execs -> Gpus \cup {NoGpu}]
    /\ pool \in [execs : SUBSET Execs, broken : BOOLEAN]
    /\ deferred \in SUBSET Execs
    /\ killers \in [Killers -> [pc : {"idle", "flag", "mark", "share", "kill"},
                                exec : Execs \cup {NoExec},
                                reason : Reasons \cup {"none"}]]
    /\ todo \in [skipping : BOOLEAN, execs : SUBSET Execs]
    /\ feedback \in [Execs -> Reasons \cup {"none"}]
    /\ history \in [acked : SUBSET Execs, late : SUBSET Execs,
                    loose : SUBSET Execs,
                    accepted : SUBSET Stages, skipped : SUBSET Stages,
                    started : Nat]
    /\ spent \in [terminations : Nat, skips : Nat, timeouts : Nat, faults : Nat]

Init ==
    /\ agent = [pc |-> "publish", stage |-> 1, mode |-> "step", left |-> 0,
                iteration |-> 0, ending |-> FALSE]
    /\ futures = <<>>
    /\ control = [stage |-> 0, pending |-> FALSE]
    /\ entries = [e \in Execs |-> NoEntry]
    /\ shared = [e \in Execs |-> NoShared]
    /\ workers = [e \in Execs |-> "none"]
    /\ gpuOf = [e \in Execs |-> NoGpu]
    /\ reserved = [e \in Execs |-> NoGpu]
    /\ pool = [execs |-> {}, broken |-> FALSE]
    /\ deferred = {}
    /\ killers = [k \in Killers |-> NoKiller]
    /\ todo = [skipping |-> FALSE, execs |-> {}]
    /\ feedback = [e \in Execs |-> "none"]
    /\ history = [acked |-> {}, late |-> {}, loose |-> {},
                  accepted |-> {}, skipped |-> {}, started |-> 0]
    /\ spent = [terminations |-> 0, skips |-> 0, timeouts |-> 0, faults |-> 0]

-----------------------------------------------------------------------------
(* Helpers.                                                                 *)

AgentAt(pc)   == agent.pc = pc
AgentGoes(pc) == agent' = [agent EXCEPT !.pc = pc]

MayHappen(event, max) ==
    /\ spent[event] < max
    /\ spent.terminations + spent.skips + spent.timeouts + spent.faults < MaxEvents

\* The stage lock is only held across statements by a skip.
StageLockFree == ~todo.skipping

\* ensure_no_skip_pending would raise; the seed batch does not call it.
SkipSeen == agent.mode = "step" /\ control.pending /\ control.stage = agent.stage

\* An id nobody refers to any more.
Forgotten(e) ==
    /\ workers[e] \notin Unfinished \cup {"orphaned"}
    /\ e \notin Range(futures) \cup deferred \cup todo.execs
    /\ entries[e] = NoEntry
    /\ \A k \in Killers : killers[k].exec # e

FreeGpus == Gpus \ Range(reserved)

Least(S) == CHOOSE n \in S : \A m \in S : n <= m

\* clear_execution
Cleared(E) ==
    /\ entries' = [e \in Execs |-> IF e \in E THEN NoEntry ELSE entries[e]]
    /\ shared' = [e \in Execs |-> IF e \in E THEN NoShared ELSE shared[e]]

Released(E) == [e \in Execs |-> IF e \in E THEN NoGpu ELSE reserved[e]]

\* What is known of an execution that is over is of no use once the agent no
\* longer waits for it.
Forget(e) ==
    /\ workers' = [workers EXCEPT ![e] = "none"]
    /\ gpuOf' = [gpuOf EXCEPT ![e] = NoGpu]
    /\ pool' = [pool EXCEPT !.execs = @ \ {e}]
    /\ feedback' = [feedback EXCEPT ![e] = "none"]
    /\ history' = [history EXCEPT !.acked = @ \ {e}, !.late = @ \ {e},
                                  !.loose = @ \ {e}]

\* A worker is through with an execution.
Ends(e, state) ==
    IF e \in Range(futures)
    THEN /\ workers' = [workers EXCEPT ![e] = state]
         /\ UNCHANGED <<gpuOf, pool, feedback, history>>
    ELSE Forget(e)

\* flag_skip_pending ignores ids it does not know.
Flagged(E, reason) ==
    LET known == {e \in E : entries[e] # NoEntry} IN
    /\ entries' = [e \in Execs |-> IF e \in known
                      THEN [entries[e] EXCEPT !.status = "terminated",
                                              !.payload = reason]
                      ELSE entries[e]]
    /\ shared' = [e \in Execs |-> IF e \in known
                      THEN [shared[e] EXCEPT !.flag = "skip"] ELSE shared[e]]

\* begin_termination looks whether there is something to kill; what there is not
\* is flagged, by a skip or a timeout.
Begun(e, reason) ==
    [pc     |-> IF entries[e].status = "running" /\ shared[e].pid THEN "mark" ELSE "flag",
     exec   |-> e,
     reason |-> reason]

\* Futures that are cancelled among E: an item the pool has already put into
\* its call queue is not.
Cancelled(E) ==
    \E C \in SUBSET {e \in E : workers[e] = "queued"} :
        workers' = [e \in Execs |-> IF e \in C THEN "cancelled" ELSE workers[e]]

-----------------------------------------------------------------------------
(* The agent: AgentManager and ParallelAgent.                               *)

\* publish_stage_state, at the start of a stage and of every iteration.
Publish ==
    /\ AgentAt("publish") /\ StageLockFree
    /\ control' = [stage |-> agent.stage,
                   pending |-> control.pending /\ control.stage = agent.stage]
    /\ AgentGoes("consume")
    /\ UNCHANGED <<futures, regVars, workers, gpuVars, pool, deferred, killVars,
                   feedback, logVars>>

\* Mutant: attempts are not counted.
ConsumeUncounted ==
    /\ AgentAt("consume") /\ StageLockFree
    /\ IF control.pending /\ control.stage = agent.stage
       THEN /\ control' = [control EXCEPT !.pending = FALSE]
            /\ agent' = [agent EXCEPT !.pc = "complete", !.mode = "step"]
       ELSE /\ agent' = [agent EXCEPT !.pc = "submit", !.mode = "step", !.left = NumWorkers]
            /\ UNCHANGED control
    /\ UNCHANGED <<futures, regVars, workers, gpuVars, pool, deferred, killVars,
                   feedback, logVars>>

\* consume_pending_request, then the stage is over or an iteration begins.
Consume ==
    /\ AgentAt("consume") /\ StageLockFree
    /\ IF control.pending /\ control.stage = agent.stage
       THEN /\ control' = [control EXCEPT !.pending = FALSE]
            /\ history' = [history EXCEPT !.skipped = @ \cup {agent.stage}]
            /\ agent' = [agent EXCEPT !.pc = "complete", !.mode = "step"]
       ELSE /\ agent' = [agent EXCEPT !.pc = "submit", !.mode = "step",
                                      !.left = NumWorkers, !.iteration = @ + 1]
            /\ UNCHANGED <<control, history>>
    /\ UNCHANGED <<futures, regVars, workers, gpuVars, pool, deferred, killVars,
                   feedback, spent>>

\* _prepare_substage: a stage that finds no best node to start from ends the
\* experiment.
PreparationFails ==
    /\ AgentAt("consume")
    /\ \/ agent.mode = "substage"
       \/ agent.stage > 1 /\ agent.iteration = 0
    /\ agent' = [agent EXCEPT !.pc = "cleanup", !.mode = "step", !.ending = TRUE]
    /\ UNCHANGED <<futures, control, regVars, workers, gpuVars, pool, deferred,
                   killVars, feedback, logVars>>

\* Mutant: the submission loop does not look for a skip.
SubmitUnchecked ==
    /\ AgentAt("submit")
    /\ AgentGoes("register")
    /\ UNCHANGED <<futures, control, regVars, workers, gpuVars, pool, deferred,
                   killVars, feedback, logVars>>

\* The head of the submission loop.
Submit ==
    /\ AgentAt("submit")
    /\ agent.mode = "step" => StageLockFree /\ ~SkipSeen
    /\ AgentGoes("register")
    /\ UNCHANGED <<futures, control, regVars, workers, gpuVars, pool, deferred,
                   killVars, feedback, logVars>>

\* Mutant of acquire_gpu: the first GPU is handed out, free or not.
AcquireFirst(e) ==
    /\ gpuOf' = [gpuOf EXCEPT ![e] = IF Gpus = {} THEN NoGpu ELSE Least(Gpus)]
    /\ reserved' = [reserved EXCEPT ![e] = gpuOf'[e]]

\* acquire_gpu; without a free one the execution goes to the CPU.
Acquire(e) ==
    /\ gpuOf' = [gpuOf EXCEPT ![e] = IF FreeGpus = {} THEN NoGpu ELSE Least(FreeGpus)]
    /\ reserved' = [reserved EXCEPT ![e] = gpuOf'[e]]

\* The id is a new one.  Drafts have no node yet; a seed has the node it
\* evaluates.
Register ==
    /\ AgentAt("register")
    /\ \E e \in Execs, node \in BOOLEAN :
          /\ Forgotten(e) /\ \A f \in 1..e - 1 : ~Forgotten(f)
          /\ agent.mode = "seeds" => node
          /\ Acquire(e)
          /\ entries' = [entries EXCEPT ![e] =
                [status |-> "running", payload |-> "none", node |-> node]]
          /\ shared' = [shared EXCEPT ![e] = NoShared]
          /\ workers' = [workers EXCEPT ![e] = "none"]
          /\ feedback' = [feedback EXCEPT ![e] = "none"]
          /\ futures' = Append(futures, e)
          /\ history' = [history EXCEPT
                !.acked = @ \ {e}, !.late = @ \ {e},
                !.loose = @ \ {e}, !.started = IF SkipSeen THEN @ + 1 ELSE @]
    /\ AgentGoes("future")
    /\ UNCHANGED <<control, pool, deferred, killVars, spent>>

LastExec == futures[Len(futures)]

\* The idea for the node is generated, then the pool accepts the work.
SubmitFuture ==
    /\ AgentAt("future") /\ ~pool.broken
    /\ workers' = [workers EXCEPT ![LastExec] = "queued"]
    /\ pool' = [pool EXCEPT !.execs = @ \cup {LastExec}]
    /\ agent' = [agent EXCEPT !.left = @ - 1,
                              !.pc = IF agent.left = 1 THEN "collect" ELSE "submit"]
    /\ UNCHANGED <<futures, control, regVars, gpuVars, deferred, killVars,
                   feedback, logVars>>

\* The idea fails, or the pool is broken: the exception ends the experiment.
SubmitFails ==
    /\ AgentAt("future")
    /\ \/ pool.broken /\ UNCHANGED spent
       \/ /\ agent.mode = "step" /\ MayHappen("faults", MaxFaults)
          /\ spent' = [spent EXCEPT !.faults = @ + 1]
    /\ agent' = [agent EXCEPT !.pc = "cleanup", !.ending = TRUE]
    /\ UNCHANGED <<futures, control, regVars, workers, gpuVars, pool, deferred,
                   killVars, feedback, history>>

\* SkipInProgressError: abort_active_executions flags what is uncollected ...
AbortActive ==
    /\ agent.pc \in {"submit", "collect"} /\ StageLockFree /\ SkipSeen
    /\ Flagged(Range(futures), "skip")
    /\ AgentGoes("cancel")
    /\ UNCHANGED <<futures, control, workers, gpuVars, pool, deferred, killVars,
                   feedback, logVars>>

\* The future is cancelled or over, or its worker runs on.
LetGo(e) ==
    \/ workers[e] \notin Running /\ Forget(e)
    \/ /\ workers[e] \in Running \cup {"queued"}
       /\ history' = [history EXCEPT !.loose = @ \cup {e}]
       /\ UNCHANGED <<workers, gpuOf, pool, feedback>>

\* ... and _cancel_pending_futures lets go of it, done or not.
CancelFuture ==
    /\ AgentAt("cancel") /\ futures # <<>>
    /\ LetGo(Head(futures))
    /\ Cleared({Head(futures)})
    /\ reserved' = Released({Head(futures)})
    /\ futures' = Tail(futures)
    /\ UNCHANGED <<agent, control, deferred, killVars, spent>>

\* The request itself is not consumed.
CancelEnds ==
    /\ AgentAt("cancel") /\ futures = <<>>
    /\ history' = [history EXCEPT !.skipped = @ \cup {agent.stage}]
    /\ AgentGoes("complete")
    /\ UNCHANGED <<futures, control, regVars, workers, gpuVars, pool, deferred,
                   killVars, feedback, spent>>

\* The head of the loop that collects.
Collect ==
    /\ AgentAt("collect")
    /\ IF futures = <<>> THEN AgentGoes("evaluate")
       ELSE /\ agent.mode = "step" => StageLockFree /\ ~SkipSeen
            /\ AgentGoes("wait")
    /\ UNCHANGED <<futures, control, regVars, workers, gpuVars, pool, deferred,
                   killVars, feedback, logVars>>

\* Mutant: the entry's feedback is not propagated to the result.
ResultArrivesBare ==
    LET e == Head(futures) IN
    /\ AgentAt("wait") /\ workers[e] \notin Unfinished
    /\ AgentGoes("clear")
    /\ UNCHANGED <<futures, control, regVars, workers, gpuVars, pool,
                   deferred, killVars, feedback, logVars>>

\* The future returns a node, to which attach_node gives the feedback the
\* entry holds, or raises what the worker has raised.
ResultArrives ==
    LET e == Head(futures) IN
    /\ AgentAt("wait") /\ workers[e] \notin Unfinished
    /\ \/ /\ workers[e] = "done"
          /\ IF entries[e] # NoEntry
             THEN /\ entries' = [entries EXCEPT ![e].node = TRUE]
                  /\ feedback' = [feedback EXCEPT ![e] =
                        IF entries[e].payload # "none" THEN entries[e].payload ELSE @]
             ELSE UNCHANGED <<entries, feedback>>
          /\ UNCHANGED workers
       \/ /\ workers' = [workers EXCEPT ![e] = IF @ = "done" THEN "failed" ELSE @]
          /\ UNCHANGED <<entries, feedback>>
    /\ AgentGoes("clear")
    /\ UNCHANGED <<futures, control, shared, gpuVars, pool, deferred, killVars, logVars>>

\* future.result raises TimeoutError.  A seed is let go of at once.
TimesOut ==
    LET e == Head(futures) IN
    /\ AgentAt("wait") /\ workers[e] \in Unfinished /\ MayHappen("timeouts", MaxTimeouts)
    /\ spent' = [spent EXCEPT !.timeouts = @ + 1]
    /\ history' = [history EXCEPT
          !.late = @ \cup {e},
          !.loose = IF agent.mode = "seeds" THEN @ \cup {e} ELSE @]
    /\ IF agent.mode = "seeds"
       THEN AgentGoes("clear") /\ UNCHANGED <<workers, killers>>
       ELSE /\ AgentGoes("timeout")
            /\ Cancelled({e})
            /\ killers' = [killers EXCEPT !["agent"] = Begun(e, "timeout")]
    /\ UNCHANGED <<futures, control, regVars, gpuVars, pool, deferred, todo, feedback>>

\* _restart_executor: the old pool's workers finish what they have; there is
\* nobody left to terminate once shutdown has dropped its processes.
RestartExecutor ==
    /\ AgentAt("restart")
    /\ Cancelled(pool.execs)
    /\ pool' = [execs |-> {}, broken |-> FALSE]
    /\ deferred' = deferred \cup {Head(futures)}
    /\ AgentGoes("clear")
    /\ UNCHANGED <<futures, control, regVars, gpuVars, killVars, feedback, logVars>>

\* The finally clause of the loop.
ClearCollected ==
    LET e == Head(futures) IN
    /\ AgentAt("clear")
    /\ Cleared({e} \ deferred)
    /\ reserved' = Released({e})
    /\ futures' = Tail(futures)
    /\ IF workers[e] \in Unfinished \cup {"orphaned"}
       THEN /\ history' = [history EXCEPT !.acked = @ \ {e}, !.late = @ \ {e}]
            /\ UNCHANGED <<workers, gpuOf, pool, feedback>>
       ELSE Forget(e)
    /\ AgentGoes("collect")
    /\ UNCHANGED <<control, deferred, killVars, spent>>

\* The completion checks.  Below the limit of the iterations the stage goes on,
\* with the same agent or as a sub-stage with a new one; at the limit it is over,
\* and so is the experiment if it is the first stage.
Evaluate ==
    /\ AgentAt("evaluate")
    /\ \/ /\ agent.mode = "step" /\ agent.iteration < MaxIterations[agent.stage]
          /\ \/ AgentGoes("publish")
             \/ agent' = [agent EXCEPT !.pc = "cleanup", !.mode = "substage"]
       \/ /\ agent.mode = "step"
          /\ agent' = [agent EXCEPT !.pc = "complete",
                !.ending = agent.stage = 1 /\ agent.iteration = MaxIterations[1]]
       \/ agent.mode = "seeds" /\ AgentGoes("cleanup")
    /\ UNCHANGED <<futures, control, regVars, workers, gpuVars, pool, deferred,
                   killVars, feedback, logVars>>

\* _perform_multi_seed_eval_if_needed: only if there is a best node.
StageCompletes ==
    /\ AgentAt("complete")
    /\ \/ /\ NumSeeds > 0
          /\ agent' = [agent EXCEPT !.pc = "submit", !.mode = "seeds", !.left = NumSeeds]
       \/ AgentGoes("cleanup")
    /\ UNCHANGED <<futures, control, regVars, workers, gpuVars, pool, deferred,
                   killVars, feedback, logVars>>

\* ParallelAgent.cleanup: the pool is dropped like in RestartExecutor.
Cleanup ==
    /\ AgentAt("cleanup")
    /\ Cancelled(pool.execs)
    /\ reserved' = Released(Execs)
    /\ pool' = [execs |-> {}, broken |-> FALSE]
    /\ Cleared(deferred)
    /\ deferred' = {}
    /\ history' = [history EXCEPT
          !.loose = @ \cup {e \in Range(futures) : workers'[e] \in Unfinished}]
    /\ AgentGoes("advance")
    /\ UNCHANGED <<futures, control, gpuOf, killVars, feedback, spent>>

NewStage ==
    history' = [history EXCEPT !.accepted = {}, !.skipped = {}, !.started = 0]

\* The next sub-stage, _advance_to_next_main_stage, or the end of the run.
Advance ==
    /\ AgentAt("advance") /\ StageLockFree
    /\ \/ /\ agent.mode = "substage"
          /\ AgentGoes("publish")
          /\ UNCHANGED <<control, history>>
       \/ /\ agent.mode # "substage" /\ (agent.ending \/ agent.stage = NumStages)
          /\ AgentGoes("over")
          /\ control' = [stage |-> 0, pending |-> FALSE]
          /\ NewStage
       \/ /\ agent.mode # "substage" /\ ~agent.ending /\ agent.stage < NumStages
          /\ agent' = [agent EXCEPT !.pc = "publish", !.mode = "step",
                                    !.stage = @ + 1, !.iteration = 0]
          /\ NewStage
          /\ UNCHANGED control
    /\ UNCHANGED <<futures, regVars, workers, gpuVars, pool, deferred, killVars,
                   feedback, spent>>

AgentStep ==
    \/ Publish \/ Consume \/ PreparationFails
    \/ Submit \/ Register \/ SubmitFuture
    \/ AbortActive \/ CancelFuture \/ CancelEnds
    \/ Collect \/ ResultArrives \/ RestartExecutor \/ ClearCollected
    \/ Evaluate \/ StageCompletes \/ Cleanup \/ Advance

-----------------------------------------------------------------------------
(* The workers: process_node.                                               *)

WorkerAt(e, state)   == workers[e] = state
WorkerGoes(e, state) == workers' = [workers EXCEPT ![e] = state]

Busy == {e \in pool.execs : workers[e] \in Unfinished \ {"queued"}}

StartWork(e) ==
    /\ WorkerAt(e, "queued")
    /\ e \in pool.execs => Cardinality(Busy) < NumWorkers
    /\ WorkerGoes(e, "preparing")
    /\ UNCHANGED <<agentVars, control, regVars, gpuVars, pool, deferred, killVars,
                   feedback, logVars>>

\* _abort_if_skip_requested
CheckSkip(e) ==
    /\ WorkerAt(e, "preparing")
    /\ IF shared[e].flag = "skip" THEN Ends(e, "aborted")
       ELSE WorkerGoes(e, "starting") /\ UNCHANGED <<gpuOf, pool, feedback, history>>
    /\ UNCHANGED <<agentVars, control, regVars, reserved, deferred, killVars, spent>>

\* Codex has been started; update_pid writes a new entry, whatever was there.
ReportPid(e) ==
    /\ WorkerAt(e, "starting")
    /\ shared' = [shared EXCEPT ![e] = [pid |-> TRUE, flag |-> "none"]]
    /\ WorkerGoes(e, "computing")
    /\ UNCHANGED <<agentVars, control, entries, gpuVars, pool, deferred, killVars,
                   feedback, logVars>>

\* Codex comes to its end or runs into the time limit of its own, or the
\* runner sees the termination before the signal comes.
CodexEnds(e) ==
    /\ WorkerAt(e, "computing")
    /\ \/ WorkerGoes(e, "exited")
       \/ shared[e].flag # "none" /\ WorkerGoes(e, "killed")
    /\ UNCHANGED <<agentVars, control, regVars, gpuVars, pool, deferred, killVars,
                   feedback, logVars>>

\* mark_completed (in the worker it only finds the shared entry) or clear_pid;
\* then the result is loaded and reviewed.
WorkEnds(e) ==
    /\ \/ WorkerAt(e, "exited") /\ shared' = [shared EXCEPT ![e] = NoShared]
       \/ /\ WorkerAt(e, "exited") \/ WorkerAt(e, "killed")
          /\ shared' = [shared EXCEPT ![e].pid = FALSE]
    /\ Ends(e, "done")
    /\ UNCHANGED <<agentVars, control, entries, reserved, deferred, killVars, spent>>

OrphanEnds(e) ==
    /\ WorkerAt(e, "orphaned")
    /\ Ends(e, "failed")
    /\ UNCHANGED <<agentVars, control, regVars, reserved, deferred, killVars, spent>>

\* A worker process dies: the pool fails all its futures and kills the other
\* workers; Codex runs in sessions of its own.
PoolBreaks ==
    /\ Busy # {} /\ MayHappen("faults", MaxFaults)
    /\ workers' = [e \in Execs |->
          CASE e \notin pool.execs \/ workers[e] \notin Unfinished -> workers[e]
            [] e \in pool.execs /\ workers[e] \in {"starting", "computing"} -> "orphaned"
            [] OTHER -> "failed"]
    /\ pool' = [pool EXCEPT !.broken = TRUE]
    /\ history' = [history EXCEPT
          !.loose = @ \cup {e \in Execs : workers'[e] = "orphaned"}]
    /\ spent' = [spent EXCEPT !.faults = @ + 1]
    /\ UNCHANGED <<agentVars, control, regVars, gpuVars, deferred, killVars, feedback>>

WorkerStep(e) == \/ StartWork(e) \/ CheckSkip(e) \/ ReportPid(e)
                 \/ CodexEnds(e) \/ WorkEnds(e) \/ OrphanEnds(e)

-----------------------------------------------------------------------------
(* Terminations: by the server for the user or a skip, by the agent for a   *)
(* timeout.  begin_termination marks the execution some time after it has   *)
(* looked at it; read and write of a shared entry are one step.             *)

KillerAt(k, pc)   == killers[k].pc = pc
KillerGoes(k, pc) == killers' = [killers EXCEPT ![k].pc = pc]

KillerEnds(k) ==
    /\ killers' = [killers EXCEPT ![k] = NoKiller]
    /\ IF k = "agent" THEN AgentGoes("restart") ELSE UNCHANGED agent

\* flag_skip_pending, for what could not be terminated.
Flag(k) ==
    LET e == killers[k].exec IN
    /\ KillerAt(k, "flag")
    /\ Flagged({e}, killers[k].reason)
    /\ KillerEnds(k)
    /\ history' = [history EXCEPT
          !.loose = IF k = "agent" /\ workers[e] \in Running \cup {"queued"}
                    THEN @ \cup {e} ELSE @]
    /\ UNCHANGED <<futures, control, workers, gpuVars, pool, deferred, todo,
                   feedback, spent>>

\* mark_terminated; without an entry it leaves the shared one alone, too.
Mark(k) ==
    LET e == killers[k].exec IN
    /\ KillerAt(k, "mark")
    /\ IF entries[e] = NoEntry
       THEN KillerGoes(k, "kill") /\ UNCHANGED <<entries, feedback>>
       ELSE /\ entries' = [entries EXCEPT ![e].status = "terminated",
                                          ![e].payload = killers[k].reason]
            /\ feedback' = IF entries[e].node
                           THEN [feedback EXCEPT ![e] = killers[k].reason]
                           ELSE feedback
            /\ KillerGoes(k, "share")
    /\ UNCHANGED <<agentVars, control, shared, workers, gpuVars, pool, deferred,
                   todo, logVars>>

Share(k) ==
    LET e == killers[k].exec IN
    /\ KillerAt(k, "share")
    /\ shared' = [shared EXCEPT ![e].flag = IF @ = "skip" THEN @ ELSE "terminated"]
    /\ KillerGoes(k, "kill")
    /\ UNCHANGED <<agentVars, control, entries, workers, gpuVars, pool, deferred,
                   todo, feedback, logVars>>

\* SIGKILL reaches Codex, or a process that is over but not yet reaped.
Kill(k) ==
    LET e == killers[k].exec IN
    /\ KillerAt(k, "kill")
    /\ workers[e] \in {"computing", "orphaned", "exited"}
    /\ WorkerGoes(e, CASE workers[e] = "computing" -> "killed"
                       [] workers[e] = "orphaned"  -> "failed"
                       [] OTHER -> "exited")
    /\ history' = IF killers[k].reason = "user"
                  THEN [history EXCEPT !.acked = @ \cup {e}] ELSE history
    /\ KillerEnds(k)
    /\ UNCHANGED <<futures, control, regVars, gpuVars, pool, deferred, todo,
                   feedback, spent>>

\* ProcessLookupError: to the user the request is refused.
KillMisses(k) ==
    LET e == killers[k].exec IN
    /\ KillerAt(k, "kill")
    /\ workers[e] \notin {"computing", "orphaned"}
    /\ IF killers[k].reason = "user" THEN Cleared({e}) ELSE UNCHANGED regVars
    /\ KillerEnds(k)
    /\ UNCHANGED <<futures, control, workers, gpuVars, pool, deferred, todo,
                   feedback, logVars>>

KillerStep(k) == Flag(k) \/ Mark(k) \/ Share(k) \/ Kill(k) \/ KillMisses(k)

-----------------------------------------------------------------------------
(* The management server: one thread, one request at a time.                *)

ServerIdle == KillerAt("server", "idle") /\ ~todo.skipping

\* An execution that is not running or has no pid is refused.
TerminateRequested(e) ==
    /\ ServerIdle /\ MayHappen("terminations", MaxTerminations)
    /\ entries[e].status = "running" /\ shared[e].pid
    /\ spent' = [spent EXCEPT !.terminations = @ + 1]
    /\ killers' = [killers EXCEPT !["server"] = Begun(e, "user")]
    /\ UNCHANGED <<agentVars, control, regVars, workers, gpuVars, pool, deferred,
                   todo, feedback, history>>

\* request_stage_skip; one that is refused or repeated changes nothing.  What
\* makes a stage skippable is in its journal, so any stage may be.  All
\* entries that are running belong to the stage that was published last.
SkipRequested ==
    /\ ServerIdle /\ MayHappen("skips", MaxSkips)
    /\ control.stage # 0 /\ ~control.pending
    /\ spent' = [spent EXCEPT !.skips = @ + 1]
    /\ control' = [control EXCEPT !.pending = TRUE]
    /\ todo' = [skipping |-> TRUE,
                execs |-> {e \in Execs : entries[e].status = "running"}]
    /\ history' = [history EXCEPT !.accepted = @ \cup {control.stage}]
    /\ UNCHANGED <<agentVars, regVars, workers, gpuVars, pool, deferred, killers,
                   feedback>>

\* _terminate_active_executions_for_stage
SkipNext ==
    /\ todo.skipping /\ KillerAt("server", "idle")
    /\ \E e \in todo.execs :
          /\ killers' = [killers EXCEPT !["server"] = Begun(e, "skip")]
          /\ todo' = [todo EXCEPT !.execs = @ \ {e}]
    /\ UNCHANGED <<agentVars, control, regVars, workers, gpuVars, pool, deferred,
                   feedback, logVars>>

SkipEnds ==
    /\ todo.skipping /\ KillerAt("server", "idle") /\ todo.execs = {}
    /\ todo' = [todo EXCEPT !.skipping = FALSE]
    /\ UNCHANGED <<agentVars, control, regVars, workers, gpuVars, pool, deferred,
                   killers, feedback, logVars>>

-----------------------------------------------------------------------------

AgentThread  == AgentStep \/ SubmitFails \/ TimesOut \/ KillerStep("agent")
ServerThread == KillerStep("server") \/ SkipNext \/ SkipEnds

Next ==
    \/ AgentThread \/ ServerThread \/ PoolBreaks \/ SkipRequested
    \/ \E e \in Execs : WorkerStep(e) \/ TerminateRequested(e)

\* Threads and processes run, Codex has a time limit.
Fairness ==
    /\ WF_vars(AgentThread) /\ WF_vars(ServerThread)
    /\ \A e \in Execs : WF_vars(WorkerStep(e))

Spec == Init /\ [][Next]_vars
FairSpec == Spec /\ Fairness

-----------------------------------------------------------------------------
(* Properties.                                                              *)

\* Codex processes that run.
Computing == {e \in Execs : workers[e] \in {"starting", "computing", "orphaned"}}

\* Two experiments never share a GPU, unless the agent has let go of one of them
\* that was still running: a skip, a seed that is late, a timeout before Codex
\* had reported its pid, or a pool that broke.
GpusAreExclusive ==
    \A e, f \in Computing :
       e # f /\ gpuOf[e] = gpuOf[f] /\ gpuOf[e] # NoGpu =>
          history.loose \cap {e, f} # {}

\* A termination the user was told to be under way has its feedback delivered
\* to a node when the execution has been collected.  A timeout or a skip may
\* come first, and a worker that raises has no result to attach it to.
AckedMeansFeedback ==
    AgentAt("clear") =>
       LET e == Head(futures) IN
       e \in history.acked \ history.late /\ workers[e] \notin {"failed", "orphaned"}
          => feedback[e] \in {"user", "skip"}

\* Once a skip of its stage has been accepted at most one more execution is
\* registered: the one the agent was about to register.
SkipIsPrompt == history.started <= 1

\* The experiment ends, whatever is terminated, skipped, late or broken.
ExperimentEnds == <>AgentAt("over")

=============================================================================
