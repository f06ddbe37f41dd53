------------------------------ MODULE EventFlow ------------------------------
(***************************************************************************)
(* An event on its way from the pod to the browser: a webhook of the pod    *)
(* (Telemetry) reaches one of the server's processes, whose handler hands   *)
(* it to the narrator (Narrator) and stores it before it answers; what the  *)
(* narrator publishes reaches the browser (EventStream).  The server ends   *)
(* the run on its own account too, and the pod is deleted for that.         *)
(***************************************************************************)
EXTENDS Telemetry, Narrator

CONSTANT
    Scenarios  \* what a behaviour starts with: the script of the pod, whether the
               \* start of the run is still to be heard, and how often the server
               \* may end the run, the browser connect, a request fail and
               \* something else go wrong

ScriptEvents == {"running_code", "run_completed", "stage_completed", "stage_summary",
                 "codex_event"}

ASSUME ScenarioAssumption ==
    Scenarios \subseteq [script : Seq(ScriptEvents), fresh : BOOLEAN, verdicts : 0..1,
                         connections : Nat, failures : Nat, oddities : Nat]

VARIABLES
    stored,    \* events whose handler has stored them
    heardAt,   \* history: the processes that heard the two events of the execution
    overtaken, \* history: the execution's end was heard before its start
    failures,  \* bound: requests that may still fail
    verdicts,  \* bound: times the server may still end the run
    deleted    \* the pod is to be deleted

vars == <<podVars, narratorVars, streamVars, stored, heardAt, overtaken, failures, verdicts, deleted>>

-----------------------------------------------------------------------------

Init ==
    /\ \E scenario \in Scenarios :
          /\ TelemetryInit(scenario.script, scenario.fresh)
          /\ NarratorInit(scenario.oddities, scenario.fresh)
          /\ StreamInit(scenario.connections)
          /\ failures = scenario.failures
          /\ verdicts = scenario.verdicts
    /\ stored = {}
    /\ heardAt = [e \in {"running_code", "run_completed"} |-> {}]
    /\ overtaken = FALSE
    /\ deleted = FALSE

UnchangedServer == UNCHANGED <<narratorVars, streamVars, stored, heardAt, overtaken, failures, verdicts, deleted>>

\* The steps inside the pod.
Pod ==
    /\ \/ Emit \/ Drain \/ FlushBatch \/ StopDraining
       \/ AnnounceFinish \/ StopPersistence \/ Exit
    /\ UnchangedServer

\* The pod is deleted for a run the server has ended.
DeletePod ==
    /\ deleted
    /\ launcher # "exited"
    /\ Vanish
    /\ UnchangedServer

\* The handler of a webhook hands the event to the narrator of its process;
\* a batch of Codex events is only stored.
Hear(p, w) ==
    /\ ~p.served
    /\ posts' = (posts \ {p}) \cup {[p EXCEPT !.served = TRUE]}
    /\ IF p.events = {"codex_event"}
         THEN UNCHANGED narratorVars
         ELSE \E event \in p.events : Ingest(w, event)
    /\ heardAt' = [e \in DOMAIN heardAt |->
                      heardAt[e] \cup IF e \in p.events THEN {w} ELSE {}]
    /\ overtaken' = (overtaken \/ ("run_completed" \in p.events
                                   /\ heardAt["running_code"] = {}))
    /\ UNCHANGED <<script, emitted, outbox, buffer, drainer, launcher, excused, streamVars, stored,
                   failures, verdicts, deleted>>

\* The handler stores the event and answers.
Store(p) ==
    /\ p.served
    /\ stored' = stored \cup p.events
    /\ Answered(p)
    /\ UNCHANGED <<narratorVars, streamVars, heardAt, overtaken, failures, verdicts, deleted>>

\* The handler fails to store it, stores it and the answer is lost, or never
\* hears of it.
RequestFails(p) ==
    /\ failures > 0
    /\ failures' = failures - 1
    /\ Failed(p)
    /\ \/ UNCHANGED stored
       \/ p.served /\ stored' = stored \cup p.events
    /\ UNCHANGED <<narratorVars, streamVars, heardAt, overtaken, verdicts, deleted>>

\* The monitor fails the run, or its user stops it, in some process.
EndRun(w) ==
    /\ verdicts > 0
    /\ verdicts' = verdicts - 1
    /\ deleted' = TRUE
    /\ Ingest(w, "server_finished")
    /\ UNCHANGED <<podVars, streamVars, stored, heardAt, overtaken, failures>>

Narrate(w) ==
    /\ TaskSteps(w)
    /\ UNCHANGED <<podVars, stored, heardAt, overtaken, failures, verdicts, deleted>>

Mishap(w) ==
    /\ StaysUnpublished(w) \/ Fail(w) \/ Crash(w)
    /\ UNCHANGED <<podVars, stored, heardAt, overtaken, failures, verdicts, deleted>>

\* A transaction that has published its delta and is still open.
DeltaIsOut == \E w \in Processes : task[w].at = "commit"

Browse ==
    /\ \/ ReadState(state, DeltaIsOut)
       \/ ReadTimeline(Recorded)
       \/ Ask \/ Receive \/ Pause \/ Disconnect
    /\ UNCHANGED <<podVars, narratorVars, stored, heardAt, overtaken, failures, verdicts, deleted>>

Next ==
    \/ Pod
    \/ DeletePod
    \/ \E p \in posts : Store(p) \/ RequestFails(p)
    \/ \E p \in posts, w \in Processes : Hear(p, w)
    \/ \E w \in Processes : EndRun(w) \/ Narrate(w) \/ Mishap(w)
    \/ Browse

Spec == Init /\ [][Next]_vars

FairSpec == Spec /\ \A w \in Processes : WF_vars(Narrate(w))

-----------------------------------------------------------------------------

Events == ScriptEvents \cup {"run_started", "pod_finished", "server_finished"}
RowIds == {"run_started", "stage_started", "exec_started", "exec_completed",
           "stage_completed", "run_finished"}
States == [status : {"pending", "running", "completed", "failed"},
           stage : {"pending", "in_progress", "completed"}, active : BOOLEAN]

Idle == \A w \in Processes : queue[w] = <<>> /\ task[w].at \in {"none", "wait"}

\* Types of the variables of the pod, the narrator and the stream.
TypeOK ==
    /\ script \in Seq(ScriptEvents)
    /\ emitted \subseteq ScriptEvents
    /\ Len(outbox) <= QueueSize
    /\ ToSet(outbox) \subseteq Events \cup {"stop"}
    /\ buffer \subseteq {"codex_event"}
    /\ drainer \in {"running", "stopped"}
    /\ launcher \in {"running", "announcing", "stopping", "exited"}
    /\ posts \subseteq [events : SUBSET Events, tries : 1..MaxAttempts, served : BOOLEAN]
    /\ excused \subseteq Events
    /\ stored \subseteq Events
    /\ failed \subseteq Events
    /\ \A w \in Processes : ToSet(queue[w]) \subseteq Events
    /\ task \in [Processes ->
          [at : {"none", "wait", "taken", "insert", "publish", "announce", "commit"},
           event : Events \cup {None}, base : States, left : Seq(RowIds)]]
    /\ completed \in [Processes -> BOOLEAN]
    /\ lock \in Processes \cup {None}
    /\ state \in States
    /\ Recorded \subseteq RowIds
    /\ ended \subseteq Processes
    /\ late \subseteq ended
    /\ reader \in {"away", "opening", "asking", "waiting"}
    /\ view.rows \subseteq RowIds
    /\ connections \in Nat
    /\ oddities \in Nat
    /\ verdicts \in 0..1
    /\ failures \in Nat

\* The state of a run is what its timeline replays to, whichever processes
\* took the events and in whatever order, unless a transaction was lost after
\* it had committed rows or an event was narrated twice (the row lock of
\* _get_or_create_state_locked, the reducer).
StateFollowsTimeline ==
    lock = None /\ ~torn /\ ~repeated => state = Replay(FirstState, timeline)

\* An execution is left among the active nodes after its end was recorded only
\* if the two events were taken out of order: the end was heard first, they
\* went to different processes, one of them was narrated twice or torn, or
\* the start was not narrated when it should have been.
GhostsHaveACause ==
    lock = None /\ state.active /\ "exec_completed" \in Recorded =>
        \/ overtaken \/ torn \/ repeated \/ "running_code" \in failed
        \/ Cardinality(heardAt["running_code"] \cup heardAt["run_completed"]) > 1

\* Once the pod is gone and its requests are over, every event its processes
\* emitted is stored, or was dropped at a full queue, given up after the last
\* attempt, or cut off by the exit.
LossesHaveACause ==
    launcher = "exited" /\ posts = {} =>
        emitted \subseteq stored \cup excused

\* A browser that is connected and has read what there is shows the stored
\* state and every row of the timeline, unless something was published while
\* the connection had no position in the stream, or not published at all, or
\* published and rolled back.
ViewIsComplete ==
    reader = "waiting" /\ inbox = <<>> /\ lock = None /\ ~missed /\ ~torn =>
        view.state = state /\ view.rows = Recorded

\* A process keeps a task for a run whose end it has taken only if an event
\* of the run came to it after it had cleaned up.
OnlyLateEventsLeak ==
    \A w \in ended \ late :
        task[w].at = "wait" /\ queue[w] = <<>> => completed[w]

\* The narrator falls idle for good: no event, failed transaction, crash or
\* waiting for the row's lock keeps the queues from draining, and a process
\* that took the end of the run cleans up after it.
QueuesDrain == <>[](Idle /\ \A w \in Processes : ~completed[w])

=============================================================================
