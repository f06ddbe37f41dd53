------------------------------ MODULE Narrator ------------------------------
(***************************************************************************)
(* The narrator of one run.  Every worker process of the server keeps its   *)
(* own queue of the run's events and one task that takes them in order: it  *)
(* locks the row of the run's state, turns the event into timeline rows,    *)
(* commits each row on a connection of its own, publishes it, and commits   *)
(* the state the reducer computes from them.  The state's row exists from   *)
(* the start, as initialize_run_state writes it before the pod can call.    *)
(***************************************************************************)
EXTENDS EventStream, FiniteSets

CONSTANTS
    Processes,   \* worker processes of the server
    None

ASSUME NarratorAssumption == None \notin Processes

VARIABLES
    queue,      \* _event_queues of each process
    task,       \* _queue_processors: what the task of each process is at
    completed,  \* _run_completed of each process
    lock,       \* the process whose transaction holds the row of the state
    state,      \* rp_research_run_state
    timeline,   \* rp_timeline_events, in the order the rows were committed
    torn,       \* history: rows are committed whose state change was not
    repeated,   \* history: a row was written that was there already
    failed,     \* history: events whose processing failed or was cut off
    ended,      \* history: processes that took the end of the run
    late,       \* history: of those, the ones that got an event after cleaning up
    oddities    \* bound: crashes, failed transactions and publications left out
                \* there may still be

narratorVars == <<queue, task, completed, lock, state, timeline, torn, repeated,
                  failed, ended, late, oddities>>

-----------------------------------------------------------------------------

\* The parts of the state the model follows: the run's status, the status of
\* the stage the execution belongs to, and whether it is among active_nodes.
FirstState == [status |-> "pending", stage |-> "pending", active |-> FALSE]

Ends(event) == event \in {"pod_finished", "server_finished"}

\* process_execution_event: the timeline rows an event stands for.  An empty
\* transition summary stands for none.
RowsOf(event, st) ==
    CASE event = "run_started"     -> <<"run_started">>
      [] event = "running_code"    ->
           (IF st.stage = "pending" THEN <<"stage_started">> ELSE <<>>) \o <<"exec_started">>
      [] event = "run_completed"   -> <<"exec_completed">>
      [] event = "stage_completed" -> <<"stage_completed">>
      [] event = "stage_summary"   -> <<>>
      [] Ends(event)               -> <<"run_finished">>

StatusOf(event) == IF event = "pod_finished" THEN "completed" ELSE "failed"

Row(id, event) ==
    [id |-> id, status |-> IF Ends(event) THEN StatusOf(event) ELSE "none"]

\* The handlers of state_reducer: what a row changes in the state.
Changes(row) ==
    CASE row.id = "run_started"     -> [status |-> "running"]
      [] row.id = "stage_started"   -> [stage |-> "in_progress"]
      [] row.id = "stage_completed" -> [stage |-> "completed"]
      [] row.id = "exec_started"    -> [active |-> TRUE]
      [] row.id = "exec_completed"  -> [active |-> FALSE]
      [] row.id = "run_finished"    -> [status |-> row.status]

ApplyChanges(st, row) == Patched(st, Changes(row))

\* replay_events
Replay(st, rows) == FoldLeft(ApplyChanges, st, rows)

Recorded == {row.id : row \in ToSet(timeline)}

NoTask == [at |-> "none", event |-> None, base |-> FirstState, left |-> <<>>]
Waiting == [NoTask EXCEPT !.at = "wait"]

NarratorInit(bound, fresh) ==
    /\ queue = [w \in Processes |-> <<>>]
    /\ task = [w \in Processes |-> NoTask]
    /\ completed = [w \in Processes |-> FALSE]
    /\ lock = None
    /\ timeline = IF fresh THEN <<>> ELSE <<Row("run_started", "run_started")>>
    /\ state = Replay(FirstState, timeline)
    /\ torn = FALSE
    /\ repeated = FALSE
    /\ failed = {}
    /\ ended = {}
    /\ late = {}
    /\ oddities = bound

Odd == oddities > 0 /\ oddities' = oddities - 1

-----------------------------------------------------------------------------

\* ingest_narration_event: the queue and the task are created on demand.
Ingest(w, event) ==
    /\ queue' = [queue EXCEPT ![w] = Append(@, event)]
    /\ task' = [task EXCEPT ![w] = IF @.at = "none" THEN Waiting ELSE @]
    /\ late' = IF w \in ended /\ task[w].at = "none" THEN late \cup {w} ELSE late
    /\ UNCHANGED <<completed, lock, state, timeline, torn, repeated, failed, ended, oddities>>

\* The entries go and the task waits on.
CleanUpWithoutBreak(w) ==
    /\ task[w].at = "wait"
    /\ completed[w]
    /\ queue[w] = <<>>
    /\ completed' = [completed EXCEPT ![w] = FALSE]
    /\ UNCHANGED <<queue, task, lock, state, timeline, torn, repeated, failed, ended, late,
                   oddities, streamVars>>

\* _cleanup_run_queue, once the run is completed and the queue empty.
CleanUp(w) ==
    /\ task[w].at = "wait"
    /\ completed[w]
    /\ queue[w] = <<>>
    /\ task' = [task EXCEPT ![w] = NoTask]
    /\ completed' = [completed EXCEPT ![w] = FALSE]
    /\ UNCHANGED <<queue, lock, state, timeline, torn, repeated, failed, ended, late,
                   oddities, streamVars>>

\* The newest event first.
TakeNewest(w) ==
    /\ task[w].at = "wait"
    /\ queue[w] # <<>>
    /\ task' = [task EXCEPT ![w] = [@ EXCEPT !.at = "taken", !.event = Last(queue[w])]]
    /\ queue' = [queue EXCEPT ![w] = Front(@)]
    /\ UNCHANGED <<completed, lock, state, timeline, torn, repeated, failed, ended, late,
                   oddities, streamVars>>

Take(w) ==
    /\ task[w].at = "wait"
    /\ queue[w] # <<>>
    /\ task' = [task EXCEPT ![w] = [@ EXCEPT !.at = "taken", !.event = Head(queue[w])]]
    /\ queue' = [queue EXCEPT ![w] = Tail(@)]
    /\ UNCHANGED <<completed, lock, state, timeline, torn, repeated, failed, ended, late,
                   oddities, streamVars>>

\* A read without FOR UPDATE.
FreeAnyway == TRUE

Free == lock = None

\* SELECT FOR UPDATE of the state's row, the rows of the event, and
\* _mark_run_completed before anything of the event is written.
Begin(w) ==
    LET event == task[w].event
        rows  == RowsOf(event, state)
    IN /\ task[w].at = "taken"
       /\ Free
       /\ completed' = [completed EXCEPT ![w] = @ \/ Ends(event)]
       /\ ended' = IF Ends(event) THEN ended \cup {w} ELSE ended
       /\ IF rows = <<>>
            THEN /\ task' = [task EXCEPT ![w] = Waiting]
                 /\ UNCHANGED lock
            ELSE /\ task' = [task EXCEPT ![w] = [@ EXCEPT !.at = "insert", !.base = state,
                                                         !.left = rows]]
                 /\ lock' = w
       /\ UNCHANGED <<queue, state, timeline, torn, repeated, failed, late, oddities,
                      streamVars>>

RowAtHand(w) == Row(Head(task[w].left), task[w].event)

\* insert_timeline_event commits by itself; a row of the same id stays as it is.
InsertRow(w) ==
    LET row == RowAtHand(w)
    IN /\ task[w].at = "insert"
       /\ task' = [task EXCEPT ![w].at = "publish"]
       /\ IF row.id \in Recorded
            THEN /\ repeated' = TRUE
                 /\ UNCHANGED timeline
            ELSE /\ timeline' = Append(timeline, row)
                 /\ UNCHANGED repeated
       /\ UNCHANGED <<queue, completed, lock, state, torn, failed, ended, late, oddities,
                      streamVars>>

AfterRow(w) ==
    LET rest == Tail(task[w].left)
    IN task' = [task EXCEPT ![w] = [@ EXCEPT
                   !.left = rest,
                   !.at = IF rest = <<>> THEN "announce" ELSE "insert"]]

UnchangedByPublishing ==
    UNCHANGED <<queue, completed, lock, state, timeline, torn, repeated, failed, ended, late>>

PublishRow(w) ==
    /\ task[w].at = "publish"
    /\ AfterRow(w)
    /\ Publish([kind |-> "timeline_event", id |-> Head(task[w].left)])
    /\ UnchangedByPublishing
    /\ UNCHANGED oddities

\* The rows of the event, as Begin computed them.
RowsAtHand(w) ==
    LET event == task[w].event
        ids   == RowsOf(event, task[w].base)
    IN [i \in DOMAIN ids |-> Row(ids[i], event)]

\* The changes of the last row instead of all of them.
DeltaOfLastRow(w) == Changes(Last(RowsAtHand(w)))

\* accumulated_changes, of the keys the model follows.
Delta(w) == Replay(<<>>, RowsAtHand(w))

\* The delta is published inside the transaction that stores the new state.
PublishDelta(w) ==
    /\ task[w].at = "announce"
    /\ task' = [task EXCEPT ![w].at = "commit"]
    /\ Publish([kind |-> "state_delta", delta |-> Delta(w)])
    /\ UnchangedByPublishing
    /\ UNCHANGED oddities

\* A locked run publishes nothing, and a failed publication is only logged.
StaysUnpublished(w) ==
    /\ \/ task[w].at = "publish" /\ AfterRow(w)
       \/ task[w].at = "announce" /\ task' = [task EXCEPT ![w].at = "commit"]
    /\ Odd
    /\ StaySilent
    /\ UnchangedByPublishing

Commit(w) ==
    /\ task[w].at = "commit"
    /\ state' = Replay(task[w].base, RowsAtHand(w))
    /\ lock' = None
    /\ task' = [task EXCEPT ![w] = Waiting]
    /\ UNCHANGED <<queue, completed, timeline, torn, repeated, failed, ended, late, oddities,
                   streamVars>>

-----------------------------------------------------------------------------

\* The open transaction of w has committed a row already.
RowsAreOut(w) ==
    \/ task[w].at \in {"publish", "announce", "commit"}
    \/ task[w].at = "insert" /\ Len(task[w].left) < Len(RowsAtHand(w))

\* The connection goes back to the pool with its transaction open.
RollBackNothing(w) ==
    /\ torn' = (torn \/ RowsAreOut(w))
    /\ UNCHANGED lock

RollBack(w) ==
    /\ lock' = IF lock = w THEN None ELSE lock
    /\ torn' = (torn \/ RowsAreOut(w))

\* A statement fails: the transaction is rolled back, the rows stay, and the
\* event is not tried again.
Fail(w) ==
    /\ task[w].at \in {"taken", "insert", "announce", "commit"}
    /\ Odd
    /\ RollBack(w)
    /\ task' = [task EXCEPT ![w] = Waiting]
    /\ failed' = failed \cup {task[w].event}
    /\ UNCHANGED <<queue, completed, state, timeline, repeated, ended, late, streamVars>>

\* The process dies and comes back with nothing of what it kept in memory.
Crash(w) ==
    /\ task[w].at # "none"
    /\ Odd
    /\ RollBack(w)
    /\ failed' = failed \cup ToSet(queue[w])
                        \cup IF task[w].at = "wait" THEN {} ELSE {task[w].event}
    /\ queue' = [queue EXCEPT ![w] = <<>>]
    /\ task' = [task EXCEPT ![w] = NoTask]
    /\ completed' = [completed EXCEPT ![w] = FALSE]
    /\ ended' = ended \ {w}
    /\ late' = late \ {w}
    /\ UNCHANGED <<state, timeline, repeated, streamVars>>

TaskSteps(w) ==
    CleanUp(w) \/ Take(w) \/ Begin(w) \/ InsertRow(w) \/ PublishRow(w) \/ PublishDelta(w)
    \/ Commit(w)

=============================================================================
