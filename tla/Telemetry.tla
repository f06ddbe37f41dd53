------------------------------ MODULE Telemetry ------------------------------
(***************************************************************************)
(* The events of a run on their way out of the pod.  Worker processes put   *)
(* them on a bounded queue without waiting; one thread drains it, keeps the *)
(* Codex events for a batch and starts a thread per webhook, so that no     *)
(* order is kept; a webhook is tried again when its request fails, whether  *)
(* or not the server had handled it.  The launcher announces the end of the *)
(* run beside the queue, waits for that answer alone, stops the drain and   *)
(* exits, and the threads still posting die with it.                        *)
(***************************************************************************)
EXTENDS Integers, Sequences, SequencesExt

CONSTANTS
    QueueSize,   \* queue_maxsize
    MaxAttempts  \* stop_after_attempt

ASSUME TelemetryAssumption ==
    /\ QueueSize \in Nat \ {0}
    /\ MaxAttempts \in Nat \ {0}

VARIABLES
    script,    \* what the pod's processes still emit, in this order
    emitted,   \* history: what they have emitted
    outbox,    \* the manager's queue; "stop" stands for the sentinel
    buffer,    \* Codex events kept for the next batch
    drainer,   \* the publisher thread
    posts,     \* webhooks under way
    launcher,  \* the launcher process
    excused    \* history: events given up for a reason

podVars == <<script, emitted, outbox, buffer, drainer, posts, launcher, excused>>

-----------------------------------------------------------------------------

Post(events) == [events |-> events, tries |-> 1, served |-> FALSE]

\* publish_run_started is called as the launcher sets up, before any event;
\* a behaviour may also begin when the server has heard of it.
TelemetryInit(events, fresh) ==
    /\ script = events
    /\ emitted = {}
    /\ outbox = <<>>
    /\ buffer = {}
    /\ drainer = "running"
    /\ posts = IF fresh THEN {Post({"run_started"})} ELSE {}
    /\ launcher = "running"
    /\ excused = {}

\* EventQueueEmitter: put_nowait, and a full queue drops the event.
Emit ==
    /\ launcher = "running"
    /\ script # <<>>
    /\ script' = Tail(script)
    /\ emitted' = emitted \cup {Head(script)}
    /\ IF Len(outbox) < QueueSize
         THEN /\ outbox' = Append(outbox, Head(script))
              /\ UNCHANGED excused
         ELSE /\ excused' = excused \cup {Head(script)}
              /\ UNCHANGED outbox
    /\ UNCHANGED <<buffer, drainer, posts, launcher>>

\* The drain takes an event: one of Codex is kept, any other gets a thread.
Drain ==
    /\ drainer = "running"
    /\ outbox # <<>>
    /\ Head(outbox) # "stop"
    /\ outbox' = Tail(outbox)
    /\ IF Head(outbox) = "codex_event"
         THEN /\ buffer' = buffer \cup {Head(outbox)}
              /\ UNCHANGED posts
         ELSE /\ posts' = posts \cup {Post({Head(outbox)})}
              /\ UNCHANGED buffer
    /\ UNCHANGED <<script, emitted, drainer, launcher, excused>>

Batch == IF buffer = {} THEN {} ELSE {Post(buffer)}

\* The batch is large enough or old enough.
FlushBatch ==
    /\ drainer = "running"
    /\ buffer # {}
    /\ posts' = posts \cup Batch
    /\ buffer' = {}
    /\ UNCHANGED <<script, emitted, outbox, drainer, launcher, excused>>

\* The sentinel ends the thread and the batch with it.
StopWithoutFlush ==
    /\ drainer = "running"
    /\ outbox # <<>>
    /\ Head(outbox) = "stop"
    /\ outbox' = Tail(outbox)
    /\ buffer' = {}
    /\ drainer' = "stopped"
    /\ UNCHANGED <<script, emitted, posts, launcher, excused>>

\* The sentinel: what is left of the batch goes out and the thread ends.
StopDraining ==
    /\ drainer = "running"
    /\ outbox # <<>>
    /\ Head(outbox) = "stop"
    /\ outbox' = Tail(outbox)
    /\ posts' = posts \cup Batch
    /\ buffer' = {}
    /\ drainer' = "stopped"
    /\ UNCHANGED <<script, emitted, launcher, excused>>

-----------------------------------------------------------------------------

\* publish_run_finished, of a run that went through or of one cut short.
AnnounceFinish ==
    /\ launcher = "running"
    /\ launcher' = "announcing"
    /\ posts' = posts \cup {Post({"pod_finished"})}
    /\ UNCHANGED <<script, emitted, outbox, buffer, drainer, excused>>

Announced == \A p \in posts : "pod_finished" \notin p.events

\* run_finished_future.result(), then the sentinel, for which stop() waits
\* until the queue has room.
StopPersistence ==
    /\ launcher = "announcing"
    /\ Announced
    /\ Len(outbox) < QueueSize
    /\ launcher' = "stopping"
    /\ outbox' = Append(outbox, "stop")
    /\ UNCHANGED <<script, emitted, buffer, drainer, posts, excused>>

Unserved == {p \in posts : ~p.served}

\* The process is gone: the queue, the batch and every thread with it.  What
\* a server is handling already it handles to the end.
Vanish ==
    /\ launcher' = "exited"
    /\ drainer' = "stopped"
    /\ outbox' = <<>>
    /\ buffer' = {}
    /\ posts' = posts \ Unserved
    /\ excused' = excused \cup buffer \cup (UNION {p.events : p \in Unserved})
                          \cup (ToSet(outbox) \ {"stop"})
    /\ UNCHANGED <<script, emitted>>

\* join waits five seconds for the drain, which may not be enough.
Exit == launcher = "stopping" /\ Vanish

-----------------------------------------------------------------------------

\* The request of p is answered with success.
Answered(p) ==
    /\ posts' = posts \ {p}
    /\ UNCHANGED <<script, emitted, outbox, buffer, drainer, launcher, excused>>

\* The request of p fails in the eyes of its thread, if there still is one.
Failed(p) ==
    /\ IF p.tries < MaxAttempts /\ launcher # "exited"
         THEN /\ posts' = (posts \ {p}) \cup {[p EXCEPT !.tries = @ + 1, !.served = FALSE]}
              /\ UNCHANGED excused
         ELSE /\ posts' = posts \ {p}
              /\ excused' = excused \cup p.events
    /\ UNCHANGED <<script, emitted, outbox, buffer, drainer, launcher>>

=============================================================================
