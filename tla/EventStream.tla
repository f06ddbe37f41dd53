----------------------------- MODULE EventStream -----------------------------
(***************************************************************************)
(* The live view of a run: a Redis stream written by the server's worker    *)
(* processes, one server-sent event connection that first reads the stored  *)
(* state and timeline and then the stream from "$", and the browser's       *)
(* store, which merges what it is sent and reconnects when it is cut off.   *)
(* "$" means whatever comes after the XREAD is issued, and it is what the   *)
(* reader asks for until a first message gives it a position.               *)
(***************************************************************************)
EXTENDS Integers, Sequences, SequencesExt

VARIABLES
    reader,      \* how far the connection is
    placed,      \* the reader's position is a message, no longer "$"
    inbox,       \* messages behind the reader's position
    view,        \* the browser's store: the run's state and the timeline's ids
    missed,      \* history: something was published that this connection cannot read
    connections  \* bound: connections the browser may still open

streamVars == <<reader, placed, inbox, view, missed, connections>>

-----------------------------------------------------------------------------

NoView == [state |-> <<>>, rows |-> {}]

StreamInit(bound) ==
    /\ reader = "away"
    /\ placed = FALSE
    /\ inbox = <<>>
    /\ view = NoView
    /\ missed = FALSE
    /\ connections = bound

\* A message reaches the connection if it waits in an XREAD or has a position
\* to ask from; one that has neither yet does not get it later either.
Publish(message) ==
    /\ IF reader = "waiting" \/ placed
         THEN /\ inbox' = Append(inbox, message)
              /\ UNCHANGED missed
         ELSE /\ missed' = (missed \/ reader # "away")
              /\ UNCHANGED inbox
    /\ UNCHANGED <<reader, placed, view, connections>>

\* The publication fails and is logged, or is skipped because the run is locked.
StaySilent ==
    /\ missed' = (missed \/ reader # "away")
    /\ UNCHANGED <<reader, placed, inbox, view, connections>>

-----------------------------------------------------------------------------

\* get_research_run_state reads the row of the state first.  announced: a
\* change of the row is published already and its transaction still open.
ReadState(state, announced) ==
    /\ reader = "away"
    /\ connections > 0
    /\ connections' = connections - 1
    /\ reader' = "opening"
    /\ view' = [state |-> state, rows |-> {}]
    /\ missed' = announced
    /\ UNCHANGED <<placed, inbox>>

\* ... and then the timeline's rows, in a statement of its own.
ReadTimeline(rows) ==
    /\ reader = "opening"
    /\ reader' = "asking"
    /\ view' = [view EXCEPT !.rows = rows]
    /\ UNCHANGED <<placed, inbox, missed, connections>>

\* XREAD from "$" or from the last message.
Ask ==
    /\ reader = "asking"
    /\ reader' = "waiting"
    /\ UNCHANGED <<placed, inbox, view, missed, connections>>

\* What is changed, over what is not.
Patched(st, changes) ==
    [key \in (DOMAIN st) \cup (DOMAIN changes) |->
        IF key \in DOMAIN changes THEN changes[key] ELSE st[key]]

\* patchResearchState and addEvents of the browser's store.
Show(v, message) ==
    IF message.kind = "timeline_event"
      THEN [v EXCEPT !.rows = @ \cup {message.id}]
      ELSE [v EXCEPT !.state = Patched(@, message.delta)]

Receive ==
    /\ reader = "waiting"
    /\ inbox # <<>>
    /\ view' = FoldLeft(Show, view, inbox)
    /\ inbox' = <<>>
    /\ placed' = TRUE
    /\ UNCHANGED <<reader, missed, connections>>

\* The XREAD times out, and a keepalive is sent before the next one, or it
\* fails, and the reader sleeps.  The position stays what it was.
Pause ==
    /\ reader = "waiting"
    /\ inbox = <<>>
    /\ reader' = "asking"
    /\ UNCHANGED <<placed, inbox, view, missed, connections>>

\* The connection is lost, with what was not sent yet.
Disconnect ==
    /\ reader # "away"
    /\ connections > 0
    /\ reader' = "away"
    /\ placed' = FALSE
    /\ inbox' = <<>>
    /\ missed' = FALSE
    /\ UNCHANGED <<view, connections>>

=============================================================================
