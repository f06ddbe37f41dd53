-------------------------------- MODULE Chat --------------------------------
(***************************************************************************)
(* The chat about one idea: its messages, the requests that add to them and *)
(* the rolling summary that stands for the older ones in the prompts.  A    *)
(* request stores the user's message and an empty reply, and a background   *)
(* task fills the reply and then gives the summariser what it has not seen. *)
(* A message is named by its id, its place in the sequence.                 *)
(***************************************************************************)
EXTENDS Integers, Sequences, FiniteSets

CONSTANTS
    Requests,  \* calls of stream_chat_with_idea
    None,      \* no request, no message
    MaxFaults  \* bound: database errors and restarts together

ASSUME ChatAssumption == MaxFaults \in Nat

VARIABLES
    messages,  \* [role, full, gone, seq, answers, raced, left] by id
    rows,      \* chat_summaries of the conversation: [covers, latest]
    thread,    \* the summariser's checkpoint: [summarised, covers, tail]
    slipped,   \* history: messages the summariser let go
    request,   \* a request, and the background task it started
    faults     \* faults that may still happen

chatVars == <<messages, rows, thread, slipped, request, faults>>

Ids == DOMAIN messages
Stored == {m \in Ids : ~messages[m].gone}
Full == {m \in Stored : messages[m].full}
LastOf(S) == CHOOSE m \in S : \A n \in S : n <= m
LastIs(role) == Stored # {} /\ messages[LastOf(Stored)].role = role

NextSequence == IF Stored = {} THEN 1 ELSE messages[LastOf(Stored)].seq + 1

Row(role, full, answers, raced) ==
    [role |-> role, full |-> full, gone |-> FALSE, seq |-> NextSequence,
     answers |-> answers, raced |-> raced, left |-> "no"]

NoRow == [covers |-> {}, latest |-> 0]

IdleRequest == [pc |-> "idle", auto |-> FALSE, user |-> 0, reply |-> 0, seen |-> 0,
                rival |-> FALSE, alone |-> FALSE, sent |-> "nothing", summary |-> NoRow, found |-> FALSE]

InHandler == {"history", "user", "place"}
InTask == {"model", "summarise", "save"}
Endings == {"done", "refused", "broken"}

\* A seeded conversation begins with a message of the user's; the summary of an
\* imported chat covers no message of this one.
ChatInit ==
    /\ \E seeded \in BOOLEAN :
          messages = IF ~seeded THEN <<>>
                     ELSE <<[role |-> "user", full |-> TRUE, gone |-> FALSE, seq |-> 1,
                             answers |-> 0, raced |-> FALSE, left |-> "no"]>>
    /\ \E imported \in BOOLEAN :
          /\ thread = [summarised |-> imported, covers |-> {}, tail |-> {}]
          /\ rows = IF imported THEN {NoRow} ELSE {}
    /\ slipped = {}
    /\ request = [r \in Requests |-> IdleRequest]
    /\ faults = MaxFaults

At(r, pc) == request[r].pc = pc
Goes(r, pc) ==
    request' = [request EXCEPT
        ![r] = IF pc \in Endings
               THEN [IdleRequest EXCEPT !.pc = pc, !.auto = request[r].auto, !.sent = request[r].sent]
               ELSE [@ EXCEPT !.pc = pc]]

UnchangedSummary == UNCHANGED <<rows, thread, slipped>>

-----------------------------------------------------------------------------
(* The handler. *)

\* The balance is checked, the history read.
Refuse(r) ==
    /\ request[r].pc \in {"history", "user"}
    /\ Goes(r, "refused")
    /\ UNCHANGED <<messages, faults>>
    /\ UnchangedSummary

\* Mutant: a history without the empty replies.
ReadHistoryOfTexts(r) ==
    /\ At(r, "history")
    /\ IF Full # {} /\ messages[LastOf(Full)].role = "user"
       THEN request' = [request EXCEPT ![r].pc = "place", ![r].seen = Len(messages),
                                       ![r].user = LastOf(Full)]
       ELSE Goes(r, "refused")
    /\ UNCHANGED <<messages, faults>>
    /\ UnchangedSummary

\* An automatic request answers the user's message that is last in the history,
\* and is refused if the last is a reply.
ReadHistory(r) ==
    /\ At(r, "history")
    /\ IF LastIs("user")
       THEN request' = [request EXCEPT ![r].pc = "place", ![r].seen = Len(messages),
                                       ![r].user = LastOf(Stored)]
       ELSE Goes(r, "refused")
    /\ UNCHANGED <<messages, faults>>
    /\ UnchangedSummary

\* create_chat_message: the next sequence number is read and then inserted, and
\* unique_sequence_per_idea refuses whom another has come before.
Inserting(r) == request[r].pc \in {"user", "place"}
Rivals(r) == [s \in Requests |->
    IF s # r /\ Inserting(s) THEN [request[s] EXCEPT !.rival = TRUE] ELSE request[s]]

StoreUser(r) ==
    /\ At(r, "user")
    /\ messages' = Append(messages, Row("user", TRUE, 0, FALSE))
    /\ request' = [Rivals(r) EXCEPT ![r].pc = "place", ![r].user = Len(messages) + 1,
                                    ![r].seen = Len(messages), ![r].rival = FALSE]
    /\ UNCHANGED faults
    /\ UnchangedSummary

\* A message that has a reply gets another one only if the reply was not there
\* when the history was read.
Answered(u) == {m \in Stored : messages[m].answers = u}

Place(r) ==
    /\ At(r, "place")
    /\ messages' = Append(messages, Row("assistant", FALSE, request[r].user,
          \A m \in Answered(request[r].user) : m > request[r].seen))
    /\ request' = [Rivals(r) EXCEPT ![r].pc = "model", ![r].reply = Len(messages) + 1,
                                    ![r].rival = FALSE]
    /\ UNCHANGED faults
    /\ UnchangedSummary

\* The client has left before the stream began: its first step is cancelled,
\* before the reply is stored or before the task that fills it is started.
Abandon(r) ==
    /\ At(r, "place") /\ request[r].alone
    /\ \/ UNCHANGED messages
       \/ messages' = Append(messages, [Row("assistant", FALSE, request[r].user,
             \A m \in Answered(request[r].user) : m > request[r].seen) EXCEPT !.left = "client"])
    /\ Goes(r, "broken")
    /\ UNCHANGED faults
    /\ UnchangedSummary

Collide(r) ==
    /\ Inserting(r) /\ request[r].rival
    /\ Goes(r, IF At(r, "user") THEN "refused" ELSE "broken")
    /\ UNCHANGED <<messages, faults>>
    /\ UnchangedSummary

-----------------------------------------------------------------------------
(* The background task. *)

Reply(r) == request[r].reply
TaskGoes(r, sent) ==
    request' = [request EXCEPT ![r].pc = "summarise", ![r].sent = sent, ![r].reply = 0]

\* The model's answer is stored in the reply, which is deleted if that fails.
Answer(r) ==
    /\ At(r, "model")
    /\ \/ messages' = [messages EXCEPT ![Reply(r)].full = TRUE] /\ UNCHANGED faults
       \/ /\ faults > 0 /\ faults' = faults - 1
          /\ messages' = [messages EXCEPT ![Reply(r)].gone = TRUE]
    /\ TaskGoes(r, "text")
    /\ UnchangedSummary

\* Mutant: an empty reply is left where it is.
NoAnswerKept(r) ==
    /\ At(r, "model")
    /\ TaskGoes(r, "nothing")
    /\ UNCHANGED <<messages, faults>>
    /\ UnchangedSummary

\* An empty answer, or an exception while the prompt is built: the reply is
\* deleted, and stays if that fails.
NoAnswer(r) ==
    /\ At(r, "model")
    /\ \/ messages' = [messages EXCEPT ![Reply(r)].gone = TRUE] /\ UNCHANGED faults
       \/ /\ faults > 0 /\ faults' = faults - 1
          /\ messages' = [messages EXCEPT ![Reply(r)].left = "fault"]
    /\ TaskGoes(r, "nothing")
    /\ UnchangedSummary

\* chat_with_idea_stream catches what the model raises, before or after some of
\* the text, and yields an error event, which is sent on and changes nothing.
ErrorEvent(r) ==
    /\ At(r, "model")
    /\ messages' = [messages EXCEPT ![Reply(r)].left = "error event"]
    /\ \E sent \in {"nothing", "text"} : TaskGoes(r, sent)
    /\ UNCHANGED faults
    /\ UnchangedSummary

\* Mutant: the next message to cover is taken for covered.
NewSinceOffByOne(latest) == {m \in Full : m > latest + 1}

\* add_messages_to_chat_summary: what no row covers, empty replies left out.
NewSince(latest) == {m \in Full : m > latest}
PassedOver(latest, new) == {m \in Stored \ Full : m > latest /\ m < LastOf(new)}

\* What the summariser gives back covers the newest message, whatever it is of.
Returns(r, latest, covers, lost) ==
    LET new == NewSince(latest) IN
    /\ request' = [request EXCEPT ![r].pc = "save", ![r].found = rows # {},
                                  ![r].summary = [covers |-> covers, latest |-> LastOf(new)]]
    /\ slipped' = slipped \cup lost \cup PassedOver(latest, new)

\* The thread takes the new messages.  Beyond nine tenths of the context window
\* all but the last become its summary; a reply is never the last, for "Please
\* continue." is put behind it.  Otherwise the summary, if there is one, stays and
\* is taken for the summary of these, unless the agent's model fails.
Summarise(r) ==
    /\ At(r, "summarise")
    /\ \E latest \in IF rows = {} THEN {0} ELSE {row.latest : row \in rows} :
          LET new == NewSince(latest)
              all == thread.tail \cup new
              kept == IF messages[LastOf(new)].role = "user" THEN {LastOf(new)} ELSE {}
          IN \/ new = {} /\ Goes(r, "done") /\ UNCHANGED <<thread, slipped>>
             \/ /\ new # {}
                /\ thread' = [thread EXCEPT !.tail = all]
                /\ \/ thread.summarised /\ Returns(r, latest, thread.covers, new)
                   \/ Goes(r, "done") /\ UNCHANGED slipped
             \/ /\ new # {}
                /\ \E covers \in {thread.covers \cup (all \ kept), {}} :
                      /\ thread' = [summarised |-> TRUE, covers |-> covers, tail |-> kept]
                      /\ Returns(r, latest, covers, (thread.covers \cup all) \ covers)
    /\ UNCHANGED <<messages, rows, faults>>

\* _upsert_chat_summary: a row that was looked for is written.
SaveSummary(r) ==
    /\ At(r, "save")
    /\ rows' = IF request[r].found THEN {request[r].summary} ELSE rows \cup {request[r].summary}
    /\ Goes(r, "done")
    /\ UNCHANGED <<messages, thread, slipped, faults>>

-----------------------------------------------------------------------------
(* What goes wrong. *)

\* An error in the handler is an answer, one in the stream's first step breaks
\* it off, and the summariser's are logged.
DbFault(r) ==
    /\ faults > 0
    /\ faults' = faults - 1
    /\ \/ request[r].pc \in {"history", "user"} /\ Goes(r, "refused")
       \/ At(r, "place") /\ Goes(r, "broken")
       \/ request[r].pc \in {"summarise", "save"} /\ Goes(r, "done")
    /\ UNCHANGED messages
    /\ UnchangedSummary

Crash ==
    /\ faults > 0
    /\ faults' = faults - 1
    /\ request' = [r \in Requests |->
          IF request[r].pc \in InHandler \cup InTask
          THEN [IdleRequest EXCEPT !.pc = "broken", !.auto = request[r].auto] ELSE request[r]]
    /\ messages' = [m \in Ids |->
          IF \E r \in Requests : Reply(r) = m THEN [messages[m] EXCEPT !.left = "crash"]
          ELSE messages[m]]
    /\ UnchangedSummary

ChatStep(r) ==
    \/ Refuse(r) \/ ReadHistory(r) \/ StoreUser(r) \/ Place(r) \/ Abandon(r) \/ Collide(r)
    \/ Answer(r) \/ NoAnswer(r) \/ ErrorEvent(r) \/ Summarise(r) \/ SaveSummary(r)
=============================================================================
