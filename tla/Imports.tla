------------------------------ MODULE Imports ------------------------------
(***************************************************************************)
(* The requests that open a conversation: the import of a shared chat, with *)
(* the conflict the browser resolves and the update of an earlier import,   *)
(* the manual idea and the idea seeded from a research run.  A request runs *)
(* with its client up to the row of the conversation, and an update or a    *)
(* seed to its end; the generation of an idea then goes on in a background  *)
(* task whatever the client does.                                           *)
(***************************************************************************)
EXTENDS IdeaTables

CONSTANTS
    Requests,   \* imports, manual ideas and seeds
    MaxShare,   \* bound: how far the shared chat grows
    MaxFaults   \* bound: database errors, lost clients, restarts and deletions together

ASSUME ImportAssumption == MaxShare \in Nat \ {0} /\ MaxFaults \in Nat

VARIABLES
    request,  \* a request, and the background task it started
    shared,   \* messages behind the share URL when it was last read
    faults    \* faults that may still happen

importVars == <<request, shared, faults>>

Kinds == {"prompt", "create", "update", "manual", "seed"}

InHandler == {"parse", "open", "read", "replace", "forget", "copy", "insert"}
InBackground == {"summarise", "keep", "stream", "save", "respond", "failing"}
Endings == {"over", "broken"}

Idle == [kind |-> "prompt", pc |-> "idle", conversation |-> None, listed |-> {},
         share |-> 0, summary |-> 0, seen |-> None, raised |-> FALSE]

ImportsInit ==
    /\ request = [r \in Requests |-> Idle]
    /\ shared = 1
    /\ faults = MaxFaults

At(r, pc) == request[r].pc = pc
Conv(r) == request[r].conversation

\* A request that ends leaves the conversation it opened; "broken" when it ends
\* before it has done what it does for that conversation.
Ended(q, pc) ==
    [Idle EXCEPT !.pc = pc, !.conversation = IF q.kind = "update" THEN None ELSE q.conversation]
Goes(r, pc) ==
    request' = [request EXCEPT
        ![r] = IF pc \in Endings THEN Ended(@, pc) ELSE [@ EXCEPT !.pc = pc]]

Imported(c) == conversations[c].origin \in {"first", "chosen", "raced", "ignored"}

-----------------------------------------------------------------------------
(* The handler. *)

Matching == {c \in Conversation : Alive(c) /\ Imported(c)}

\* What the handler goes on to, with what it had listed for the URL.
Proceed(r, kind, target) ==
    request' = [request EXCEPT ![r].kind = kind, ![r].pc = "parse", ![r].conversation = target,
                               ![r].listed = IF kind = "prompt" THEN Matching ELSE {}]

\* Mutant: the conflict is not raised.
DecideAlike(r, kind, target) ==
    /\ IF kind = "update" /\ target \notin Matching THEN Goes(r, "over")
       ELSE Proceed(r, kind, target)
    /\ UNCHANGED <<tableVars, shared, faults>>

\* list_conversations_by_url and _determine_import_decision.
Decide(r, kind, target) ==
    /\ CASE kind = "prompt" /\ Matching # {} ->
               request' = [request EXCEPT ![r].pc = "conflict", ![r].listed = Matching]
         [] kind = "update" /\ target \notin Matching -> Goes(r, "over")
         [] OTHER -> Proceed(r, kind, target)
    /\ UNCHANGED <<tableVars, shared, faults>>

Import(r) == At(r, "idle") /\ Decide(r, "prompt", None)

\* The browser sends a new request: update the selected one, or import anew.
Resolve(r) ==
    /\ At(r, "conflict")
    /\ \/ \E c \in request[r].listed : Decide(r, "update", c)
       \/ Decide(r, "create", None)

SendManual(r) ==
    /\ At(r, "idle")
    /\ request' = [request EXCEPT ![r].kind = "manual", ![r].pc = "open"]
    /\ UNCHANGED <<tableVars, shared, faults>>

\* Only a completed run is seeded from: the idea version it was started with.
SendSeed(r) ==
    /\ At(r, "idle")
    /\ \E v \in DOMAIN versions :
          /\ v \in VersionsOf(versions[v].idea)
          /\ request' = [request EXCEPT ![r].kind = "seed", ![r].pc = "open", ![r].seen = v]
    /\ UNCHANGED <<tableVars, shared, faults>>

\* The page behind the URL, which may have grown since it was last read.
Parse(r) ==
    /\ At(r, "parse")
    /\ shared' \in shared .. MaxShare
    /\ request' = [request EXCEPT
          ![r].pc = IF request[r].kind = "update" THEN "replace" ELSE "open",
          ![r].share = shared']
    /\ UNCHANGED <<tableVars, faults>>

ParseFails(r) ==
    /\ At(r, "parse")
    /\ Goes(r, "over")
    /\ UNCHANGED <<tableVars, shared, faults>>

\* Why an import may open a row for a URL that has one already.  Who is asked
\* about a match is past this with "create" only, so "prompt" had listed none.
Origin(q) ==
    IF q.kind \in {"manual", "seed"} THEN q.kind
    ELSE IF q.kind = "create" THEN "chosen"
    ELSE IF Matching = {} THEN "first"
    ELSE IF q.listed = {} THEN "raced" ELSE "ignored"

Open(r) ==
    /\ At(r, "open")
    /\ AddConversation(Origin(request[r]), request[r].share)
    /\ request' = [request EXCEPT ![r].conversation = Len(conversations) + 1,
                                  ![r].listed = {},
                                  ![r].pc = IF request[r].kind = "seed" THEN "copy" ELSE "read"]
    /\ UNCHANGED <<ideas, versions, shared, faults>>

\* get_conversation_by_id and its assertion; then the background task starts.
ReadBack(r) ==
    /\ At(r, "read")
    /\ Goes(r, IF ~Alive(Conv(r)) THEN "broken"
               ELSE IF request[r].kind = "manual" THEN "stream" ELSE "summarise")
    /\ UNCHANGED <<tableVars, shared, faults>>

\* update_conversation_messages: the chat is replaced if the row is there.
Replace(r) ==
    /\ At(r, "replace")
    /\ conversations' = [conversations EXCEPT ![Conv(r)].chat = request[r].share]
    /\ Goes(r, "forget")
    /\ UNCHANGED <<ideas, versions, shared, faults>>

\* Mutant: the old summary is left in place.
ForgetNothing(r) ==
    /\ At(r, "forget")
    /\ Goes(r, "summarise")
    /\ UNCHANGED <<tableVars, shared, faults>>

\* delete_imported_conversation_summary
Forget(r) ==
    /\ At(r, "forget")
    /\ conversations' = [conversations EXCEPT ![Conv(r)].summaries = <<>>]
    /\ Goes(r, "summarise")
    /\ UNCHANGED <<ideas, versions, shared, faults>>

\* create_idea_from_run looks for an idea and its source before it inserts.
CheckCopy(r) ==
    /\ At(r, "copy")
    /\ Goes(r, IF /\ IdeasOf(Conv(r)) = {}
                  /\ request[r].seen \in VersionsOf(versions[request[r].seen].idea)
               THEN "insert" ELSE "broken")
    /\ UNCHANGED <<tableVars, shared, faults>>

Copy(r) ==
    /\ At(r, "insert")
    /\ IF Alive(Conv(r))
       THEN AddIdea(Conv(r), "model", "raced") /\ Goes(r, "over")
       ELSE UNCHANGED <<ideas, versions>> /\ Goes(r, "broken")
    /\ UNCHANGED <<conversations, shared, faults>>

-----------------------------------------------------------------------------
(* init_chat_summary, awaited by both flows; what goes wrong in it is logged. *)

AfterSummary(q) == IF q.kind = "update" THEN "respond" ELSE "stream"

\* The thread of the conversation takes the messages.  Beyond nine tenths of
\* the context window they become its summary; below, the summary it may have
\* from an earlier import is the one returned.
Summarise(r) ==
    /\ At(r, "summarise")
    /\ \E summary \in {0, request[r].share, conversations[Conv(r)].thread} :
          /\ request' = [request EXCEPT ![r].summary = summary,
                ![r].pc = IF summary = 0 THEN AfterSummary(request[r]) ELSE "keep"]
          /\ conversations' = [conversations EXCEPT
                ![Conv(r)].thread = IF summary = 0 THEN @ ELSE summary,
                ![Conv(r)].hurt = IF summary \in {0, request[r].share} THEN @
                                  ELSE @ \cup {"old thread"}]
    /\ UNCHANGED <<ideas, versions, shared, faults>>

\* create_imported_conversation_summary inserts; no earlier row is in its way.
Keep(r) ==
    /\ At(r, "keep")
    /\ conversations' = [conversations EXCEPT
          ![Conv(r)].summaries = IF Alive(Conv(r)) THEN Append(@, request[r].summary) ELSE @,
          ![Conv(r)].hurt = IF conversations[Conv(r)].chat = request[r].share THEN @
                            ELSE @ \cup {"overtaken"}]
    /\ request' = [request EXCEPT ![r].pc = AfterSummary(request[r]),
                                  ![r].summary = 0, ![r].share = 0]
    /\ UNCHANGED <<ideas, versions, shared, faults>>

-----------------------------------------------------------------------------
(* The generation: _stream_structured_idea, the answer, the failure idea. *)

\* The stream gave a title and a text, or none, and ended well or raised; _save_idea
\* then looks for the idea to put them in.
Stream(r) ==
    /\ At(r, "stream")
    /\ \/ Goes(r, "failing")
       \/ \E raised \in BOOLEAN, v \in VersionRead(Conv(r)) :
             request' = [request EXCEPT ![r].pc = "save", ![r].seen = v, ![r].raised = raised]
    /\ UNCHANGED <<tableVars, shared, faults>>

\* Mutant: the idea is created whatever the look found.
SaveAlwaysNew(r) ==
    /\ At(r, "save")
    /\ IF Alive(Conv(r)) THEN AddIdea(Conv(r), "model", Unless(request[r].seen))
       ELSE UNCHANGED <<ideas, versions>>
    /\ request' = [request EXCEPT ![r].pc = IF request[r].raised THEN "failing" ELSE "respond",
                                  ![r].seen = None, ![r].raised = FALSE]
    /\ UNCHANGED <<conversations, shared, faults>>

\* _save_idea, after its look.  What goes wrong in it is logged; a stream that
\* raised after its data has its idea saved, and raises on.
Save(r) ==
    /\ At(r, "save")
    /\ LET v == request[r].seen
       IN IF ~Alive(Conv(r)) THEN UNCHANGED <<ideas, versions>>
          ELSE IF v = None THEN AddIdea(Conv(r), "model", Unless(v))
          ELSE OverwriteVersion(v, "model")
    /\ request' = [request EXCEPT ![r].pc = IF request[r].raised THEN "failing" ELSE "respond",
                                  ![r].seen = None, ![r].raised = FALSE]
    /\ UNCHANGED <<conversations, shared, faults>>

\* What an exception leads to: only the background task has a failure idea.
Excepted(q) ==
    CASE q.kind = "update" /\ q.pc \in {"summarise", "keep"} -> "respond"
      [] q.kind # "update" /\ q.pc \in {"summarise", "keep"} -> "stream"
      [] q.pc = "save" -> IF q.raised THEN "failing" ELSE "respond"
      [] q.pc = "respond" /\ q.kind # "update" -> "failing"
      [] OTHER -> "broken"

\* Mutant: the answer is sent without an idea as well.
RespondAnyway(r) ==
    /\ At(r, "respond")
    /\ Goes(r, "over")
    /\ UNCHANGED <<tableVars, shared, faults>>

\* _generate_response_for_conversation asserts that there is an idea to show.
Respond(r) ==
    /\ At(r, "respond")
    /\ Goes(r, IF IdeasOf(Conv(r)) # {} THEN "over" ELSE Excepted(request[r]))
    /\ UNCHANGED <<tableVars, shared, faults>>

\* _create_failure_idea, without a look at what is there.
Fail(r) ==
    /\ At(r, "failing")
    /\ IF Alive(Conv(r))
       THEN AddIdea(Conv(r), "failure", "relapsed") /\ Goes(r, "over")
       ELSE UNCHANGED <<ideas, versions>> /\ Goes(r, "broken")
    /\ UNCHANGED <<conversations, shared, faults>>

-----------------------------------------------------------------------------
(* What goes wrong. *)

\* An update that ends between its two writes leaves the old summary.
Cut(r) ==
    conversations' = IF At(r, "forget")
                     THEN [conversations EXCEPT ![Conv(r)].hurt = @ \cup {"cut"}]
                     ELSE conversations

DbFault(r) ==
    /\ faults > 0
    /\ request[r].pc \in (InHandler \cup InBackground) \ {"parse", "stream"}
    /\ Goes(r, Excepted(request[r]))
    /\ Cut(r)
    /\ faults' = faults - 1
    /\ UNCHANGED <<ideas, versions, shared>>

\* The task of a streamed response is cancelled, and what it awaits with it.
Disconnect(r) ==
    /\ faults > 0
    /\ request[r].kind # "seed"
    /\ request[r].pc \in IF request[r].kind = "update" THEN InHandler \cup InBackground
                         ELSE InHandler
    /\ Goes(r, "broken")
    /\ Cut(r)
    /\ faults' = faults - 1
    /\ UNCHANGED <<ideas, versions, shared>>

ImportStep(r) ==
    \/ Parse(r) \/ ParseFails(r) \/ Open(r) \/ ReadBack(r)
    \/ Replace(r) \/ Forget(r) \/ CheckCopy(r) \/ Copy(r)
    \/ Summarise(r) \/ Keep(r)
    \/ Stream(r) \/ Save(r) \/ Respond(r) \/ Fail(r)

\* An idea is to be generated for the conversation.
Generating(c) == \E r \in Requests :
    Conv(r) = c /\ request[r].kind # "update" /\ request[r].pc \in InBackground \cup {"read"}
=============================================================================
