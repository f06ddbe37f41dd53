------------------------------- MODULE Ideas -------------------------------
(***************************************************************************)
(* The people of the conversation page beside the imports: a chat, which    *)
(* gives a conversation without an idea one and whose tool writes a version,*)
(* an edit by hand, a version recovered, the conversation deleted.          *)
(***************************************************************************)
EXTENDS Imports

CONSTANTS
    Writers,  \* requests of the page
    MaxCalls  \* bound: requests of both kinds that are sent

ASSUME IdeasAssumption == MaxCalls \in Nat

VARIABLE writer    \* [kind, pc, conversation, idea] of each

vars == <<tableVars, importVars, writer>>

Tasks == {"chat", "edit", "recover"}

Done == [kind |-> "chat", pc |-> "done", conversation |-> None, idea |-> None]

Init ==
    /\ TablesInit
    /\ ImportsInit
    /\ writer = [w \in Writers |-> [Done EXCEPT !.pc = "idle"]]

Ends(w) == writer' = [writer EXCEPT ![w] = Done]

MayCall ==
    Cardinality({r \in Requests : ~At(r, "idle")} \cup {w \in Writers : writer[w].pc # "idle"})
        < MaxCalls

\* Every request reads the idea of its conversation first.  An edit or a recovery
\* of no idea is a 404; a chat makes a failure idea.
Visit(w, kind) ==
    /\ writer[w].pc = "idle"
    /\ \E c \in Conversation :
          /\ Alive(c)
          /\ \E i \in IdeaRead(c) :
                /\ i # None \/ kind = "chat"
                /\ writer' = [writer EXCEPT
                      ![w] = [kind |-> kind, pc |-> IF i = None THEN "open" ELSE "insert",
                              conversation |-> c, idea |-> i]]
    /\ UNCHANGED <<tableVars, importVars>>

OpenIdea(w) ==
    /\ writer[w].pc = "open"
    /\ IF Alive(writer[w].conversation)
       THEN /\ AddIdea(writer[w].conversation, "failure", Unless(writer[w].idea))
            /\ writer' = [writer EXCEPT ![w].idea = Len(ideas) + 1, ![w].pc = "insert"]
       ELSE UNCHANGED <<ideas, versions>> /\ Ends(w)
    /\ UNCHANGED <<conversations, importVars>>

\* Mutant: the tool of the chat writes over the active version.
InsertInPlace(w) ==
    /\ writer[w].pc = "insert"
    /\ LET i == writer[w].idea
       IN IF ~Alive(writer[w].conversation) THEN UNCHANGED <<ideas, versions>>
          ELSE IF writer[w].kind = "chat" THEN OverwriteVersion(ideas[i].active, "tool")
          ELSE AddVersion(i, "person", Generating(writer[w].conversation))
    /\ Ends(w)
    /\ UNCHANGED <<conversations, importVars>>

\* The version is inserted and made the active one, if the idea is still there.
Insert(w) ==
    /\ writer[w].pc = "insert"
    /\ IF Alive(writer[w].conversation)
       THEN AddVersion(writer[w].idea, IF writer[w].kind = "chat" THEN "tool" ELSE "person",
                       Generating(writer[w].conversation))
       ELSE UNCHANGED <<ideas, versions>>
    /\ Ends(w)
    /\ UNCHANGED <<conversations, importVars>>

Delete(c) ==
    /\ faults > 0
    /\ faults' = faults - 1
    /\ DeleteConversation(c)
    /\ UNCHANGED <<request, shared, writer>>

\* The server goes down: its requests and its background tasks end.
Crash ==
    /\ faults > 0
    /\ faults' = faults - 1
    /\ request' = [r \in Requests |->
          IF request[r].pc \in InHandler \cup InBackground
          THEN Ended(request[r], "broken") ELSE request[r]]
    /\ writer' = [w \in Writers |->
          IF writer[w].pc = "idle" THEN writer[w] ELSE Done]
    /\ conversations' = [c \in Conversation |->
          IF \E r \in Requests : At(r, "forget") /\ Conv(r) = c
          THEN [conversations[c] EXCEPT !.hurt = @ \cup {"cut"}] ELSE conversations[c]]
    /\ UNCHANGED <<ideas, versions, shared>>

Next ==
    \/ \E r \in Requests :
          \/ MayCall /\ Import(r) /\ UNCHANGED writer
          \/ MayCall /\ SendManual(r) /\ UNCHANGED writer
          \/ MayCall /\ SendSeed(r) /\ UNCHANGED writer
          \/ Resolve(r) /\ UNCHANGED writer
          \/ ImportStep(r) /\ UNCHANGED writer
          \/ DbFault(r) /\ UNCHANGED writer
          \/ Disconnect(r) /\ UNCHANGED writer
    \/ \E w \in Writers :
          \/ \E kind \in Tasks : MayCall /\ Visit(w, kind)
          \/ OpenIdea(w) \/ Insert(w)
    \/ \E c \in Conversation : Delete(c)
    \/ Crash

Spec == Init /\ [][Next]_vars

-----------------------------------------------------------------------------

TypeOK ==
    /\ \A c \in Conversation : conversations[c] \in
          [origin : {"first", "chosen", "raced", "ignored", "manual", "seed", "deleted"},
           chat : 0 .. MaxShare, thread : 0 .. MaxShare, summaries : Seq(1 .. MaxShare),
           lives : BOOLEAN, hurt : SUBSET {"old thread", "overtaken", "cut"}]
    /\ \A i \in DOMAIN ideas : ideas[i] \in
          [conversation : Conversation, active : DOMAIN versions,
           why : {"first", "raced", "relapsed", "ignored"}]
    /\ \A v \in DOMAIN versions : versions[v] \in
          [idea : DOMAIN ideas, by : {"model", "failure", "tool", "person"}, early : BOOLEAN]
    /\ request \in [Requests -> [kind : Kinds,
          pc : {"idle", "conflict"} \cup InHandler \cup InBackground \cup Endings,
          conversation : {None} \cup Conversation, listed : SUBSET Conversation,
          share : 0 .. MaxShare, summary : 0 .. MaxShare, seen : {None} \cup DOMAIN versions,
          raised : BOOLEAN]]

\* Properties

\* A request that has opened a conversation leaves it with an idea to show
\* (conversations.py: "Create failure idea so there's always an idea"), unless the
\* conversation is deleted, its failure idea could not be stored either, or the
\* request ended before its background task began.
EndedMeansIdea ==
    \A r \in Requests :
        (At(r, "over") /\ Conv(r) # None) => (~Alive(Conv(r)) \/ IdeasOf(Conv(r)) # {})

\* Two conversations of one URL are there because the user wanted another or
\* because two imports had both listed none: the conflict is shown to everyone
\* whom it could be shown to.
DuplicatesHaveACause ==
    \A c, d \in Conversation :
        (c < d /\ Imported(c) /\ Imported(d) /\ Alive(c) /\ Alive(d))
            => conversations[d].origin \in {"chosen", "raced"}

\* A conversation has a second idea only if two requests had both read none or
\* the generation failed with an idea there: an idea that is found is kept.
SecondIdeaHasACause ==
    \A i, j \in DOMAIN ideas :
        (i < j /\ ideas[i].conversation = ideas[j].conversation)
            => ideas[j].why \in {"raced", "relapsed"}

\* A version somebody wrote, by hand or through the chat, stays in the history as
\* written; only the generation it was written beside may still put its text there.
EditsSurvive ==
    [][\A v \in DOMAIN versions :
          (versions[v].by \in {"tool", "person"} /\ ~versions[v].early)
              => versions'[v] = versions[v]]_vars

\* When no import is at work on a conversation every summary the prompts may read is
\* of the chat it shows, unless an update overtook the import before it, one was cut
\* off between its two writes, or the summariser gave back the summary it had.
SummaryIsOfTheChat ==
    \A c \in Conversation :
        \/ conversations[c].hurt # {}
        \/ ~Alive(c)
        \/ \E r \in Requests : Conv(r) = c /\ request[r].pc \in InHandler \cup InBackground
        \/ \A k \in DOMAIN conversations[c].summaries :
              conversations[c].summaries[k] = conversations[c].chat
=============================================================================
