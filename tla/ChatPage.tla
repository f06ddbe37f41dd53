------------------------------ MODULE ChatPage ------------------------------
(***************************************************************************)
(* The pages that show the chat: useChatMessages, which loads the history   *)
(* and polls while the last message is an empty reply, useChatStreaming,    *)
(* which sends and reads one stream, and the effect that asks for a reply   *)
(* to a last message of the user's.  A page learns of what others do only   *)
(* when it loads or polls.                                                  *)
(***************************************************************************)
EXTENDS Chat, SequencesExt

CONSTANTS
    Tabs,      \* pages that show the conversation
    MaxLeaves  \* bound: reloads, and streams a page gives up

ASSUME PageAssumption == MaxLeaves \in Nat

VARIABLES
    tab,    \* [loaded, view, stream, triggered] of each page
    leaves  \* reloads and timeouts that may still happen

pageVars == <<tab, leaves>>
vars == <<chatVars, pageVars>>

FreshTab == [loaded |-> FALSE, view |-> <<>>, stream |-> None, triggered |-> 0]

Init == ChatInit /\ tab = [t \in Tabs |-> FreshTab] /\ leaves = MaxLeaves

\* A page keeps of a message its role, its sequence number and whether it is empty.
Shown(m) == [role |-> messages[m].role, full |-> messages[m].full, seq |-> messages[m].seq]
History == LET ids == SetToSortSeq(Stored, <) IN [k \in DOMAIN ids |-> Shown(ids[k])]

\* What the page adds by itself is numbered by its place.
Own(t, role) == [role |-> role, full |-> TRUE, seq |-> Len(tab[t].view) + 1]

Streaming(t) == tab[t].stream # None
Ready(t) == tab[t].loaded /\ ~Streaming(t)
LastShown(t) == tab[t].view[Len(tab[t].view)]
ShowsLast(t, role) == tab[t].view # <<>> /\ LastShown(t).role = role

\* hasEmptyAssistantMessage
Polling(t) == tab[t].loaded /\ ShowsLast(t, "assistant") /\ ~LastShown(t).full

Unanswered(t) ==
    /\ Ready(t)
    /\ ShowsLast(t, "user")
    /\ tab[t].triggered # LastShown(t).seq

LoadHistory(t) ==
    /\ ~tab[t].loaded
    /\ tab' = [tab EXCEPT ![t].loaded = TRUE, ![t].view = History]
    /\ UNCHANGED <<chatVars, leaves>>

\* A history that cannot be loaded is taken for an empty one.
LoadFails(t) ==
    /\ ~tab[t].loaded
    /\ faults > 0
    /\ faults' = faults - 1
    /\ tab' = [tab EXCEPT ![t].loaded = TRUE]
    /\ UNCHANGED <<messages, rows, thread, slipped, request, leaves>>

\* The effect runs before the user can do anything else.
AutoTrigger(t) ==
    /\ Unanswered(t)
    /\ \E r \in Requests :
          /\ At(r, "idle")
          /\ request' = [request EXCEPT ![r].pc = "history", ![r].auto = TRUE]
          /\ tab' = [tab EXCEPT ![t].stream = r, ![t].triggered = LastShown(t).seq]
    /\ UNCHANGED <<messages, rows, thread, slipped, faults, leaves>>

SendMessage(t) ==
    /\ Ready(t) /\ ~Unanswered(t)
    /\ \E r \in Requests :
          /\ At(r, "idle")
          /\ request' = [request EXCEPT ![r].pc = "user"]
          /\ tab' = [tab EXCEPT ![t].stream = r, ![t].view = Append(@, Own(t, "user"))]
    /\ UNCHANGED <<messages, rows, thread, slipped, faults, leaves>>

\* The stream has ended.  Error events on it are taken for lines that do not
\* parse, so that the page keeps what text there was.
StreamEnds(t) ==
    /\ Streaming(t) /\ At(tab[t].stream, "done")
    /\ tab' = [tab EXCEPT ![t].stream = None,
          ![t].view = IF request[tab[t].stream].sent = "text" THEN Append(@, Own(t, "assistant"))
                      ELSE @]
    /\ UNCHANGED <<chatVars, leaves>>

\* An error status, or a stream broken off: the last message is taken back, which
\* an automatic request has not added.
StreamFails(t) ==
    /\ Streaming(t) /\ request[tab[t].stream].pc \in {"refused", "broken"}
    /\ tab' = [tab EXCEPT ![t].stream = None,
          ![t].view = IF request[tab[t].stream].auto THEN @ ELSE Front(@)]
    /\ UNCHANGED <<chatVars, leaves>>

\* Mutant: only a history that has grown is shown.
PollForMore(t) ==
    /\ Polling(t)
    /\ Cardinality(Stored) > Len(tab[t].view)
    /\ tab' = [tab EXCEPT ![t].view = History]
    /\ UNCHANGED <<chatVars, leaves>>

\* pollForUpdates, every two seconds.
Poll(t) ==
    /\ Polling(t)
    /\ Stored # {} /\ messages[LastOf(Stored)].full
    /\ tab' = [tab EXCEPT ![t].view = History]
    /\ UNCHANGED <<chatVars, leaves>>

\* A request that has lost its client goes on, but for its stream.
Alone(t) ==
    request' = IF Streaming(t) THEN [request EXCEPT ![tab[t].stream].alone = TRUE] ELSE request

Reload(t) ==
    /\ leaves > 0
    /\ tab[t].loaded
    /\ leaves' = leaves - 1
    /\ Alone(t)
    /\ tab' = [tab EXCEPT ![t] = FreshTab]
    /\ UNCHANGED <<messages, rows, thread, slipped, faults>>

\* The page aborts its own request after five minutes and keeps what it shows.
Timeout(t) ==
    /\ leaves > 0
    /\ Streaming(t)
    /\ leaves' = leaves - 1
    /\ Alone(t)
    /\ tab' = [tab EXCEPT ![t].stream = None]
    /\ UNCHANGED <<messages, rows, thread, slipped, faults>>

PageStep(t) == LoadHistory(t) \/ AutoTrigger(t) \/ StreamEnds(t) \/ StreamFails(t) \/ Poll(t)

Next ==
    \/ \E r \in Requests : (ChatStep(r) \/ DbFault(r)) /\ UNCHANGED pageVars
    \/ Crash /\ UNCHANGED pageVars
    \/ \E t \in Tabs : PageStep(t) \/ LoadFails(t) \/ SendMessage(t) \/ Reload(t) \/ Timeout(t)

\* The server and the browser get on with their work; the user owes nothing.
Fairness ==
    /\ \A r \in Requests : WF_vars(ChatStep(r) /\ UNCHANGED pageVars)
    /\ \A t \in Tabs : WF_vars(PageStep(t))

Spec == Init /\ [][Next]_vars /\ Fairness

-----------------------------------------------------------------------------

TypeOK ==
    /\ \A m \in Ids : messages[m] \in
          [role : {"user", "assistant"}, full : BOOLEAN, gone : BOOLEAN, seq : Nat \ {0},
           answers : {0} \cup Ids, raced : BOOLEAN,
           left : {"no", "error event", "fault", "crash", "client"}]
    /\ rows \subseteq [covers : SUBSET Ids, latest : {0} \cup Ids]
    /\ thread \in [summarised : BOOLEAN, covers : SUBSET Ids, tail : SUBSET Ids]
    /\ slipped \subseteq Ids
    /\ \A r \in Requests : request[r].pc \in {"idle"} \cup InHandler \cup InTask \cup Endings
    /\ \A t \in Tabs : tab[t].stream \in Requests \cup {None}

\* A message that is stored is in the prompt of the next request, as itself or in
\* the summary (summarizer_service.py: "Return rolling summary and recent messages
\* not covered by it"), unless the summariser let it go: it gave back the summary
\* it had, failed, kept the message for itself, or the reply was still empty.
ForgottenHaveACause ==
    \A x \in rows : \A m \in Full : m <= x.latest => m \in x.covers \cup slipped

\* A message has two replies only if they were begun side by side, each before the
\* other could be seen (chat_stream.py: the placeholder is there "to prevent
\* duplicate executions on page refresh during streaming").
DoubleRepliesHaveACause ==
    \A m, n \in Stored :
        (m < n /\ messages[m].answers # 0 /\ messages[m].answers = messages[n].answers)
            => messages[n].raced

\* A reply that is empty is being worked on, or its task ended in an error event, in
\* a crash or with an error of the database, or its client left before it began.
EmptyReplyHasACause ==
    \A m \in Stored \ Full :
        \/ \E r \in Requests : request[r].reply = m
        \/ messages[m].left # "no"

\* A page that polls comes to show something else, unless it is reloaded or the
\* reply that is last has been given up.
PollingEnds ==
    \A t \in Tabs : Polling(t) ~>
        (~Polling(t) \/ (Stored # {} /\ messages[LastOf(Stored)].left # "no"))
=============================================================================
