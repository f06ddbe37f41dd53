----------------------------- MODULE IdeaTables -----------------------------
(***************************************************************************)
(* The tables conversations, ideas and idea_versions and what the database  *)
(* layer does to them.  A row is named by its position; rows of a deleted   *)
(* conversation stay in the sequences and are read by nobody, for the       *)
(* foreign keys cascade.  Nothing keeps a conversation from having two      *)
(* ideas.  The number of a version, by which nobody looks it up, is left    *)
(* out.                                                                     *)
(***************************************************************************)
EXTENDS Integers, Sequences, FiniteSets

VARIABLES
    conversations,  \* [origin, chat, thread, summaries, lives, hurt]
    ideas,          \* [conversation, active, why]
    versions        \* [idea, by, early]

tableVars == <<conversations, ideas, versions>>

None == 0

NoRow == [origin |-> "deleted", chat |-> 0, thread |-> 0, summaries |-> <<>>,
          lives |-> FALSE, hurt |-> {}]

Conversation == DOMAIN conversations
Alive(c) == conversations[c].lives

\* What of the rows of a conversation a SELECT can still see.
IdeasOf(c) == {i \in DOMAIN ideas : ideas[i].conversation = c /\ Alive(c)}
VersionsOf(i) == {v \in DOMAIN versions : versions[v].idea = i /\ Alive(ideas[i].conversation)}

\* get_idea_by_conversation_id: fetchone, in no order, with the active version.
IdeaRead(c) == IF IdeasOf(c) = {} THEN {None} ELSE IdeasOf(c)
VersionRead(c) == {IF i = None THEN None ELSE ideas[i].active : i \in IdeaRead(c)}

\* A caller that has read no idea adds one beside an idea only in a race.
Unless(seen) == IF seen = None THEN "raced" ELSE "ignored"

TablesInit == conversations = <<>> /\ ideas = <<>> /\ versions = <<>>

\* create_conversation, create_manual_conversation, create_seeded_conversation.
\* origin: how an import came by its row, or that it is none.
AddConversation(origin, chat) ==
    conversations' = Append(conversations,
        [NoRow EXCEPT !.origin = origin, !.chat = chat, !.lives = TRUE])

\* create_idea, and the same inserts in create_idea_from_run.  "why" is how the
\* caller comes to add an idea to a conversation that may have one.
AddIdea(c, by, why) ==
    /\ versions' = Append(versions,
          [idea |-> Len(ideas) + 1, by |-> by, early |-> FALSE])
    /\ ideas' = Append(ideas,
          [conversation |-> c, active |-> Len(versions) + 1,
           why |-> IF IdeasOf(c) = {} THEN "first" ELSE why])

\* update_idea_version: title and text replaced, the row stays.
OverwriteVersion(v, by) ==
    /\ versions' = [versions EXCEPT ![v].by = by]
    /\ UNCHANGED ideas

\* create_idea_version, recover_idea_version: a row more, and the active one.
AddVersion(i, by, early) ==
    /\ versions' = Append(versions, [idea |-> i, by |-> by, early |-> early])
    /\ ideas' = [ideas EXCEPT ![i].active = Len(versions) + 1]

\* DELETE FROM conversations: its ideas, versions and summaries go with it.
DeleteConversation(c) ==
    /\ Alive(c)
    /\ conversations' = [conversations EXCEPT ![c] = NoRow]
    /\ UNCHANGED <<ideas, versions>>
=============================================================================
