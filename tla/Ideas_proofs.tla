----------------------------- MODULE Ideas_proofs -----------------------------
(***************************************************************************)
(* What the run of Ideas checks about the conversation page, proved for any *)
(* number of requests, people, faults and for a shared chat of any length:  *)
(* every conversation that a request has opened has an idea, a second       *)
(* conversation or idea is there for a reason, a summary is of the chat,    *)
(* and what somebody wrote stays as written.                                *)
(***************************************************************************)
EXTENDS Ideas, TLAPS

-----------------------------------------------------------------------------
(* Types.                                                                   *)

Origins == {"first", "chosen", "raced", "ignored", "manual", "seed", "deleted"}
Hurts == {"old thread", "overtaken", "cut"}
Reasons == {"first", "raced", "relapsed", "ignored"}
People == {"tool", "person"}

Rows == [origin : Origins, chat : 0 .. MaxShare, thread : 0 .. MaxShare,
         summaries : Seq(1 .. MaxShare), lives : BOOLEAN, hurt : SUBSET Hurts]
IdeaRows == [conversation : Nat, active : Nat, why : Reasons]
VersionRows == [idea : Nat, by : {"model", "failure"} \cup People, early : BOOLEAN]

Calls == [kind : Kinds,
          pc : {"idle", "conflict"} \cup InHandler \cup InBackground \cup Endings,
          conversation : Nat, listed : SUBSET Nat, share : 0 .. MaxShare,
          summary : 0 .. MaxShare, seen : Nat, raised : BOOLEAN]
Visits == [kind : Tasks, pc : {"idle", "open", "insert", "done"},
           conversation : Nat, idea : Nat]

\* The conversation a version belongs to.
Owner(v) == ideas[versions[v].idea].conversation

Referenced ==
    /\ \A i \in DOMAIN ideas : /\ ideas[i].conversation \in Conversation
                               /\ ideas[i].active \in DOMAIN versions
                               /\ versions[ideas[i].active].idea = i
    /\ \A v \in DOMAIN versions : versions[v].idea \in DOMAIN ideas

Tables ==
    /\ conversations \in Seq(Rows) /\ ideas \in Seq(IdeaRows) /\ versions \in Seq(VersionRows)
    /\ Referenced

\* Where a request of each kind can be, and what it holds there.
Placed(q) ==
    /\ q.conversation \in {None} \cup Conversation
    /\ q.seen \in {None} \cup DOMAIN versions
    /\ q.listed \subseteq Conversation
    /\ q.kind = "update" =>
          /\ q.pc \in {"parse", "replace", "forget", "summarise", "keep", "respond"}
          /\ q.conversation # None
    /\ q.pc \in {"replace", "forget"} => q.kind = "update"
    /\ q.kind = "seed" => q.pc \in {"open", "copy", "insert"}
    /\ q.pc \in {"copy", "insert"} => q.kind = "seed"
    /\ q.pc \in {"idle", "conflict"} => q.conversation = None
    /\ q.pc \in {"parse", "open"} /\ q.kind # "update" => q.conversation = None
    /\ q.pc \in {"idle", "parse", "open"} => q.listed = {}
    /\ q.pc \in InBackground \cup {"read", "copy", "insert"} => q.conversation # None
    /\ q.pc = "save" /\ q.seen # None => Owner(q.seen) = q.conversation
    /\ q.pc = "keep" => q.summary # 0

\* A request that is to give its conversation an idea.
Generates(q, c) ==
    q.conversation = c /\ q.kind # "update" /\ q.pc \in InBackground \cup {"read"}

Sits(q) ==
    /\ q.pc \in {"open", "insert"} => q.conversation \in Conversation
    /\ q.pc = "open" => q.idea = None
    /\ q.pc = "insert" =>
          q.idea \in DOMAIN ideas /\ ideas[q.idea].conversation = q.conversation

Typed ==
    /\ Tables
    /\ request \in [Requests -> Calls] /\ writer \in [Writers -> Visits]
    /\ shared \in 1 .. MaxShare
    /\ \A r \in Requests : Placed(request[r])
    /\ \A w \in Writers : Sits(writer[w])

USE DEF tableVars, importVars, vars

LEMMA Bound == MaxShare \in Nat \ {0}
BY ImportAssumption

-----------------------------------------------------------------------------
(* The tables.                                                              *)

LEMMA SeqAppended ==
    ASSUME NEW S, NEW s \in Seq(S), NEW x \in S
    PROVE  /\ Append(s, x) \in Seq(S)
           /\ DOMAIN s = 1 .. Len(s) /\ Len(s) \in Nat
           /\ DOMAIN Append(s, x) = DOMAIN s \cup {Len(s) + 1}
           /\ Len(s) + 1 \notin DOMAIN s
           /\ \A j \in DOMAIN s : Append(s, x)[j] = s[j]
           /\ Append(s, x)[Len(s) + 1] = x
OBVIOUS

LEMMA SeqChanged ==
    ASSUME NEW S, NEW s \in Seq(S), NEW i \in DOMAIN s, NEW x \in S
    PROVE  LET t == [s EXCEPT ![i] = x]
           IN  /\ t \in Seq(S) /\ DOMAIN t = DOMAIN s /\ t[i] = x
               /\ \A j \in DOMAIN s : j # i => t[j] = s[j]
OBVIOUS

\* What every step does to the tables: rows are added at the end, a conversation that
\* lives has lived, an idea keeps its conversation and a version its idea; a new idea
\* beside another is raced or relapsed; only a generation writes over a version of its
\* conversation, and a version somebody adds beside one is early.
TablesGo ==
    /\ Tables'
    /\ Conversation \subseteq Conversation'
    /\ \A c \in Conversation : conversations'[c].lives =>
          conversations[c].lives /\ conversations'[c].origin = conversations[c].origin
    /\ \A d \in Conversation' : d \notin Conversation =>
          /\ d = Len(conversations) + 1
          /\ \/ conversations'[d].origin \in {"chosen", "raced", "manual", "seed"}
             \/ Matching = {}
    /\ \A i \in DOMAIN ideas : /\ i \in DOMAIN ideas' /\ ideas'[i].why = ideas[i].why
                               /\ ideas'[i].conversation = ideas[i].conversation
    /\ \A i \in DOMAIN ideas' : i \notin DOMAIN ideas =>
          /\ i = Len(ideas) + 1 /\ ideas'[i].conversation \in Conversation
          /\ \/ ideas'[i].why \in {"raced", "relapsed"}
             \/ \A j \in DOMAIN ideas : ideas[j].conversation # ideas'[i].conversation
    /\ \A v \in DOMAIN versions :
          /\ v \in DOMAIN versions' /\ versions'[v].idea = versions[v].idea
          /\ versions'[v].early = versions[v].early
          /\ \/ versions'[v] = versions[v]
             \/ /\ versions'[v].by = "model"
                /\ \E r \in Requests : Generates(request[r], Owner(v))
    /\ \A v \in DOMAIN versions' : v \notin DOMAIN versions =>
          \E c \in Conversation :
             /\ ideas'[versions'[v].idea].conversation = c
             /\ \/ versions'[v].by \notin People \/ versions'[v].early
                \/ \A r \in Requests : ~Generates(request[r], c)

LEMMA StillTables ==
    ASSUME Tables, UNCHANGED tableVars
    PROVE  TablesGo
BY DEF TablesGo, Tables, Referenced, Conversation

LEMMA RowsTables ==
    ASSUME Tables, conversations' \in Seq(Rows), Conversation' = Conversation,
           \A c \in Conversation : conversations'[c].lives =>
              conversations[c].lives /\ conversations'[c].origin = conversations[c].origin,
           UNCHANGED <<ideas, versions>>
    PROVE  TablesGo
BY DEF TablesGo, Tables, Referenced, Conversation

LEMMA RowTables ==
    ASSUME Tables, NEW c \in Conversation, NEW row \in Rows,
           row.lives => conversations[c].lives /\ row.origin = conversations[c].origin,
           conversations' = [conversations EXCEPT ![c] = row],
           UNCHANGED <<ideas, versions>>
    PROVE  /\ TablesGo /\ Conversation' = Conversation /\ conversations'[c] = row
           /\ \A d \in Conversation : d # c => conversations'[d] = conversations[d]
<1>1. /\ conversations' \in Seq(Rows) /\ Conversation' = Conversation
      /\ conversations'[c] = row
      /\ \A d \in Conversation : d # c => conversations'[d] = conversations[d]
  BY SeqChanged DEF Tables, Conversation
<1> QED BY <1>1, RowsTables

LEMMA NoRowTyped == NoRow \in Rows
BY Bound DEF NoRow, Rows, Origins

LEMMA OpenTables ==
    ASSUME Tables, NEW chat \in 0 .. MaxShare, NEW origin \in Origins,
           AddConversation(origin, chat), UNCHANGED <<ideas, versions>>,
           origin \in {"chosen", "raced", "manual", "seed"} \/ Matching = {}
    PROVE  /\ TablesGo /\ Conversation' = Conversation \cup {Len(conversations) + 1}
           /\ Len(conversations) + 1 \notin Conversation /\ Len(conversations) + 1 \in Nat \ {0}
           /\ conversations'[Len(conversations) + 1].origin = origin
           /\ conversations'[Len(conversations) + 1].summaries = <<>>
           /\ \A c \in Conversation : conversations'[c] = conversations[c]
<1> DEFINE row == [NoRow EXCEPT !.origin = origin, !.chat = chat, !.lives = TRUE]
           n == Len(conversations) + 1
<1>1. row \in Rows /\ row.origin = origin /\ row.summaries = <<>>
  BY NoRowTyped DEF Rows, NoRow
<1>2. conversations' = Append(conversations, row)
  BY DEF AddConversation
<1> HIDE DEF row
<1>3. /\ conversations' \in Seq(Rows) /\ Conversation = 1 .. Len(conversations)
      /\ Len(conversations) \in Nat
      /\ Conversation' = Conversation \cup {n} /\ n \notin Conversation
      /\ \A c \in Conversation : conversations'[c] = conversations[c]
      /\ conversations'[n] = row
  BY <1>1, <1>2, SeqAppended DEF Tables, Conversation
<1>4. Tables'
  BY <1>3 DEF Tables, Referenced
<1>5. TablesGo
  BY <1>1, <1>3, <1>4 DEF TablesGo, Tables, Referenced
<1> QED BY <1>1, <1>3, <1>5

LEMMA AddIdeaTables ==
    ASSUME Tables, NEW c \in Conversation, Alive(c), NEW by \in {"model", "failure"},
           NEW why \in {"raced", "relapsed"}, AddIdea(c, by, why), UNCHANGED conversations
    PROVE  /\ TablesGo /\ IdeasOf(c)' # {}
           /\ Len(ideas) + 1 \in DOMAIN ideas' /\ Len(ideas) + 1 \in Nat
           /\ ideas'[Len(ideas) + 1].conversation = c
<1> DEFINE m == Len(ideas) + 1
           n == Len(versions) + 1
           idea == [conversation |-> c, active |-> n,
                    why |-> IF IdeasOf(c) = {} THEN "first" ELSE why]
           version == [idea |-> m, by |-> by, early |-> FALSE]
<1>1. versions' = Append(versions, version) /\ ideas' = Append(ideas, idea)
  BY DEF AddIdea
<1>2. c \in Nat /\ m \in Nat /\ n \in Nat
  BY DEF Tables, Conversation
<1>3. idea \in IdeaRows /\ version \in VersionRows
  BY <1>2 DEF IdeaRows, VersionRows, Reasons
<1>4. /\ idea.conversation = c /\ idea.active = n
      /\ idea.why \in {"raced", "relapsed"} \/ IdeasOf(c) = {}
      /\ version.idea = m /\ version.by = by
  OBVIOUS
<1> HIDE DEF idea, version
<1>5. /\ ideas' \in Seq(IdeaRows) /\ DOMAIN ideas' = DOMAIN ideas \cup {m} /\ m \notin DOMAIN ideas
      /\ \A j \in DOMAIN ideas : ideas'[j] = ideas[j]
      /\ ideas'[m] = idea
  BY <1>1, <1>3, SeqAppended DEF Tables
<1>6. /\ versions' \in Seq(VersionRows) /\ DOMAIN versions' = DOMAIN versions \cup {n}
      /\ n \notin DOMAIN versions
      /\ \A j \in DOMAIN versions : versions'[j] = versions[j]
      /\ versions'[n] = version
  BY <1>1, <1>3, SeqAppended DEF Tables
<1> HIDE DEF m, n
<1>7. Referenced'
  <2>1. Conversation' = Conversation /\ Referenced
    BY DEF Conversation, Tables
  <2>2. \A j \in DOMAIN ideas : /\ ideas'[j].conversation \in Conversation'
                                 /\ ideas'[j].active \in DOMAIN versions'
                                 /\ versions'[ideas'[j].active].idea = j
    BY <1>5, <1>6, <2>1 DEF Referenced
  <2>3. /\ ideas'[m].conversation \in Conversation' /\ ideas'[m].active \in DOMAIN versions'
        /\ versions'[ideas'[m].active].idea = m
    BY <1>4, <1>5, <1>6, <2>1
  <2>4. \A v \in DOMAIN versions' : versions'[v].idea \in DOMAIN ideas'
    BY <1>4, <1>5, <1>6, <2>1 DEF Referenced
  <2> QED BY <1>5, <2>2, <2>3, <2>4 DEF Referenced
<1>8. Tables'
  BY <1>5, <1>6, <1>7 DEF Tables
<1>9. IdeasOf(c) = {} => \A j \in DOMAIN ideas : ideas[j].conversation # c
  BY DEF IdeasOf
<1>10. \A i \in DOMAIN ideas' : i \notin DOMAIN ideas =>
          /\ i = m /\ ideas'[i].conversation \in Conversation
          /\ \/ ideas'[i].why \in {"raced", "relapsed"}
             \/ \A j \in DOMAIN ideas : ideas[j].conversation # ideas'[i].conversation
  BY <1>4, <1>5, <1>9
<1>11. \A v \in DOMAIN versions' : v \notin DOMAIN versions =>
          ideas'[versions'[v].idea].conversation = c /\ versions'[v].by \notin People
  BY <1>4, <1>5, <1>6 DEF People
<1>12. TablesGo
  BY <1>5, <1>6, <1>8, <1>10, <1>11 DEF TablesGo, Conversation, m
<1>13. m \in IdeasOf(c)'
  BY <1>4, <1>5 DEF IdeasOf, Alive
<1> QED BY <1>2, <1>4, <1>5, <1>12, <1>13 DEF m

LEMMA AddVersionTables ==
    ASSUME Tables, NEW i \in DOMAIN ideas, NEW by \in People, NEW early \in BOOLEAN,
           AddVersion(i, by, early), UNCHANGED conversations,
           (\E r \in Requests : Generates(request[r], ideas[i].conversation)) => early = TRUE
    PROVE  TablesGo
<1> DEFINE n == Len(versions) + 1
           idea == [ideas[i] EXCEPT !.active = n]
           version == [idea |-> i, by |-> by, early |-> early]
<1>1. versions' = Append(versions, version) /\ ideas' = [ideas EXCEPT ![i] = idea]
  BY Zenon DEF AddVersion
<1>2. i \in Nat /\ n \in Nat /\ ideas[i] \in IdeaRows
  BY DEF Tables
<1> HIDE DEF n
<1>3. idea \in IdeaRows /\ version \in VersionRows
  BY <1>2 DEF IdeaRows, VersionRows
<1>4. /\ idea.conversation = ideas[i].conversation /\ idea.active = n /\ idea.why = ideas[i].why
      /\ version.idea = i /\ version.by = by /\ version.early = early
  BY <1>2 DEF IdeaRows
<1> HIDE DEF idea, version
<1>5. /\ ideas' \in Seq(IdeaRows) /\ DOMAIN ideas' = DOMAIN ideas
      /\ \A j \in DOMAIN ideas : j # i => ideas'[j] = ideas[j]
      /\ ideas'[i] = idea
  BY <1>1, <1>3, SeqChanged DEF Tables
<1>6. /\ versions' \in Seq(VersionRows) /\ DOMAIN versions' = DOMAIN versions \cup {n}
      /\ n \notin DOMAIN versions
      /\ \A j \in DOMAIN versions : versions'[j] = versions[j]
      /\ versions'[n] = version
  BY <1>1, <1>3, SeqAppended DEF Tables, n
<1>7. Referenced'
  <2>1. Conversation' = Conversation /\ Referenced
    BY DEF Conversation, Tables
  <2>2. \A j \in DOMAIN ideas : j # i =>
           /\ ideas'[j].conversation \in Conversation' /\ ideas'[j].active \in DOMAIN versions'
           /\ versions'[ideas'[j].active].idea = j
    BY <1>5, <1>6, <2>1 DEF Referenced
  <2>3. /\ ideas'[i].conversation \in Conversation' /\ ideas'[i].active \in DOMAIN versions'
        /\ versions'[ideas'[i].active].idea = i
    BY <1>4, <1>5, <1>6, <2>1 DEF Referenced
  <2>4. \A v \in DOMAIN versions' : versions'[v].idea \in DOMAIN ideas'
    BY <1>4, <1>5, <1>6, <2>1 DEF Referenced
  <2> QED BY <1>5, <2>2, <2>3, <2>4 DEF Referenced
<1>8. Tables'
  BY <1>5, <1>6, <1>7 DEF Tables
<1>9. ideas[i].conversation \in Conversation
  BY DEF Tables, Referenced
<1>10. \A v \in DOMAIN versions' : v \notin DOMAIN versions =>
          /\ ideas'[versions'[v].idea].conversation = ideas[i].conversation
          /\ \/ versions'[v].early
             \/ \A r \in Requests : ~Generates(request[r], ideas[i].conversation)
  BY <1>4, <1>5, <1>6
<1>11. \A j \in DOMAIN ideas : ideas'[j].why = ideas[j].why
                               /\ ideas'[j].conversation = ideas[j].conversation
  BY <1>4, <1>5
<1> QED BY <1>5, <1>6, <1>8, <1>9, <1>10, <1>11 DEF TablesGo, Conversation

LEMMA OverwriteTables ==
    ASSUME Tables, NEW v \in DOMAIN versions, NEW r \in Requests,
           Generates(request[r], Owner(v)), OverwriteVersion(v, "model"),
           UNCHANGED conversations
    PROVE  TablesGo
<1> DEFINE version == [versions[v] EXCEPT !.by = "model"]
<1>1. versions' = [versions EXCEPT ![v] = version] /\ ideas' = ideas
  BY Zenon DEF OverwriteVersion
<1>2. versions[v] \in VersionRows
  BY DEF Tables
<1>3. version \in VersionRows /\ version.idea = versions[v].idea /\ version.by = "model"
      /\ version.early = versions[v].early
  BY <1>2 DEF VersionRows
<1> HIDE DEF version
<1>4. /\ versions' \in Seq(VersionRows) /\ DOMAIN versions' = DOMAIN versions
      /\ \A j \in DOMAIN versions : j # v => versions'[j] = versions[j]
      /\ versions'[v] = version
  BY <1>1, <1>3, SeqChanged DEF Tables
<1>5. \A j \in DOMAIN versions : versions'[j].idea = versions[j].idea
                                 /\ versions'[j].early = versions[j].early
  BY <1>3, <1>4
<1>6. Tables'
  BY <1>1, <1>4, <1>5 DEF Tables, Referenced, Conversation
<1> QED BY <1>1, <1>3, <1>4, <1>5, <1>6 DEF TablesGo, Conversation

-----------------------------------------------------------------------------
(* The requests.                                                            *)

\* A step of one request: it goes where its kind can be, it does not begin to generate
\* for a conversation that was there before, and it is over only with an idea.
RequestsGo(r) ==
    /\ request' \in [Requests -> Calls]
    /\ \A s \in Requests : s # r => request'[s] = request[s]
    /\ Placed(request[r])'
    /\ \A c \in Conversation : Generates(request'[r], c) => Generates(request[r], c)
    /\ request'[r].pc = "over" =>
          \A c \in {request'[r].conversation} \ {None} : ~Alive(c)' \/ IdeasOf(c)' # {}

LEMMA PlacedStays ==
    ASSUME Tables, TablesGo, NEW r, NEW q, request'[r] = q, Placed(q)
    PROVE  Placed(request[r])'
<1>1. /\ Conversation \subseteq Conversation' /\ DOMAIN versions \subseteq DOMAIN versions'
  BY DEF TablesGo
<1>2. \A v \in DOMAIN versions : Owner(v)' = Owner(v)
  BY DEF TablesGo, Tables, Referenced, Owner
<1> QED BY <1>1, <1>2 DEF Placed

LEMMA RequestChanged ==
    ASSUME request \in [Requests -> Calls], NEW r \in Requests, NEW q \in Calls,
           request' = [request EXCEPT ![r] = q]
    PROVE  /\ request' \in [Requests -> Calls] /\ request'[r] = q
           /\ \A s \in Requests : s # r => request'[s] = request[s]
OBVIOUS

LEMMA CallTyped ==
    ASSUME Typed, NEW r \in Requests
    PROVE  request[r] \in Calls /\ Placed(request[r])
BY DEF Typed

LEMMA CallMoved ==
    ASSUME NEW q \in Calls, NEW pc \in InHandler \cup InBackground
    PROVE  LET p == [q EXCEPT !.pc = pc]
           IN  /\ p \in Calls /\ p.pc = pc
               /\ p.kind = q.kind /\ p.conversation = q.conversation /\ p.listed = q.listed
               /\ p.share = q.share /\ p.summary = q.summary /\ p.seen = q.seen
BY DEF Calls

LEMMA CallEnded ==
    ASSUME NEW q \in Calls, NEW pc \in Endings
    PROVE  /\ Ended(q, pc) \in Calls /\ Ended(q, pc).pc = pc
           /\ Ended(q, pc).kind = "prompt" /\ Ended(q, pc).listed = {}
           /\ Ended(q, pc).seen = None /\ Ended(q, pc).summary = 0
           /\ Ended(q, pc).conversation = IF q.kind = "update" THEN None ELSE q.conversation
<1> DEFINE c == IF q.kind = "update" THEN None ELSE q.conversation
           e == [Idle EXCEPT !.pc = pc, !.conversation = c]
<1>1. Ended(q, pc) = e
  BY DEF Ended
<1>2. c \in Nat /\ 0 \in 0 .. MaxShare
  BY Bound DEF Calls, None
<1> HIDE DEF c
<1>3. Idle \in Calls
  BY <1>2 DEF Calls, Idle, Kinds, None
<1>4. e \in Calls
  BY <1>2, <1>3 DEF Calls
<1>5. /\ e.pc = pc /\ e.conversation = c /\ e.kind = Idle.kind /\ e.listed = Idle.listed
      /\ e.seen = Idle.seen /\ e.summary = Idle.summary
  BY <1>3 DEF Calls
<1>6. Idle.kind = "prompt" /\ Idle.listed = {} /\ Idle.seen = None /\ Idle.summary = 0
  BY DEF Idle
<1> QED BY <1>1, <1>4, <1>5, <1>6 DEF c

LEMMA GoesOn ==
    ASSUME Typed, TablesGo, NEW r \in Requests,
           NEW pc \in {"forget", "insert", "summarise", "stream", "respond", "failing"},
           Goes(r, pc), Conv(r) # None,
           request[r].kind = "update" => pc \in {"forget", "summarise", "respond"},
           pc = "forget" => request[r].kind = "update",
           request[r].kind = "seed" <=> pc = "insert",
           request[r].kind # "update" /\ pc # "insert"
              => request[r].pc \in InBackground \cup {"read"}
    PROVE  RequestsGo(r)
<1> DEFINE q == [request[r] EXCEPT !.pc = pc]
<1>1. pc \in InHandler \cup InBackground /\ pc \notin Endings
  BY DEF InHandler, InBackground, Endings
<1>2. request' = [request EXCEPT ![r] = q]
  BY <1>1, Zenon DEF Goes
<1>3. /\ q \in Calls /\ q.pc = pc /\ q.kind = request[r].kind
      /\ q.conversation = request[r].conversation /\ q.listed = request[r].listed
      /\ q.seen = request[r].seen
  BY <1>1, CallTyped, CallMoved
<1> HIDE DEF q
<1>4. /\ request' \in [Requests -> Calls] /\ request'[r] = q
      /\ \A s \in Requests : s # r => request'[s] = request[s]
  BY <1>2, <1>3, RequestChanged DEF Typed
<1>5. Placed(q)
  BY <1>3, CallTyped DEF Placed, Conv, InHandler, InBackground
<1>6. Placed(request[r])'
  BY <1>4, <1>5, PlacedStays DEF Typed
<1>7. \A c \in Conversation : Generates(q, c) => Generates(request[r], c)
  BY <1>3, CallTyped DEF Generates, InBackground, Placed
<1> QED BY <1>3, <1>4, <1>6, <1>7 DEF RequestsGo

LEMMA GoesToEnd ==
    ASSUME Typed, TablesGo, NEW r \in Requests, NEW pc \in Endings, Goes(r, pc),
           NEW c, c = Conv(r),
           pc = "over" /\ c # None /\ request[r].kind # "update" => ~Alive(c)' \/ IdeasOf(c)' # {}
    PROVE  RequestsGo(r)
<1> DEFINE q == Ended(request[r], pc)
<1>2. request' = [request EXCEPT ![r] = q]
  BY Zenon DEF Goes
<1>3. /\ q \in Calls /\ q.pc = pc /\ q.kind = "prompt" /\ q.listed = {} /\ q.seen = None
      /\ q.conversation = IF request[r].kind = "update" THEN None ELSE c
  BY CallTyped, CallEnded DEF Conv
<1> HIDE DEF q
<1>4. /\ request' \in [Requests -> Calls] /\ request'[r] = q
      /\ \A s \in Requests : s # r => request'[s] = request[s]
  BY <1>2, <1>3, RequestChanged DEF Typed
<1>5. Placed(q)
  BY <1>3, CallTyped DEF Placed, Conv, InHandler, InBackground, Endings
<1>6. Placed(request[r])'
  BY <1>4, <1>5, PlacedStays DEF Typed
<1>7. \A d \in Conversation : ~Generates(q, d)
  BY <1>3 DEF Generates, InBackground, Endings
<1> QED BY <1>3, <1>4, <1>6, <1>7 DEF RequestsGo

\* A request that takes other values than its place.
LEMMA GoesWith ==
    ASSUME Typed, TablesGo, NEW r \in Requests, NEW q \in Calls,
           request' = [request EXCEPT ![r] = q], Placed(q), q.pc # "over",
           \A c \in Conversation : Generates(q, c) => Generates(request[r], c)
    PROVE  RequestsGo(r) /\ request'[r] = q
<1>4. /\ request' \in [Requests -> Calls] /\ request'[r] = q
      /\ \A s \in Requests : s # r => request'[s] = request[s]
  BY RequestChanged DEF Typed
<1>6. Placed(request[r])'
  BY <1>4, PlacedStays DEF Typed
<1> QED BY <1>4, <1>6 DEF RequestsGo

Goal(r) == TablesGo /\ RequestsGo(r) /\ shared' \in 1 .. MaxShare /\ UNCHANGED writer

LEMMA DecideGo ==
    ASSUME Typed, NEW r \in Requests, NEW kind, NEW target, Decide(r, kind, target),
           request[r].pc \in {"idle", "conflict"},
           \/ kind \in {"prompt", "create"} /\ target = None
           \/ kind = "update" /\ target \in Conversation
    PROVE  TablesGo /\ RequestsGo(r) /\ shared' \in 1 .. MaxShare
<1>1. TablesGo /\ shared' \in 1 .. MaxShare
  BY StillTables DEF Decide, Typed
<1>2. /\ request[r] \in Calls /\ Placed(request[r]) /\ request[r].conversation = None
      /\ request[r].kind \notin {"update", "seed"}
  BY CallTyped DEF Placed
<1>3. Matching \subseteq Conversation /\ Conversation \subseteq Nat /\ None \notin Conversation
  BY DEF Matching, Conversation, Typed, Tables, None
<1>4. CASE kind = "prompt" /\ Matching # {}
  <2> DEFINE q == [request[r] EXCEPT !.pc = "conflict", !.listed = Matching]
  <2>1. request' = [request EXCEPT ![r].pc = "conflict", ![r].listed = Matching]
    BY <1>4 DEF Decide
  <2>2. request' = [request EXCEPT ![r] = q]
    BY <2>1, Zenon
  <2>3. /\ q \in Calls /\ q.pc = "conflict" /\ q.listed = Matching /\ q.kind = request[r].kind
        /\ q.conversation = None /\ q.seen = request[r].seen
    BY <1>2, <1>3 DEF Calls
  <2> HIDE DEF q
  <2>4. Placed(q) /\ \A c \in Conversation : ~Generates(q, c)
    BY <1>2, <1>3, <2>3 DEF Placed, Generates, InBackground
  <2> QED BY <1>1, <2>2, <2>3, <2>4, GoesWith
<1>5. CASE kind = "update" /\ target \notin Matching
  <2>1. Goes(r, "over")
    BY <1>5 DEF Decide
  <2> QED BY <1>1, <1>2, <2>1, GoesToEnd DEF Conv, Endings
<1>6. CASE ~(kind = "prompt" /\ Matching # {}) /\ ~(kind = "update" /\ target \notin Matching)
  <2> DEFINE l == IF kind = "prompt" THEN Matching ELSE {}
             q == [request[r] EXCEPT !.kind = kind, !.pc = "parse", !.conversation = target,
                                     !.listed = l]
  <2>1. Proceed(r, kind, target)
    BY <1>6 DEF Decide
  <2>2. request' = [request EXCEPT ![r] = q]
    BY <2>1, Zenon DEF Proceed
  <2>7. l = {}
    BY <1>6
  <2> HIDE DEF l
  <2>3. l = {} /\ kind \in Kinds /\ target \in Nat
    <3>1. target \in Conversation => target \in Nat
      BY <1>3
    <3> QED BY <2>7, <3>1 DEF Kinds, None
  <2>4. /\ q \in Calls /\ q.pc = "parse" /\ q.listed = {} /\ q.kind = kind
        /\ q.conversation = target /\ q.seen = request[r].seen
    BY <1>2, <2>3 DEF Calls, InHandler
  <2> HIDE DEF q
  <2>5. Placed(q) /\ \A c \in Conversation : ~Generates(q, c)
    BY <1>2, <1>3, <2>3, <2>4 DEF Placed, Generates, InBackground
  <2> QED BY <1>1, <2>2, <2>4, <2>5, GoesWith
<1> QED BY <1>4, <1>5, <1>6

LEMMA SendGo ==
    ASSUME Typed, NEW r \in Requests, SendManual(r) \/ SendSeed(r)
    PROVE  TablesGo /\ RequestsGo(r) /\ shared' \in 1 .. MaxShare
<1>1. TablesGo /\ shared' \in 1 .. MaxShare
  BY StillTables DEF SendManual, SendSeed, Typed
<1>2. /\ request[r] \in Calls /\ Placed(request[r]) /\ request[r].pc = "idle"
  BY CallTyped DEF SendManual, SendSeed, At
<1>3. /\ request[r].conversation = None
  BY <1>2 DEF Placed
<1> DEFINE Next1(q) == /\ q \in Calls /\ Placed(q) /\ q.pc = "open" /\ q.kind \in {"manual", "seed"}
<1>4. CASE SendManual(r)
  <2> DEFINE q == [request[r] EXCEPT !.kind = "manual", !.pc = "open"]
  <2>1. request' = [request EXCEPT ![r] = q]
    BY <1>4, Zenon DEF SendManual
  <2>2. /\ q \in Calls /\ q.kind = "manual" /\ q.pc = "open" /\ q.conversation = None
        /\ q.listed = request[r].listed /\ q.seen = request[r].seen
    BY <1>2, <1>3 DEF Calls, Kinds, InHandler
  <2> HIDE DEF q
  <2>3. Placed(q) /\ \A c \in Conversation : ~Generates(q, c)
    BY <1>2, <2>2 DEF Placed, Generates, InBackground
  <2> QED BY <1>1, <2>1, <2>2, <2>3, GoesWith
<1>5. CASE SendSeed(r)
  <2>1. PICK v \in DOMAIN versions :
           request' = [request EXCEPT ![r].kind = "seed", ![r].pc = "open", ![r].seen = v]
    BY <1>5 DEF SendSeed
  <2> DEFINE q == [request[r] EXCEPT !.kind = "seed", !.pc = "open", !.seen = v]
  <2>2. request' = [request EXCEPT ![r] = q]
    BY <2>1, Zenon
  <2>3. v \in Nat
    BY DEF Typed, Tables
  <2>4. /\ q \in Calls /\ q.kind = "seed" /\ q.pc = "open" /\ q.conversation = None
        /\ q.listed = request[r].listed /\ q.seen = v
    BY <1>2, <1>3, <2>3 DEF Calls, Kinds, InHandler
  <2> HIDE DEF q
  <2>5. Placed(q) /\ \A c \in Conversation : ~Generates(q, c)
    BY <1>2, <2>4 DEF Placed, Generates, InBackground
  <2> QED BY <1>1, <2>2, <2>4, <2>5, GoesWith
<1> QED BY <1>4, <1>5

LEMMA ParseGo ==
    ASSUME Typed, NEW r \in Requests, Parse(r) \/ ParseFails(r)
    PROVE  TablesGo /\ RequestsGo(r) /\ shared' \in 1 .. MaxShare
<1>1. TablesGo
  BY StillTables DEF Parse, ParseFails, Typed
<1>2. /\ request[r] \in Calls /\ Placed(request[r]) /\ request[r].pc = "parse"
  BY CallTyped DEF Parse, ParseFails, At
<1>3. CASE Parse(r)
  <2> DEFINE pc == IF request[r].kind = "update" THEN "replace" ELSE "open"
             share == shared'
             q == [request[r] EXCEPT !.pc = pc, !.share = share]
  <2>1. request' = [request EXCEPT ![r] = q]
    BY <1>3, Zenon DEF Parse
  <2>2. shared' \in 1 .. MaxShare /\ share \in 0 .. MaxShare
    BY <1>3, Bound DEF Parse, Typed
  <2>6. pc \in InHandler /\ pc \in {"replace", "open"}
        /\ (pc = "replace" <=> request[r].kind = "update")
    BY DEF InHandler
  <2> HIDE DEF pc, share
  <2>3. /\ q \in Calls /\ q.kind = request[r].kind /\ q.pc = pc
        /\ q.conversation = request[r].conversation
        /\ q.listed = request[r].listed /\ q.seen = request[r].seen
    BY <1>2, <2>2, <2>6 DEF Calls
  <2> HIDE DEF q
  <2>4. Placed(q)
    BY <1>2, <2>3, <2>6 DEF Placed, InBackground
  <2>5. \A c \in Conversation : ~Generates(q, c)
    BY <2>3, <2>6 DEF Generates, InBackground
  <2>7. RequestsGo(r)
    <3>1. q.pc # "over"
      BY <2>3, <2>6
    <3> QED BY <1>1, <2>1, <2>3, <2>4, <2>5, <3>1, GoesWith
  <2> QED BY <1>1, <2>2, <2>7
<1>4. CASE ParseFails(r)
  <2>1. Goes(r, "over") /\ shared' = shared
    BY <1>4 DEF ParseFails
  <2>2. Conv(r) # None => request[r].kind = "update"
    BY <1>2 DEF Placed, Conv
  <2> QED BY <1>1, <2>1, <2>2, GoesToEnd DEF Endings, Typed
<1> QED BY <1>3, <1>4

LEMMA OpenGo ==
    ASSUME Typed, NEW r \in Requests, Open(r)
    PROVE  TablesGo /\ RequestsGo(r) /\ shared' \in 1 .. MaxShare
<1> DEFINE n == Len(conversations) + 1
           pc == IF request[r].kind = "seed" THEN "copy" ELSE "read"
           q == [request[r] EXCEPT !.conversation = n, !.listed = {}, !.pc = pc]
           o == Origin(request[r])
<1>1. /\ request[r] \in Calls /\ Placed(request[r]) /\ request[r].pc = "open"
  BY CallTyped DEF Open, At
<1>2. o \in Origins /\ (o \in {"chosen", "raced", "manual", "seed"} \/ Matching = {})
  BY <1>1 DEF Origin, Placed, Origins
<1>3. AddConversation(o, request[r].share) /\ UNCHANGED <<ideas, versions, shared>>
  BY DEF Open
<1>4. request[r].share \in 0 .. MaxShare
  BY <1>1 DEF Calls
<1> HIDE DEF o
<1>5. /\ TablesGo /\ Conversation' = Conversation \cup {n} /\ n \notin Conversation
      /\ n \in Nat \ {0}
  BY <1>2, <1>3, <1>4, OpenTables DEF Typed
<1>6. request' = [request EXCEPT ![r] = q]
  BY Zenon DEF Open
<1> HIDE DEF n
<1>7. /\ q \in Calls /\ q.conversation = n /\ q.listed = {} /\ q.pc = pc
      /\ q.kind = request[r].kind /\ q.seen = request[r].seen
  BY <1>1, <1>5 DEF Calls, InHandler
<1> HIDE DEF q
<1>8. /\ request' \in [Requests -> Calls] /\ request'[r] = q
      /\ \A s \in Requests : s # r => request'[s] = request[s]
  BY <1>6, <1>7, RequestChanged DEF Typed
<1>9. q.kind # "update"
  BY <1>1, <1>7 DEF Placed
<1>10. DOMAIN versions \subseteq DOMAIN versions'
  BY <1>5 DEF TablesGo
<1>11. Placed(request[r])'
  BY <1>1, <1>5, <1>7, <1>8, <1>9, <1>10 DEF Placed, InBackground, None
<1>12. \A c \in Conversation : ~Generates(q, c)
  BY <1>5, <1>7 DEF Generates
<1> QED BY <1>3, <1>5, <1>7, <1>8, <1>11, <1>12 DEF RequestsGo, Typed

LEMMA ReadBackGo ==
    ASSUME Typed, NEW r \in Requests, ReadBack(r) \/ CheckCopy(r)
    PROVE  TablesGo /\ RequestsGo(r) /\ shared' \in 1 .. MaxShare
<1>1. TablesGo /\ shared' \in 1 .. MaxShare
  BY StillTables DEF ReadBack, CheckCopy, Typed
<1>2. /\ request[r] \in Calls /\ Placed(request[r]) /\ request[r].pc \in {"read", "copy"}
  BY CallTyped DEF ReadBack, CheckCopy, At
<1>3. Conv(r) # None /\ request[r].kind # "update"
  BY <1>2 DEF Placed, Conv
<1>4. CASE Goes(r, "broken")
  BY <1>1, <1>4, GoesToEnd DEF Endings
<1>5. CASE request[r].pc = "read" /\ (Goes(r, "stream") \/ Goes(r, "summarise"))
  <2>1. request[r].kind # "seed"
    BY <1>2, <1>5 DEF Placed
  <2> QED BY <1>1, <1>3, <1>5, <2>1, GoesOn
<1>6. CASE request[r].pc = "copy" /\ Goes(r, "insert")
  <2>1. request[r].kind = "seed"
    BY <1>2, <1>6 DEF Placed
  <2> QED BY <1>1, <1>3, <1>6, <2>1, GoesOn
<1> QED BY <1>4, <1>5, <1>6 DEF ReadBack, CheckCopy, At

LEMMA ReplaceGo ==
    ASSUME Typed, NEW r \in Requests, Replace(r) \/ Forget(r)
    PROVE  TablesGo /\ RequestsGo(r) /\ shared' \in 1 .. MaxShare
<1>1. /\ request[r] \in Calls /\ Placed(request[r]) /\ request[r].pc \in {"replace", "forget"}
      /\ UNCHANGED <<ideas, versions, shared>>
  BY CallTyped DEF Replace, Forget, At
<1>2. Conv(r) # None /\ request[r].kind = "update" /\ Conv(r) \in Conversation
  BY <1>1 DEF Placed, Conv
<1>3. conversations[Conv(r)] \in Rows
  BY <1>2 DEF Typed, Tables, Conversation
<1>4. TablesGo
  <2>1. CASE Replace(r)
    <3> DEFINE row == [conversations[Conv(r)] EXCEPT !.chat = request[r].share]
    <3>1. conversations' = [conversations EXCEPT ![Conv(r)] = row]
      BY <2>1, Zenon DEF Replace
    <3>2. request[r].share \in 0 .. MaxShare
      BY <1>1 DEF Calls
    <3>3. row \in Rows /\ row.origin = conversations[Conv(r)].origin
          /\ row.lives = conversations[Conv(r)].lives
      BY <1>3, <3>2 DEF Rows
    <3> HIDE DEF row
    <3> QED BY <1>1, <1>2, <3>1, <3>3, RowTables DEF Typed
  <2>2. CASE Forget(r)
    <3> DEFINE none == <<>>
               row == [conversations[Conv(r)] EXCEPT !.summaries = none]
    <3>1. conversations' = [conversations EXCEPT ![Conv(r)] = row]
      BY <2>2, Zenon DEF Forget
    <3>2. none \in Seq(1 .. MaxShare)
      OBVIOUS
    <3> HIDE DEF none
    <3>3. row \in Rows /\ row.origin = conversations[Conv(r)].origin
          /\ row.lives = conversations[Conv(r)].lives
      BY <1>3, <3>2 DEF Rows
    <3> HIDE DEF row
    <3> QED BY <1>1, <1>2, <3>1, <3>3, RowTables DEF Typed
  <2> QED BY <2>1, <2>2
<1>5. Goes(r, "forget") \/ Goes(r, "summarise")
  BY DEF Replace, Forget
<1>6. RequestsGo(r)
  BY <1>2, <1>4, <1>5, GoesOn
<1> QED BY <1>1, <1>4, <1>6 DEF Typed

LEMMA CopyGo ==
    ASSUME Typed, NEW r \in Requests, Copy(r) \/ Fail(r)
    PROVE  TablesGo /\ RequestsGo(r) /\ shared' \in 1 .. MaxShare
<1>1. /\ request[r] \in Calls /\ Placed(request[r]) /\ request[r].pc \in {"insert", "failing"}
      /\ UNCHANGED <<conversations, shared>>
  BY CallTyped DEF Copy, Fail, At
<1>2. Conv(r) \in Conversation
  BY <1>1 DEF Placed, Conv, InBackground
<1>3. CASE ~Alive(Conv(r)) /\ UNCHANGED <<ideas, versions>> /\ Goes(r, "broken")
  <2>1. TablesGo
    BY <1>1, <1>3, StillTables DEF Typed
  <2>2. RequestsGo(r)
    BY <1>3, <2>1, GoesToEnd DEF Endings
  <2> QED BY <1>1, <2>1, <2>2 DEF Typed
<1>4. CASE /\ Alive(Conv(r)) /\ Goes(r, "over")
           /\ AddIdea(Conv(r), "model", "raced") \/ AddIdea(Conv(r), "failure", "relapsed")
  <2>1. PICK c \in Conversation : c = Conv(r)
    BY <1>2
  <2>2. /\ Alive(c)
        /\ AddIdea(c, "model", "raced") \/ AddIdea(c, "failure", "relapsed")
    BY <1>4, <2>1
  <2>3. TablesGo /\ IdeasOf(c)' # {}
    BY <1>1, <2>2, AddIdeaTables DEF Typed
  <2>4. RequestsGo(r)
    BY <1>4, <2>1, <2>3, GoesToEnd DEF Endings
  <2> QED BY <1>1, <2>3, <2>4 DEF Typed
<1> QED BY <1>3, <1>4 DEF Copy, Fail

\* What the two steps that keep a summary do to the row of their conversation.
LEMMA SummariseRow ==
    ASSUME Typed, NEW r \in Requests, Summarise(r)
    PROVE  \E summary \in 0 .. MaxShare :
              LET c == Conv(r)
                  row == conversations'[c]
              IN  /\ request' = [request EXCEPT ![r].summary = summary,
                        ![r].pc = IF summary = 0 THEN AfterSummary(request[r]) ELSE "keep"]
                  /\ TablesGo /\ Conversation' = Conversation /\ c \in Conversation
                  /\ row.chat = conversations[c].chat
                  /\ row.summaries = conversations[c].summaries
                  /\ row.lives = conversations[c].lives
                  /\ conversations[c].hurt \subseteq row.hurt
                  /\ summary \in {0, request[r].share} \/ row.hurt # {}
                  /\ \A d \in Conversation : d # c => conversations'[d] = conversations[d]
<1>1. /\ request[r] \in Calls /\ Placed(request[r]) /\ request[r].pc = "summarise"
  BY CallTyped DEF Summarise, At
<1>2. PICK c \in Conversation : c = Conv(r)
  BY <1>1 DEF Placed, Conv, InBackground
<1>3. conversations[c] \in Rows
  BY DEF Typed, Tables, Conversation
<1>4. PICK summary \in {0, request[r].share, conversations[c].thread} :
          /\ request' = [request EXCEPT ![r].summary = summary,
                ![r].pc = IF summary = 0 THEN AfterSummary(request[r]) ELSE "keep"]
          /\ conversations' = [conversations EXCEPT
                ![c].thread = IF summary = 0 THEN @ ELSE summary,
                ![c].hurt = IF summary \in {0, request[r].share} THEN @
                                  ELSE @ \cup {"old thread"}]
  BY <1>2 DEF Summarise
<1>5. summary \in 0 .. MaxShare
  BY <1>1, <1>3, Bound DEF Calls, Rows
<1> DEFINE t == IF summary = 0 THEN conversations[c].thread ELSE summary
           h == IF summary \in {0, request[r].share} THEN conversations[c].hurt
                ELSE conversations[c].hurt \cup {"old thread"}
           row == [conversations[c] EXCEPT !.thread = t, !.hurt = h]
<1>6. conversations' = [conversations EXCEPT ![c] = row]
  BY <1>4, Zenon
<1>7. /\ t \in 0 .. MaxShare /\ h \subseteq Hurts /\ conversations[c].hurt \subseteq h
      /\ summary \in {0, request[r].share} \/ h # {}
  BY <1>3, <1>5 DEF Rows, Hurts
<1> HIDE DEF t, h
<1>8. /\ row \in Rows /\ row.origin = conversations[c].origin
      /\ row.lives = conversations[c].lives /\ row.chat = conversations[c].chat
      /\ row.summaries = conversations[c].summaries /\ row.hurt = h
  BY <1>3, <1>7 DEF Rows
<1> HIDE DEF row
<1>9. UNCHANGED <<ideas, versions>>
  BY DEF Summarise
<1>10. /\ TablesGo /\ Conversation' = Conversation /\ conversations'[c] = row
       /\ \A d \in Conversation : d # c => conversations'[d] = conversations[d]
  BY <1>6, <1>8, <1>9, RowTables DEF Typed
<1> HIDE DEF Conv
<1> QED BY <1>2, <1>4, <1>5, <1>7, <1>8, <1>10

LEMMA SummariseGo ==
    ASSUME Typed, NEW r \in Requests, Summarise(r)
    PROVE  TablesGo /\ RequestsGo(r) /\ shared' \in 1 .. MaxShare
<1>1. /\ request[r] \in Calls /\ Placed(request[r]) /\ request[r].pc = "summarise"
      /\ shared' \in 1 .. MaxShare
  BY CallTyped DEF Summarise, At, Typed
<1>2. PICK summary \in 0 .. MaxShare :
         /\ request' = [request EXCEPT ![r].summary = summary,
               ![r].pc = IF summary = 0 THEN AfterSummary(request[r]) ELSE "keep"]
         /\ TablesGo
  BY SummariseRow
<1> DEFINE pc == IF summary = 0 THEN AfterSummary(request[r]) ELSE "keep"
           q == [request[r] EXCEPT !.summary = summary, !.pc = pc]
<1>3. request' = [request EXCEPT ![r] = q]
  BY <1>2, Zenon
<1>4. /\ pc \in InBackground /\ pc \in {"respond", "stream", "keep"}
      /\ request[r].kind = "update" => pc # "stream"
      /\ pc = "keep" => summary # 0
  BY DEF AfterSummary, InBackground
<1> HIDE DEF pc
<1>5. /\ q \in Calls /\ q.kind = request[r].kind /\ q.pc = pc /\ q.summary = summary
      /\ q.conversation = request[r].conversation
      /\ q.listed = request[r].listed /\ q.seen = request[r].seen
  BY <1>1, <1>4 DEF Calls
<1> HIDE DEF q
<1>6. Placed(q)
  BY <1>1, <1>4, <1>5 DEF Placed, InBackground
<1>7. \A c \in Conversation : Generates(q, c) => Generates(request[r], c)
  BY <1>1, <1>5 DEF Generates, InBackground
<1>8. q.pc # "over"
  BY <1>4, <1>5
<1>9. RequestsGo(r)
  BY <1>2, <1>3, <1>5, <1>6, <1>7, <1>8, GoesWith
<1> QED BY <1>1, <1>2, <1>9

LEMMA KeepRow ==
    ASSUME Typed, NEW r \in Requests, Keep(r)
    PROVE  LET c == Conv(r)
               row == conversations'[c]
           IN  /\ TablesGo /\ Conversation' = Conversation /\ c \in Conversation
               /\ row.chat = conversations[c].chat /\ row.lives = conversations[c].lives
               /\ conversations[c].hurt \subseteq row.hurt
               /\ conversations[c].chat = request[r].share \/ row.hurt # {}
               /\ row.lives => row.summaries = Append(conversations[c].summaries, request[r].summary)
               /\ \A d \in Conversation : d # c => conversations'[d] = conversations[d]
<1>1. /\ request[r] \in Calls /\ Placed(request[r]) /\ request[r].pc = "keep"
  BY CallTyped DEF Keep, At
<1>2. PICK c \in Conversation : c = Conv(r)
  BY <1>1 DEF Placed, Conv, InBackground
<1>3. conversations[c] \in Rows
  BY DEF Typed, Tables, Conversation
<1>4. /\ conversations' = [conversations EXCEPT
            ![c].summaries = IF Alive(c) THEN Append(@, request[r].summary) ELSE @,
            ![c].hurt = IF conversations[c].chat = request[r].share THEN @
                              ELSE @ \cup {"overtaken"}]
      /\ UNCHANGED <<ideas, versions>>
  BY <1>2 DEF Keep
<1> DEFINE s == IF Alive(c) THEN Append(conversations[c].summaries, request[r].summary)
                ELSE conversations[c].summaries
           h == IF conversations[c].chat = request[r].share THEN conversations[c].hurt
                ELSE conversations[c].hurt \cup {"overtaken"}
           row == [conversations[c] EXCEPT !.summaries = s, !.hurt = h]
<1>5. conversations' = [conversations EXCEPT ![c] = row]
  BY <1>4, Zenon
<1>6. h \subseteq Hurts /\ conversations[c].hurt \subseteq h
      /\ (conversations[c].chat = request[r].share \/ h # {})
  BY <1>3 DEF Rows, Hurts
<1>7. s \in Seq(1 .. MaxShare)
  <2>1. conversations[c].summaries \in Seq(1 .. MaxShare)
    BY <1>3 DEF Rows
  <2>2. request[r].summary \in 1 .. MaxShare
    BY <1>1, Bound DEF Calls, Placed
  <2>3. Append(conversations[c].summaries, request[r].summary) \in Seq(1 .. MaxShare)
    BY <2>1, <2>2, SeqAppended
  <2> QED BY <2>1, <2>3
<1>8. Alive(c) => s = Append(conversations[c].summaries, request[r].summary)
  OBVIOUS
<1> HIDE DEF s, h
<1>9. /\ row \in Rows /\ row.origin = conversations[c].origin
      /\ row.lives = conversations[c].lives /\ row.chat = conversations[c].chat
      /\ row.summaries = s /\ row.hurt = h
  BY <1>3, <1>6, <1>7 DEF Rows
<1> HIDE DEF row
<1>11. row.lives => conversations[c].lives /\ row.origin = conversations[c].origin
  BY <1>9
<1>12. UNCHANGED <<ideas, versions>>
  BY DEF Keep
<1>10. /\ TablesGo /\ Conversation' = Conversation /\ conversations'[c] = row
       /\ \A d \in Conversation : d # c => conversations'[d] = conversations[d]
  BY <1>5, <1>9, <1>11, <1>12, RowTables DEF Typed
<1> HIDE DEF Conv
<1> QED BY <1>2, <1>6, <1>8, <1>9, <1>10 DEF Alive

LEMMA KeepGo ==
    ASSUME Typed, NEW r \in Requests, Keep(r)
    PROVE  TablesGo /\ RequestsGo(r) /\ shared' \in 1 .. MaxShare
<1>1. /\ request[r] \in Calls /\ Placed(request[r]) /\ request[r].pc = "keep"
      /\ shared' \in 1 .. MaxShare
  BY CallTyped DEF Keep, At, Typed
<1>2. TablesGo
  BY KeepRow
<1> DEFINE pc == AfterSummary(request[r])
           q == [request[r] EXCEPT !.pc = pc, !.summary = 0, !.share = 0]
<1>3. request' = [request EXCEPT ![r] = q]
  BY Zenon DEF Keep
<1>4. /\ pc \in InBackground /\ pc \in {"respond", "stream"}
      /\ request[r].kind = "update" => pc # "stream"
  BY DEF AfterSummary, InBackground
<1> HIDE DEF pc
<1>10. 0 \in 0 .. MaxShare
  BY Bound
<1>5. /\ q \in Calls /\ q.kind = request[r].kind /\ q.pc = pc
      /\ q.conversation = request[r].conversation
      /\ q.listed = request[r].listed /\ q.seen = request[r].seen
  BY <1>1, <1>4, <1>10 DEF Calls
<1> HIDE DEF q
<1>6. Placed(q)
  BY <1>1, <1>4, <1>5 DEF Placed, InBackground
<1>7. \A c \in Conversation : Generates(q, c) => Generates(request[r], c)
  BY <1>1, <1>5 DEF Generates, InBackground
<1>8. q.pc # "over"
  BY <1>4, <1>5
<1>9. RequestsGo(r)
  BY <1>2, <1>3, <1>5, <1>6, <1>7, <1>8, GoesWith
<1> QED BY <1>1, <1>2, <1>9

LEMMA StreamGo ==
    ASSUME Typed, NEW r \in Requests, Stream(r)
    PROVE  TablesGo /\ RequestsGo(r) /\ shared' \in 1 .. MaxShare
<1>1. /\ request[r] \in Calls /\ Placed(request[r]) /\ request[r].pc = "stream"
      /\ shared' \in 1 .. MaxShare /\ TablesGo
  BY CallTyped, StillTables DEF Stream, At, Typed
<1>2. Conv(r) # None /\ request[r].kind \notin {"update", "seed"}
  BY <1>1 DEF Placed, Conv, InBackground
<1>3. CASE Goes(r, "failing")
  <2>1. request[r].pc \in InBackground
    BY <1>1 DEF InBackground
  <2>2. RequestsGo(r)
    BY <1>1, <1>2, <1>3, <2>1, GoesOn
  <2> QED BY <1>1, <2>2
<1>4. CASE \E raised \in BOOLEAN, v \in VersionRead(Conv(r)) :
             request' = [request EXCEPT ![r].pc = "save", ![r].seen = v, ![r].raised = raised]
  <2>1. PICK raised \in BOOLEAN, v \in VersionRead(Conv(r)) :
             request' = [request EXCEPT ![r].pc = "save", ![r].seen = v, ![r].raised = raised]
    BY <1>4
  <2> DEFINE q == [request[r] EXCEPT !.pc = "save", !.seen = v, !.raised = raised]
  <2>2. request' = [request EXCEPT ![r] = q]
    BY <2>1, Zenon
  <2>3. v = None \/ (v \in DOMAIN versions /\ Owner(v) = Conv(r))
    <3>1. PICK i \in IdeaRead(Conv(r)) : v = IF i = None THEN None ELSE ideas[i].active
      BY DEF VersionRead
    <3>2. i # None => i \in DOMAIN ideas /\ ideas[i].conversation = Conv(r)
      BY DEF IdeaRead, IdeasOf
    <3> QED BY <3>1, <3>2 DEF Typed, Tables, Referenced, Owner
  <2>4. v \in Nat
    BY <2>3 DEF Typed, Tables, None
  <2>5. /\ q \in Calls /\ q.kind = request[r].kind /\ q.pc = "save"
        /\ q.conversation = Conv(r) /\ q.listed = request[r].listed /\ q.seen = v
    BY <1>1, <2>4 DEF Calls, InBackground, Conv
  <2> HIDE DEF q
  <2>6. Placed(q)
    BY <1>1, <1>2, <2>3, <2>5 DEF Placed, Conv, InBackground
  <2>7. \A c \in Conversation : Generates(q, c) => Generates(request[r], c)
    BY <1>1, <1>2, <2>5 DEF Generates, InBackground, Conv
  <2>8. RequestsGo(r)
    BY <1>1, <2>2, <2>5, <2>6, <2>7, GoesWith
  <2> QED BY <1>1, <2>8
<1> QED BY <1>3, <1>4 DEF Stream

LEMMA SaveGo ==
    ASSUME Typed, NEW r \in Requests, Save(r)
    PROVE  TablesGo /\ RequestsGo(r) /\ shared' \in 1 .. MaxShare
<1>1. /\ request[r] \in Calls /\ Placed(request[r]) /\ request[r].pc = "save"
      /\ shared' \in 1 .. MaxShare /\ UNCHANGED conversations
  BY CallTyped DEF Save, At, Typed
<1>2. Conv(r) \in Conversation /\ request[r].kind \notin {"update", "seed"}
  BY <1>1 DEF Placed, Conv, InBackground
<1>3. TablesGo
  <2>1. PICK c \in Conversation : c = Conv(r)
    BY <1>2
  <2>2. PICK v : v = request[r].seen
    OBVIOUS
  <2>3. \/ UNCHANGED <<ideas, versions>>
        \/ Alive(c) /\ v = None /\ AddIdea(c, "model", "raced")
        \/ v # None /\ OverwriteVersion(v, "model")
    BY <2>1, <2>2 DEF Save, Unless
  <2>4. v # None => v \in DOMAIN versions /\ Generates(request[r], Owner(v))
    BY <1>1, <1>2, <2>2 DEF Placed, Generates, InBackground
  <2>5. CASE UNCHANGED <<ideas, versions>>
    BY <1>1, <2>5, StillTables DEF Typed
  <2>6. CASE Alive(c) /\ AddIdea(c, "model", "raced")
    BY <1>1, <2>6, AddIdeaTables DEF Typed
  <2>7. CASE v # None /\ OverwriteVersion(v, "model")
    BY <1>1, <2>4, <2>7, OverwriteTables DEF Typed
  <2> QED BY <2>3, <2>5, <2>6, <2>7
<1> DEFINE pc == IF request[r].raised THEN "failing" ELSE "respond"
           q == [request[r] EXCEPT !.pc = pc, !.seen = None, !.raised = FALSE]
<1>4. request' = [request EXCEPT ![r] = q]
  BY Zenon DEF Save
<1>5. pc \in InBackground /\ pc \in {"failing", "respond"}
  BY DEF InBackground
<1> HIDE DEF pc
<1>6. /\ q \in Calls /\ q.kind = request[r].kind /\ q.pc = pc
      /\ q.conversation = request[r].conversation
      /\ q.listed = request[r].listed /\ q.seen = None
  BY <1>1, <1>5 DEF Calls, None
<1> HIDE DEF q
<1>7. Placed(q)
  BY <1>1, <1>2, <1>5, <1>6 DEF Placed, InBackground
<1>8. \A c \in Conversation : Generates(q, c) => Generates(request[r], c)
  BY <1>1, <1>6 DEF Generates, InBackground
<1>9. q.pc # "over"
  BY <1>5, <1>6
<1>10. RequestsGo(r)
  BY <1>3, <1>4, <1>6, <1>7, <1>8, <1>9, GoesWith
<1> QED BY <1>1, <1>3, <1>10

LEMMA ExceptedGo ==
    ASSUME Typed, TablesGo, NEW r \in Requests, Goes(r, Excepted(request[r])),
           request[r].pc \in InHandler \cup InBackground
    PROVE  RequestsGo(r)
<1>1. request[r] \in Calls /\ Placed(request[r])
  BY CallTyped
<1>2. PICK pc : pc = Excepted(request[r])
  OBVIOUS
<1>3. pc \in {"broken", "respond", "stream", "failing"}
  BY <1>2 DEF Excepted
<1>4. CASE pc = "broken"
  BY <1>2, <1>4, GoesToEnd DEF Endings
<1>5. CASE pc # "broken"
  <2>0. request[r].kind = "update" => request[r].pc # "save"
    BY <1>1 DEF Placed
  <2>1. /\ request[r].pc \in {"summarise", "keep", "save", "respond"}
        /\ request[r].kind = "update" => pc = "respond"
    <3>1. CASE request[r].pc \in {"summarise", "keep", "save"}
      BY <1>2, <2>0, <3>1 DEF Excepted
    <3>2. CASE request[r].pc \notin {"summarise", "keep", "save"}
      BY <1>2, <1>5, <3>2 DEF Excepted
    <3> QED BY <3>1, <3>2
  <2>2. request[r].kind # "seed" /\ Conv(r) # None /\ request[r].pc \in InBackground
    BY <1>1, <2>1 DEF Placed, Conv, InBackground
  <2> QED BY <1>2, <1>3, <1>5, <2>1, <2>2, GoesOn
<1> QED BY <1>4, <1>5

LEMMA RespondGo ==
    ASSUME Typed, NEW r \in Requests, Respond(r)
    PROVE  TablesGo /\ RequestsGo(r) /\ shared' \in 1 .. MaxShare
<1>1. /\ TablesGo /\ shared' \in 1 .. MaxShare /\ request[r].pc \in InBackground
      /\ UNCHANGED tableVars
  BY StillTables DEF Respond, Typed, At, InBackground
<1>2. CASE IdeasOf(Conv(r)) # {} /\ Goes(r, "over")
  <2>1. PICK c : c = Conv(r)
    OBVIOUS
  <2>2. IdeasOf(c)' # {}
    BY <1>1, <1>2, <2>1 DEF IdeasOf, Alive
  <2> QED BY <1>1, <1>2, <2>1, <2>2, GoesToEnd DEF Endings
<1>3. CASE Goes(r, Excepted(request[r]))
  BY <1>1, <1>3, ExceptedGo
<1> QED BY <1>2, <1>3 DEF Respond

\* What is cut off: a request between its two writes leaves its mark.
LEMMA CutRow ==
    ASSUME Typed, NEW r \in Requests, Cut(r), UNCHANGED <<ideas, versions>>
    PROVE  /\ TablesGo /\ Conversation' = Conversation
           /\ \A c \in Conversation :
                 \/ conversations'[c] = conversations[c] /\ ~(At(r, "forget") /\ c = Conv(r))
                 \/ /\ conversations'[c].hurt # {} /\ At(r, "forget") /\ c = Conv(r)
                    /\ conversations'[c].lives = conversations[c].lives
<1>1. CASE ~At(r, "forget")
  BY <1>1, StillTables DEF Cut, Typed, Conversation
<1>2. CASE At(r, "forget")
  <2>1. PICK c \in Conversation : c = Conv(r)
    BY <1>2, CallTyped DEF At, Placed, Conv
  <2> DEFINE h == conversations[c].hurt \cup {"cut"}
             row == [conversations[c] EXCEPT !.hurt = h]
  <2>2. conversations[c] \in Rows
    BY DEF Typed, Tables, Conversation
  <2>3. conversations' = [conversations EXCEPT ![c].hurt = @ \cup {"cut"}]
    BY <1>2, <2>1 DEF Cut
  <2>4. conversations' = [conversations EXCEPT ![c] = row]
    BY <2>3, Zenon
  <2>5. h \subseteq Hurts /\ h # {}
    BY <2>2 DEF Rows, Hurts
  <2> HIDE DEF h
  <2>6. row \in Rows /\ row.origin = conversations[c].origin
        /\ row.lives = conversations[c].lives /\ row.hurt = h
    BY <2>2, <2>5 DEF Rows
  <2> HIDE DEF row
  <2>7. /\ TablesGo /\ Conversation' = Conversation /\ conversations'[c] = row
        /\ \A d \in Conversation : d # c => conversations'[d] = conversations[d]
    BY <2>4, <2>6, RowTables DEF Typed
  <2> QED BY <1>2, <2>1, <2>5, <2>6, <2>7
<1> QED BY <1>1, <1>2

LEMMA FaultGo ==
    ASSUME Typed, NEW r \in Requests, DbFault(r) \/ Disconnect(r)
    PROVE  TablesGo /\ RequestsGo(r) /\ shared' \in 1 .. MaxShare
<1>1. Cut(r) /\ UNCHANGED <<ideas, versions, shared>>
      /\ request[r].pc \in InHandler \cup InBackground
  BY DEF DbFault, Disconnect
<1>2. TablesGo
  BY <1>1, CutRow
<1>3. CASE Goes(r, Excepted(request[r]))
  BY <1>1, <1>2, <1>3, ExceptedGo DEF Typed
<1>4. CASE Goes(r, "broken")
  BY <1>1, <1>2, <1>4, GoesToEnd DEF Endings, Typed
<1> QED BY <1>3, <1>4 DEF DbFault, Disconnect

-----------------------------------------------------------------------------
(* The people, and all steps together.                                      *)

WritersGo ==
    /\ writer' \in [Writers -> Visits]
    /\ \A w \in Writers : Sits(writer[w])'

LEMMA SitsStays ==
    ASSUME Tables, TablesGo, NEW w, NEW v, writer'[w] = v, Sits(v)
    PROVE  Sits(writer[w])'
<1>1. Conversation \subseteq Conversation'
  BY DEF TablesGo
<1>2. \A i \in DOMAIN ideas : i \in DOMAIN ideas' /\ ideas'[i].conversation = ideas[i].conversation
  BY DEF TablesGo
<1> QED BY <1>1, <1>2 DEF Sits

LEMMA WritersStay ==
    ASSUME Typed, TablesGo, UNCHANGED writer
    PROVE  WritersGo
BY SitsStays DEF Typed, WritersGo

\* A person's request that goes somewhere else.
LEMMA WriterGoes ==
    ASSUME Typed, TablesGo, NEW w \in Writers, NEW v \in Visits,
           writer' = [writer EXCEPT ![w] = v], Sits(writer[w])'
    PROVE  WritersGo
<1>1. /\ writer' \in [Writers -> Visits] /\ writer'[w] = v
      /\ \A x \in Writers : x # w => writer'[x] = writer[x]
  BY DEF Typed
<1>2. \A x \in Writers : x # w => Sits(writer[x])'
  BY <1>1, SitsStays DEF Typed
<1> QED BY <1>1, <1>2 DEF WritersGo

LEMMA DoneTyped == Done \in Visits /\ Done.pc = "done"
BY DEF Done, Visits, Tasks, None

LEMMA WriterEnds ==
    ASSUME Typed, TablesGo, NEW w \in Writers, Ends(w)
    PROVE  WritersGo
<1>1. writer' = [writer EXCEPT ![w] = Done] /\ writer'[w] = Done
  BY DEF Ends, Typed
<1>2. Sits(writer[w])'
  BY <1>1, DoneTyped DEF Sits
<1> QED BY <1>1, <1>2, DoneTyped, WriterGoes

LEMMA VisitGo ==
    ASSUME Typed, NEW w \in Writers, NEW kind \in Tasks, Visit(w, kind)
    PROVE  TablesGo /\ WritersGo
<1>1. TablesGo
  BY StillTables DEF Visit, Typed
<1>0. PICK c \in Conversation : \E i \in IdeaRead(c) :
         writer' = [writer EXCEPT
               ![w] = [kind |-> kind, pc |-> IF i = None THEN "open" ELSE "insert",
                       conversation |-> c, idea |-> i]]
  BY DEF Visit
<1>2. PICK i \in IdeaRead(c) :
         writer' = [writer EXCEPT
               ![w] = [kind |-> kind, pc |-> IF i = None THEN "open" ELSE "insert",
                       conversation |-> c, idea |-> i]]
  BY <1>0
<1> DEFINE pc == IF i = None THEN "open" ELSE "insert"
           v == [kind |-> kind, pc |-> pc, conversation |-> c, idea |-> i]
<1>3. i = None \/ (i \in DOMAIN ideas /\ ideas[i].conversation = c)
  BY DEF IdeaRead, IdeasOf
<1>4. c \in Nat /\ i \in Nat
  BY <1>3 DEF Typed, Tables, Conversation, None
<1>5. v \in Visits
  BY <1>4 DEF Visits
<1>6. Sits(v)
  BY <1>3 DEF Sits
<1>7. writer' = [writer EXCEPT ![w] = v] /\ writer'[w] = v
  BY <1>2 DEF Typed
<1>8. Sits(writer[w])'
  <2> HIDE DEF v
  <2> QED BY <1>1, <1>6, <1>7, SitsStays DEF Typed
<1> HIDE DEF v
<1> QED BY <1>1, <1>5, <1>7, <1>8, WriterGoes

LEMMA OpenIdeaGo ==
    ASSUME Typed, NEW w \in Writers, OpenIdea(w)
    PROVE  TablesGo /\ WritersGo
<1>1. /\ writer[w] \in Visits /\ writer[w].pc = "open" /\ Sits(writer[w])
      /\ UNCHANGED conversations
  BY DEF OpenIdea, Typed
<1>2. PICK c \in Conversation : c = writer[w].conversation
  BY <1>1 DEF Sits
<1>3. CASE ~Alive(c) /\ UNCHANGED <<ideas, versions>> /\ Ends(w)
  <2>1. TablesGo
    BY <1>1, <1>3, StillTables DEF Typed
  <2> QED BY <1>3, <2>1, WriterEnds
<1>4. CASE /\ Alive(c) /\ AddIdea(c, "failure", Unless(writer[w].idea))
           /\ writer' = [writer EXCEPT ![w].idea = Len(ideas) + 1, ![w].pc = "insert"]
  <2> DEFINE m == Len(ideas) + 1
             v == [writer[w] EXCEPT !.idea = m, !.pc = "insert"]
  <2>1. Unless(writer[w].idea) = "raced"
    BY <1>1 DEF Sits, Unless
  <2>2. AddIdea(c, "failure", "raced")
    BY <1>4, <2>1
  <2>3. /\ TablesGo /\ m \in DOMAIN ideas' /\ m \in Nat /\ ideas'[m].conversation = c
    BY <1>1, <1>4, <2>2, AddIdeaTables DEF Typed
  <2>4. writer' = [writer EXCEPT ![w] = v]
    BY <1>4, Zenon
  <2> HIDE DEF m
  <2>5. v \in Visits /\ v.pc = "insert" /\ v.idea = m /\ v.conversation = c
    BY <1>1, <1>2, <2>3 DEF Visits
  <2> HIDE DEF v
  <2>6. writer'[w] = v
    BY <2>4, <2>5 DEF Typed
  <2>8. c \in Conversation'
    BY <1>1 DEF Conversation
  <2>7. Sits(writer[w])'
    BY <2>3, <2>5, <2>6, <2>8 DEF Sits
  <2> QED BY <2>3, <2>4, <2>5, <2>7, WriterGoes
<1> QED BY <1>2, <1>3, <1>4 DEF OpenIdea

LEMMA InsertGo ==
    ASSUME Typed, NEW w \in Writers, Insert(w)
    PROVE  TablesGo /\ WritersGo
<1>1. /\ writer[w] \in Visits /\ writer[w].pc = "insert" /\ Sits(writer[w])
      /\ UNCHANGED conversations /\ Ends(w)
  BY DEF Insert, Typed
<1>2. PICK i \in DOMAIN ideas : /\ i = writer[w].idea
                                /\ ideas[i].conversation = writer[w].conversation
  BY <1>1 DEF Sits
<1>3. TablesGo
  <2>1. CASE UNCHANGED <<ideas, versions>>
    BY <1>1, <2>1, StillTables DEF Typed
  <2>2. CASE AddVersion(i, IF writer[w].kind = "chat" THEN "tool" ELSE "person",
                        Generating(ideas[i].conversation))
    <3> DEFINE by == IF writer[w].kind = "chat" THEN "tool" ELSE "person"
               early == Generating(ideas[i].conversation)
    <3>1. AddVersion(i, by, early) /\ by \in People
      BY <2>2 DEF People
    <3>2. early \in BOOLEAN
      BY DEF Generating
    <3>3. (\E r \in Requests : Generates(request[r], ideas[i].conversation)) => early = TRUE
      BY DEF Generating, Generates, Conv
    <3> HIDE DEF by, early
    <3>4. PICK e \in BOOLEAN : e = early
      BY <3>2
    <3>5. PICK b \in People : b = by
      BY <3>1
    <3>6. AddVersion(i, b, e)
      BY <3>1, <3>4, <3>5
    <3>7. (\E r \in Requests : Generates(request[r], ideas[i].conversation)) => e = TRUE
      BY <3>3, <3>4
    <3> QED BY <1>1, <3>6, <3>7, AddVersionTables DEF Typed
  <2> QED BY <1>2, <2>1, <2>2 DEF Insert
<1> QED BY <1>1, <1>3, WriterEnds

LEMMA DeleteGo ==
    ASSUME Typed, NEW c \in Conversation, Delete(c)
    PROVE  /\ TablesGo /\ Conversation' = Conversation /\ ~conversations'[c].lives
           /\ \A d \in Conversation : d # c => conversations'[d] = conversations[d]
<1>1. conversations' = [conversations EXCEPT ![c] = NoRow] /\ UNCHANGED <<ideas, versions>>
  BY DEF Delete, DeleteConversation
<1>2. ~NoRow.lives
  BY DEF NoRow
<1>3. PICK row \in Rows : row = NoRow
  BY NoRowTyped
<1> QED BY <1>1, <1>2, <1>3, RowTables DEF Typed

Severed(c) == \E r \in Requests : At(r, "forget") /\ Conv(r) = c
Marked(c) == [conversations[c] EXCEPT !.hurt = @ \cup {"cut"}]

LEMMA CrashRows ==
    ASSUME Typed, Crash
    PROVE  /\ TablesGo /\ Conversation' = Conversation
           /\ \A c \in Conversation :
                 /\ conversations'[c].lives = conversations[c].lives
                 /\ \/ /\ conversations'[c] = conversations[c]
                       /\ \A r \in Requests : ~(At(r, "forget") /\ Conv(r) = c)
                    \/ conversations'[c].hurt # {}
<1>1. /\ conversations' = [c \in Conversation |-> IF Severed(c) THEN Marked(c) ELSE conversations[c]]
      /\ UNCHANGED <<ideas, versions>>
  BY DEF Crash, Severed, Marked
<1>2. Conversation = 1 .. Len(conversations) /\ Len(conversations) \in Nat
  BY DEF Typed, Tables, Conversation
<1>3. \A c \in Conversation : /\ Marked(c) \in Rows /\ Marked(c).hurt # {}
                              /\ Marked(c).lives = conversations[c].lives
                              /\ Marked(c).origin = conversations[c].origin
  <2> TAKE c \in Conversation
  <2>1. conversations[c] \in Rows
    BY DEF Typed, Tables, Conversation
  <2> DEFINE h == conversations[c].hurt \cup {"cut"}
             s == [conversations[c] EXCEPT !.hurt = h]
  <2>2. Marked(c) = s
    BY Zenon DEF Marked
  <2>3. h \subseteq Hurts /\ h # {}
    BY <2>1 DEF Rows, Hurts
  <2> HIDE DEF h
  <2>4. s \in Rows /\ s.hurt = h /\ s.lives = conversations[c].lives
        /\ s.origin = conversations[c].origin
    BY <2>1, <2>3 DEF Rows
  <2> QED BY <2>2, <2>3, <2>4
<1>4. \A c \in Conversation : conversations[c] \in Rows
  BY DEF Typed, Tables, Conversation
<1>6. /\ conversations' \in Seq(Rows) /\ Conversation' = Conversation
      /\ \A c \in Conversation : conversations'[c] = IF Severed(c) THEN Marked(c) ELSE conversations[c]
  <2>1. conversations' \in [1 .. Len(conversations) -> Rows]
    BY <1>1, <1>2, <1>3, <1>4
  <2>2. conversations' \in Seq(Rows)
    BY <1>2, <2>1
  <2> QED BY <1>1, <2>2 DEF Conversation
<1>7. TablesGo
  BY <1>1, <1>3, <1>6, RowsTables DEF Typed
<1> QED BY <1>3, <1>6, <1>7 DEF Severed

\* What a step does to all requests.
RequestsAllGo ==
    /\ request' \in [Requests -> Calls]
    /\ \A r \in Requests :
          /\ Placed(request[r])'
          /\ \A c \in Conversation : Generates(request'[r], c) => Generates(request[r], c)
          /\ request'[r].pc = "over" =>
                \/ request'[r] = request[r]
                \/ \A c \in {request'[r].conversation} \ {None} :
                      ~Alive(c)' \/ IdeasOf(c)' # {}

LEMMA OneRequestGoes ==
    ASSUME Typed, TablesGo, NEW r \in Requests, RequestsGo(r)
    PROVE  RequestsAllGo
<1>1. \A s \in Requests : s # r => Placed(request[s])'
  BY PlacedStays DEF RequestsGo, Typed
<1> QED BY <1>1 DEF RequestsGo, RequestsAllGo

LEMMA RequestsStay ==
    ASSUME Typed, TablesGo, UNCHANGED request
    PROVE  RequestsAllGo
BY PlacedStays DEF RequestsAllGo, Typed

LEMMA CrashGo ==
    ASSUME Typed, Crash
    PROVE  TablesGo /\ RequestsAllGo /\ WritersGo
<1>1. TablesGo
  BY CrashRows
<1>2. WritersGo
  <2>1. writer' = [w \in Writers |-> IF writer[w].pc = "idle" THEN writer[w] ELSE Done]
    BY DEF Crash
  <2>2. \A w \in Writers : writer'[w] = writer[w] \/ writer'[w] = Done
    BY <2>1
  <2>3. Sits(Done)
    BY DoneTyped DEF Sits
  <2>4. \A w \in Writers : Sits(writer[w])'
    BY <1>1, <2>2, <2>3, SitsStays DEF Typed
  <2> QED BY <2>1, <2>4, DoneTyped DEF WritersGo, Typed
<1>3. RequestsAllGo
  <2>1. request' = [r \in Requests |->
           IF request[r].pc \in InHandler \cup InBackground
           THEN Ended(request[r], "broken") ELSE request[r]]
    BY DEF Crash
  <2>2. \A r \in Requests : /\ Ended(request[r], "broken") \in Calls
                            /\ Ended(request[r], "broken").pc = "broken"
                            /\ Placed(Ended(request[r], "broken"))
    <3> TAKE r \in Requests
    <3>1. PICK q : q = Ended(request[r], "broken")
      OBVIOUS
    <3>2. /\ q \in Calls /\ q.pc = "broken" /\ q.kind = "prompt" /\ q.listed = {}
          /\ q.seen = None
          /\ q.conversation = IF request[r].kind = "update" THEN None ELSE request[r].conversation
      BY <3>1, CallTyped, CallEnded DEF Endings
    <3>3. Placed(q)
      BY <3>2, CallTyped DEF Placed, InBackground
    <3> QED BY <3>1, <3>2, <3>3
  <2>3. request' \in [Requests -> Calls]
    BY <2>1, <2>2 DEF Typed
  <2>4. \A r \in Requests : \/ request'[r] = request[r]
                            \/ request'[r] = Ended(request[r], "broken")
    BY <2>1
  <2>5. \A r \in Requests : Placed(request[r])'
    BY <1>1, <2>2, <2>4, PlacedStays DEF Typed
  <2>6. \A r \in Requests : request'[r] = request[r] \/ request'[r].pc = "broken"
    BY <2>2, <2>4
  <2> QED BY <2>3, <2>5, <2>6 DEF RequestsAllGo, Generates, InBackground
<1> QED BY <1>1, <1>2, <1>3

LEMMA ImportGo ==
    ASSUME Typed, NEW r \in Requests,
           \/ Import(r) \/ SendManual(r) \/ SendSeed(r) \/ Resolve(r) \/ ImportStep(r)
           \/ DbFault(r) \/ Disconnect(r)
    PROVE  TablesGo /\ RequestsGo(r) /\ shared' \in 1 .. MaxShare
<1>1. CASE Import(r)
  BY <1>1, DecideGo DEF Import, At
<1>2. CASE Resolve(r)
  <2>1. request[r].listed \subseteq Conversation
    BY CallTyped DEF Placed
  <2> QED BY <1>2, <2>1, DecideGo DEF Resolve, At
<1>3. CASE ImportStep(r)
  BY <1>3, ParseGo, OpenGo, ReadBackGo, ReplaceGo, CopyGo, SummariseGo, KeepGo, StreamGo, SaveGo,
     RespondGo DEF ImportStep
<1> QED BY <1>1, <1>2, <1>3, SendGo, FaultGo

LEMMA StepGo ==
    ASSUME Typed, [Next]_vars
    PROVE  TablesGo /\ RequestsAllGo /\ WritersGo /\ shared' \in 1 .. MaxShare
<1>1. CASE UNCHANGED vars
  <2>1. TablesGo
    BY <1>1, StillTables DEF Typed
  <2> QED BY <1>1, <2>1, RequestsStay, WritersStay DEF Typed
<1>2. ASSUME NEW r \in Requests, UNCHANGED writer,
             \/ Import(r) \/ SendManual(r) \/ SendSeed(r) \/ Resolve(r) \/ ImportStep(r)
             \/ DbFault(r) \/ Disconnect(r)
      PROVE  TablesGo /\ RequestsAllGo /\ WritersGo /\ shared' \in 1 .. MaxShare
  BY <1>2, ImportGo, OneRequestGoes, WritersStay
<1>3. ASSUME NEW w \in Writers,
             \/ \E kind \in Tasks : Visit(w, kind)
             \/ OpenIdea(w) \/ Insert(w)
      PROVE  TablesGo /\ RequestsAllGo /\ WritersGo /\ shared' \in 1 .. MaxShare
  <2>1. UNCHANGED <<request, shared>>
    BY <1>3 DEF Visit, OpenIdea, Insert
  <2>2. TablesGo /\ WritersGo
    BY <1>3, VisitGo, OpenIdeaGo, InsertGo
  <2> QED BY <2>1, <2>2, RequestsStay DEF Typed
<1>4. ASSUME NEW c \in Conversation, Delete(c)
      PROVE  TablesGo /\ RequestsAllGo /\ WritersGo /\ shared' \in 1 .. MaxShare
  <2>1. UNCHANGED <<request, shared, writer>>
    BY <1>4 DEF Delete
  <2>2. TablesGo
    BY <1>4, DeleteGo
  <2> QED BY <2>1, <2>2, RequestsStay, WritersStay DEF Typed
<1>5. CASE Crash
  <2>1. shared' = shared
    BY <1>5 DEF Crash
  <2> QED BY <1>5, <2>1, CrashGo DEF Typed
<1> QED BY <1>1, <1>2, <1>3, <1>4, <1>5 DEF Next

LEMMA AlwaysTyped == Spec => []Typed
<1>1. Init => Typed
  <2> SUFFICES ASSUME Init PROVE Typed
    OBVIOUS
  <2>1. Tables
    BY DEF Init, TablesInit, Tables, Referenced
  <2>2. Idle \in Calls /\ Placed(Idle)
    <3>1. 0 \in 0 .. MaxShare
      BY Bound
    <3> QED BY <3>1 DEF Calls, Idle, Kinds, None, Placed, InBackground
  <2>3. request = [r \in Requests |-> Idle] /\ shared \in 1 .. MaxShare
    BY Bound DEF Init, ImportsInit
  <2> DEFINE v == [Done EXCEPT !.pc = "idle"]
  <2>4. v \in Visits /\ v.pc = "idle"
    BY DoneTyped DEF Visits
  <2>5. writer = [w \in Writers |-> v]
    BY DEF Init
  <2> HIDE DEF v
  <2>6. Sits(v)
    BY <2>4 DEF Sits
  <2> QED BY <2>1, <2>2, <2>3, <2>4, <2>5, <2>6 DEF Typed
<1>2. Typed /\ [Next]_vars => Typed'
  <2> SUFFICES ASSUME Typed, [Next]_vars PROVE Typed'
    OBVIOUS
  <2>1. TablesGo /\ RequestsAllGo /\ WritersGo /\ shared' \in 1 .. MaxShare
    BY StepGo
  <2>2. Tables'
    BY <2>1 DEF TablesGo
  <2> QED BY <2>1, <2>2 DEF RequestsAllGo, WritersGo, Typed
<1> QED BY <1>1, <1>2, PTL DEF Spec

-----------------------------------------------------------------------------
(* The rows that a conversation of the page is made of.                     *)

(* The tables and the requests hold what the page takes them to hold.       *)
THEOREM PageTypeCorrect == Spec => []TypeOK
<1>1. Typed => TypeOK
  <2> SUFFICES ASSUME Typed PROVE TypeOK
    OBVIOUS
  <2>1. \A c \in Conversation : conversations[c] \in Rows
    BY DEF Typed, Tables, Conversation
  <2>2. \A i \in DOMAIN ideas : ideas[i] \in
           [conversation : Conversation, active : DOMAIN versions, why : Reasons]
    <3> TAKE i \in DOMAIN ideas
    <3>1. ideas[i] \in IdeaRows /\ ideas[i].conversation \in Conversation
          /\ ideas[i].active \in DOMAIN versions
      BY DEF Typed, Tables, Referenced
    <3> QED BY <3>1 DEF IdeaRows
  <2>3. \A v \in DOMAIN versions : versions[v] \in
           [idea : DOMAIN ideas, by : {"model", "failure", "tool", "person"}, early : BOOLEAN]
    <3> TAKE v \in DOMAIN versions
    <3>1. versions[v] \in VersionRows /\ versions[v].idea \in DOMAIN ideas
      BY DEF Typed, Tables, Referenced
    <3> QED BY <3>1 DEF VersionRows, People
  <2> DEFINE Requested == [kind : Kinds,
          pc : {"idle", "conflict"} \cup InHandler \cup InBackground \cup Endings,
          conversation : {None} \cup Conversation, listed : SUBSET Conversation,
          share : 0 .. MaxShare, summary : 0 .. MaxShare, seen : {None} \cup DOMAIN versions,
          raised : BOOLEAN]
  <2>4. \A r \in Requests : request[r] \in Requested
    <3> TAKE r \in Requests
    <3>1. /\ request[r] \in Calls /\ request[r].conversation \in {None} \cup Conversation
          /\ request[r].seen \in {None} \cup DOMAIN versions
          /\ request[r].listed \subseteq Conversation
      BY CallTyped DEF Placed
    <3> QED BY <3>1 DEF Calls
  <2> HIDE DEF Requested
  <2>5. request \in [Requests -> Requested]
    BY <2>4 DEF Typed
  <2> QED BY <2>1, <2>2, <2>3, <2>5 DEF TypeOK, Rows, Origins, Hurts, Reasons, Requested
<1> QED BY <1>1, AlwaysTyped, PTL

(* A conversation whose request is over has an idea to show, if it is still *)
(* there (conversations.py, "Create failure idea so there's always an       *)
(* idea").                                                                  *)
THEOREM EndedRequestsLeaveAnIdea == Spec => []EndedMeansIdea
<1>1. Init => EndedMeansIdea
  BY DEF Init, ImportsInit, Idle, EndedMeansIdea, At
<1>2. Typed /\ EndedMeansIdea /\ [Next]_vars => EndedMeansIdea'
  <2> SUFFICES ASSUME Typed, EndedMeansIdea, [Next]_vars,
                      NEW r \in Requests, At(r, "over")', Conv(r)' # None
               PROVE  ~Alive(Conv(r))' \/ IdeasOf(Conv(r))' # {}
    BY DEF EndedMeansIdea
  <2>1. TablesGo /\ RequestsAllGo
    BY StepGo
  <2>2. PICK c : c = request'[r].conversation
    OBVIOUS
  <2>3. c # None /\ request'[r].pc = "over"
    BY <2>2 DEF Conv, At
  <2>4. CASE ~Alive(c)' \/ IdeasOf(c)' # {}
    BY <2>2, <2>4 DEF Conv, Alive, IdeasOf
  <2>5. CASE request'[r] = request[r]
    <3>1. c \in Conversation /\ (~Alive(c) \/ IdeasOf(c) # {})
      BY <2>2, <2>3, <2>5, CallTyped DEF EndedMeansIdea, At, Conv, Placed
    <3>2. conversations'[c].lives => conversations[c].lives
      BY <2>1, <3>1 DEF TablesGo
    <3>3. \A i \in DOMAIN ideas : i \in DOMAIN ideas' /\ ideas'[i].conversation = ideas[i].conversation
      BY <2>1 DEF TablesGo
    <3>4. ~Alive(c)' \/ IdeasOf(c)' # {}
      BY <3>1, <3>2, <3>3 DEF Alive, IdeasOf
    <3> QED BY <2>4, <3>4
  <2> QED BY <2>1, <2>2, <2>3, <2>4, <2>5 DEF RequestsAllGo
<1> QED BY <1>1, <1>2, AlwaysTyped, PTL DEF Spec

(* Nobody gets a second conversation for one URL without having asked for   *)
(* it, but for two imports that had both listed none                        *)
(* (_determine_import_decision, conversations.py).                          *)
THEOREM DuplicatesAreExplained == Spec => []DuplicatesHaveACause
<1>1. Init => DuplicatesHaveACause
  BY DEF Init, TablesInit, DuplicatesHaveACause, Conversation
<1>2. Typed /\ DuplicatesHaveACause /\ [Next]_vars => DuplicatesHaveACause'
  <2> SUFFICES ASSUME Typed, DuplicatesHaveACause, [Next]_vars,
                      NEW c \in Conversation', NEW d \in Conversation', c < d,
                      Imported(c)', Imported(d)', Alive(c)', Alive(d)'
               PROVE  conversations'[d].origin \in {"chosen", "raced"}
    BY DEF DuplicatesHaveACause
  <2>1. TablesGo
    BY StepGo
  <2>2. Conversation = 1 .. Len(conversations) /\ Len(conversations) \in Nat
    BY DEF Typed, Tables, Conversation
  <2>3. \A e \in Conversation' : e \in Conversation \/ e = Len(conversations) + 1
    BY <2>1 DEF TablesGo
  <2>4. c \in Conversation
    BY <2>2, <2>3
  <2>5. Alive(c) /\ Imported(c)
    BY <2>1, <2>4 DEF TablesGo, Alive, Imported
  <2>6. CASE d \in Conversation
    <3>1. Alive(d) /\ Imported(d) /\ conversations'[d].origin = conversations[d].origin
      BY <2>1, <2>6 DEF TablesGo, Alive, Imported
    <3> QED BY <2>4, <2>5, <2>6, <3>1 DEF DuplicatesHaveACause
  <2>7. CASE d \notin Conversation
    <3>1. Matching # {}
      BY <2>4, <2>5 DEF Matching
    <3>2. conversations'[d].origin \in {"chosen", "raced", "manual", "seed"}
      BY <2>1, <2>7, <3>1 DEF TablesGo
    <3> QED BY <3>2 DEF Imported
  <2> QED BY <2>6, <2>7
<1> QED BY <1>1, <1>2, AlwaysTyped, PTL DEF Spec

(* An idea that is found is kept: a second one beside it needs two requests *)
(* that had both read none, or a generation that failed.                    *)
THEOREM SecondIdeasAreExplained == Spec => []SecondIdeaHasACause
<1>1. Init => SecondIdeaHasACause
  BY DEF Init, TablesInit, SecondIdeaHasACause
<1>2. Typed /\ SecondIdeaHasACause /\ [Next]_vars => SecondIdeaHasACause'
  <2> SUFFICES ASSUME Typed, SecondIdeaHasACause, [Next]_vars,
                      NEW i \in DOMAIN ideas', NEW j \in DOMAIN ideas', i < j,
                      ideas'[i].conversation = ideas'[j].conversation
               PROVE  ideas'[j].why \in {"raced", "relapsed"}
    BY DEF SecondIdeaHasACause
  <2>1. TablesGo
    BY StepGo
  <2>2. DOMAIN ideas = 1 .. Len(ideas) /\ Len(ideas) \in Nat
    BY DEF Typed, Tables
  <2>3. \A k \in DOMAIN ideas' : k \in DOMAIN ideas \/ k = Len(ideas) + 1
    BY <2>1 DEF TablesGo
  <2>4. i \in DOMAIN ideas
    BY <2>2, <2>3
  <2>5. ideas'[i].conversation = ideas[i].conversation
    BY <2>1, <2>4 DEF TablesGo
  <2>6. CASE j \in DOMAIN ideas
    <3>1. ideas'[j].conversation = ideas[j].conversation /\ ideas'[j].why = ideas[j].why
      BY <2>1, <2>6 DEF TablesGo
    <3> QED BY <2>4, <2>5, <2>6, <3>1 DEF SecondIdeaHasACause
  <2>7. CASE j \notin DOMAIN ideas
    BY <2>1, <2>4, <2>5, <2>7 DEF TablesGo
  <2> QED BY <2>6, <2>7
<1> QED BY <1>1, <1>2, AlwaysTyped, PTL DEF Spec

\* A version somebody has written for a conversation whose idea is still to be
\* generated is early: nothing was written for it before the generation had begun.
Early ==
    \A r \in Requests, v \in DOMAIN versions :
        Generates(request[r], Owner(v)) /\ versions[v].by \in People => versions[v].early

LEMMA AlwaysEarly == Spec => []Early
<1>1. Init => Early
  BY DEF Init, TablesInit, Early
<1>2. Typed /\ Early /\ [Next]_vars => Early'
  <2> SUFFICES ASSUME Typed, Early, [Next]_vars,
                      NEW r \in Requests, NEW v \in DOMAIN versions',
                      Generates(request'[r], ideas'[versions'[v].idea].conversation),
                      versions'[v].by \in People
               PROVE  versions'[v].early
    BY DEF Early, Generates, Owner
  <2>1. TablesGo /\ RequestsAllGo
    BY StepGo
  <2>2. CASE v \in DOMAIN versions
    <3>1. /\ versions'[v].idea = versions[v].idea /\ versions'[v].early = versions[v].early
          /\ versions'[v] = versions[v] \/ versions'[v].by = "model"
      BY <2>1, <2>2 DEF TablesGo
    <3>2. versions'[v] = versions[v]
      BY <3>1 DEF People
    <3>3. versions[v].idea \in DOMAIN ideas /\ Owner(v) \in Conversation
      BY <2>2 DEF Typed, Tables, Referenced, Owner
    <3>4. ideas'[versions'[v].idea].conversation = Owner(v)
      BY <2>1, <3>1, <3>3 DEF TablesGo, Owner
    <3>5. Generates(request[r], Owner(v))
      BY <2>1, <3>3, <3>4 DEF RequestsAllGo
    <3> QED BY <2>2, <3>2, <3>5 DEF Early
  <2>3. CASE v \notin DOMAIN versions
    <3>1. PICK c \in Conversation :
             /\ ideas'[versions'[v].idea].conversation = c
             /\ \/ versions'[v].by \notin People \/ versions'[v].early
                \/ \A s \in Requests : ~Generates(request[s], c)
      BY <2>1, <2>3 DEF TablesGo
    <3>2. Generates(request[r], c)
      BY <2>1, <3>1 DEF RequestsAllGo
    <3> QED BY <3>1, <3>2
  <2> QED BY <2>2, <2>3
<1> QED BY <1>1, <1>2, AlwaysTyped, PTL DEF Spec

(* What somebody wrote stays in the history as written: no generation,      *)
(* failure or later edit touches it, but the generation it was written      *)
(* beside.                                                                  *)
THEOREM EditsStayAsWritten == Spec => EditsSurvive
<1>1. Typed /\ Early /\ [Next]_vars =>
         [\A v \in DOMAIN versions :
             (versions[v].by \in {"tool", "person"} /\ ~versions[v].early)
                 => versions'[v] = versions[v]]_vars
  <2> SUFFICES ASSUME Typed, Early, [Next]_vars, NEW v \in DOMAIN versions,
                      versions[v].by \in {"tool", "person"}, ~versions[v].early
               PROVE  versions'[v] = versions[v]
    OBVIOUS
  <2>1. \/ versions'[v] = versions[v]
        \/ \E r \in Requests : Generates(request[r], Owner(v))
    BY StepGo DEF TablesGo
  <2> QED BY <2>1 DEF Early, People
<1> QED BY <1>1, AlwaysTyped, AlwaysEarly, PTL DEF Spec, EditsSurvive

-----------------------------------------------------------------------------
(* Summaries.                                                               *)

Excused(c) == conversations[c].hurt # {} \/ ~Alive(c)
Matches(c) ==
    \A k \in DOMAIN conversations[c].summaries :
        conversations[c].summaries[k] = conversations[c].chat

\* Only an update between its two writes leaves a summary of another chat in view.
Follows == \A c \in Conversation : Excused(c) \/ Severed(c) \/ Matches(c)

\* What is about to be kept is a summary of what the request has read.
OfShare == \A r \in Requests :
    At(r, "keep") => Excused(Conv(r)) \/ request[r].summary = request[r].share

\* A step that writes no chat and no summary where it does not also leave its mark.
LEMMA SummariesKept ==
    ASSUME Typed, TablesGo, Follows, OfShare,
           \A c \in Conversation :
              \/ Excused(c)'
              \/ /\ conversations'[c] = conversations[c]
                 /\ \A r \in Requests : At(r, "forget") /\ Conv(r) = c => request'[r] = request[r],
           \A c \in Conversation' : c \notin Conversation => Matches(c)',
           \A r \in Requests : request'[r] = request[r] \/ request'[r].pc # "keep"
    PROVE  Follows' /\ OfShare'
<1>1. ASSUME NEW c \in Conversation'
      PROVE  Excused(c)' \/ Severed(c)' \/ Matches(c)'
  <2>1. CASE c \in Conversation /\ conversations'[c] = conversations[c]
    <3>1. Excused(c) => Excused(c)'
      BY <2>1 DEF Excused, Alive
    <3>2. Matches(c) => Matches(c)'
      BY <2>1 DEF Matches
    <3>3. Severed(c) => Severed(c)' \/ Excused(c)'
      BY <2>1 DEF Severed, At, Conv
    <3> QED BY <2>1, <3>1, <3>2, <3>3 DEF Follows
  <2> QED BY <2>1
<1>2. ASSUME NEW r \in Requests, At(r, "keep")'
      PROVE  Excused(Conv(r))' \/ (request[r].summary = request[r].share)'
  <2>1. request'[r] = request[r] /\ request[r].pc = "keep"
    BY <1>2 DEF At
  <2>2. PICK c \in Conversation : c = Conv(r)
    BY <2>1, CallTyped DEF Placed, Conv, InBackground
  <2>3. CASE conversations'[c] = conversations[c]
    BY <2>1, <2>2, <2>3 DEF OfShare, Excused, Alive, At, Conv
  <2>4. CASE Excused(c)'
    BY <2>1, <2>2, <2>4 DEF Conv
  <2> QED BY <2>3, <2>4
<1> QED BY <1>1, <1>2 DEF Follows, OfShare

\* A request that goes elsewhere, and leaves the conversations alone.
LEMMA SummariesStay ==
    ASSUME Typed, TablesGo, Follows, OfShare, UNCHANGED conversations,
           \A r \in Requests : \/ request'[r] = request[r]
                               \/ request[r].pc # "forget" /\ request'[r].pc # "keep"
    PROVE  Follows' /\ OfShare'
<1>1. Conversation' = Conversation
  BY DEF Conversation
<1> QED BY <1>1, SummariesKept DEF At

LEMMA GoesPlace ==
    ASSUME Typed, NEW r \in Requests, NEW pc, Goes(r, pc)
    PROVE  /\ \A s \in Requests : s # r => request'[s] = request[s]
           /\ request'[r].pc = pc
           /\ pc \notin Endings => request'[r].conversation = request[r].conversation
<1>1. CASE pc \in Endings
  <2>1. request' = [request EXCEPT ![r] = Ended(request[r], pc)]
    BY <1>1, Zenon DEF Goes
  <2>2. Ended(request[r], pc).pc = pc
    BY <1>1, CallTyped, CallEnded
  <2> QED BY <1>1, <2>1, <2>2 DEF Typed
<1>2. CASE pc \notin Endings
  <2> DEFINE q == [request[r] EXCEPT !.pc = pc]
  <2>1. request' = [request EXCEPT ![r] = q]
    BY <1>2, Zenon DEF Goes
  <2>2. q.pc = pc /\ q.conversation = request[r].conversation
    BY CallTyped DEF Calls
  <2> HIDE DEF q
  <2> QED BY <1>2, <2>1, <2>2 DEF Typed
<1> QED BY <1>1, <1>2

\* Where the requests go that do not touch a summary.
LEMMA ElseWhere ==
    ASSUME Typed, NEW r \in Requests,
           \/ Import(r) \/ SendManual(r) \/ SendSeed(r) \/ Resolve(r) \/ Parse(r) \/ ParseFails(r)
           \/ ReadBack(r) \/ CheckCopy(r) \/ Copy(r) \/ Stream(r) \/ Save(r) \/ Respond(r) \/ Fail(r)
    PROVE  /\ UNCHANGED conversations
           /\ \A s \in Requests : s # r => request'[s] = request[s]
           /\ request[r].pc # "forget" /\ request'[r].pc # "keep"
<1>1. request \in [Requests -> Calls] /\ request[r] \in Calls
  BY DEF Typed
<1>2. ASSUME NEW pc, pc # "keep", Goes(r, pc)
      PROVE  (\A s \in Requests : s # r => request'[s] = request[s]) /\ request'[r].pc # "keep"
  BY <1>2, GoesPlace
<1>3. ASSUME NEW kind, NEW target, Decide(r, kind, target), request[r].pc \in {"idle", "conflict"}
      PROVE  /\ UNCHANGED conversations
             /\ \A s \in Requests : s # r => request'[s] = request[s]
             /\ request'[r].pc # "keep"
  <2>1. UNCHANGED conversations
    BY <1>3 DEF Decide
  <2>2. CASE Goes(r, "over")
    BY <1>2, <2>1, <2>2
  <2>3. CASE request' = [request EXCEPT ![r].pc = "conflict", ![r].listed = Matching]
    BY <1>1, <2>1, <2>3 DEF Calls
  <2>4. CASE Proceed(r, kind, target)
    BY <1>1, <2>1, <2>4 DEF Proceed, Calls
  <2>5. CASE kind = "prompt" /\ Matching # {}
    BY <1>3, <2>3, <2>5 DEF Decide
  <2>6. CASE kind = "update" /\ target \notin Matching
    BY <1>3, <2>2, <2>6 DEF Decide
  <2>7. CASE ~(kind = "prompt" /\ Matching # {}) /\ ~(kind = "update" /\ target \notin Matching)
    BY <1>3, <2>4, <2>7 DEF Decide
  <2> QED BY <2>5, <2>6, <2>7
<1>4. CASE Import(r) \/ Resolve(r)
  BY <1>3, <1>4 DEF Import, Resolve, At
<1>5. CASE SendManual(r) \/ SendSeed(r) \/ Parse(r)
  BY <1>1, <1>5 DEF SendManual, SendSeed, Parse, At, Calls
<1>6. CASE ParseFails(r)
  BY <1>2, <1>6 DEF ParseFails, At
<1>7. CASE ReadBack(r) \/ CheckCopy(r)
  BY <1>2, <1>7 DEF ReadBack, CheckCopy, At
<1>8. CASE Copy(r) \/ Fail(r)
  BY <1>2, <1>8 DEF Copy, Fail, At
<1>9. CASE Stream(r)
  <2>1. CASE Goes(r, "failing")
    BY <1>2, <1>9, <2>1 DEF Stream, At
  <2>2. ASSUME NEW raised, NEW v,
               request' = [request EXCEPT ![r].pc = "save", ![r].seen = v, ![r].raised = raised]
        PROVE  request'[r].pc # "keep" /\ \A s \in Requests : s # r => request'[s] = request[s]
    BY <1>1, <2>2 DEF Calls
  <2> QED BY <1>9, <2>1, <2>2 DEF Stream, At
<1>10. CASE Save(r)
  BY <1>1, <1>10 DEF Save, At, Calls
<1>11. CASE Respond(r)
  <2>1. Excepted(request[r]) # "keep"
    BY DEF Excepted
  <2> QED BY <1>2, <1>11, <2>1 DEF Respond, At
<1> QED BY <1>4, <1>5, <1>6, <1>7, <1>8, <1>9, <1>10, <1>11

\* The chat is replaced, and the request is to forget the summary next.
LEMMA ReplaceSummaries ==
    ASSUME Typed, Follows, OfShare, NEW r \in Requests, Replace(r)
    PROVE  Follows' /\ OfShare'
<1>1. /\ request[r] \in Calls /\ Placed(request[r]) /\ request[r].pc = "replace"
  BY CallTyped DEF Replace, At
<1>2. PICK c \in Conversation : c = Conv(r)
  BY <1>1 DEF Placed, Conv
<1>3. /\ \A s \in Requests : s # r => request'[s] = request[s]
      /\ request'[r].pc = "forget" /\ request'[r].conversation = c
  <2>1. Goes(r, "forget")
    BY DEF Replace
  <2> QED BY <1>2, <2>1, GoesPlace DEF Endings, Conv
<1>4. /\ Conversation' = Conversation
      /\ \A d \in Conversation : d # c => conversations'[d] = conversations[d]
      /\ conversations'[c].hurt = conversations[c].hurt
      /\ conversations'[c].lives = conversations[c].lives
  <2> DEFINE row == [conversations[c] EXCEPT !.chat = request[r].share]
  <2>1. conversations' = [conversations EXCEPT ![c] = row]
    BY <1>2, Zenon DEF Replace
  <2>2. conversations[c] \in Rows
    BY DEF Typed, Tables, Conversation
  <2>3. row.hurt = conversations[c].hurt /\ row.lives = conversations[c].lives
    BY <2>2 DEF Rows
  <2> HIDE DEF row
  <2> QED BY <2>1, <2>3 DEF Typed, Tables, Conversation
<1>5. Severed(c)'
  BY <1>3 DEF Severed, At, Conv
<1>6. \A d \in Conversation : /\ Excused(d) => Excused(d)'
                              /\ d # c /\ Matches(d) => Matches(d)'
                              /\ d # c /\ Severed(d) => Severed(d)'
  BY <1>1, <1>3, <1>4 DEF Excused, Alive, Matches, Severed, At, Conv
<1>7. Follows'
  BY <1>4, <1>5, <1>6 DEF Follows
<1>8. ASSUME NEW s \in Requests, At(s, "keep")'
      PROVE  Excused(Conv(s))' \/ (request[s].summary = request[s].share)'
  <2>1. request'[s] = request[s] /\ request[s].pc = "keep"
    BY <1>3, <1>8 DEF At
  <2>2. PICK d \in Conversation : d = Conv(s)
    BY <2>1, CallTyped DEF Placed, Conv, InBackground
  <2> QED BY <1>6, <2>1, <2>2 DEF OfShare, At, Conv
<1> QED BY <1>7, <1>8 DEF OfShare

LEMMA ForgetSummaries ==
    ASSUME Typed, Follows, OfShare, NEW r \in Requests, Forget(r)
    PROVE  Follows' /\ OfShare'
<1>1. /\ request[r] \in Calls /\ Placed(request[r]) /\ request[r].pc = "forget"
  BY CallTyped DEF Forget, At
<1>2. PICK c \in Conversation : c = Conv(r)
  BY <1>1 DEF Placed, Conv
<1>3. /\ \A s \in Requests : s # r => request'[s] = request[s]
      /\ request'[r].pc = "summarise"
  <2>1. Goes(r, "summarise")
    BY DEF Forget
  <2> QED BY <2>1, GoesPlace
<1>4. /\ Conversation' = Conversation
      /\ \A d \in Conversation : d # c => conversations'[d] = conversations[d]
      /\ conversations'[c].hurt = conversations[c].hurt
      /\ conversations'[c].lives = conversations[c].lives
      /\ Matches(c)'
  <2> DEFINE none == <<>>
             row == [conversations[c] EXCEPT !.summaries = none]
  <2>1. conversations' = [conversations EXCEPT ![c] = row]
    BY <1>2, Zenon DEF Forget
  <2>2. conversations[c] \in Rows
    BY DEF Typed, Tables, Conversation
  <2>4. DOMAIN none = {}
    OBVIOUS
  <2> HIDE DEF none
  <2>3. row.hurt = conversations[c].hurt /\ row.lives = conversations[c].lives /\ row.summaries = none
    BY <2>2 DEF Rows
  <2> HIDE DEF row
  <2> QED BY <2>1, <2>3, <2>4 DEF Typed, Tables, Conversation, Matches
<1>6. \A d \in Conversation : /\ Excused(d) => Excused(d)'
                              /\ d # c /\ Matches(d) => Matches(d)'
                              /\ d # c /\ Severed(d) => Severed(d)'
  <2>1. \A d \in Conversation : d # c /\ Severed(d) => Severed(d)'
    BY <1>2, <1>3 DEF Severed, At, Conv
  <2> QED BY <1>4, <2>1 DEF Excused, Alive, Matches
<1>7. Follows'
  BY <1>4, <1>6 DEF Follows
<1>8. ASSUME NEW s \in Requests, At(s, "keep")'
      PROVE  Excused(Conv(s))' \/ (request[s].summary = request[s].share)'
  <2>1. request'[s] = request[s] /\ request[s].pc = "keep"
    BY <1>3, <1>8 DEF At
  <2>2. PICK d \in Conversation : d = Conv(s)
    BY <2>1, CallTyped DEF Placed, Conv, InBackground
  <2> QED BY <1>6, <2>1, <2>2 DEF OfShare, At, Conv
<1> QED BY <1>7, <1>8 DEF OfShare

LEMMA SummariseSummaries ==
    ASSUME Typed, Follows, OfShare, NEW r \in Requests, Summarise(r)
    PROVE  Follows' /\ OfShare'
<1>1. /\ request[r] \in Calls /\ Placed(request[r]) /\ request[r].pc = "summarise"
  BY CallTyped DEF Summarise, At
<1>2. PICK c \in Conversation : c = Conv(r)
  BY <1>1 DEF Placed, Conv, InBackground
<1>3. PICK summary \in 0 .. MaxShare :
         /\ request' = [request EXCEPT ![r].summary = summary,
               ![r].pc = IF summary = 0 THEN AfterSummary(request[r]) ELSE "keep"]
         /\ Conversation' = Conversation
         /\ conversations'[c].chat = conversations[c].chat
         /\ conversations'[c].summaries = conversations[c].summaries
         /\ conversations'[c].lives = conversations[c].lives
         /\ conversations[c].hurt \subseteq conversations'[c].hurt
         /\ summary \in {0, request[r].share} \/ conversations'[c].hurt # {}
         /\ \A d \in Conversation : d # c => conversations'[d] = conversations[d]
  BY <1>2, SummariseRow
<1>4. /\ \A s \in Requests : s # r => request'[s] = request[s]
      /\ request'[r].conversation = c /\ request'[r].share = request[r].share
      /\ request'[r].summary = summary
      /\ request'[r].pc = "keep" => summary # 0
  <2> DEFINE pc == IF summary = 0 THEN AfterSummary(request[r]) ELSE "keep"
             q == [request[r] EXCEPT !.summary = summary, !.pc = pc]
  <2>1. request' = [request EXCEPT ![r] = q]
    BY <1>3, Zenon
  <2>2. pc = "keep" => summary # 0
    BY DEF AfterSummary
  <2> HIDE DEF pc
  <2>3. /\ q.conversation = c /\ q.share = request[r].share /\ q.summary = summary /\ q.pc = pc
    BY <1>1, <1>2 DEF Calls, Conv
  <2> HIDE DEF q
  <2> QED BY <2>1, <2>2, <2>3 DEF Typed
<1>6. \A d \in Conversation : /\ Excused(d) => Excused(d)'
                              /\ Matches(d) => Matches(d)'
                              /\ Severed(d) => Severed(d)'
  <2>1. \A d \in Conversation : Severed(d) => Severed(d)'
    BY <1>1, <1>4 DEF Severed, At, Conv
  <2> QED BY <1>3, <2>1 DEF Excused, Alive, Matches
<1>7. Follows'
  BY <1>3, <1>6 DEF Follows
<1>8. ASSUME NEW s \in Requests, At(s, "keep")'
      PROVE  Excused(Conv(s))' \/ (request[s].summary = request[s].share)'
  <2>1. CASE s = r
    <3>1. conversations'[c].hurt # {} \/ request'[r].summary = request'[r].share
      BY <1>3, <1>4, <1>8, <2>1 DEF At
    <3> QED BY <1>4, <2>1, <3>1 DEF Conv, Excused
  <2>2. CASE s # r
    <3>1. request'[s] = request[s] /\ request[s].pc = "keep"
      BY <1>4, <1>8, <2>2 DEF At
    <3>2. PICK d \in Conversation : d = Conv(s)
      BY <3>1, CallTyped DEF Placed, Conv, InBackground
    <3> QED BY <1>6, <3>1, <3>2 DEF OfShare, At, Conv
  <2> QED BY <2>1, <2>2
<1> QED BY <1>7, <1>8 DEF OfShare

LEMMA KeepSummaries ==
    ASSUME Typed, Follows, OfShare, NEW r \in Requests, Keep(r)
    PROVE  Follows' /\ OfShare'
<1>1. /\ request[r] \in Calls /\ Placed(request[r]) /\ request[r].pc = "keep"
  BY CallTyped DEF Keep, At
<1>2. PICK c \in Conversation : c = Conv(r)
  BY <1>1 DEF Placed, Conv, InBackground
<1>3. /\ Conversation' = Conversation
      /\ conversations'[c].chat = conversations[c].chat
      /\ conversations'[c].lives = conversations[c].lives
      /\ conversations[c].hurt \subseteq conversations'[c].hurt
      /\ conversations[c].chat = request[r].share \/ conversations'[c].hurt # {}
      /\ conversations'[c].lives =>
            conversations'[c].summaries = Append(conversations[c].summaries, request[r].summary)
      /\ \A d \in Conversation : d # c => conversations'[d] = conversations[d]
  BY <1>2, KeepRow
<1>4. /\ \A s \in Requests : s # r => request'[s] = request[s]
      /\ request'[r].pc # "keep"
  <2> DEFINE pc == AfterSummary(request[r])
             q == [request[r] EXCEPT !.pc = pc, !.summary = 0, !.share = 0]
  <2>1. request' = [request EXCEPT ![r] = q]
    BY Zenon DEF Keep
  <2>2. pc # "keep"
    BY DEF AfterSummary
  <2> HIDE DEF pc
  <2>3. q.pc = pc
    BY <1>1 DEF Calls
  <2> HIDE DEF q
  <2> QED BY <2>1, <2>2, <2>3 DEF Typed
<1>5. \A d \in Conversation : /\ Excused(d) => Excused(d)'
                              /\ Severed(d) => Severed(d)'
                              /\ d # c /\ Matches(d) => Matches(d)'
  <2>1. \A d \in Conversation : Severed(d) => Severed(d)'
    BY <1>1, <1>4 DEF Severed, At, Conv
  <2> QED BY <1>3, <2>1 DEF Excused, Alive, Matches
<1>6. Excused(c)' \/ Severed(c)' \/ Matches(c)'
  <2> SUFFICES ASSUME ~Excused(c)', Matches(c)
               PROVE  Matches(c)'
    BY <1>5 DEF Follows
  <2>1. /\ ~Excused(c) /\ conversations'[c].hurt = {} /\ conversations'[c].lives
    BY <1>5 DEF Excused, Alive
  <2>2. request[r].summary = conversations'[c].chat
    BY <1>1, <1>2, <1>3, <2>1 DEF OfShare, At
  <2>3. conversations'[c].summaries = Append(conversations[c].summaries, request[r].summary)
    BY <1>3, <2>1
  <2>4. conversations[c].summaries \in Seq(1 .. MaxShare)
    <3>1. conversations[c] \in Rows
      BY DEF Typed, Tables, Conversation
    <3> QED BY <3>1 DEF Rows
  <2>5. request[r].summary \in 1 .. MaxShare
    BY <1>1, Bound DEF Calls, Placed
  <2> QED BY <1>3, <2>2, <2>3, <2>4, <2>5, SeqAppended DEF Matches
<1>7. Follows'
  BY <1>3, <1>5, <1>6 DEF Follows
<1>8. ASSUME NEW s \in Requests, At(s, "keep")'
      PROVE  Excused(Conv(s))' \/ (request[s].summary = request[s].share)'
  <2>1. request'[s] = request[s] /\ request[s].pc = "keep"
    BY <1>4, <1>8 DEF At
  <2>2. PICK d \in Conversation : d = Conv(s)
    BY <2>1, CallTyped DEF Placed, Conv, InBackground
  <2> QED BY <1>5, <2>1, <2>2 DEF OfShare, At, Conv
<1> QED BY <1>7, <1>8 DEF OfShare

LEMMA OpenSummaries ==
    ASSUME Typed, Follows, OfShare, NEW r \in Requests, Open(r)
    PROVE  Follows' /\ OfShare'
<1> DEFINE n == Len(conversations) + 1
           o == Origin(request[r])
           pc == IF request[r].kind = "seed" THEN "copy" ELSE "read"
           q == [request[r] EXCEPT !.conversation = n, !.listed = {}, !.pc = pc]
<1>1. /\ request[r] \in Calls /\ Placed(request[r]) /\ request[r].pc = "open"
  BY CallTyped DEF Open, At
<1>2. o \in Origins /\ (o \in {"chosen", "raced", "manual", "seed"} \/ Matching = {})
  BY <1>1 DEF Origin, Placed, Origins
<1>3. AddConversation(o, request[r].share) /\ UNCHANGED <<ideas, versions, shared>>
  BY DEF Open
<1>4. request[r].share \in 0 .. MaxShare
  BY <1>1 DEF Calls
<1> HIDE DEF o
<1>5. /\ TablesGo /\ Conversation' = Conversation \cup {n} /\ n \notin Conversation
      /\ conversations'[n].summaries = <<>>
      /\ \A c \in Conversation : conversations'[c] = conversations[c]
  BY <1>2, <1>3, <1>4, OpenTables DEF Typed
<1>6. request' = [request EXCEPT ![r] = q]
  BY Zenon DEF Open
<1> HIDE DEF n
<1>7. q.pc = pc
  BY <1>1 DEF Calls
<1> HIDE DEF q
<1>8. /\ request'[r].pc # "keep" /\ request[r].pc # "forget"
      /\ \A s \in Requests : s # r => request'[s] = request[s]
  BY <1>1, <1>6, <1>7 DEF Typed
<1>9. PICK d : d = n
  OBVIOUS
<1>10. \A c \in Conversation' : c \notin Conversation => Matches(c)'
  <2>1. PICK none : none = <<>> /\ DOMAIN none = {}
    OBVIOUS
  <2>2. conversations'[d].summaries = none
    BY <1>5, <1>9, <2>1
  <2> QED BY <1>5, <1>9, <2>1, <2>2 DEF Matches
<1>11. \A s \in Requests : request'[s] = request[s] \/ request'[s].pc # "keep"
  BY <1>8
<1>12. \A c \in Conversation :
          /\ conversations'[c] = conversations[c]
          /\ \A s \in Requests : At(s, "forget") /\ Conv(s) = c => request'[s] = request[s]
  BY <1>5, <1>8 DEF At
<1> QED BY <1>5, <1>10, <1>11, <1>12, SummariesKept

LEMMA FaultSummaries ==
    ASSUME Typed, Follows, OfShare, NEW r \in Requests, DbFault(r) \/ Disconnect(r)
    PROVE  Follows' /\ OfShare'
<1>1. Cut(r) /\ UNCHANGED <<ideas, versions>>
  BY DEF DbFault, Disconnect
<1>2. PICK pc : Goes(r, pc) /\ pc # "keep"
  <2>1. Excepted(request[r]) # "keep"
    BY DEF Excepted
  <2> QED BY <2>1 DEF DbFault, Disconnect
<1>3. /\ \A s \in Requests : s # r => request'[s] = request[s]
      /\ request'[r].pc # "keep"
  BY <1>2, GoesPlace
<1>4. /\ TablesGo /\ Conversation' = Conversation
      /\ \A c \in Conversation :
            \/ conversations'[c] = conversations[c] /\ ~(At(r, "forget") /\ c = Conv(r))
            \/ conversations'[c].hurt # {}
  BY <1>1, CutRow
<1>5. \A c \in Conversation :
         \/ Excused(c)'
         \/ /\ conversations'[c] = conversations[c]
            /\ \A s \in Requests : At(s, "forget") /\ Conv(s) = c => request'[s] = request[s]
  BY <1>3, <1>4 DEF Excused
<1> QED BY <1>3, <1>4, <1>5, SummariesKept

LEMMA CrashSummaries ==
    ASSUME Typed, Follows, OfShare, Crash
    PROVE  Follows' /\ OfShare'
<1>1. /\ TablesGo /\ Conversation' = Conversation
      /\ \A c \in Conversation :
            \/ /\ conversations'[c] = conversations[c]
               /\ \A r \in Requests : ~(At(r, "forget") /\ Conv(r) = c)
            \/ conversations'[c].hurt # {}
  BY CrashRows
<1>2. \A r \in Requests : \/ request'[r] = request[r]
                          \/ request'[r] = Ended(request[r], "broken")
  BY DEF Crash
<1>3. \A r \in Requests : request'[r] = request[r] \/ request'[r].pc # "keep"
  BY <1>2, CallTyped, CallEnded DEF Endings
<1>4. \A c \in Conversation :
         \/ Excused(c)'
         \/ /\ conversations'[c] = conversations[c]
            /\ \A s \in Requests : At(s, "forget") /\ Conv(s) = c => request'[s] = request[s]
  BY <1>1 DEF Excused
<1> QED BY <1>1, <1>3, <1>4, SummariesKept

LEMMA AlwaysFollows == Spec => [](Follows /\ OfShare)
<1>1. Init => Follows /\ OfShare
  BY DEF Init, TablesInit, ImportsInit, Idle, Follows, OfShare, Conversation, At
<1>2. Typed /\ Follows /\ OfShare /\ [Next]_vars => Follows' /\ OfShare'
  <2> SUFFICES ASSUME Typed, Follows, OfShare, [Next]_vars
               PROVE  Follows' /\ OfShare'
    OBVIOUS
  <2>0. TablesGo
    BY StepGo
  <2>1. CASE UNCHANGED request /\ UNCHANGED conversations
    BY <2>0, <2>1, SummariesStay
  <2>2. ASSUME NEW r \in Requests,
               \/ Import(r) \/ SendManual(r) \/ SendSeed(r) \/ Resolve(r)
               \/ DbFault(r) \/ Disconnect(r) \/ ImportStep(r)
        PROVE  Follows' /\ OfShare'
    <3>1. CASE \/ Import(r) \/ SendManual(r) \/ SendSeed(r) \/ Resolve(r) \/ Parse(r)
               \/ ParseFails(r) \/ ReadBack(r) \/ CheckCopy(r) \/ Copy(r) \/ Stream(r)
               \/ Save(r) \/ Respond(r) \/ Fail(r)
      BY <2>0, <3>1, ElseWhere, SummariesStay
    <3>2. CASE DbFault(r) \/ Disconnect(r)
      BY <3>2, FaultSummaries
    <3> QED BY <2>2, <3>1, <3>2, OpenSummaries, ReplaceSummaries, ForgetSummaries,
               SummariseSummaries, KeepSummaries DEF ImportStep
  <2>3. ASSUME NEW c \in Conversation, Delete(c)
        PROVE  Follows' /\ OfShare'
    <3>1. /\ Conversation' = Conversation /\ Excused(c)' /\ UNCHANGED request
          /\ \A d \in Conversation : d # c => conversations'[d] = conversations[d]
      BY <2>3, DeleteGo DEF Excused, Alive, Delete
    <3> QED BY <2>0, <3>1, SummariesKept
  <2>4. CASE \E w \in Writers : (\E kind \in Tasks : Visit(w, kind)) \/ OpenIdea(w) \/ Insert(w)
    <3>1. UNCHANGED request /\ UNCHANGED conversations
      BY <2>4 DEF Visit, OpenIdea, Insert
    <3> QED BY <2>1, <3>1
  <2>5. CASE UNCHANGED vars
    BY <2>1, <2>5
  <2> QED BY <2>2, <2>3, <2>4, <2>5, CrashSummaries DEF Next
<1> QED BY <1>1, <1>2, AlwaysTyped, PTL DEF Spec

(* When no import is at work on a conversation every summary its prompts    *)
(* may read is of the chat it shows, but for the three ways the code leaves *)
(* another in place: delete_imported_conversation_summary comes after the   *)
(* chat is replaced, in a transaction of its own, and nothing orders two    *)
(* updates.                                                                 *)
THEOREM SummariesAreOfTheChat == Spec => []SummaryIsOfTheChat
<1>1. Follows => SummaryIsOfTheChat
  BY DEF Follows, SummaryIsOfTheChat, Excused, Severed, Matches, At, InHandler
<1> QED BY <1>1, AlwaysFollows, PTL

=============================================================================
