--------------------------- MODULE ChatPage_proofs ---------------------------
(***************************************************************************)
(* What the runs of ChatPage check about the messages of a conversation,    *)
(* proved for any number of requests, pages, faults and messages: why a     *)
(* reply is empty, why a message has two replies, and what the prompts      *)
(* forget.                                                                  *)
(***************************************************************************)
EXTENDS ChatPage, WellFoundedInduction, TLAPS

-----------------------------------------------------------------------------
(* The greatest of a set of messages. *)

LEMMA LastExists ==
    ASSUME NEW n \in Nat, NEW S, S \subseteq 1..n, S # {}
    PROVE  /\ LastOf(S) \in S
           /\ \A m \in S : m <= LastOf(S)
<1> DEFINE T == {k \in Nat : n - k \in S}
           R == OpToRel(<, Nat)
<1>1. T \subseteq Nat /\ T # {}
  <2>1. PICK m \in S : TRUE
    OBVIOUS
  <2>2. n - m \in T
    BY <2>1
  <2> QED BY <2>2
<1>2. PICK k \in T : \A j \in T : ~(<<j, k>> \in R)
  <2> HIDE DEF T, R
  <2>1. IsWellFoundedOn(R, Nat)
    BY NatLessThanWellFounded DEF R
  <2> QED BY <1>1, <2>1, WFMin
<1>3. \A j \in T : ~(j < k)
  <2> TAKE j \in T
  <2>1. j \in Nat /\ k \in Nat
    OBVIOUS
  <2> QED BY <1>2, <2>1 DEF OpToRel
<1>4. n - k \in S /\ \A m \in S : m <= n - k
  <2>1. \A m \in S : n - m \in T
    OBVIOUS
  <2> HIDE DEF R
  <2> QED BY <1>3, <2>1
<1> QED BY <1>4 DEF LastOf

-----------------------------------------------------------------------------
(* Types. *)

Message == [role : {"user", "assistant"}, full : BOOLEAN, gone : BOOLEAN, seq : Nat \ {0},
            answers : Nat, raced : BOOLEAN,
            left : {"no", "error event", "fault", "crash", "client"}]
Summary == [covers : SUBSET (Nat \ {0}), latest : Nat]
Steps == {"idle"} \cup InHandler \cup InTask \cup Endings
Request == [pc : Steps, auto : BOOLEAN, user : Nat, reply : Nat, seen : Nat, rival : BOOLEAN,
            alone : BOOLEAN, sent : {"nothing", "text"}, summary : Summary, found : BOOLEAN]

\* A message answers an earlier one.
MessagesTyped ==
    /\ messages \in Seq(Message)
    /\ \A m \in 1..Len(messages) : messages[m].answers < m

\* A request names messages that are there, and has an empty reply while the model
\* answers and at no other time.
Named(r) ==
    /\ request[r].user <= Len(messages)
    /\ request[r].seen <= Len(messages)
    /\ request[r].reply <= Len(messages)
    /\ request[r].reply # 0 <=> request[r].pc = "model"
    /\ request[r].pc = "place" => request[r].user # 0

Typed ==
    /\ MessagesTyped
    /\ request \in [Requests -> Request]
    /\ \A r \in Requests : Named(r)
    /\ rows \subseteq Summary
    /\ thread \in [summarised : BOOLEAN, covers : SUBSET (Nat \ {0}), tail : SUBSET (Nat \ {0})]
    /\ slipped \subseteq Nat \ {0}
    /\ faults \in Nat

USE DEF chatVars, pageVars, vars

LEMMA IdleTyped == IdleRequest \in Request
BY DEF IdleRequest, Request, Steps, Summary, NoRow

LEMMA OneIsASequence ==
    ASSUME NEW x \in Message, NEW s, s = <<x>>
    PROVE  s \in Seq(Message) /\ Len(s) = 1 /\ s[1] = x
OBVIOUS

LEMMA InitTyped == Init => Typed
<1> SUFFICES ASSUME Init PROVE Typed
    OBVIOUS
<1> USE DEF Init, ChatInit
<1>1. MessagesTyped
  <2>1. CASE messages = <<>>
    BY <2>1 DEF MessagesTyped
  <2>2. CASE messages # <<>>
    <3> DEFINE seed == [role |-> "user", full |-> TRUE, gone |-> FALSE, seq |-> 1,
                        answers |-> 0, raced |-> FALSE, left |-> "no"]
    <3>1. messages = <<seed>>
      BY <2>2
    <3>2. seed \in Message /\ seed.answers = 0
      BY DEF Message
    <3> HIDE DEF seed
    <3>3. messages \in Seq(Message) /\ Len(messages) = 1 /\ messages[1] = seed
      BY <3>1, <3>2, OneIsASequence
    <3> QED BY <3>2, <3>3 DEF MessagesTyped
  <2> QED BY <2>1, <2>2
<1>2. request \in [Requests -> Request] /\ \A r \in Requests : Named(r)
  BY <1>1, IdleTyped DEF Named, IdleRequest, MessagesTyped
<1>3. rows \subseteq Summary /\ thread \in [summarised : BOOLEAN, covers : SUBSET (Nat \ {0}), tail : SUBSET (Nat \ {0})]
  BY DEF Summary, NoRow
<1>4. slipped \subseteq Nat \ {0} /\ faults \in Nat
  BY ChatAssumption
<1> QED BY <1>1, <1>2, <1>3, <1>4 DEF Typed

-----------------------------------------------------------------------------
(* What a step does to the messages: it adds one, or rewrites whether some of *)
(* them are full, gone or left.                                              *)

Rewritten(m) ==
    /\ messages'[m].role = messages[m].role
    /\ messages'[m].seq = messages[m].seq
    /\ messages'[m].answers = messages[m].answers
    /\ messages'[m].raced = messages[m].raced
    /\ messages[m].full => messages'[m].full
    /\ messages[m].gone => messages'[m].gone
    /\ messages[m].left # "no" => messages'[m].left # "no"

Grown(new) ==
    /\ messages' = Append(messages, new)
    /\ new \in Message
    /\ new.answers <= Len(messages)

Rewrites ==
    /\ messages' \in Seq(Message)
    /\ Len(messages') = Len(messages)
    /\ \A m \in 1..Len(messages) : Rewritten(m)

LEMMA NextTyped ==
    ASSUME MessagesTyped
    PROVE  NextSequence \in Nat \ {0}
<1>1. CASE Stored = {}
  BY <1>1 DEF NextSequence
<1>2. CASE Stored # {}
  <2>1. Len(messages) \in Nat /\ Stored \subseteq 1..Len(messages)
    BY DEF MessagesTyped, Stored, Ids
  <2>2. LastOf(Stored) \in 1..Len(messages)
    BY <1>2, <2>1, LastExists
  <2>3. messages[LastOf(Stored)] \in Message
    BY <2>2 DEF MessagesTyped
  <2>4. messages[LastOf(Stored)].seq \in Nat \ {0}
    BY <2>3 DEF Message
  <2>5. NextSequence = messages[LastOf(Stored)].seq + 1
    BY <1>2 DEF NextSequence
  <2> HIDE DEF NextSequence
  <2> QED BY <2>4, <2>5
<1> QED BY <1>1, <1>2

LEMMA ReplyRow ==
    ASSUME MessagesTyped, NEW u \in Nat, NEW raced \in BOOLEAN, NEW new,
           new = Row("assistant", FALSE, u, raced)
    PROVE  new \in Message /\ new.answers = u /\ new.raced = raced
BY NextTyped DEF Row, Message

LEMMA GrownTyped ==
    ASSUME MessagesTyped, NEW new, Grown(new)
    PROVE  /\ MessagesTyped'
           /\ Len(messages') = Len(messages) + 1
           /\ Len(messages) \in Nat
           /\ \A m \in 1..Len(messages) : messages'[m] = messages[m]
           /\ messages'[Len(messages) + 1] = new
<1> USE DEF MessagesTyped, Grown
<1>1. Len(messages) \in Nat /\ messages' \in Seq(Message) /\ Len(messages') = Len(messages) + 1
  OBVIOUS
<1>2. \A m \in 1..Len(messages) : messages'[m] = messages[m]
  OBVIOUS
<1>3. messages'[Len(messages) + 1] = new
  OBVIOUS
<1>4. \A m \in 1..(Len(messages) + 1) : messages'[m].answers < m
  <2> TAKE m \in 1..(Len(messages) + 1)
  <2>1. CASE m = Len(messages) + 1
    <3>1. new.answers \in Nat
      BY DEF Message
    <3> QED BY <1>1, <1>3, <2>1, <3>1
  <2>2. CASE m # Len(messages) + 1
    <3>1. m \in 1..Len(messages)
      BY <1>1, <2>2
    <3> QED BY <1>2, <3>1
  <2> QED BY <2>1, <2>2
<1> QED BY <1>1, <1>2, <1>3, <1>4

LEMMA RewritesTyped ==
    ASSUME MessagesTyped, Rewrites
    PROVE  MessagesTyped'
BY DEF MessagesTyped, Rewrites, Rewritten

LEMMA SameRewrites ==
    ASSUME MessagesTyped, messages' = messages
    PROVE  Rewrites
BY DEF MessagesTyped, Rewrites, Rewritten

LEMMA AMessage ==
    ASSUME MessagesTyped, NEW m \in 1..Len(messages)
    PROVE  messages[m] \in Message
BY DEF MessagesTyped

LEMMA Rewrote ==
    ASSUME MessagesTyped, NEW m \in 1..Len(messages), NEW new,
           messages' = [messages EXCEPT ![m] = new]
    PROVE  messages'[m] = new
BY DEF MessagesTyped

LEMMA OneRewritten ==
    ASSUME MessagesTyped, NEW m \in 1..Len(messages), NEW new \in Message,
           messages' = [messages EXCEPT ![m] = new],
           new.role = messages[m].role, new.seq = messages[m].seq,
           new.answers = messages[m].answers, new.raced = messages[m].raced,
           messages[m].full => new.full, messages[m].gone => new.gone,
           messages[m].left # "no" => new.left # "no"
    PROVE  Rewrites
<1> USE DEF MessagesTyped
<1>1. messages' \in Seq(Message) /\ Len(messages') = Len(messages)
  OBVIOUS
<1>2. \A n \in 1..Len(messages) : messages'[n] = IF n = m THEN new ELSE messages[n]
  OBVIOUS
<1>3. \A n \in 1..Len(messages) : Rewritten(n)
  BY <1>2, Zenon DEF Rewritten
<1> QED BY <1>1, <1>3 DEF Rewrites

-----------------------------------------------------------------------------
(* What a step does to the requests. *)

\* As far as the messages and the summary are concerned.
Kept(s) ==
    /\ request'[s].pc = request[s].pc
    /\ request'[s].user = request[s].user
    /\ request'[s].reply = request[s].reply
    /\ request'[s].seen = request[s].seen
    /\ request'[s].summary = request[s].summary
    /\ request'[s].found = request[s].found

OthersKept(r) ==
    /\ request' \in [Requests -> Request]
    /\ \A s \in Requests \ {r} : Kept(s)

Has(r, pc, user, seen, reply, summary) ==
    /\ request'[r].pc = pc
    /\ request'[r].user = user
    /\ request'[r].seen = seen
    /\ request'[r].reply = reply
    /\ request'[r].summary = summary

LEMMA OneRequest ==
    ASSUME request \in [Requests -> Request], NEW r \in Requests, NEW q \in Request,
           request' = [request EXCEPT ![r] = q]
    PROVE  OthersKept(r) /\ request'[r] = q
<1>1. \A s \in Requests \ {r} : request'[s] = request[s]
  OBVIOUS
<1> QED BY <1>1 DEF OthersKept, Kept

LEMMA RivalsTyped ==
    ASSUME request \in [Requests -> Request], NEW r \in Requests, NEW q \in Request,
           request' = [Rivals(r) EXCEPT ![r] = q]
    PROVE  OthersKept(r) /\ request'[r] = q
<1> DEFINE rival(s) == [request[s] EXCEPT !.rival = TRUE]
<1>1. \A s \in Requests : rival(s) \in Request
  BY DEF Request
<1>2. \A s \in Requests : /\ rival(s).pc = request[s].pc
                          /\ rival(s).user = request[s].user
                          /\ rival(s).reply = request[s].reply
                          /\ rival(s).seen = request[s].seen
                          /\ rival(s).summary = request[s].summary
                          /\ rival(s).found = request[s].found
  BY DEF Request
<1>3. Rivals(r) = [s \in Requests |-> IF s # r /\ Inserting(s) THEN rival(s) ELSE request[s]]
  BY DEF Rivals
<1> HIDE DEF rival
<1>4. request' \in [Requests -> Request] /\ request'[r] = q
  BY <1>1, <1>3
<1>5. \A s \in Requests \ {r} : request'[s] = rival(s) \/ request'[s] = request[s]
  BY <1>3
<1>6. \A s \in Requests \ {r} : Kept(s)
  BY <1>2, <1>5 DEF Kept
<1> QED BY <1>4, <1>6 DEF OthersKept

LEMMA GoesEffect ==
    ASSUME request \in [Requests -> Request], NEW r \in Requests, NEW pc \in Endings, Goes(r, pc)
    PROVE  OthersKept(r) /\ Has(r, pc, 0, 0, 0, NoRow)
<1> DEFINE q == [IdleRequest EXCEPT !.pc = pc, !.auto = request[r].auto, !.sent = request[r].sent]
<1>1. q \in Request /\ q.pc = pc /\ q.user = 0 /\ q.seen = 0 /\ q.reply = 0 /\ q.summary = NoRow
  BY DEF IdleRequest, Request, Steps, Summary, NoRow
<1>2. request' = [request EXCEPT ![r] = q]
  BY Zenon DEF Goes
<1> HIDE DEF q
<1> QED BY <1>1, <1>2, OneRequest DEF Has

LEMMA ReadEffect ==
    ASSUME request \in [Requests -> Request], NEW r \in Requests, NEW u \in Nat, NEW n \in Nat,
           request' = [request EXCEPT ![r].pc = "place", ![r].seen = n, ![r].user = u]
    PROVE  OthersKept(r) /\ Has(r, "place", u, n, request[r].reply, request[r].summary)
<1> DEFINE q == [request[r] EXCEPT !.pc = "place", !.seen = n, !.user = u]
<1>1. /\ q \in Request /\ q.pc = "place" /\ q.user = u /\ q.seen = n
      /\ q.reply = request[r].reply /\ q.summary = request[r].summary
  BY DEF Request, Steps, InHandler
<1>2. request' = [request EXCEPT ![r] = q]
  OBVIOUS
<1> HIDE DEF q
<1> QED BY <1>1, <1>2, OneRequest DEF Has

LEMMA StoreEffect ==
    ASSUME request \in [Requests -> Request], NEW r \in Requests, NEW n \in Nat, NEW k \in Nat,
           request' = [Rivals(r) EXCEPT ![r].pc = "place", ![r].user = k,
                                        ![r].seen = n, ![r].rival = FALSE]
    PROVE  OthersKept(r) /\ Has(r, "place", k, n, request[r].reply, request[r].summary)
<1> DEFINE q == [request[r] EXCEPT !.pc = "place", !.user = k, !.seen = n, !.rival = FALSE]
<1>1. /\ q \in Request /\ q.pc = "place" /\ q.user = k /\ q.seen = n
      /\ q.reply = request[r].reply /\ q.summary = request[r].summary
  BY DEF Request, Steps, InHandler
<1>2. Rivals(r)[r] = request[r] /\ DOMAIN Rivals(r) = Requests
  BY DEF Rivals
<1>3. request' = [Rivals(r) EXCEPT ![r] = q]
  BY <1>2
<1> HIDE DEF q
<1> QED BY <1>1, <1>3, RivalsTyped DEF Has

LEMMA PlaceEffect ==
    ASSUME request \in [Requests -> Request], NEW r \in Requests, NEW k \in Nat,
           request' = [Rivals(r) EXCEPT ![r].pc = "model", ![r].reply = k,
                                        ![r].rival = FALSE]
    PROVE  OthersKept(r) /\ Has(r, "model", request[r].user, request[r].seen, k, request[r].summary)
<1> DEFINE q == [request[r] EXCEPT !.pc = "model", !.reply = k, !.rival = FALSE]
<1>1. /\ q \in Request /\ q.pc = "model" /\ q.reply = k
      /\ q.user = request[r].user /\ q.seen = request[r].seen /\ q.summary = request[r].summary
  BY DEF Request, Steps, InTask
<1>2. Rivals(r)[r] = request[r] /\ DOMAIN Rivals(r) = Requests
  BY DEF Rivals
<1>3. request' = [Rivals(r) EXCEPT ![r] = q]
  BY <1>2
<1> HIDE DEF q
<1> QED BY <1>1, <1>3, RivalsTyped DEF Has

LEMMA TaskEffect ==
    ASSUME request \in [Requests -> Request], NEW r \in Requests,
           NEW sent \in {"nothing", "text"}, TaskGoes(r, sent)
    PROVE  OthersKept(r) /\ Has(r, "summarise", request[r].user, request[r].seen, 0, request[r].summary)
<1> DEFINE q == [request[r] EXCEPT !.pc = "summarise", !.sent = sent, !.reply = 0]
<1>1. /\ q \in Request /\ q.pc = "summarise" /\ q.reply = 0
      /\ q.user = request[r].user /\ q.seen = request[r].seen /\ q.summary = request[r].summary
  BY DEF Request, Steps, InTask
<1>2. request' = [request EXCEPT ![r] = q]
  BY DEF TaskGoes
<1> HIDE DEF q
<1> QED BY <1>1, <1>2, OneRequest DEF Has

LEMMA ReturnsEffect ==
    ASSUME request \in [Requests -> Request], NEW r \in Requests, NEW sum \in Summary,
           NEW found \in BOOLEAN,
           request' = [request EXCEPT ![r].pc = "save", ![r].found = found, ![r].summary = sum]
    PROVE  OthersKept(r) /\ Has(r, "save", request[r].user, request[r].seen, request[r].reply, sum)
<1> DEFINE q == [request[r] EXCEPT !.pc = "save", !.found = found, !.summary = sum]
<1>1. /\ q \in Request /\ q.pc = "save" /\ q.summary = sum
      /\ q.user = request[r].user /\ q.seen = request[r].seen /\ q.reply = request[r].reply
  BY DEF Request, Steps, InTask
<1>2. request' = [request EXCEPT ![r] = q]
  OBVIOUS
<1> HIDE DEF q
<1> QED BY <1>1, <1>2, OneRequest DEF Has

LEMMA AutoEffect ==
    ASSUME request \in [Requests -> Request], NEW r \in Requests,
           \/ request' = [request EXCEPT ![r].pc = "history", ![r].auto = TRUE]
           \/ request' = [request EXCEPT ![r].pc = "user"]
    PROVE  /\ OthersKept(r)
           /\ \E pc \in {"history", "user"} :
                 Has(r, pc, request[r].user, request[r].seen, request[r].reply, request[r].summary)
<1>1. ASSUME NEW pc \in {"history", "user"}, NEW auto \in BOOLEAN,
             request' = [request EXCEPT ![r] = [request[r] EXCEPT !.pc = pc, !.auto = auto]]
      PROVE  /\ OthersKept(r)
             /\ Has(r, pc, request[r].user, request[r].seen, request[r].reply, request[r].summary)
  <2> DEFINE q == [request[r] EXCEPT !.pc = pc, !.auto = auto]
  <2>1. /\ q \in Request /\ q.pc = pc /\ q.reply = request[r].reply
        /\ q.user = request[r].user /\ q.seen = request[r].seen /\ q.summary = request[r].summary
    BY DEF Request, Steps, InHandler
  <2> HIDE DEF q
  <2> QED BY <1>1, <2>1, OneRequest DEF Has, q
<1>2. CASE request' = [request EXCEPT ![r].pc = "history", ![r].auto = TRUE]
  <2>1. request' = [request EXCEPT ![r] = [request[r] EXCEPT !.pc = "history", !.auto = TRUE]]
    BY <1>2
  <2> QED BY <1>1, <2>1
<1>3. CASE request' = [request EXCEPT ![r].pc = "user"]
  <2>1. request' = [request EXCEPT ![r] = [request[r] EXCEPT !.pc = "user", !.auto = request[r].auto]]
    BY <1>3 DEF Request
  <2>2. request[r].auto \in BOOLEAN
    BY DEF Request
  <2> QED BY <1>1, <2>1, <2>2
<1> QED BY <1>2, <1>3

LEMMA AloneEffect ==
    ASSUME request \in [Requests -> Request], NEW t, Alone(t)
    PROVE  request' \in [Requests -> Request] /\ \A s \in Requests : Kept(s)
<1>1. CASE tab[t].stream \in Requests /\ Streaming(t)
  <2> DEFINE r == tab[t].stream
             q == [request[r] EXCEPT !.alone = TRUE]
  <2>1. /\ q \in Request /\ q.pc = request[r].pc /\ q.reply = request[r].reply
        /\ q.user = request[r].user /\ q.seen = request[r].seen /\ q.summary = request[r].summary
        /\ q.found = request[r].found
    BY <1>1 DEF Request
  <2>2. request' = [request EXCEPT ![r] = q]
    BY <1>1, Zenon DEF Alone
  <2> HIDE DEF q
  <2> QED BY <1>1, <2>1, <2>2, OneRequest DEF OthersKept, Kept
<1>2. CASE ~(tab[t].stream \in Requests /\ Streaming(t))
  <2>1. request' = request
    BY <1>2 DEF Alone
  <2> QED BY <2>1 DEF Kept
<1> QED BY <1>1, <1>2

-----------------------------------------------------------------------------
(* The shape of a step.  Every request stays as it is or goes on by one of the *)
(* moves of its handler or task, and a message is added for a reason.          *)

\* The reply of a request that lets go of it is no longer waited for.
Handled(m) ==
    m # 0 => messages'[m].full \/ messages'[m].gone \/ messages'[m].left # "no"

Ends(r) ==
    /\ \E pc \in Endings : Has(r, pc, 0, 0, 0, NoRow)
    /\ Handled(request[r].reply)

Begins(r) ==
    /\ At(r, "idle")
    /\ \E pc \in {"history", "user"} :
          Has(r, pc, request[r].user, request[r].seen, request[r].reply, request[r].summary)

Reads(r) ==
    /\ At(r, "history") /\ LastIs("user") /\ messages' = messages
    /\ Has(r, "place", LastOf(Stored), Len(messages), request[r].reply, request[r].summary)

Asks(r) ==
    /\ At(r, "user") /\ \E new : Grown(new) /\ new.answers = 0
    /\ Has(r, "place", Len(messages) + 1, Len(messages), request[r].reply, request[r].summary)

Places(r) ==
    /\ At(r, "place") /\ \E new : Grown(new)
    /\ Has(r, "model", request[r].user, request[r].seen, Len(messages) + 1, request[r].summary)

LetsGo(r) ==
    /\ At(r, "model") /\ Handled(request[r].reply)
    /\ Has(r, "summarise", request[r].user, request[r].seen, 0, request[r].summary)

Summarises(r) ==
    /\ At(r, "summarise") /\ Summarise(r)
    /\ \E sum \in Summary :
          Has(r, "save", request[r].user, request[r].seen, request[r].reply, sum)

Moves(r) ==
    Kept(r) \/ Ends(r) \/ Begins(r) \/ Reads(r) \/ Asks(r) \/ Places(r) \/ LetsGo(r) \/ Summarises(r)

\* A message that is added answers none, or is the reply of a request.
ReplyOf(new, r) ==
    /\ At(r, "place")
    /\ new.answers = request[r].user
    /\ new.raced = (\A m \in Answered(request[r].user) : m > request[r].seen)

Cause(new) ==
    /\ new.answers = 0 \/ \E r \in Requests : ReplyOf(new, r)
    /\ new.full \/ new.left # "no" \/ \E r \in Requests : request'[r].reply = Len(messages) + 1

Shape ==
    /\ request' \in [Requests -> Request]
    /\ Rewrites \/ \E new : Grown(new) /\ Cause(new)
    /\ \A s \in Requests : Moves(s)

LEMMA OthersMove ==
    ASSUME NEW r \in Requests, OthersKept(r), Moves(r)
    PROVE  request' \in [Requests -> Request] /\ \A s \in Requests : Moves(s)
BY DEF OthersKept, Moves

\* A handler that ends has no reply yet, and a task that ends none any more.
LEMMA GoesShape ==
    ASSUME Typed, NEW r \in Requests, NEW pc \in Endings, ~At(r, "model"),
           Goes(r, pc)
    PROVE  request' \in [Requests -> Request] /\ \A s \in Requests : Moves(s)
<1>1. request \in [Requests -> Request] /\ request[r].reply = 0
  BY DEF Typed, Named, At
<1>2. OthersKept(r) /\ Has(r, pc, 0, 0, 0, NoRow)
  BY <1>1, GoesEffect
<1>3. Ends(r)
  BY <1>1, <1>2 DEF Ends, Handled
<1> QED BY <1>2, <1>3, OthersMove DEF Moves

LEMMA LenTyped ==
    ASSUME Typed
    PROVE  /\ Len(messages) \in Nat /\ Ids = 1..Len(messages)
           /\ Stored \subseteq 1..Len(messages)
           /\ \A r \in Requests : request[r] \in Request
BY DEF Typed, MessagesTyped, Ids, Stored

LEMMA ReadHistoryShape ==
    ASSUME Typed, NEW r \in Requests, ReadHistory(r)
    PROVE  Shape
<1> USE LenTyped
<1>1. At(r, "history") /\ messages' = messages /\ Rewrites
  BY SameRewrites DEF ReadHistory, Typed
<1>2. CASE LastIs("user")
  <2>1. LastOf(Stored) \in Nat
    BY <1>2, LastExists DEF LastIs
  <2>2. request' = [request EXCEPT ![r].pc = "place", ![r].seen = Len(messages),
                                   ![r].user = LastOf(Stored)]
    BY <1>2 DEF ReadHistory
  <2>3. OthersKept(r) /\ Has(r, "place", LastOf(Stored), Len(messages), request[r].reply, request[r].summary)
    BY <2>1, <2>2, ReadEffect DEF Typed
  <2>4. Moves(r)
    BY <1>1, <1>2, <2>3 DEF Moves, Reads
  <2> QED BY <1>1, <2>3, <2>4, OthersMove DEF Shape
<1>3. CASE ~LastIs("user")
  <2>1. Goes(r, "refused") /\ ~At(r, "model")
    BY <1>3 DEF ReadHistory, At
  <2> QED BY <1>1, <2>1, GoesShape DEF Shape, Endings
<1> QED BY <1>2, <1>3

LEMMA StoreUserShape ==
    ASSUME Typed, NEW r \in Requests, StoreUser(r)
    PROVE  Shape
<1> USE LenTyped
<1> DEFINE new == Row("user", TRUE, 0, FALSE)
<1>1. new \in Message /\ new.full = TRUE /\ new.answers = 0
  BY NextTyped DEF Typed, Row, Message
<1> HIDE DEF new
<1>2. At(r, "user") /\ messages' = Append(messages, new)
  BY DEF StoreUser, new
<1>3. Grown(new) /\ Cause(new)
  BY <1>1, <1>2 DEF Grown, Cause
<1>4. request' = [Rivals(r) EXCEPT ![r].pc = "place", ![r].user = Len(messages) + 1,
                                    ![r].seen = Len(messages), ![r].rival = FALSE]
  BY DEF StoreUser
<1>5. Len(messages) \in Nat /\ Len(messages) + 1 \in Nat
  OBVIOUS
<1>6. /\ OthersKept(r)
      /\ Has(r, "place", Len(messages) + 1, Len(messages), request[r].reply, request[r].summary)
  BY <1>4, <1>5, StoreEffect DEF Typed
<1>7. Moves(r)
  BY <1>1, <1>2, <1>3, <1>6 DEF Moves, Asks
<1> QED BY <1>3, <1>6, <1>7, OthersMove DEF Shape

LEMMA ReplyShape ==
    ASSUME Typed, NEW r \in Requests, At(r, "place"), NEW new,
           new = Row("assistant", FALSE, request[r].user,
                     \A m \in Answered(request[r].user) : m > request[r].seen)
    PROVE  /\ new \in Message
           /\ new.answers <= Len(messages)
           /\ ReplyOf(new, r)
           /\ [new EXCEPT !.left = "client"] \in Message
           /\ [new EXCEPT !.left = "client"].answers <= Len(messages)
           /\ [new EXCEPT !.left = "client"].left # "no"
           /\ ReplyOf([new EXCEPT !.left = "client"], r)
<1> DEFINE raced == \A m \in Answered(request[r].user) : m > request[r].seen
<1>1. raced \in BOOLEAN /\ request[r].user \in Nat /\ request[r].user <= Len(messages)
  BY LenTyped DEF Typed, Named, Request
<1>2. new = Row("assistant", FALSE, request[r].user, raced)
  OBVIOUS
<1> HIDE DEF raced
<1>3. new \in Message /\ new.answers = request[r].user /\ new.raced = raced
  <2>1. MessagesTyped
    BY DEF Typed
  <2> QED BY <1>1, <1>2, <2>1, ReplyRow, Zenon
<1>4. /\ [new EXCEPT !.left = "client"] \in Message
      /\ [new EXCEPT !.left = "client"].answers = new.answers
      /\ [new EXCEPT !.left = "client"].raced = new.raced
      /\ [new EXCEPT !.left = "client"].left = "client"
  BY <1>3 DEF Message
<1>5. ReplyOf(new, r)
  BY <1>3, Zenon DEF ReplyOf, raced
<1>6. ReplyOf([new EXCEPT !.left = "client"], r)
  BY <1>3, <1>4, Zenon DEF ReplyOf, raced
<1> QED BY <1>1, <1>3, <1>4, <1>5, <1>6

LEMMA PlaceShape ==
    ASSUME Typed, NEW r \in Requests, Place(r)
    PROVE  Shape
<1> USE LenTyped
<1> DEFINE new == Row("assistant", FALSE, request[r].user,
                      \A m \in Answered(request[r].user) : m > request[r].seen)
<1>1. At(r, "place") /\ messages' = Append(messages, new)
  BY Zenon DEF Place
<1>2. /\ request' = [Rivals(r) EXCEPT ![r].pc = "model", ![r].reply = Len(messages) + 1,
                                      ![r].rival = FALSE]
      /\ Len(messages) + 1 \in Nat
  BY DEF Place
<1>3. new \in Message /\ new.answers <= Len(messages) /\ ReplyOf(new, r)
  BY <1>1, ReplyShape
<1> HIDE DEF new
<1>4. /\ OthersKept(r)
      /\ Has(r, "model", request[r].user, request[r].seen, Len(messages) + 1, request[r].summary)
  BY <1>2, PlaceEffect DEF Typed
<1>5. Grown(new) /\ Cause(new)
  BY <1>1, <1>3, <1>4 DEF Grown, Cause, Has
<1>6. Moves(r)
  BY <1>1, <1>4, <1>5 DEF Moves, Places
<1> QED BY <1>4, <1>5, <1>6, OthersMove DEF Shape

LEMMA AbandonShape ==
    ASSUME Typed, NEW r \in Requests, Abandon(r)
    PROVE  Shape
<1> USE LenTyped
<1> DEFINE new == Row("assistant", FALSE, request[r].user,
                      \A m \in Answered(request[r].user) : m > request[r].seen)
           left == [new EXCEPT !.left = "client"]
<1>1. At(r, "place") /\ Goes(r, "broken") /\ (messages' = messages \/ messages' = Append(messages, left))
  BY Zenon DEF Abandon
<1>2. left \in Message /\ left.answers <= Len(messages) /\ ReplyOf(left, r) /\ left.left # "no"
  BY <1>1, ReplyShape
<1> HIDE DEF left, new
<1>3. Rewrites \/ (Grown(left) /\ Cause(left))
  BY <1>1, <1>2, SameRewrites DEF Grown, Cause, Typed
<1>4. request' \in [Requests -> Request] /\ \A s \in Requests : Moves(s)
  BY <1>1, GoesShape DEF Endings, At
<1> QED BY <1>3, <1>4 DEF Shape

LEMMA TaskShape ==
    ASSUME Typed, NEW r \in Requests, At(r, "model"), NEW sent \in {"nothing", "text"},
           TaskGoes(r, sent), Rewrites, Handled(Reply(r))
    PROVE  Shape
<1>1. /\ OthersKept(r)
      /\ Has(r, "summarise", request[r].user, request[r].seen, 0, request[r].summary)
  BY TaskEffect DEF Typed
<1>2. Moves(r)
  BY <1>1 DEF Moves, LetsGo, Reply
<1> QED BY <1>1, <1>2, OthersMove DEF Shape

LEMMA ReplyNamed ==
    ASSUME Typed, NEW r \in Requests, At(r, "model")
    PROVE  Reply(r) \in 1..Len(messages)
<1>1. request[r].reply \in Nat
  BY DEF Typed, Request
<1>2. request[r].reply # 0 /\ request[r].reply <= Len(messages)
  BY DEF Typed, Named, At
<1>3. Len(messages) \in Nat
  BY LenTyped
<1> QED BY <1>1, <1>2, <1>3 DEF Reply

\* The reply that a task has is in the history, and any field of it that the task
\* sets leaves a message.
LEMMA ReplyRewritten ==
    ASSUME Typed, NEW r \in Requests, At(r, "model"), NEW new,
           messages' = [messages EXCEPT ![Reply(r)] = new],
           \/ new = [messages[Reply(r)] EXCEPT !.full = TRUE]
           \/ new = [messages[Reply(r)] EXCEPT !.gone = TRUE]
           \/ new = [messages[Reply(r)] EXCEPT !.left = "fault"]
           \/ new = [messages[Reply(r)] EXCEPT !.left = "error event"]
    PROVE  Rewrites /\ Handled(Reply(r))
<1>1. Reply(r) \in 1..Len(messages)
  BY ReplyNamed
<1>2. messages[Reply(r)] \in Message
  BY <1>1, AMessage DEF Typed
<1> DEFINE m == Reply(r)
           old == messages[m]
<1> HIDE DEF m, old
<1>3. /\ new \in Message /\ new.role = old.role /\ new.seq = old.seq
      /\ new.answers = old.answers /\ new.raced = old.raced
      /\ new.full \/ new.gone \/ new.left # "no"
      /\ old.full => new.full
      /\ old.gone => new.gone
      /\ old.left # "no" => new.left # "no"
  <2> USE <1>2 DEF old, m
  <2>1. CASE new = [old EXCEPT !.full = TRUE]
    BY <1>2, <2>1 DEF Message
  <2>2. CASE new = [old EXCEPT !.gone = TRUE]
    BY <1>2, <2>2 DEF Message
  <2>3. CASE new = [old EXCEPT !.left = "fault"]
    BY <1>2, <2>3 DEF Message
  <2>4. CASE new = [old EXCEPT !.left = "error event"]
    BY <1>2, <2>4 DEF Message
  <2> QED BY <2>1, <2>2, <2>3, <2>4 DEF old, m
<1>4. Rewrites
  BY <1>1, <1>3, OneRewritten DEF Typed, m, old
<1>5. messages'[m] = new
  BY <1>1, Rewrote DEF Typed, m
<1>6. Handled(m)
  BY <1>3, <1>5 DEF Handled
<1> QED BY <1>4, <1>6 DEF m

LEMMA AnswerShape ==
    ASSUME Typed, NEW r \in Requests, Answer(r) \/ NoAnswer(r) \/ ErrorEvent(r)
    PROVE  Shape
<1> DEFINE old == messages[Reply(r)]
<1>1. At(r, "model") /\ \E sent \in {"nothing", "text"} : TaskGoes(r, sent)
  BY DEF Answer, NoAnswer, ErrorEvent
<1>2. \/ messages' = [messages EXCEPT ![Reply(r)] = [old EXCEPT !.full = TRUE]]
      \/ messages' = [messages EXCEPT ![Reply(r)] = [old EXCEPT !.gone = TRUE]]
      \/ messages' = [messages EXCEPT ![Reply(r)] = [old EXCEPT !.left = "fault"]]
      \/ messages' = [messages EXCEPT ![Reply(r)] = [old EXCEPT !.left = "error event"]]
  BY Zenon DEF Answer, NoAnswer, ErrorEvent
<1>3. Rewrites /\ Handled(Reply(r))
  BY <1>1, <1>2, ReplyRewritten
<1> QED BY <1>1, <1>3, TaskShape

\* What the summariser gives back is a summary, and so is what it keeps.
LEMMA NewSinceTyped ==
    ASSUME Typed, NEW latest \in Nat
    PROVE  /\ NewSince(latest) \subseteq 1..Len(messages)
           /\ NewSince(latest) \subseteq Nat \ {0}
           /\ Full \subseteq 1..Len(messages)
           /\ NewSince(latest) # {} =>
                 /\ LastOf(NewSince(latest)) \in 1..Len(messages)
                 /\ LastOf(NewSince(latest)) \in NewSince(latest)
                 /\ \A m \in NewSince(latest) : m <= LastOf(NewSince(latest))
<1> USE LenTyped
<1>1. NewSince(latest) \subseteq 1..Len(messages) /\ Full \subseteq 1..Len(messages)
  BY DEF NewSince, Full
<1> HIDE DEF NewSince
<1>2. NewSince(latest) \subseteq Nat \ {0}
  BY <1>1
<1>3. ASSUME NewSince(latest) # {}
      PROVE  /\ LastOf(NewSince(latest)) \in 1..Len(messages)
             /\ LastOf(NewSince(latest)) \in NewSince(latest)
             /\ \A m \in NewSince(latest) : m <= LastOf(NewSince(latest))
  BY <1>1, <1>3, LastExists
<1> QED BY <1>1, <1>2, <1>3

\* The two ways Summarise has of giving a summary back, and the two it has of ending.
Latests == IF rows = {} THEN {0} ELSE {row.latest : row \in rows}
Known(latest) == thread.tail \cup NewSince(latest)
Keeps(latest) ==
    IF messages[LastOf(NewSince(latest))].role = "user" THEN {LastOf(NewSince(latest))} ELSE {}

SummaryStands(r, latest) ==
    /\ NewSince(latest) # {}
    /\ thread' = [thread EXCEPT !.tail = Known(latest)]
    /\ Returns(r, latest, thread.covers, NewSince(latest))

Compresses(r, latest, covers) ==
    /\ NewSince(latest) # {}
    /\ covers \in {thread.covers \cup (Known(latest) \ Keeps(latest)), {}}
    /\ thread' = [summarised |-> TRUE, covers |-> covers, tail |-> Keeps(latest)]
    /\ Returns(r, latest, covers, (thread.covers \cup Known(latest)) \ covers)

SummaryFails(r, latest) ==
    /\ Goes(r, "done") /\ UNCHANGED slipped
    /\ thread' = thread \/ thread' = [thread EXCEPT !.tail = Known(latest)]

LEMMA SummariseCases ==
    ASSUME NEW r \in Requests, Summarise(r)
    PROVE  /\ At(r, "summarise") /\ UNCHANGED <<messages, rows, faults>>
           /\ \E latest \in Latests :
                 \/ SummaryFails(r, latest)
                 \/ SummaryStands(r, latest)
                 \/ \E covers : Compresses(r, latest, covers)
BY Zenon DEF Summarise, Latests, SummaryFails, SummaryStands, Compresses, Known, Keeps

LEMMA LatestTyped ==
    ASSUME Typed, NEW latest \in Latests
    PROVE  latest \in Nat
BY DEF Typed, Latests, Summary

LEMMA ReturnsShape ==
    ASSUME Typed, NEW r \in Requests, Summarise(r), NEW latest \in Nat, NewSince(latest) # {},
           NEW covers \in SUBSET (Nat \ {0}), NEW lost, Returns(r, latest, covers, lost)
    PROVE  Shape
<1> DEFINE sum == [covers |-> covers, latest |-> LastOf(NewSince(latest))]
<1>1. LastOf(NewSince(latest)) \in Nat
  BY NewSinceTyped, LenTyped
<1>2. sum \in Summary
  BY <1>1 DEF Summary
<1> HIDE DEF sum
<1> DEFINE found == rows # {}
<1>3. /\ request' = [request EXCEPT ![r].pc = "save", ![r].found = found, ![r].summary = sum]
      /\ found \in BOOLEAN
  BY Zenon DEF Returns, sum, found
<1> HIDE DEF found
<1>4. /\ OthersKept(r)
      /\ Has(r, "save", request[r].user, request[r].seen, request[r].reply, sum)
  BY <1>2, <1>3, ReturnsEffect DEF Typed
<1>5. At(r, "summarise") /\ messages' = messages
  BY SummariseCases
<1>6. Moves(r) /\ Rewrites
  BY <1>2, <1>4, <1>5, SameRewrites DEF Moves, Summarises, Typed
<1> QED BY <1>4, <1>6, OthersMove DEF Shape

LEMMA CompressTyped ==
    ASSUME Typed, NEW r \in Requests, NEW latest \in Nat, NEW covers, Compresses(r, latest, covers)
    PROVE  /\ covers \in SUBSET (Nat \ {0})
           /\ Keeps(latest) \subseteq Nat \ {0}
           /\ Known(latest) \subseteq Nat \ {0}
<1>1. NewSince(latest) \subseteq Nat \ {0} /\ LastOf(NewSince(latest)) \in Nat \ {0}
  BY NewSinceTyped, LenTyped DEF Compresses
<1>2. thread.tail \subseteq Nat \ {0} /\ thread.covers \subseteq Nat \ {0}
  BY DEF Typed
<1> QED BY <1>1, <1>2 DEF Compresses, Known, Keeps

LEMMA SummariseShape ==
    ASSUME Typed, NEW r \in Requests, Summarise(r)
    PROVE  Shape
<1>1. At(r, "summarise") /\ messages' = messages /\ Rewrites
  BY SummariseCases, SameRewrites DEF Typed
<1>2. PICK latest \in Latests :
         \/ SummaryFails(r, latest)
         \/ SummaryStands(r, latest)
         \/ \E covers : Compresses(r, latest, covers)
  BY SummariseCases
<1>3. latest \in Nat
  BY LatestTyped
<1>4. CASE SummaryFails(r, latest)
  BY <1>1, <1>4, GoesShape DEF SummaryFails, Shape, At, Endings
<1>5. CASE SummaryStands(r, latest)
  <2>1. thread.covers \in SUBSET (Nat \ {0})
    BY DEF Typed
  <2> QED BY <1>3, <1>5, <2>1, ReturnsShape DEF SummaryStands
<1>6. CASE \E covers : Compresses(r, latest, covers)
  <2>1. PICK covers : Compresses(r, latest, covers)
    BY <1>6
  <2>2. covers \in SUBSET (Nat \ {0})
    BY <1>3, <2>1, CompressTyped
  <2> QED BY <1>3, <2>1, <2>2, ReturnsShape DEF Compresses
<1> QED BY <1>2, <1>4, <1>5, <1>6

LEMMA CrashShape ==
    ASSUME Typed, Crash
    PROVE  Shape
<1> USE LenTyped
<1> DEFINE working(s) == request[s].pc \in InHandler \cup InTask
           ended(s) == [IdleRequest EXCEPT !.pc = "broken", !.auto = request[s].auto]
           waited(m) == \E s \in Requests : Reply(s) = m
           left(m) == [messages[m] EXCEPT !.left = "crash"]
<1>1. /\ request' = [s \in Requests |-> IF working(s) THEN ended(s) ELSE request[s]]
      /\ messages' = [m \in 1..Len(messages) |-> IF waited(m) THEN left(m) ELSE messages[m]]
  BY DEF Crash
<1>2. \A s \in Requests : /\ ended(s) \in Request /\ ended(s).pc = "broken" /\ ended(s).user = 0
                          /\ ended(s).seen = 0 /\ ended(s).reply = 0 /\ ended(s).summary = NoRow
  BY DEF Request, IdleRequest, Steps, Endings, Summary, NoRow
<1>3. \A m \in 1..Len(messages) :
         /\ left(m) \in Message /\ left(m).role = messages[m].role /\ left(m).seq = messages[m].seq
         /\ left(m).answers = messages[m].answers /\ left(m).raced = messages[m].raced
         /\ left(m).full = messages[m].full /\ left(m).gone = messages[m].gone
         /\ left(m).left = "crash"
  BY AMessage DEF Typed, Message
<1>4. \A m \in 1..Len(messages) : messages[m] \in Message
  BY AMessage DEF Typed
<1> HIDE DEF ended, left, waited, working
<1>5. messages' \in Seq(Message) /\ Len(messages') = Len(messages)
  BY <1>1, <1>3, <1>4
<1>6. \A m \in 1..Len(messages) : messages'[m] = IF waited(m) THEN left(m) ELSE messages[m]
  BY <1>1
<1>7. \A m \in 1..Len(messages) : Rewritten(m)
  BY <1>3, <1>6 DEF Rewritten
<1>8. Rewrites
  BY <1>5, <1>7 DEF Rewrites
<1>9. request' \in [Requests -> Request]
  BY <1>1, <1>2
<1>10. ASSUME NEW s \in Requests
       PROVE  Moves(s)
  <2>1. CASE ~working(s)
    <3>1. request'[s] = request[s]
      BY <1>1, <2>1
    <3> QED BY <3>1 DEF Moves, Kept
  <2>2. CASE working(s)
    <3>1. request'[s] = ended(s)
      BY <1>1, <2>2
    <3>2. Has(s, "broken", 0, 0, 0, NoRow)
      BY <1>2, <3>1 DEF Has
    <3>3. Handled(request[s].reply)
      <4>1. CASE request[s].reply = 0
        BY <4>1 DEF Handled
      <4>2. CASE request[s].reply # 0
        <5>1. request[s].reply \in 1..Len(messages)
          BY <4>2, ReplyNamed DEF Typed, Named, Reply, At
        <5>2. waited(request[s].reply)
          BY DEF waited, Reply
        <5>3. messages'[request[s].reply].left = "crash"
          BY <1>3, <1>6, <5>1, <5>2
        <5> QED BY <5>3 DEF Handled
      <4> QED BY <4>1, <4>2
    <3> QED BY <3>2, <3>3 DEF Moves, Ends, Endings
  <2> QED BY <2>1, <2>2
<1> QED BY <1>8, <1>9, <1>10 DEF Shape

LEMMA EndingShape ==
    ASSUME Typed, NEW r \in Requests, NEW pc \in Endings, messages' = messages,
           ~At(r, "model"), Goes(r, pc)
    PROVE  Shape
BY SameRewrites, GoesShape DEF Shape, Typed

LEMMA HandlerEndsShape ==
    ASSUME Typed, NEW r \in Requests, Refuse(r) \/ Collide(r) \/ DbFault(r) \/ SaveSummary(r)
    PROVE  Shape
<1>1. messages' = messages /\ ~At(r, "model")
  BY DEF Refuse, Collide, DbFault, SaveSummary, At, Inserting
<1>2. \E pc \in Endings : Goes(r, pc)
  BY DEF Refuse, Collide, DbFault, SaveSummary, Endings
<1> QED BY <1>1, <1>2, EndingShape

LEMMA ChatStepShape ==
    ASSUME Typed, NEW r \in Requests, ChatStep(r) \/ DbFault(r)
    PROVE  Shape
BY HandlerEndsShape, ReadHistoryShape, StoreUserShape, PlaceShape, AbandonShape, AnswerShape,
   SummariseShape DEF ChatStep

LEMMA AllKeptShape ==
    ASSUME Typed, messages' = messages, request' \in [Requests -> Request],
           \A s \in Requests : Kept(s)
    PROVE  Shape
BY SameRewrites DEF Shape, Moves, Typed

LEMMA PageShape ==
    ASSUME Typed, NEW t \in Tabs,
           PageStep(t) \/ LoadFails(t) \/ SendMessage(t) \/ Reload(t) \/ Timeout(t)
    PROVE  Shape
<1>1. messages' = messages
  BY DEF PageStep, LoadFails, SendMessage, Reload, Timeout, LoadHistory, AutoTrigger, StreamEnds,
         StreamFails, Poll
<1>2. CASE request' = request
  <2>1. request' \in [Requests -> Request] /\ \A s \in Requests : Kept(s)
    BY <1>2 DEF Typed, Kept
  <2> QED BY <1>1, <2>1, AllKeptShape
<1>3. CASE Alone(t)
  <2>1. request' \in [Requests -> Request] /\ \A s \in Requests : Kept(s)
    BY <1>3, AloneEffect DEF Typed
  <2> QED BY <1>1, <2>1, AllKeptShape
<1>4. CASE AutoTrigger(t) \/ SendMessage(t)
  <2>1. PICK r \in Requests :
           /\ At(r, "idle")
           /\ \/ request' = [request EXCEPT ![r].pc = "history", ![r].auto = TRUE]
              \/ request' = [request EXCEPT ![r].pc = "user"]
    BY <1>4 DEF AutoTrigger, SendMessage
  <2>2. OthersKept(r) /\ Begins(r)
    BY <2>1, AutoEffect DEF Typed, Begins
  <2>3. request' \in [Requests -> Request] /\ \A s \in Requests : Moves(s)
    BY <2>2, OthersMove DEF Moves
  <2> QED BY <1>1, <2>3, SameRewrites DEF Shape, Typed
<1>5. request' = request \/ Alone(t) \/ AutoTrigger(t) \/ SendMessage(t)
  BY DEF PageStep, LoadFails, Reload, Timeout, LoadHistory, StreamEnds, StreamFails, Poll
<1> QED BY <1>2, <1>3, <1>4, <1>5

LEMMA StepShape ==
    ASSUME Typed, [Next]_vars
    PROVE  Shape
<1>1. CASE UNCHANGED vars
  <2>1. messages' = messages /\ request' \in [Requests -> Request] /\ \A s \in Requests : Kept(s)
    BY <1>1 DEF Typed, Kept
  <2> QED BY <2>1, AllKeptShape
<1>2. CASE Next
  BY <1>2, ChatStepShape, CrashShape, PageShape DEF Next
<1> QED BY <1>1, <1>2

-----------------------------------------------------------------------------
(* Every step keeps the types. *)

LEMMA GrowthTyped ==
    ASSUME Typed, Shape
    PROVE  /\ MessagesTyped'
           /\ Len(messages) \in Nat /\ Len(messages') \in Nat
           /\ Len(messages) <= Len(messages')
           /\ (\E new : Grown(new)) => Len(messages') = Len(messages) + 1
<1>1. MessagesTyped
  BY DEF Typed
<1>2. CASE Rewrites
  <2>1. ASSUME NEW new, Grown(new) PROVE Len(messages') = Len(messages) + 1
    BY <1>1, <2>1, GrownTyped
  <2> QED BY <1>1, <1>2, <2>1, LenTyped, RewritesTyped DEF Rewrites
<1>3. CASE \E new : Grown(new)
  BY <1>1, <1>3, GrownTyped
<1> QED BY <1>2, <1>3 DEF Shape

LEMMA NamedStays ==
    ASSUME Typed, Shape, NEW r \in Requests
    PROVE  Named(r)'
<1>1. /\ Len(messages) \in Nat /\ Len(messages') \in Nat
      /\ Len(messages) <= Len(messages')
      /\ (\E new : Grown(new)) => Len(messages') = Len(messages) + 1
  BY GrowthTyped
<1>2. Moves(r) /\ Named(r) /\ request[r] \in Request
  BY DEF Shape, Typed
<1>3. request[r].user \in Nat /\ request[r].seen \in Nat /\ request[r].reply \in Nat
  BY <1>2 DEF Request
<1> USE <1>1, <1>2, <1>3 DEF Named, Has, At
<1>4. CASE Kept(r)
  BY <1>4 DEF Kept
<1>5. CASE Ends(r)
  BY <1>5 DEF Ends, Endings
<1>6. CASE Begins(r)
  BY <1>6 DEF Begins
<1>7. CASE Reads(r)
  <2>1. LastOf(Stored) \in 1..Len(messages)
    BY <1>7, LastExists, LenTyped DEF Reads, LastIs
  <2> QED BY <1>7, <2>1 DEF Reads
<1>8. CASE Asks(r)
  BY <1>8 DEF Asks
<1>9. CASE Places(r)
  BY <1>9 DEF Places
<1>10. CASE LetsGo(r)
  BY <1>10 DEF LetsGo
<1>11. CASE Summarises(r)
  BY <1>11 DEF Summarises
<1> QED BY <1>4, <1>5, <1>6, <1>7, <1>8, <1>9, <1>10, <1>11 DEF Moves

\* Only the summariser's own steps change what is kept of the summary.
LEMMA SummaryOwned ==
    ASSUME [Next]_vars
    PROVE  \/ UNCHANGED <<rows, thread, slipped>>
           \/ \E r \in Requests : SaveSummary(r) \/ Summarise(r)
<1>1. CASE UNCHANGED vars
  BY <1>1
<1>2. ASSUME NEW r \in Requests, ChatStep(r) \/ DbFault(r)
      PROVE  UNCHANGED <<rows, thread, slipped>> \/ SaveSummary(r) \/ Summarise(r)
  BY <1>2 DEF ChatStep, DbFault, UnchangedSummary, Refuse, ReadHistory, StoreUser, Place, Abandon,
              Collide, Answer, NoAnswer, ErrorEvent
<1>3. CASE Crash
  BY <1>3 DEF Crash, UnchangedSummary
<1>4. ASSUME NEW t \in Tabs, PageStep(t) \/ LoadFails(t) \/ SendMessage(t) \/ Reload(t) \/ Timeout(t)
      PROVE  UNCHANGED <<rows, thread, slipped>>
  BY <1>4 DEF PageStep, LoadFails, SendMessage, Reload, Timeout, LoadHistory, AutoTrigger,
              StreamEnds, StreamFails, Poll
<1> QED BY <1>1, <1>2, <1>3, <1>4 DEF Next

LEMMA FaultsTyped ==
    ASSUME faults \in Nat, [Next]_vars
    PROVE  faults' \in Nat
<1>1. faults' = faults \/ (faults > 0 /\ faults' = faults - 1)
  <2>1. CASE UNCHANGED vars
    BY <2>1
  <2>2. ASSUME NEW r \in Requests, ChatStep(r) \/ DbFault(r)
        PROVE  faults' = faults \/ (faults > 0 /\ faults' = faults - 1)
    BY <2>2 DEF ChatStep, DbFault, Refuse, ReadHistory, StoreUser, Place, Abandon,
                Collide, Answer, NoAnswer, ErrorEvent, Summarise, SaveSummary
  <2>3. CASE Crash
    BY <2>3 DEF Crash
  <2>4. ASSUME NEW t \in Tabs, PageStep(t) \/ LoadFails(t) \/ SendMessage(t) \/ Reload(t) \/ Timeout(t)
        PROVE  faults' = faults \/ (faults > 0 /\ faults' = faults - 1)
    BY <2>4 DEF PageStep, LoadFails, SendMessage, Reload, Timeout, LoadHistory, AutoTrigger,
                StreamEnds, StreamFails, Poll
  <2> QED BY <2>1, <2>2, <2>3, <2>4 DEF Next
<1> QED BY <1>1

\* What the summary is made of is in the history.
Made(S, n) == S \subseteq 1..n
SumMade(x, n) == Made(x.covers, n) /\ x.latest <= n

Drawn ==
    /\ Made(thread.covers, Len(messages))
    /\ Made(thread.tail, Len(messages))
    /\ Made(slipped, Len(messages))
    /\ \A x \in rows : SumMade(x, Len(messages))
    /\ \A r \in Requests : SumMade(request[r].summary, Len(messages))

ThreadTyped ==
    thread \in [summarised : BOOLEAN, covers : SUBSET (Nat \ {0}), tail : SUBSET (Nat \ {0})]

\* A step of the summariser.
LEMMA ReturnsFacts ==
    ASSUME NEW r \in Requests, request \in [Requests -> Request], NEW latest, NEW covers, NEW lost,
           Returns(r, latest, covers, lost)
    PROVE  /\ slipped' = slipped \cup lost \cup PassedOver(latest, NewSince(latest))
           /\ \A s \in Requests \ {r} : request'[s].summary = request[s].summary
           /\ request'[r].summary = [covers |-> covers, latest |-> LastOf(NewSince(latest))]
<1> DEFINE sum == [covers |-> covers, latest |-> LastOf(NewSince(latest))]
           found == rows # {}
<1>1. /\ request' = [request EXCEPT ![r].pc = "save", ![r].found = found, ![r].summary = sum]
      /\ slipped' = slipped \cup lost \cup PassedOver(latest, NewSince(latest))
  BY Zenon DEF Returns
<1> HIDE DEF sum, found
<1>2. \A s \in Requests \ {r} : request'[s] = request[s]
  BY <1>1
<1>3. request'[r].summary = sum
  BY <1>1 DEF Request
<1> QED BY <1>1, <1>2, <1>3 DEF sum

LEMMA SaveFacts ==
    ASSUME NEW r \in Requests, request \in [Requests -> Request], SaveSummary(r)
    PROVE  /\ rows' \subseteq rows \cup {request[r].summary}
           /\ UNCHANGED <<messages, thread, slipped>>
           /\ \A s \in Requests : request'[s].summary \in {request[s].summary, NoRow}
<1>1. Goes(r, "done") /\ "done" \in Endings
  BY DEF SaveSummary, Endings
<1>2. OthersKept(r) /\ request'[r].summary = NoRow
  BY <1>1, GoesEffect DEF Has
<1> QED BY <1>2 DEF SaveSummary, OthersKept, Kept

LEMMA StepTyped ==
    ASSUME Typed, [Next]_vars
    PROVE  Typed'
<1>1. Shape
  BY StepShape
<1>2. MessagesTyped' /\ request' \in [Requests -> Request] /\ \A r \in Requests : Named(r)'
  BY <1>1, GrowthTyped, NamedStays DEF Shape
<1>3. faults' \in Nat
  BY FaultsTyped DEF Typed
<1>4. rows' \subseteq Summary /\ ThreadTyped' /\ slipped' \subseteq Nat \ {0}
  <2> USE DEF ThreadTyped
  <2>0. rows \subseteq Summary /\ ThreadTyped /\ slipped \subseteq Nat \ {0}
        /\ request \in [Requests -> Request]
    BY DEF Typed
  <2>1. CASE UNCHANGED <<rows, thread, slipped>>
    BY <2>0, <2>1
  <2>2. ASSUME NEW r \in Requests, SaveSummary(r)
        PROVE  rows' \subseteq Summary /\ ThreadTyped' /\ slipped' \subseteq Nat \ {0}
    <3>1. request[r].summary \in Summary
      BY <2>0 DEF Request
    <3> QED BY <2>0, <2>2, <3>1, SaveFacts
  <2>3. ASSUME NEW r \in Requests, Summarise(r)
        PROVE  rows' \subseteq Summary /\ ThreadTyped' /\ slipped' \subseteq Nat \ {0}
    <3>1. PICK latest \in Latests :
             \/ SummaryFails(r, latest)
             \/ SummaryStands(r, latest)
             \/ \E covers : Compresses(r, latest, covers)
      BY <2>3, SummariseCases
    <3>2. latest \in Nat /\ rows' = rows
      BY <2>3, LatestTyped, SummariseCases
    <3>3. NewSince(latest) \subseteq Nat \ {0} /\ Known(latest) \subseteq Nat \ {0}
      BY <2>0, <3>2, NewSinceTyped DEF Known
    <3>4. PassedOver(latest, NewSince(latest)) \subseteq Nat \ {0}
      BY LenTyped DEF PassedOver
    <3>5. CASE SummaryFails(r, latest)
      BY <2>0, <3>2, <3>3, <3>5 DEF SummaryFails
    <3>6. CASE SummaryStands(r, latest)
      <4>1. slipped' = slipped \cup NewSince(latest) \cup PassedOver(latest, NewSince(latest))
        <5>1. Returns(r, latest, thread.covers, NewSince(latest))
          BY <3>6 DEF SummaryStands
        <5> QED BY <5>1, Zenon DEF Returns
      <4>2. thread' = [thread EXCEPT !.tail = Known(latest)]
        BY <3>6 DEF SummaryStands
      <4>3. ThreadTyped'
        BY <2>0, <3>3, <4>2
      <4>4. slipped' \subseteq Nat \ {0}
        BY <2>0, <3>3, <3>4, <4>1, Zenon
      <4> QED BY <2>0, <3>2, <4>3, <4>4
    <3>7. CASE \E covers : Compresses(r, latest, covers)
      <4>1. PICK covers : Compresses(r, latest, covers)
        BY <3>7
      <4>2. covers \subseteq Nat \ {0} /\ Keeps(latest) \subseteq Nat \ {0}
        BY <3>2, <4>1, CompressTyped
      <4>3. slipped' = slipped \cup ((thread.covers \cup Known(latest)) \ covers)
                               \cup PassedOver(latest, NewSince(latest))
        <5>1. Returns(r, latest, covers, (thread.covers \cup Known(latest)) \ covers)
          BY <4>1 DEF Compresses
        <5> QED BY <5>1, Zenon DEF Returns
      <4>4. thread' = [summarised |-> TRUE, covers |-> covers, tail |-> Keeps(latest)]
        BY <4>1 DEF Compresses
      <4>5. ThreadTyped'
        BY <4>2, <4>4
      <4>6. slipped' \subseteq Nat \ {0}
        <5>1. thread.covers \subseteq Nat \ {0}
          BY <2>0
        <5> QED BY <2>0, <3>3, <3>4, <4>3, <5>1, Zenon
      <4> QED BY <2>0, <3>2, <4>5, <4>6
    <3> QED BY <3>1, <3>5, <3>6, <3>7
  <2> QED BY <2>1, <2>2, <2>3, SummaryOwned
<1> QED BY <1>2, <1>3, <1>4 DEF Typed, ThreadTyped

LEMMA AlwaysTyped == Spec => []Typed
<1>1. Init => Typed
  BY InitTyped
<1>2. Typed /\ [Next]_vars => Typed'
  BY StepTyped
<1> QED BY <1>1, <1>2, PTL DEF Spec

-----------------------------------------------------------------------------
(* Why a reply is empty: whoever lets go of one leaves a mark on it. *)

LEMMA InitEmpty == Init => EmptyReplyHasACause
<1> SUFFICES ASSUME Init, NEW m \in Stored \ Full
             PROVE  FALSE
  BY DEF EmptyReplyHasACause
<1>1. messages = <<>> \/ messages[m].full = TRUE
  BY DEF Init, ChatInit, Stored, Ids
<1> QED BY <1>1 DEF Stored, Ids, Full

\* A message that was there and is empty was empty before.
LEMMA EmptyBefore ==
    ASSUME Typed, Rewrites \/ \E new : Grown(new), NEW m \in 1..Len(messages)
    PROVE  /\ m \in Stored' => m \in Stored
           /\ m \in Stored' \ Full' => m \in Stored \ Full
           /\ messages[m].left # "no" => messages'[m].left # "no"
           /\ messages'[m].answers = messages[m].answers
           /\ messages'[m].raced = messages[m].raced
<1>1. Rewritten(m)
  <2>1. CASE Rewrites
    BY <2>1 DEF Rewrites
  <2>2. CASE \E new : Grown(new)
    <3>1. messages'[m] = messages[m]
      BY <2>2, GrownTyped DEF Typed
    <3> QED BY <3>1 DEF Rewritten
  <2> QED BY <2>1, <2>2
<1>2. m \in Ids
  BY LenTyped
<1> QED BY <1>1, <1>2 DEF Rewritten, Stored, Full, Ids

LEMMA StepEmpty ==
    ASSUME Typed, [Next]_vars, EmptyReplyHasACause
    PROVE  EmptyReplyHasACause'
<1>1. Shape /\ MessagesTyped'
  BY StepShape, GrowthTyped
<1> SUFFICES ASSUME NEW m \in Stored' \ Full'
             PROVE  (\E r \in Requests : request'[r].reply = m) \/ messages'[m].left # "no"
  BY DEF EmptyReplyHasACause
<1>2. m \in 1..Len(messages')
  BY <1>1 DEF Stored, Ids, MessagesTyped
<1>3. CASE m \in 1..Len(messages)
  <2>1. m \in Stored \ Full /\ (messages[m].left # "no" => messages'[m].left # "no")
    BY <1>1, <1>3, EmptyBefore DEF Shape
  <2>2. CASE messages[m].left # "no"
    BY <2>1, <2>2
  <2>3. CASE \E r \in Requests : request[r].reply = m
    <3>1. PICK r \in Requests : request[r].reply = m
      BY <2>3
    <3>2. m # 0 /\ At(r, "model")
      BY <1>3, <3>1 DEF Typed, Named, At
    <3>3. ~messages'[m].full /\ ~messages'[m].gone
      BY DEF Stored, Full
    <3>4. Handled(m) => messages'[m].left # "no"
      BY <3>2, <3>3 DEF Handled
    <3>5. Kept(r) \/ Ends(r) \/ LetsGo(r)
      BY <1>1, <3>2 DEF Shape, Moves, Begins, Reads, Asks, Places, Summarises, At
    <3>6. CASE Kept(r)
      BY <3>1, <3>6 DEF Kept
    <3> QED BY <3>1, <3>4, <3>5, <3>6 DEF Ends, LetsGo
  <2> QED BY <2>1, <2>2, <2>3 DEF EmptyReplyHasACause
<1>4. CASE m \notin 1..Len(messages)
  <2>1. PICK new : Grown(new) /\ Cause(new)
    BY <1>1, <1>2, <1>4 DEF Shape, Rewrites
  <2>2. m = Len(messages) + 1 /\ messages'[m] = new
    BY <1>2, <1>4, <2>1, GrownTyped DEF Typed
  <2>3. ~new.full
    BY <2>2 DEF Stored, Full
  <2> QED BY <2>1, <2>2, <2>3 DEF Cause
<1> QED BY <1>3, <1>4

\* A reply that is empty is being worked on, or was let go of in a way that leaves
\* it: an error event, a crash, an error of the database or a client that has left
\* (chat_stream.py, for every interleaving of requests and every moment of a crash).
THEOREM EmptyRepliesHaveACause == Spec => []EmptyReplyHasACause
<1>1. Init => EmptyReplyHasACause
  BY InitEmpty
<1>2. Typed /\ [Next]_vars /\ EmptyReplyHasACause => EmptyReplyHasACause'
  BY StepEmpty
<1> QED BY <1>1, <1>2, AlwaysTyped, PTL DEF Spec

-----------------------------------------------------------------------------
(* Why a message has two replies.  A request that is about to place its reply  *)
(* has read the history before any reply to its message was there: the history *)
(* ended with that message, or the message is its own.                         *)

Unseen(r) ==
    At(r, "place") =>
        \A m \in Stored : messages[m].answers = request[r].user => m > request[r].seen

Replies ==
    /\ \A r \in Requests : Unseen(r)
    /\ \A m \in Ids : messages[m].answers # 0 => messages[m].raced

LEMMA InitReplies == Init => Replies
<1> SUFFICES ASSUME Init PROVE Replies
    OBVIOUS
<1>1. \A r \in Requests : request[r].pc = "idle"
  BY DEF Init, ChatInit, IdleRequest
<1>2. messages = <<>> \/ \A m \in Ids : messages[m].answers = 0
  BY DEF Init, ChatInit, Ids
<1> QED BY <1>1, <1>2 DEF Replies, Unseen, At, Ids

LEMMA UnseenStays ==
    ASSUME Typed, Shape, NEW r \in Requests, Unseen(r)
    PROVE  Unseen(r)'
<1> SUFFICES ASSUME request'[r].pc = "place", NEW m \in Stored',
                    messages'[m].answers = request'[r].user
             PROVE  m > request'[r].seen
  BY DEF Unseen, At
<1>1. Moves(r) /\ Named(r) /\ request[r] \in Request /\ Len(messages) \in Nat
  BY LenTyped DEF Typed, Shape
<1>2. m \in 1..Len(messages')
  BY GrowthTyped DEF MessagesTyped, Stored, Ids
<1>3. m \in 1..Len(messages) =>
         m \in Stored /\ messages'[m].answers = messages[m].answers /\ messages[m].answers < m
  BY EmptyBefore DEF Shape, Typed, MessagesTyped
<1>4. CASE Kept(r)
  <2>1. CASE m \in 1..Len(messages)
    BY <1>3, <1>4, <2>1 DEF Unseen, At, Kept
  <2>2. CASE m \notin 1..Len(messages)
    BY <1>1, <1>2, <1>4, <2>2 DEF Named, Kept, Request
  <2> QED BY <2>1, <2>2
<1>5. CASE Reads(r)
  <2>1. m \in Stored /\ messages[m].answers = LastOf(Stored) /\ messages[m].answers < m
    BY <1>2, <1>3, <1>5 DEF Reads, Has
  <2>2. m <= LastOf(Stored)
    BY <1>1, <2>1, LastExists, LenTyped
  <2>3. LastOf(Stored) \in 1..Len(messages) /\ m \in 1..Len(messages)
    BY <1>1, <2>1, LastExists, LenTyped
  <2> QED BY <2>1, <2>2, <2>3
<1>6. CASE Asks(r)
  <2>1. PICK new : Grown(new) /\ new.answers = 0
    BY <1>6 DEF Asks
  <2>2. messages'[m].answers = Len(messages) + 1
    BY <1>6 DEF Asks, Has
  <2>3. m \in 1..Len(messages)
    BY <1>1, <1>2, <2>1, <2>2, GrownTyped DEF Typed
  <2>4. messages[m].answers \in Nat
    BY <2>3, AMessage DEF Typed, Message
  <2> QED BY <1>1, <1>3, <2>2, <2>3, <2>4
<1> QED BY <1>1, <1>4, <1>5, <1>6 DEF Moves, Has, Ends, Begins, Places, LetsGo, Summarises, Endings

LEMMA StepReplies ==
    ASSUME Typed, [Next]_vars, Replies
    PROVE  Replies'
<1>1. Shape /\ MessagesTyped'
  BY StepShape, GrowthTyped
<1>2. \A r \in Requests : Unseen(r)'
  BY <1>1, UnseenStays DEF Replies
<1>3. ASSUME NEW m \in Ids', messages'[m].answers # 0
      PROVE  messages'[m].raced
  <2>1. m \in 1..Len(messages')
    BY <1>1 DEF Ids, MessagesTyped
  <2>2. CASE m \in 1..Len(messages)
    <3>1. messages'[m].answers = messages[m].answers /\ messages'[m].raced = messages[m].raced
      BY <1>1, <2>2, EmptyBefore DEF Shape
    <3>2. m \in Ids
      BY <2>2, LenTyped
    <3> QED BY <1>3, <3>1, <3>2 DEF Replies
  <2>3. CASE m \notin 1..Len(messages)
    <3>1. PICK new : Grown(new) /\ Cause(new)
      BY <1>1, <2>1, <2>3 DEF Shape, Rewrites
    <3>2. messages'[m] = new
      BY <2>1, <2>3, <3>1, GrownTyped DEF Typed
    <3>3. PICK r \in Requests : ReplyOf(new, r)
      BY <1>3, <3>1, <3>2 DEF Cause
    <3>4. \A n \in Answered(request[r].user) : n > request[r].seen
      BY <3>3 DEF ReplyOf, Replies, Unseen, Answered
    <3>5. new.raced
      BY <3>3, <3>4, Zenon DEF ReplyOf
    <3> QED BY <3>2, <3>5
  <2> QED BY <2>2, <2>3
<1> QED BY <1>2, <1>3 DEF Replies

\* A message gets a second reply only from requests begun side by side, each before
\* the reply of the other could be seen (chat_stream.py refuses an automatic
\* request whose history ends with a reply, be it empty).
THEOREM DoubleRepliesAreRaces == Spec => []DoubleRepliesHaveACause
<1>1. Init => Replies
  BY InitReplies
<1>2. Typed /\ [Next]_vars /\ Replies => Replies'
  BY StepReplies
<1>3. Replies => DoubleRepliesHaveACause
  BY DEF Replies, DoubleRepliesHaveACause, Stored
<1> QED BY <1>1, <1>2, <1>3, AlwaysTyped, PTL DEF Spec

-----------------------------------------------------------------------------
(* What the prompts forget.  Every summary, stored or on its way, covers what   *)
(* was in the history up to its newest message, but for what was let slip, and  *)
(* the thread knows what any summary covers.                                    *)

Held(x) ==
    /\ x.covers \subseteq thread.covers \cup slipped
    /\ \A m \in Stored : m <= x.latest => m \in x.covers \cup slipped

Summaries ==
    /\ Drawn
    /\ \A x \in rows : Held(x)
    /\ \A r \in Requests : Held(request[r].summary)

\* What a step of the summariser that gives a summary back comes to.
Gives(r, latest, covers, lost) ==
    /\ latest \in Latests /\ NewSince(latest) # {}
    /\ rows' = rows /\ messages' = messages
    /\ covers \cup lost \subseteq thread.covers \cup Known(latest)
    /\ thread.covers \cup NewSince(latest) \subseteq covers \cup lost
    /\ thread'.covers = covers /\ thread'.tail \subseteq Known(latest)
    /\ slipped' = slipped \cup lost \cup PassedOver(latest, NewSince(latest))
    /\ \A s \in Requests \ {r} : request'[s].summary = request[s].summary
    /\ request'[r].summary = [covers |-> covers, latest |-> LastOf(NewSince(latest))]

\* And one that fails: the thread may have taken the messages.
GivesNone(latest) ==
    /\ latest \in Latests
    /\ rows' = rows /\ messages' = messages /\ slipped' = slipped
    /\ thread'.covers = thread.covers
    /\ thread'.tail \subseteq thread.tail \cup Known(latest)
    /\ \A s \in Requests : request'[s].summary \in {request[s].summary, NoRow}

LEMMA SummariseOutcome ==
    ASSUME Typed, NEW r \in Requests, Summarise(r)
    PROVE  \E latest : GivesNone(latest) \/ \E covers, lost : Gives(r, latest, covers, lost)
<1>1. PICK latest \in Latests :
         \/ SummaryFails(r, latest)
         \/ SummaryStands(r, latest)
         \/ \E covers : Compresses(r, latest, covers)
  BY SummariseCases
<1>2. rows' = rows /\ messages' = messages
  BY SummariseCases
<1>3. request \in [Requests -> Request] /\ ThreadTyped
  BY DEF Typed, ThreadTyped
<1>4. CASE SummaryFails(r, latest)
  <2>1. OthersKept(r) /\ request'[r].summary = NoRow
    BY <1>3, <1>4, GoesEffect DEF SummaryFails, Endings, Has
  <2>2. thread'.covers = thread.covers /\ thread'.tail \subseteq thread.tail \cup Known(latest)
    BY <1>3, <1>4 DEF SummaryFails, ThreadTyped
  <2>3. slipped' = slipped
    BY <1>4 DEF SummaryFails
  <2>4. \A s \in Requests : request'[s].summary \in {request[s].summary, NoRow}
    BY <2>1 DEF OthersKept, Kept
  <2>5. GivesNone(latest)
    BY <1>2, <2>2, <2>3, <2>4 DEF GivesNone
  <2> QED BY <2>5
<1>5. CASE SummaryStands(r, latest)
  <2> DEFINE lost == NewSince(latest)
             covers == thread.covers
  <2>1. Returns(r, latest, covers, lost)
    BY <1>5 DEF SummaryStands
  <2>2. /\ slipped' = slipped \cup lost \cup PassedOver(latest, NewSince(latest))
        /\ \A s \in Requests \ {r} : request'[s].summary = request[s].summary
        /\ request'[r].summary = [covers |-> covers, latest |-> LastOf(NewSince(latest))]
    BY <1>3, <2>1, ReturnsFacts
  <2>3. thread' = [thread EXCEPT !.tail = Known(latest)] /\ NewSince(latest) # {}
    BY <1>5 DEF SummaryStands
  <2>4. thread'.covers = covers /\ thread'.tail = Known(latest)
    BY <1>3, <2>3 DEF ThreadTyped
  <2>5. covers \cup lost \subseteq thread.covers \cup Known(latest)
    BY DEF Known
  <2> QED BY <1>2, <2>2, <2>3, <2>4, <2>5 DEF Gives
<1>6. CASE \E covers : Compresses(r, latest, covers)
  <2>1. PICK covers : Compresses(r, latest, covers)
    BY <1>6
  <2> DEFINE lost == (thread.covers \cup Known(latest)) \ covers
  <2>2. Returns(r, latest, covers, lost)
    BY <2>1 DEF Compresses
  <2>3. /\ slipped' = slipped \cup lost \cup PassedOver(latest, NewSince(latest))
        /\ \A s \in Requests \ {r} : request'[s].summary = request[s].summary
        /\ request'[r].summary = [covers |-> covers, latest |-> LastOf(NewSince(latest))]
    BY <1>3, <2>2, ReturnsFacts
  <2>4. /\ NewSince(latest) # {}
        /\ thread' = [summarised |-> TRUE, covers |-> covers, tail |-> Keeps(latest)]
        /\ covers \subseteq thread.covers \cup Known(latest)
    BY <2>1 DEF Compresses
  <2>5. thread'.covers = covers /\ thread'.tail = Keeps(latest)
    BY <2>4
  <2>6. Keeps(latest) \subseteq NewSince(latest)
    <3>1. LastOf(NewSince(latest)) \in NewSince(latest)
      BY <2>4, NewSinceTyped, LatestTyped
    <3> QED BY <3>1 DEF Keeps
  <2>7. thread.covers \cup NewSince(latest) \subseteq covers \cup lost
    BY DEF Known
  <2>8. Keeps(latest) \subseteq Known(latest)
    BY <2>6 DEF Known
  <2>9. Gives(r, latest, covers, lost)
    BY <1>2, <2>3, <2>4, <2>5, <2>7, <2>8 DEF Gives
  <2> QED BY <2>9
<1> QED BY <1>1, <1>4, <1>5, <1>6

\* The shape of a step as far as the summary is concerned.
LEMMA StepSummary ==
    ASSUME Typed, [Next]_vars
    PROVE  \/ /\ UNCHANGED <<thread, slipped>>
              /\ \A x \in rows' : x \in rows \/ \E r \in Requests : x = request[r].summary
              /\ \A r \in Requests : request'[r].summary \in {request[r].summary, NoRow}
           \/ \E latest : GivesNone(latest)
           \/ \E r \in Requests : \E latest, covers, lost : Gives(r, latest, covers, lost)
<1>1. Shape
  BY StepShape
<1>2. ASSUME NEW r \in Requests, SaveSummary(r)
      PROVE  /\ UNCHANGED <<thread, slipped>>
             /\ \A x \in rows' : x \in rows \/ x = request[r].summary
             /\ \A s \in Requests : request'[s].summary \in {request[s].summary, NoRow}
  BY <1>2, SaveFacts DEF Typed
<1>3. ASSUME NEW r \in Requests, ~\E s \in Requests : Summarise(s)
      PROVE  request'[r].summary \in {request[r].summary, NoRow}
  <2>1. Moves(r) /\ ~Summarises(r)
    BY <1>1, <1>3 DEF Shape, Summarises
  <2> QED BY <2>1 DEF Moves, Kept, Ends, Begins, Reads, Asks, Places, LetsGo, Has
<1>4. CASE \E r \in Requests : Summarise(r)
  BY <1>4, SummariseOutcome
<1>5. CASE ~\E r \in Requests : Summarise(r)
  <2>1. UNCHANGED <<rows, thread, slipped>> \/ \E r \in Requests : SaveSummary(r)
    BY <1>5, SummaryOwned
  <2>2. CASE UNCHANGED <<rows, thread, slipped>>
    BY <1>3, <1>5, <2>2
  <2>3. CASE \E r \in Requests : SaveSummary(r)
    BY <1>2, <2>3
  <2> QED BY <2>1, <2>2, <2>3
<1> QED BY <1>4, <1>5

LEMMA InitSummaries == Init => Summaries
<1> SUFFICES ASSUME Init PROVE Summaries
    OBVIOUS
<1>1. /\ slipped = {} /\ thread.covers = {} /\ thread.tail = {}
      /\ \A x \in rows : x = NoRow
      /\ \A r \in Requests : request[r].summary = NoRow
  BY DEF Init, ChatInit, IdleRequest
<1>2. Len(messages) \in Nat /\ Stored \subseteq 1..Len(messages)
  BY InitTyped, LenTyped
<1>3. Held(NoRow) /\ SumMade(NoRow, Len(messages))
  BY <1>2 DEF Held, NoRow, SumMade, Made
<1> QED BY <1>1, <1>3 DEF Summaries, Drawn, Made

LEMMA NoRowHeld ==
    ASSUME Typed
    PROVE  Held(NoRow) /\ SumMade(NoRow, Len(messages))
BY LenTyped DEF Held, NoRow, SumMade, Made

\* A step that lets the thread alone.
LEMMA HeldWithoutThread ==
    ASSUME Typed, Shape, UNCHANGED <<thread, slipped>>, NEW x, x.latest \in Nat,
           SumMade(x, Len(messages)), Held(x)
    PROVE  Held(x)' /\ SumMade(x, Len(messages))'
<1>1. Len(messages) \in Nat /\ Len(messages') \in Nat /\ Len(messages) <= Len(messages')
  BY GrowthTyped
<1>2. ASSUME NEW m \in Stored', m <= x.latest
      PROVE  m \in Stored
  <2>1. m \in 1..Len(messages')
    BY GrowthTyped DEF MessagesTyped, Stored, Ids
  <2>2. m \in 1..Len(messages)
    BY <1>1, <1>2, <2>1 DEF SumMade
  <2> QED BY <2>2, EmptyBefore DEF Shape
<1>3. Held(x)'
  BY <1>2 DEF Held
<1>4. SumMade(x, Len(messages'))
  BY <1>1 DEF SumMade, Made
<1> QED BY <1>3, <1>4

LEMMA SummariesTyped ==
    ASSUME Typed
    PROVE  /\ \A x \in rows : x.latest \in Nat /\ x \in Summary
           /\ \A r \in Requests : request[r].summary.latest \in Nat
BY DEF Typed, Request, Summary

LEMMA KeptSummaries ==
    ASSUME Typed, Typed', Shape, Summaries, UNCHANGED <<thread, slipped>>,
           \A x \in rows' : x \in rows \/ \E r \in Requests : x = request[r].summary,
           \A r \in Requests : request'[r].summary \in {request[r].summary, NoRow}
    PROVE  Summaries'
<1>1. \A x \in rows : Held(x)' /\ SumMade(x, Len(messages))'
  BY HeldWithoutThread, SummariesTyped DEF Summaries, Drawn
<1>2. \A r \in Requests : /\ Held(request[r].summary) /\ SumMade(request[r].summary, Len(messages))
                          /\ request[r].summary.latest \in Nat
  BY SummariesTyped DEF Summaries, Drawn
<1>3. ASSUME NEW x, \E r \in Requests : x = request[r].summary
      PROVE  Held(x)' /\ SumMade(x, Len(messages))'
  BY <1>2, <1>3, HeldWithoutThread
<1>4. Held(NoRow)' /\ SumMade(NoRow, Len(messages))'
  <2>1. Held(NoRow) /\ SumMade(NoRow, Len(messages)) /\ NoRow.latest \in Nat
    BY NoRowHeld DEF NoRow
  <2> QED BY <2>1, HeldWithoutThread
<1>5. \A x \in rows' : Held(x)' /\ SumMade(x, Len(messages))'
  BY <1>1, <1>3
<1>6. ASSUME NEW r \in Requests
      PROVE  Held(request[r].summary)' /\ SumMade(request[r].summary, Len(messages))'
  <2> DEFINE x == request'[r].summary
  <2>1. x = NoRow \/ \E s \in Requests : x = request[s].summary
    OBVIOUS
  <2>2. ASSUME NEW y, y = NoRow \/ \E s \in Requests : y = request[s].summary
        PROVE  Held(y)' /\ SumMade(y, Len(messages))'
    BY <1>3, <1>4, <2>2
  <2>3. /\ x.covers \subseteq thread'.covers \cup slipped'
        /\ \A m \in Stored' : m <= x.latest => m \in x.covers \cup slipped'
        /\ SumMade(x, Len(messages'))
    BY <2>1, <2>2 DEF Held
  <2> QED BY <2>3 DEF Held
<1>7. Made(thread'.covers, Len(messages')) /\ Made(thread'.tail, Len(messages'))
      /\ Made(slipped', Len(messages'))
  <2>1. Len(messages) \in Nat /\ Len(messages') \in Nat /\ Len(messages) <= Len(messages')
    BY GrowthTyped
  <2> QED BY <2>1 DEF Made, Summaries, Drawn
<1> QED BY <1>5, <1>6, <1>7 DEF Summaries, Drawn

\* A step of the summariser that gives nothing back.
LEMMA GivesNoneSummaries ==
    ASSUME Typed, Summaries, NEW latest, GivesNone(latest)
    PROVE  Summaries'
<1>1. Stored' = Stored /\ messages' = messages
  BY DEF GivesNone, Stored, Ids
<1>2. \A x : Held(x) <=> /\ x.covers \subseteq thread'.covers \cup slipped'
                          /\ \A m \in Stored' : m <= x.latest => m \in x.covers \cup slipped'
  BY <1>1 DEF Held, GivesNone
<1>3. Made(thread'.tail, Len(messages'))
  <2>1. NewSince(latest) \subseteq 1..Len(messages)
    BY NewSinceTyped, LatestTyped DEF GivesNone
  <2> QED BY <1>1, <2>1 DEF GivesNone, Known, Made, Summaries, Drawn
<1>4. \A r \in Requests : Held(request'[r].summary) /\ SumMade(request'[r].summary, Len(messages))
  BY NoRowHeld DEF GivesNone, Summaries, Drawn
<1>5. \A r \in Requests : Held(request[r].summary)'
  BY <1>2, <1>4 DEF Held
<1>6. \A x \in rows' : Held(x)' /\ SumMade(x, Len(messages))'
  BY <1>1, <1>2 DEF Held, GivesNone, Summaries, Drawn
<1>7. Made(thread'.covers, Len(messages')) /\ Made(slipped', Len(messages'))
  BY <1>1 DEF GivesNone, Summaries, Drawn
<1> QED BY <1>1, <1>3, <1>4, <1>5, <1>6, <1>7 DEF Summaries, Drawn

\* One that gives a summary back: what it does not cover has been let slip.
LEMMA GivesSummaries ==
    ASSUME Typed, Summaries, NEW r \in Requests, NEW latest, NEW covers, NEW lost,
           Gives(r, latest, covers, lost)
    PROVE  Summaries'
<1> DEFINE new == NewSince(latest)
           sum == [covers |-> covers, latest |-> LastOf(new)]
           n == Len(messages)
<1>1. Stored' = Stored /\ messages' = messages /\ rows' = rows
  BY DEF Gives, Stored, Ids
<1>2. /\ latest \in Nat /\ n \in Nat /\ Stored \subseteq 1..n
      /\ new \subseteq 1..n /\ LastOf(new) \in 1..n
  BY NewSinceTyped, LatestTyped, LenTyped DEF Gives
<1>3. thread.covers \cup slipped \subseteq thread'.covers \cup slipped'
      /\ slipped \subseteq slipped'
  BY DEF Gives
<1>4. ASSUME NEW x, Held(x)
      PROVE  /\ x.covers \subseteq thread'.covers \cup slipped'
             /\ \A m \in Stored' : m <= x.latest => m \in x.covers \cup slipped'
  BY <1>1, <1>3, <1>4 DEF Held
<1>5. \A m \in Stored : m <= latest => m \in thread.covers \cup slipped
  <2>1. CASE rows = {}
    <3>1. latest = 0
      BY <2>1 DEF Gives, Latests
    <3> QED BY <1>2, <3>1
  <2>2. CASE rows # {}
    <3>1. PICK x \in rows : latest = x.latest
      BY <2>2 DEF Gives, Latests
    <3> QED BY <3>1 DEF Summaries, Held
  <2> QED BY <2>1, <2>2
<1>6. \A m \in Stored : m <= LastOf(new) => m \in covers \cup slipped'
  <2> TAKE m \in Stored
  <2> HAVE m <= LastOf(new)
  <2>1. CASE m <= latest
    BY <1>3, <1>5, <2>1 DEF Gives
  <2>2. CASE m > latest /\ m \in Full
    <3>1. m \in new
      BY <2>2 DEF NewSince
    <3> QED BY <3>1 DEF Gives
  <2>3. CASE m > latest /\ m \notin Full
    <3>1. LastOf(new) \in Full
      BY <1>2, NewSinceTyped DEF Gives, NewSince
    <3>2. m < LastOf(new)
      BY <1>2, <2>3, <3>1
    <3>3. m \in PassedOver(latest, new)
      BY <2>3, <3>2 DEF PassedOver
    <3> QED BY <3>3 DEF Gives
  <2> QED BY <1>2, <2>1, <2>2, <2>3
<1>7. /\ Made(thread.covers, n) /\ Made(thread.tail, n) /\ Made(slipped, n)
  BY DEF Summaries, Drawn
<1>8. /\ covers \subseteq 1..n /\ lost \subseteq 1..n /\ Known(latest) \subseteq 1..n
      /\ PassedOver(latest, new) \subseteq 1..n
  BY <1>2, <1>7 DEF Gives, Known, Made, PassedOver
<1>9. SumMade(sum, n)
  BY <1>2, <1>8 DEF SumMade, Made
<1>10. ASSUME NEW s \in Requests
       PROVE  Held(request[s].summary)' /\ SumMade(request'[s].summary, n)
  <2>1. CASE s = r
    <3>1. request'[s].summary = sum /\ thread'.covers = covers
      BY <2>1 DEF Gives
    <3> QED BY <1>1, <1>6, <1>9, <3>1 DEF Held
  <2>2. CASE s # r
    <3>1. request'[s].summary = request[s].summary
      BY <2>2 DEF Gives
    <3>2. Held(request[s].summary) /\ SumMade(request[s].summary, n)
      BY DEF Summaries, Drawn
    <3> QED BY <1>4, <3>1, <3>2 DEF Held
  <2> QED BY <2>1, <2>2
<1>11. \A x \in rows' : Held(x)' /\ SumMade(x, n)
  BY <1>1, <1>4 DEF Held, Summaries, Drawn
<1>12. Made(thread'.covers, n) /\ Made(thread'.tail, n) /\ Made(slipped', n)
  BY <1>7, <1>8 DEF Gives, Made
<1> QED BY <1>1, <1>10, <1>11, <1>12 DEF Summaries, Drawn

LEMMA AlwaysSummaries == Spec => []Summaries
<1>1. Init => Summaries
  BY InitSummaries
<1>2. Typed /\ [Next]_vars /\ Summaries => Summaries'
  BY StepSummary, StepTyped, StepShape, KeptSummaries, GivesNoneSummaries, GivesSummaries
<1> QED BY <1>1, <1>2, AlwaysTyped, PTL DEF Spec

\* A message that is stored is in the prompt of the next request, as itself or in
\* the summary, unless the summariser let it go (summarizer_service.py, with two
\* rows, summaries saved in any order, and replies filled after they were passed).
THEOREM PromptsForgetNothingElse == Spec => []ForgottenHaveACause
<1>1. Typed /\ Summaries => ForgottenHaveACause
  BY DEF Summaries, Held, ForgottenHaveACause, Full
<1> QED BY <1>1, AlwaysTyped, AlwaysSummaries, PTL

-----------------------------------------------------------------------------
(* The type invariant of the page and the server. *)

TabTyped(q) == "stream" \in DOMAIN q /\ q.stream \in Requests \cup {None}
TabsTyped == DOMAIN tab = Tabs /\ \A t \in Tabs : TabTyped(tab[t])

LEMMA OneTab ==
    ASSUME TabsTyped, NEW t \in Tabs, NEW q, TabTyped(q), tab' = [tab EXCEPT ![t] = q]
    PROVE  TabsTyped'
<1>1. DOMAIN tab' = Tabs /\ \A u \in Tabs : tab'[u] = IF u = t THEN q ELSE tab[u]
  BY DEF TabsTyped
<1> QED BY <1>1 DEF TabsTyped

LEMMA InitTabs == Init => TabsTyped
<1> SUFFICES ASSUME Init PROVE TabsTyped
    OBVIOUS
<1>1. TabTyped(FreshTab)
  BY DEF TabTyped, FreshTab
<1>2. tab = [t \in Tabs |-> FreshTab]
  BY DEF Init
<1> QED BY <1>1, <1>2 DEF TabsTyped

LEMMA FieldsOfATab ==
    ASSUME TabsTyped, NEW t \in Tabs, NEW v, NEW g, NEW s \in Requests \cup {None},
           \/ tab' = [tab EXCEPT ![t].loaded = TRUE, ![t].view = v]
           \/ tab' = [tab EXCEPT ![t].loaded = TRUE]
           \/ tab' = [tab EXCEPT ![t].view = v]
           \/ tab' = [tab EXCEPT ![t].stream = s, ![t].triggered = g]
           \/ tab' = [tab EXCEPT ![t].stream = s, ![t].view = v]
           \/ tab' = [tab EXCEPT ![t].stream = s]
    PROVE  TabsTyped'
<1>1. DOMAIN tab = Tabs /\ TabTyped(tab[t])
  BY DEF TabsTyped
<1>2. CASE tab' = [tab EXCEPT ![t].loaded = TRUE, ![t].view = v]
  <2>1. tab' = [tab EXCEPT ![t] = [tab[t] EXCEPT !.loaded = TRUE, !.view = v]]
    BY <1>1, <1>2
  <2>2. TabTyped([tab[t] EXCEPT !.loaded = TRUE, !.view = v])
    BY <1>1 DEF TabTyped
  <2> QED BY <2>1, <2>2, OneTab
<1>3. CASE tab' = [tab EXCEPT ![t].loaded = TRUE]
  <2>1. tab' = [tab EXCEPT ![t] = [tab[t] EXCEPT !.loaded = TRUE]]
    BY <1>1, <1>3
  <2>2. TabTyped([tab[t] EXCEPT !.loaded = TRUE])
    BY <1>1 DEF TabTyped
  <2> QED BY <2>1, <2>2, OneTab
<1>4. CASE tab' = [tab EXCEPT ![t].view = v]
  <2>1. tab' = [tab EXCEPT ![t] = [tab[t] EXCEPT !.view = v]]
    BY <1>1, <1>4
  <2>2. TabTyped([tab[t] EXCEPT !.view = v])
    BY <1>1 DEF TabTyped
  <2> QED BY <2>1, <2>2, OneTab
<1>5. CASE tab' = [tab EXCEPT ![t].stream = s, ![t].triggered = g]
  <2>1. tab' = [tab EXCEPT ![t] = [tab[t] EXCEPT !.stream = s, !.triggered = g]]
    BY <1>1, <1>5
  <2>2. TabTyped([tab[t] EXCEPT !.stream = s, !.triggered = g])
    BY <1>1 DEF TabTyped
  <2> QED BY <2>1, <2>2, OneTab
<1>6. CASE tab' = [tab EXCEPT ![t].stream = s, ![t].view = v]
  <2>1. tab' = [tab EXCEPT ![t] = [tab[t] EXCEPT !.stream = s, !.view = v]]
    BY <1>1, <1>6
  <2>2. TabTyped([tab[t] EXCEPT !.stream = s, !.view = v])
    BY <1>1 DEF TabTyped
  <2> QED BY <2>1, <2>2, OneTab
<1>7. CASE tab' = [tab EXCEPT ![t].stream = s]
  <2>1. tab' = [tab EXCEPT ![t] = [tab[t] EXCEPT !.stream = s]]
    BY <1>1, <1>7
  <2>2. TabTyped([tab[t] EXCEPT !.stream = s])
    BY <1>1 DEF TabTyped
  <2> QED BY <2>1, <2>2, OneTab
<1> QED BY <1>2, <1>3, <1>4, <1>5, <1>6, <1>7

LEMMA StepTabs ==
    ASSUME [Next]_vars, TabsTyped
    PROVE  TabsTyped'
<1>1. CASE UNCHANGED tab
  BY <1>1 DEF TabsTyped
<1>2. ASSUME NEW t \in Tabs, PageStep(t) \/ LoadFails(t) \/ SendMessage(t) \/ Reload(t) \/ Timeout(t)
      PROVE  TabsTyped'
  <2>1. CASE LoadHistory(t) \/ LoadFails(t) \/ Poll(t)
    BY <2>1, FieldsOfATab DEF LoadHistory, LoadFails, Poll
  <2>2. CASE AutoTrigger(t)
    <3>1. PICK r \in Requests : tab' = [tab EXCEPT ![t].stream = r, ![t].triggered = LastShown(t).seq]
      BY <2>2 DEF AutoTrigger
    <3> QED BY <3>1, FieldsOfATab
  <2>3. CASE SendMessage(t)
    <3>1. PICK r \in Requests :
             tab' = [tab EXCEPT ![t].stream = r, ![t].view = Append(@, Own(t, "user"))]
      BY <2>3 DEF SendMessage
    <3>2. \E v : tab' = [tab EXCEPT ![t].stream = r, ![t].view = v]
      BY <3>1
    <3> QED BY <3>2, FieldsOfATab
  <2>4. CASE StreamEnds(t)
    <3>1. \E v : tab' = [tab EXCEPT ![t].stream = None, ![t].view = v]
      BY <2>4 DEF StreamEnds
    <3> QED BY <3>1, FieldsOfATab
  <2>5. CASE StreamFails(t)
    <3>1. \E v : tab' = [tab EXCEPT ![t].stream = None, ![t].view = v]
      BY <2>5 DEF StreamFails
    <3> QED BY <3>1, FieldsOfATab
  <2>6. CASE Timeout(t)
    BY <2>6, FieldsOfATab DEF Timeout
  <2>7. CASE Reload(t)
    <3>1. tab' = [tab EXCEPT ![t] = FreshTab] /\ TabTyped(FreshTab)
      BY <2>7 DEF Reload, TabTyped, FreshTab
    <3> QED BY <3>1, OneTab
  <2> QED BY <1>2, <2>1, <2>2, <2>3, <2>4, <2>5, <2>6, <2>7 DEF PageStep
<1> QED BY <1>1, <1>2 DEF Next

\* The type invariant: what a message answers and what a summary covers is in the
\* history, whatever is deleted or refused on the way.
THEOREM PageTypeCorrect == Spec => []TypeOK
<1>1. Init => TabsTyped
  BY InitTabs
<1>2. TabsTyped /\ [Next]_vars => TabsTyped'
  BY StepTabs
<1>3. Typed /\ Summaries /\ TabsTyped => TypeOK
  <2> SUFFICES ASSUME Typed, Summaries, TabsTyped PROVE TypeOK
    OBVIOUS
  <2>1. Len(messages) \in Nat /\ Ids = 1..Len(messages)
    BY LenTyped
  <2>2. \A m \in Ids : messages[m] \in
           [role : {"user", "assistant"}, full : BOOLEAN, gone : BOOLEAN, seq : Nat \ {0},
            answers : {0} \cup Ids, raced : BOOLEAN,
            left : {"no", "error event", "fault", "crash", "client"}]
    <3> TAKE m \in Ids
    <3>1. messages[m] \in Message /\ messages[m].answers < m
      BY <2>1, AMessage DEF Typed, MessagesTyped
    <3>2. messages[m].answers \in {0} \cup Ids
      <4>1. messages[m].answers \in Nat /\ m \in 1..Len(messages)
        BY <2>1, <3>1 DEF Message
      <4>2. messages[m].answers = 0 \/ messages[m].answers \in 1..Len(messages)
        BY <2>1, <3>1, <4>1
      <4> QED BY <2>1, <4>2
    <3> QED BY <3>1, <3>2 DEF Message
  <2>3. rows \subseteq [covers : SUBSET Ids, latest : {0} \cup Ids]
    <3> SUFFICES ASSUME NEW x \in rows
                 PROVE  x \in [covers : SUBSET Ids, latest : {0} \cup Ids]
      OBVIOUS
    <3>1. x \in Summary /\ x.covers \subseteq Ids /\ x.latest <= Len(messages)
      BY <2>1 DEF Typed, Summaries, Drawn, SumMade, Made
    <3>2. x.latest \in {0} \cup Ids
      BY <2>1, <3>1 DEF Summary
    <3> QED BY <3>1, <3>2 DEF Summary
  <2>4. thread \in [summarised : BOOLEAN, covers : SUBSET Ids, tail : SUBSET Ids] /\ slipped \subseteq Ids
    BY <2>1 DEF Typed, Summaries, Drawn, Made
  <2>5. \A r \in Requests : request[r].pc \in {"idle"} \cup InHandler \cup InTask \cup Endings
    BY DEF Typed, Request, Steps
  <2>6. \A t \in Tabs : tab[t].stream \in Requests \cup {None}
    BY DEF TabsTyped, TabTyped
  <2> QED BY <2>2, <2>3, <2>4, <2>5, <2>6 DEF TypeOK
<1> QED BY <1>1, <1>2, <1>3, AlwaysTyped, AlwaysSummaries, PTL DEF Spec

=============================================================================
