--------------------------- MODULE EventFlow_proofs ---------------------------
(***************************************************************************)
(* What the run of EventFlow checks about an event on its way to the        *)
(* browser, proved for any number of processes, any script of the pod, any  *)
(* size of its queue and any number of attempts, connections and mishaps.   *)
(* The open transaction is what makes the invariants hard: its rows are in  *)
(* the timeline before its change is in the state, and its change is        *)
(* published before it is committed.  Written says what of it is out, and   *)
(* the timeline replays to the state with that put over it.                 *)
(***************************************************************************)
EXTENDS EventFlow, FiniteSetTheorems, SequenceTheorems, WellFoundedInduction, TLAPS

-----------------------------------------------------------------------------
(* What the folds over rows and messages compute.                           *)

LEMMA LeastOf ==
    ASSUME NEW S, S \subseteq Nat, S # {}
    PROVE  \E m \in S : \A k \in S : m <= k
<1> DEFINE R == OpToRel(<, Nat)
<1>1. PICK m \in S : \A j \in S : ~(<<j, m>> \in R)
  <2> HIDE DEF R
  <2>1. IsWellFoundedOn(R, Nat)
    BY NatLessThanWellFounded DEF R
  <2> QED BY <2>1, WFMin
<1>2. \A j \in S : ~(j < m)
  <2> TAKE j \in S
  <2>1. j \in Nat /\ m \in Nat
    OBVIOUS
  <2> QED BY <1>1, <2>1 DEF OpToRel
<1>3. \A j \in S : m <= j
  BY <1>2
<1> QED BY <1>3

LEMMA LastIsMax ==
    ASSUME NEW n \in Nat, NEW s \in SUBSET (1..n), n \in s
    PROVE  Max(s) = n
<1>1. \A x \in s : n >= x
  OBVIOUS
<1>2. \A x \in s : (\A y \in s : x >= y) => x = n
  OBVIOUS
<1> QED BY <1>1, <1>2 DEF Max

\* The two folds of the model, of messages over a view and of rows over a state.
Step(fold, acc, x) == IF fold = "view" THEN Show(acc, x) ELSE ApplyChanges(acc, x)

\* it[1..n] is what the fold makes of the first n elements of rows.
Solves(fold, it, st, rows, n) ==
    it = [s \in SUBSET (1..n) |->
             IF s = {} THEN st ELSE Step(fold, it[s \ {Max(s)}], rows[Max(s)])]

LEMMA SolvesAt ==
    ASSUME NEW fold, NEW st, NEW rows, NEW n \in Nat, NEW it, Solves(fold, it, st, rows, n)
    PROVE  /\ it[{}] = st
           /\ \A k \in 1..n : it[1..k] = Step(fold, it[1..(k - 1)], rows[k])
<1>1. it[{}] = st
  BY Zenon DEF Solves
<1>2. ASSUME NEW k \in 1..n
      PROVE  it[1..k] = Step(fold, it[1..(k - 1)], rows[k])
  <2>1. k \in Nat /\ 1..k \in SUBSET (1..n) /\ k \in 1..k
    OBVIOUS
  <2>2. 1..k # {} /\ (1..k) \ {k} = 1..(k - 1) /\ 1..k \in SUBSET (1..k)
    BY <2>1
  <2>3. Max(1..k) = k
    BY <2>1, <2>2, LastIsMax
  <2>4. it[1..k] = IF 1..k = {} THEN st
                   ELSE Step(fold, it[(1..k) \ {Max(1..k)}], rows[Max(1..k)])
    BY <2>1, Zenon DEF Solves
  <2> QED BY <2>2, <2>3, <2>4, Zenon
<1> QED BY <1>1, <1>2

LEMMA Solvable ==
    ASSUME NEW fold, NEW st, NEW rows
    PROVE  \A n \in Nat : \E it : Solves(fold, it, st, rows, n)
<1> DEFINE Bad == {n \in Nat : ~\E it : Solves(fold, it, st, rows, n)}
<1> SUFFICES ASSUME Bad # {} PROVE FALSE
  OBVIOUS
<1>1. PICK n \in Bad : \A k \in Bad : n <= k
  BY LeastOf
<1>2. CASE n = 0
  <2> DEFINE f == [s \in SUBSET (1..0) |-> st]
  <2>1. SUBSET (1..0) = {{}}
    OBVIOUS
  <2>2. f = [s \in SUBSET (1..0) |->
             IF s = {} THEN st ELSE Step(fold, f[s \ {Max(s)}], rows[Max(s)])]
    BY <2>1, Zenon
  <2> HIDE DEF f
  <2>3. Solves(fold, f, st, rows, 0)
    BY <2>2 DEF Solves
  <2> QED BY <1>2, <2>3
<1>3. CASE n # 0
  <2> DEFINE m == n - 1
  <2>1. m \in Nat /\ n = m + 1 /\ n \notin 1..m /\ m \notin Bad
    BY <1>1, <1>3
  <2>2. PICK g : Solves(fold, g, st, rows, m)
    BY <2>1
  <2> DEFINE f == [s \in SUBSET (1..n) |->
                     IF n \in s THEN Step(fold, g[s \ {n}], rows[n]) ELSE g[s]]
  <2>3. ASSUME NEW s \in SUBSET (1..n)
        PROVE  f[s] = IF s = {} THEN st ELSE Step(fold, f[s \ {Max(s)}], rows[Max(s)])
    <3>1. CASE n \in s
      <4>1. Max(s) = n
        BY <3>1, LastIsMax
      <4>2. s \ {n} \in SUBSET (1..n) /\ n \notin s \ {n}
        OBVIOUS
      <4>3. f[s \ {n}] = g[s \ {n}]
        BY <4>2, Zenon
      <4> QED BY <3>1, <4>1, <4>3, Zenon
    <3>2. CASE n \notin s
      <4>1. s \in SUBSET (1..m)
        BY <2>1, <3>2
      <4>2. f[s] = g[s]
        BY <3>2, Zenon
      <4>3. g[s] = IF s = {} THEN st ELSE Step(fold, g[s \ {Max(s)}], rows[Max(s)])
        BY <2>2, <4>1, Zenon DEF Solves
      <4>4. s \ {Max(s)} \in SUBSET (1..n) /\ n \notin s \ {Max(s)}
        BY <3>2
      <4>5. f[s \ {Max(s)}] = g[s \ {Max(s)}]
        BY <4>4, Zenon
      <4> QED BY <4>2, <4>3, <4>5, Zenon
    <3> QED BY <3>1, <3>2
  <2>4. f = [s \in SUBSET (1..n) |-> f[s]]
    BY Zenon
  <2> HIDE DEF f
  <2>5. f = [s \in SUBSET (1..n) |->
               IF s = {} THEN st ELSE Step(fold, f[s \ {Max(s)}], rows[Max(s)])]
    BY <2>3, <2>4, Zenon
  <2>6. Solves(fold, f, st, rows, n)
    BY <2>5 DEF Solves
  <2> QED BY <2>6
<1> QED BY <1>2, <1>3

LEMMA Agree ==
    ASSUME NEW fold, NEW st, NEW rows, NEW more, NEW n \in Nat, NEW k \in Nat, n <= k,
           \A i \in 1..n : rows[i] = more[i],
           NEW f, Solves(fold, f, st, rows, n), NEW g, Solves(fold, g, st, more, k)
    PROVE  f[1..n] = g[1..n]
<1> DEFINE Bad == {j \in Nat : j <= n /\ f[1..j] # g[1..j]}
<1> SUFFICES ASSUME Bad # {} PROVE FALSE
  OBVIOUS
<1>1. PICK j \in Bad : \A i \in Bad : j <= i
  BY LeastOf
<1>2. CASE j = 0
  <2>1. 1..0 = {}
    OBVIOUS
  <2>2. f[{}] = st /\ g[{}] = st
    BY SolvesAt
  <2> QED BY <1>1, <1>2, <2>1, <2>2
<1>3. CASE j # 0
  <2>1. j - 1 \in Nat /\ j \in 1..n /\ j \in 1..k /\ j - 1 \notin Bad
    BY <1>1, <1>3
  <2>2. f[1..(j - 1)] = g[1..(j - 1)]
    BY <2>1
  <2>3. /\ f[1..j] = Step(fold, f[1..(j - 1)], rows[j])
        /\ g[1..j] = Step(fold, g[1..(j - 1)], more[j])
    BY <2>1, SolvesAt
  <2>4. rows[j] = more[j]
    BY <2>1
  <2> QED BY <1>1, <2>2, <2>3, <2>4
<1> QED BY <1>2, <1>3


LEMMA FoldOfNone ==
    ASSUME NEW fold, NEW st, NEW rows, NEW f, Solves(fold, f, st, rows, 0)
    PROVE  f[1..0] = st
<1>1. PICK n \in Nat : n = 0
  OBVIOUS
<1>2. Solves(fold, f, st, rows, n)
  BY <1>1
<1>3. f[{}] = st
  BY <1>2, Zenon DEF Solves
<1>4. 1..0 = {}
  OBVIOUS
<1> QED BY <1>3, <1>4

LEMMA FoldOfAppend ==
    ASSUME NEW fold, NEW st, NEW S, NEW rows \in Seq(S), NEW row \in S,
           NEW f, Solves(fold, f, st, rows, Len(rows)),
           NEW g, Solves(fold, g, st, Append(rows, row), Len(rows) + 1)
    PROVE  g[1..(Len(rows) + 1)] = Step(fold, f[1..Len(rows)], row)
<1>1. PICK n \in Nat : n = Len(rows) /\ DOMAIN rows = 1..n
  OBVIOUS
<1>2. PICK more : more = Append(rows, row)
  OBVIOUS
<1>3. PICK k \in Nat : k = n + 1
  BY <1>1
<1>4. more[k] = row /\ \A i \in 1..n : rows[i] = more[i]
  BY <1>1, <1>2, <1>3
<1>5. Solves(fold, f, st, rows, n) /\ Solves(fold, g, st, more, k)
  BY <1>1, <1>2, <1>3
<1>6. f[1..n] = g[1..n]
  <2>1. n <= k
    BY <1>3
  <2> QED BY <1>4, <1>5, <2>1, Agree
<1>7. \A j \in 1..k : g[1..j] = Step(fold, g[1..(j - 1)], more[j])
  BY <1>5, SolvesAt
<1>8. g[1..k] = Step(fold, g[1..n], row)
  <2>1. k \in 1..k /\ k - 1 = n
    BY <1>3
  <2>2. g[1..k] = Step(fold, g[1..(k - 1)], more[k])
    BY <1>7, <2>1
  <2> QED BY <1>4, <2>1, <2>2
<1> QED BY <1>1, <1>3, <1>6, <1>8

LEMMA ReplayIs ==
    ASSUME NEW st, NEW rows, NEW n \in Nat, DOMAIN rows = 1..n
    PROVE  \E f : Solves("state", f, st, rows, n) /\ Replay(st, rows) = f[1..n]
<1> DEFINE Plain(f) == f = [s \in SUBSET (1..n) |->
                              IF s = {} THEN st
                              ELSE ApplyChanges(f[s \ {Max(s)}], rows[Max(s)])]
<1>1. Replay(st, rows) = (CHOOSE f : Plain(f))[1..n]
  BY DEF Replay, FoldLeft, MapThenFoldSet, ApplyChanges
<1>2. \A acc, x : Step("state", acc, x) = ApplyChanges(acc, x)
  BY DEF Step
<1>3. \A f : Solves("state", f, st, rows, n) <=> Plain(f)
  BY <1>2, Zenon DEF Solves
<1> HIDE DEF Plain
<1>4. \E f : Plain(f)
  BY <1>3, Solvable
<1>5. Plain(CHOOSE f : Plain(f))
  BY <1>4
<1> QED BY <1>1, <1>3, <1>5

LEMMA ShownIs ==
    ASSUME NEW v, NEW rows, NEW n \in Nat, DOMAIN rows = 1..n
    PROVE  \E f : Solves("view", f, v, rows, n) /\ FoldLeft(Show, v, rows) = f[1..n]
<1> DEFINE Plain(f) == f = [s \in SUBSET (1..n) |->
                              IF s = {} THEN v
                              ELSE Show(f[s \ {Max(s)}], rows[Max(s)])]
<1>1. FoldLeft(Show, v, rows) = (CHOOSE f : Plain(f))[1..n]
  BY DEF FoldLeft, MapThenFoldSet
<1>2. \A acc, x : Step("view", acc, x) = Show(acc, x)
  BY DEF Step
<1>3. \A f : Solves("view", f, v, rows, n) <=> Plain(f)
  BY <1>2, Zenon DEF Solves
<1> HIDE DEF Plain
<1>4. \E f : Plain(f)
  BY <1>3, Solvable
<1>5. Plain(CHOOSE f : Plain(f))
  BY <1>4
<1> QED BY <1>1, <1>3, <1>5

\* Replaying nothing leaves the state, and a row more is applied after the others.
LEMMA ReplayNone == \A st : Replay(st, <<>>) = st
<1> TAKE st
<1>1. DOMAIN <<>> = 1..0 /\ 0 \in Nat
  OBVIOUS
<1>2. PICK f : Solves("state", f, st, <<>>, 0) /\ Replay(st, <<>>) = f[1..0]
  BY <1>1, ReplayIs
<1> QED BY <1>2, FoldOfNone

LEMMA ReplayAppend ==
    ASSUME NEW st, NEW S, NEW rows \in Seq(S), NEW row \in S
    PROVE  Replay(st, Append(rows, row)) = ApplyChanges(Replay(st, rows), row)
<1>1. /\ Len(rows) \in Nat /\ DOMAIN rows = 1..Len(rows)
      /\ Len(rows) + 1 \in Nat /\ DOMAIN Append(rows, row) = 1..(Len(rows) + 1)
  OBVIOUS
<1>2. PICK f : Solves("state", f, st, rows, Len(rows)) /\ Replay(st, rows) = f[1..Len(rows)]
  BY <1>1, ReplayIs
<1>3. PICK g : /\ Solves("state", g, st, Append(rows, row), Len(rows) + 1)
               /\ Replay(st, Append(rows, row)) = g[1..(Len(rows) + 1)]
  BY <1>1, ReplayIs
<1>4. g[1..(Len(rows) + 1)] = Step("state", f[1..Len(rows)], row)
  BY <1>2, <1>3, FoldOfAppend
<1> QED BY <1>2, <1>3, <1>4 DEF Step

\* The same of what the browser shows.
Shown(v, messages) == FoldLeft(Show, v, messages)

LEMMA ShownNone == \A v : Shown(v, <<>>) = v
<1> TAKE v
<1>1. DOMAIN <<>> = 1..0 /\ 0 \in Nat
  OBVIOUS
<1>2. PICK f : Solves("view", f, v, <<>>, 0) /\ Shown(v, <<>>) = f[1..0]
  BY <1>1, ShownIs DEF Shown
<1> QED BY <1>2, FoldOfNone

LEMMA ShownAppend ==
    ASSUME NEW v, NEW S, NEW rows \in Seq(S), NEW row \in S
    PROVE  Shown(v, Append(rows, row)) = Show(Shown(v, rows), row)
<1>1. /\ Len(rows) \in Nat /\ DOMAIN rows = 1..Len(rows)
      /\ Len(rows) + 1 \in Nat /\ DOMAIN Append(rows, row) = 1..(Len(rows) + 1)
  OBVIOUS
<1>2. PICK f : Solves("view", f, v, rows, Len(rows)) /\ Shown(v, rows) = f[1..Len(rows)]
  BY <1>1, ShownIs DEF Shown
<1>3. PICK g : /\ Solves("view", g, v, Append(rows, row), Len(rows) + 1)
               /\ Shown(v, Append(rows, row)) = g[1..(Len(rows) + 1)]
  BY <1>1, ShownIs DEF Shown
<1>4. g[1..(Len(rows) + 1)] = Step("view", f[1..Len(rows)], row)
  BY <1>2, <1>3, FoldOfAppend
<1> QED BY <1>2, <1>3, <1>4 DEF Step

-----------------------------------------------------------------------------
(* The inductive invariant, part by part.                                   *)

PodEvents == ScriptEvents \cup {"run_started", "pod_finished"}

\* What the narrator is handed: everything but Codex events.
Narrated == Events \ {"codex_event"}

Posts == [events : {{e} : e \in PodEvents}, tries : 1..MaxAttempts, served : BOOLEAN]

PodOK ==
    /\ script \in Seq(ScriptEvents)
    /\ emitted \subseteq ScriptEvents
    /\ outbox \in Seq(ScriptEvents \cup {"stop"})
    /\ Len(outbox) <= QueueSize
    /\ buffer \subseteq {"codex_event"}
    /\ drainer \in {"running", "stopped"}
    /\ launcher \in {"running", "announcing", "stopping", "exited"}
    /\ posts \subseteq Posts
    /\ excused \subseteq Events
    /\ stored \subseteq Events
    /\ failures \in Nat
    /\ verdicts \in 0..1
    /\ launcher = "exited" => outbox = <<>> /\ buffer = {} /\ drainer = "stopped"

\* Where an event is that was emitted.
Accounted ==
    \A e \in emitted :
        \/ e \in stored \cup excused \cup buffer \cup ToSet(outbox)
        \/ \E p \in posts : e \in p.events

Statuses == {"pending", "running", "completed", "failed"}
Rows == {row \in [id : RowIds, status : Statuses \cup {"none"}] :
            row.id = "run_finished" => row.status \in Statuses}
Open == {"insert", "publish", "announce", "commit"}
Places == {"none", "wait", "taken"} \cup Open

Tasks == [at : Places, event : Narrated \cup {None}, base : States, left : Seq(RowIds)]

NarratorOK ==
    /\ queue \in [Processes -> Seq(Narrated)]
    /\ task \in [Processes -> Tasks]
    /\ completed \in [Processes -> BOOLEAN]
    /\ lock \in Processes \cup {None}
    /\ state \in States
    /\ timeline \in Seq(Rows)
    /\ torn \in BOOLEAN
    /\ repeated \in BOOLEAN
    /\ failed \subseteq Events
    /\ ended \subseteq Processes
    /\ late \subseteq ended
    /\ oddities \in Nat

InHand(w) == task[w].at \notin {"none", "wait"}

\* The rows of an event, and how many of them are written when a task is at t.
RowsFor(event, base) ==
    [i \in DOMAIN RowsOf(event, base) |-> Row(RowsOf(event, base)[i], event)]
Count(t) ==
    Len(RowsOf(t.event, t.base)) - Len(t.left) + IF t.at = "publish" THEN 1 ELSE 0
Written(t) == SubSeq(RowsFor(t.event, t.base), 1, Count(t))

\* What a task still has to write is the end of what its event stands for.
TaskOK(t) ==
    LET ids == RowsOf(t.event, t.base)
    IN /\ t.at \notin {"none", "wait"} => t.event \in Narrated
       /\ t.at \in Open =>
             /\ ids # <<>>
             /\ Len(t.left) <= Len(ids)
             /\ t.left = SubSeq(ids, Len(ids) - Len(t.left) + 1, Len(ids))
             /\ t.left = <<>> <=> t.at \in {"announce", "commit"}

\* The transaction of w holds the row of the state, and computes from it.
TransactionOK(w) ==
    /\ TaskOK(task[w])
    /\ lock = w <=> task[w].at \in Open
    /\ task[w].at \in Open => task[w].base = state

\* The rows that the open transaction has written.
Out == IF lock = None THEN <<>> ELSE Written(task[lock])

TimelineOK ==
    /\ \A i \in DOMAIN Out : Out[i].id \in Recorded
    /\ ~torn /\ ~repeated => Replay(FirstState, timeline) = Replay(state, Out)

\* What of the state and of the timeline has been published.
PublishedState ==
    IF lock # None /\ task[lock].at = "commit" THEN Patched(state, Delta(lock)) ELSE state
Unpublished == IF lock # None /\ task[lock].at = "publish" THEN {Head(task[lock].left)} ELSE {}

IsView(v) == v = [state |-> v.state, rows |-> v.rows] /\ v.rows \subseteq RowIds

Messages ==
    [kind : {"timeline_event"}, id : RowIds]
    \cup [kind : {"state_delta"}, delta : {Replay(<<>>, rows) : rows \in Seq(Rows)}]

StreamOK ==
    /\ inbox \in Seq(Messages)
    /\ reader \in {"away", "opening", "asking", "waiting"}
    /\ placed \in BOOLEAN
    /\ missed \in BOOLEAN
    /\ connections \in Nat
    /\ reader \in {"away", "opening"} => inbox = <<>> /\ ~placed
    /\ IsView(view)
    /\ IsView(Shown(view, inbox))

ViewOK ==
    reader # "away" /\ ~missed /\ ~torn =>
        /\ Shown(view, inbox).state = PublishedState
        /\ reader # "opening" =>
              /\ Shown(view, inbox).rows \subseteq Recorded
              /\ Recorded \ Unpublished \subseteq Shown(view, inbox).rows

EndsOK == \A w \in ended \ late : task[w].at = "none" \/ completed[w]

HeardOK ==
    /\ heardAt \in [{"running_code", "run_completed"} -> SUBSET Processes]
    /\ \A e \in {"running_code", "run_completed"} : IsFiniteSet(heardAt[e])
    /\ overtaken \in BOOLEAN
    /\ deleted \in BOOLEAN

\* The start of the execution is on its way at a process that heard it.
StartIsAt(w) ==
    \/ "running_code" \in ToSet(queue[w])
    \/ InHand(w) /\ task[w].event = "running_code"

StartsOK ==
    \A w \in heardAt["running_code"] :
        StartIsAt(w) \/ "exec_started" \in Recorded \/ "running_code" \in failed

Excused ==
    \/ overtaken \/ torn \/ repeated \/ "running_code" \in failed
    \/ Cardinality(heardAt["running_code"] \cup heardAt["run_completed"]) > 1

\* As long as the start is not written the end is behind it.
OrderOK(w) ==
    /\ ~(InHand(w) /\ task[w].event = "run_completed")
    /\ \/ InHand(w) /\ task[w].event = "running_code"
       \/ \A i \in DOMAIN queue[w] : queue[w][i] = "run_completed" =>
             \E j \in 1..(i - 1) : queue[w][j] = "running_code"

GhostOK ==
    ~Excused =>
        /\ "exec_started" \notin Recorded =>
              "exec_completed" \notin Recorded /\ \A w \in Processes : OrderOK(w)
        /\ "exec_completed" \in Recorded => ~Replay(FirstState, timeline).active

IInv ==
    /\ PodOK /\ Accounted /\ NarratorOK
    /\ \A w \in Processes : TransactionOK(w)
    /\ TimelineOK /\ StreamOK /\ ViewOK /\ EndsOK /\ HeardOK /\ StartsOK /\ GhostOK

-----------------------------------------------------------------------------
(* The pod: what its events become.                                         *)

LEMMA ToSetOfEnds ==
    ASSUME NEW S, NEW s \in Seq(S)
    PROVE  /\ ToSet(s) \subseteq S
           /\ \A x : ToSet(Append(s, x)) = ToSet(s) \cup {x}
           /\ s # <<>> => /\ Head(s) \in S
                          /\ Tail(s) \in Seq(S)
                          /\ Head(s) \in ToSet(s)
                          /\ ToSet(s) = {Head(s)} \cup ToSet(Tail(s))
           /\ s = <<>> => ToSet(s) = {}
<1>1. ToSet(s) \subseteq S
  BY DEF ToSet
<1>2. \A x : ToSet(Append(s, x)) = ToSet(s) \cup {x}
  <2> TAKE x
  <2> DEFINE t == Append(s, x)
  <2>1. /\ DOMAIN t = 1..(Len(s) + 1) /\ DOMAIN s = 1..Len(s) /\ Len(s) \in Nat
        /\ t[Len(s) + 1] = x /\ \A i \in 1..Len(s) : t[i] = s[i]
    OBVIOUS
  <2> HIDE DEF t
  <2> QED BY <2>1 DEF ToSet
<1>3. ASSUME s # <<>>
      PROVE  /\ Head(s) \in S
             /\ Tail(s) \in Seq(S)
             /\ Head(s) \in ToSet(s)
             /\ ToSet(s) = {Head(s)} \cup ToSet(Tail(s))
  <2> DEFINE t == Tail(s)
  <2>1. /\ DOMAIN t = 1..(Len(s) - 1) /\ DOMAIN s = 1..Len(s) /\ Len(s) \in Nat
        /\ Len(s) > 0 /\ s[1] = Head(s) /\ \A i \in 1..(Len(s) - 1) : t[i] = s[i + 1]
        /\ t \in Seq(S) /\ Head(s) \in S
    BY <1>3
  <2> HIDE DEF t
  <2>2. ASSUME NEW i \in DOMAIN s, i # 1
        PROVE  \E j \in DOMAIN t : t[j] = s[i]
    <3>1. i - 1 \in 1..(Len(s) - 1) /\ (i - 1) + 1 = i
      BY <2>1, <2>2
    <3>2. t[i - 1] = s[i]
      BY <2>1, <3>1
    <3> QED BY <2>1, <3>1, <3>2
  <2>3. \A i \in DOMAIN t : (i + 1) \in DOMAIN s /\ t[i] = s[i + 1]
    BY <2>1
  <2>4. 1 \in DOMAIN s
    BY <2>1
  <2>5. ToSet(s) = {Head(s)} \cup ToSet(t)
    <3>1. ASSUME NEW x \in ToSet(s) PROVE x \in {Head(s)} \cup ToSet(t)
      <4>1. PICK i \in DOMAIN s : x = s[i]
        BY DEF ToSet
      <4> QED BY <2>1, <2>2, <4>1 DEF ToSet
    <3>2. ToSet(t) \subseteq ToSet(s) /\ Head(s) \in ToSet(s)
      BY <2>1, <2>3, <2>4 DEF ToSet
    <3> QED BY <3>1, <3>2
  <2> QED BY <2>1, <2>4, <2>5 DEF ToSet, t
<1>4. s = <<>> => ToSet(s) = {}
  BY DEF ToSet
<1> QED BY <1>1, <1>2, <1>3, <1>4

LEMMA PostsAre ==
    /\ \A e \in PodEvents : /\ Post({e}) \in Posts
                            /\ Post({e}).events = {e}
    /\ PodOK => /\ Batch \subseteq Posts
                /\ \A e \in buffer : \E p \in Batch : e \in p.events
<1>1. 1 \in 1..MaxAttempts
  BY TelemetryAssumption
<1>2. \A e \in PodEvents : Post({e}) \in Posts /\ Post({e}).events = {e}
  BY <1>1 DEF Post, Posts
<1>3. ASSUME PodOK, buffer # {}
      PROVE  Batch = {Post({"codex_event"})} /\ buffer = {"codex_event"}
  BY <1>3 DEF PodOK, Batch
<1>4. "codex_event" \in PodEvents
  BY DEF PodEvents, ScriptEvents
<1> QED BY <1>2, <1>3, <1>4 DEF Batch

\* What Emit, a Drain and the launcher do to the pod.
LEMMA PodPodOK ==
    ASSUME PodOK, Pod \/ DeletePod
    PROVE  PodOK'
<1> USE DEF PodOK, UnchangedServer
<1>1. ScriptEvents \subseteq PodEvents /\ ScriptEvents \subseteq Events /\ PodEvents \subseteq Events
      /\ "stop" \notin ScriptEvents /\ "pod_finished" \in PodEvents /\ "codex_event" \in ScriptEvents
  BY DEF ScriptEvents, PodEvents, Events
<1>2. CASE Emit /\ UnchangedServer
  <2>1. Head(script) \in ScriptEvents /\ Tail(script) \in Seq(ScriptEvents)
    BY <1>2, ToSetOfEnds DEF Emit
  <2>2. Len(outbox) < QueueSize =>
          /\ Append(outbox, Head(script)) \in Seq(ScriptEvents \cup {"stop"})
          /\ Len(Append(outbox, Head(script))) <= QueueSize
    BY <2>1, TelemetryAssumption
  <2>3. /\ script' = Tail(script) /\ emitted' = emitted \cup {Head(script)}
        /\ UNCHANGED <<buffer, drainer, posts, launcher, stored, failures, verdicts>>
        /\ launcher = "running"
        /\ \/ Len(outbox) < QueueSize /\ outbox' = Append(outbox, Head(script))
              /\ excused' = excused
           \/ excused' = excused \cup {Head(script)} /\ outbox' = outbox
    BY <1>2 DEF Emit
  <2> QED BY <1>1, <2>1, <2>2, <2>3
<1>3. CASE Drain /\ UnchangedServer
  <2>1. /\ Head(outbox) \in ScriptEvents /\ Tail(outbox) \in Seq(ScriptEvents \cup {"stop"})
        /\ Len(Tail(outbox)) <= QueueSize
    BY <1>3, TelemetryAssumption DEF Drain
  <2>2. Post({Head(outbox)}) \in Posts
    BY <1>1, <2>1, PostsAre
  <2> QED BY <1>1, <1>3, <2>1, <2>2 DEF Drain
<1>4. CASE (FlushBatch \/ StopDraining) /\ UnchangedServer
  <2>1. outbox # <<>> => /\ Tail(outbox) \in Seq(ScriptEvents \cup {"stop"})
                         /\ Len(Tail(outbox)) <= QueueSize
    BY TelemetryAssumption
  <2>2. Batch \subseteq Posts
    BY PostsAre
  <2> QED BY <1>4, <2>1, <2>2 DEF FlushBatch, StopDraining
<1>5. CASE (AnnounceFinish \/ StopPersistence) /\ UnchangedServer
  <2>1. Post({"pod_finished"}) \in Posts
    BY <1>1, PostsAre
  <2>2. Len(outbox) < QueueSize =>
          /\ Append(outbox, "stop") \in Seq(ScriptEvents \cup {"stop"})
          /\ Len(Append(outbox, "stop")) <= QueueSize
    BY TelemetryAssumption
  <2> QED BY <1>5, <2>1, <2>2 DEF AnnounceFinish, StopPersistence
<1>6. CASE Vanish /\ UnchangedServer
  <2>1. ToSet(outbox) \ {"stop"} \subseteq Events
    BY <1>1, ToSetOfEnds
  <2>2. \A p \in posts : p.events \subseteq Events
    BY <1>1 DEF Posts
  <2>3. UNION {p.events : p \in Unserved} \subseteq Events
    BY <2>2 DEF Unserved
  <2>4. /\ <<>> \in Seq(ScriptEvents \cup {"stop"}) /\ Len(<<>>) <= QueueSize
    BY TelemetryAssumption
  <2>5. /\ launcher' = "exited" /\ drainer' = "stopped" /\ outbox' = <<>> /\ buffer' = {}
        /\ posts' \subseteq posts /\ UNCHANGED <<script, emitted, stored, failures, verdicts>>
    BY <1>6 DEF Vanish
  <2>6. excused' \subseteq Events
    <3>1. excused' = excused \cup buffer \cup (UNION {p.events : p \in Unserved})
                             \cup (ToSet(outbox) \ {"stop"})
      BY <1>6 DEF Vanish
    <3>2. \A e : e \in excused' => \/ e \in excused \/ e \in buffer
                                   \/ \E p \in Unserved : e \in p.events
                                   \/ e \in ToSet(outbox) /\ e # "stop"
      BY <3>1
    <3> QED BY <1>1, <2>1, <2>2, <3>2 DEF Unserved
  <2> QED BY <2>4, <2>5, <2>6
<1> QED BY <1>2, <1>3, <1>4, <1>5, <1>6 DEF Pod, DeletePod, Exit

LEMMA PodAccounted ==
    ASSUME PodOK, Accounted, Pod \/ DeletePod
    PROVE  Accounted'
<1> USE DEF PodOK, Accounted, UnchangedServer
<1>1. /\ "stop" \notin emitted /\ ToSet(<<>>) = {}
      /\ \A x : ToSet(Append(outbox, x)) = ToSet(outbox) \cup {x}
      /\ outbox # <<>> => ToSet(outbox) = {Head(outbox)} \cup ToSet(Tail(outbox))
  <2>1. "stop" \notin emitted
    BY DEF ScriptEvents
  <2>2. ToSet(<<>>) = {}
    BY DEF ToSet
  <2> QED BY <2>1, <2>2, ToSetOfEnds
<1>2. CASE Emit /\ UnchangedServer
  <2>1. CASE Len(outbox) < QueueSize
    <3>1. outbox' = Append(outbox, Head(script)) /\ emitted' = emitted \cup {Head(script)}
          /\ UNCHANGED <<stored, excused, buffer, posts>>
      BY <1>2, <2>1 DEF Emit
    <3>2. ToSet(outbox') = ToSet(outbox) \cup {Head(script)}
      BY <1>1, <3>1
    <3> QED BY <3>1, <3>2
  <2>2. CASE ~(Len(outbox) < QueueSize)
    <3>1. excused' = excused \cup {Head(script)} /\ emitted' = emitted \cup {Head(script)}
          /\ UNCHANGED <<stored, outbox, buffer, posts>>
      BY <1>2, <2>2 DEF Emit
    <3> QED BY <3>1
  <2> QED BY <2>1, <2>2
<1>3. CASE Drain /\ UnchangedServer
  <2>1. Head(outbox) \in ScriptEvents /\ ToSet(outbox) = {Head(outbox)} \cup ToSet(outbox')
        /\ UNCHANGED <<stored, excused, emitted>>
    BY <1>1, <1>3 DEF Drain
  <2>2. Head(outbox) \in Post({Head(outbox)}).events
    BY DEF Post
  <2>3. \/ buffer' = buffer \cup {Head(outbox)} /\ posts' = posts
        \/ buffer' = buffer /\ posts' = posts \cup {Post({Head(outbox)})}
    BY <1>3 DEF Drain
  <2> QED BY <2>1, <2>2, <2>3
<1>4. CASE (FlushBatch \/ StopDraining) /\ UnchangedServer
  <2>1. /\ posts' = posts \cup Batch /\ UNCHANGED <<stored, excused, emitted>>
        /\ \/ outbox' = outbox
           \/ outbox # <<>> /\ Head(outbox) = "stop" /\ outbox' = Tail(outbox)
    BY <1>4 DEF FlushBatch, StopDraining
  <2>2. ToSet(outbox) \subseteq ToSet(outbox') \cup {"stop"}
    BY <1>1, <2>1
  <2>3. \A e \in buffer : \E p \in posts' : e \in p.events
    BY <2>1, PostsAre
  <2> QED BY <1>1, <2>1, <2>2, <2>3
<1>5. CASE (AnnounceFinish \/ StopPersistence) /\ UnchangedServer
  <2>1. /\ posts \subseteq posts' /\ UNCHANGED <<stored, excused, emitted, buffer>>
        /\ outbox' = outbox \/ outbox' = Append(outbox, "stop")
    BY <1>5 DEF AnnounceFinish, StopPersistence
  <2>2. ToSet(outbox) \subseteq ToSet(outbox')
    BY <1>1, <2>1
  <2> QED BY <2>1, <2>2
<1>6. CASE Vanish /\ UnchangedServer
  <2>1. /\ stored' = stored /\ emitted' = emitted /\ posts' = posts \ Unserved
        /\ excused' = excused \cup buffer \cup (UNION {p.events : p \in Unserved})
                              \cup (ToSet(outbox) \ {"stop"})
    BY <1>6 DEF Vanish
  <2>2. \A p \in posts : p \notin posts' => p.events \subseteq excused'
    BY <2>1
  <2>3. ToSet(outbox) \ {"stop"} \subseteq excused' /\ buffer \subseteq excused'
        /\ excused \subseteq excused'
    <3>1. \A e : e \in excused \/ e \in buffer \/ (e \in ToSet(outbox) /\ e # "stop")
                    => e \in excused'
      BY <2>1
    <3> QED BY <3>1
  <2> QED BY <1>1, <2>1, <2>2, <2>3
<1> QED BY <1>2, <1>3, <1>4, <1>5, <1>6 DEF Pod, DeletePod, Exit

\* A webhook that is handled, answered or not does not lose an event.
LEMMA RequestsPodOK ==
    ASSUME PodOK, Accounted, NEW p \in posts,
           Store(p) \/ RequestFails(p) \/ \E w \in Processes : Hear(p, w)
    PROVE  PodOK' /\ Accounted'
<1> USE DEF PodOK, Accounted
<1>1. /\ p \in Posts /\ p.events \subseteq Events
      /\ p.tries \in 1..MaxAttempts /\ p.events \in {{e} : e \in PodEvents}
  <2>1. p \in Posts
    OBVIOUS
  <2>2. p.tries \in 1..MaxAttempts /\ p.events \in {{e} : e \in PodEvents}
    BY <2>1 DEF Posts
  <2>3. PICK e \in PodEvents : p.events = {e}
    BY <2>2
  <2>4. e \in Events
    BY DEF PodEvents, Events
  <2> QED BY <2>1, <2>2, <2>3, <2>4
<1>2. CASE Store(p)
  <2>1. /\ stored' = stored \cup p.events /\ posts' = posts \ {p}
        /\ UNCHANGED <<script, emitted, outbox, buffer, drainer, launcher, excused, failures, verdicts>>
    BY <1>2 DEF Store, Answered
  <2> QED BY <1>1, <2>1
<1>3. CASE RequestFails(p)
  <2>1. /\ failures > 0 /\ failures' = failures - 1
        /\ UNCHANGED <<script, emitted, outbox, buffer, drainer, launcher, verdicts>>
        /\ stored' = stored \/ stored' = stored \cup p.events
    BY <1>3 DEF RequestFails, Failed
  <2>2. CASE p.tries < MaxAttempts /\ launcher # "exited"
    <3> DEFINE again == [p EXCEPT !.tries = @ + 1, !.served = FALSE]
    <3>1. posts' = (posts \ {p}) \cup {again} /\ excused' = excused
      BY <1>3, <2>2 DEF RequestFails, Failed
    <3>2. again.events = p.events /\ again \in Posts
      <4>1. p.tries + 1 \in 1..MaxAttempts
        BY <1>1, <2>2, TelemetryAssumption
      <4>2. PICK n \in 1..MaxAttempts : n = p.tries + 1
        BY <4>1
      <4>3. again = [[p EXCEPT !.tries = n] EXCEPT !.served = FALSE]
        BY <1>1, <4>2 DEF Posts
      <4>4. [p EXCEPT !.tries = n] \in Posts
        BY <1>1 DEF Posts
      <4> QED BY <1>1, <4>3, <4>4 DEF Posts
    <3> HIDE DEF again
    <3> QED BY <1>1, <2>1, <3>1, <3>2
  <2>3. CASE ~(p.tries < MaxAttempts /\ launcher # "exited")
    <3>1. posts' = posts \ {p} /\ excused' = excused \cup p.events
      BY <1>3, <2>3 DEF RequestFails, Failed
    <3> QED BY <1>1, <2>1, <3>1
  <2> QED BY <2>2, <2>3
<1>4. ASSUME NEW w \in Processes, Hear(p, w)
      PROVE  PodOK' /\ Accounted'
  <2> DEFINE heard == [p EXCEPT !.served = TRUE]
  <2>1. /\ posts' = (posts \ {p}) \cup {heard}
        /\ UNCHANGED <<script, emitted, outbox, buffer, drainer, launcher, excused, stored,
                       failures, verdicts>>
    BY <1>4 DEF Hear
  <2>2. heard.events = p.events /\ heard \in Posts
    BY <1>1 DEF Posts
  <2> HIDE DEF heard
  <2> QED BY <1>1, <2>1, <2>2
<1> QED BY <1>2, <1>3, <1>4

LEMMA OthersPodOK ==
    ASSUME PodOK, Accounted,
           Browse \/ (\E w \in Processes : EndRun(w) \/ Narrate(w) \/ Mishap(w))
              \/ UNCHANGED vars
    PROVE  PodOK' /\ Accounted'
<1>1. UNCHANGED <<podVars, stored, failures>> /\ (verdicts' = verdicts \/ verdicts' = 0)
  <2>1. ASSUME NEW w \in Processes, EndRun(w)
        PROVE  UNCHANGED <<podVars, stored, failures>> /\ (verdicts' = verdicts \/ verdicts' = 0)
    BY <2>1 DEF EndRun, PodOK
  <2>2. ASSUME NEW w \in Processes, Narrate(w) \/ Mishap(w)
        PROVE  UNCHANGED <<podVars, stored, failures, verdicts>>
    BY <2>2 DEF Narrate, Mishap
  <2>3. Browse \/ UNCHANGED vars => UNCHANGED <<podVars, stored, failures, verdicts>>
    BY DEF Browse, vars
  <2> QED BY <2>1, <2>2, <2>3
<1> QED BY <1>1 DEF PodOK, Accounted, podVars

-----------------------------------------------------------------------------
(* Rows, and what they change.                                              *)

LEMMA ShortSequences ==
    ASSUME NEW S
    PROVE  /\ <<>> \in Seq(S)
           /\ \A a \in S : <<a>> \in Seq(S) /\ <<a>> = Append(<<>>, a)
           /\ \A a, b \in S : <<a, b>> \in Seq(S) /\ <<a, b>> = Append(Append(<<>>, a), b)
OBVIOUS

LEMMA RowsAre ==
    ASSUME NEW event \in Narrated, NEW st \in States
    PROVE  /\ RowsOf(event, st) \in Seq(RowIds)
           /\ \/ RowsOf(event, st) = <<>> /\ event = "stage_summary"
              \/ \E id \in RowIds : /\ RowsOf(event, st) = <<id>>
                                    /\ id = "exec_started" <=> event = "running_code"
                                    /\ id = "exec_completed" <=> event = "run_completed"
                                    /\ id = "run_finished" <=> Ends(event)
              \/ /\ RowsOf(event, st) = <<"stage_started", "exec_started">>
                 /\ event = "running_code"
<1>1. \/ event \in {"run_started", "run_completed", "stage_completed"}
      \/ event = "running_code"
      \/ event = "stage_summary"
      \/ event \in {"pod_finished", "server_finished"}
  BY DEF Narrated, Events, ScriptEvents
<1>2. /\ <<>> \in Seq(RowIds)
      /\ \A id \in RowIds : <<id>> \in Seq(RowIds)
      /\ <<"stage_started", "exec_started">> \in Seq(RowIds)
  BY ShortSequences DEF RowIds
<1>3. CASE event \in {"pod_finished", "server_finished"}
  <2>1. RowsOf(event, st) = <<"run_finished">> /\ Ends(event)
    BY <1>3 DEF RowsOf, Ends
  <2>2. PICK id \in RowIds : id = "run_finished"
    BY DEF RowIds
  <2>3. /\ RowsOf(event, st) = <<id>>
        /\ id = "exec_started" <=> event = "running_code"
        /\ id = "exec_completed" <=> event = "run_completed"
        /\ id = "run_finished" <=> Ends(event)
    BY <1>3, <2>1, <2>2
  <2> QED BY <1>2, <2>3
<1>4. CASE event = "running_code"
  <2>1. ~Ends(event)
    BY <1>4 DEF Ends
  <2>2. RowsOf(event, st) =
          (IF st.stage = "pending" THEN <<"stage_started">> ELSE <<>>) \o <<"exec_started">>
    BY <1>4, <2>1 DEF RowsOf
  <2>3. CASE st.stage = "pending"
    <3>1. RowsOf(event, st) = <<"stage_started">> \o <<"exec_started">>
      BY <2>2, <2>3
    <3>2. <<"stage_started">> \o <<"exec_started">> = <<"stage_started", "exec_started">>
      <4>1. PICK a, b \in RowIds : a = "stage_started" /\ b = "exec_started"
        BY DEF RowIds
      <4>2. <<a>> \in Seq(RowIds) /\ Append(<<a>>, b) = <<a, b>>
        <5>1. /\ <<a>> \in Seq(RowIds) /\ <<a>> = Append(<<>>, a)
              /\ <<a, b>> = Append(Append(<<>>, a), b)
          BY ShortSequences
        <5> QED BY <5>1
      <4>3. Append(<<a>>, b) = <<a>> \o <<b>>
        BY <4>2, AppendIsConcat
      <4> QED BY <4>1, <4>2, <4>3
    <3> QED BY <1>2, <1>4, <3>1, <3>2
  <2>4. CASE st.stage # "pending"
    <3>1. RowsOf(event, st) = <<>> \o <<"exec_started">>
      BY <2>2, <2>4
    <3>2. <<>> \o <<"exec_started">> = <<"exec_started">>
      OBVIOUS
    <3>3. PICK id \in RowIds : id = "exec_started"
      BY DEF RowIds
    <3>4. /\ RowsOf(event, st) = <<id>>
          /\ id = "exec_started" <=> event = "running_code"
          /\ id = "exec_completed" <=> event = "run_completed"
          /\ id = "run_finished" <=> Ends(event)
      BY <1>4, <2>1, <3>1, <3>2, <3>3
    <3> QED BY <1>2, <3>4
  <2> QED BY <2>3, <2>4
<1>5. CASE event \in {"run_started", "run_completed", "stage_completed"}
  <2>1. ~Ends(event)
    BY <1>5 DEF Ends
  <2>2. PICK id \in RowIds : id = IF event = "run_completed" THEN "exec_completed" ELSE event
    BY <1>5 DEF RowIds
  <2>3. RowsOf(event, st) = <<id>>
    BY <1>5, <2>1, <2>2 DEF RowsOf
  <2>4. /\ id = "exec_started" <=> event = "running_code"
        /\ id = "exec_completed" <=> event = "run_completed"
        /\ id = "run_finished" <=> Ends(event)
    BY <1>5, <2>1, <2>2
  <2> QED BY <1>2, <2>3, <2>4
<1>6. CASE event = "stage_summary"
  <2>1. RowsOf(event, st) = <<>>
    BY <1>6 DEF RowsOf, Ends
  <2> QED BY <1>2, <1>6, <2>1
<1> QED BY <1>1, <1>3, <1>4, <1>5, <1>6

LEMMA RowIsRow ==
    ASSUME NEW id \in RowIds, NEW event, (id = "run_finished") <=> Ends(event)
    PROVE  Row(id, event) \in Rows /\ Row(id, event).id = id
BY DEF Row, Rows, Statuses, StatusOf

LEMMA PatchedTwice ==
    ASSUME NEW st, NEW f, NEW g
    PROVE  Patched(Patched(st, f), g) = Patched(st, Patched(f, g))
<1>2. PICK p, q : p = Patched(st, f) /\ q = Patched(f, g)
  OBVIOUS
<1>3. PICK l, r : l = Patched(p, g) /\ r = Patched(st, q)
  OBVIOUS
<1>4. /\ DOMAIN p = (DOMAIN st) \cup (DOMAIN f) /\ DOMAIN q = (DOMAIN f) \cup (DOMAIN g)
      /\ \A k \in DOMAIN p : p[k] = IF k \in DOMAIN f THEN f[k] ELSE st[k]
      /\ \A k \in DOMAIN q : q[k] = IF k \in DOMAIN g THEN g[k] ELSE f[k]
  BY <1>2 DEF Patched
<1>5. /\ DOMAIN l = (DOMAIN p) \cup (DOMAIN g) /\ DOMAIN r = (DOMAIN st) \cup (DOMAIN q)
      /\ \A k \in DOMAIN l : l[k] = IF k \in DOMAIN g THEN g[k] ELSE p[k]
      /\ \A k \in DOMAIN r : r[k] = IF k \in DOMAIN q THEN q[k] ELSE st[k]
      /\ l = [k \in DOMAIN l |-> l[k]] /\ r = [k \in DOMAIN r |-> r[k]]
  BY <1>3 DEF Patched
<1>6. DOMAIN l = DOMAIN r
  BY <1>4, <1>5
<1>7. ASSUME NEW k \in DOMAIN l
      PROVE  l[k] = r[k]
  BY <1>4, <1>5, <1>6
<1> QED BY <1>2, <1>3, <1>5, <1>6, <1>7

LEMMA PatchedEmpty ==
    \A st \in States : Patched(st, <<>>) = st
<1> TAKE st \in States
<1>1. DOMAIN <<>> = {} /\ st = [k \in DOMAIN st |-> st[k]]
  BY DEF States
<1> QED BY <1>1 DEF Patched

LEMMA ApplyIs ==
    ASSUME NEW st \in States, NEW row \in Rows
    PROVE  /\ ApplyChanges(st, row) \in States
           /\ ApplyChanges(st, row).active =
                IF row.id = "exec_started" THEN TRUE
                ELSE IF row.id = "exec_completed" THEN FALSE ELSE st.active
<1>0. /\ st.status \in Statuses /\ st.stage \in {"pending", "in_progress", "completed"}
      /\ st.active \in BOOLEAN /\ DOMAIN st = {"status", "stage", "active"}
      /\ st = [status |-> st.status, stage |-> st.stage, active |-> st.active]
  BY DEF States, Statuses
<1>1. \/ row.id = "run_started" \/ row.id = "stage_started" \/ row.id = "stage_completed"
      \/ row.id = "exec_started" \/ row.id = "exec_completed" \/ row.id = "run_finished"
  BY DEF Rows, RowIds
<1>2. PICK c : c = Changes(row)
  OBVIOUS
<1>3. PICK new : new = Patched(st, c)
  OBVIOUS
<1>4. DOMAIN c \subseteq DOMAIN st
      => /\ new = [status |-> new.status, stage |-> new.stage, active |-> new.active]
         /\ \A k \in DOMAIN st : new[k] = IF k \in DOMAIN c THEN c[k] ELSE st[k]
  BY <1>0, <1>3 DEF Patched
<1>5. ApplyChanges(st, row) = new
  BY <1>2, <1>3 DEF ApplyChanges
<1>6. CASE row.id = "run_started"
  <2>1. c = [status |-> "running"]
    BY <1>2, <1>6 DEF Changes
  <2>2. DOMAIN c = {"status"} /\ c.status = "running"
    BY <2>1
  <2> QED BY <1>0, <1>4, <1>5, <1>6, <2>2 DEF States, Statuses
<1>7. CASE row.id = "stage_started"
  <2>1. c = [stage |-> "in_progress"]
    BY <1>2, <1>7 DEF Changes
  <2>2. DOMAIN c = {"stage"} /\ c.stage = "in_progress"
    BY <2>1
  <2> QED BY <1>0, <1>4, <1>5, <1>7, <2>2 DEF States, Statuses
<1>8. CASE row.id = "stage_completed"
  <2>1. c = [stage |-> "completed"]
    BY <1>2, <1>8 DEF Changes
  <2>2. DOMAIN c = {"stage"} /\ c.stage = "completed"
    BY <2>1
  <2> QED BY <1>0, <1>4, <1>5, <1>8, <2>2 DEF States, Statuses
<1>9. CASE row.id = "exec_started"
  <2>1. c = [active |-> TRUE]
    BY <1>2, <1>9 DEF Changes
  <2>2. DOMAIN c = {"active"} /\ c.active = TRUE
    BY <2>1
  <2> QED BY <1>0, <1>4, <1>5, <1>9, <2>2 DEF States, Statuses
<1>10. CASE row.id = "exec_completed"
  <2>1. c = [active |-> FALSE]
    BY <1>2, <1>10 DEF Changes
  <2>2. DOMAIN c = {"active"} /\ c.active = FALSE
    BY <2>1
  <2> QED BY <1>0, <1>4, <1>5, <1>10, <2>2 DEF States, Statuses
<1>11. CASE row.id = "run_finished"
  <2>1. c = [status |-> row.status]
    BY <1>2, <1>11 DEF Changes
  <2>2. DOMAIN c = {"status"} /\ c.status = row.status
    BY <2>1
  <2>3. row.status \in Statuses
    BY <1>11 DEF Rows
  <2> QED BY <1>0, <1>4, <1>5, <1>11, <2>2, <2>3 DEF States, Statuses
<1> QED BY <1>1, <1>6, <1>7, <1>8, <1>9, <1>10, <1>11

LEMMA FirstOf ==
    ASSUME NEW S, NEW s \in Seq(S)
    PROVE  /\ SubSeq(s, 1, 0) = <<>>
           /\ SubSeq(s, 1, Len(s)) = s
           /\ \A n \in 0..Len(s) : /\ SubSeq(s, 1, n) \in Seq(S)
                                   /\ Len(SubSeq(s, 1, n)) = n
                                   /\ \A i \in 1..n : SubSeq(s, 1, n)[i] = s[i]
           /\ \A n \in Nat : n < Len(s) =>
                 SubSeq(s, 1, n + 1) = Append(SubSeq(s, 1, n), s[n + 1])
<1>1. SubSeq(s, 1, 0) = <<>>
  BY SubSeqEmpty
<1>2. SubSeq(s, 1, Len(s)) = s
  BY SubSeqFull
<1>3. ASSUME NEW n \in 0..Len(s)
      PROVE  /\ SubSeq(s, 1, n) \in Seq(S)
             /\ Len(SubSeq(s, 1, n)) = n
             /\ \A i \in 1..n : SubSeq(s, 1, n)[i] = s[i]
  <2>1. \A i \in 1..n : s[i] \in S
    OBVIOUS
  <2>2. /\ SubSeq(s, 1, n) \in Seq(S)
        /\ Len(SubSeq(s, 1, n)) = IF 1 <= n THEN n - 1 + 1 ELSE 0
        /\ \A i \in 1..(n - 1 + 1) : SubSeq(s, 1, n)[i] = s[1 + i - 1]
    BY <2>1, SubSeqProperties
  <2> QED BY <2>2
<1>4. ASSUME NEW n \in Nat, n < Len(s)
      PROVE  SubSeq(s, 1, n + 1) = Append(SubSeq(s, 1, n), s[n + 1])
  <2>1. PICK k : k = n + 1 /\ k \in 1..Len(s) /\ k - 1 = n /\ s[k] \in S /\ 1 \in 1..Len(s)
    BY <1>4
  <2>2. SubSeq(s, 1, k) = SubSeq(s, 1, k - 1) \o <<s[k]>>
    BY <2>1, SubSeqRecursiveSecond
  <2>3. Append(SubSeq(s, 1, n), s[k]) = SubSeq(s, 1, n) \o <<s[k]>>
    <3>1. SubSeq(s, 1, n) \in Seq(S)
      BY <1>3, <1>4
    <3> QED BY <2>1, <3>1, AppendIsConcat
  <2> QED BY <2>1, <2>2, <2>3
<1> QED BY <1>1, <1>2, <1>3, <1>4

\* The end of a sequence, and its end without what it begins with.
LEMMA EndOf ==
    ASSUME NEW S, NEW s \in Seq(S), NEW left \in Seq(S), Len(left) <= Len(s), left # <<>>,
           left = SubSeq(s, Len(s) - Len(left) + 1, Len(s))
    PROVE  /\ Head(left) = s[Len(s) - Len(left) + 1]
           /\ Tail(left) \in Seq(S)
           /\ Len(Tail(left)) = Len(left) - 1
           /\ Tail(left) = SubSeq(s, Len(s) - Len(Tail(left)) + 1, Len(s))
<1>1. Len(left) \in Nat /\ Len(left) > 0 /\ Len(s) \in Nat
  OBVIOUS
<1>2. PICK m : m = Len(s) - Len(left) + 1 /\ m \in 1..Len(s) /\ Len(s) \in m..Len(s)
  BY <1>1
<1>3. /\ Head(SubSeq(s, m, Len(s))) = s[m]
      /\ Tail(SubSeq(s, m, Len(s))) = SubSeq(s, m + 1, Len(s))
  BY <1>2, HeadTailOfSubSeq
<1>4. Tail(left) \in Seq(S) /\ Len(Tail(left)) = Len(left) - 1
  BY <1>1
<1>5. m + 1 = Len(s) - Len(Tail(left)) + 1
  BY <1>1, <1>2, <1>4
<1> QED BY <1>2, <1>3, <1>4, <1>5

LEMMA RowsForAre ==
    ASSUME NEW event \in Narrated, NEW base \in States
    PROVE  /\ RowsFor(event, base) \in Seq(Rows)
           /\ Len(RowsFor(event, base)) = Len(RowsOf(event, base))
           /\ Len(RowsOf(event, base)) \in 0..2
           /\ \A i \in 1..Len(RowsOf(event, base)) :
                 /\ RowsFor(event, base)[i] = Row(RowsOf(event, base)[i], event)
                 /\ RowsFor(event, base)[i].id = RowsOf(event, base)[i]
<1>1. PICK ids : ids = RowsOf(event, base)
  OBVIOUS
<1>2. ids \in Seq(RowIds)
  BY <1>1, RowsAre
<1>3. /\ Len(ids) \in 0..2
      /\ \A i \in 1..Len(ids) : (ids[i] = "run_finished") <=> Ends(event)
  <2>1. CASE ids = <<>>
    BY <2>1
  <2>2. ASSUME NEW id \in RowIds, ids = <<id>>, (id = "run_finished") <=> Ends(event)
        PROVE  <1>3!:
    BY <2>2
  <2>3. CASE ids = <<"stage_started", "exec_started">> /\ event = "running_code"
    BY <2>3 DEF Ends
  <2> QED BY <1>1, <2>1, <2>2, <2>3, RowsAre
<1>4. \A i \in 1..Len(ids) : Row(ids[i], event) \in Rows /\ Row(ids[i], event).id = ids[i]
  BY <1>2, <1>3, RowIsRow
<1>5. RowsFor(event, base) = [i \in 1..Len(ids) |-> Row(ids[i], event)]
  BY <1>1, <1>2 DEF RowsFor
<1> QED BY <1>1, <1>2, <1>3, <1>4, <1>5

LEMMA RowsAtHandAre == \A w : RowsAtHand(w) = RowsFor(task[w].event, task[w].base)
BY DEF RowsAtHand, RowsFor

\* Up to two rows, replayed on a state, and their changes put over it at once.
LEMMA ReplayOfRows ==
    ASSUME NEW st \in States, NEW rows \in Seq(Rows), Len(rows) <= 2
    PROVE  \A n \in 0..Len(rows) :
              /\ Replay(st, SubSeq(rows, 1, n)) \in States
              /\ Replay(st, SubSeq(rows, 1, n)) =
                    Patched(st, Replay(<<>>, SubSeq(rows, 1, n)))
<1> DEFINE P(n) == /\ Replay(st, SubSeq(rows, 1, n)) \in States
                   /\ Replay(st, SubSeq(rows, 1, n)) =
                         Patched(st, Replay(<<>>, SubSeq(rows, 1, n)))
<1>1. P(0)
  <2>1. SubSeq(rows, 1, 0) = <<>>
    BY FirstOf
  <2>2. Replay(st, <<>>) = st /\ Replay(<<>>, <<>>) = <<>>
    BY ReplayNone
  <2> QED BY <2>1, <2>2, PatchedEmpty
<1>2. ASSUME NEW n \in Nat, n < Len(rows), P(n)
      PROVE  P(n + 1)
  <2>1. PICK before, row : before = SubSeq(rows, 1, n) /\ row = rows[n + 1]
    OBVIOUS
  <2>2. before \in Seq(Rows) /\ row \in Rows
    <3>1. n \in 0..Len(rows) /\ n + 1 \in 1..Len(rows)
      BY <1>2
    <3>2. SubSeq(rows, 1, n) \in Seq(Rows)
      BY <3>1, FirstOf
    <3> QED BY <2>1, <3>1, <3>2
  <2>3. SubSeq(rows, 1, n + 1) = Append(before, row)
    BY <1>2, <2>1, FirstOf
  <2>4. \A x : Replay(x, Append(before, row)) = Patched(Replay(x, before), Changes(row))
    BY <2>2, ReplayAppend DEF ApplyChanges
  <2>5. Replay(st, Append(before, row)) \in States
    <3>1. Replay(st, before) \in States
      BY <1>2, <2>1
    <3>2. Replay(st, Append(before, row)) = ApplyChanges(Replay(st, before), row)
      BY <2>2, ReplayAppend
    <3> QED BY <2>2, <3>1, <3>2, ApplyIs
  <2>6. Replay(st, before) = Patched(st, Replay(<<>>, before))
    BY <1>2, <2>1
  <2>7. Patched(Patched(st, Replay(<<>>, before)), Changes(row))
          = Patched(st, Patched(Replay(<<>>, before), Changes(row)))
    BY PatchedTwice
  <2>8. Replay(st, Append(before, row)) = Patched(st, Replay(<<>>, Append(before, row)))
    BY <2>4, <2>6, <2>7
  <2> QED BY <2>3, <2>5, <2>8
<1> HIDE DEF P
<1>3. Len(rows) >= 1 => P(1)
  BY <1>1, <1>2
<1>4. Len(rows) >= 2 => P(2)
  <2>1. Len(rows) >= 2 => P(1 + 1)
    BY <1>2, <1>3
  <2> QED BY <2>1
<1>5. Len(rows) \in {0, 1, 2}
  <2>1. PICK k \in Nat : k = Len(rows)
    OBVIOUS
  <2>2. k <= 2
    BY <2>1
  <2>3. k \in {0, 1, 2}
    BY <2>2
  <2> QED BY <2>1, <2>3
<1>6. \A n \in 0..Len(rows) : P(n)
  BY <1>1, <1>3, <1>4, <1>5
<1> QED BY <1>6 DEF P

\* What a task with an open transaction has written, and what it does next.
LEMMA WrittenIs ==
    ASSUME NEW t \in Tasks, TaskOK(t), t.at \in Open
    PROVE  /\ Count(t) \in 0..Len(RowsFor(t.event, t.base))
           /\ Written(t) \in Seq(Rows)
           /\ RowsFor(t.event, t.base) \in Seq(Rows)
           /\ Len(RowsFor(t.event, t.base)) \in 1..2
           /\ \A st \in States :
                 /\ Replay(st, Written(t)) \in States
                 /\ Replay(st, RowsFor(t.event, t.base)) \in States
                 /\ Replay(st, RowsFor(t.event, t.base))
                      = Patched(st, Replay(<<>>, RowsFor(t.event, t.base)))
           /\ t.at \in {"announce", "commit"} => Written(t) = RowsFor(t.event, t.base)
           /\ t.at = "insert" /\ ~(Len(t.left) < Len(RowsFor(t.event, t.base)))
                 => Written(t) = <<>>
<1>1. PICK ids, rows : ids = RowsOf(t.event, t.base) /\ rows = RowsFor(t.event, t.base)
  OBVIOUS
<1>2. t.event \in Narrated /\ t.base \in States /\ t.left \in Seq(RowIds) /\ t.at \in Open
  BY DEF TaskOK, Tasks, Open
<1>3. /\ ids \in Seq(RowIds) /\ ids # <<>> /\ Len(t.left) <= Len(ids)
      /\ t.left = <<>> <=> t.at \in {"announce", "commit"}
  BY <1>1, <1>2, RowsAre DEF TaskOK
<1>4. rows \in Seq(Rows) /\ Len(rows) = Len(ids) /\ Len(ids) \in 0..2
  BY <1>1, <1>2, RowsForAre
<1>5. Len(ids) \in 1..2 /\ Len(t.left) \in 0..Len(ids)
  BY <1>2, <1>3, <1>4
<1>6. Count(t) = Len(ids) - Len(t.left) + IF t.at = "publish" THEN 1 ELSE 0
  BY <1>1 DEF Count
<1>7. Count(t) \in 0..Len(rows)
  <2>1. CASE t.at = "publish"
    <3>1. Len(t.left) # 0
      BY <1>2, <1>3, <2>1
    <3> QED BY <1>4, <1>5, <1>6, <2>1, <3>1
  <2>2. CASE t.at # "publish"
    BY <1>4, <1>5, <1>6, <2>2
  <2> QED BY <2>1, <2>2
<1>8. Written(t) = SubSeq(rows, 1, Count(t)) /\ SubSeq(rows, 1, Len(rows)) = rows
      /\ SubSeq(rows, 1, 0) = <<>> /\ SubSeq(rows, 1, Count(t)) \in Seq(Rows)
  <2>1. SubSeq(rows, 1, Count(t)) \in Seq(Rows)
    BY <1>4, <1>7, FirstOf
  <2>2. SubSeq(rows, 1, Len(rows)) = rows /\ SubSeq(rows, 1, 0) = <<>>
    BY <1>4, FirstOf
  <2> QED BY <1>1, <2>1, <2>2 DEF Written
<1>9. ASSUME NEW st \in States
      PROVE  /\ Replay(st, Written(t)) \in States
             /\ Replay(st, rows) \in States
             /\ Replay(st, rows) = Patched(st, Replay(<<>>, rows))
  <2>0. Len(rows) <= 2
    <3>1. \A k \in 0..2 : k <= 2
      OBVIOUS
    <3>2. Len(rows) \in 0..2
      BY <1>4
    <3> QED BY <3>1, <3>2
  <2>1. \A n \in 0..Len(rows) :
           /\ Replay(st, SubSeq(rows, 1, n)) \in States
           /\ Replay(st, SubSeq(rows, 1, n)) = Patched(st, Replay(<<>>, SubSeq(rows, 1, n)))
    BY <1>4, <2>0, ReplayOfRows
  <2>2. Len(rows) \in 0..Len(rows)
    BY <1>4
  <2> QED BY <1>7, <1>8, <2>1, <2>2
<1>10. t.at \in {"announce", "commit"} => Written(t) = rows
  <2> SUFFICES ASSUME t.at \in {"announce", "commit"} PROVE Count(t) = Len(rows)
    BY <1>8
  <2>1. Len(t.left) = 0 /\ t.at # "publish"
    BY <1>3
  <2> QED BY <1>4, <1>5, <1>6, <2>1
<1>11. t.at = "insert" /\ ~(Len(t.left) < Len(rows)) => Written(t) = <<>>
  <2> SUFFICES ASSUME t.at = "insert", ~(Len(t.left) < Len(rows)) PROVE Count(t) = 0
    BY <1>8
  <2> QED BY <1>4, <1>5, <1>6
<1> QED BY <1>1, <1>4, <1>5, <1>7, <1>8, <1>9, <1>10, <1>11

LEMMA TaskInserts ==
    ASSUME NEW t \in Tasks, TaskOK(t), t.at = "insert"
    PROVE  /\ [t EXCEPT !.at = "publish"] \in Tasks
           /\ TaskOK([t EXCEPT !.at = "publish"])
           /\ Head(t.left) \in RowIds
           /\ Row(Head(t.left), t.event) \in Rows
           /\ Row(Head(t.left), t.event).id = Head(t.left)
           /\ \E i \in DOMAIN RowsOf(t.event, t.base) :
                 Head(t.left) = RowsOf(t.event, t.base)[i]
           /\ Written([t EXCEPT !.at = "publish"])
                = Append(Written(t), Row(Head(t.left), t.event))
<1> DEFINE u == [t EXCEPT !.at = "publish"]
<1>1. PICK ids, rows : ids = RowsOf(t.event, t.base) /\ rows = RowsFor(t.event, t.base)
  OBVIOUS
<1>2. t.event \in Narrated /\ t.base \in States /\ t.left \in Seq(RowIds) /\ t.left # <<>>
  BY DEF TaskOK, Tasks, Open
<1>3. /\ ids \in Seq(RowIds) /\ ids # <<>> /\ Len(t.left) <= Len(ids)
      /\ t.left = SubSeq(ids, Len(ids) - Len(t.left) + 1, Len(ids))
  BY <1>1, <1>2, RowsAre DEF TaskOK, Open
<1>4. rows \in Seq(Rows) /\ Len(rows) = Len(ids)
      /\ \A i \in 1..Len(ids) : rows[i] = Row(ids[i], t.event) /\ rows[i].id = ids[i]
  BY <1>1, <1>2, RowsForAre
<1>5. PICK n \in Nat : n = Len(ids) - Len(t.left) /\ n < Len(ids) /\ n + 1 \in 1..Len(ids)
  <2>1. PICK k \in Nat, m \in Nat : k = Len(t.left) /\ m = Len(ids)
    BY <1>2, <1>3
  <2>2. k # 0 /\ k <= m
    BY <1>2, <1>3, <2>1
  <2>3. m - k \in Nat /\ m - k < m /\ (m - k) + 1 \in 1..m
    BY <2>2
  <2> QED BY <2>1, <2>3
<1>6. Head(t.left) = ids[n + 1]
  BY <1>2, <1>3, <1>5, EndOf
<1>7. /\ u \in Tasks /\ u.at = "publish" /\ u.event = t.event /\ u.base = t.base /\ u.left = t.left
  BY DEF Tasks, Places, Open
<1>8. TaskOK(u)
  BY <1>1, <1>2, <1>3, <1>7 DEF TaskOK
<1>9. Written(t) = SubSeq(rows, 1, n) /\ Written(u) = SubSeq(rows, 1, n + 1)
  <2>1. Count(t) = n /\ Count(u) = n + 1
    BY <1>1, <1>2, <1>3, <1>5, <1>7 DEF Count
  <2> QED BY <1>1, <1>7, <2>1 DEF Written
<1>10. SubSeq(rows, 1, n + 1) = Append(SubSeq(rows, 1, n), rows[n + 1])
  BY <1>4, <1>5, FirstOf
<1>11. rows[n + 1] = Row(Head(t.left), t.event) /\ rows[n + 1].id = Head(t.left)
       /\ rows[n + 1] \in Rows /\ ids[n + 1] \in RowIds
  <2>1. PICK k \in 1..Len(ids) : k = n + 1
    BY <1>5
  <2>2. rows[k] = Row(ids[k], t.event) /\ rows[k].id = ids[k]
    BY <1>4, <2>1
  <2>3. rows[k] \in Rows /\ ids[k] \in RowIds
    BY <1>3, <1>4, <2>1
  <2> QED BY <1>6, <2>1, <2>2, <2>3
<1>12. n + 1 \in DOMAIN RowsOf(t.event, t.base)
       /\ Head(t.left) = RowsOf(t.event, t.base)[n + 1]
  <2>1. n + 1 \in DOMAIN ids
    <3>1. DOMAIN ids = 1..Len(ids)
      BY <1>3
    <3> QED BY <1>5, <3>1
  <2> QED BY <1>1, <1>6, <2>1
<1> HIDE DEF u
<1>13. Written(u) = Append(Written(t), Row(Head(t.left), t.event))
  BY <1>9, <1>10, <1>11
<1>14. Head(t.left) \in RowIds /\ Row(Head(t.left), t.event) \in Rows
       /\ Row(Head(t.left), t.event).id = Head(t.left)
  BY <1>6, <1>11
<1> QED BY <1>7, <1>8, <1>12, <1>13, <1>14 DEF u

LEMMA TaskPublishes ==
    ASSUME NEW t \in Tasks, TaskOK(t), t.at = "publish",
           NEW u, u = [t EXCEPT !.left = Tail(t.left),
                                !.at = IF Tail(t.left) = <<>> THEN "announce" ELSE "insert"]
    PROVE  /\ u \in Tasks /\ TaskOK(u) /\ u.at \in {"announce", "insert"}
           /\ u.event = t.event /\ u.base = t.base
           /\ Written(u) = Written(t)
           /\ Head(t.left) \in RowIds
           /\ \E i \in DOMAIN Written(t) : Written(t)[i].id = Head(t.left)
<1>1. PICK ids, rows : ids = RowsOf(t.event, t.base) /\ rows = RowsFor(t.event, t.base)
  OBVIOUS
<1>2. t.event \in Narrated /\ t.base \in States /\ t.left \in Seq(RowIds) /\ t.left # <<>>
  BY DEF TaskOK, Tasks, Open
<1>3. /\ ids \in Seq(RowIds) /\ ids # <<>> /\ Len(t.left) <= Len(ids)
      /\ t.left = SubSeq(ids, Len(ids) - Len(t.left) + 1, Len(ids))
  BY <1>1, <1>2, RowsAre DEF TaskOK, Open
<1>4. rows \in Seq(Rows) /\ Len(rows) = Len(ids)
      /\ \A i \in 1..Len(ids) : rows[i] = Row(ids[i], t.event) /\ rows[i].id = ids[i]
  BY <1>1, <1>2, RowsForAre
<1>5. PICK n \in Nat : n = Len(ids) - Len(t.left) /\ n < Len(ids) /\ n + 1 \in 1..Len(ids)
  <2>1. PICK k \in Nat, m \in Nat : k = Len(t.left) /\ m = Len(ids)
    BY <1>2, <1>3
  <2>2. k # 0 /\ k <= m
    BY <1>2, <1>3, <2>1
  <2>3. m - k \in Nat /\ m - k < m /\ (m - k) + 1 \in 1..m
    BY <2>2
  <2> QED BY <2>1, <2>3
<1>6. PICK rest : rest = Tail(t.left)
  OBVIOUS
<1>7. /\ Head(t.left) = ids[n + 1] /\ rest \in Seq(RowIds) /\ Len(rest) = Len(t.left) - 1
      /\ rest = SubSeq(ids, Len(ids) - Len(rest) + 1, Len(ids))
  BY <1>2, <1>3, <1>5, <1>6, EndOf
<1>8. /\ u \in Tasks /\ u.event = t.event /\ u.base = t.base /\ u.left = rest
      /\ u.at = IF rest = <<>> THEN "announce" ELSE "insert"
  BY <1>6, <1>7 DEF Tasks, Places, Open
<1>9. TaskOK(u) /\ u.at \in {"announce", "insert"}
  <2>1. Len(rest) <= Len(ids)
    BY <1>2, <1>3, <1>7
  <2>2. u.at \in {"announce", "insert"} /\ (rest = <<>> <=> u.at \in {"announce", "commit"})
    BY <1>8
  <2> QED BY <1>1, <1>2, <1>3, <1>7, <1>8, <2>1, <2>2 DEF TaskOK
<1>10. Count(t) = n + 1 /\ Count(u) = n + 1
  <2>1. Count(t) = Len(ids) - Len(t.left) + 1 /\ Count(u) = Len(ids) - Len(rest) + 0
    <3>1. u.at # "publish"
      BY <1>9
    <3> QED BY <1>1, <1>8, <3>1 DEF Count
  <2>2. Len(t.left) \in Nat /\ Len(ids) \in Nat
    BY <1>2, <1>3
  <2> QED BY <1>5, <1>7, <2>1, <2>2
<1>11. Written(t) = SubSeq(rows, 1, n + 1) /\ Written(u) = Written(t)
  BY <1>1, <1>8, <1>10 DEF Written
<1>12. /\ SubSeq(rows, 1, n + 1) \in Seq(Rows) /\ Len(SubSeq(rows, 1, n + 1)) = n + 1
       /\ SubSeq(rows, 1, n + 1)[n + 1] = rows[n + 1]
  <2>1. PICK k \in 0..Len(rows) : k = n + 1 /\ k \in 1..k
    <3>1. PICK m \in Nat : m = Len(rows)
      BY <1>4
    <3>2. n + 1 \in 1..m
      BY <1>4, <1>5, <3>1
    <3>3. n + 1 \in 0..m /\ n + 1 \in 1..(n + 1)
      BY <3>2
    <3> QED BY <3>1, <3>3
  <2>2. /\ SubSeq(rows, 1, k) \in Seq(Rows) /\ Len(SubSeq(rows, 1, k)) = k
        /\ \A i \in 1..k : SubSeq(rows, 1, k)[i] = rows[i]
    BY <1>4, FirstOf
  <2> QED BY <2>1, <2>2
<1>13. n + 1 \in DOMAIN Written(t) /\ Written(t)[n + 1].id = Head(t.left) /\ Head(t.left) \in RowIds
  <2>1. n + 1 \in DOMAIN SubSeq(rows, 1, n + 1)
    BY <1>12
  <2>2. rows[n + 1].id = ids[n + 1] /\ ids[n + 1] \in RowIds
    <3>1. PICK k \in 1..Len(ids) : k = n + 1
      BY <1>5
    <3>2. rows[k].id = ids[k] /\ ids[k] \in RowIds
      BY <1>3, <1>4, <3>1
    <3> QED BY <3>1, <3>2
  <2> QED BY <1>7, <1>11, <1>12, <2>1, <2>2
<1> QED BY <1>8, <1>9, <1>11, <1>13

LEMMA TaskBegins ==
    ASSUME NEW t \in Tasks, TaskOK(t), t.at = "taken", NEW st \in States,
           RowsOf(t.event, st) # <<>>,
           NEW u, u = [t EXCEPT !.at = "insert", !.base = st, !.left = RowsOf(t.event, st)]
    PROVE  u \in Tasks /\ TaskOK(u) /\ u.event = t.event /\ u.base = st /\ Written(u) = <<>>
<1>1. t.event \in Narrated /\ t.event \in Narrated \cup {None}
  BY DEF TaskOK
<1>2. PICK ids : ids = RowsOf(t.event, st)
  OBVIOUS
<1>3. ids \in Seq(RowIds) /\ ids # <<>>
  BY <1>1, <1>2, RowsAre
<1>4. /\ u \in Tasks /\ u.at = "insert" /\ u.event = t.event /\ u.base = st /\ u.left = ids
  BY <1>2, <1>3 DEF Tasks, Places, Open
<1>5. ids = SubSeq(ids, Len(ids) - Len(ids) + 1, Len(ids))
  <2>1. PICK n \in Nat : n = Len(ids)
    BY <1>3
  <2>2. (n - n) + 1 = 1
    OBVIOUS
  <2>3. SubSeq(ids, 1, Len(ids)) = ids
    BY <1>3, SubSeqFull
  <2> QED BY <2>1, <2>2, <2>3
<1>6. TaskOK(u)
  BY <1>1, <1>2, <1>3, <1>4, <1>5 DEF TaskOK
<1>7. Written(u) = <<>>
  <2>1. Len(RowsFor(u.event, u.base)) = Len(ids)
    BY <1>1, <1>2, <1>4, RowsForAre
  <2>2. ~(Len(u.left) < Len(RowsFor(u.event, u.base)))
    <3>1. Len(ids) \in Nat
      BY <1>3
    <3> QED BY <1>4, <2>1, <3>1
  <2> QED BY <1>4, <1>6, <2>2, WrittenIs DEF Open
<1> QED BY <1>4, <1>6, <1>7

LEMMA TaskAnnounces ==
    ASSUME NEW t \in Tasks, TaskOK(t), t.at = "announce"
    PROVE  /\ [t EXCEPT !.at = "commit"] \in Tasks
           /\ TaskOK([t EXCEPT !.at = "commit"])
           /\ Written([t EXCEPT !.at = "commit"]) = Written(t)
<1>1. PICK u : u = [t EXCEPT !.at = "commit"]
  OBVIOUS
<1>2. u \in Tasks /\ u.at = "commit" /\ u.event = t.event /\ u.base = t.base /\ u.left = t.left
  BY <1>1 DEF Tasks, Places, Open
<1>3. TaskOK(u)
  BY <1>2 DEF TaskOK, Open
<1>4. Written(u) = Written(t)
  BY <1>2 DEF Written, Count
<1> QED BY <1>1, <1>2, <1>3, <1>4

\* A task that is at nothing, or waits, or has taken an event.
LEMMA TaskRests ==
    /\ NoTask \in Tasks /\ TaskOK(NoTask) /\ NoTask.at = "none"
    /\ Waiting \in Tasks /\ TaskOK(Waiting) /\ Waiting.at = "wait"
    /\ Waiting.event = None /\ NoTask.event = None
    /\ \A t \in Tasks, e \in Narrated :
          /\ [t EXCEPT !.at = "taken", !.event = e] \in Tasks
          /\ TaskOK([t EXCEPT !.at = "taken", !.event = e])
<1>1. FirstState \in States /\ <<>> \in Seq(RowIds)
  BY DEF FirstState, States
<1>2. NoTask \in Tasks /\ NoTask.at = "none" /\ NoTask.event = None
  BY <1>1 DEF NoTask, Tasks, Places
<1>3. Waiting \in Tasks /\ Waiting.at = "wait" /\ Waiting.event = None
  BY <1>1 DEF NoTask, Waiting, Tasks, Places
<1>4. TaskOK(NoTask) /\ TaskOK(Waiting)
  BY <1>2, <1>3 DEF TaskOK, Open
<1>5. ASSUME NEW t \in Tasks, NEW e \in Narrated
      PROVE  /\ [t EXCEPT !.at = "taken", !.event = e] \in Tasks
             /\ TaskOK([t EXCEPT !.at = "taken", !.event = e])
  <2>1. PICK u : u = [t EXCEPT !.at = "taken", !.event = e]
    OBVIOUS
  <2>2. u \in Tasks /\ u.at = "taken" /\ u.event = e
    BY <2>1 DEF Tasks, Places
  <2>3. TaskOK(u)
    BY <2>2 DEF TaskOK, Open
  <2> QED BY <2>1, <2>2, <2>3
<1> QED BY <1>2, <1>3, <1>4, <1>5

-----------------------------------------------------------------------------
(* The steps of a narrator task.                                            *)

NarratorParts == NarratorOK /\ (\A w \in Processes : TransactionOK(w)) /\ TimelineOK

\* What was shown of the run still is what there is to show.
StillShown ==
    ~torn' => /\ ~torn
              /\ PublishedState' = PublishedState
              /\ Recorded \subseteq Recorded'
              /\ Recorded' \ Unpublished' \subseteq Recorded \ Unpublished

\* At most one task is in a transaction, the one that holds the lock.
LEMMA OneHolds ==
    ASSUME NarratorOK, \A w \in Processes : TransactionOK(w)
    PROVE  /\ None \notin Processes
           /\ lock = None \/ lock \in Processes
           /\ \A w \in Processes : /\ task[w] \in Tasks /\ TaskOK(task[w])
                                   /\ lock = w <=> task[w].at \in Open
                                   /\ task[w].at \in Open => task[w].base = state
           /\ lock = None => Out = <<>>
           /\ \A w \in Processes : lock = w => Out = Written(task[w])
BY NarratorAssumption DEF NarratorOK, TransactionOK, Out

LEMMA QuietTask ==
    ASSUME NarratorOK, \A v \in Processes : TransactionOK(v),
           NEW w \in Processes, NEW u \in Tasks, TaskOK(u), u.at \notin Open,
           task[w].at \notin Open, task' = [task EXCEPT ![w] = u],
           UNCHANGED <<lock, state>>
    PROVE  /\ \A v \in Processes : TransactionOK(v)'
           /\ lock' = lock /\ Out' = Out
           /\ PublishedState' = PublishedState /\ Unpublished' = Unpublished
           /\ task' \in [Processes -> Tasks]
<1>1. /\ task \in [Processes -> Tasks] /\ task' \in [Processes -> Tasks]
      /\ task'[w] = u /\ \A v \in Processes : v # w => task'[v] = task[v]
  BY DEF NarratorOK
<1>2. lock # w /\ (lock = None \/ (lock \in Processes /\ task'[lock] = task[lock]))
  BY <1>1, OneHolds
<1>3. ASSUME NEW v \in Processes PROVE TransactionOK(v)'
  <2>1. CASE v = w
    BY <1>1, <1>2, <2>1 DEF TransactionOK
  <2>2. CASE v # w
    BY <1>1, <2>2 DEF TransactionOK
  <2> QED BY <2>1, <2>2
<1>4. Out' = Out /\ Unpublished' = Unpublished
  BY <1>2 DEF Out, Unpublished
<1>5. PublishedState' = PublishedState
  <2>1. CASE lock = None
    BY <2>1 DEF PublishedState
  <2>2. CASE lock # None
    <3>1. Delta(lock)' = Delta(lock)
      BY <1>2, <2>2 DEF Delta, RowsAtHand
    <3> QED BY <1>2, <2>2, <3>1 DEF PublishedState
  <2> QED BY <2>1, <2>2
<1> QED BY <1>1, <1>3, <1>4, <1>5

LEMMA OpenTask ==
    ASSUME NarratorOK, \A v \in Processes : TransactionOK(v),
           NEW w \in Processes, NEW u \in Tasks, TaskOK(u), u.at \in Open, u.base = state,
           lock = w \/ lock = None, lock' = w, task' = [task EXCEPT ![w] = u], state' = state
    PROVE  /\ \A v \in Processes : TransactionOK(v)'
           /\ Out' = Written(u)
           /\ PublishedState' = IF u.at = "commit"
                                  THEN Patched(state, Replay(<<>>, RowsFor(u.event, u.base)))
                                  ELSE state
           /\ Unpublished' = IF u.at = "publish" THEN {Head(u.left)} ELSE {}
           /\ task' \in [Processes -> Tasks]
<1>1. /\ task' \in [Processes -> Tasks] /\ w # None
      /\ task'[w] = u /\ \A v \in Processes : v # w => task'[v] = task[v]
  BY NarratorAssumption DEF NarratorOK
<1>2. ASSUME NEW v \in Processes PROVE TransactionOK(v)'
  <2>1. CASE v = w
    BY <1>1, <2>1 DEF TransactionOK
  <2>2. CASE v # w
    <3>1. task[v].at \notin Open /\ TaskOK(task[v])
      BY <2>2, OneHolds
    <3> QED BY <1>1, <2>2, <3>1 DEF TransactionOK
  <2> QED BY <2>1, <2>2
<1>3. Out' = Written(u) /\ Unpublished' = IF u.at = "publish" THEN {Head(u.left)} ELSE {}
  BY <1>1 DEF Out, Unpublished
<1>4. Delta(w)' = Replay(<<>>, RowsFor(u.event, u.base))
  BY <1>1 DEF Delta, RowsAtHand, RowsFor
<1>5. PublishedState' = IF u.at = "commit" THEN Patched(state, Delta(w)') ELSE state
  BY <1>1 DEF PublishedState
<1> QED BY <1>1, <1>2, <1>3, <1>4, <1>5

LEMMA ReleasedTask ==
    ASSUME NarratorOK, \A v \in Processes : TransactionOK(v),
           NEW w \in Processes, NEW u \in Tasks, TaskOK(u), u.at \notin Open,
           lock = w, lock' = None, task' = [task EXCEPT ![w] = u]
    PROVE  /\ \A v \in Processes : TransactionOK(v)'
           /\ Out' = <<>> /\ PublishedState' = state' /\ Unpublished' = {}
           /\ task' \in [Processes -> Tasks]
<1>1. /\ task' \in [Processes -> Tasks]
      /\ task'[w] = u /\ \A v \in Processes : v # w => task'[v] = task[v]
      /\ \A v \in Processes : v # None
  BY NarratorAssumption DEF NarratorOK
<1>2. ASSUME NEW v \in Processes PROVE TransactionOK(v)'
  <2>1. CASE v = w
    BY <1>1, <2>1 DEF TransactionOK
  <2>2. CASE v # w
    <3>1. task[v].at \notin Open /\ TaskOK(task[v])
      BY <2>2, OneHolds
    <3> QED BY <1>1, <2>2, <3>1 DEF TransactionOK
  <2> QED BY <2>1, <2>2
<1> QED BY <1>1, <1>2 DEF Out, PublishedState, Unpublished

\* Nothing of the run's state and timeline is touched.
SameStory ==
    /\ UNCHANGED <<state, timeline>>
    /\ Out' = Out /\ PublishedState' = PublishedState /\ Unpublished' = Unpublished

LEMMA SameStoryStays ==
    ASSUME TimelineOK, SameStory, UNCHANGED <<torn, repeated>> \/ (torn' /\ repeated' = repeated)
    PROVE  TimelineOK' /\ StillShown
<1>1. Recorded' = Recorded
  BY DEF SameStory, Recorded
<1> QED BY <1>1 DEF SameStory, TimelineOK, StillShown

LEMMA SameTask ==
    ASSUME NarratorOK, \A v \in Processes : TransactionOK(v), UNCHANGED <<task, lock, state, timeline>>
    PROVE  (\A v \in Processes : TransactionOK(v)') /\ SameStory
<1>1. \A v \in Processes : TransactionOK(v)' /\ Delta(v)' = Delta(v)
  BY DEF TransactionOK, Delta, RowsAtHand
<1>2. Out' = Out /\ Unpublished' = Unpublished
  BY DEF Out, Unpublished
<1>3. PublishedState' = PublishedState
  <2>1. CASE lock = None
    BY <2>1 DEF PublishedState
  <2>2. CASE lock \in Processes
    BY <1>1, <2>2 DEF PublishedState
  <2> QED BY <2>1, <2>2 DEF NarratorOK
<1> QED BY <1>1, <1>2, <1>3 DEF SameStory

LEMMA IngestParts ==
    ASSUME NarratorParts, NEW w \in Processes, NEW event \in Narrated, Ingest(w, event)
    PROVE  NarratorParts' /\ SameStory /\ StillShown
<1> USE DEF NarratorParts
<1>1. UNCHANGED <<completed, lock, state, timeline, torn, repeated, failed, ended, oddities>>
  BY DEF Ingest
<1>2. queue' \in [Processes -> Seq(Narrated)]
  <2>1. queue' = [queue EXCEPT ![w] = Append(queue[w], event)]
    BY DEF Ingest
  <2>2. Append(queue[w], event) \in Seq(Narrated)
    BY DEF NarratorOK
  <2> QED BY <2>1, <2>2 DEF NarratorOK
<1>3. late' \subseteq ended
  BY DEF Ingest, NarratorOK
<1>4. /\ \A v \in Processes : TransactionOK(v)'
      /\ SameStory
      /\ task' \in [Processes -> Tasks]
  <2>1. CASE task[w].at = "none"
    <3>1. task' = [task EXCEPT ![w] = Waiting] /\ task[w].at \notin Open
      BY <2>1 DEF Ingest, Open
    <3>2. Waiting.at \notin Open
      BY TaskRests DEF Open
    <3> QED BY <1>1, <3>1, <3>2, TaskRests, QuietTask DEF SameStory
  <2>2. CASE task[w].at # "none"
    <3>1. task' = task
      BY <2>2 DEF Ingest, NarratorOK
    <3> QED BY <1>1, <3>1, SameTask DEF NarratorOK
  <2> QED BY <2>1, <2>2
<1>5. NarratorOK'
  BY <1>1, <1>2, <1>3, <1>4 DEF NarratorOK
<1> QED BY <1>1, <1>4, <1>5, SameStoryStays

LEMMA RestingParts ==
    ASSUME NarratorParts, NEW w \in Processes, CleanUp(w) \/ Take(w)
    PROVE  NarratorParts' /\ SameStory /\ StillShown
<1> USE DEF NarratorParts
<1>1. /\ UNCHANGED <<lock, state, timeline, torn, repeated, failed, ended, late, oddities>>
      /\ task[w].at = "wait" /\ task[w].at \notin Open
  BY DEF CleanUp, Take, Open
<1>2. CASE CleanUp(w)
  <2>1. /\ task' = [task EXCEPT ![w] = NoTask] /\ NoTask.at \notin Open
        /\ completed' = [completed EXCEPT ![w] = FALSE] /\ queue' = queue
    BY <1>2, TaskRests DEF CleanUp, Open
  <2>2. /\ \A v \in Processes : TransactionOK(v)'
        /\ SameStory
        /\ task' \in [Processes -> Tasks]
    BY <1>1, <2>1, TaskRests, QuietTask DEF SameStory
  <2>3. completed' \in [Processes -> BOOLEAN]
    BY <2>1 DEF NarratorOK
  <2>4. NarratorOK'
    BY <1>1, <2>1, <2>2, <2>3 DEF NarratorOK
  <2> QED BY <1>1, <2>2, <2>4, SameStoryStays
<1>3. CASE Take(w)
  <2>1. Head(queue[w]) \in Narrated /\ Tail(queue[w]) \in Seq(Narrated)
    BY <1>3 DEF Take, NarratorOK
  <2>2. PICK u : u = [task[w] EXCEPT !.at = "taken", !.event = Head(queue[w])]
    OBVIOUS
  <2>3. u \in Tasks /\ TaskOK(u) /\ u.at = "taken" /\ u.at \notin Open
    <3>1. task[w] \in Tasks
      BY DEF NarratorOK
    <3>2. u \in Tasks /\ TaskOK(u)
      BY <2>1, <2>2, <3>1, TaskRests
    <3>3. u.at = "taken"
      BY <2>2, <3>1 DEF Tasks
    <3> QED BY <3>2, <3>3 DEF Open
  <2>4. task' = [task EXCEPT ![w] = u] /\ queue' = [queue EXCEPT ![w] = Tail(queue[w])]
        /\ completed' = completed
    BY <1>3, <2>2 DEF Take
  <2>5. /\ \A v \in Processes : TransactionOK(v)'
        /\ SameStory
        /\ task' \in [Processes -> Tasks]
    BY <1>1, <2>3, <2>4, QuietTask DEF SameStory
  <2>6. queue' \in [Processes -> Seq(Narrated)]
    BY <2>1, <2>4 DEF NarratorOK
  <2>7. NarratorOK'
    BY <1>1, <2>4, <2>5, <2>6 DEF NarratorOK
  <2> QED BY <1>1, <2>5, <2>7, SameStoryStays
<1> QED BY <1>2, <1>3

LEMMA BeginParts ==
    ASSUME NarratorParts, NEW w \in Processes, Begin(w)
    PROVE  NarratorParts' /\ SameStory /\ StillShown
<1> USE DEF NarratorParts
<1>1. PICK rows : rows = RowsOf(task[w].event, state)
  OBVIOUS
<1>2. /\ UNCHANGED <<queue, state, timeline, torn, repeated, failed, late, oddities>>
      /\ task[w].at = "taken" /\ task[w].at \notin Open /\ lock = None
      /\ completed' = [completed EXCEPT ![w] = completed[w] \/ Ends(task[w].event)]
      /\ ended' = (IF Ends(task[w].event) THEN ended \cup {w} ELSE ended)
  BY DEF Begin, Open, Free
<1>3. task[w] \in Tasks /\ TaskOK(task[w]) /\ lock # w
  BY OneHolds, <1>2
<1>4. completed' \in [Processes -> BOOLEAN] /\ ended' \subseteq Processes /\ late' \subseteq ended'
  <2>1. (completed[w] \/ Ends(task[w].event)) \in BOOLEAN
    BY DEF Ends, NarratorOK
  <2>2. completed' \in [Processes -> BOOLEAN]
    BY <1>2, <2>1, Zenon DEF NarratorOK
  <2> QED BY <1>2, <2>2 DEF NarratorOK
<1>5. CASE rows = <<>>
  <2>1. task' = [task EXCEPT ![w] = Waiting] /\ lock' = lock /\ Waiting.at \notin Open
    BY <1>1, <1>5, TaskRests DEF Begin, Open
  <2>2. /\ \A v \in Processes : TransactionOK(v)'
        /\ SameStory
        /\ task' \in [Processes -> Tasks]
    BY <1>2, <2>1, TaskRests, QuietTask DEF SameStory
  <2>3. NarratorOK'
    BY <1>2, <1>4, <2>1, <2>2 DEF NarratorOK
  <2> QED BY <1>2, <2>2, <2>3, SameStoryStays
<1>6. CASE rows # <<>>
  <2>1. PICK u : u = [task[w] EXCEPT !.at = "insert", !.base = state, !.left = rows]
    OBVIOUS
  <2>2. task' = [task EXCEPT ![w] = u] /\ lock' = w
    BY <1>1, <1>6, <2>1 DEF Begin
  <2>3. u \in Tasks /\ TaskOK(u) /\ u.base = state /\ Written(u) = <<>>
    <3>1. PICK t, st : t = task[w] /\ st = state
      OBVIOUS
    <3>2. t \in Tasks /\ TaskOK(t) /\ t.at = "taken" /\ st \in States
      BY <1>2, <1>3, <3>1 DEF NarratorOK
    <3>3. /\ RowsOf(t.event, st) # <<>>
          /\ u = [t EXCEPT !.at = "insert", !.base = st, !.left = RowsOf(t.event, st)]
      BY <1>1, <1>6, <2>1, <3>1
    <3> QED BY <3>1, <3>2, <3>3, TaskBegins
  <2>4. u.at = "insert" /\ u.at \in Open
    BY <1>3, <2>1 DEF Tasks, Open
  <2>5. /\ \A v \in Processes : TransactionOK(v)'
        /\ Out' = <<>> /\ PublishedState' = state /\ Unpublished' = {}
        /\ task' \in [Processes -> Tasks]
    <3>1. u.at # "commit" /\ u.at # "publish"
      BY <2>4
    <3> QED BY <1>2, <2>2, <2>3, <2>4, <3>1, OpenTask
  <2>6. SameStory
    <3>1. Out = <<>> /\ PublishedState = state /\ Unpublished = {}
      BY <1>2 DEF Out, PublishedState, Unpublished
    <3> QED BY <1>2, <2>5, <3>1 DEF SameStory
  <2>7. NarratorOK'
    BY <1>2, <1>4, <2>2, <2>5 DEF NarratorOK
  <2> QED BY <1>2, <2>5, <2>6, <2>7, SameStoryStays
<1> QED BY <1>5, <1>6

LEMMA InsertParts ==
    ASSUME NarratorParts, NEW w \in Processes, InsertRow(w)
    PROVE  /\ NarratorParts' /\ StillShown
           /\ task' = [task EXCEPT ![w] = [task[w] EXCEPT !.at = "publish"]]
           /\ Head(task[w].left) \in RowIds
           /\ Recorded' = Recorded \cup {Head(task[w].left)}
           /\ \E i \in DOMAIN RowsOf(task[w].event, task[w].base) :
                 Head(task[w].left) = RowsOf(task[w].event, task[w].base)[i]
           /\ \/ timeline' = timeline /\ repeated'
              \/ \E row \in Rows : /\ row.id = Head(task[w].left) /\ row.id \notin Recorded
                                   /\ timeline' = Append(timeline, row)
<1> USE DEF NarratorParts
<1>1. /\ UNCHANGED <<queue, completed, lock, state, torn, failed, ended, late, oddities>>
      /\ task[w].at = "insert" /\ task[w].at \in Open
  BY DEF InsertRow, Open
<1>2. task[w] \in Tasks /\ TaskOK(task[w]) /\ lock = w /\ task[w].base = state
      /\ Out = Written(task[w]) /\ state \in States
  BY <1>1, OneHolds DEF NarratorOK
<1>3. PICK u : u = [task[w] EXCEPT !.at = "publish"]
  OBVIOUS
<1>4. task' = [task EXCEPT ![w] = u]
  BY <1>3, Zenon DEF InsertRow
<1>5. PICK row : row = RowAtHand(w)
  OBVIOUS
<1>6. /\ u \in Tasks /\ TaskOK(u) /\ row \in Rows /\ row.id = Head(task[w].left)
      /\ row.id \in RowIds /\ Written(u) = Append(Out, row)
      /\ \E i \in DOMAIN RowsOf(task[w].event, task[w].base) :
            Head(task[w].left) = RowsOf(task[w].event, task[w].base)[i]
  BY <1>1, <1>2, <1>3, <1>5, TaskInserts DEF RowAtHand
<1>7. u.at = "publish" /\ u.at \in Open /\ u.base = state /\ u.left = task[w].left
  BY <1>2, <1>3 DEF Tasks, Open
<1>8. /\ \A v \in Processes : TransactionOK(v)'
      /\ Out' = Append(Out, row) /\ PublishedState' = state /\ Unpublished' = {row.id}
      /\ task' \in [Processes -> Tasks]
  BY <1>1, <1>2, <1>4, <1>6, <1>7, OpenTask
<1>9. PublishedState = state /\ Unpublished = {}
  BY <1>1, <1>2 DEF PublishedState, Unpublished
<1>10. Out \in Seq(Rows)
  BY <1>1, <1>2, WrittenIs
<1>11. \/ timeline' = timeline /\ repeated' = TRUE /\ row.id \in Recorded
       \/ /\ timeline' = Append(timeline, row) /\ repeated' = repeated
          /\ row.id \notin Recorded
  BY <1>5 DEF InsertRow
<1>12. timeline' \in Seq(Rows) /\ repeated' \in BOOLEAN
       /\ Recorded' = Recorded \cup {row.id}
  <2>1. CASE timeline' = timeline /\ repeated' = TRUE /\ row.id \in Recorded
    BY <2>1 DEF NarratorOK, Recorded
  <2>2. CASE timeline' = Append(timeline, row) /\ repeated' = repeated
    <3>1. timeline \in Seq(Rows) /\ timeline' \in Seq(Rows)
      BY <1>6, <2>2 DEF NarratorOK
    <3>2. ToSet(timeline') = ToSet(timeline) \cup {row}
      BY <2>2, <3>1, ToSetOfEnds
    <3> QED BY <2>2, <3>1, <3>2 DEF NarratorOK, Recorded
  <2> QED BY <1>11, <2>1, <2>2
<1>13. NarratorOK'
  BY <1>1, <1>8, <1>12 DEF NarratorOK
<1>14. \A i \in DOMAIN Out' : Out'[i].id \in Recorded'
  <2>1. \A i \in DOMAIN Out' : Out'[i] = row \/ \E j \in DOMAIN Out : Out'[i] = Out[j]
    BY <1>8, <1>10
  <2>2. \A j \in DOMAIN Out : Out[j].id \in Recorded
    BY DEF TimelineOK
  <2> QED BY <1>12, <2>1, <2>2
<1>15. ~torn' /\ ~repeated' => Replay(FirstState, timeline') = Replay(state', Out')
  <2> SUFFICES ASSUME ~torn', ~repeated' PROVE Replay(FirstState, timeline') = Replay(state', Out')
    OBVIOUS
  <2>1. timeline' = Append(timeline, row) /\ ~torn /\ ~repeated /\ timeline \in Seq(Rows)
    BY <1>1, <1>11 DEF NarratorOK
  <2>2. Replay(FirstState, timeline) = Replay(state, Out)
    BY <2>1 DEF TimelineOK
  <2>3. Replay(FirstState, Append(timeline, row)) = ApplyChanges(Replay(FirstState, timeline), row)
    BY <1>6, <2>1, ReplayAppend
  <2>4. Replay(state, Append(Out, row)) = ApplyChanges(Replay(state, Out), row)
    BY <1>6, <1>10, ReplayAppend
  <2> QED BY <1>1, <1>8, <2>1, <2>2, <2>3, <2>4
<1>16. TimelineOK'
  BY <1>14, <1>15 DEF TimelineOK
<1>17. StillShown
  BY <1>1, <1>8, <1>9, <1>12 DEF StillShown
<1> QED BY <1>3, <1>4, <1>6, <1>8, <1>11, <1>12, <1>13, <1>16, <1>17

\* A row at hand is published, or is not.
LEMMA AfterRowParts ==
    ASSUME NarratorParts, NEW w \in Processes, task[w].at = "publish", AfterRow(w),
           UnchangedByPublishing, oddities' \in Nat
    PROVE  /\ NarratorParts'
           /\ PublishedState' = PublishedState
           /\ Recorded' = Recorded
           /\ Unpublished' = {} /\ Unpublished = {Head(task[w].left)}
           /\ Head(task[w].left) \in Recorded
           /\ task'[w].event = task[w].event
           /\ \A v \in Processes : (InHand(v) <=> InHand(v)') /\ (v # w => task'[v] = task[v])
<1> USE DEF NarratorParts
<1>1. /\ UNCHANGED <<queue, completed, lock, state, timeline, torn, repeated, failed, ended, late>>
      /\ task[w].at \in Open
  BY DEF UnchangedByPublishing, Open
<1>2. task[w] \in Tasks /\ TaskOK(task[w]) /\ lock = w /\ task[w].base = state
      /\ Out = Written(task[w]) /\ lock # None
  BY <1>1, OneHolds
<1>3. PICK t, u : /\ t = task[w]
                  /\ u = [t EXCEPT !.left = Tail(t.left),
                                   !.at = IF Tail(t.left) = <<>> THEN "announce" ELSE "insert"]
  OBVIOUS
<1>4. task' = [task EXCEPT ![w] = u]
  BY <1>3, Zenon DEF AfterRow
<1>5. /\ u \in Tasks /\ TaskOK(u) /\ u.at \in {"announce", "insert"}
      /\ u.event = t.event /\ u.base = t.base
      /\ Written(u) = Written(t)
      /\ Head(t.left) \in RowIds
      /\ \E i \in DOMAIN Written(t) : Written(t)[i].id = Head(t.left)
  <2>1. t \in Tasks /\ TaskOK(t) /\ t.at = "publish"
    BY <1>2, <1>3
  <2>2. u = [t EXCEPT !.left = Tail(t.left),
                      !.at = IF Tail(t.left) = <<>> THEN "announce" ELSE "insert"]
    BY <1>3
  <2> QED BY <2>1, <2>2, TaskPublishes, SMTT(20)
<1>6. u.at \in Open /\ u.at # "publish" /\ u.at # "commit" /\ u.base = state
  BY <1>2, <1>3, <1>5 DEF Open
<1>7. /\ \A v \in Processes : TransactionOK(v)'
      /\ Out' = Written(u) /\ PublishedState' = state /\ Unpublished' = {}
      /\ task' \in [Processes -> Tasks]
  BY <1>1, <1>2, <1>4, <1>5, <1>6, OpenTask
<1>8. PublishedState = state /\ Unpublished = {Head(task[w].left)}
  BY <1>2 DEF PublishedState, Unpublished
<1>9. Recorded' = Recorded /\ Head(task[w].left) \in Recorded
  BY <1>1, <1>2, <1>3, <1>5 DEF Recorded, TimelineOK
<1>10. Out' = Out
  BY <1>2, <1>3, <1>5, <1>7
<1>11. NarratorOK' /\ TimelineOK'
  BY <1>1, <1>7, <1>9, <1>10 DEF NarratorOK, TimelineOK
<1>12. \A v \in Processes : (InHand(v) <=> InHand(v)') /\ (v # w => task'[v] = task[v])
  <2>1. task'[w] = u /\ \A v \in Processes : v # w => task'[v] = task[v]
    BY <1>4 DEF NarratorOK
  <2> QED BY <1>5, <2>1 DEF InHand
<1>13. task'[w].event = task[w].event
  BY <1>3, <1>4, <1>5 DEF NarratorOK
<1> QED BY <1>7, <1>8, <1>9, <1>11, <1>12, <1>13

\* The changes of a state are published, or are not.
LEMMA AnnounceParts ==
    ASSUME NarratorParts, NEW w \in Processes, task[w].at = "announce",
           task' = [task EXCEPT ![w].at = "commit"],
           UnchangedByPublishing, oddities' \in Nat
    PROVE  /\ NarratorParts'
           /\ PublishedState = state
           /\ PublishedState' = Patched(state, Delta(w))
           /\ Recorded' = Recorded
           /\ Unpublished' = {} /\ Unpublished = {}
           /\ task'[w].event = task[w].event
           /\ \A v \in Processes : (InHand(v) <=> InHand(v)') /\ (v # w => task'[v] = task[v])
<1> USE DEF NarratorParts
<1>1. /\ UNCHANGED <<queue, completed, lock, state, timeline, torn, repeated, failed, ended, late>>
      /\ task[w].at \in Open
  BY DEF UnchangedByPublishing, Open
<1>2. task[w] \in Tasks /\ TaskOK(task[w]) /\ lock = w /\ task[w].base = state
      /\ Out = Written(task[w]) /\ lock # None
  BY <1>1, OneHolds
<1>3. PICK t, u : t = task[w] /\ u = [t EXCEPT !.at = "commit"]
  OBVIOUS
<1>4. task' = [task EXCEPT ![w] = u]
  BY <1>3, Zenon
<1>5. /\ u \in Tasks /\ TaskOK(u) /\ u.at = "commit" /\ Written(u) = Written(t)
      /\ u.event = t.event /\ u.base = t.base
  <2>1. u \in Tasks /\ TaskOK(u) /\ Written(u) = Written(t)
    BY <1>2, <1>3, TaskAnnounces
  <2>2. u.at = "commit" /\ u.event = t.event /\ u.base = t.base
    BY <1>2, <1>3 DEF Tasks
  <2> QED BY <2>1, <2>2
<1>6. /\ \A v \in Processes : TransactionOK(v)'
      /\ Out' = Written(u)
      /\ PublishedState' = Patched(state, Replay(<<>>, RowsFor(u.event, u.base)))
      /\ Unpublished' = {}
      /\ task' \in [Processes -> Tasks]
  <2>1. u.at \in Open /\ u.at # "publish" /\ u.base = state
    BY <1>2, <1>3, <1>5 DEF Open
  <2> QED BY <1>1, <1>2, <1>4, <1>5, <2>1, OpenTask
<1>7. Delta(w) = Replay(<<>>, RowsFor(u.event, u.base))
  BY <1>3, <1>5, RowsAtHandAre DEF Delta
<1>8. PublishedState = state /\ Unpublished = {}
  BY <1>2 DEF PublishedState, Unpublished
<1>9. Recorded' = Recorded
  BY <1>1 DEF Recorded
<1>10. NarratorOK' /\ TimelineOK'
  BY <1>1, <1>2, <1>3, <1>5, <1>6, <1>9 DEF NarratorOK, TimelineOK
<1>11. \A v \in Processes : (InHand(v) <=> InHand(v)') /\ (v # w => task'[v] = task[v])
  <2>1. task'[w] = u /\ \A v \in Processes : v # w => task'[v] = task[v]
    BY <1>4 DEF NarratorOK
  <2> QED BY <1>5, <2>1 DEF InHand
<1>12. task'[w].event = task[w].event
  BY <1>3, <1>4, <1>5 DEF NarratorOK
<1> QED BY <1>6, <1>7, <1>8, <1>9, <1>10, <1>11, <1>12

LEMMA CommitParts ==
    ASSUME NarratorParts, NEW w \in Processes, Commit(w)
    PROVE  NarratorParts' /\ StillShown /\ timeline' = timeline
<1> USE DEF NarratorParts
<1>1. /\ UNCHANGED <<queue, completed, timeline, torn, repeated, failed, ended, late, oddities>>
      /\ task[w].at = "commit" /\ task[w].at \in Open /\ lock' = None
      /\ task' = [task EXCEPT ![w] = Waiting]
      /\ state' = Replay(task[w].base, RowsAtHand(w))
  BY DEF Commit, Open
<1>2. task[w] \in Tasks /\ TaskOK(task[w]) /\ lock = w /\ task[w].base = state
      /\ Out = Written(task[w]) /\ lock # None /\ state \in States
  BY <1>1, OneHolds DEF NarratorOK
<1>3. PICK rows : rows = RowsFor(task[w].event, task[w].base)
  OBVIOUS
<1>4. /\ Out = rows /\ Replay(state, rows) \in States
      /\ Replay(state, rows) = Patched(state, Replay(<<>>, rows))
  BY <1>1, <1>2, <1>3, WrittenIs
<1>5. RowsAtHand(w) = rows
  BY <1>3, RowsAtHandAre
<1>6. state' = Replay(state, Out) /\ state' \in States
  BY <1>1, <1>2, <1>4, <1>5
<1>7. PublishedState = state' /\ Unpublished = {}
  <2>1. Unpublished = {} /\ PublishedState = Patched(state, Delta(w))
    BY <1>1, <1>2 DEF PublishedState, Unpublished
  <2> QED BY <1>4, <1>5, <1>6, <2>1 DEF Delta
<1>8. /\ \A v \in Processes : TransactionOK(v)'
      /\ Out' = <<>> /\ PublishedState' = state' /\ Unpublished' = {}
      /\ task' \in [Processes -> Tasks]
  <2>1. Waiting.at \notin Open
    BY TaskRests DEF Open
  <2> QED BY <1>1, <1>2, <2>1, TaskRests, ReleasedTask
<1>9. NarratorOK'
  BY <1>1, <1>6, <1>8 DEF NarratorOK
<1>10. Recorded' = Recorded
  BY <1>1 DEF Recorded
<1>11. TimelineOK'
  <2>1. \A i \in DOMAIN Out' : Out'[i].id \in Recorded'
    BY <1>8
  <2>2. Replay(state', Out') = state'
    BY <1>8, ReplayNone
  <2>3. ~torn' /\ ~repeated' => Replay(FirstState, timeline') = Replay(state', Out')
    BY <1>1, <1>6, <2>2 DEF TimelineOK
  <2> QED BY <2>1, <2>3 DEF TimelineOK
<1>12. StillShown
  BY <1>1, <1>7, <1>8, <1>10 DEF StillShown
<1> QED BY <1>1, <1>8, <1>9, <1>11, <1>12

\* The transaction of a task is given up, if it has one.
LEMMA RollBackParts ==
    ASSUME NarratorParts, NEW w \in Processes, RollBack(w), NEW u \in {NoTask, Waiting},
           task' = [task EXCEPT ![w] = u], UNCHANGED <<state, timeline, repeated>>
    PROVE  /\ \A v \in Processes : TransactionOK(v)'
           /\ TimelineOK' /\ StillShown
           /\ task' \in [Processes -> Tasks]
           /\ lock' \in Processes \cup {None} /\ torn' \in BOOLEAN /\ (torn => torn')
<1> USE DEF NarratorParts
<1>1. u \in Tasks /\ TaskOK(u) /\ u.at \notin Open
  BY TaskRests DEF Open
<1>2. torn' = (torn \/ RowsAreOut(w)) /\ lock' = IF lock = w THEN None ELSE lock
  BY DEF RollBack
<1>3. lock' \in Processes \cup {None} /\ torn' \in BOOLEAN /\ (torn => torn')
  BY <1>2 DEF NarratorOK, RowsAreOut
<1>4. CASE task[w].at \notin Open
  <2>1. lock' = lock /\ torn' = torn
    <3>1. lock # w
      BY <1>4, OneHolds
    <3>2. ~RowsAreOut(w)
      BY <1>4 DEF RowsAreOut, Open
    <3> QED BY <1>2, <3>1, <3>2 DEF NarratorOK
  <2>2. /\ \A v \in Processes : TransactionOK(v)'
        /\ SameStory
        /\ task' \in [Processes -> Tasks]
    BY <1>1, <1>4, <2>1, QuietTask DEF SameStory
  <2> QED BY <1>3, <2>1, <2>2, SameStoryStays
<1>5. CASE task[w].at \in Open
  <2>1. task[w] \in Tasks /\ TaskOK(task[w]) /\ lock = w /\ lock # None
        /\ Out = Written(task[w]) /\ state \in States /\ lock' = None
    BY <1>2, <1>5, OneHolds DEF NarratorOK
  <2>2. /\ \A v \in Processes : TransactionOK(v)'
        /\ Out' = <<>> /\ PublishedState' = state' /\ Unpublished' = {}
        /\ task' \in [Processes -> Tasks]
    BY <1>1, <2>1, ReleasedTask
  <2>3. ASSUME ~torn'
        PROVE  ~torn /\ Out = <<>> /\ task[w].at = "insert"
    <3>1. ~torn /\ ~RowsAreOut(w)
      BY <1>2, <2>3
    <3>2. task[w].at = "insert" /\ ~(Len(task[w].left) < Len(RowsAtHand(w)))
      BY <1>5, <3>1 DEF RowsAreOut, Open
    <3>3. ~(Len(task[w].left) < Len(RowsFor(task[w].event, task[w].base)))
      BY <3>2, RowsAtHandAre
    <3>4. Written(task[w]) = <<>>
      BY <1>5, <2>1, <3>2, <3>3, WrittenIs
    <3> QED BY <2>1, <3>1, <3>2, <3>4
  <2>4. TimelineOK'
    <3>1. \A i \in DOMAIN Out' : Out'[i].id \in Recorded'
      BY <2>2
    <3>2. ~torn' /\ ~repeated' => Replay(FirstState, timeline') = Replay(state', Out')
      BY <2>2, <2>3 DEF TimelineOK
    <3> QED BY <3>1, <3>2 DEF TimelineOK
  <2>5. StillShown
    <3> SUFFICES ASSUME ~torn'
                 PROVE  /\ ~torn
                        /\ PublishedState' = PublishedState
                        /\ Recorded \subseteq Recorded'
                        /\ Recorded' \ Unpublished' \subseteq Recorded \ Unpublished
      BY DEF StillShown
    <3>1. PublishedState = state /\ Unpublished = {} /\ Recorded' = Recorded
      BY <2>1, <2>3 DEF PublishedState, Unpublished, Recorded
    <3> QED BY <2>2, <2>3, <3>1
  <2> QED BY <1>3, <2>2, <2>4, <2>5
<1> QED BY <1>4, <1>5

LEMMA FaultParts ==
    ASSUME NarratorParts, NEW w \in Processes, Fail(w) \/ Crash(w)
    PROVE  NarratorParts' /\ StillShown /\ timeline' = timeline /\ repeated' = repeated
           /\ (torn => torn')
<1> USE DEF NarratorParts
<1>1. /\ RollBack(w) /\ UNCHANGED <<state, timeline, repeated>>
      /\ oddities > 0 /\ oddities' = oddities - 1
  BY DEF Fail, Crash, Odd
<1>2. PICK u \in {NoTask, Waiting} : task' = [task EXCEPT ![w] = u]
  BY DEF Fail, Crash
<1>3. /\ \A v \in Processes : TransactionOK(v)'
      /\ TimelineOK' /\ StillShown
      /\ task' \in [Processes -> Tasks]
      /\ lock' \in Processes \cup {None} /\ torn' \in BOOLEAN /\ (torn => torn')
  BY <1>1, <1>2, RollBackParts
<1>4. oddities' \in Nat
  BY <1>1 DEF NarratorOK
<1>5. queue' \in [Processes -> Seq(Narrated)] /\ completed' \in [Processes -> BOOLEAN]
  <2>1. CASE Fail(w)
    BY <2>1 DEF Fail, NarratorOK
  <2>2. CASE Crash(w)
    <3>1. <<>> \in Seq(Narrated)
      OBVIOUS
    <3>2. queue' = [queue EXCEPT ![w] = <<>>] /\ completed' = [completed EXCEPT ![w] = FALSE]
      BY <2>2 DEF Crash
    <3> QED BY <3>1, <3>2 DEF NarratorOK
  <2> QED BY <2>1, <2>2
<1>6. failed' \subseteq Events
  <2>1. CASE Fail(w)
    <3>1. InHand(w)
      BY <2>1 DEF Fail, InHand
    <3>2. task[w].event \in Narrated
      BY <3>1 DEF TransactionOK, TaskOK, InHand
    <3>3. failed' = failed \cup {task[w].event}
      BY <2>1 DEF Fail
    <3> QED BY <3>2, <3>3 DEF NarratorOK, Narrated
  <2>2. CASE Crash(w)
    <3>1. ToSet(queue[w]) \subseteq Narrated
      BY ToSetOfEnds DEF NarratorOK
    <3>2. task[w].at # "wait" => task[w].event \in Narrated
      BY <2>2 DEF Crash, TransactionOK, TaskOK
    <3>3. failed' = failed \cup ToSet(queue[w])
                           \cup (IF task[w].at = "wait" THEN {} ELSE {task[w].event})
      BY <2>2 DEF Crash
    <3> QED BY <3>1, <3>2, <3>3 DEF NarratorOK, Narrated
  <2> QED BY <2>1, <2>2
<1>7. ended' \subseteq Processes /\ late' \subseteq ended'
  BY DEF Fail, Crash, NarratorOK
<1>8. NarratorOK'
  BY <1>1, <1>3, <1>4, <1>5, <1>6, <1>7 DEF NarratorOK
<1> QED BY <1>1, <1>3, <1>8

LEMMA NarratorAlone ==
    ASSUME NarratorParts, UNCHANGED narratorVars
    PROVE  NarratorParts' /\ SameStory /\ StillShown
<1> USE DEF NarratorParts, narratorVars
<1>1. (\A v \in Processes : TransactionOK(v)') /\ SameStory
  BY SameTask
<1>2. NarratorOK'
  BY DEF NarratorOK
<1> QED BY <1>1, <1>2, SameStoryStays

\* A webhook that is heard is handed to the narrator of the process, unless it
\* brings Codex events.
LEMMA HearIngests ==
    ASSUME PodOK, NEW p \in posts, NEW w \in Processes, Hear(p, w)
    PROVE  \/ UNCHANGED narratorVars /\ p.events = {"codex_event"}
           \/ \E e \in Narrated : p.events = {e} /\ Ingest(w, e)
<1>1. PICK e \in PodEvents : p.events = {e}
  BY DEF PodOK, Posts
<1>2. CASE p.events = {"codex_event"}
  BY <1>2 DEF Hear
<1>3. CASE p.events # {"codex_event"}
  <2>1. e \in Narrated
    BY <1>1, <1>3 DEF Narrated, PodEvents, Events
  <2>2. \E x \in p.events : Ingest(w, x)
    BY <1>3 DEF Hear
  <2>3. Ingest(w, e)
    BY <1>1, <2>2
  <2> QED BY <1>1, <2>1, <2>3
<1> QED BY <1>2, <1>3

\* Every step but a publication leaves what is shown of the run as good as it was.
LEMMA StoryStep ==
    ASSUME PodOK, NarratorParts, [Next]_vars
    PROVE  /\ NarratorParts'
           /\ StillShown \/ \E w \in Processes :
                               PublishRow(w) \/ PublishDelta(w) \/ StaysUnpublished(w)
<1>1. ASSUME UNCHANGED narratorVars
      PROVE  NarratorParts' /\ StillShown
  BY <1>1, NarratorAlone
<1>2. (Pod \/ DeletePod) => UNCHANGED narratorVars
  BY DEF Pod, DeletePod, UnchangedServer
<1>3. ASSUME NEW p \in posts, Store(p) \/ RequestFails(p)
      PROVE  UNCHANGED narratorVars
  BY <1>3 DEF Store, RequestFails
<1>4. ASSUME NEW p \in posts, NEW w \in Processes, Hear(p, w)
      PROVE  NarratorParts' /\ StillShown
  BY <1>1, <1>4, HearIngests, IngestParts
<1>5. ASSUME NEW w \in Processes, EndRun(w)
      PROVE  NarratorParts' /\ StillShown
  <2>1. "server_finished" \in Narrated
    BY DEF Narrated, Events, ScriptEvents
  <2> QED BY <1>5, <2>1, IngestParts DEF EndRun
<1>6. ASSUME NEW w \in Processes, Narrate(w)
      PROVE  NarratorParts' /\ (StillShown \/ PublishRow(w) \/ PublishDelta(w))
  <2>1. CASE CleanUp(w) \/ Take(w)
    BY <2>1, RestingParts
  <2>2. CASE Begin(w)
    BY <2>2, BeginParts
  <2>3. CASE InsertRow(w)
    BY <2>3, InsertParts
  <2>4. CASE PublishRow(w)
    <3>1. /\ task[w].at = "publish" /\ AfterRow(w) /\ UnchangedByPublishing
          /\ oddities' \in Nat
      BY <2>4 DEF PublishRow, NarratorParts, NarratorOK
    <3> QED BY <2>4, <3>1, AfterRowParts
  <2>5. CASE PublishDelta(w)
    <3>1. /\ task[w].at = "announce" /\ task' = [task EXCEPT ![w].at = "commit"]
          /\ UnchangedByPublishing /\ oddities' \in Nat
      BY <2>5 DEF PublishDelta, NarratorParts, NarratorOK
    <3> QED BY <2>5, <3>1, AnnounceParts
  <2>6. CASE Commit(w)
    BY <2>6, CommitParts
  <2> QED BY <1>6, <2>1, <2>2, <2>3, <2>4, <2>5, <2>6 DEF Narrate, TaskSteps
<1>7. ASSUME NEW w \in Processes, Mishap(w)
      PROVE  NarratorParts' /\ (StillShown \/ StaysUnpublished(w))
  <2>1. CASE Fail(w) \/ Crash(w)
    BY <2>1, FaultParts
  <2>2. CASE StaysUnpublished(w)
    <3>1. oddities' \in Nat /\ UnchangedByPublishing
      BY <2>2 DEF StaysUnpublished, Odd, NarratorParts, NarratorOK
    <3>2. \/ task[w].at = "publish" /\ AfterRow(w)
          \/ task[w].at = "announce" /\ task' = [task EXCEPT ![w].at = "commit"]
      BY <2>2 DEF StaysUnpublished
    <3> QED BY <2>2, <3>1, <3>2, AfterRowParts, AnnounceParts
  <2> QED BY <1>7, <2>1, <2>2 DEF Mishap
<1>8. Browse => UNCHANGED narratorVars
  BY DEF Browse
<1>9. UNCHANGED vars => UNCHANGED narratorVars
  BY DEF vars
<1> QED BY <1>1, <1>2, <1>3, <1>4, <1>5, <1>6, <1>7, <1>8, <1>9 DEF Next

-----------------------------------------------------------------------------
(* The browser's view.                                                      *)

LEMMA ShowIs ==
    ASSUME NEW v, IsView(v)
    PROVE  /\ \A id \in RowIds :
                 LET m == [kind |-> "timeline_event", id |-> id]
                 IN m \in Messages /\ IsView(Show(v, m))
                    /\ Show(v, m).state = v.state /\ Show(v, m).rows = v.rows \cup {id}
           /\ \A rows \in Seq(Rows) :
                 LET m == [kind |-> "state_delta", delta |-> Replay(<<>>, rows)]
                 IN m \in Messages /\ IsView(Show(v, m))
                    /\ Show(v, m).state = Patched(v.state, Replay(<<>>, rows))
                    /\ Show(v, m).rows = v.rows
<1>1. v = [state |-> v.state, rows |-> v.rows] /\ v.rows \subseteq RowIds
  BY DEF IsView
<1>2. ASSUME NEW id \in RowIds
      PROVE  LET m == [kind |-> "timeline_event", id |-> id]
             IN m \in Messages /\ IsView(Show(v, m))
                /\ Show(v, m).state = v.state /\ Show(v, m).rows = v.rows \cup {id}
  <2>1. PICK m : m = [kind |-> "timeline_event", id |-> id]
    OBVIOUS
  <2>2. m \in Messages /\ m.kind = "timeline_event" /\ m.id = id
    BY <2>1 DEF Messages
  <2>3. PICK new : new = Show(v, m)
    OBVIOUS
  <2>4. new = [state |-> v.state, rows |-> v.rows \cup {id}]
    BY <1>1, <2>2, <2>3 DEF Show
  <2>5. IsView(new) /\ new.state = v.state /\ new.rows = v.rows \cup {id}
    BY <1>1, <2>4 DEF IsView
  <2> QED BY <2>1, <2>2, <2>3, <2>5
<1>3. ASSUME NEW rows \in Seq(Rows)
      PROVE  LET m == [kind |-> "state_delta", delta |-> Replay(<<>>, rows)]
             IN m \in Messages /\ IsView(Show(v, m))
                /\ Show(v, m).state = Patched(v.state, Replay(<<>>, rows))
                /\ Show(v, m).rows = v.rows
  <2>1. PICK m, d : d = Replay(<<>>, rows) /\ m = [kind |-> "state_delta", delta |-> d]
    OBVIOUS
  <2>2. m \in Messages /\ m.kind # "timeline_event" /\ m.delta = d
    BY <2>1 DEF Messages
  <2>3. PICK new : new = Show(v, m)
    OBVIOUS
  <2>4. new = [state |-> Patched(v.state, d), rows |-> v.rows]
    BY <1>1, <2>2, <2>3 DEF Show
  <2>5. IsView(new) /\ new.state = Patched(v.state, d) /\ new.rows = v.rows
    BY <1>1, <2>4 DEF IsView
  <2> QED BY <2>1, <2>2, <2>3, <2>5
<1> QED BY <1>2, <1>3

\* A message goes behind the reader's position, or the reader will not have it.
LEMMA PublishStream ==
    ASSUME StreamOK, NEW m \in Messages, Publish(m), IsView(Show(Shown(view, inbox), m))
    PROVE  /\ StreamOK'
           /\ reader' # "away" /\ ~missed' =>
                 /\ ~missed /\ reader' = reader /\ reader # "opening"
                 /\ Shown(view, inbox)' = Show(Shown(view, inbox), m)
<1>1. UNCHANGED <<reader, placed, view, connections>>
  BY DEF Publish
<1>2. CASE reader = "waiting" \/ placed
  <2>1. inbox' = Append(inbox, m) /\ missed' = missed
    BY <1>2 DEF Publish
  <2>2. reader \notin {"away", "opening"}
    BY <1>2 DEF StreamOK
  <2>3. Shown(view, Append(inbox, m)) = Show(Shown(view, inbox), m)
    BY ShownAppend DEF StreamOK
  <2>4. Append(inbox, m) \in Seq(Messages)
    BY DEF StreamOK
  <2>5. Shown(view', inbox') = Show(Shown(view, inbox), m)
    BY <1>1, <2>1, <2>3
  <2> QED BY <1>1, <2>1, <2>2, <2>4, <2>5 DEF StreamOK
<1>3. CASE ~(reader = "waiting" \/ placed)
  <2>1. inbox' = inbox /\ missed' = (missed \/ reader # "away")
    BY <1>3 DEF Publish
  <2>2. missed' \in BOOLEAN /\ (reader # "away" => missed')
    BY <2>1 DEF StreamOK
  <2>3. Shown(view, inbox)' = Shown(view, inbox)
    BY <1>1, <2>1
  <2> QED BY <1>1, <2>1, <2>2, <2>3 DEF StreamOK
<1> QED BY <1>2, <1>3

LEMMA BrowseStream ==
    ASSUME StreamOK, ViewOK, Browse, NarratorParts
    PROVE  StreamOK' /\ ViewOK'
<1>0. /\ NarratorParts' /\ SameStory /\ UNCHANGED torn
      /\ PublishedState' = PublishedState /\ Unpublished' = Unpublished
  BY NarratorAlone DEF Browse, SameStory, narratorVars
<1>1. Recorded' = Recorded /\ Recorded \subseteq RowIds
  <2>1. ToSet(timeline) \subseteq Rows
    BY ToSetOfEnds DEF NarratorParts, NarratorOK
  <2> QED BY <1>0, <2>1 DEF SameStory, Recorded, Rows
<1>2. <<>> \in Seq(Messages)
  BY ShortSequences
<1>3. CASE ReadState(state, DeltaIsOut)
  <2>1. /\ reader = "away" /\ connections > 0 /\ connections' = connections - 1
        /\ reader' = "opening" /\ view' = [state |-> state, rows |-> {}]
        /\ missed' = DeltaIsOut /\ UNCHANGED <<placed, inbox>>
    BY <1>3 DEF ReadState
  <2>2. inbox' = <<>> /\ ~placed' /\ missed' \in BOOLEAN
    BY <2>1 DEF StreamOK, DeltaIsOut
  <2>3. Shown(view', inbox') = view'
    BY <2>2, ShownNone
  <2>4. IsView(view') /\ view'.state = state
    BY <2>1 DEF IsView
  <2>5. connections' \in Nat
    BY <2>1 DEF StreamOK
  <2>6. StreamOK'
    BY <1>2, <2>1, <2>2, <2>3, <2>4, <2>5 DEF StreamOK
  <2>7. ~missed' => PublishedState = state
    <3> SUFFICES ASSUME ~missed' PROVE PublishedState = state
      OBVIOUS
    <3>1. \A w \in Processes : task[w].at # "commit"
      BY <2>1 DEF DeltaIsOut
    <3>2. lock = None \/ lock \in Processes
      BY DEF NarratorParts, NarratorOK
    <3> QED BY <3>1, <3>2 DEF PublishedState
  <2> QED BY <1>0, <2>1, <2>3, <2>4, <2>6, <2>7 DEF ViewOK
<1>4. CASE ReadTimeline(Recorded)
  <2>1. /\ reader = "opening" /\ reader' = "asking" /\ view' = [view EXCEPT !.rows = Recorded]
        /\ UNCHANGED <<placed, inbox, missed, connections>>
    BY <1>4 DEF ReadTimeline
  <2>2. inbox = <<>> /\ inbox' = <<>> /\ IsView(view)
    BY <2>1 DEF StreamOK
  <2>3. view' = [state |-> view.state, rows |-> Recorded]
    BY <2>1, <2>2 DEF IsView
  <2>4. IsView(view') /\ view'.state = view.state /\ view'.rows = Recorded
    BY <1>1, <2>3 DEF IsView
  <2>5. Shown(view', inbox') = view' /\ Shown(view, inbox) = view
    BY <2>2, ShownNone
  <2>6. StreamOK'
    BY <2>1, <2>4, <2>5 DEF StreamOK
  <2> QED BY <1>0, <1>1, <2>1, <2>4, <2>5, <2>6 DEF ViewOK
<1>5. CASE Ask \/ Pause
  <2>1. /\ reader \in {"asking", "waiting"} /\ reader' \in {"asking", "waiting"}
        /\ UNCHANGED <<placed, inbox, view, missed, connections>>
    BY <1>5 DEF Ask, Pause
  <2>2. Shown(view, inbox)' = Shown(view, inbox)
    BY <2>1
  <2> QED BY <1>0, <1>1, <2>1, <2>2 DEF StreamOK, ViewOK
<1>6. CASE Receive
  <2>1. /\ reader = "waiting" /\ view' = Shown(view, inbox) /\ inbox' = <<>> /\ placed' = TRUE
        /\ UNCHANGED <<reader, missed, connections>>
    BY <1>6 DEF Receive, Shown
  <2>2. Shown(view', inbox') = view'
    BY <2>1, ShownNone
  <2>3. Shown(view', inbox') = Shown(view, inbox)
    BY <2>1, <2>2
  <2>4. StreamOK'
    BY <1>2, <2>1, <2>2 DEF StreamOK
  <2> QED BY <1>0, <1>1, <2>1, <2>3, <2>4 DEF ViewOK
<1>7. CASE Disconnect
  <2>1. /\ reader' = "away" /\ placed' = FALSE /\ inbox' = <<>> /\ missed' = FALSE
        /\ UNCHANGED <<view, connections>>
    BY <1>7 DEF Disconnect
  <2>2. Shown(view', inbox') = view
    BY <2>1, ShownNone
  <2> QED BY <1>2, <2>1, <2>2 DEF StreamOK, ViewOK
<1> QED BY <1>3, <1>4, <1>5, <1>6, <1>7 DEF Browse

LEMMA UnpublishedStream ==
    ASSUME StreamOK, ViewOK, NarratorParts, NEW w \in Processes, StaysUnpublished(w)
    PROVE  StreamOK' /\ ViewOK'
<1>1. /\ UNCHANGED <<reader, placed, inbox, view, connections>>
      /\ missed' = (missed \/ reader # "away")
  BY DEF StaysUnpublished, StaySilent
<1>2. Shown(view, inbox)' = Shown(view, inbox)
  BY <1>1
<1>3. missed' \in BOOLEAN /\ (reader' # "away" => missed')
  BY <1>1 DEF StreamOK
<1> QED BY <1>1, <1>2, <1>3 DEF StreamOK, ViewOK

LEMMA PublishingStream ==
    ASSUME StreamOK, ViewOK, NarratorParts, NEW w \in Processes, PublishRow(w) \/ PublishDelta(w)
    PROVE  StreamOK' /\ ViewOK'
<1> DEFINE shown == Shown(view, inbox)
<1>1. IsView(shown)
  BY DEF StreamOK
<1>2. CASE PublishRow(w)
  <2>1. PICK id : id = Head(task[w].left)
    OBVIOUS
  <2>2. PICK m : m = [kind |-> "timeline_event", id |-> id]
    OBVIOUS
  <2>3. /\ task[w].at = "publish" /\ AfterRow(w) /\ UnchangedByPublishing
        /\ oddities' \in Nat /\ Publish(m) /\ torn' = torn
    BY <1>2, <2>1, <2>2 DEF PublishRow, UnchangedByPublishing, NarratorParts, NarratorOK
  <2>4. /\ PublishedState' = PublishedState /\ Recorded' = Recorded
        /\ Unpublished' = {} /\ Unpublished = {id} /\ id \in Recorded
    BY <2>1, <2>3, AfterRowParts
  <2>5. id \in RowIds
    <3>1. ToSet(timeline) \subseteq Rows
      BY ToSetOfEnds DEF NarratorParts, NarratorOK
    <3> QED BY <2>4, <3>1 DEF Recorded, Rows
  <2> HIDE DEF shown
  <2>6. /\ m \in Messages /\ IsView(Show(shown, m))
        /\ Show(shown, m).state = shown.state /\ Show(shown, m).rows = shown.rows \cup {id}
    BY <1>1, <2>2, <2>5, ShowIs
  <2>7. /\ StreamOK'
        /\ reader' # "away" /\ ~missed' =>
              /\ ~missed /\ reader' = reader /\ reader # "opening"
              /\ Shown(view, inbox)' = Show(shown, m)
    BY <2>3, <2>6, PublishStream DEF shown
  <2>8. ViewOK'
    <3> SUFFICES ASSUME reader' # "away", ~missed', ~torn'
                 PROVE  /\ Shown(view, inbox)'.state = PublishedState'
                        /\ reader' # "opening" =>
                              /\ Shown(view, inbox)'.rows \subseteq Recorded'
                              /\ Recorded' \ Unpublished' \subseteq Shown(view, inbox)'.rows
      BY DEF ViewOK
    <3>1. /\ shown.state = PublishedState
          /\ shown.rows \subseteq Recorded /\ Recorded \ Unpublished \subseteq shown.rows
      BY <2>3, <2>7 DEF ViewOK, shown
    <3> QED BY <2>4, <2>6, <2>7, <3>1
  <2> QED BY <2>7, <2>8
<1>3. CASE PublishDelta(w)
  <2>1. PICK d : d = Delta(w)
    OBVIOUS
  <2>2. PICK m : m = [kind |-> "state_delta", delta |-> d]
    OBVIOUS
  <2>3. /\ task[w].at = "announce" /\ task' = [task EXCEPT ![w].at = "commit"]
        /\ UnchangedByPublishing
        /\ oddities' \in Nat /\ Publish(m) /\ torn' = torn
    BY <1>3, <2>1, <2>2 DEF PublishDelta, UnchangedByPublishing, NarratorParts, NarratorOK
  <2>4. /\ PublishedState = state /\ PublishedState' = Patched(state, d)
        /\ Recorded' = Recorded /\ Unpublished' = {} /\ Unpublished = {}
    BY <2>1, <2>3, AnnounceParts
  <2>5. PICK rows \in Seq(Rows) : d = Replay(<<>>, rows)
    <3>1. task[w].at \in Open
      BY <2>3 DEF Open
    <3>2. task[w] \in Tasks /\ TaskOK(task[w])
      BY <3>1, OneHolds DEF NarratorParts
    <3>3. RowsFor(task[w].event, task[w].base) \in Seq(Rows)
      BY <3>1, <3>2, WrittenIs
    <3> QED BY <2>1, <3>3, RowsAtHandAre DEF Delta
  <2> HIDE DEF shown
  <2>6. /\ m \in Messages /\ IsView(Show(shown, m))
        /\ Show(shown, m).state = Patched(shown.state, d) /\ Show(shown, m).rows = shown.rows
    BY <1>1, <2>2, <2>5, ShowIs
  <2>7. /\ StreamOK'
        /\ reader' # "away" /\ ~missed' =>
              /\ ~missed /\ reader' = reader /\ reader # "opening"
              /\ Shown(view, inbox)' = Show(shown, m)
    BY <2>3, <2>6, PublishStream DEF shown
  <2>8. ViewOK'
    <3> SUFFICES ASSUME reader' # "away", ~missed', ~torn'
                 PROVE  /\ Shown(view, inbox)'.state = PublishedState'
                        /\ reader' # "opening" =>
                              /\ Shown(view, inbox)'.rows \subseteq Recorded'
                              /\ Recorded' \ Unpublished' \subseteq Shown(view, inbox)'.rows
      BY DEF ViewOK
    <3>1. /\ shown.state = state
          /\ shown.rows \subseteq Recorded /\ Recorded \ Unpublished \subseteq shown.rows
      BY <2>3, <2>4, <2>7 DEF ViewOK, shown
    <3> QED BY <2>4, <2>6, <2>7, <3>1
  <2> QED BY <2>7, <2>8
<1> QED BY <1>2, <1>3

LEMMA StreamStep ==
    ASSUME PodOK, NarratorParts, StreamOK, ViewOK, [Next]_vars
    PROVE  StreamOK' /\ ViewOK'
<1>1. ASSUME UNCHANGED streamVars, StillShown
      PROVE  StreamOK' /\ ViewOK'
  <2>1. Shown(view, inbox)' = Shown(view, inbox)
    BY <1>1 DEF streamVars
  <2>2. UNCHANGED <<reader, placed, inbox, view, missed, connections>>
    BY <1>1 DEF streamVars
  <2>3. StreamOK'
    BY <2>1, <2>2 DEF StreamOK
  <2>4. ViewOK'
    BY <1>1, <2>1, <2>2 DEF ViewOK, StillShown
  <2> QED BY <2>3, <2>4
<1>2. CASE Browse
  BY <1>2, BrowseStream
<1>3. CASE \E w \in Processes : StaysUnpublished(w)
  BY <1>3, UnpublishedStream
<1>4. CASE \E w \in Processes : PublishRow(w) \/ PublishDelta(w)
  BY <1>4, PublishingStream
<1>5. CASE ~Browse /\ ~(\E w \in Processes :
                           PublishRow(w) \/ PublishDelta(w) \/ StaysUnpublished(w))
  <2>1. StillShown
    BY <1>5, StoryStep
  <2>2. UNCHANGED streamVars
    <3>1. (Pod \/ DeletePod) => UNCHANGED streamVars
      BY DEF Pod, DeletePod, UnchangedServer
    <3>2. ASSUME NEW p \in posts, Store(p) \/ RequestFails(p)
          PROVE  UNCHANGED streamVars
      BY <3>2 DEF Store, RequestFails
    <3>3. ASSUME NEW p \in posts, NEW w \in Processes, Hear(p, w)
          PROVE  UNCHANGED streamVars
      BY <3>3 DEF Hear
    <3>4. ASSUME NEW w \in Processes, EndRun(w)
          PROVE  UNCHANGED streamVars
      BY <3>4 DEF EndRun
    <3>5. ASSUME NEW w \in Processes, Narrate(w)
          PROVE  UNCHANGED streamVars
      <4>1. CleanUp(w) \/ Take(w) \/ Begin(w) \/ InsertRow(w) \/ Commit(w)
        BY <1>5, <3>5 DEF Narrate, TaskSteps
      <4> QED BY <4>1 DEF CleanUp, Take, Begin, InsertRow, Commit
    <3>6. ASSUME NEW w \in Processes, Mishap(w)
          PROVE  UNCHANGED streamVars
      <4>1. Fail(w) \/ Crash(w)
        BY <1>5, <3>6 DEF Mishap
      <4> QED BY <4>1 DEF Fail, Crash
    <3>7. UNCHANGED vars => UNCHANGED streamVars
      BY DEF vars
    <3> QED BY <1>5, <3>1, <3>2, <3>3, <3>4, <3>5, <3>6, <3>7 DEF Next
  <2> QED BY <1>1, <2>1, <2>2
<1> QED BY <1>2, <1>3, <1>4, <1>5

-----------------------------------------------------------------------------
(* The ends of runs.                                                        *)

LEMMA EndsStep ==
    ASSUME PodOK, NarratorParts, EndsOK, [Next]_vars
    PROVE  EndsOK'
<1> USE DEF EndsOK
<1>1. /\ task \in [Processes -> Tasks] /\ completed \in [Processes -> BOOLEAN]
      /\ NoTask.at = "none" /\ Waiting.at = "wait" /\ ended \subseteq Processes
  BY TaskRests DEF NarratorParts, NarratorOK
<1>2. ASSUME UNCHANGED <<task, completed, ended, late>>
      PROVE  EndsOK'
  BY <1>2
<1>3. ASSUME NEW w \in Processes, NEW e, Ingest(w, e)
      PROVE  EndsOK'
  <2>1. /\ completed' = completed /\ ended' = ended
        /\ task' = [task EXCEPT ![w] = IF task[w].at = "none" THEN Waiting ELSE task[w]]
        /\ late' = IF w \in ended /\ task[w].at = "none" THEN late \cup {w} ELSE late
    BY <1>3 DEF Ingest
  <2>2. \A v \in Processes : task'[v] = task[v] \/ (v = w /\ task[w].at = "none")
    BY <1>1, <2>1
  <2> QED BY <1>1, <2>1, <2>2
<1>4. ASSUME NEW w \in Processes,
             task[w].at # "none" \/ w \notin ended,
             UNCHANGED <<completed, ended, late>>,
             \A v \in Processes : v # w => task'[v] = task[v]
      PROVE  EndsOK'
  BY <1>1, <1>4
<1>5. ASSUME NEW w \in Processes, Narrate(w) \/ Mishap(w)
      PROVE  EndsOK'
  <2>1. CASE CleanUp(w)
    <3>1. task' = [task EXCEPT ![w] = NoTask] /\ completed' = [completed EXCEPT ![w] = FALSE]
          /\ UNCHANGED <<ended, late>>
      BY <2>1 DEF CleanUp
    <3> QED BY <1>1, <3>1
  <2>2. CASE Begin(w)
    <3>1. PICK x : task' = [task EXCEPT ![w] = x]
      BY <2>2 DEF Begin
    <3>2. /\ late' = late /\ task[w].at = "taken"
          /\ completed' = [completed EXCEPT ![w] = completed[w] \/ Ends(task[w].event)]
          /\ ended' = (IF Ends(task[w].event) THEN ended \cup {w} ELSE ended)
      BY <2>2 DEF Begin
    <3>3. completed'[w] = (completed[w] \/ Ends(task[w].event))
          /\ \A v \in Processes : v # w => completed'[v] = completed[v] /\ task'[v] = task[v]
      <4>1. completed'[w] = (completed[w] \/ Ends(task[w].event))
        BY <1>1, <3>2, Zenon
      <4>2. \A v \in Processes : v # w => completed'[v] = completed[v] /\ task'[v] = task[v]
        BY <1>1, <3>1, <3>2, Zenon
      <4> QED BY <4>1, <4>2, Zenon
    <3>4. ASSUME NEW v \in ended' \ late'
          PROVE  task'[v].at = "none" \/ completed'[v]
      <4>1. CASE v = w
        <5>1. Ends(task[w].event) \/ w \in ended \ late
          BY <3>2, <3>4, <4>1
        <5>2. Ends(task[w].event) \/ completed[w]
          BY <3>2, <5>1
        <5> QED BY <3>3, <4>1, <5>2, Zenon
      <4>2. CASE v # w
        <5>1. v \in ended \ late /\ v \in Processes
          BY <1>1, <3>2, <3>4, <4>2
        <5>2. task[v].at = "none" \/ completed[v]
          BY <5>1
        <5> QED BY <3>3, <4>2, <5>1, <5>2, Zenon
      <4> QED BY <4>1, <4>2
    <3> QED BY <3>4
  <2>3. CASE Crash(w)
    <3>1. /\ task' = [task EXCEPT ![w] = NoTask] /\ completed' = [completed EXCEPT ![w] = FALSE]
          /\ ended' = ended \ {w} /\ late' = late \ {w}
      BY <2>3 DEF Crash
    <3> QED BY <1>1, <3>1
  <2>4. CASE \/ Take(w) \/ InsertRow(w) \/ PublishRow(w) \/ PublishDelta(w) \/ Commit(w)
             \/ StaysUnpublished(w) \/ Fail(w)
    <3>1. task[w].at # "none" /\ UNCHANGED <<completed, ended, late>>
      BY <2>4 DEF Take, InsertRow, PublishRow, PublishDelta, Commit, StaysUnpublished, Fail,
                  UnchangedByPublishing
    <3>2. \E x : task' = [task EXCEPT ![w] = x]
      <4>1. ASSUME NEW x PROVE task' = [task EXCEPT ![w].at = x] => \E y : task' = [task EXCEPT ![w] = y]
        BY Zenon
      <4> QED BY <2>4, <4>1 DEF Take, InsertRow, PublishRow, PublishDelta, Commit,
                                StaysUnpublished, Fail, AfterRow
    <3>3. \A v \in Processes : v # w => task'[v] = task[v]
      BY <1>1, <3>2
    <3> QED BY <1>4, <3>1, <3>3
  <2> QED BY <1>5, <2>1, <2>2, <2>3, <2>4 DEF Narrate, TaskSteps, Mishap
<1>6. (Pod \/ DeletePod \/ Browse \/ UNCHANGED vars) => UNCHANGED <<task, completed, ended, late>>
  BY DEF Pod, DeletePod, UnchangedServer, Browse, vars, narratorVars
<1>7. ASSUME NEW p \in posts, Store(p) \/ RequestFails(p)
      PROVE  UNCHANGED <<task, completed, ended, late>>
  BY <1>7 DEF Store, RequestFails, narratorVars
<1>8. ASSUME NEW p \in posts, NEW w \in Processes, Hear(p, w)
      PROVE  EndsOK'
  BY <1>2, <1>3, <1>8, HearIngests DEF narratorVars
<1>9. ASSUME NEW w \in Processes, EndRun(w)
      PROVE  EndsOK'
  BY <1>3, <1>9 DEF EndRun
<1> QED BY <1>2, <1>5, <1>6, <1>7, <1>8, <1>9 DEF Next

-----------------------------------------------------------------------------
(* What becomes of the events a process has taken.                          *)

\* What is behind a process in its queue or in its hand stays there.
SameHand(v) ==
    /\ queue'[v] = queue[v]
    /\ InHand(v)' <=> InHand(v)
    /\ InHand(v) => task'[v].event = task[v].event

\* A process is done with an event, or loses it with all that it has queued.
Drops(w) ==
    /\ ~InHand(w)'
    /\ \/ queue'[w] = queue[w]
       \/ queue'[w] = <<>> /\ ToSet(queue[w]) \subseteq failed'
    /\ InHand(w) /\ task[w].event = "running_code" =>
          "exec_started" \in Recorded \/ "running_code" \in failed'

TakesNext(w) ==
    /\ queue[w] # <<>> /\ ~InHand(w) /\ InHand(w)'
    /\ task'[w].event = Head(queue[w])
    /\ queue'[w] = Tail(queue[w])

\* A process is handed an event, with or without a webhook.
Gets(w, e) ==
    /\ queue'[w] = Append(queue[w], e)
    /\ InHand(w)' <=> InHand(w)
    /\ InHand(w) => task'[w].event = task[w].event

Hears(w, e) ==
    /\ heardAt' = [x \in DOMAIN heardAt |-> heardAt[x] \cup IF x = e THEN {w} ELSE {}]
    /\ overtaken' = (overtaken \/ (e = "run_completed" /\ heardAt["running_code"] = {}))

HandStep ==
    \/ /\ UNCHANGED <<heardAt, overtaken>>
       /\ \A v \in Processes : SameHand(v)
    \/ \E w \in Processes :
          /\ UNCHANGED <<heardAt, overtaken>>
          /\ Drops(w) \/ TakesNext(w)
          /\ \A v \in Processes \ {w} : SameHand(v)
    \/ \E w \in Processes, e \in Narrated :
          /\ Gets(w, e)
          /\ \A v \in Processes \ {w} : SameHand(v)
          /\ \/ UNCHANGED <<heardAt, overtaken>> /\ e \notin DOMAIN heardAt
             \/ Hears(w, e)

\* What is remembered stays remembered, and one row at a time is written.
Remembers ==
    /\ failed \subseteq failed'
    /\ torn => torn'
    /\ repeated => repeated'
    /\ deleted' \in BOOLEAN
    /\ timeline' = timeline \/ \E w \in Processes : InsertRow(w)

\* A transaction with nothing left to write has written the start of its execution.
LEMMA WrittenStart ==
    ASSUME NarratorParts, NEW w \in Processes, task[w].at = "commit",
           task[w].event = "running_code"
    PROVE  "exec_started" \in Recorded
<1>1. PICK t : t = task[w]
  OBVIOUS
<1>2. t \in Tasks /\ TaskOK(t) /\ t.at \in Open /\ t.at = "commit" /\ Out = Written(t)
  BY <1>1, OneHolds DEF NarratorParts, Open
<1>3. PICK ids, rows : ids = RowsOf(t.event, t.base) /\ rows = RowsFor(t.event, t.base)
  OBVIOUS
<1>4. Out = rows
  BY <1>2, <1>3, WrittenIs
<1>5. t.event \in Narrated /\ t.base \in States /\ t.event = "running_code"
  BY <1>1, <1>2 DEF TaskOK, Tasks
<1>6. /\ rows \in Seq(Rows) /\ Len(rows) = Len(ids) /\ ids \in Seq(RowIds)
      /\ \A i \in 1..Len(ids) : rows[i].id = ids[i]
  BY <1>3, <1>5, RowsForAre, RowsAre
<1>7. \E i \in 1..Len(ids) : ids[i] = "exec_started"
  <2>1. \/ ids = <<"stage_started", "exec_started">>
        \/ \E id \in RowIds : ids = <<id>> /\ id = "exec_started"
    BY <1>3, <1>5, RowsAre
  <2>2. ASSUME NEW id \in RowIds, ids = <<id>>, id = "exec_started"
        PROVE  1 \in 1..Len(ids) /\ ids[1] = "exec_started"
    BY <2>2
  <2>3. ASSUME ids = <<"stage_started", "exec_started">>
        PROVE  2 \in 1..Len(ids) /\ ids[2] = "exec_started"
    BY <2>3
  <2> QED BY <2>1, <2>2, <2>3
<1>8. \E i \in DOMAIN Out : Out[i].id = "exec_started"
  BY <1>4, <1>6, <1>7
<1> QED BY <1>8 DEF NarratorParts, TimelineOK

LEMMA TaskRemembers ==
    ASSUME NarratorParts, NEW w \in Processes, TaskSteps(w)
    PROVE  /\ failed' = failed /\ torn' = torn /\ (repeated => repeated')
           /\ timeline' = timeline \/ InsertRow(w)
BY DEF TaskSteps, CleanUp, Take, Begin, InsertRow, PublishRow, PublishDelta, Commit,
       UnchangedByPublishing

\* What a step of its task does to the events of a process.
LEMMA TaskHand ==
    ASSUME NarratorParts, NEW w \in Processes, TaskSteps(w)
    PROVE  /\ \A v \in Processes \ {w} : SameHand(v)
           /\ SameHand(w) \/ Drops(w) \/ TakesNext(w)
<1>1. /\ task \in [Processes -> Tasks] /\ queue \in [Processes -> Seq(Narrated)]
      /\ NoTask.at = "none" /\ Waiting.at = "wait" /\ task[w] \in Tasks
  BY TaskRests DEF NarratorParts, NarratorOK
<1>2. ASSUME NEW u, task' = [task EXCEPT ![w] = u]
      PROVE  /\ task'[w] = u
             /\ \A v \in Processes \ {w} : task'[v] = task[v]
  BY <1>1, <1>2
<1>3. ASSUME NEW u, task' = [task EXCEPT ![w] = u], queue' = queue
      PROVE  /\ \A v \in Processes \ {w} : SameHand(v)
             /\ queue'[w] = queue[w]
  BY <1>2, <1>3 DEF SameHand, InHand
<1>4. CASE CleanUp(w)
  <2>1. /\ task' = [task EXCEPT ![w] = NoTask] /\ queue' = queue /\ task[w].at = "wait"
    BY <1>4 DEF CleanUp
  <2>2. task'[w] = NoTask
    BY <1>2, <2>1
  <2>3. SameHand(w)
    BY <1>1, <2>1, <2>2 DEF SameHand, InHand
  <2> QED BY <1>3, <2>1, <2>3
<1>5. CASE Take(w)
  <2>1. PICK u : u = [task[w] EXCEPT !.at = "taken", !.event = Head(queue[w])]
    OBVIOUS
  <2>2. /\ task' = [task EXCEPT ![w] = u] /\ task[w].at = "wait" /\ queue[w] # <<>>
        /\ queue' = [queue EXCEPT ![w] = Tail(queue[w])]
    BY <1>5, <2>1, Zenon DEF Take
  <2>3. u.at = "taken" /\ u.event = Head(queue[w])
    BY <1>1, <2>1 DEF Tasks
  <2>4. task'[w] = u /\ \A v \in Processes \ {w} : task'[v] = task[v]
    BY <1>2, <2>2
  <2>5. queue'[w] = Tail(queue[w]) /\ \A v \in Processes \ {w} : queue'[v] = queue[v]
    BY <1>1, <2>2
  <2>6. TakesNext(w)
    BY <2>2, <2>3, <2>4, <2>5 DEF TakesNext, InHand
  <2> QED BY <2>4, <2>5, <2>6 DEF SameHand, InHand
<1>6. CASE Begin(w)
  <2>1. queue' = queue /\ task[w].at = "taken"
    BY <1>6 DEF Begin
  <2>2. CASE RowsOf(task[w].event, state) = <<>>
    <3>1. task' = [task EXCEPT ![w] = Waiting]
      BY <1>6, <2>2 DEF Begin
    <3>2. task[w].event \in Narrated /\ state \in States
      BY <2>1, OneHolds DEF TaskOK, NarratorParts, NarratorOK
    <3>3. task[w].event # "running_code"
      <4>1. PICK e, rows : e = task[w].event /\ rows = RowsOf(e, state)
        OBVIOUS
      <4>2. \/ e = "stage_summary" \/ (\E id : rows = <<id>>)
            \/ rows = <<"stage_started", "exec_started">>
        BY <3>2, <4>1, RowsAre
      <4>3. rows = <<>>
        BY <2>2, <4>1
      <4>4. e = "stage_summary"
        BY <4>2, <4>3
      <4> QED BY <4>1, <4>4
    <3>4. task'[w] = Waiting
      BY <1>2, <3>1
    <3>5. Drops(w)
      BY <1>1, <2>1, <3>3, <3>4 DEF Drops, InHand
    <3> QED BY <1>3, <2>1, <3>1, <3>5
  <2>3. CASE RowsOf(task[w].event, state) # <<>>
    <3>1. PICK u : u = [task[w] EXCEPT !.at = "insert", !.base = state,
                                       !.left = RowsOf(task[w].event, state)]
      OBVIOUS
    <3>2. task' = [task EXCEPT ![w] = u]
      BY <1>6, <2>3, <3>1, Zenon DEF Begin
    <3>3. u.at = "insert" /\ u.event = task[w].event
      BY <1>1, <3>1 DEF Tasks
    <3>4. task'[w] = u
      BY <1>2, <3>2
    <3>5. SameHand(w)
      BY <2>1, <3>3, <3>4 DEF SameHand, InHand
    <3> QED BY <1>3, <2>1, <3>2, <3>5
  <2> QED BY <2>2, <2>3
<1>7. CASE InsertRow(w)
  <2>1. queue' = queue /\ task[w].at = "insert"
    BY <1>7 DEF InsertRow
  <2>2. PICK u : u = [task[w] EXCEPT !.at = "publish"]
    OBVIOUS
  <2>3. task' = [task EXCEPT ![w] = u]
    BY <1>7, <2>2, Zenon DEF InsertRow
  <2>4. task'[w] = u /\ u.at = "publish" /\ u.event = task[w].event
    BY <1>1, <1>2, <2>2, <2>3 DEF Tasks
  <2>5. SameHand(w)
    BY <2>1, <2>4 DEF SameHand, InHand
  <2> QED BY <1>3, <2>1, <2>3, <2>5
<1>8. CASE PublishRow(w) \/ PublishDelta(w)
  <2>1. oddities' \in Nat /\ UnchangedByPublishing /\ queue' = queue
        /\ (\/ task[w].at = "publish" /\ AfterRow(w)
            \/ task[w].at = "announce" /\ task' = [task EXCEPT ![w].at = "commit"])
    BY <1>8 DEF PublishRow, PublishDelta, UnchangedByPublishing, NarratorParts, NarratorOK
  <2>2. /\ task'[w].event = task[w].event
        /\ \A v \in Processes : (InHand(v) <=> InHand(v)') /\ (v # w => task'[v] = task[v])
    BY <2>1, AfterRowParts, AnnounceParts
  <2> QED BY <2>1, <2>2 DEF SameHand
<1>9. CASE Commit(w)
  <2>1. task' = [task EXCEPT ![w] = Waiting] /\ queue' = queue /\ task[w].at = "commit"
    BY <1>9 DEF Commit
  <2>2. task'[w] = Waiting
    BY <1>2, <2>1
  <2>3. Drops(w)
    BY <1>1, <2>1, <2>2, WrittenStart DEF Drops, InHand
  <2> QED BY <1>3, <2>1, <2>3
<1> QED BY <1>4, <1>5, <1>6, <1>7, <1>8, <1>9 DEF TaskSteps

LEMMA FaultHand ==
    ASSUME NarratorParts, NEW w \in Processes, StaysUnpublished(w) \/ Fail(w) \/ Crash(w)
    PROVE  /\ \A v \in Processes \ {w} : SameHand(v)
           /\ SameHand(w) \/ Drops(w)
           /\ failed \subseteq failed' /\ (torn => torn') /\ repeated' = repeated
           /\ timeline' = timeline
<1>1. /\ task \in [Processes -> Tasks] /\ queue \in [Processes -> Seq(Narrated)]
      /\ NoTask.at = "none" /\ Waiting.at = "wait" /\ task[w] \in Tasks
  BY TaskRests DEF NarratorParts, NarratorOK
<1>2. CASE StaysUnpublished(w)
  <2>1. oddities' \in Nat /\ UnchangedByPublishing
    BY <1>2 DEF StaysUnpublished, Odd, NarratorParts, NarratorOK
  <2>2. \/ task[w].at = "publish" /\ AfterRow(w)
        \/ task[w].at = "announce" /\ task' = [task EXCEPT ![w].at = "commit"]
    BY <1>2 DEF StaysUnpublished
  <2>3. /\ task'[w].event = task[w].event
        /\ \A v \in Processes : (InHand(v) <=> InHand(v)') /\ (v # w => task'[v] = task[v])
    BY <2>1, <2>2, AfterRowParts, AnnounceParts
  <2> QED BY <2>1, <2>3 DEF SameHand, UnchangedByPublishing
<1>3. CASE Fail(w)
  <2>1. /\ task' = [task EXCEPT ![w] = Waiting] /\ queue' = queue
        /\ failed' = failed \cup {task[w].event} /\ UNCHANGED <<timeline, repeated>>
    BY <1>3 DEF Fail
  <2>2. task'[w] = Waiting /\ \A v \in Processes \ {w} : task'[v] = task[v]
    BY <1>1, <2>1
  <2>3. Drops(w) /\ \A v \in Processes \ {w} : SameHand(v)
    BY <1>1, <2>1, <2>2 DEF Drops, SameHand, InHand
  <2> QED BY <1>3, <2>1, <2>3, FaultParts
<1>4. CASE Crash(w)
  <2>1. /\ task' = [task EXCEPT ![w] = NoTask] /\ queue' = [queue EXCEPT ![w] = <<>>]
        /\ failed' = failed \cup ToSet(queue[w])
                        \cup (IF task[w].at = "wait" THEN {} ELSE {task[w].event})
        /\ UNCHANGED <<timeline, repeated>>
    BY <1>4 DEF Crash
  <2>2. /\ task'[w] = NoTask /\ \A v \in Processes \ {w} : task'[v] = task[v]
        /\ queue'[w] = <<>> /\ \A v \in Processes \ {w} : queue'[v] = queue[v]
    BY <1>1, <2>1
  <2>3. Drops(w) /\ \A v \in Processes \ {w} : SameHand(v)
    BY <1>1, <2>1, <2>2 DEF Drops, SameHand, InHand
  <2> QED BY <1>4, <2>1, <2>3, FaultParts
<1> QED BY <1>2, <1>3, <1>4

LEMMA IngestHand ==
    ASSUME NarratorParts, NEW w \in Processes, NEW e \in Narrated, Ingest(w, e)
    PROVE  /\ Gets(w, e)
           /\ \A v \in Processes \ {w} : SameHand(v)
           /\ UNCHANGED <<failed, torn, repeated, timeline>>
<1>1. /\ task \in [Processes -> Tasks] /\ queue \in [Processes -> Seq(Narrated)]
      /\ Waiting.at = "wait"
  BY TaskRests DEF NarratorParts, NarratorOK
<1>2. /\ queue' = [queue EXCEPT ![w] = Append(queue[w], e)]
      /\ task' = [task EXCEPT ![w] = IF task[w].at = "none" THEN Waiting ELSE task[w]]
      /\ UNCHANGED <<failed, torn, repeated, timeline>>
  BY DEF Ingest
<1>3. /\ task'[w] = (IF task[w].at = "none" THEN Waiting ELSE task[w])
      /\ \A v \in Processes \ {w} : task'[v] = task[v]
      /\ queue'[w] = Append(queue[w], e) /\ \A v \in Processes \ {w} : queue'[v] = queue[v]
  BY <1>1, <1>2
<1> QED BY <1>1, <1>2, <1>3 DEF Gets, SameHand, InHand

LEMMA HandIsStill ==
    ASSUME UNCHANGED <<narratorVars, heardAt, overtaken>>
    PROVE  HandStep /\ UNCHANGED <<failed, torn, repeated, timeline>>
BY DEF HandStep, SameHand, InHand, narratorVars

LEMMA HearHand ==
    ASSUME PodOK, NarratorParts, HeardOK, NEW p \in posts, NEW w \in Processes, Hear(p, w)
    PROVE  HandStep /\ UNCHANGED <<failed, torn, repeated, timeline>>
<1>1. /\ heardAt' = [e \in DOMAIN heardAt |->
                        heardAt[e] \cup IF e \in p.events THEN {w} ELSE {}]
      /\ overtaken' = (overtaken \/ ("run_completed" \in p.events
                                     /\ heardAt["running_code"] = {}))
      /\ overtaken \in BOOLEAN
      /\ heardAt \in [{"running_code", "run_completed"} -> SUBSET Processes]
  BY DEF Hear, HeardOK
<1>2. ASSUME UNCHANGED narratorVars, p.events = {"codex_event"}
      PROVE  UNCHANGED <<heardAt, overtaken>>
  <2>1. overtaken' = overtaken
    BY <1>1, <1>2
  <2>2. heardAt' = heardAt
    BY <1>1, <1>2
  <2> QED BY <2>1, <2>2
<1>3. ASSUME NEW e \in Narrated, p.events = {e}, Ingest(w, e)
      PROVE  HandStep /\ UNCHANGED <<failed, torn, repeated, timeline>>
  <2>1. Hears(w, e)
    BY <1>1, <1>3 DEF Hears
  <2> QED BY <1>3, <2>1, IngestHand DEF HandStep
<1> QED BY <1>2, <1>3, HearIngests, HandIsStill

LEMMA HandsMove ==
    ASSUME PodOK, NarratorParts, HeardOK, [Next]_vars
    PROVE  HandStep /\ Remembers
<1>1. ASSUME NEW w \in Processes, Narrate(w) \/ Mishap(w)
      PROVE  /\ UNCHANGED <<heardAt, overtaken, deleted>>
             /\ \/ TaskSteps(w)
                \/ StaysUnpublished(w) \/ Fail(w) \/ Crash(w)
  BY <1>1 DEF Narrate, Mishap
<1>2. ASSUME NEW w \in Processes, Narrate(w) \/ Mishap(w)
      PROVE  HandStep /\ Remembers
  <2>1. /\ \A v \in Processes \ {w} : SameHand(v)
        /\ SameHand(w) \/ Drops(w) \/ TakesNext(w)
    BY <1>1, <1>2, TaskHand, FaultHand
  <2>2. /\ failed \subseteq failed' /\ (torn => torn') /\ (repeated => repeated')
        /\ timeline' = timeline \/ InsertRow(w)
    BY <1>1, <1>2, TaskRemembers, FaultHand
  <2>3. HandStep
    BY <1>1, <1>2, <2>1 DEF HandStep
  <2> QED BY <1>1, <1>2, <2>2, <2>3 DEF Remembers, HeardOK
<1>3. ASSUME UNCHANGED <<failed, torn, repeated, timeline>>, deleted' \in BOOLEAN
      PROVE  Remembers
  BY <1>3 DEF Remembers
<1>4. (Pod \/ DeletePod \/ Browse \/ UNCHANGED vars) =>
          UNCHANGED <<narratorVars, heardAt, overtaken, deleted>>
  BY DEF Pod, DeletePod, UnchangedServer, Browse, vars
<1>5. ASSUME NEW p \in posts, Store(p) \/ RequestFails(p)
      PROVE  UNCHANGED <<narratorVars, heardAt, overtaken, deleted>>
  BY <1>5 DEF Store, RequestFails
<1>6. ASSUME UNCHANGED <<narratorVars, heardAt, overtaken, deleted>>
      PROVE  HandStep /\ Remembers
  BY <1>3, <1>6, HandIsStill DEF HeardOK
<1>7. ASSUME NEW p \in posts, NEW w \in Processes, Hear(p, w)
      PROVE  HandStep /\ Remembers
  <2>1. deleted' = deleted
    BY <1>7 DEF Hear
  <2> QED BY <1>3, <1>7, <2>1, HearHand DEF HeardOK
<1>8. ASSUME NEW w \in Processes, EndRun(w)
      PROVE  HandStep /\ Remembers
  <2>1. /\ "server_finished" \in Narrated /\ Ingest(w, "server_finished")
        /\ UNCHANGED <<heardAt, overtaken>> /\ deleted' = TRUE
    BY <1>8 DEF EndRun, Narrated, Events, ScriptEvents
  <2>2. DOMAIN heardAt = {"running_code", "run_completed"}
    BY DEF HeardOK
  <2> QED BY <1>3, <2>1, <2>2, IngestHand DEF HandStep
<1> QED BY <1>2, <1>4, <1>5, <1>6, <1>7, <1>8 DEF Next

LEMMA HeardStep ==
    ASSUME HeardOK, HandStep, Remembers
    PROVE  /\ HeardOK'
           /\ overtaken => overtaken'
           /\ \A e \in {"running_code", "run_completed"} : heardAt[e] \subseteq heardAt'[e]
<1> USE DEF HeardOK
<1>1. CASE UNCHANGED <<heardAt, overtaken>>
  BY <1>1 DEF Remembers
<1>2. ASSUME NEW w \in Processes, NEW e \in Narrated, Hears(w, e)
      PROVE  /\ HeardOK'
             /\ overtaken => overtaken'
             /\ \A x \in {"running_code", "run_completed"} : heardAt[x] \subseteq heardAt'[x]
  <2>1. /\ heardAt' \in [{"running_code", "run_completed"} -> SUBSET Processes]
        /\ \A x \in {"running_code", "run_completed"} :
              heardAt'[x] = heardAt[x] \/ heardAt'[x] = heardAt[x] \cup {w}
        /\ overtaken' \in BOOLEAN /\ (overtaken => overtaken')
    BY <1>2 DEF Hears
  <2>2. ASSUME NEW x \in {"running_code", "run_completed"}
        PROVE  IsFiniteSet(heardAt'[x])
    <3>1. IsFiniteSet(heardAt[x] \cup {w})
      BY FS_AddElement
    <3> QED BY <2>1, <3>1
  <2> QED BY <2>1, <2>2 DEF Remembers
<1> QED BY <1>1, <1>2 DEF HandStep

LEMMA StartsStep ==
    ASSUME NarratorParts, HeardOK, StartsOK, HandStep, Remembers,
           Recorded \subseteq Recorded'
    PROVE  StartsOK'
<1> DEFINE Started == "exec_started" \in Recorded' \/ "running_code" \in failed'
<1>1. \A v \in heardAt["running_code"] : v \in Processes /\ (StartIsAt(v) \/ Started)
  BY DEF StartsOK, Remembers, HeardOK
<1>2. ASSUME NEW v \in Processes, StartIsAt(v), SameHand(v)
      PROVE  StartIsAt(v)'
  BY <1>2 DEF StartIsAt, SameHand, InHand
<1>3. ASSUME NEW v \in Processes, StartIsAt(v), Drops(v)
      PROVE  StartIsAt(v)' \/ Started
  <2>1. CASE InHand(v) /\ task[v].event = "running_code"
    BY <1>3, <2>1 DEF Drops, Remembers
  <2>2. CASE "running_code" \in ToSet(queue[v])
    BY <1>3, <2>2 DEF Drops, StartIsAt
  <2> QED BY <1>3, <2>1, <2>2 DEF StartIsAt
<1>4. ASSUME NEW v \in Processes, StartIsAt(v), TakesNext(v)
      PROVE  StartIsAt(v)'
  <2>1. queue[v] \in Seq(Narrated)
    BY DEF NarratorParts, NarratorOK
  <2>2. ToSet(queue[v]) = {Head(queue[v])} \cup ToSet(Tail(queue[v]))
    BY <1>4, <2>1, ToSetOfEnds DEF TakesNext
  <2>3. "running_code" \in ToSet(queue[v])
    BY <1>4 DEF StartIsAt, TakesNext
  <2> QED BY <1>4, <2>2, <2>3 DEF StartIsAt, TakesNext, InHand
<1>5. ASSUME NEW v \in Processes, NEW e \in Narrated, Gets(v, e)
      PROVE  /\ StartIsAt(v) => StartIsAt(v)'
             /\ e = "running_code" => StartIsAt(v)'
  <2>1. queue[v] \in Seq(Narrated)
    BY DEF NarratorParts, NarratorOK
  <2>2. ToSet(queue'[v]) = ToSet(queue[v]) \cup {e}
    BY <1>5, <2>1, ToSetOfEnds DEF Gets
  <2> QED BY <1>5, <2>2 DEF StartIsAt, Gets, InHand
<1>6. CASE UNCHANGED <<heardAt, overtaken>> /\ \A v \in Processes : SameHand(v)
  BY <1>1, <1>2, <1>6 DEF StartsOK
<1>7. ASSUME NEW w \in Processes, UNCHANGED heardAt, Drops(w) \/ TakesNext(w),
             \A v \in Processes \ {w} : SameHand(v)
      PROVE  StartsOK'
  BY <1>1, <1>2, <1>3, <1>4, <1>7 DEF StartsOK
<1>8. ASSUME NEW w \in Processes, NEW e \in Narrated, Gets(w, e),
             \A v \in Processes \ {w} : SameHand(v),
             UNCHANGED heardAt \/ Hears(w, e)
      PROVE  StartsOK'
  <2>1. ASSUME NEW v \in heardAt'["running_code"]
        PROVE  v \in heardAt["running_code"] \/ (v = w /\ e = "running_code")
    BY <1>8, <2>1 DEF Hears, HeardOK
  <2> QED BY <1>1, <1>2, <1>5, <1>8, <2>1 DEF StartsOK
<1> QED BY <1>6, <1>7, <1>8 DEF HandStep

\* What excuses a ghost excuses it for good.
LEMMA ExcusedStays ==
    ASSUME HeardOK, HeardOK', Remembers, overtaken => overtaken', Excused,
           \A e \in {"running_code", "run_completed"} : heardAt[e] \subseteq heardAt'[e]
    PROVE  Excused'
<1>1. CASE overtaken \/ torn \/ repeated \/ "running_code" \in failed
  BY <1>1 DEF Excused, Remembers
<1>2. CASE Cardinality(heardAt["running_code"] \cup heardAt["run_completed"]) > 1
  <2>1. PICK A, B : /\ A = heardAt["running_code"] \cup heardAt["run_completed"]
                    /\ B = heardAt'["running_code"] \cup heardAt'["run_completed"]
    OBVIOUS
  <2>2. IsFiniteSet(heardAt'["running_code"]) /\ IsFiniteSet(heardAt'["run_completed"])
    BY DEF HeardOK
  <2>3. IsFiniteSet(B)
    BY <2>1, <2>2, FS_Union
  <2>4. A \subseteq B
    BY <2>1
  <2>5. /\ Cardinality(A) <= Cardinality(B)
        /\ Cardinality(A) \in Nat /\ Cardinality(B) \in Nat
    BY <2>3, <2>4, FS_Subset, FS_CardinalityType
  <2>6. Cardinality(B) > 1
    BY <1>2, <2>1, <2>5
  <2> QED BY <2>1, <2>6 DEF Excused
<1> QED BY <1>1, <1>2 DEF Excused

\* Two processes are one as long as no more than one heard of the execution.
LEMMA SameProcess ==
    ASSUME NEW S, NEW T, IsFiniteSet(S), IsFiniteSet(T), ~(Cardinality(S \cup T) > 1),
           NEW v \in S, NEW w \in T
    PROVE  v = w
<1>1. PICK A : A = S \cup T
  OBVIOUS
<1>3. IsFiniteSet(A)
  BY <1>1, FS_Union
<1>4. Cardinality(A) \in Nat /\ ~(Cardinality(A) > 1)
  BY <1>1, <1>3, FS_CardinalityType
<1>5. ASSUME v # w PROVE FALSE
  <2>1. IsFiniteSet({v}) /\ Cardinality({v}) = 1
    BY FS_Singleton
  <2>2. Cardinality({v} \cup {w}) = 2
    <3>1. w \notin {v}
      BY <1>5
    <3>2. Cardinality({v} \cup {w}) = IF w \in {v} THEN Cardinality({v}) ELSE Cardinality({v}) + 1
      BY <2>1, FS_AddElement, Zenon
    <3>3. Cardinality({v} \cup {w}) = Cardinality({v}) + 1
      BY <3>1, <3>2, Zenon
    <3> QED BY <2>1, <3>3
  <2>3. ({v} \cup {w}) \subseteq A
    BY <1>1
  <2>4. Cardinality({v} \cup {w}) <= Cardinality(A)
    BY <1>3, <2>3, FS_Subset
  <2> QED BY <1>4, <2>2, <2>4
<1> QED BY <1>5

-----------------------------------------------------------------------------
(* The end of the execution stays behind its start.                         *)

\* A queue in which the end waits has the start before it.
Behind(q) ==
    \A i \in DOMAIN q : q[i] = "run_completed" =>
        \E j \in 1..(i - 1) : q[j] = "running_code"

LEMMA OrderIs ==
    \A w : OrderOK(w) <=> /\ ~(InHand(w) /\ task[w].event = "run_completed")
                          /\ (InHand(w) /\ task[w].event = "running_code") \/ Behind(queue[w])
BY DEF OrderOK, Behind

LEMMA BehindTail ==
    ASSUME NEW q \in Seq(Narrated), q # <<>>, Behind(q)
    PROVE  /\ Head(q) # "run_completed"
           /\ Head(q) # "running_code" => Behind(Tail(q))
<1>1. PICK n \in Nat : n = Len(q) /\ n > 0 /\ DOMAIN q = 1..n
  OBVIOUS
<1>2. PICK t : t = Tail(q)
  OBVIOUS
<1>3. /\ DOMAIN t = 1..(n - 1) /\ \A i \in 1..(n - 1) : t[i] = q[i + 1]
      /\ Head(q) = q[1]
  BY <1>1, <1>2
<1>4. Head(q) # "run_completed"
  <2>1. 1 \in DOMAIN q /\ 1..(1 - 1) = {}
    BY <1>1
  <2> QED BY <1>3, <2>1 DEF Behind
<1>5. ASSUME Head(q) # "running_code", NEW i \in DOMAIN t, t[i] = "run_completed"
      PROVE  \E j \in 1..(i - 1) : t[j] = "running_code"
  <2>1. i \in 1..(n - 1) /\ i + 1 \in DOMAIN q /\ q[i + 1] = "run_completed"
        /\ (i + 1) - 1 = i
    BY <1>1, <1>3, <1>5
  <2>2. PICK j \in 1..i : q[j] = "running_code"
    BY <2>1 DEF Behind
  <2>3. j # 1
    BY <1>3, <1>5, <2>2
  <2>4. PICK k : k = j - 1 /\ k \in 1..(i - 1) /\ k + 1 = j /\ k \in 1..(n - 1)
    BY <2>1, <2>2, <2>3
  <2>5. t[k] = "running_code"
    BY <1>3, <2>2, <2>4
  <2> QED BY <2>4, <2>5
<1> QED BY <1>2, <1>4, <1>5 DEF Behind

LEMMA BehindAppend ==
    ASSUME NEW q \in Seq(Narrated), NEW e, Behind(q),
           e = "run_completed" => "running_code" \in ToSet(q)
    PROVE  Behind(Append(q, e))
<1>1. PICK n \in Nat : n = Len(q) /\ DOMAIN q = 1..n
  OBVIOUS
<1>2. PICK t : t = Append(q, e)
  OBVIOUS
<1>3. /\ DOMAIN t = 1..(n + 1) /\ t[n + 1] = e /\ \A i \in 1..n : t[i] = q[i]
  BY <1>1, <1>2
<1>4. ASSUME NEW i \in DOMAIN t, t[i] = "run_completed"
      PROVE  \E j \in 1..(i - 1) : t[j] = "running_code"
  <2>1. CASE i \in 1..n
    <3>1. PICK j \in 1..(i - 1) : q[j] = "running_code"
      BY <1>1, <1>3, <1>4, <2>1 DEF Behind
    <3>2. j \in 1..n
      BY <2>1
    <3> QED BY <1>3, <3>1, <3>2
  <2>2. CASE i = n + 1
    <3>1. "running_code" \in ToSet(q)
      BY <1>3, <1>4, <2>2
    <3>2. PICK j \in 1..n : q[j] = "running_code"
      BY <1>1, <3>1 DEF ToSet
    <3>3. j \in 1..(i - 1)
      BY <2>2
    <3> QED BY <1>3, <3>2, <3>3
  <2> QED BY <1>3, <2>1, <2>2
<1> QED BY <1>2, <1>4 DEF Behind

\* As long as the start is not written, no step puts the end before it.
LEMMA OrderStep ==
    ASSUME NarratorParts, HeardOK, HeardOK', StartsOK, HandStep, Remembers,
           ~Excused, ~Excused',
           Recorded \subseteq Recorded', "exec_started" \notin Recorded',
           overtaken => overtaken',
           \A e \in {"running_code", "run_completed"} : heardAt[e] \subseteq heardAt'[e],
           \A v \in Processes : OrderOK(v)
    PROVE  \A v \in Processes : OrderOK(v)'
<1>1. \A v \in Processes : queue[v] \in Seq(Narrated)
  BY DEF NarratorParts, NarratorOK
<1>2. "exec_started" \notin Recorded /\ "running_code" \notin failed'
      /\ "running_code" \notin failed
  BY DEF Excused
<1>3. ASSUME NEW v \in Processes, SameHand(v)
      PROVE  OrderOK(v)'
  BY <1>3 DEF OrderOK, SameHand, InHand
<1>4. ASSUME NEW w \in Processes, Drops(w)
      PROVE  OrderOK(w)'
  <2>1. ~(InHand(w) /\ task[w].event = "running_code") /\ ~InHand(w)'
    BY <1>2, <1>4 DEF Drops
  <2>2. Behind(queue[w])
    BY <2>1, OrderIs
  <2>3. Behind(<<>>)
    BY DEF Behind
  <2>4. Behind(queue'[w])
    BY <1>4, <2>2, <2>3 DEF Drops
  <2> QED BY <2>1, <2>4 DEF OrderOK, Behind
<1>5. ASSUME NEW w \in Processes, TakesNext(w)
      PROVE  OrderOK(w)'
  <2>1. Behind(queue[w]) /\ queue[w] # <<>>
    BY <1>5, OrderIs DEF TakesNext
  <2>2. /\ Head(queue[w]) # "run_completed"
        /\ Head(queue[w]) # "running_code" => Behind(Tail(queue[w]))
    BY <1>1, <2>1, BehindTail
  <2>3. /\ InHand(w)' /\ task'[w].event # "run_completed"
        /\ task'[w].event # "running_code" => Behind(queue'[w])
    BY <1>5, <2>2 DEF TakesNext
  <2> QED BY <2>3 DEF OrderOK, Behind
<1>6. ASSUME NEW w \in Processes, NEW e \in Narrated, Gets(w, e),
             e = "run_completed" => StartIsAt(w)
      PROVE  OrderOK(w)'
  <2>1. CASE InHand(w) /\ task[w].event = "running_code"
    BY <1>6, <2>1 DEF OrderOK, Gets
  <2>2. CASE ~(InHand(w) /\ task[w].event = "running_code")
    <3>1. Behind(queue[w])
      BY <2>2, OrderIs
    <3>2. e = "run_completed" => "running_code" \in ToSet(queue[w])
      BY <1>6, <2>2 DEF StartIsAt
    <3>3. Behind(queue'[w])
      BY <1>1, <1>6, <3>1, <3>2, BehindAppend DEF Gets
    <3>4. ~(InHand(w)' /\ task'[w].event = "run_completed")
      BY <1>6 DEF OrderOK, Gets
    <3> QED BY <3>3, <3>4 DEF OrderOK, Behind, InHand
  <2> QED BY <2>1, <2>2
<1>7. ASSUME NEW w \in Processes, Hears(w, "run_completed")
      PROVE  StartIsAt(w)
  <2>1. heardAt["running_code"] # {}
    <3>1. ~overtaken'
      BY DEF Excused
    <3> QED BY <1>7, <3>1 DEF Hears
  <2>2. PICK v : v \in heardAt["running_code"]
    BY <2>1
  <2>3. w \in heardAt'["run_completed"] /\ v \in heardAt'["running_code"]
    BY <1>7, <2>2 DEF Hears, HeardOK
  <2>4. v = w
    <3>1. /\ IsFiniteSet(heardAt'["running_code"]) /\ IsFiniteSet(heardAt'["run_completed"])
          /\ ~(Cardinality(heardAt'["running_code"] \cup heardAt'["run_completed"]) > 1)
      BY DEF HeardOK, Excused
    <3> QED BY <2>3, <3>1, SameProcess
  <2>5. w \in heardAt["running_code"]
    BY <2>2, <2>4
  <2> QED BY <1>2, <2>5 DEF StartsOK
<1>8. ASSUME NEW w \in Processes, NEW e \in Narrated, Gets(w, e),
             e \notin DOMAIN heardAt \/ Hears(w, e)
      PROVE  OrderOK(w)'
  <2>1. DOMAIN heardAt = {"running_code", "run_completed"}
    BY DEF HeardOK
  <2> QED BY <1>6, <1>7, <1>8, <2>1
<1> QED BY <1>3, <1>4, <1>5, <1>8 DEF HandStep

\* What one row adds to the rows and to what the timeline replays to.
LEMMA RowStep ==
    ASSUME NarratorParts, Remembers
    PROVE  /\ Recorded \subseteq Recorded'
           /\ \/ timeline' = timeline /\ Recorded' = Recorded
              \/ repeated'
              \/ \E row \in Rows :
                    /\ row.id \notin Recorded
                    /\ timeline' = Append(timeline, row) /\ Recorded' = Recorded \cup {row.id}
           /\ "exec_completed" \in Recorded' \ Recorded =>
                 \E w \in Processes : InHand(w) /\ task[w].event = "run_completed"
<1>1. CASE timeline' = timeline
  <2>1. Recorded' = Recorded
    BY <1>1 DEF Recorded
  <2> QED BY <1>1, <2>1
<1>2. ASSUME NEW w \in Processes, InsertRow(w)
      PROVE  /\ Recorded \subseteq Recorded'
             /\ \/ repeated'
                \/ \E row \in Rows :
                      /\ row.id \notin Recorded
                      /\ timeline' = Append(timeline, row) /\ Recorded' = Recorded \cup {row.id}
             /\ "exec_completed" \in Recorded' \ Recorded =>
                   \E v \in Processes : InHand(v) /\ task[v].event = "run_completed"
  <2>1. PICK id, event, base : id = Head(task[w].left) /\ event = task[w].event
                               /\ base = task[w].base
    OBVIOUS
  <2>2. /\ id \in RowIds /\ Recorded' = Recorded \cup {id}
        /\ \E i \in DOMAIN RowsOf(event, base) : id = RowsOf(event, base)[i]
        /\ \/ timeline' = timeline /\ repeated'
           \/ \E row \in Rows : /\ row.id = id /\ row.id \notin Recorded
                                /\ timeline' = Append(timeline, row)
    BY <1>2, <2>1, InsertParts
  <2>3. event \in Narrated /\ base \in States /\ InHand(w)
    <3>1. task[w].at = "insert" /\ task[w] \in Tasks /\ TaskOK(task[w])
      BY <1>2, OneHolds DEF InsertRow, NarratorParts
    <3> QED BY <2>1, <3>1 DEF TaskOK, Tasks, InHand
  <2>4. id = "exec_completed" => event = "run_completed"
    <3>1. PICK ids : ids = RowsOf(event, base)
      OBVIOUS
    <3>2. PICK i \in 1..Len(ids) : id = ids[i]
      <4>1. ids \in Seq(RowIds)
        BY <2>3, <3>1, RowsAre
      <4> QED BY <2>2, <3>1, <4>1
    <3>3. CASE ids = <<>>
      BY <3>2, <3>3
    <3>4. ASSUME NEW x \in RowIds, ids = <<x>>,
                 (x = "exec_completed") <=> (event = "run_completed")
          PROVE  id = "exec_completed" => event = "run_completed"
      <4>1. id = x
        BY <3>2, <3>4
      <4> QED BY <3>4, <4>1
    <3>5. CASE ids = <<"stage_started", "exec_started">>
      <4>1. id = "stage_started" \/ id = "exec_started"
        BY <3>2, <3>5
      <4> QED BY <4>1
    <3> QED BY <2>3, <3>1, <3>3, <3>4, <3>5, RowsAre
  <2> QED BY <2>1, <2>2, <2>3, <2>4
<1> QED BY <1>1, <1>2 DEF Remembers

\* The timeline replays to a state, whatever of the open transaction is in it.
LEMMA ReplayedIsState ==
    ASSUME NarratorParts, ~torn, ~repeated
    PROVE  Replay(FirstState, timeline) \in States
<1>1. Replay(FirstState, timeline) = Replay(state, Out) /\ state \in States
  BY DEF NarratorParts, TimelineOK, NarratorOK
<1>2. CASE lock = None
  <2>1. Out = <<>>
    BY <1>2 DEF Out
  <2> QED BY <1>1, <2>1, ReplayNone
<1>3. CASE lock # None
  <2>1. PICK w \in Processes : lock = w
    BY <1>3, OneHolds DEF NarratorParts
  <2>2. PICK t : t = task[w]
    OBVIOUS
  <2>3. t \in Tasks /\ TaskOK(t) /\ t.at \in Open /\ Out = Written(t)
    BY <2>1, <2>2, OneHolds DEF NarratorParts
  <2>4. Replay(state, Written(t)) \in States
    BY <1>1, <2>3, WrittenIs
  <2> QED BY <1>1, <2>3, <2>4
<1> QED BY <1>2, <1>3

LEMMA GhostStep ==
    ASSUME NarratorParts, HeardOK, HeardOK', StartsOK, GhostOK, HandStep, Remembers,
           overtaken => overtaken',
           \A e \in {"running_code", "run_completed"} : heardAt[e] \subseteq heardAt'[e]
    PROVE  GhostOK'
<1> SUFFICES ASSUME ~Excused'
             PROVE  /\ "exec_started" \notin Recorded' =>
                          "exec_completed" \notin Recorded' /\ \A w \in Processes : OrderOK(w)'
                    /\ "exec_completed" \in Recorded' => ~(Replay(FirstState, timeline').active)
  BY DEF GhostOK
<1>1. ~Excused
  BY ExcusedStays
<1>2. ~torn /\ ~repeated /\ ~repeated'
  BY <1>1 DEF Excused
<1>3. /\ "exec_started" \notin Recorded =>
            "exec_completed" \notin Recorded /\ \A w \in Processes : OrderOK(w)
      /\ "exec_completed" \in Recorded => ~(Replay(FirstState, timeline).active)
  BY <1>1 DEF GhostOK
<1>4. /\ Recorded \subseteq Recorded'
      /\ \/ timeline' = timeline /\ Recorded' = Recorded
         \/ \E row \in Rows :
               /\ row.id \notin Recorded
               /\ timeline' = Append(timeline, row) /\ Recorded' = Recorded \cup {row.id}
      /\ "exec_completed" \in Recorded' \ Recorded =>
            \E w \in Processes : InHand(w) /\ task[w].event = "run_completed"
  BY <1>2, RowStep
<1>5. ASSUME "exec_started" \notin Recorded'
      PROVE  "exec_completed" \notin Recorded' /\ \A w \in Processes : OrderOK(w)'
  <2>1. "exec_completed" \notin Recorded /\ \A w \in Processes : OrderOK(w)
    BY <1>3, <1>4, <1>5
  <2>2. \A w \in Processes : OrderOK(w)'
    BY <1>1, <1>4, <1>5, <2>1, OrderStep
  <2>3. \A w \in Processes : ~(InHand(w) /\ task[w].event = "run_completed")
    BY <2>1, OrderIs
  <2> QED BY <1>4, <2>1, <2>2, <2>3
<1>6. ASSUME "exec_completed" \in Recorded'
      PROVE  ~(Replay(FirstState, timeline').active)
  <2>1. CASE timeline' = timeline /\ Recorded' = Recorded
    BY <1>3, <1>6, <2>1
  <2>2. ASSUME NEW row \in Rows, row.id \notin Recorded,
               timeline' = Append(timeline, row), Recorded' = Recorded \cup {row.id}
        PROVE  ~(Replay(FirstState, timeline').active)
    <3>1. PICK st : st = Replay(FirstState, timeline)
      OBVIOUS
    <3>2. st \in States
      BY <1>2, <3>1, ReplayedIsState
    <3>3. Replay(FirstState, timeline') = ApplyChanges(st, row)
      <4>1. timeline \in Seq(Rows)
        BY DEF NarratorParts, NarratorOK
      <4> QED BY <2>2, <3>1, <4>1, ReplayAppend
    <3>4. ApplyChanges(st, row).active =
            IF row.id = "exec_started" THEN TRUE
            ELSE IF row.id = "exec_completed" THEN FALSE ELSE st.active
      BY <3>2, ApplyIs
    <3>5. CASE row.id = "exec_completed"
      BY <3>3, <3>4, <3>5
    <3>6. CASE row.id # "exec_completed"
      <4>1. "exec_completed" \in Recorded
        BY <1>6, <2>2, <3>6
      <4>2. row.id # "exec_started"
        BY <1>3, <2>2, <4>1
      <4>3. ~(st.active)
        BY <1>3, <3>1, <4>1
      <4> QED BY <3>3, <3>4, <3>6, <4>2, <4>3
    <3> QED BY <3>5, <3>6
  <2> QED BY <1>4, <2>1, <2>2
<1> QED BY <1>5, <1>6

-----------------------------------------------------------------------------
(* The invariant holds.                                                     *)

LEMMA InitPod ==
    ASSUME Init
    PROVE  PodOK /\ Accounted
<1>1. PICK scenario \in Scenarios :
        /\ TelemetryInit(scenario.script, scenario.fresh)
        /\ failures = scenario.failures
        /\ verdicts = scenario.verdicts
  BY DEF Init
<1>2. /\ scenario.script \in Seq(ScriptEvents) /\ failures \in Nat /\ verdicts \in 0..1
      /\ stored = {}
  BY <1>1, ScenarioAssumption DEF Init
<1>3. posts \subseteq Posts
  <2>1. posts \subseteq {Post({"run_started"})}
    BY <1>1 DEF TelemetryInit
  <2>2. "run_started" \in PodEvents
    BY DEF PodEvents
  <2> QED BY <2>1, <2>2, PostsAre
<1>4. <<>> \in Seq(ScriptEvents \cup {"stop"}) /\ Len(<<>>) <= QueueSize
  <2>1. QueueSize \in Nat /\ Len(<<>>) = 0
    BY TelemetryAssumption
  <2> QED BY <2>1
<1> QED BY <1>1, <1>2, <1>3, <1>4 DEF PodOK, Accounted, TelemetryInit

LEMMA InitNarrator ==
    ASSUME Init
    PROVE  /\ NarratorParts
           /\ Recorded \subseteq {"run_started"}
           /\ \A w \in Processes : queue[w] = <<>> /\ task[w].at = "none"
           /\ ended = {}
<1>1. PICK scenario \in Scenarios : NarratorInit(scenario.oddities, scenario.fresh)
  BY DEF Init
<1>2. /\ oddities \in Nat
      /\ queue = [w \in Processes |-> <<>>] /\ task = [w \in Processes |-> NoTask]
      /\ completed = [w \in Processes |-> FALSE] /\ lock = None
      /\ state = Replay(FirstState, timeline)
      /\ torn = FALSE /\ repeated = FALSE /\ failed = {} /\ ended = {} /\ late = {}
      /\ timeline = <<>> \/ timeline = <<Row("run_started", "run_started")>>
  BY <1>1, ScenarioAssumption DEF NarratorInit
<1>3. PICK row : row = Row("run_started", "run_started")
  OBVIOUS
<1>4. row \in Rows /\ row.id = "run_started"
  <2>1. "run_started" \in RowIds /\ ~Ends("run_started")
    BY DEF RowIds, Ends
  <2> QED BY <1>3, <2>1, RowIsRow
<1>5. <<>> \in Seq(Rows) /\ <<row>> \in Seq(Rows) /\ <<row>> = Append(<<>>, row)
  BY <1>4, ShortSequences
<1>6. FirstState \in States
  BY DEF FirstState, States
<1>7. timeline \in Seq(Rows) /\ state \in States
  <2>1. CASE timeline = <<>>
    BY <1>2, <1>5, <1>6, <2>1, ReplayNone
  <2>2. CASE timeline = <<row>>
    <3>1. Replay(FirstState, <<row>>) = ApplyChanges(Replay(FirstState, <<>>), row)
      <4>1. PICK none \in Seq(Rows) : none = <<>>
        BY <1>5
      <4>2. Replay(FirstState, Append(none, row)) = ApplyChanges(Replay(FirstState, none), row)
        BY <1>4, ReplayAppend
      <4> QED BY <1>5, <4>1, <4>2
    <3>2. ApplyChanges(FirstState, row) \in States
      BY <1>4, <1>6, ApplyIs
    <3> QED BY <1>2, <1>5, <2>2, <3>1, <3>2, ReplayNone
  <2> QED BY <1>2, <1>3, <2>1, <2>2
<1>8. \A w \in Processes : queue[w] = <<>> /\ task[w] = NoTask
  BY <1>2
<1>9. NoTask \in Tasks /\ TaskOK(NoTask) /\ NoTask.at = "none"
  BY TaskRests
<1>10. NarratorOK
  <2>1. <<>> \in Seq(Narrated)
    OBVIOUS
  <2>2. queue \in [Processes -> Seq(Narrated)] /\ task \in [Processes -> Tasks]
        /\ completed \in [Processes -> BOOLEAN]
    BY <1>2, <1>9, <2>1
  <2> QED BY <1>2, <1>7, <2>2 DEF NarratorOK
<1>11. \A w \in Processes : TransactionOK(w)
  BY <1>2, <1>8, <1>9, NarratorAssumption DEF TransactionOK, Open
<1>12. Out = <<>>
  BY <1>2 DEF Out
<1>13. TimelineOK
  BY <1>2, <1>12, ReplayNone DEF TimelineOK
<1>14. Recorded \subseteq {"run_started"}
  BY <1>2, <1>3, <1>4 DEF Recorded, ToSet
<1> QED BY <1>2, <1>8, <1>9, <1>10, <1>11, <1>13, <1>14 DEF NarratorParts

LEMMA InitIInv == Init => IInv
<1> SUFFICES ASSUME Init PROVE IInv
  OBVIOUS
<1>1. PodOK /\ Accounted
  BY InitPod
<1>2. /\ NarratorParts
      /\ Recorded \subseteq {"run_started"}
      /\ \A w \in Processes : queue[w] = <<>> /\ task[w].at = "none"
      /\ ended = {}
  BY InitNarrator
<1>3. StreamOK /\ ViewOK
  <2>1. PICK scenario \in Scenarios : StreamInit(scenario.connections)
    BY DEF Init
  <2>2. /\ reader = "away" /\ placed = FALSE /\ inbox = <<>> /\ view = NoView
        /\ missed = FALSE /\ connections \in Nat
    BY <2>1, ScenarioAssumption DEF StreamInit
  <2>3. IsView(NoView)
    BY DEF IsView, NoView
  <2>4. Shown(view, inbox) = view /\ <<>> \in Seq(Messages)
    BY <2>2, ShownNone
  <2> QED BY <2>2, <2>3, <2>4 DEF StreamOK, ViewOK
<1>4. EndsOK
  BY <1>2 DEF EndsOK
<1>5. /\ heardAt = [e \in {"running_code", "run_completed"} |-> {}]
      /\ overtaken = FALSE /\ deleted = FALSE
  BY DEF Init
<1>6. HeardOK
  BY <1>5, FS_EmptySet DEF HeardOK
<1>7. StartsOK
  BY <1>5 DEF StartsOK
<1>8. GhostOK
  <2>1. \A w \in Processes : OrderOK(w)
    BY <1>2 DEF OrderOK, InHand
  <2> QED BY <1>2, <2>1 DEF GhostOK
<1> QED BY <1>1, <1>2, <1>3, <1>4, <1>6, <1>7, <1>8 DEF IInv, NarratorParts

LEMMA NextIInv == IInv /\ [Next]_vars => IInv'
<1> SUFFICES ASSUME IInv, [Next]_vars PROVE IInv'
  OBVIOUS
<1>1. PodOK /\ Accounted /\ NarratorParts /\ StreamOK /\ ViewOK /\ EndsOK /\ HeardOK
      /\ StartsOK /\ GhostOK
  BY DEF IInv, NarratorParts
<1>2. PodOK' /\ Accounted'
  <2>1. CASE Pod \/ DeletePod
    BY <1>1, <2>1, PodPodOK, PodAccounted
  <2>2. ASSUME NEW p \in posts, Store(p) \/ RequestFails(p) \/ \E w \in Processes : Hear(p, w)
        PROVE  PodOK' /\ Accounted'
    BY <1>1, <2>2, RequestsPodOK
  <2> QED BY <1>1, <2>1, <2>2, OthersPodOK DEF Next
<1>3. NarratorParts'
  BY <1>1, StoryStep
<1>4. StreamOK' /\ ViewOK'
  BY <1>1, StreamStep
<1>5. EndsOK'
  BY <1>1, EndsStep
<1>6. HandStep /\ Remembers
  BY <1>1, HandsMove
<1>7. /\ HeardOK' /\ (overtaken => overtaken')
      /\ \A e \in {"running_code", "run_completed"} : heardAt[e] \subseteq heardAt'[e]
  BY <1>1, <1>6, HeardStep
<1>8. StartsOK'
  BY <1>1, <1>6, RowStep, StartsStep
<1>9. GhostOK'
  BY <1>1, <1>6, <1>7, GhostStep
<1> QED BY <1>2, <1>3, <1>4, <1>5, <1>7, <1>8, <1>9 DEF IInv, NarratorParts

\* The invariant, of every number of processes, every script of the pod, every
\* size of its queue and every number of attempts.
THEOREM Invariant == Spec => []IInv
BY InitIInv, NextIInv, PTL DEF Spec

-----------------------------------------------------------------------------
(* What follows from it.                                                    *)

LEMMA IInvTypeOK == IInv => TypeOK
<1> SUFFICES ASSUME IInv PROVE TypeOK
  OBVIOUS
<1>1. PodOK /\ NarratorOK /\ StreamOK /\ (\A w \in Processes : TransactionOK(w)) /\ HeardOK
  BY DEF IInv
<1>2. /\ script \in Seq(ScriptEvents) /\ emitted \subseteq ScriptEvents
      /\ Len(outbox) <= QueueSize /\ ToSet(outbox) \subseteq Events \cup {"stop"}
      /\ buffer \subseteq {"codex_event"} /\ drainer \in {"running", "stopped"}
      /\ launcher \in {"running", "announcing", "stopping", "exited"}
      /\ excused \subseteq Events /\ stored \subseteq Events
      /\ failures \in Nat /\ verdicts \in 0..1
  <2>1. ToSet(outbox) \subseteq ScriptEvents \cup {"stop"}
    BY <1>1, ToSetOfEnds DEF PodOK
  <2> QED BY <1>1, <2>1 DEF PodOK, Events
<1>3. posts \subseteq [events : SUBSET Events, tries : 1..MaxAttempts, served : BOOLEAN]
  <2>1. \A e \in PodEvents : {e} \in SUBSET Events
    BY DEF PodEvents, Events
  <2> QED BY <1>1, <2>1 DEF PodOK, Posts
<1>4. \A w \in Processes : ToSet(queue[w]) \subseteq Events
  <2>1. ASSUME NEW w \in Processes PROVE ToSet(queue[w]) \subseteq Narrated
    <3>1. queue[w] \in Seq(Narrated)
      BY <1>1 DEF NarratorOK
    <3> QED BY <3>1, ToSetOfEnds
  <2> QED BY <2>1 DEF Narrated
<1>5. task \in [Processes ->
          [at : {"none", "wait", "taken", "insert", "publish", "announce", "commit"},
           event : Events \cup {None}, base : States, left : Seq(RowIds)]]
  <2>1. Tasks \subseteq
          [at : {"none", "wait", "taken", "insert", "publish", "announce", "commit"},
           event : Events \cup {None}, base : States, left : Seq(RowIds)]
    BY DEF Tasks, Places, Open, Narrated
  <2> QED BY <1>1, <2>1 DEF NarratorOK
<1>6. /\ failed \subseteq Events /\ completed \in [Processes -> BOOLEAN]
      /\ lock \in Processes \cup {None} /\ state \in States
      /\ ended \subseteq Processes /\ late \subseteq ended /\ oddities \in Nat
  BY <1>1 DEF NarratorOK
<1>7. Recorded \subseteq RowIds
  <2>1. ToSet(timeline) \subseteq Rows
    BY <1>1, ToSetOfEnds DEF NarratorOK
  <2> QED BY <2>1 DEF Recorded, Rows
<1>8. /\ reader \in {"away", "opening", "asking", "waiting"} /\ connections \in Nat
      /\ view.rows \subseteq RowIds
  BY <1>1 DEF StreamOK, IsView
<1> QED BY <1>2, <1>3, <1>4, <1>5, <1>6, <1>7, <1>8 DEF TypeOK

\* The types of the pod's, the narrator's and the stream's variables hold: the
\* queue of the event manager never holds more than queue_maxsize, a webhook is
\* tried stop_after_attempt times at most, and the reducer leaves a state.
THEOREM TypeCorrect == Spec => []TypeOK
BY Invariant, IInvTypeOK, PTL

\* With no transaction open, no commit torn and no row written twice, the state
\* of a run is what replay_events makes of its timeline.
THEOREM StateIsReplayed == Spec => []StateFollowsTimeline
<1>1. IInv => StateFollowsTimeline
  <2> SUFFICES ASSUME TimelineOK, lock = None, ~torn, ~repeated
               PROVE  state = Replay(FirstState, timeline)
    BY DEF IInv, StateFollowsTimeline
  <2>1. Out = <<>> /\ Replay(FirstState, timeline) = Replay(state, Out)
    BY DEF Out, TimelineOK
  <2> QED BY <2>1, ReplayNone
<1> QED BY <1>1, Invariant, PTL

\* An execution whose end is recorded and that is still among the active nodes
\* was heard of in the wrong order or in two processes, or its rows were torn,
\* repeated or lost: narrate_event on its own leaves none.
THEOREM GhostsAreExplained == Spec => []GhostsHaveACause
<1>1. IInv => GhostsHaveACause
  <2> SUFFICES ASSUME IInv, lock = None, state.active, "exec_completed" \in Recorded, ~Excused
               PROVE  FALSE
    BY DEF GhostsHaveACause, Excused
  <2>1. ~(Replay(FirstState, timeline).active)
    BY DEF IInv, GhostOK
  <2>2. ~torn /\ ~repeated /\ TimelineOK
    BY DEF Excused, IInv
  <2>3. Out = <<>> /\ Replay(FirstState, timeline) = Replay(state, Out)
    BY <2>2 DEF Out, TimelineOK
  <2>4. Replay(FirstState, timeline) = state
    BY <2>3, ReplayNone
  <2> QED BY <2>1, <2>4
<1> QED BY <1>1, Invariant, PTL

\* An event of the pod's processes that is not stored when the pod is gone and
\* nothing is under way was dropped by put_nowait, given up by the retries, or
\* cut off by the exit of the launcher.
THEOREM LossesAreExplained == Spec => []LossesHaveACause
<1>1. IInv => LossesHaveACause
  <2> SUFFICES ASSUME PodOK, Accounted, launcher = "exited", posts = {}, NEW e \in emitted
               PROVE  e \in stored \cup excused
    BY DEF IInv, LossesHaveACause
  <2>1. ToSet(outbox) = {} /\ buffer = {}
    BY DEF PodOK, ToSet
  <2> QED BY <2>1 DEF Accounted
<1> QED BY <1>1, Invariant, PTL

\* A browser that waits for messages and has read all there were shows the
\* stored state and every row, unless it could not be sent something or a
\* published transaction was rolled back.
THEOREM ViewIsWhole == Spec => []ViewIsComplete
<1>1. IInv => ViewIsComplete
  <2> SUFFICES ASSUME ViewOK, reader = "waiting", inbox = <<>>, lock = None, ~missed, ~torn
               PROVE  view.state = state /\ view.rows = Recorded
    BY DEF IInv, ViewIsComplete
  <2>1. Shown(view, inbox) = view
    BY ShownNone
  <2>2. PublishedState = state /\ Unpublished = {}
    BY DEF PublishedState, Unpublished
  <2> QED BY <2>1, <2>2 DEF ViewOK
<1> QED BY <1>1, Invariant, PTL

\* A process that took the end of the run and heard nothing of it since either
\* still has its queue to clean up or has no task any more.
THEOREM LeaksAreLate == Spec => []OnlyLateEventsLeak
<1>1. IInv => OnlyLateEventsLeak
  BY DEF IInv, EndsOK, OnlyLateEventsLeak
<1> QED BY <1>1, Invariant, PTL

=============================================================================
