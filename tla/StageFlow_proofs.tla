--------------------------- MODULE StageFlow_proofs ---------------------------
(***************************************************************************)
(* What the run of StageFlow checks about one research run in its pod,      *)
(* proved for any number of attempts, retries, rounds, faults, kills and    *)
(* launches and for any scale of the metric: the best node is kept, a       *)
(* skipped stage has a working node, and the report and the paper are what  *)
(* they are for a reason.                                                   *)
(***************************************************************************)
EXTENDS StageFlow, WellFoundedInduction, TLAPS

-----------------------------------------------------------------------------
(* The best node of a journal.                                              *)

Proper(js) == {i \in Good(js) : ~js[i].seed}

LEMMA GreatestOf ==
    ASSUME NEW n \in Nat, NEW S, S \subseteq 0..n, S # {}
    PROVE  \E m \in S : \A k \in S : m >= k
<1> DEFINE T == {k \in Nat : n - k \in S}
           R == OpToRel(<, Nat)
<1>1. T \subseteq Nat /\ T # {}
  <2>1. PICK m \in S : TRUE
    OBVIOUS
  <2>2. n - m \in T
    BY <2>1
  <2> QED BY <2>2
<1>2. PICK k \in T : \A j \in T : ~(<<j, k>> \in R)
  <2> HIDE DEF T, R
  <2>1. IsWellFoundedOn(R, Nat)
    BY NatLessThanWellFounded DEF R
  <2> QED BY <1>1, <2>1, WFMin
<1>3. \A j \in T : ~(j < k)
  <2> TAKE j \in T
  <2>1. j \in Nat /\ k \in Nat
    OBVIOUS
  <2> QED BY <1>2, <2>1 DEF OpToRel
<1>4. n - k \in S /\ \A m \in S : n - k >= m
  <2>1. \A m \in S : n - m \in T
    OBVIOUS
  <2> HIDE DEF R
  <2> QED BY <1>3, <2>1
<1> QED BY <1>4

LEMMA LeastOf ==
    ASSUME NEW S, S \subseteq Nat, S # {}
    PROVE  \E m \in S : \A k \in S : m <= k
<1> DEFINE R == OpToRel(<, Nat)
<1>1. PICK m \in S : \A j \in S : ~(<<j, m>> \in R)
  <2> HIDE DEF R
  <2>1. IsWellFoundedOn(R, Nat)
    BY NatLessThanWellFounded DEF R
  <2> QED BY <2>1, WFMin
<1>2. \A j \in S : ~(j < m)
  <2> TAKE j \in S
  <2>1. j \in Nat /\ m \in Nat
    OBVIOUS
  <2> QED BY <1>1, <2>1 DEF OpToRel
<1>3. \A j \in S : m <= j
  BY <1>2
<1> QED BY <1>3

\* Of a set of numbers up to n, Max is the greatest.
LEMMA MaxOf ==
    ASSUME NEW n \in Nat, NEW S, S \subseteq 0..n, S # {}
    PROVE  Max(S) \in S /\ \A k \in S : Max(S) >= k
BY GreatestOf DEF Max

LEMMA MaxOfTwo ==
    ASSUME NEW a \in Nat, NEW b \in Nat
    PROVE  Max({a, b}) = IF a >= b THEN a ELSE b
<1> DEFINE S == {a, b}
           n == a + b
<1>1. S \subseteq 0..n /\ S # {} /\ n \in Nat
  OBVIOUS
<1> HIDE DEF S, n
<1>2. Max(S) \in S /\ \A k \in S : Max(S) >= k
  BY <1>1, MaxOf
<1> QED BY <1>2 DEF S

Journal(js) == js \in Seq(Nodes)

LEMMA MetricBestIsACandidate ==
    ASSUME MaxMetric \in Nat, NEW js, Journal(js), Candidates(js) # {}
    PROVE  \E i \in Candidates(js) :
              MetricBest(js) = js[i] /\ \A j \in Candidates(js) : js[i].metric >= js[j].metric
<1> DEFINE C == Candidates(js)
           M == {js[i].metric : i \in C}
<1>1. C \subseteq DOMAIN js /\ DOMAIN js = 1..Len(js) /\ Len(js) \in Nat
  BY DEF Candidates, Good, Journal
<1>2. \A i \in C : js[i] \in Nodes
  BY <1>1 DEF Journal
<1>3. \A i \in C : js[i].metric \in 0..MaxMetric
  BY <1>2 DEF Nodes
<1>4. C \subseteq Nat
  BY <1>1
<1> HIDE DEF C
<1>5. PICK m \in M : \A k \in M : m >= k
  <2>1. M \subseteq 0..MaxMetric /\ M # {}
    BY <1>3 DEF C
  <2> HIDE DEF M
  <2> QED BY <2>1, GreatestOf
<1> DEFINE B == {i \in C : js[i].metric = m}
<1>6. PICK b \in B : \A k \in B : b <= k
  <2>1. B \subseteq Nat /\ B # {}
    BY <1>4, <1>5
  <2> HIDE DEF B
  <2> QED BY <2>1, LeastOf
<1>7. \A j \in C : js[b].metric > js[j].metric \/ (js[b].metric = js[j].metric /\ b <= j)
  <2> TAKE j \in C
  <2>1. m >= js[j].metric /\ js[b].metric = m /\ js[j].metric \in Nat /\ m \in Nat
    BY <1>3, <1>5, <1>6
  <2>2. js[j].metric = m => b <= j
    BY <1>6
  <2> QED BY <2>1, <2>2
<1> DEFINE top == CHOOSE i \in C :
                     \A j \in C : \/ js[i].metric > js[j].metric
                                  \/ js[i].metric = js[j].metric /\ i <= j
<1>8. top \in C /\ \A j \in C : js[top].metric > js[j].metric \/ js[top].metric = js[j].metric
  <2>1. b \in C
    BY <1>6
  <2> QED BY <1>7, <2>1
<1>9. MetricBest(js) = js[top]
  BY DEF MetricBest, C
<1> HIDE DEF top
<1>10. \A j \in C : js[top].metric >= js[j].metric
  BY <1>3, <1>8
<1> QED BY <1>8, <1>9, <1>10 DEF C

\* The best of a journal with a working node of its own works, is no seed node and
\* has the greatest metric of those.
LEMMA BestOfProper ==
    ASSUME MaxMetric \in Nat, NEW js, Journal(js), Proper(js) # {}
    PROVE  /\ MetricBest(js) \in Nodes /\ MetricBest(js).good /\ ~MetricBest(js).seed
           /\ MetricBest(js).metric = TopMetric(js)
           /\ TopMetric(js) \in Nat
           /\ \A i \in Proper(js) : TopMetric(js) >= js[i].metric
<1>1. Candidates(js) = Proper(js)
  BY DEF Candidates, Proper
<1>2. PICK i \in Proper(js) :
         MetricBest(js) = js[i] /\ \A j \in Proper(js) : js[i].metric >= js[j].metric
  BY <1>1, MetricBestIsACandidate
<1>3. \A j \in Proper(js) : js[j] \in Nodes /\ js[j].good /\ ~js[j].seed
  BY DEF Proper, Good, Journal
<1>4. \A j \in Proper(js) : js[j].metric \in 0..MaxMetric
  BY <1>3 DEF Nodes
<1> DEFINE M == {0} \cup {js[j].metric : j \in Proper(js)}
<1>5. TopMetric(js) = Max(M)
  BY DEF TopMetric, Proper
<1>6. M \subseteq 0..MaxMetric /\ M # {}
  BY <1>4
<1>7. Max(M) \in M /\ \A k \in M : Max(M) >= k
  <2> HIDE DEF M
  <2> QED BY <1>6, MaxOf
<1>8. Max(M) = js[i].metric
  <2>1. js[i].metric \in M /\ Max(M) \in Nat /\ js[i].metric \in Nat
    BY <1>4, <1>6, <1>7
  <2>2. \A k \in M : js[i].metric >= k
    BY <1>2, <1>4
  <2>3. Max(M) >= js[i].metric /\ js[i].metric >= Max(M)
    BY <1>7, <2>1, <2>2
  <2> QED BY <2>1, <2>3
<1>9. \A j \in Proper(js) : Max(M) >= js[j].metric
  BY <1>7
<1> QED BY <1>2, <1>3, <1>4, <1>5, <1>8, <1>9

LEMMA TopMetricTyped ==
    ASSUME MaxMetric \in Nat, NEW js, Journal(js)
    PROVE  TopMetric(js) \in Nat
<1> DEFINE M == {0} \cup {js[j].metric : j \in {k \in Good(js) : ~js[k].seed}}
<1>1. M \subseteq 0..MaxMetric /\ M # {}
  <2>1. \A j \in DOMAIN js : js[j].metric \in 0..MaxMetric
    <3>1. \A j \in DOMAIN js : js[j] \in Nodes
      BY DEF Journal
    <3> QED BY <3>1 DEF Nodes
  <2>2. 0 \in 0..MaxMetric
    OBVIOUS
  <2> QED BY <2>1, <2>2 DEF Good
<1>2. Max(M) \in M
  <2> HIDE DEF M
  <2> QED BY <1>1, MaxOf
<1> QED BY <1>1, <1>2 DEF TopMetric

LEMMA BestTyped ==
    ASSUME MaxMetric \in Nat, NEW js, Journal(js), NEW older \in Nodes
    PROVE  /\ BestImplementation(js, older) \in Nodes
           /\ Good(js) # {} => BestImplementation(js, older).good
           /\ Good(js) = {} => BestImplementation(js, older) = older
<1>1. CASE Good(js) = {}
  BY <1>1 DEF BestImplementation
<1>2. CASE Good(js) # {}
  <2>1. Candidates(js) # {} /\ Candidates(js) \subseteq Good(js)
    BY <1>2 DEF Candidates
  <2>2. PICK i \in Candidates(js) : MetricBest(js) = js[i]
    BY <2>1, MetricBestIsACandidate
  <2>3. js[i] \in Nodes /\ js[i].good
    BY <2>1 DEF Good, Journal
  <2> QED BY <1>2, <2>2, <2>3 DEF BestImplementation
<1> QED BY <1>1, <1>2

\* What an execution can give: a node, and a seed node only where seeds are run.
LEMMA ResultsTyped ==
    ASSUME MaxMetric \in Nat, stage \in Stages, NEW seed \in BOOLEAN, NEW r \in Results(seed)
    PROVE  r \in Nodes /\ (r.seed => seed)
<1>1. Results(seed) = {NodeOf(e, stage, seed) : e \in Executions}
  BY DEF Results, ResultTable, Stages
<1>2. PICK e \in Executions : r = NodeOf(e, stage, seed)
  BY <1>1
<1>3. e.metric \in 0..MaxMetric
  BY DEF Executions
<1>4. r = [good |-> TRUE, metric |-> e.metric, seed |-> seed] \/ r = Bad
  BY <1>2 DEF NodeOf
<1>5. CASE r = [good |-> TRUE, metric |-> e.metric, seed |-> seed]
  BY <1>3, <1>5 DEF Nodes
<1>6. CASE r = Bad
  BY <1>6 DEF Nodes, Bad
<1> QED BY <1>4, <1>5, <1>6

-----------------------------------------------------------------------------
(* Types.                                                                   *)

Running == {"start", "begin", "iterate", "step", "judge", "skipped", "seeds", "leave",
            "next", "summarise"}
Writing == {"copy", "plots", "write", "draft", "refine", "review", "upload", "finish",
            "ended"}
Blames == {"raised", "limit", "flagged", "exit", "unfinished", "plots", "left", "stale"}
Files == {"summaries", "idea", "figures", "review"}
Disks == [stages : SUBSET Stages, files : SUBSET Files, pdfs : SUBSET Nat]
Papers == [tries : Nat, round : Nat, built : BOOLEAN, origin : Nat, finished : BOOLEAN]
Budgets == [faults : Nat, kills : Nat, resumes : Nat]

ManagerTyped ==
    /\ stage \in Stages /\ live \in BOOLEAN
    /\ Journal(nodes) /\ stash \in Nodes /\ carried \in Nodes
    /\ attempts \in Nat /\ skippable \in BOOLEAN /\ skipAsked \in BOOLEAN
    /\ completed \subseteq Stages /\ peak \in Nat

LaunchTyped ==
    /\ at \in Running \cup Writing /\ ok \in BOOLEAN
    /\ report \in {"none", "success", "failure"}
    /\ disk \in Disks /\ paper \in Papers /\ budget \in Budgets
    /\ blame \subseteq Blames

Typed == ManagerTyped /\ LaunchTyped

USE DEF manager, history, launch, vars

LEMMA MetricBound == MaxMetric \in Nat
BY ConstantsAssumption

LEMMA NoNodeTyped == NoNode \in Nodes /\ Bad \in Nodes
BY MetricBound DEF NoNode, Bad, Nodes

\* What the changes of the three records leave alone.
LEMMA DiskFacts ==
    ASSUME disk \in Disks
    PROVE  /\ \A f \in Files : /\ With(disk, f) \in Disks
                               /\ With(disk, f).stages = disk.stages
                               /\ With(disk, f).pdfs = disk.pdfs
                               /\ With(disk, f).files = disk.files \cup {f}
           /\ \A s \in Stages : /\ Saved(disk, s) \in Disks
                                /\ Saved(disk, s).stages = disk.stages \cup {s}
                                /\ Saved(disk, s).pdfs = disk.pdfs
                                /\ Saved(disk, s).files = disk.files
           /\ \A n \in Nat : LET d == [disk EXCEPT !.pdfs = @ \cup {n}]
                             IN  /\ d \in Disks
                                 /\ d.stages = disk.stages
                                 /\ d.pdfs = disk.pdfs \cup {n}
                                 /\ d.files = disk.files
BY DEF Disks, With, Saved

LEMMA BudgetFacts ==
    ASSUME budget \in Budgets
    PROVE  /\ Fault => budget' \in Budgets /\ budget'.resumes = budget.resumes
           /\ budget' = [budget EXCEPT !.kills = @ + 1] =>
                 budget' \in Budgets /\ budget'.resumes = budget.resumes
           /\ budget' = [budget EXCEPT !.resumes = @ + 1] =>
                 budget' \in Budgets /\ budget'.resumes > 0
BY DEF Budgets, Fault

\* The steps of the launcher after the experiments.
LEMMA BeginFacts ==
    ASSUME paper \in Papers, BeginAttempt
    PROVE  /\ paper' \in Papers /\ paper'.tries = paper.tries + 1
           /\ paper'.origin = paper.origin /\ paper'.finished = paper.finished
<1> DEFINE n == paper.tries + 1
<1>1. paper' = [paper EXCEPT !.tries = n, !.round = 0, !.built = FALSE]
  BY DEF BeginAttempt
<1>2. n \in Nat
  BY DEF Papers
<1> HIDE DEF n
<1>3. paper' \in Papers /\ paper'.tries = n
      /\ paper'.origin = paper.origin /\ paper'.finished = paper.finished
  BY <1>1, <1>2 DEF Papers
<1> QED BY <1>3 DEF n

LEMMA DraftFacts ==
    ASSUME paper \in Papers, disk \in Disks, Draft
    PROVE  /\ paper' \in Papers /\ disk' \in Disks
           /\ paper'.tries = paper.tries /\ paper'.finished = paper.finished
           /\ disk'.files = disk.files /\ disk'.stages = disk.stages
           /\ \/ at' = "refine" /\ paper'.origin = paper.tries /\ disk'.pdfs = disk.pdfs \cup {0}
              \/ at' = "refine" /\ disk.pdfs # {} /\ paper' = paper /\ disk' = disk
              \/ at' = "write" /\ paper' = paper /\ disk' = disk
<1>1. CASE \E agent \in BOOLEAN :
            /\ paper' = [paper EXCEPT !.built = agent, !.origin = paper.tries]
            /\ disk' = [disk EXCEPT !.pdfs = @ \cup {0}] /\ at' = "refine"
  <2>1. PICK agent \in BOOLEAN :
            /\ paper' = [paper EXCEPT !.built = agent, !.origin = paper.tries]
            /\ disk' = [disk EXCEPT !.pdfs = @ \cup {0}] /\ at' = "refine"
    BY <1>1
  <2>2. paper' \in Papers /\ paper'.tries = paper.tries /\ paper'.finished = paper.finished
        /\ paper'.origin = paper.tries
    BY <2>1 DEF Papers
  <2> QED BY <2>1, <2>2, DiskFacts
<1>2. CASE at' = (IF 0 \in disk.pdfs THEN "refine" ELSE "write") /\ UNCHANGED <<paper, disk>>
  BY <1>2
<1> QED BY <1>1, <1>2 DEF Draft

LEMMA RefineFacts ==
    ASSUME paper \in Papers, disk \in Disks, Refine
    PROVE  /\ paper' \in Papers /\ disk' \in Disks
           /\ paper'.tries = paper.tries /\ paper'.finished = paper.finished
           /\ paper'.origin = paper.origin
           /\ disk'.files = disk.files /\ disk'.stages = disk.stages
           /\ disk.pdfs \subseteq disk'.pdfs
<1>1. CASE \E agent \in BOOLEAN :
            /\ paper' = [paper EXCEPT !.round = @ + 1, !.built = agent \/ @]
            /\ disk' = [disk EXCEPT !.pdfs = @ \cup {paper.round + 1}]
  <2>1. PICK agent \in BOOLEAN :
            /\ paper' = [paper EXCEPT !.round = @ + 1, !.built = agent \/ @]
            /\ disk' = [disk EXCEPT !.pdfs = @ \cup {paper.round + 1}]
    BY <1>1
  <2>2. paper.round + 1 \in Nat /\ paper.built \in BOOLEAN
    BY DEF Papers
  <2> DEFINE b == agent \/ paper.built
  <2>3. b \in BOOLEAN /\ paper' = [paper EXCEPT !.round = @ + 1, !.built = b]
    BY <2>1, Zenon
  <2> HIDE DEF b
  <2>4. paper' \in Papers /\ paper'.tries = paper.tries /\ paper'.finished = paper.finished
        /\ paper'.origin = paper.origin
    BY <2>2, <2>3 DEF Papers
  <2> QED BY <2>1, <2>2, <2>4, DiskFacts
<1>2. CASE paper' = [paper EXCEPT !.round = @ + 1] /\ UNCHANGED disk
  BY <1>2 DEF Papers
<1> QED BY <1>1, <1>2 DEF Refine

LEMMA AcceptFacts ==
    ASSUME paper \in Papers, Accept
    PROVE  /\ paper' \in Papers
           /\ paper'.tries = paper.tries /\ paper'.origin = paper.origin
           /\ paper.finished => paper'.finished
           /\ paper.origin = paper.tries => paper'.finished
           /\ paper.origin # paper.tries => paper'.finished = paper.finished
<1> DEFINE f == paper.finished \/ paper.origin = paper.tries
<1>1. f \in BOOLEAN /\ paper' = [paper EXCEPT !.finished = f]
  BY Zenon DEF Accept
<1>2. (paper.finished => f) /\ (paper.origin = paper.tries => f)
      /\ (paper.origin # paper.tries => (f <=> paper.finished))
  BY Zenon
<1> HIDE DEF f
<1>3. paper' \in Papers /\ paper'.tries = paper.tries /\ paper'.origin = paper.origin
      /\ paper'.finished = f
  BY <1>1 DEF Papers
<1>4. paper.finished \in BOOLEAN
  BY DEF Papers
<1> QED BY <1>1, <1>2, <1>3, <1>4

LEMMA NodesGrow ==
    ASSUME NEW js, Journal(js), NEW n \in Nodes
    PROVE  /\ Journal(Append(js, n)) /\ Journal(<<n>>) /\ Journal(<<>>)
           /\ \A i \in DOMAIN js : i \in DOMAIN Append(js, n) /\ Append(js, n)[i] = js[i]
           /\ DOMAIN Append(js, n) = DOMAIN js \cup {Len(js) + 1}
           /\ Append(js, n)[Len(js) + 1] = n
           /\ DOMAIN <<n>> = {1} /\ <<n>>[1] = n
BY DEF Journal

LEMMA AppendTyped ==
    ASSUME Journal(nodes), NEW n \in Nodes, nodes' = Append(nodes, n)
    PROVE  Journal(nodes')
BY DEF Journal

LEMMA FlagTyped ==
    ASSUME NEW js, Journal(js), NEW i \in DOMAIN js
    PROVE  Journal(Flag(js, i)) /\ DOMAIN Flag(js, i) = DOMAIN js
<1>1. Bad \in Nodes
  BY NoNodeTyped
<1>2. Flag(js, i) = [js EXCEPT ![i] = Bad]
  BY DEF Flag
<1> QED BY <1>1, <1>2 DEF Journal

LEMMA ParentsTyped ==
    ASSUME Journal(nodes)
    PROVE  Parents # {} => stage = 3
BY DEF Parents

LEMMA ManagerStepTyped ==
    ASSUME Typed, Manager
    PROVE  Typed'
<1> USE DEF Typed, ManagerTyped, LaunchTyped
<1>1. CASE Prepare
  <2>1. at' \in Running \cup Writing
    BY <1>1 DEF Prepare, Running
  <2>2. Inherited \in Nodes
    BY DEF Inherited
  <2>3. Journal(nodes')
    BY <1>1, <2>2, NodesGrow DEF Prepare
  <2>4. live' \in BOOLEAN /\ ok' \in BOOLEAN /\ skippable' \in BOOLEAN /\ skipAsked' \in BOOLEAN
    BY <1>1 DEF Prepare
  <2>5. UNCHANGED <<stage, stash, carried, attempts, completed, peak, disk, report, paper, blame, budget>>
    BY <1>1 DEF Prepare
  <2> QED BY <2>1, <2>3, <2>4, <2>5
<1>2. CASE Iterate
  <2>1. skippable' \in BOOLEAN /\ attempts' \in Nat /\ at' \in Running /\ skipAsked' \in BOOLEAN
    <3>1. skippable' \in BOOLEAN
      <4>1. skippable' \in MaySkip(nodes)
        BY <1>2 DEF Iterate
      <4> QED BY <4>1 DEF MaySkip
    <3>2. at' \in Running /\ skipAsked' = FALSE
      BY <1>2 DEF Iterate, Running
    <3>3. attempts' = attempts \/ attempts' = attempts + 1
      BY <1>2 DEF Iterate, NextAttempt
    <3>4. attempts' \in Nat
      BY <3>3
    <3>5. skipAsked' \in BOOLEAN
      BY <3>2
    <3> QED BY <3>1, <3>2, <3>4, <3>5, Zenon
  <2>2. UNCHANGED <<stage, live, nodes, stash, carried, history, ok, disk, report, paper, blame, budget>>
    BY <1>2 DEF Iterate
  <2> QED BY <2>1, <2>2
<1>3. CASE StepEnds
  <2>1. Journal(nodes')
    <3>1. nodes' = nodes \/ \E r \in Results(FALSE) : nodes' = Append(nodes, r)
      BY <1>3 DEF StepEnds
    <3>2. \A r \in Results(FALSE) : r \in Nodes
      BY ResultsTyped, MetricBound
    <3> QED BY <3>1, <3>2, AppendTyped
  <2>2. disk' \in Disks
    BY <1>3, DiskFacts DEF StepEnds
  <2>3. at' \in Running
    BY <1>3 DEF StepEnds, Running
  <2>4. UNCHANGED <<stage, live, stash, carried, attempts, skippable, skipAsked, history, ok,
                    report, paper, blame, budget>>
    BY <1>3 DEF StepEnds
  <2> QED BY <2>1, <2>2, <2>3, <2>4
<1>4. CASE StepCrashes
  <2>1. Journal(nodes') /\ blame' \subseteq Blames
    <3>1. Parents \subseteq DOMAIN nodes
      BY DEF Parents, Candidates, Good
    <3>2. nodes' = nodes \/ \E i \in Parents : nodes' = Flag(nodes, i)
      BY <1>4 DEF StepCrashes
    <3>3. blame' \subseteq blame \cup {"flagged"}
      BY <1>4 DEF StepCrashes
    <3> QED BY <3>1, <3>2, <3>3, FlagTyped DEF Blames
  <2>2. disk' \in Disks /\ budget' \in Budgets
    BY <1>4, DiskFacts, BudgetFacts DEF StepCrashes
  <2>3. at' \in Running
    BY <1>4 DEF StepCrashes, Running
  <2>4. UNCHANGED <<stage, live, stash, carried, attempts, skippable, skipAsked, history, ok,
                    report, paper>>
    BY <1>4 DEF StepCrashes
  <2> QED BY <2>1, <2>2, <2>3, <2>4
<1>5. CASE StepSkipped
  BY <1>5 DEF StepSkipped, Running
<1>6. CASE Judge
  <2>1. BestImplementation(nodes, stash) \in Nodes /\ TopMetric(nodes) \in Nat
    BY BestTyped, TopMetricTyped, MetricBound
  <2>2. Max({peak, TopMetric(nodes)}) \in Nat
    BY <2>1, MaxOfTwo
  <2>3. Journal(nodes') /\ stash' \in Nodes /\ peak' \in Nat
    BY <1>6, <2>1, <2>2, NodesGrow DEF Judge
  <2>4. at' \in Running /\ live' \in BOOLEAN /\ blame' \subseteq Blames
        /\ skippable' \in BOOLEAN /\ skipAsked' \in BOOLEAN
    BY <1>6 DEF Judge, StaysLive, Running, Blames
  <2>5. UNCHANGED <<stage, carried, attempts, completed, ok, disk, report, paper, budget>>
    BY <1>6 DEF Judge
  <2> QED BY <2>3, <2>4, <2>5
<1>7. CASE SkipStage
  BY <1>7 DEF SkipStage, Running
<1>8. CASE Seeds
  <2>1. Journal(nodes') /\ disk' \in Disks /\ completed' \subseteq Stages /\ ok' \in BOOLEAN
    <3>1. CASE ok' = FALSE /\ UNCHANGED <<nodes, disk, completed>>
      BY <3>1
    <3>2. CASE /\ \E r \in Results(TRUE) : nodes' = Append(nodes, r)
               /\ disk' = Saved(disk, stage)
               /\ completed' = completed \cup {stage} /\ UNCHANGED ok
      <4>1. \A r \in Results(TRUE) : r \in Nodes
        BY ResultsTyped, MetricBound
      <4>2. Journal(nodes')
        BY <3>2, <4>1, AppendTyped
      <4>3. disk' \in Disks /\ completed' \subseteq Stages
        BY <3>2, DiskFacts
      <4> QED BY <3>2, <4>2, <4>3
    <3> QED BY <1>8, <3>1, <3>2 DEF Seeds
  <2>2. at' \in Running
    BY <1>8 DEF Seeds, Running
  <2>3. UNCHANGED <<stage, live, stash, carried, attempts, skippable, skipAsked, peak, report,
                    paper, blame, budget>>
    BY <1>8 DEF Seeds
  <2> QED BY <2>1, <2>2, <2>3
<1>9. CASE Leave
  <2>1. BestImplementation(nodes, stash) \in Nodes /\ TopMetric(nodes) \in Nat
    BY BestTyped, TopMetricTyped, MetricBound
  <2>2. Max({peak, TopMetric(nodes)}) \in Nat
    BY <2>1, MaxOfTwo
  <2>3. stage' \in Stages /\ carried' \in Nodes /\ stash' \in Nodes /\ peak' \in Nat
        /\ Journal(nodes') /\ attempts' \in Nat /\ at' \in Running
    BY <1>9, <2>1, <2>2, NoNodeTyped DEF Leave, Stages, Journal, Running
  <2>4. UNCHANGED <<live, skippable, skipAsked, completed, ok, disk, report, paper, blame, budget>>
    BY <1>9 DEF Leave
  <2> QED BY <2>3, <2>4
<1>10. CASE LeaveLast
  BY <1>10 DEF LeaveLast, Running
<1>11. CASE Summarise
  BY <1>11, DiskFacts DEF Summarise, Writing, Files
<1> QED BY <1>1, <1>2, <1>3, <1>4, <1>5, <1>6, <1>7, <1>8, <1>9, <1>10, <1>11 DEF Manager

LEMMA LauncherStepTyped ==
    ASSUME Typed, Launcher \/ Breaks
    PROVE  Typed' /\ at' \in Writing /\ UNCHANGED <<manager, history>>
<1>1. UNCHANGED <<manager, history>>
  BY DEF Launcher, Breaks
<1>2. ManagerTyped'
  BY <1>1 DEF Typed, ManagerTyped
<1> USE DEF Typed, LaunchTyped
<1>3. LaunchTyped' /\ at' \in Writing
  <2>1. CASE CopyIdea
    BY <2>1, DiskFacts DEF CopyIdea, Files, Writing
  <2>2. CASE Aggregate
    <3>1. disk' = disk \/ disk' = With(disk, "figures")
      BY <2>2 DEF Aggregate
    <3> QED BY <2>2, <3>1, DiskFacts DEF Aggregate, Files, Writing
  <2>3. CASE AggregationFails
    BY <2>3 DEF AggregationFails, Blames, Writing
  <2>4. CASE KeepPaper
    BY <2>4 DEF KeepPaper, Blames, Writing
  <2>5. CASE BeginAttempt
    BY <2>5, BeginFacts DEF BeginAttempt, Writing
  <2>6. CASE Draft
    <3>1. paper' \in Papers /\ disk' \in Disks /\ at' \in Writing
      BY <2>6, DraftFacts DEF Writing
    <3> QED BY <2>6, <3>1 DEF Draft
  <2>7. CASE Refine
    <3>1. paper' \in Papers /\ disk' \in Disks /\ at' \in Writing
      BY <2>7, RefineFacts DEF Writing, Refine
    <3> QED BY <2>7, <3>1 DEF Refine
  <2>8. CASE Accept
    BY <2>8, AcceptFacts DEF Accept, Blames, Writing
  <2>9. CASE GiveUp
    BY <2>9 DEF GiveUp, Fails, Blames, Writing
  <2>10. CASE Review
    BY <2>10, DiskFacts DEF Review, Files, Writing
  <2>11. CASE Upload
    BY <2>11 DEF Upload, Writing
  <2>12. CASE Finish
    BY <2>12 DEF Finish, Writing
  <2>13. CASE CallFails
    BY <2>13, BudgetFacts DEF CallFails, Fails, Blames, Writing
  <2>14. CASE AttemptFails
    BY <2>14, BudgetFacts DEF AttemptFails, Writing
  <2> QED BY <2>1, <2>2, <2>3, <2>4, <2>5, <2>6, <2>7, <2>8, <2>9, <2>10, <2>11, <2>12, <2>13, <2>14
          DEF Launcher, Breaks, PaperStep
<1> QED BY <1>1, <1>2, <1>3

\* A launch with --resume starts behind the experiments.
LEMMA RelaunchFacts ==
    ASSUME Typed, Resume \/ ResumeFails
    PROVE  /\ Typed' /\ at' \in Writing
           /\ budget'.resumes > 0 /\ ok' = TRUE /\ report' = "none"
           /\ paper'.tries = 0 /\ paper'.finished = paper.finished
           /\ UNCHANGED <<disk, completed>>
<1>1. Relaunch /\ at' \in {"copy", "finish"} /\ blame' \subseteq Blames
  BY DEF Resume, ResumeFails, Typed, LaunchTyped, Lasting, Blames
<1>2. paper' \in Papers /\ paper'.tries = 0 /\ paper'.finished = paper.finished
  <2>1. paper.finished \in BOOLEAN
    BY DEF Typed, LaunchTyped, Papers
  <2>2. paper' = [NoAttempt EXCEPT !.finished = paper.finished]
    BY <1>1 DEF Relaunch
  <2> QED BY <2>1, <2>2 DEF NoAttempt, Papers
<1>3. budget' \in Budgets /\ budget'.resumes > 0
  BY <1>1, BudgetFacts DEF Relaunch, Typed, LaunchTyped
<1>4. ManagerTyped'
  <2>1. Journal(<<>>) /\ NoNode \in Nodes /\ 1 \in Stages
    BY NoNodeTyped DEF Journal, Stages
  <2> QED BY <1>1, <2>1 DEF Relaunch, Typed, ManagerTyped
<1>5. ok' = TRUE /\ report' = "none" /\ UNCHANGED <<disk, completed>>
  BY <1>1 DEF Relaunch
<1>6. at' \in Writing
  BY <1>1 DEF Writing
<1>7. LaunchTyped'
  BY <1>1, <1>2, <1>3, <1>5, <1>6 DEF Typed, LaunchTyped
<1> QED BY <1>2, <1>3, <1>4, <1>5, <1>6, <1>7 DEF Typed

LEMMA KillFacts ==
    ASSUME Typed, Kill
    PROVE  /\ Typed' /\ at' = "ended" /\ at' \in Writing /\ report' = "none"
           /\ budget'.resumes = budget.resumes
           /\ UNCHANGED <<manager, history, ok, disk, paper, blame>>
<1>1. budget' \in Budgets /\ budget'.resumes = budget.resumes
  BY BudgetFacts DEF Kill, Typed, LaunchTyped
<1> QED BY <1>1 DEF Kill, Typed, ManagerTyped, LaunchTyped, Writing

LEMMA AskFacts ==
    ASSUME Typed, AskSkip
    PROVE  /\ Typed' /\ skippable /\ skipAsked' = TRUE
           /\ at \in {"begin", "iterate", "step"}
           /\ UNCHANGED <<stage, live, nodes, stash, carried, attempts, skippable, history, launch>>
BY DEF AskSkip, Typed, ManagerTyped, LaunchTyped

LEMMA InitTyped == Init => Typed
<1> SUFFICES ASSUME Init PROVE Typed
    OBVIOUS
<1>1. ManagerTyped
  <2>1. Journal(<<>>) /\ NoNode \in Nodes /\ 1 \in Stages
    BY NoNodeTyped DEF Journal, Stages
  <2> QED BY <2>1 DEF Init, ManagerTyped
<1>2. LaunchTyped
  BY DEF Init, PaperInit, LaunchTyped, Disks, Papers, Budgets, NoAttempt, Running
<1> QED BY <1>1, <1>2 DEF Typed

LEMMA StepTyped ==
    ASSUME Typed, [Next]_vars
    PROVE  Typed'
<1>1. CASE UNCHANGED vars
  BY <1>1 DEF Typed, ManagerTyped, LaunchTyped
<1>2. CASE Next
  BY <1>2, ManagerStepTyped, LauncherStepTyped, RelaunchFacts, KillFacts, AskFacts DEF Next
<1> QED BY <1>1, <1>2

LEMMA AlwaysTyped == Spec => []Typed
<1>1. Typed /\ [Next]_vars => Typed'
  BY StepTyped
<1> QED BY <1>1, InitTyped, PTL DEF Spec

-----------------------------------------------------------------------------
(* What is handed from sub-stage to sub-stage.  In the first main stage     *)
(* nothing has been handed on, and a skip may only be asked for when the     *)
(* journal has a working node.  From the second on the journal starts with   *)
(* the best node of all journals left behind.                                *)

Clean == "flagged" \notin blame

\* A node that can be handed on.
Fit(n) == n.good /\ ~n.seed /\ n.metric = peak

First ==
    stage = 1 /\ at \in Running =>
        /\ peak = 0 /\ stash = NoNode /\ at \notin {"begin", "next"}
        /\ at \notin {"leave", "summarise"} => \A i \in DOMAIN nodes : ~nodes[i].seed
        /\ at = "start" => ~skippable /\ ~skipAsked
        /\ Clean /\ at \in {"iterate", "step", "judge"} /\ (skippable \/ skipAsked)
              => Good(nodes) # {}
        /\ Clean /\ at = "skipped" => Good(nodes) # {}
        /\ Clean /\ at \in {"seeds", "leave"} /\ live => Proper(nodes) # {}

AtWork == at \in {"iterate", "step", "judge", "skipped", "seeds"} \/ (at = "leave" /\ live)

Later ==
    stage > 1 /\ Clean =>
        /\ at # "start"
        /\ AtWork => 1 \in DOMAIN nodes /\ Fit(nodes[1])
        /\ at = "begin" => Fit(stash)
        /\ at = "next" => Fit(carried)

Handed == First /\ Later

LEMMA InitHanded == Init => Handed
BY DEF Init, PaperInit, Handed, First, Later

\* Behind the experiments there is nothing to hand on.
LEMMA WritingHanded ==
    ASSUME at' \in Writing
    PROVE  Handed'
BY DEF Handed, First, Later, AtWork, Running, Writing

LEMMA GoodAppend ==
    ASSUME Journal(nodes), NEW n \in Nodes, nodes' = Append(nodes, n)
    PROVE  /\ Good(nodes) \subseteq Good(nodes')
           /\ Proper(nodes) \subseteq Proper(nodes')
           /\ 1 \in DOMAIN nodes => 1 \in DOMAIN nodes' /\ nodes'[1] = nodes[1]
           /\ (\A i \in DOMAIN nodes : ~nodes[i].seed) /\ ~n.seed
                 => \A i \in DOMAIN nodes' : ~nodes'[i].seed
<1>1. /\ \A i \in DOMAIN nodes : i \in DOMAIN nodes' /\ nodes'[i] = nodes[i]
      /\ \A i \in DOMAIN nodes' : i \in DOMAIN nodes \/ nodes'[i] = n
  BY DEF Journal
<1> QED BY <1>1 DEF Good, Proper

\* What the best of a journal is that starts with a fit node.
LEMMA BestOfFit ==
    ASSUME Typed, 1 \in DOMAIN nodes, Fit(nodes[1])
    PROVE  LET best == BestImplementation(nodes, stash)
           IN  /\ best.good /\ ~best.seed
               /\ best.metric = Max({peak, TopMetric(nodes)})
<1>1. 1 \in Proper(nodes)
  BY DEF Fit, Proper, Good
<1>2. /\ MetricBest(nodes).good /\ ~MetricBest(nodes).seed
      /\ MetricBest(nodes).metric = TopMetric(nodes)
      /\ TopMetric(nodes) \in Nat /\ TopMetric(nodes) >= nodes[1].metric
  BY <1>1, BestOfProper, MetricBound DEF Typed, ManagerTyped
<1>3. Good(nodes) # {}
  BY <1>1 DEF Proper
<1>4. peak \in Nat /\ nodes[1].metric = peak
  BY DEF Fit, Typed, ManagerTyped
<1>5. Max({peak, TopMetric(nodes)}) = TopMetric(nodes)
  BY <1>2, <1>4, MaxOfTwo
<1> QED BY <1>2, <1>3, <1>5 DEF BestImplementation

LEMMA PrepareHanded ==
    ASSUME Typed, Handed, Prepare
    PROVE  Handed'
<1>1. /\ UNCHANGED <<stage, stash, carried, peak, blame>>
      /\ \/ at = "start" /\ at' = "iterate" /\ UNCHANGED <<live, nodes, skippable, skipAsked>>
         \/ /\ at \in {"begin", "next"} /\ nodes' = <<Inherited>> /\ at' = "iterate"
            /\ UNCHANGED <<live, skippable, skipAsked>>
         \/ /\ at \in {"begin", "next"} /\ live' = FALSE /\ at' = "leave"
            /\ UNCHANGED nodes
  BY DEF Prepare
<1>2. First'
  <2> SUFFICES ASSUME stage = 1
               PROVE  First'
    BY <1>1 DEF First
  <2>1. at = "start" /\ at' = "iterate" /\ UNCHANGED <<live, nodes, skippable, skipAsked>>
    BY <1>1 DEF Handed, First, Running
  <2> QED BY <1>1, <2>1 DEF Handed, First, Running, Clean
<1>3. Later'
  <2> SUFFICES ASSUME stage > 1, Clean
               PROVE  Later'
    BY <1>1 DEF Later, Clean
  <2>1. CASE at = "start"
    BY <2>1 DEF Handed, Later
  <2>2. CASE nodes' = <<Inherited>> /\ at' = "iterate" /\ at \in {"begin", "next"}
    <3>1. Fit(Inherited)
      BY <2>2 DEF Handed, Later, Inherited
    <3>2. 1 \in DOMAIN nodes' /\ nodes'[1] = Inherited
      BY <2>2
    <3> QED BY <1>1, <2>2, <3>1, <3>2 DEF Later, Fit
  <2>3. CASE live' = FALSE /\ at' = "leave"
    BY <2>3 DEF Later, AtWork
  <2> QED BY <1>1, <2>1, <2>2, <2>3
<1> QED BY <1>2, <1>3 DEF Handed

LEMMA IterateHanded ==
    ASSUME Typed, Handed, Iterate
    PROVE  Handed'
<1>1. /\ at = "iterate" /\ UNCHANGED <<stage, live, nodes, stash, carried, peak, blame>>
      /\ skippable' \in MaySkip(nodes) /\ skipAsked' = FALSE
      /\ \/ skipAsked /\ at' = "skipped"
         \/ at' = "step"
  BY DEF Iterate
<1>2. skippable' => Good(nodes) # {}
  BY <1>1 DEF MaySkip
<1>3. First'
  <2> SUFFICES ASSUME stage = 1
               PROVE  First'
    BY <1>1 DEF First
  <2>1. peak' = 0 /\ stash' = NoNode /\ \A i \in DOMAIN nodes' : ~nodes'[i].seed
    BY <1>1 DEF Handed, First, Running
  <2>2. Good(nodes') = Good(nodes)
    BY <1>1
  <2>3. Clean' /\ at' = "skipped" => Good(nodes') # {}
    BY <1>1, <2>2 DEF Handed, First, Running, Clean
  <2> QED BY <1>1, <1>2, <2>1, <2>2, <2>3 DEF First
<1>4. Later'
  BY <1>1 DEF Handed, Later, AtWork, Fit, Clean
<1> QED BY <1>3, <1>4 DEF Handed

LEMMA StepEndsHanded ==
    ASSUME Typed, Handed, StepEnds
    PROVE  Handed'
<1>1. /\ at = "step" /\ at' = "judge"
      /\ UNCHANGED <<stage, live, stash, carried, skippable, skipAsked, peak, blame>>
      /\ nodes' = nodes \/ \E r \in Results(FALSE) : nodes' = Append(nodes, r)
  BY DEF StepEnds
<1>2. \A r \in Results(FALSE) : r \in Nodes /\ ~r.seed
  BY ResultsTyped, MetricBound DEF Typed, ManagerTyped
<1>3. /\ Good(nodes) \subseteq Good(nodes')
      /\ 1 \in DOMAIN nodes => 1 \in DOMAIN nodes' /\ nodes'[1] = nodes[1]
      /\ (\A i \in DOMAIN nodes : ~nodes[i].seed) => \A i \in DOMAIN nodes' : ~nodes'[i].seed
  <2>1. CASE nodes' = nodes
    BY <2>1
  <2>2. CASE \E r \in Results(FALSE) : nodes' = Append(nodes, r)
    BY <1>2, <2>2, GoodAppend DEF Typed, ManagerTyped
  <2> QED BY <1>1, <2>1, <2>2
<1>4. First'
  BY <1>1, <1>3 DEF Handed, First, Running, Clean
<1>5. Later'
  BY <1>1, <1>3 DEF Handed, Later, AtWork, Fit, Clean
<1> QED BY <1>4, <1>5 DEF Handed

LEMMA StepCrashesHanded ==
    ASSUME Typed, Handed, StepCrashes
    PROVE  Handed'
<1>1. /\ at = "step" /\ at' = "judge"
      /\ UNCHANGED <<stage, live, stash, carried, skippable, skipAsked, peak>>
  BY DEF StepCrashes
<1>2. CASE UNCHANGED <<nodes, blame>>
  <2>1. First'
    BY <1>1, <1>2 DEF Handed, First, Running, Clean
  <2>2. Later'
    BY <1>1, <1>2 DEF Handed, Later, AtWork, Fit, Clean
  <2> QED BY <2>1, <2>2 DEF Handed
<1>3. CASE Parents # {} /\ "flagged" \in blame'
  <2>1. stage = 3 /\ ~Clean'
    BY <1>3, ParentsTyped DEF Clean, Typed, ManagerTyped
  <2> QED BY <1>1, <2>1 DEF Handed, First, Later
<1>4. UNCHANGED <<nodes, blame>> \/ (Parents # {} /\ "flagged" \in blame')
  BY DEF StepCrashes
<1> QED BY <1>2, <1>3, <1>4

LEMMA StepSkippedHanded ==
    ASSUME Typed, Handed, StepSkipped
    PROVE  Handed'
<1>1. /\ at = "step" /\ skipAsked /\ at' = "skipped"
      /\ UNCHANGED <<stage, live, nodes, stash, carried, skippable, skipAsked, peak, blame>>
  BY DEF StepSkipped
<1>2. First'
  BY <1>1 DEF Handed, First, Running, Clean
<1>3. Later'
  BY <1>1 DEF Handed, Later, AtWork, Fit, Clean
<1> QED BY <1>2, <1>3 DEF Handed

LEMMA JudgeHanded ==
    ASSUME Typed, Handed, Judge
    PROVE  Handed'
<1>1. at = "judge" /\ UNCHANGED <<stage, carried>> /\ (Clean' <=> Clean)
  BY DEF Judge, Clean
<1>2. PICK sub \in SubstageComplete, main \in StageComplete :
         \/ /\ main /\ at' = "seeds" /\ live' = StaysLive
            /\ skippable' = FALSE /\ skipAsked' = FALSE
            /\ UNCHANGED <<nodes, stash, peak>>
         \/ /\ ~main /\ sub /\ at' = "begin"
            /\ stash' = BestImplementation(nodes, stash)
            /\ peak' = Max({peak, TopMetric(nodes)})
         \/ /\ ~main /\ ~sub /\ at' = "iterate"
            /\ UNCHANGED <<nodes, stash, live, skippable, skipAsked, peak>>
  BY DEF Judge
<1>3. First'
  <2> SUFFICES ASSUME stage = 1
               PROVE  First'
    BY <1>1 DEF First
  <2>0. /\ peak = 0 /\ stash = NoNode /\ \A i \in DOMAIN nodes : ~nodes[i].seed
        /\ Clean /\ (skippable \/ skipAsked) => Good(nodes) # {}
    BY <1>1 DEF Handed, First, Running
  <2>1. CASE main /\ at' = "seeds" /\ live' = StaysLive /\ UNCHANGED <<nodes, stash, peak>>
    <3>1. live' => ~AtLimit
      BY <2>1 DEF StaysLive
    <3>2. ~AtLimit => Good(nodes) # {}
      BY <2>1 DEF StageComplete
    <3>3. live' => Proper(nodes) # {}
      BY <2>0, <3>1, <3>2 DEF Proper, Good
    <3> QED BY <1>1, <2>0, <2>1, <3>3 DEF First
  <2>2. CASE ~main /\ sub
    <3>1. ~AtLimit
      BY <2>2 DEF StageComplete
    <3>2. Good(nodes) = {}
      <4> DEFINE some == Good(nodes) # {}
      <4>1. StageComplete = CASE stage = 1 -> {some}
                              [] stage = 2 -> IF Good(nodes) \ {1} = {} THEN {FALSE} ELSE BOOLEAN
                              [] OTHER -> {FALSE}
        BY <3>1, Zenon DEF StageComplete
      <4>2. some \in BOOLEAN
        OBVIOUS
      <4>3. some = FALSE => Good(nodes) = {}
        OBVIOUS
      <4> HIDE DEF some
      <4>4. StageComplete = {some}
        BY <4>1, <4>2
      <4>5. some = FALSE
        BY <2>2, <4>4, <4>2
      <4> QED BY <4>3, <4>5
    <3>3. ~sub
      BY <3>1, <3>2 DEF SubstageComplete
    <3> QED BY <2>2, <3>3
  <2>3. CASE at' = "iterate" /\ UNCHANGED <<nodes, stash, live, skippable, skipAsked, peak>>
    BY <1>1, <2>0, <2>3 DEF First
  <2> QED BY <1>2, <2>1, <2>2, <2>3
<1>4. Later'
  <2> SUFFICES ASSUME stage > 1, Clean
               PROVE  Later'
    BY <1>1 DEF Later
  <2>0. 1 \in DOMAIN nodes /\ Fit(nodes[1])
    BY <1>1 DEF Handed, Later, AtWork
  <2>1. CASE at' \in {"seeds", "iterate"} /\ UNCHANGED <<nodes, peak>>
    BY <2>0, <2>1 DEF Later, Fit
  <2>2. CASE /\ at' = "begin" /\ stash' = BestImplementation(nodes, stash)
             /\ peak' = Max({peak, TopMetric(nodes)})
    <3>1. Fit(stash)'
      BY <2>0, <2>2, BestOfFit DEF Fit
    <3> QED BY <2>2, <3>1 DEF Later, AtWork
  <2> QED BY <1>2, <2>1, <2>2
<1> QED BY <1>3, <1>4 DEF Handed

LEMMA SkipStageHanded ==
    ASSUME Typed, Handed, SkipStage
    PROVE  Handed'
<1>1. /\ at = "skipped" /\ at' = "seeds"
      /\ UNCHANGED <<stage, live, nodes, stash, carried, peak, blame>>
  BY DEF SkipStage
<1>2. First'
  <2>1. (\A i \in DOMAIN nodes : ~nodes[i].seed) /\ Good(nodes) # {} => Proper(nodes) # {}
    BY DEF Proper, Good
  <2> QED BY <1>1, <2>1 DEF Handed, First, Running, Clean
<1>3. Later'
  BY <1>1 DEF Handed, Later, AtWork, Fit, Clean
<1> QED BY <1>2, <1>3 DEF Handed

LEMMA SeedsHanded ==
    ASSUME Typed, Handed, Seeds
    PROVE  Handed'
<1>1. /\ at = "seeds" /\ at' = "leave"
      /\ UNCHANGED <<stage, live, stash, carried, peak, blame>>
      /\ nodes' = nodes \/ \E r \in Results(TRUE) : nodes' = Append(nodes, r)
  BY DEF Seeds
<1>2. \A r \in Results(TRUE) : r \in Nodes
  BY ResultsTyped, MetricBound DEF Typed, ManagerTyped
<1>3. /\ Proper(nodes) \subseteq Proper(nodes')
      /\ 1 \in DOMAIN nodes => 1 \in DOMAIN nodes' /\ nodes'[1] = nodes[1]
  <2>1. CASE nodes' = nodes
    BY <2>1
  <2>2. CASE \E r \in Results(TRUE) : nodes' = Append(nodes, r)
    BY <1>2, <2>2, GoodAppend DEF Typed, ManagerTyped
  <2> QED BY <1>1, <2>1, <2>2
<1>4. First'
  BY <1>1, <1>3 DEF Handed, First, Running, Clean
<1>5. Later'
  BY <1>1, <1>3 DEF Handed, Later, AtWork, Fit, Clean
<1> QED BY <1>4, <1>5 DEF Handed

LEMMA LeaveHanded ==
    ASSUME Typed, Handed, Leave
    PROVE  Handed'
<1>1. /\ at = "leave" /\ live /\ at' = "next" /\ stage' = stage + 1
      /\ carried' = BestImplementation(nodes, stash)
      /\ peak' = Max({peak, TopMetric(nodes)}) /\ blame' = blame
      /\ stage \in Nat /\ stage >= 1
  BY DEF Leave, Typed, ManagerTyped, Stages
<1>2. First'
  BY <1>1 DEF First
<1>3. Later'
  <2> SUFFICES ASSUME Clean
               PROVE  Fit(carried)'
    BY <1>1 DEF Later, AtWork, Clean
  <2>1. CASE stage = 1
    <3>1. Proper(nodes) # {} /\ peak = 0
      BY <1>1, <2>1 DEF Handed, First, Running
    <3>2. /\ MetricBest(nodes).good /\ ~MetricBest(nodes).seed
          /\ MetricBest(nodes).metric = TopMetric(nodes) /\ TopMetric(nodes) \in Nat
      BY <3>1, BestOfProper, MetricBound DEF Typed, ManagerTyped
    <3>3. peak' = TopMetric(nodes)
      BY <1>1, <3>1, <3>2, MaxOfTwo
    <3>4. carried' = MetricBest(nodes)
      BY <1>1, <3>1 DEF BestImplementation, Proper
    <3> QED BY <3>2, <3>3, <3>4 DEF Fit
  <2>2. CASE stage > 1
    <3>1. 1 \in DOMAIN nodes /\ Fit(nodes[1])
      BY <1>1, <2>2 DEF Handed, Later, AtWork
    <3> QED BY <1>1, <3>1, BestOfFit DEF Fit
  <2> QED BY <1>1, <2>1, <2>2
<1> QED BY <1>2, <1>3 DEF Handed

LEMMA StepHanded ==
    ASSUME Typed, Handed, [Next]_vars
    PROVE  Handed'
<1>1. CASE UNCHANGED vars
  BY <1>1 DEF Handed, First, Later, AtWork, Fit, Clean
<1>2. CASE AskSkip
  <2>1. /\ skippable /\ at \in {"begin", "iterate", "step"}
        /\ UNCHANGED <<stage, live, nodes, stash, carried, skippable, peak, at, blame>>
    BY <1>2, AskFacts
  <2>2. First'
    BY <2>1 DEF Handed, First, Running, Clean
  <2>3. Later'
    BY <2>1 DEF Handed, Later, AtWork, Fit, Clean
  <2> QED BY <2>2, <2>3 DEF Handed
<1>3. CASE LeaveLast
  <2>1. /\ at' = "summarise" /\ live' = FALSE
        /\ UNCHANGED <<stage, stash, peak>> /\ at = "leave"
    BY <1>3 DEF LeaveLast
  <2> QED BY <2>1 DEF Handed, First, Later, AtWork, Running
<1>4. CASE Manager /\ ~LeaveLast
  <2>1. CASE Summarise
    BY <2>1, WritingHanded DEF Summarise, Writing
  <2> QED BY <1>4, <2>1, PrepareHanded, IterateHanded, StepEndsHanded, StepCrashesHanded,
             StepSkippedHanded, JudgeHanded, SkipStageHanded, SeedsHanded, LeaveHanded DEF Manager
<1>5. CASE Launcher \/ Breaks \/ Kill \/ Resume \/ ResumeFails
  BY <1>5, WritingHanded, LauncherStepTyped, RelaunchFacts, KillFacts
<1> QED BY <1>1, <1>2, <1>3, <1>4, <1>5 DEF Next

LEMMA AlwaysHanded == Spec => []Handed
<1>1. Typed /\ Handed /\ [Next]_vars => Handed'
  BY StepHanded
<1> QED BY <1>1, InitHanded, AlwaysTyped, PTL DEF Spec

(* Neither the step to a sub-stage, nor the seeds, nor a skip loses the     *)
(* best node (agent_manager.py, for journals of any length).                *)
THEOREM BestNodeIsKept == Spec => []BestIsKept
<1>1. Typed /\ Handed => BestIsKept
  BY DEF Handed, Later, AtWork, Clean, Fit, BestIsKept
<1> QED BY <1>1, AlwaysTyped, AlwaysHanded, PTL

(* A stage that is skipped has a working node: what was published when the  *)
(* user asked still holds when the agent takes the skip up.                 *)
THEOREM SkipsHaveANode == Spec => []SkippedStagesWork
<1>1. Typed /\ Handed => SkippedStagesWork
  <2> SUFFICES ASSUME Typed, Handed, at = "skipped", Clean
               PROVE  Good(nodes) # {}
    BY DEF SkippedStagesWork, Clean
  <2>1. CASE stage = 1
    BY <2>1 DEF Handed, First, Running
  <2>2. CASE stage > 1
    BY <2>2 DEF Handed, Later, AtWork, Fit, Good
  <2> QED BY <2>1, <2>2 DEF Typed, ManagerTyped, Stages
<1> QED BY <1>1, AlwaysTyped, AlwaysHanded, PTL

-----------------------------------------------------------------------------
(* How far an experiment has come, and what is told and kept of it.         *)

Spoiled == "limit" \in blame \/ ~Clean

\* While the manager works nothing but a first stage at its limit or a flagged node
\* ends the experiment, or keeps a main stage from ending well.
Progress == at \in Running =>
    /\ budget.resumes = 0 /\ "summaries" \notin disk.files
    /\ live \/ at \in {"seeds", "leave", "summarise"}
    /\ at = "summarise" => ~live
    /\ ok /\ live => \A s \in Stages : s < stage => s \in completed
    /\ ok /\ live /\ at = "leave" => stage \in completed
    /\ ~ok => Spoiled
    /\ ok /\ ~live => "limit" \in blame \/ (at = "summarise" /\ completed = Stages)
    /\ ~live => Spoiled \/ (at = "summarise" /\ completed = Stages)

Failed ==
    "raised" \in blame \/ (budget.resumes = 0 /\ blame \cap {"limit", "flagged"} # {})

Excused ==
    \/ completed = Stages \/ "limit" \in blame
    \/ budget.resumes > 0 /\ blame \cap {"exit", "unfinished", "flagged"} # {}

Outcome ==
    /\ "summaries" \in disk.files => completed = Stages \/ Spoiled
    /\ ~ok => Failed
    /\ at \in Writing /\ (report = "success" \/ (at # "ended" /\ ok)) => Excused
    /\ report = "failure" => Failed
    /\ report # "none" => at = "ended"

\* What a step of the manager leaves alone.
LEMMA ManagerFrame ==
    ASSUME Typed, Manager
    PROVE  /\ at \in Running /\ UNCHANGED <<report, paper>> /\ blame \subseteq blame'
           /\ budget'.resumes = budget.resumes /\ disk'.pdfs = disk.pdfs
           /\ Summarise \/ (at' \in Running /\ disk'.files = disk.files)
<1> USE DEF Typed, ManagerTyped, LaunchTyped
<1>1. CASE Prepare
  BY <1>1 DEF Prepare, Running
<1>2. CASE Iterate
  BY <1>2 DEF Iterate, Running
<1>3. CASE StepEnds
  BY <1>3, DiskFacts DEF StepEnds, Running
<1>4. CASE StepCrashes
  BY <1>4, DiskFacts, BudgetFacts DEF StepCrashes, Running
<1>5. CASE StepSkipped
  BY <1>5 DEF StepSkipped, Running
<1>6. CASE Judge
  BY <1>6 DEF Judge, Running
<1>7. CASE SkipStage
  BY <1>7 DEF SkipStage, Running
<1>8. CASE Seeds
  <2>1. disk' = disk \/ disk' = Saved(disk, stage)
    BY <1>8 DEF Seeds
  <2>2. disk'.pdfs = disk.pdfs /\ disk'.files = disk.files
    BY <2>1, DiskFacts
  <2> QED BY <1>8, <2>2 DEF Seeds, Running
<1>9. CASE Leave
  BY <1>9 DEF Leave, Running
<1>10. CASE LeaveLast
  BY <1>10 DEF LeaveLast, Running
<1>11. CASE Summarise
  BY <1>11, DiskFacts DEF Summarise, Running, Files
<1> QED BY <1>1, <1>2, <1>3, <1>4, <1>5, <1>6, <1>7, <1>8, <1>9, <1>10, <1>11 DEF Manager

\* A step of the launcher fails the run only where something has raised.
LEMMA LauncherFrame ==
    ASSUME Typed, Launcher \/ Breaks
    PROVE  /\ at # "ended" /\ blame \subseteq blame' /\ budget'.resumes = budget.resumes
           /\ "summaries" \in disk'.files <=> "summaries" \in disk.files
           /\ \/ ok' = ok /\ at \in Writing /\ at' # "ended" /\ report' = report
              \/ ok' = ok /\ at = "finish" /\ at' = "ended"
                 /\ report' = IF ok THEN "success" ELSE "failure"
              \/ ok' = FALSE /\ "raised" \in blame' /\ at' = "finish" /\ report' = report
<1> USE DEF Typed, LaunchTyped
<1>1. CASE CopyIdea
  BY <1>1, DiskFacts DEF CopyIdea, Files, Writing
<1>2. CASE Aggregate
  <2>1. disk' = disk \/ disk' = With(disk, "figures")
    BY <1>2 DEF Aggregate
  <2> QED BY <1>2, <2>1, DiskFacts DEF Aggregate, Files, Writing
<1>3. CASE AggregationFails
  BY <1>3 DEF AggregationFails, Writing
<1>4. CASE KeepPaper
  BY <1>4 DEF KeepPaper, Writing
<1>5. CASE BeginAttempt
  BY <1>5 DEF BeginAttempt, Writing
<1>6. CASE Draft
  <2>1. disk'.files = disk.files /\ at' # "ended"
    BY <1>6, DraftFacts
  <2> QED BY <1>6, <2>1 DEF Draft, Writing
<1>7. CASE Refine
  <2>1. disk'.files = disk.files
    BY <1>7, RefineFacts
  <2> QED BY <1>7, <2>1 DEF Refine, Writing
<1>8. CASE Accept
  BY <1>8 DEF Accept, Writing
<1>9. CASE GiveUp
  BY <1>9 DEF GiveUp, Fails
<1>10. CASE Review
  <2>1. disk' = disk \/ disk' = With(disk, "review")
    BY <1>10 DEF Review
  <2> QED BY <1>10, <2>1, DiskFacts DEF Review, Files, Writing
<1>11. CASE Upload
  BY <1>11 DEF Upload, Writing
<1>12. CASE Finish
  BY <1>12 DEF Finish
<1>13. CASE CallFails
  BY <1>13, BudgetFacts DEF CallFails, Fails
<1>14. CASE AttemptFails
  BY <1>14, BudgetFacts DEF AttemptFails, Writing
<1> QED BY <1>1, <1>2, <1>3, <1>4, <1>5, <1>6, <1>7, <1>8, <1>9, <1>10, <1>11, <1>12, <1>13, <1>14
        DEF Launcher, Breaks, PaperStep

LEMMA SeatsDisjoint == \A p \in Writing : p \notin Running
BY DEF Writing, Running

\* The best node is missing only after a flag, or where the experiment ended.
LEMMA BestExists ==
    ASSUME Typed, Handed, Progress, Clean
    PROVE  /\ at \in {"begin", "next"} => Inherited # NoNode
           /\ at = "seeds" /\ live => BestImplementation(nodes, stash) # NoNode
<1> USE DEF Typed, ManagerTyped
<1>1. \A n \in Nodes : n.good => n # NoNode
  BY DEF NoNode
<1>2. ASSUME at \in {"begin", "next"}
      PROVE  Inherited # NoNode
  <2>1. stage > 1
    BY <1>2 DEF Handed, First, Running, Stages
  <2> QED BY <1>1, <1>2, <2>1 DEF Handed, Later, Fit, Inherited
<1>3. ASSUME at = "seeds", live
      PROVE  BestImplementation(nodes, stash) # NoNode
  <2>1. CASE stage = 1
    <3>1. Proper(nodes) # {}
      BY <1>3, <2>1 DEF Handed, First, Running
    <3>2. Good(nodes) # {}
      BY <3>1 DEF Proper
    <3> QED BY <1>1, <3>2, BestTyped, MetricBound
  <2>2. CASE stage > 1
    <3>1. Good(nodes) # {}
      BY <1>3, <2>2 DEF Handed, Later, AtWork, Fit, Good
    <3> QED BY <1>1, <3>1, BestTyped, MetricBound
  <2> QED BY <2>1, <2>2 DEF Stages
<1> QED BY <1>2, <1>3

LEMMA ManagerProgress ==
    ASSUME Typed, Handed, Progress, Manager
    PROVE  Progress'
<1> USE DEF Typed, ManagerTyped
<1>1. /\ at \in Running /\ blame \subseteq blame' /\ budget'.resumes = 0
      /\ at' \in Running => "summaries" \notin disk'.files
      /\ Spoiled => Spoiled'
  BY ManagerFrame DEF Progress, Spoiled, Clean, Summarise, Running
<1>2. /\ live \/ at \in {"seeds", "leave", "summarise"}
      /\ ok /\ live => \A s \in Stages : s < stage => s \in completed
      /\ ok /\ live /\ at = "leave" => stage \in completed
      /\ ~ok => Spoiled
      /\ ok /\ ~live => "limit" \in blame \/ (at = "summarise" /\ completed = Stages)
      /\ ~live => Spoiled \/ (at = "summarise" /\ completed = Stages)
  BY <1>1 DEF Progress
<1>3. CASE Summarise
  BY <1>3, SeatsDisjoint DEF Summarise, Progress, Running
<1>4. CASE Prepare
  <2>1. CASE at' = "leave" /\ live' = FALSE /\ ok' = FALSE /\ Spoiled
    BY <1>1, <1>4, <2>1 DEF Progress
  <2>2. CASE at' = "iterate" /\ UNCHANGED <<live, ok>>
    <3>1. UNCHANGED <<stage, completed>> /\ live
      BY <1>2, <1>4 DEF Prepare
    <3> QED BY <1>1, <1>2, <2>2, <3>1 DEF Progress
  <2> QED BY <1>4, <2>1, <2>2, BestExists DEF Prepare, Spoiled
<1>5. CASE /\ at' \in {"judge", "step", "skipped", "iterate", "begin", "next"}
           /\ live /\ UNCHANGED <<stage, live, completed, ok>>
  BY <1>1, <1>2, <1>5 DEF Progress
<1>6. CASE Judge
  <2>1. UNCHANGED <<stage, completed, ok>> /\ at = "judge" /\ live
    BY <1>2, <1>6 DEF Judge
  <2>2. CASE /\ at' = "seeds" /\ live' = StaysLive
             /\ blame' = IF StaysLive THEN blame ELSE blame \cup {"limit"}
    <3>1. ~live' => "limit" \in blame'
      BY <2>2
    <3> QED BY <1>1, <1>2, <2>1, <2>2, <3>1 DEF Progress, Spoiled
  <2>3. CASE at' \in {"begin", "iterate"} /\ UNCHANGED live
    BY <1>5, <2>1, <2>3
  <2> QED BY <1>6, <2>2, <2>3 DEF Judge
<1>7. CASE SkipStage
  <2>1. at = "skipped" /\ at' = "seeds" /\ live /\ UNCHANGED <<stage, live, completed, ok>>
    BY <1>2, <1>7 DEF SkipStage
  <2> QED BY <1>1, <1>2, <2>1 DEF Progress
<1>8. CASE Seeds
  <2>1. at = "seeds" /\ at' = "leave" /\ UNCHANGED <<stage, live, blame>>
    BY <1>8 DEF Seeds
  <2>2. ~live => Spoiled
    BY <1>2, <2>1
  <2>3. CASE ok' = FALSE /\ UNCHANGED completed /\ BestImplementation(nodes, stash) = NoNode
    <3>1. Spoiled
      BY <2>1, <2>2, <2>3, BestExists DEF Spoiled
    <3> QED BY <1>1, <2>1, <2>3, <3>1 DEF Progress
  <2>4. CASE completed' = completed \cup {stage} /\ UNCHANGED ok
    BY <1>1, <1>2, <2>1, <2>4 DEF Progress
  <2> QED BY <1>8, <2>3, <2>4 DEF Seeds
<1>9. CASE Leave
  <2>1. /\ at = "leave" /\ at' = "next" /\ live /\ stage' = stage + 1
        /\ UNCHANGED <<live, completed, ok>>
    BY <1>9 DEF Leave
  <2>2. ok /\ live => \A s \in Stages : s < stage' => s \in completed
    BY <1>2, <2>1 DEF Stages
  <2> QED BY <1>1, <1>2, <2>1, <2>2 DEF Progress
<1>10. CASE LeaveLast
  <2>1. /\ at = "leave" /\ at' = "summarise" /\ live' = FALSE
        /\ live => stage = 4
        /\ UNCHANGED <<completed, ok, blame>>
    BY <1>10 DEF LeaveLast
  <2>2. ok /\ live => \A s \in Stages : s \in completed
    BY <1>2, <2>1 DEF Stages
  <2>3. ok /\ live => completed = Stages
    BY <2>2
  <2> QED BY <1>1, <1>2, <2>1, <2>3 DEF Progress
<1>11. CASE Iterate \/ StepEnds \/ StepCrashes \/ StepSkipped
  <2>1. /\ at' \in {"judge", "step", "skipped"} /\ UNCHANGED <<stage, live, completed, ok>>
        /\ at \in {"iterate", "step"}
    BY <1>11 DEF Iterate, StepEnds, StepCrashes, StepSkipped
  <2> QED BY <1>2, <1>5, <2>1
<1> QED BY <1>3, <1>4, <1>6, <1>7, <1>8, <1>9, <1>10, <1>11 DEF Manager

LEMMA ProgressStep ==
    ASSUME Typed, Handed, Progress, [Next]_vars
    PROVE  Progress'
<1>1. CASE UNCHANGED vars
  BY <1>1 DEF Progress, Spoiled, Clean
<1>2. CASE AskSkip
  BY <1>2, AskFacts DEF Progress, Spoiled, Clean
<1>3. CASE Manager
  BY <1>3, ManagerProgress
<1>4. CASE Launcher \/ Breaks \/ Kill \/ Resume \/ ResumeFails
  <2>1. at' \notin Running
    BY <1>4, LauncherStepTyped, KillFacts, RelaunchFacts, SeatsDisjoint
  <2> QED BY <2>1 DEF Progress
<1> QED BY <1>1, <1>2, <1>3, <1>4 DEF Next

LEMMA AlwaysProgress == Spec => []Progress
<1>1. Init => Progress
  BY DEF Init, PaperInit, Progress, Spoiled, Clean, Stages
<1>2. Typed /\ Handed /\ Progress /\ [Next]_vars => Progress'
  BY ProgressStep
<1> QED BY <1>1, <1>2, AlwaysTyped, AlwaysHanded, PTL DEF Spec

\* A history of failure stays one within a launch, and an excuse does for good.
LEMMA CausesStay ==
    ASSUME blame \subseteq blame', budget'.resumes = budget.resumes
    PROVE  /\ Failed => Failed'
           /\ UNCHANGED completed /\ Excused => Excused'
           /\ Spoiled => Spoiled'
BY DEF Failed, Excused, Spoiled, Clean

LEMMA RelaunchOutcome ==
    ASSUME Typed, Outcome, Resume \/ ResumeFails
    PROVE  Outcome'
<1>1. /\ at' \in Writing /\ budget'.resumes > 0 /\ ok' = TRUE /\ report' = "none"
      /\ UNCHANGED <<disk, completed>>
  BY RelaunchFacts
<1>2. Spoiled => Spoiled'
  BY DEF Resume, ResumeFails, Spoiled, Clean, Lasting
<1>3. Excused'
  <2>1. CASE ResumeFails
    BY <1>1, <2>1 DEF ResumeFails, Excused
  <2>2. CASE Resume /\ "summaries" \in disk.files
    <3>1. completed = Stages \/ Spoiled
      BY <2>2 DEF Outcome
    <3>2. blame' = Lasting
      BY <2>2 DEF Resume
    <3> QED BY <1>1, <3>1, <3>2 DEF Excused, Spoiled, Clean, Lasting
  <2>3. CASE Resume /\ "summaries" \notin disk.files
    BY <1>1, <2>3 DEF Resume, Excused
  <2> QED BY <2>1, <2>2, <2>3
<1> QED BY <1>1, <1>2, <1>3 DEF Outcome

LEMMA OutcomeStep ==
    ASSUME Typed, Handed, Progress, Outcome, [Next]_vars
    PROVE  Outcome'
<1>1. CASE UNCHANGED vars
  BY <1>1 DEF Outcome, Excused, Failed, Spoiled, Clean
<1>2. CASE AskSkip
  BY <1>2, AskFacts DEF Outcome, Excused, Failed, Spoiled, Clean
<1>3. CASE Manager
  <2>1. /\ at \in Running /\ UNCHANGED report /\ blame \subseteq blame'
        /\ budget'.resumes = budget.resumes /\ budget.resumes = 0
        /\ Summarise \/ (at' \in Running /\ disk'.files = disk.files)
        /\ "summaries" \notin disk.files
    BY <1>3, ManagerFrame DEF Progress
  <2>2. report' = "none"
    BY <2>1 DEF Outcome, Typed, LaunchTyped, Running
  <2>3. CASE Summarise
    <3>1. /\ UNCHANGED <<ok, completed, blame, budget>> /\ at = "summarise" /\ ~live
      BY <2>1, <2>3 DEF Summarise, Progress
    <3>2. /\ completed = Stages \/ Spoiled
          /\ ok => completed = Stages \/ "limit" \in blame
          /\ ~ok => Failed
      BY <2>1, <3>1 DEF Progress, Outcome
    <3> QED BY <2>1, <2>2, <3>1, <3>2 DEF Outcome, Excused, Failed, Spoiled, Clean
  <2>4. CASE at' \in Running /\ disk'.files = disk.files
    <3>1. ~ok' => Spoiled'
      BY <1>3, <2>4, ManagerProgress DEF Progress
    <3>2. ~ok' => Failed'
      BY <2>1, <3>1 DEF Failed, Spoiled, Clean
    <3> QED BY <2>1, <2>2, <2>4, <3>2, SeatsDisjoint DEF Outcome
  <2> QED BY <2>1, <2>3, <2>4
<1>4. CASE Launcher \/ Breaks
  <2>1. UNCHANGED completed
    BY <1>4 DEF Launcher, Breaks
  <2>2. /\ Failed => Failed'
        /\ Excused => Excused'
        /\ Spoiled => Spoiled'
    BY <1>4, <2>1, LauncherFrame, CausesStay
  <2>3. report = "none"
    BY <1>4, LauncherFrame DEF Outcome, Typed, LaunchTyped
  <2>4. at # "ended" /\ ("summaries" \in disk'.files <=> "summaries" \in disk.files)
    BY <1>4, LauncherFrame
  <2>5. CASE ok' = ok /\ at \in Writing /\ at' # "ended" /\ report' = report
    BY <2>1, <2>2, <2>3, <2>4, <2>5 DEF Outcome
  <2>6. CASE /\ ok' = ok /\ at = "finish" /\ at' = "ended"
             /\ report' = IF ok THEN "success" ELSE "failure"
    BY <2>1, <2>2, <2>3, <2>4, <2>6 DEF Outcome, Writing
  <2>7. CASE ok' = FALSE /\ "raised" \in blame' /\ at' = "finish" /\ report' = report
    BY <2>1, <2>2, <2>3, <2>4, <2>7 DEF Outcome, Failed
  <2> QED BY <1>4, <2>5, <2>6, <2>7, LauncherFrame
<1>5. CASE Kill
  <2>1. /\ at' = "ended" /\ report' = "none" /\ budget'.resumes = budget.resumes
        /\ UNCHANGED <<completed, ok, disk, blame>>
    BY <1>5, KillFacts
  <2> QED BY <2>1, CausesStay DEF Outcome
<1>6. CASE Resume \/ ResumeFails
  BY <1>6, RelaunchOutcome
<1> QED BY <1>1, <1>2, <1>3, <1>4, <1>5, <1>6 DEF Next

LEMMA AlwaysOutcome == Spec => []Outcome
<1>1. Init => Outcome
  BY DEF Init, PaperInit, Outcome, Writing
<1>2. Typed /\ Handed /\ Progress /\ Outcome /\ [Next]_vars => Outcome'
  BY OutcomeStep
<1> QED BY <1>1, <1>2, AlwaysTyped, AlwaysHanded, AlwaysProgress, PTL DEF Spec

(* What the server is told of a run is what happened to it, whatever was    *)
(* killed, resumed, skipped or has crashed (launch_scientist_bfts.py,       *)
(* agent_manager.py).                                                       *)
THEOREM OutcomesHaveACause == Spec => []OutcomeHasACause
<1>1. Typed /\ Outcome => OutcomeHasACause
  BY DEF Outcome, Failed, Excused, Writing, OutcomeHasACause, Typed, LaunchTyped, Budgets
<1> QED BY <1>1, AlwaysTyped, AlwaysOutcome, PTL

-----------------------------------------------------------------------------
(* The paper.                                                               *)

Papered ==
    \/ paper.finished /\ disk.pdfs # {}
    \/ blame \cap {"plots", "exit"} # {}
    \/ "left" \in blame /\ budget.resumes > 0
    \/ "stale" \in blame /\ paper.tries > 1

\* In its first attempt a launch has no PDF, but for those of an earlier launch.
Written ==
    /\ paper.finished => disk.pdfs # {}
    /\ at \in Running \cup {"copy", "plots"} => paper.tries = 0
    /\ budget.resumes = 0 /\ paper.tries = 0 => disk.pdfs = {}
    /\ at \in {"draft", "refine"} => paper.tries > 0
    /\ at = "draft" /\ paper.tries = 1 => disk.pdfs = {}
    /\ at = "refine" => disk.pdfs # {} /\ (paper.tries = 1 => paper.origin = 1)
    /\ at \in {"review", "upload"} => Papered
    /\ at = "finish" /\ ok => Papered
    /\ report = "success" => Papered
    /\ report # "none" => at = "ended"

\* Where nothing of it changes, a step that is no step of the write-up keeps all this.
LEMMA PaperFrame ==
    ASSUME Typed, Written, UNCHANGED <<paper>>, disk'.pdfs = disk.pdfs,
           blame \subseteq blame', budget'.resumes = budget.resumes
    PROVE  /\ paper'.finished => disk'.pdfs # {}
           /\ budget'.resumes = 0 /\ paper'.tries = 0 => disk'.pdfs = {}
           /\ Papered => Papered'
BY DEF Written, Papered

LEMMA LauncherPaper ==
    ASSUME Typed, Written, Launcher \/ Breaks
    PROVE  Written'
<1> USE DEF Typed, LaunchTyped
<1>0. report = "none"
  BY LauncherFrame DEF Written
<1>1. ASSUME UNCHANGED <<paper, report>>, disk'.pdfs = disk.pdfs,
             blame \subseteq blame', budget'.resumes = budget.resumes,
             \/ at = "copy" /\ at' = "plots"
             \/ at' = "write"
             \/ at \in {"review", "upload"} /\ at' \in {"upload", "finish"}
             \/ at' \in {"review", "upload"} /\ Papered'
             \/ at' = "finish" /\ ~ok'
      PROVE  Written'
  BY <1>0, <1>1, PaperFrame DEF Written, Running
<1>2. CASE CopyIdea
  BY <1>1, <1>2, DiskFacts DEF CopyIdea, Files
<1>3. CASE Aggregate
  <2>1. disk' = disk \/ disk' = With(disk, "figures")
    BY <1>3 DEF Aggregate
  <2>2. disk'.pdfs = disk.pdfs
    BY <2>1, DiskFacts DEF Files
  <2> QED BY <1>1, <1>3, <2>2 DEF Aggregate
<1>4. CASE AggregationFails
  <2>1. Papered'
    BY <1>4 DEF AggregationFails, Papered
  <2> QED BY <1>1, <1>4, <2>1 DEF AggregationFails
<1>5. CASE KeepPaper
  <2>1. Papered'
    BY <1>5 DEF KeepPaper, Papered, Written, Budgets
  <2> QED BY <1>1, <1>5, <2>1 DEF KeepPaper
<1>6. CASE BeginAttempt
  <2>1. /\ paper'.tries = paper.tries + 1 /\ paper'.finished = paper.finished
        /\ paper.tries \in Nat
    BY <1>6, BeginFacts DEF Papers
  <2>2. /\ at' = "draft" /\ (paper.tries = 0 => disk.pdfs = {})
        /\ UNCHANGED <<disk, report>>
    BY <1>6 DEF BeginAttempt
  <2> QED BY <1>0, <2>1, <2>2 DEF Written, Running
<1>7. CASE Draft
  <2>1. /\ at = "draft" /\ UNCHANGED <<report, budget>> /\ paper.tries \in Nat
    BY <1>7 DEF Draft, Papers
  <2>2. paper.tries > 0 /\ (paper.tries = 1 => disk.pdfs = {})
        /\ (paper.finished => disk.pdfs # {})
    BY <2>1 DEF Written
  <2>3. /\ paper'.tries = paper.tries /\ paper'.finished = paper.finished
        /\ \/ at' = "refine" /\ paper'.origin = paper.tries /\ disk'.pdfs = disk.pdfs \cup {0}
           \/ at' = "refine" /\ disk.pdfs # {} /\ paper' = paper /\ disk' = disk
           \/ at' = "write" /\ paper' = paper /\ disk' = disk
    BY <1>7, DraftFacts
  <2> QED BY <1>0, <2>1, <2>2, <2>3 DEF Written, Running
<1>8. CASE Refine
  <2>1. at = "refine" /\ at' = "refine" /\ UNCHANGED <<report, budget>> /\ paper.tries \in Nat
    BY <1>8 DEF Refine, Papers
  <2>2. paper.tries > 0 /\ disk.pdfs # {} /\ (paper.tries = 1 => paper.origin = 1)
    BY <2>1 DEF Written
  <2>3. paper'.tries = paper.tries /\ paper'.origin = paper.origin /\ disk.pdfs \subseteq disk'.pdfs
    BY <1>8, RefineFacts
  <2> QED BY <1>0, <2>1, <2>2, <2>3 DEF Written, Running
<1>9. CASE Accept
  <2>1. /\ at = "refine" /\ at' = "review" /\ UNCHANGED <<disk, report, budget>>
        /\ blame' = IF paper.origin = paper.tries THEN blame ELSE blame \cup {"stale"}
        /\ paper.tries \in Nat
    BY <1>9 DEF Accept, Papers
  <2>2. paper.tries > 0 /\ disk.pdfs # {} /\ (paper.tries = 1 => paper.origin = 1)
    BY <2>1 DEF Written
  <2>3. paper'.tries = paper.tries /\ (paper.origin = paper.tries => paper'.finished)
    BY <1>9, AcceptFacts
  <2>4. Papered'
    BY <2>1, <2>2, <2>3 DEF Papered
  <2> QED BY <1>0, <2>1, <2>2, <2>3, <2>4 DEF Written, Running
<1>10. CASE GiveUp
  BY <1>1, <1>10 DEF GiveUp, Fails
<1>11. CASE Review
  <2>1. disk' = disk \/ disk' = With(disk, "review")
    BY <1>11 DEF Review
  <2>2. disk'.pdfs = disk.pdfs
    BY <2>1, DiskFacts DEF Files
  <2> QED BY <1>1, <1>11, <2>2 DEF Review
<1>12. CASE Upload
  BY <1>1, <1>12 DEF Upload
<1>13. CASE Finish
  <2>1. /\ at = "finish" /\ at' = "ended" /\ UNCHANGED <<disk, paper, blame, budget>>
        /\ report' = IF ok THEN "success" ELSE "failure"
    BY <1>13 DEF Finish
  <2>2. (Papered => Papered') /\ (ok => Papered)
    BY <2>1, PaperFrame DEF Written
  <2> QED BY <2>1, <2>2, PaperFrame DEF Written, Running
<1>14. CASE CallFails
  BY <1>1, <1>14, BudgetFacts DEF CallFails, Fails
<1>15. CASE AttemptFails
  BY <1>1, <1>15, BudgetFacts DEF AttemptFails
<1> QED BY <1>2, <1>3, <1>4, <1>5, <1>6, <1>7, <1>8, <1>9, <1>10, <1>11, <1>12, <1>13, <1>14, <1>15
        DEF Launcher, Breaks, PaperStep

LEMMA WrittenStep ==
    ASSUME Typed, Written, [Next]_vars
    PROVE  Written'
<1>1. CASE UNCHANGED vars
  BY <1>1 DEF Written, Papered
<1>2. CASE AskSkip
  BY <1>2, AskFacts DEF Written, Papered
<1>3. CASE Manager
  <2>1. /\ at \in Running /\ UNCHANGED <<report, paper>> /\ disk'.pdfs = disk.pdfs
        /\ budget'.resumes = budget.resumes /\ at' \in Running \cup {"copy"}
    BY <1>3, ManagerFrame DEF Summarise
  <2>2. report = "none" /\ paper.tries = 0
    BY <2>1 DEF Written, Running
  <2> QED BY <2>1, <2>2 DEF Written, Running
<1>4. CASE Launcher \/ Breaks
  BY <1>4, LauncherPaper
<1>5. CASE Kill
  <2>1. /\ at' = "ended" /\ report' = "none" /\ budget'.resumes = budget.resumes
        /\ UNCHANGED <<disk, paper>>
    BY <1>5, KillFacts
  <2> QED BY <2>1 DEF Written, Running
<1>6. CASE Resume \/ ResumeFails
  <2>1. /\ budget'.resumes > 0 /\ report' = "none" /\ paper'.tries = 0
        /\ paper'.finished = paper.finished /\ UNCHANGED <<disk>>
    BY <1>6, RelaunchFacts
  <2>2. at' = "copy" \/ (at' = "finish" /\ Papered')
    BY <1>6 DEF Resume, ResumeFails, Papered
  <2> QED BY <2>1, <2>2 DEF Written, Running
<1> QED BY <1>1, <1>2, <1>3, <1>4, <1>5, <1>6 DEF Next

LEMMA AlwaysWritten == Spec => []Written
<1>1. Init => Written
  BY DEF Init, PaperInit, Written, NoAttempt, Running
<1>2. Typed /\ Written /\ [Next]_vars => Written'
  BY WrittenStep
<1> QED BY <1>1, <1>2, AlwaysTyped, PTL DEF Spec

(* No failure of the write-up gets lost on the way to the report: a success *)
(* has a finished paper or one of the four known reasons to have none       *)
(* (launch_scientist_bfts.py, perform_writeup.py).                          *)
THEOREM PapersAreAccountedFor == Spec => []PapersHaveACause
<1>1. Typed /\ Written => PapersHaveACause
  BY DEF Written, Papered, PapersHaveACause
<1> QED BY <1>1, AlwaysTyped, AlwaysWritten, PTL

=============================================================================
