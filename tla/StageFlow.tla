----------------------------- MODULE StageFlow -----------------------------
(***************************************************************************)
(* The life of one research run inside its pod: the agent manager walks    *)
(* through four main stages and their sub-stages, hands the best node of   *)
(* each to the next, and the launcher turns what they leave on disk into a *)
(* paper and a report to the server.  A process may be killed anywhere and *)
(* the launcher started again with --resume.                               *)
(*                                                                         *)
(* What language models decide (results, completion of a stage, picks) is  *)
(* a free choice.  An iteration runs one execution, as num_workers is 1 in *)
(* every config.                                                           *)
(***************************************************************************)
EXTENDS NodeResults, PaperFlow, Sequences, FiniteSetsExt

CONSTANTS
    MaxIterations,  \* stageN_max_iters: attempts allowed in a main stage
    MaxKills,       \* bound: kills of the process
    MaxResumes      \* bound: launches with --resume

ASSUME ConstantsAssumption ==
    /\ MaxIterations \in Nat \ {0} /\ MaxMetric \in Nat \ {0}
    /\ MaxKills \in Nat /\ MaxResumes \in Nat

Stages == 1..4

NoNode == [good |-> FALSE, metric |-> 0, seed |-> TRUE]

VARIABLES
    stage,       \* number of the current main stage
    live,        \* current_stage is not None
    nodes,       \* the journal of the current sub-stage
    stash,       \* best node found in the stashed journals of the stage
    carried,     \* best node of the previous main stage
    attempts,    \* _attempt_iteration_by_stage of the current stage
    skippable,   \* can_be_skipped, as last published
    skipAsked,   \* a skip request is pending
    completed,   \* history: main stages that ran to their end
    peak         \* history: best metric of the journals left behind

manager == <<stage, live, nodes, stash, carried, attempts, skippable, skipAsked>>
history == <<completed, peak>>
vars == <<manager, history, launch>>

----------------------------------------------------------------------------
(* What process_node can return.                                           *)
Results(seed) == ResultTable[stage][seed]

(* The journal.                                                            *)

Good(js) == {i \in DOMAIN js : js[i].good}

CandidatesWithSeeds(js) == Good(js)

(* Seed nodes are no candidates, unless there is nothing else.             *)
Candidates(js) ==
    LET proper == {i \in Good(js) : ~js[i].seed}
    IN  IF proper # {} THEN proper ELSE Good(js)

MetricBest(js) ==
    LET top == CHOOSE i \in Candidates(js) :
                 \A j \in Candidates(js) :
                    \/ js[i].metric > js[j].metric
                    \/ js[i].metric = js[j].metric /\ i <= j
    IN  js[top]

(* The best node of a stage: of its current journal, else of the stashed   *)
(* ones, from the latest to the oldest.                                    *)
BestImplementation(js, older) ==
    IF Good(js) # {} THEN MetricBest(js) ELSE older

TopMetric(js) == Max({0} \cup {js[i].metric : i \in {k \in Good(js) : ~js[k].seed}})

----------------------------------------------------------------------------
Init ==
    /\ PaperInit /\ at = "start"
    /\ stage = 1 /\ live = TRUE /\ nodes = <<>> /\ stash = NoNode
    /\ carried = NoNode /\ attempts = 0 /\ skippable = FALSE /\ skipAsked = FALSE
    /\ completed = {} /\ peak = 0

(* run_stage: every sub-stage but the first of all starts from the best    *)
(* node of the one before it.                                              *)
Inherited == IF at = "next" THEN carried ELSE stash

Prepare ==
    /\ at \in {"start", "begin", "next"}
    /\ \/ /\ at = "start" /\ at' = "iterate"
          /\ UNCHANGED <<live, nodes, ok, skippable, skipAsked>>
       \/ /\ at # "start" /\ Inherited # NoNode
          /\ nodes' = <<Inherited>> /\ at' = "iterate"
          /\ UNCHANGED <<live, ok, skippable, skipAsked>>
       \/ /\ at # "start" /\ Inherited = NoNode
          /\ live' = FALSE /\ ok' = FALSE /\ at' = "leave"
          /\ skippable' = FALSE /\ skipAsked' = FALSE /\ UNCHANGED nodes
    /\ UNCHANGED <<stage, stash, carried, attempts, history, disk, report, paper,
                   blame, budget>>

(* A user asks for a skip while the published state allows it.             *)
AskSkip ==
    /\ at \in {"begin", "iterate", "step"} /\ skippable /\ ~skipAsked
    /\ skipAsked' = TRUE
    /\ UNCHANGED <<stage, live, nodes, stash, carried, attempts, skippable,
                   history, launch>>

MaySkipAnyway(js) == {TRUE}

(* reset_skip_state of the stages: a best node exists; the third stage     *)
(* also wants plots of it.                                                 *)
MaySkip(js) ==
    IF Good(js) = {} THEN {FALSE} ELSE IF stage = 3 THEN BOOLEAN ELSE {TRUE}

NodesAsAttempts == Len(nodes) + 1

(* Attempts are counted, not nodes: one that times out counts too.         *)
NextAttempt == attempts + 1

(* The top of the loop: publish, then consume a skip or count an attempt.  *)
Iterate ==
    /\ at = "iterate"
    /\ skippable' \in MaySkip(nodes) /\ skipAsked' = FALSE
    /\ \/ skipAsked /\ at' = "skipped" /\ UNCHANGED attempts
       \/ ~skipAsked /\ at' = "step" /\ attempts' = NextAttempt
    /\ UNCHANGED <<stage, live, nodes, stash, carried, history, ok, disk, report,
                   paper, blame, budget>>

Saved(d, s) == [d EXCEPT !.stages = @ \cup {s}]

(* agent.step and its callback, which saves the journal.  An execution     *)
(* that times out or is terminated may append nothing.                     *)
StepEnds ==
    /\ at = "step" /\ at' = "judge"
    /\ \/ \E r \in Results(FALSE) : nodes' = Append(nodes, r)
       \/ nodes' = nodes
    /\ disk' = Saved(disk, stage)
    /\ UNCHANGED <<stage, live, stash, carried, attempts, skippable, skipAsked,
                   history, ok, report, paper, blame, budget>>

(* The node that an execution extends: the base or the best of the third   *)
(* stage.  In the second and fourth it is a copy, in the first a draft or  *)
(* a node that is buggy already, and the journal's nodes are untouched.    *)
Parents == IF stage = 3 THEN Candidates(nodes) ELSE {}

(* An execution whose worker raises: the handler flags the node of its     *)
(* registry entry, which is the parent.                                    *)
Flag(js, i) == [js EXCEPT ![i] = Bad]

StepCrashes ==
    /\ at = "step" /\ at' = "judge" /\ Fault
    /\ \/ Parents = {} /\ UNCHANGED <<nodes, blame>>
       \/ \E i \in Parents :
            nodes' = Flag(nodes, i) /\ blame' = blame \cup {"flagged"}
    /\ disk' = Saved(disk, stage)
    /\ UNCHANGED <<stage, live, stash, carried, attempts, skippable, skipAsked,
                   history, ok, report, paper>>

(* A skip that is noticed before the execution's result is taken.          *)
StepSkipped ==
    /\ at = "step" /\ skipAsked /\ at' = "skipped"
    /\ UNCHANGED <<manager, history, ok, disk, report, paper, blame, budget>>

AtLimit == attempts >= MaxIterations

(* The sub-stage's verdict: at the limit, or a language model's about the  *)
(* best node.                                                              *)
SubstageComplete ==
    IF AtLimit THEN {TRUE} ELSE IF Good(nodes) = {} THEN {FALSE} ELSE BOOLEAN

(* The main stage's: the first wants a working node, the second one other  *)
(* than its base, and the last two only end at the limit.                  *)
StageComplete ==
    IF AtLimit THEN {TRUE}
    ELSE CASE stage = 1 -> {Good(nodes) # {}}
           [] stage = 2 -> IF Good(nodes) \ {1} = {} THEN {FALSE} ELSE BOOLEAN
           [] OTHER -> {FALSE}

GoesOn == TRUE

(* The first stage ends the experiment at its limit, working node or not.  *)
StaysLive == ~(AtLimit /\ stage = 1)

Judge ==
    /\ at = "judge"
    /\ \E sub \in SubstageComplete, main \in StageComplete :
         \/ /\ main /\ at' = "seeds" /\ live' = StaysLive
            /\ blame' = IF StaysLive THEN blame ELSE blame \cup {"limit"}
            /\ skippable' = FALSE /\ skipAsked' = FALSE
            /\ UNCHANGED <<nodes, stash, peak>>
         \/ /\ ~main /\ sub /\ at' = "begin"
            /\ stash' = BestImplementation(nodes, stash)
            /\ peak' = Max({peak, TopMetric(nodes)}) /\ nodes' = <<>>
            /\ UNCHANGED <<live, blame, skippable, skipAsked>>
         \/ /\ ~main /\ ~sub /\ at' = "iterate"
            /\ UNCHANGED <<nodes, stash, live, blame, skippable, skipAsked, peak>>
    /\ UNCHANGED <<stage, carried, attempts, completed, ok, disk, report, paper, budget>>

(* A skip completes the main stage at once.                                *)
SkipStage ==
    /\ at = "skipped" /\ at' = "seeds"
    /\ skippable' = FALSE /\ skipAsked' = FALSE
    /\ UNCHANGED <<stage, live, nodes, stash, carried, attempts, history, ok, disk,
                   report, paper, blame, budget>>

(* Multi-seed evaluation of the best node.  Without one the run is marked  *)
(* failed and goes on.                                                     *)
Seeds ==
    /\ at = "seeds" /\ at' = "leave"
    /\ \/ /\ BestImplementation(nodes, stash) = NoNode
          /\ ok' = FALSE /\ UNCHANGED <<nodes, disk, completed>>
       \/ /\ BestImplementation(nodes, stash) # NoNode
          /\ \E r \in Results(TRUE) : nodes' = Append(nodes, r)
          /\ disk' = Saved(disk, stage)
          /\ completed' = completed \cup {stage} /\ UNCHANGED ok
    /\ UNCHANGED <<stage, live, stash, carried, attempts, skippable, skipAsked, peak,
                   report, paper, blame, budget>>

(* The end of run_stage and the step to the next main stage.               *)
Leave ==
    /\ at = "leave" /\ live /\ stage < 4 /\ at' = "next"
    /\ stage' = stage + 1 /\ carried' = BestImplementation(nodes, stash)
    /\ peak' = Max({peak, TopMetric(nodes)})
    /\ nodes' = <<>> /\ stash' = NoNode /\ attempts' = 0
    /\ UNCHANGED <<live, skippable, skipAsked, completed, ok, disk, report, paper,
                   blame, budget>>

LeaveLast ==
    /\ at = "leave" /\ (live => stage = 4) /\ at' = "summarise"
    /\ live' = FALSE
    /\ UNCHANGED <<stage, nodes, stash, carried, attempts, skippable, skipAsked,
                   history, ok, disk, report, paper, blame, budget>>

(* The four summaries are written whatever the outcome.                    *)
Summarise ==
    /\ at = "summarise" /\ at' = "copy" /\ disk' = With(disk, "summaries")
    /\ UNCHANGED <<manager, history, ok, report, paper, blame, budget>>

----------------------------------------------------------------------------
Kill ==
    /\ at # "ended" /\ budget.kills < MaxKills /\ at' = "ended"
    /\ budget' = [budget EXCEPT !.kills = @ + 1] /\ report' = "none"
    /\ UNCHANGED <<manager, history, ok, disk, paper, blame>>

(* resume_run: where it takes the launcher.  A stage is missing if it left *)
(* nothing on disk; to run one the idea is needed, and the idea is not     *)
(* there before the summaries are, so that resume_run never gets to the    *)
(* stage.  When it raises it ends the process by sys.exit, which the       *)
(* launcher does not catch, and run_success is still True.                 *)
Missing == {s \in 2..4 : s - 1 \in disk.stages /\ s \notin disk.stages}

CannotResume ==
    \/ disk.stages = {}
    \/ /\ "summaries" \notin disk.files /\ Missing # {}
       /\ "idea" \notin disk.files

Relaunch ==
    /\ at = "ended" /\ budget.resumes < MaxResumes
    /\ budget' = [budget EXCEPT !.resumes = @ + 1]
    /\ ok' = TRUE /\ report' = "none"
    /\ paper' = [NoAttempt EXCEPT !.finished = paper.finished]
    /\ stage' = 1 /\ live' = FALSE /\ nodes' = <<>> /\ stash' = NoNode
    /\ carried' = NoNode /\ attempts' = 0 /\ skippable' = FALSE /\ skipAsked' = FALSE
    /\ peak' = 0 /\ UNCHANGED <<disk, completed>>

(* What was wrong with the experiment stays wrong.                         *)
Lasting == blame \cap {"limit", "flagged"}

Resume ==
    /\ Relaunch /\ at' = "copy"
    /\ ~CannotResume /\ ("summaries" \in disk.files \/ Missing = {})
    /\ blame' = IF "summaries" \in disk.files THEN Lasting
                ELSE Lasting \cup {"unfinished"}

ResumeFails ==
    /\ Relaunch /\ CannotResume
    /\ at' = "finish" /\ blame' = Lasting \cup {"exit"}

----------------------------------------------------------------------------
Manager ==
    \/ Prepare \/ Iterate \/ StepEnds \/ StepCrashes \/ StepSkipped \/ Judge
    \/ SkipStage \/ Seeds \/ Leave \/ LeaveLast \/ Summarise

Launcher == PaperStep /\ UNCHANGED <<manager, history>>

Breaks == (CallFails \/ AttemptFails) /\ UNCHANGED <<manager, history>>

Next == Manager \/ Launcher \/ Breaks \/ AskSkip \/ Kill \/ Resume \/ ResumeFails

Spec == Init /\ [][Next]_vars

(* Executions have timeouts, and calls of language models end: the thread  *)
(* of the launcher goes on.  Requests, kills and resumes are nobody's duty.*)
FairSpec == Spec /\ WF_vars(Manager \/ Launcher)

----------------------------------------------------------------------------
(* Every sub-stage after the first main stage works with the best metric   *)
(* that any node of the journals left behind has reached: neither the step *)
(* to a sub-stage, nor the seeds, nor a skip loses it (journals are        *)
(* stashed, agent_manager.py:492, and searched again, :412).               *)
BestIsKept ==
    stage > 1 /\ at \in {"iterate", "step", "judge"} /\ "flagged" \notin blame =>
        nodes[1].good /\ nodes[1].metric = peak

(* What the server is told is what happened: a failure needs a call that   *)
(* raised, a first stage at its limit, or a best node that was flagged; a  *)
(* success without all four stages needs a first stage that worked up to   *)
(* its limit, or a launch with --resume of an experiment that had not      *)
(* succeeded.                                                              *)
OutcomeHasACause ==
    at = "ended" =>
        /\ report = "failure" =>
             \/ "raised" \in blame
             \/ budget.resumes = 0 /\ blame \cap {"limit", "flagged"} # {}
        /\ report = "success" =>
             \/ completed = Stages \/ "limit" \in blame
             \/ budget.resumes > 0 /\ blame \cap {"exit", "unfinished", "flagged"} # {}

(* A run reported as a success has a paper that a write-up attempt of its  *)
(* own has finished, unless the plots could not be aggregated, the launch  *)
(* could not be resumed, an earlier launch left an unfinished PDF, or an   *)
(* attempt went on from the PDF of one that had failed.  No failure of the *)
(* write-up gets lost on the way to the report.                            *)
PapersHaveACause ==
    at = "ended" /\ report = "success" =>
        \/ paper.finished /\ disk.pdfs # {}
        \/ blame \cap {"plots", "exit"} # {}
        \/ "left" \in blame /\ budget.resumes > 0
        \/ "stale" \in blame /\ paper.tries > 1

(* A stage that is skipped has a working node to hand on: what was         *)
(* published when the user asked has not gone stale when the agent looks.  *)
SkippedStagesWork ==
    at = "skipped" /\ "flagged" \notin blame => Good(nodes) # {}

(* Every launch ends, whatever times out, crashes or is skipped: attempts  *)
(* are counted over all sub-stages of a main stage.                        *)
LaunchesEnd == at # "ended" ~> at = "ended"
=============================================================================
