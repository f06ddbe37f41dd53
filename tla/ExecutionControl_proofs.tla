----------------------- MODULE ExecutionControl_proofs -----------------------
(***************************************************************************)
(* Proofs about ExecutionControl, for any number of executions, GPUs,       *)
(* stages, workers, seeds and events: its states are well typed, two        *)
(* experiments never share a GPU unless the agent has let go of one of      *)
(* them, a termination that was confirmed to the user has its feedback      *)
(* delivered, and a skip stops the stage after at most one execution more.  *)
(***************************************************************************)
EXTENDS ExecutionControl, FiniteSetTheorems, WellFoundedInduction, TLAPS

(* The type invariant, variable by variable.                                *)

AgentSet == [pc : AgentPoints, stage : Stages, mode : {"step", "seeds", "substage"},
             left : Nat, iteration : Nat, ending : BOOLEAN]

\* There is something left to submit where the agent submits, and an iteration
\* left where one is about to begin.
Counts ==
    /\ agent.iteration <= MaxIterations[agent.stage]
    /\ agent.pc \in {"submit", "register", "future"} => agent.left > 0
    /\ agent.pc \in {"publish", "consume"} \/ agent.mode = "substage" =>
          agent.iteration < MaxIterations[agent.stage]

AgentTyped == agent \in AgentSet /\ Counts

\* There is a first future wherever the agent handles it.
Holding == {"future", "wait", "timeout", "restart", "clear"}

FuturesTyped == futures \in Seq(Execs) /\ (agent.pc \in Holding => futures # <<>>)

ControlSet == [stage : Stages \cup {0}, pending : BOOLEAN]

RegTyped ==
    /\ entries \in [Execs -> Entries]
    /\ shared \in [Execs -> SharedEntries]
    /\ feedback \in [Execs -> Reasons \cup {"none"}]

KillerSet == [pc : {"idle", "flag", "mark", "share", "kill"}, exec : Execs \cup {NoExec},
              reason : Reasons \cup {"none"}]

\* A termination that is under way is of some execution, and somebody's.
KillTyped ==
    /\ killers \in [Killers -> KillerSet]
    /\ \A k \in Killers : killers[k].pc # "idle" =>
          killers[k].exec \in Execs /\ killers[k].reason \in Reasons

\* The agent has a termination of its own under way exactly while it waits for it.
AgentKills == killers["agent"].pc # "idle" <=> AgentAt("timeout")

TodoSet == [skipping : BOOLEAN, execs : SUBSET Execs]

WorkTyped ==
    /\ workers \in [Execs -> WorkerStates]
    /\ pool \in [execs : SUBSET Execs, broken : BOOLEAN]
    /\ deferred \in SUBSET Execs

GpuTyped ==
    /\ gpuOf \in [Execs -> Gpus \cup {NoGpu}]
    /\ reserved \in [Execs -> Gpus \cup {NoGpu}]

HistorySet == [acked : SUBSET Execs, late : SUBSET Execs, loose : SUBSET Execs,
               accepted : SUBSET Stages, skipped : SUBSET Stages, started : Nat]

SpentSet == [terminations : Nat, skips : Nat, timeouts : Nat, faults : Nat]

Typed ==
    /\ AgentTyped /\ FuturesTyped /\ control \in ControlSet
    /\ RegTyped /\ KillTyped /\ AgentKills /\ todo \in TodoSet
    /\ WorkTyped /\ GpuTyped
    /\ history \in HistorySet /\ spent \in SpentSet

-----------------------------------------------------------------------------
(* Facts about sequences and sets.                                          *)

\* What appending to a sequence does to it.
LEMMA AppendFacts ==
    ASSUME NEW S, NEW s \in Seq(S), NEW e \in S
    PROVE  /\ Append(s, e) \in Seq(S) /\ Append(s, e) # <<>>
           /\ Range(Append(s, e)) = Range(s) \cup {e}
           /\ Append(s, e)[Len(Append(s, e))] = e
<1> DEFINE t == Append(s, e)
<1>1. /\ t \in Seq(S) /\ t # <<>> /\ Len(t) = Len(s) + 1
      /\ t[Len(s) + 1] = e /\ \A i \in 1..Len(s) : t[i] = s[i]
  OBVIOUS
<1>2. DOMAIN t = 1..Len(s) + 1 /\ DOMAIN s = 1..Len(s) /\ Len(s) \in Nat
  OBVIOUS
<1>3. Range(t) = Range(s) \cup {e}
  <2>1. ASSUME NEW x \in Range(t) PROVE x \in Range(s) \cup {e}
    <3>1. PICK i \in DOMAIN t : x = t[i]
      BY <2>1 DEF Range
    <3>2. CASE i = Len(s) + 1
      BY <3>1, <3>2, <1>1
    <3>3. CASE i \in 1..Len(s)
      BY <3>1, <3>3, <1>1, <1>2 DEF Range
    <3> QED BY <3>1, <3>2, <3>3, <1>2
  <2>2. ASSUME NEW x \in Range(s) PROVE x \in Range(t)
    <3>1. PICK i \in DOMAIN s : x = s[i]
      BY <2>2 DEF Range
    <3>2. i \in DOMAIN t /\ t[i] = x
      BY <3>1, <1>1, <1>2
    <3> QED BY <3>2 DEF Range
  <2>3. e \in Range(t)
    <3>1. Len(s) + 1 \in DOMAIN t
      BY <1>2
    <3> QED BY <3>1, <1>1 DEF Range
  <2> QED BY <2>1, <2>2, <2>3
<1> QED BY <1>1, <1>2, <1>3

\* What taking the head of a sequence away does to it.
LEMMA TailFacts ==
    ASSUME NEW S, NEW s \in Seq(S), s # <<>>
    PROVE  /\ Head(s) \in S /\ Head(s) \in Range(s) /\ Head(s) = s[1]
           /\ Tail(s) \in Seq(S)
           /\ Range(s) = Range(Tail(s)) \cup {Head(s)}
<1>1. /\ Tail(s) \in Seq(S) /\ Len(Tail(s)) = Len(s) - 1 /\ Len(s) \in Nat /\ Len(s) > 0
      /\ \A i \in 1..Len(s) - 1 : Tail(s)[i] = s[i + 1]
      /\ DOMAIN Tail(s) = 1..Len(s) - 1 /\ DOMAIN s = 1..Len(s)
      /\ Head(s) = s[1] /\ s[1] \in S
  OBVIOUS
<1>2. Head(s) \in Range(s)
  <2>1. 1 \in DOMAIN s
    BY <1>1
  <2> QED BY <1>1, <2>1 DEF Range
<1>3. ASSUME NEW x \in Range(Tail(s)) PROVE x \in Range(s)
  <2>1. PICK i \in 1..Len(s) - 1 : x = Tail(s)[i]
    BY <1>1, <1>3 DEF Range
  <2>2. i + 1 \in DOMAIN s /\ x = s[i + 1]
    BY <1>1, <2>1
  <2> QED BY <2>2 DEF Range
<1>4. ASSUME NEW x \in Range(s) PROVE x \in Range(Tail(s)) \cup {Head(s)}
  <2>1. PICK i \in 1..Len(s) : x = s[i]
    BY <1>1, <1>4 DEF Range
  <2>2. CASE i = 1
    BY <1>1, <2>1, <2>2
  <2>3. CASE i # 1
    <3>1. PICK j \in 1..Len(s) - 1 : i = j + 1
      <4>1. i - 1 \in 1..Len(s) - 1 /\ i = (i - 1) + 1
        BY <1>1, <2>1, <2>3
      <4> QED BY <4>1
    <3>2. j \in DOMAIN Tail(s) /\ Tail(s)[j] = x
      BY <1>1, <2>1, <3>1
    <3> QED BY <3>2 DEF Range
  <2> QED BY <2>2, <2>3
<1> QED BY <1>1, <1>2, <1>3, <1>4

\* A set of natural numbers that is not empty has a least element.
LEMMA LeastIsLeast ==
    ASSUME NEW S \in SUBSET Nat, S # {}
    PROVE  Least(S) \in S
<1> DEFINE R == OpToRel(<, Nat)
<1>1. PICK n \in S : \A m \in S : ~(<<m, n>> \in R)
  <2> HIDE DEF R
  <2>1. IsWellFoundedOn(R, Nat)
    BY NatLessThanWellFounded DEF R
  <2> QED BY <2>1, WFMin
<1>2. \A m \in S : n <= m
  <2> TAKE m \in S
  <2>1. m \in Nat /\ n \in Nat
    OBVIOUS
  <2>2. ~(m < n)
    BY <1>1, <2>1 DEF OpToRel
  <2> QED BY <2>1, <2>2
<1> QED BY <1>2 DEF Least

-----------------------------------------------------------------------------
(* The inductive invariant.                                                 *)

Batch == Range(futures)

\* No execution is twice in the batch, and one whose entry is to be cleared later
\* is not in it, once the agent is through with the one that was late.
Batches ==
    /\ \A i, j \in DOMAIN futures : futures[i] = futures[j] => i = j
    /\ \A e \in deferred \cap Batch : AgentAt("clear") /\ e = Head(futures)

\* The agent terminates the head of its batch, and only what is late.
Terminations ==
    /\ killers["agent"].pc # "idle" =>
          killers["agent"].exec = Head(futures) /\ killers["agent"].reason = "timeout"
    /\ agent.pc \in {"timeout", "restart"} => Head(futures) \in history.late
    /\ killers["server"].pc # "idle" => killers["server"].reason \in {"user", "skip"}

\* Codex has not been started.
Before == {"queued", "preparing", "starting"}

\* The terminations that have found a pid.
Marking == {"mark", "share", "kill"}

\* There is no pid of the execution, and no termination has seen one.
NoPid(e) ==
    /\ ~shared[e].pid
    /\ \A k \in Killers : killers[k].pc \in Marking => killers[k].exec # e

\* Before Codex has been started there is no pid.
Pids ==
    /\ \A e \in Execs : workers[e] \in Before => NoPid(e)
    /\ AgentAt("future") => workers[LastExec] = "none" /\ NoPid(LastExec)

Early == Before \cup {"computing"}

\* The GPU a worker uses or will use is reserved for it, as long as the agent has
\* not let go of it.
Allotted ==
    /\ \A e, f \in Execs : reserved[e] = reserved[f] /\ reserved[e] # NoGpu => e = f
    /\ \A e \in Execs : workers[e] \in Early =>
          e \in history.loose \/ (e \in Batch /\ reserved[e] = gpuOf[e])
    /\ \A e \in Execs : workers[e] = "orphaned" => e \in history.loose
    /\ agent.pc \in {"restart", "clear"} /\ workers[Head(futures)] \in Early =>
          Head(futures) \in history.loose
    /\ AgentAt("future") => reserved[LastExec] = gpuOf[LastExec]

\* The registry has the answer of a user or of a skip, or the execution is late.
Heard(e) ==
    /\ entries[e].status = "terminated"
    /\ entries[e].payload \in {"user", "skip"} \/ e \in history.late

\* Codex has come to its end.
Through == {"killed", "exited", "done", "failed"}

\* What the user has been told of an execution of the batch is known to the
\* registry until the agent has collected it.
Answered ==
    /\ \A e \in Batch \cap history.acked :
          workers[e] \in Through /\ Heard(e)
    /\ killers["server"].pc # "idle" /\ killers["server"].reason = "user" =>
          LET e == killers["server"].exec IN
          /\ killers["server"].pc # "flag"
          /\ e \in Batch =>
                /\ e \notin history.acked /\ entries[e] # NoEntry
                /\ killers["server"].pc \in {"share", "kill"} => Heard(e)
    /\ AgentAt("clear") =>
          LET e == Head(futures) IN
          e \notin history.late =>
             /\ workers[e] \notin Unfinished
             /\ e \in history.acked /\ workers[e] \notin {"failed", "orphaned"}
                   => feedback[e] \in {"user", "skip"}

\* Where the agent may be once an execution has been registered after the skip.
Prompt ==
    history.started > 0 =>
        /\ history.started = 1
        /\ \/ /\ agent.mode = "step" /\ agent.pc \in {"future", "submit", "collect"}
              /\ SkipSeen /\ futures # <<>>
           \/ agent.mode # "substage" /\ agent.pc \in {"cancel", "complete", "cleanup", "advance"}
           \/ agent.mode = "seeds" /\ agent.pc \notin {"publish", "consume"}
           \/ AgentAt("over")

IInv == Typed /\ Batches /\ Terminations /\ Pids /\ Allotted /\ Answered /\ Prompt

-----------------------------------------------------------------------------
(* The initial state.                                                       *)

\* The initial state is well typed.
LEMMA InitTyped == Init => Typed
<1> SUFFICES ASSUME Init PROVE Typed
  OBVIOUS
<1> USE ConstantsAssumption DEF Init
<1>1. AgentTyped
  <2>1. 1 \in Stages /\ MaxIterations[1] > 0
    <3>1. NumStages \in Nat \ {0}
      OBVIOUS
    <3>2. 1 \in 1..NumStages
      BY <3>1
    <3>3. MaxIterations[1] \in Nat \ {0}
      BY <3>2
    <3> QED BY <3>2, <3>3 DEF Stages
  <2>2. agent \in AgentSet
    BY <2>1 DEF AgentSet, AgentPoints
  <2> QED BY <2>1, <2>2 DEF AgentTyped, Counts
<1>2. FuturesTyped
  BY DEF FuturesTyped, Holding
<1>3. control \in ControlSet
  BY DEF ControlSet
<1>4. RegTyped
  BY DEF RegTyped, NoEntry, NoShared, Entries, SharedEntries
<1>5. KillTyped
  BY DEF KillTyped, KillerSet, NoKiller
<1>51. AgentKills
  BY DEF AgentKills, AgentAt, Killers, NoKiller
<1>6. todo \in TodoSet
  BY DEF TodoSet
<1>7. WorkTyped
  BY DEF WorkTyped, WorkerStates
<1>8. GpuTyped
  BY DEF GpuTyped
<1>9. history \in HistorySet
  BY DEF HistorySet
<1>10. spent \in SpentSet
  BY DEF SpentSet
<1> QED BY <1>1, <1>2, <1>3, <1>4, <1>5, <1>51, <1>6, <1>7, <1>8, <1>9, <1>10 DEF Typed

-----------------------------------------------------------------------------
(* The agent's record.                                                      *)

\* Going to another point keeps the rest of the agent's record.
LEMMA AgentGoesTyped ==
    ASSUME AgentTyped, NEW pc \in AgentPoints, AgentGoes(pc)
    PROVE  /\ agent' \in AgentSet /\ agent'.pc = pc
           /\ agent'.stage = agent.stage /\ agent'.mode = agent.mode
           /\ agent'.left = agent.left /\ agent'.iteration = agent.iteration
  BY DEF AgentTyped, AgentSet, AgentGoes

-----------------------------------------------------------------------------
(* Every step keeps the state well typed.                                   *)

\* What the agent does keeps its record well typed and its counts within their
\* limits.
LEMMA AgentStepTyped ==
    ASSUME Typed, Next \/ UNCHANGED vars
    PROVE  AgentTyped'
<1>0. \A s \in Stages : MaxIterations[s] \in Nat /\ MaxIterations[s] > 0
  BY ConstantsAssumption DEF Stages
<1> USE ConstantsAssumption DEF Typed, AgentTyped, AgentSet, AgentPoints, Counts
<1>1. CASE \/ CancelFuture \/ SkipNext \/ SkipEnds \/ PoolBreaks \/ SkipRequested
           \/ \E k \in Killers : Mark(k) \/ Share(k)
           \/ \E e \in Execs : StartWork(e) \/ CheckSkip(e) \/ ReportPid(e) \/ CodexEnds(e)
           \/ \E e \in Execs : WorkEnds(e) \/ OrphanEnds(e) \/ TerminateRequested(e)
           \/ UNCHANGED vars
  <2>1. UNCHANGED agent
    BY <1>1 DEF CancelFuture, SkipNext, SkipEnds, PoolBreaks, SkipRequested,
       Mark, Share, StartWork, CheckSkip, ReportPid, CodexEnds, WorkEnds,
       OrphanEnds, TerminateRequested, vars, agentVars, regVars, gpuVars,
       killVars, logVars
  <2> QED BY <2>1
<1>2. CASE Publish
  BY <1>2 DEF Publish, AgentAt, AgentGoes, regVars, gpuVars, killVars, logVars
<1>3. CASE Consume
  <2>1. CASE control.pending /\ control.stage = agent.stage
    BY <1>3, <2>1 DEF Consume, AgentAt
  <2>2. CASE ~(control.pending /\ control.stage = agent.stage)
    <3>1. agent.iteration < MaxIterations[agent.stage]
      BY <1>3 DEF Consume, AgentAt
    <3>2. agent.stage \in Stages /\ agent.iteration \in Nat
      OBVIOUS
    <3>3. MaxIterations[agent.stage] \in Nat
      BY <3>2 DEF Stages
    <3>4. PICK n \in Nat : n = agent.iteration + 1 /\ n <= MaxIterations[agent.stage]
      BY <3>1, <3>2, <3>3
    <3>5. agent' = [agent EXCEPT !.pc = "submit", !.mode = "step",
                                 !.left = NumWorkers, !.iteration = n]
      BY <1>3, <2>2, <3>4 DEF Consume
    <3>6. NumWorkers \in Nat /\ NumWorkers > 0
      OBVIOUS
    <3> HIDE DEF Counts
    <3>7. /\ agent' \in AgentSet
          /\ agent'.stage = agent.stage /\ agent'.left = NumWorkers
          /\ agent'.iteration = n /\ agent'.pc = "submit" /\ agent'.mode = "step"
      BY <3>5, <3>6
    <3> QED BY <3>4, <3>6, <3>7 DEF Counts
  <2> QED BY <2>1, <2>2
<1>4. CASE PreparationFails
  BY <1>4 DEF PreparationFails, AgentAt, regVars, gpuVars, killVars, logVars
<1>5. CASE Submit
  BY <1>5 DEF Submit, AgentAt, AgentGoes, regVars, gpuVars, killVars, logVars
<1>6. CASE Register
  BY <1>6 DEF Register, Acquire, Forgotten, AgentAt, AgentGoes, killVars
<1>7. CASE SubmitFuture
  <2>1. agent.left \in Nat /\ agent.left > 0
    BY <1>7 DEF SubmitFuture, AgentAt
  <2>2. PICK n \in Nat : n = agent.left - 1
    BY <2>1
  <2>3. PICK p \in {"collect", "submit"} : p = IF agent.left = 1 THEN "collect" ELSE "submit"
    OBVIOUS
  <2>4. agent' = [agent EXCEPT !.left = n, !.pc = p]
    BY <1>7, <2>2, <2>3 DEF SubmitFuture
  <2>5. p = "submit" => n > 0
    BY <2>1, <2>2, <2>3
  <2> QED BY <2>4, <2>5
<1>8. CASE SubmitFails
  BY <1>8 DEF SubmitFails, AgentAt, regVars, gpuVars, killVars
<1>9. CASE AbortActive
  BY <1>9 DEF AbortActive, Flagged, AgentGoes, gpuVars, killVars, logVars
<1>10. CASE CancelEnds
  BY <1>10 DEF CancelEnds, AgentAt, AgentGoes, regVars, gpuVars, killVars
<1>11. CASE Collect
  BY <1>11 DEF Collect, AgentAt, AgentGoes, regVars, gpuVars, killVars,
     logVars
<1>12. CASE ResultArrives
  BY <1>12 DEF ResultArrives, AgentAt, AgentGoes, gpuVars, killVars, logVars
<1>13. CASE TimesOut
  <2>1. AgentGoes("clear") \/ AgentGoes("timeout")
    BY <1>13 DEF TimesOut
  <2> QED BY <2>1 DEF AgentGoes
<1>14. CASE RestartExecutor
  BY <1>14 DEF RestartExecutor, Cancelled, AgentAt, AgentGoes, regVars,
     gpuVars, killVars, logVars
<1>15. CASE ClearCollected
  BY <1>15 DEF ClearCollected, Cleared, Released, Forget, AgentAt, AgentGoes,
     killVars
<1>16. CASE Evaluate
  BY <1>16 DEF Evaluate, AgentAt, AgentGoes, regVars, gpuVars, killVars,
     logVars
<1>17. CASE StageCompletes
  BY <1>17 DEF StageCompletes, AgentAt, AgentGoes, regVars, gpuVars, killVars,
     logVars
<1>18. CASE Cleanup
  BY <1>18 DEF Cleanup, Cancelled, Cleared, Released, AgentAt, AgentGoes,
     killVars
<1>19. CASE Advance
  <2>1. CASE AgentGoes("publish") /\ agent.mode = "substage"
    BY <2>1 DEF AgentGoes
  <2>2. CASE AgentGoes("over") /\ agent.mode # "substage"
    BY <2>2 DEF AgentGoes
  <2>3. CASE /\ agent.mode # "substage" /\ agent.stage < NumStages
             /\ agent' = [agent EXCEPT !.pc = "publish", !.mode = "step",
                                       !.stage = @ + 1, !.iteration = 0]
    <3>1. PICK s \in Stages : s = agent.stage + 1
      BY <2>3 DEF Stages
    <3>2. agent' = [agent EXCEPT !.pc = "publish", !.mode = "step", !.stage = s,
                                 !.iteration = 0]
      BY <2>3, <3>1
    <3>3. MaxIterations[s] \in Nat /\ MaxIterations[s] > 0
      BY <1>0, <3>1
    <3> HIDE DEF Counts
    <3>4. /\ agent' \in AgentSet
          /\ agent'.stage = s /\ agent'.iteration = 0
          /\ agent'.pc = "publish" /\ agent'.mode = "step"
      BY <3>2
    <3> QED BY <3>3, <3>4 DEF Counts
  <2> QED BY <1>19, <2>1, <2>2, <2>3 DEF Advance
<1>20. ASSUME NEW k \in Killers, Flag(k) PROVE AgentTyped'
  BY <1>20 DEF Flag, Flagged, KillerAt, KillerEnds, AgentGoes, gpuVars
<1>21. ASSUME NEW k \in Killers, Kill(k) PROVE AgentTyped'
  BY <1>21 DEF Kill, KillerAt, KillerEnds, WorkerGoes, AgentGoes, regVars,
     gpuVars
<1>22. ASSUME NEW k \in Killers, KillMisses(k) PROVE AgentTyped'
  BY <1>22 DEF KillMisses, Cleared, KillerAt, KillerEnds, AgentGoes, regVars,
     gpuVars, logVars
<1>23. Killers = {"server", "agent"}
  BY DEF Killers
<1> QED BY <1>1, <1>2, <1>3, <1>4, <1>5, <1>6, <1>7, <1>8, <1>9, <1>10, <1>11,
       <1>12, <1>13, <1>14, <1>15, <1>16, <1>17, <1>18, <1>19, <1>20, <1>21,
       <1>22, <1>23
  DEF Next, AgentThread, ServerThread, AgentStep, KillerStep, WorkerStep

-----------------------------------------------------------------------------
(* What the helpers of the steps do, spelled out.                           *)

\* The end of a termination.  The agent's ends while the agent waits for it.
LEMMA KillerEndsFacts ==
    ASSUME Typed, NEW k \in Killers, killers[k].pc # "idle", KillerEnds(k)
    PROVE  /\ killers' = [killers EXCEPT ![k] = NoKiller]
           /\ k = "agent" => AgentAt("timeout") /\ AgentGoes("restart")
           /\ k = "server" => UNCHANGED agent
  BY DEF KillerEnds, Typed, AgentKills

\* Forgetting an execution touches nothing of the others.
LEMMA ForgetFacts ==
    ASSUME Typed, NEW e \in Execs, Forget(e)
    PROVE  /\ workers' = [workers EXCEPT ![e] = "none"]
           /\ gpuOf' = [gpuOf EXCEPT ![e] = NoGpu]
           /\ feedback' = [feedback EXCEPT ![e] = "none"]
           /\ pool' \in [execs : SUBSET Execs, broken : BOOLEAN]
           /\ history' \in HistorySet
           /\ history'.acked = history.acked \ {e} /\ history'.late = history.late \ {e}
           /\ history'.loose = history.loose \ {e} /\ history'.started = history.started
<1>1. pool' \in [execs : SUBSET Execs, broken : BOOLEAN]
  BY DEF Forget, Typed, WorkTyped
<1>2. history' = [history EXCEPT !.acked = @ \ {e}, !.late = @ \ {e}, !.loose = @ \ {e}]
  BY DEF Forget
<1>3. history \in HistorySet
  BY DEF Typed
<1>4. /\ history' \in HistorySet
      /\ history'.acked = history.acked \ {e} /\ history'.late = history.late \ {e}
      /\ history'.loose = history.loose \ {e} /\ history'.started = history.started
  BY <1>2, <1>3 DEF HistorySet
<1> QED BY <1>1, <1>4 DEF Forget

\* What a worker leaves behind: the end of an execution somebody waits for, or
\* nothing.
LEMMA EndsFacts ==
    ASSUME Typed, NEW e \in Execs, NEW state \in WorkerStates, Ends(e, state)
    PROVE  /\ history' \in HistorySet /\ history'.started = history.started
           /\ pool' \in [execs : SUBSET Execs, broken : BOOLEAN]
           /\ e \in Range(futures) =>
                 /\ workers' = [workers EXCEPT ![e] = state]
                 /\ UNCHANGED <<gpuOf, feedback, history>>
           /\ e \notin Range(futures) =>
                 /\ workers' = [workers EXCEPT ![e] = "none"]
                 /\ gpuOf' = [gpuOf EXCEPT ![e] = NoGpu]
                 /\ feedback' = [feedback EXCEPT ![e] = "none"]
                 /\ history'.acked = history.acked \ {e}
                 /\ history'.late = history.late \ {e}
                 /\ history'.loose = history.loose \ {e}
<1>1. CASE e \in Range(futures)
  BY <1>1 DEF Ends, Typed, WorkTyped
<1>2. CASE e \notin Range(futures)
  <2>1. Forget(e)
    BY <1>2 DEF Ends
  <2> QED BY <1>2, <2>1, ForgetFacts
<1> QED BY <1>1, <1>2

\* Cancelling only touches what has not begun.
LEMMA CancelledFacts ==
    ASSUME Typed, NEW E, Cancelled(E)
    PROVE  /\ workers' \in [Execs -> WorkerStates]
           /\ \A f \in Execs : \/ workers'[f] = workers[f]
                               \/ workers[f] = "queued" /\ workers'[f] = "cancelled"
  BY DEF Typed, WorkTyped, WorkerStates, Cancelled

\* Flagging marks what the registry knows as terminated, and keeps the pids.
LEMMA FlaggedFacts ==
    ASSUME Typed, NEW E, NEW reason \in Reasons, Flagged(E, reason)
    PROVE  /\ entries' \in [Execs -> Entries] /\ shared' \in [Execs -> SharedEntries]
           /\ \A f \in Execs : shared'[f].pid = shared[f].pid
           /\ \A f \in Execs : entries'[f] = entries[f] \/
                 /\ entries[f] # NoEntry
                 /\ entries'[f].status = "terminated" /\ entries'[f].payload = reason
                 /\ entries'[f].node = entries[f].node
<1> DEFINE known == {f \in E : entries[f] # NoEntry}
<1>1. /\ entries' = [f \in Execs |-> IF f \in known
            THEN [entries[f] EXCEPT !.status = "terminated", !.payload = reason]
            ELSE entries[f]]
      /\ shared' = [f \in Execs |-> IF f \in known
            THEN [shared[f] EXCEPT !.flag = "skip"] ELSE shared[f]]
  BY DEF Flagged
<1>2. entries \in [Execs -> Entries] /\ shared \in [Execs -> SharedEntries]
  BY DEF Typed, RegTyped
<1>3. ASSUME NEW f \in Execs
      PROVE  /\ entries'[f] \in Entries
             /\ entries'[f] = entries[f] \/
                   /\ entries[f] # NoEntry
                   /\ entries'[f].status = "terminated" /\ entries'[f].payload = reason
                   /\ entries'[f].node = entries[f].node
  <2>1. entries[f] \in Entries
    BY <1>2
  <2>2. entries'[f] = IF f \in known
            THEN [entries[f] EXCEPT !.status = "terminated", !.payload = reason]
            ELSE entries[f]
    BY <1>1
  <2>3. f \in known => entries[f] # NoEntry
    OBVIOUS
  <2> HIDE DEF known
  <2> QED BY <2>1, <2>2, <2>3 DEF Entries, Reasons
<1>4. ASSUME NEW f \in Execs
      PROVE  shared'[f] \in SharedEntries /\ shared'[f].pid = shared[f].pid
  <2>1. shared[f] \in SharedEntries
    BY <1>2
  <2>2. shared'[f] = IF f \in known THEN [shared[f] EXCEPT !.flag = "skip"] ELSE shared[f]
    BY <1>1
  <2> HIDE DEF known
  <2> QED BY <2>1, <2>2 DEF SharedEntries
<1> QED BY <1>1, <1>3, <1>4

\* Clearing leaves no entry in the registry, nor in the shared dictionary.
LEMMA ClearedFacts ==
    ASSUME Typed, NEW E, Cleared(E)
    PROVE  /\ entries' \in [Execs -> Entries] /\ shared' \in [Execs -> SharedEntries]
           /\ \A f \in Execs : f \in E => entries'[f] = NoEntry /\ shared'[f] = NoShared
           /\ \A f \in Execs : f \notin E => entries'[f] = entries[f] /\ shared'[f] = shared[f]
           /\ \A f \in Execs : shared'[f].pid => shared[f].pid
  BY DEF Typed, RegTyped, Cleared, Entries, SharedEntries, NoEntry, NoShared

\* A termination begins by marking only what runs and has reported a pid.
LEMMA BegunFacts ==
    ASSUME Typed, NEW e \in Execs, NEW reason \in Reasons
    PROVE  /\ Begun(e, reason) \in KillerSet
           /\ Begun(e, reason).exec = e /\ Begun(e, reason).reason = reason
           /\ \/ Begun(e, reason).pc = "flag"
              \/ Begun(e, reason).pc = "mark" /\ entries[e].status = "running" /\ shared[e].pid
  BY DEF Typed, Begun, KillerSet

\* A termination that goes on keeps its target.
LEMMA GoesFacts ==
    ASSUME Typed, NEW k \in Killers, NEW pc, KillerGoes(k, pc)
    PROVE  /\ killers'[k].pc = pc
           /\ \A j \in Killers : /\ killers'[j].exec = killers[j].exec
                                 /\ killers'[j].reason = killers[j].reason
           /\ \A j \in Killers : j # k => killers'[j] = killers[j]
<1>1. killers' = [killers EXCEPT ![k] = [killers[k] EXCEPT !.pc = pc]]
  BY DEF KillerGoes, Typed, KillTyped
<1>2. killers[k] \in KillerSet
  BY DEF Typed, KillTyped
<1> DEFINE r == [killers[k] EXCEPT !.pc = pc]
<1>3. r.pc = pc /\ r.exec = killers[k].exec /\ r.reason = killers[k].reason
  BY <1>2 DEF KillerSet
<1>4. killers'[k] = r /\ \A j \in Killers : j # k => killers'[j] = killers[j]
  BY <1>1 DEF Typed, KillTyped
<1> HIDE DEF r
<1> QED BY <1>3, <1>4

\* One that is over leaves the other one alone.
LEMMA OverFacts ==
    ASSUME Typed, NEW k \in Killers, killers[k].pc # "idle", KillerEnds(k)
    PROVE  /\ killers'[k].pc = "idle"
           /\ \A j \in Killers : j # k => killers'[j] = killers[j]
<1>1. killers' = [killers EXCEPT ![k] = NoKiller]
  BY KillerEndsFacts
<1> QED BY <1>1 DEF Typed, KillTyped, NoKiller

\* One that begins, too.
LEMMA BeginFacts ==
    ASSUME Typed, NEW k \in Killers, NEW e \in Execs, NEW r \in Reasons,
           killers' = [killers EXCEPT ![k] = Begun(e, r)]
    PROVE  /\ killers'[k].exec = e /\ killers'[k].reason = r
           /\ \/ killers'[k].pc = "flag"
              \/ killers'[k].pc = "mark" /\ entries[e].status = "running" /\ shared[e].pid
           /\ \A j \in Killers : j # k => killers'[j] = killers[j]
<1> DEFINE b == Begun(e, r)
<1>1. /\ b.exec = e /\ b.reason = r
      /\ \/ b.pc = "flag"
         \/ b.pc = "mark" /\ entries[e].status = "running" /\ shared[e].pid
  BY BegunFacts
<1>2. killers'[k] = b /\ \A j \in Killers : j # k => killers'[j] = killers[j]
  BY DEF Typed, KillTyped
<1> HIDE DEF b
<1> QED BY <1>1, <1>2

\* The list of futures is one of executions, and not empty where the agent
\* handles its head.
LEMMA FuturesStepTyped ==
    ASSUME Typed, Next \/ UNCHANGED vars
    PROVE  FuturesTyped'
<1> USE ConstantsAssumption DEF Typed, AgentTyped, AgentSet, AgentPoints, FuturesTyped, Holding
<1>1. CASE \/ SkipNext \/ SkipEnds \/ PoolBreaks \/ SkipRequested
           \/ \E k \in Killers : Mark(k) \/ Share(k)
           \/ \E e \in Execs : StartWork(e) \/ CheckSkip(e) \/ ReportPid(e) \/ CodexEnds(e)
           \/ \E e \in Execs : WorkEnds(e) \/ OrphanEnds(e) \/ TerminateRequested(e)
           \/ UNCHANGED vars
  <2>1. UNCHANGED <<futures, agent>>
    BY <1>1 DEF SkipNext, SkipEnds, PoolBreaks, SkipRequested, Mark, Share,
       StartWork, CheckSkip, ReportPid, CodexEnds, WorkEnds, OrphanEnds,
       TerminateRequested, vars, agentVars, regVars, gpuVars, killVars,
       logVars
  <2> QED BY <2>1
<1>2. CASE Publish
  BY <1>2 DEF Publish, AgentAt, AgentGoes, regVars, gpuVars, killVars, logVars
<1>3. CASE Consume
  BY <1>3 DEF Consume, AgentAt, regVars, gpuVars, killVars
<1>4. CASE PreparationFails
  BY <1>4 DEF PreparationFails, AgentAt, regVars, gpuVars, killVars, logVars
<1>5. CASE Submit
  BY <1>5 DEF Submit, AgentAt, AgentGoes, regVars, gpuVars, killVars, logVars
<1>6. CASE Register
  <2>1. PICK e \in Execs : futures' = Append(futures, e)
    BY <1>6 DEF Register
  <2>2. Append(futures, e) \in Seq(Execs) /\ Append(futures, e) # <<>>
    BY <2>1, AppendFacts
  <2> QED BY <2>1, <2>2
<1>7. CASE SubmitFuture
  BY <1>7 DEF SubmitFuture, LastExec, AgentAt, regVars, gpuVars, killVars,
     logVars
<1>8. CASE SubmitFails
  BY <1>8 DEF SubmitFails, AgentAt, regVars, gpuVars, killVars
<1>9. CASE AbortActive
  BY <1>9 DEF AbortActive, Flagged, AgentGoes, gpuVars, killVars, logVars
<1>10. CASE CancelFuture
  <2>1. futures \in Seq(Execs) /\ futures # <<>> /\ futures' = Tail(futures)
    BY <1>10 DEF CancelFuture
  <2>2. agent'.pc = "cancel"
    BY <1>10 DEF CancelFuture, AgentAt
  <2> QED BY <2>1, <2>2, TailFacts
<1>11. CASE CancelEnds
  BY <1>11 DEF CancelEnds, AgentAt, AgentGoes, regVars, gpuVars, killVars
<1>12. CASE Collect
  BY <1>12 DEF Collect, AgentAt, AgentGoes, regVars, gpuVars, killVars,
     logVars
<1>13. CASE ResultArrives
  BY <1>13 DEF ResultArrives, AgentAt, AgentGoes, gpuVars, killVars, logVars
<1>14. CASE TimesOut
  <2>1. futures # <<>> /\ UNCHANGED futures
    BY <1>14 DEF TimesOut, AgentAt
  <2> QED BY <2>1
<1>15. CASE RestartExecutor
  BY <1>15 DEF RestartExecutor, Cancelled, AgentAt, AgentGoes, regVars,
     gpuVars, killVars, logVars
<1>16. CASE ClearCollected
  <2>1. futures \in Seq(Execs) /\ futures # <<>> /\ futures' = Tail(futures)
    BY <1>16 DEF ClearCollected, AgentAt
  <2>2. agent'.pc = "collect"
    BY <1>16 DEF ClearCollected, AgentGoes
  <2> QED BY <2>1, <2>2, TailFacts
<1>17. CASE Evaluate
  BY <1>17 DEF Evaluate, AgentAt, AgentGoes, regVars, gpuVars, killVars,
     logVars
<1>18. CASE StageCompletes
  BY <1>18 DEF StageCompletes, AgentAt, AgentGoes, regVars, gpuVars, killVars,
     logVars
<1>19. CASE Cleanup
  BY <1>19 DEF Cleanup, Cancelled, Cleared, Released, AgentAt, AgentGoes,
     killVars
<1>20. CASE Advance
  BY <1>20 DEF Advance, NewStage, AgentAt, AgentGoes, regVars, gpuVars,
     killVars
<1>21. ASSUME NEW k \in Killers, Flag(k) PROVE FuturesTyped'
  <2>1. KillerEnds(k) /\ killers[k].pc # "idle" /\ UNCHANGED futures
    BY <1>21 DEF Flag, KillerAt
  <2>2. UNCHANGED agent \/ (AgentAt("timeout") /\ AgentGoes("restart"))
    BY <2>1, KillerEndsFacts DEF Killers
  <2> QED BY <2>1, <2>2 DEF AgentAt, AgentGoes
<1>22. ASSUME NEW k \in Killers, Kill(k) PROVE FuturesTyped'
  <2>1. KillerEnds(k) /\ killers[k].pc # "idle" /\ UNCHANGED futures
    BY <1>22 DEF Kill, KillerAt
  <2>2. UNCHANGED agent \/ (AgentAt("timeout") /\ AgentGoes("restart"))
    BY <2>1, KillerEndsFacts DEF Killers
  <2> QED BY <2>1, <2>2 DEF AgentAt, AgentGoes
<1>23. ASSUME NEW k \in Killers, KillMisses(k) PROVE FuturesTyped'
  <2>1. KillerEnds(k) /\ killers[k].pc # "idle" /\ UNCHANGED futures
    BY <1>23 DEF KillMisses, KillerAt
  <2>2. UNCHANGED agent \/ (AgentAt("timeout") /\ AgentGoes("restart"))
    BY <2>1, KillerEndsFacts DEF Killers
  <2> QED BY <2>1, <2>2 DEF AgentAt, AgentGoes
<1>24. Killers = {"server", "agent"}
  BY DEF Killers
<1> QED BY <1>1, <1>2, <1>3, <1>4, <1>5, <1>6, <1>7, <1>8, <1>9, <1>10, <1>11,
       <1>12, <1>13, <1>14, <1>15, <1>16, <1>17, <1>18, <1>19, <1>20, <1>21,
       <1>22, <1>23, <1>24
  DEF Next, AgentThread, ServerThread, AgentStep, KillerStep, WorkerStep

\* The stage state stays one.
LEMMA ControlStepTyped ==
    ASSUME Typed, Next \/ UNCHANGED vars
    PROVE  control' \in ControlSet
<1> USE ConstantsAssumption DEF Typed, ControlSet, AgentTyped, AgentSet
<1>1. CASE \/ PreparationFails \/ Submit \/ Register \/ SubmitFuture \/ SubmitFails
           \/ AbortActive \/ CancelFuture \/ CancelEnds \/ Collect \/ ResultArrives
           \/ TimesOut \/ RestartExecutor \/ ClearCollected \/ Evaluate \/ StageCompletes
           \/ Cleanup \/ SkipNext \/ SkipEnds \/ PoolBreaks
           \/ \E k \in Killers : Flag(k) \/ Mark(k) \/ Share(k) \/ Kill(k) \/ KillMisses(k)
           \/ \E e \in Execs : StartWork(e) \/ CheckSkip(e) \/ ReportPid(e) \/ CodexEnds(e)
           \/ \E e \in Execs : WorkEnds(e) \/ OrphanEnds(e) \/ TerminateRequested(e)
           \/ UNCHANGED vars
  <2>1. UNCHANGED control
    BY <1>1 DEF PreparationFails, Submit, Register, SubmitFuture, SubmitFails,
       AbortActive, CancelFuture, CancelEnds, Collect, ResultArrives,
       TimesOut, RestartExecutor, ClearCollected, Evaluate, StageCompletes,
       Cleanup, SkipNext, SkipEnds, PoolBreaks, Flag, KillerEnds, Mark, Share,
       Kill, KillMisses, StartWork, CheckSkip, ReportPid, CodexEnds, WorkEnds,
       OrphanEnds, TerminateRequested, vars, agentVars, regVars, gpuVars,
       killVars, logVars
  <2> QED BY <2>1
<1>2. CASE Publish
  <2>1. /\ agent.stage \in Stages /\ control.pending \in BOOLEAN
    OBVIOUS
  <2>2. (control.pending /\ control.stage = agent.stage) \in BOOLEAN
    BY Zenon
  <2>3. control' = [stage |-> agent.stage,
                    pending |-> control.pending /\ control.stage = agent.stage]
    BY <1>2 DEF Publish
  <2> QED BY <2>1, <2>2, <2>3, Zenon
<1>3. CASE Consume
  <2>1. control' = control \/ control' = [control EXCEPT !.pending = FALSE]
    BY <1>3 DEF Consume
  <2> QED BY <2>1
<1>4. CASE Advance
  <2>1. control' = control \/ control' = [stage |-> 0, pending |-> FALSE]
    BY <1>4 DEF Advance
  <2>2. [stage |-> 0, pending |-> FALSE] \in ControlSet
    BY Zenon DEF ControlSet
  <2> QED BY <2>1, <2>2
<1>5. CASE SkipRequested
  <2>1. control' = [control EXCEPT !.pending = TRUE]
    BY <1>5 DEF SkipRequested
  <2> QED BY <2>1
<1>6. Killers = {"server", "agent"}
  BY DEF Killers
<1> QED BY <1>1, <1>2, <1>3, <1>4, <1>5, <1>6
  DEF Next, AgentThread, ServerThread, AgentStep, KillerStep, WorkerStep

\* The executions a skip has still to terminate stay executions.
LEMMA TodoStepTyped ==
    ASSUME Typed, Next \/ UNCHANGED vars
    PROVE  todo' \in TodoSet
<1> USE DEF Typed, TodoSet
<1>1. CASE \/ Publish \/ Consume \/ PreparationFails \/ Submit \/ Register
           \/ SubmitFuture \/ SubmitFails \/ AbortActive \/ CancelFuture \/ CancelEnds
           \/ Collect \/ ResultArrives \/ TimesOut \/ RestartExecutor \/ ClearCollected
           \/ Evaluate \/ StageCompletes \/ Cleanup \/ Advance \/ PoolBreaks
           \/ \E k \in Killers : Flag(k) \/ Mark(k) \/ Share(k) \/ Kill(k) \/ KillMisses(k)
           \/ \E e \in Execs : StartWork(e) \/ CheckSkip(e) \/ ReportPid(e) \/ CodexEnds(e)
           \/ \E e \in Execs : WorkEnds(e) \/ OrphanEnds(e) \/ TerminateRequested(e)
           \/ UNCHANGED vars
  <2>1. UNCHANGED todo
    BY <1>1 DEF Publish, Consume, PreparationFails, Submit, Register,
       SubmitFuture, SubmitFails, AbortActive, CancelFuture, CancelEnds,
       Collect, ResultArrives, TimesOut, RestartExecutor, ClearCollected,
       Evaluate, StageCompletes, Cleanup, Advance, PoolBreaks, Flag,
       KillerEnds, Mark, Share, Kill, KillMisses, StartWork, CheckSkip,
       ReportPid, CodexEnds, WorkEnds, OrphanEnds, TerminateRequested, vars,
       agentVars, regVars, gpuVars, killVars, logVars
  <2> QED BY <2>1
<1>2. CASE SkipNext
  <2>1. PICK e \in todo.execs : todo' = [todo EXCEPT !.execs = @ \ {e}]
    BY <1>2 DEF SkipNext
  <2> QED BY <2>1
<1>3. CASE SkipEnds
  <2>1. todo' = [todo EXCEPT !.skipping = FALSE]
    BY <1>3 DEF SkipEnds
  <2> QED BY <2>1
<1>4. CASE SkipRequested
  <2>1. todo' = [skipping |-> TRUE,
                 execs |-> {e \in Execs : entries[e].status = "running"}]
    BY <1>4 DEF SkipRequested
  <2> QED BY <2>1
<1>5. Killers = {"server", "agent"}
  BY DEF Killers
<1> QED BY <1>1, <1>2, <1>3, <1>4, <1>5
  DEF Next, AgentThread, ServerThread, AgentStep, KillerStep, WorkerStep

\* What is used up of the bounds stays counted.
LEMMA SpentStepTyped ==
    ASSUME Typed, Next \/ UNCHANGED vars
    PROVE  spent' \in SpentSet
<1> USE DEF Typed, SpentSet
<1>1. CASE \/ Publish \/ Consume \/ PreparationFails \/ Submit \/ Register
           \/ SubmitFuture \/ AbortActive \/ CancelFuture \/ CancelEnds \/ Collect
           \/ ResultArrives \/ RestartExecutor \/ ClearCollected \/ Evaluate \/ StageCompletes
           \/ Cleanup \/ Advance \/ SkipNext \/ SkipEnds
           \/ \E k \in Killers : Flag(k) \/ Mark(k) \/ Share(k) \/ Kill(k) \/ KillMisses(k)
           \/ \E e \in Execs : StartWork(e) \/ CheckSkip(e) \/ ReportPid(e) \/ CodexEnds(e)
           \/ \E e \in Execs : WorkEnds(e) \/ OrphanEnds(e)
           \/ UNCHANGED vars
  <2>1. UNCHANGED spent
    BY <1>1 DEF Publish, Consume, PreparationFails, Submit, Register,
       SubmitFuture, AbortActive, CancelFuture, CancelEnds, Collect,
       ResultArrives, RestartExecutor, ClearCollected, Evaluate,
       StageCompletes, Cleanup, Advance, SkipNext, SkipEnds, Flag, KillerEnds,
       Mark, Share, Kill, KillMisses, StartWork, CheckSkip, ReportPid,
       CodexEnds, WorkEnds, OrphanEnds, vars, agentVars, regVars, gpuVars,
       killVars, logVars
  <2> QED BY <2>1
<1>2. CASE SubmitFails
  <2>1. spent' = [spent EXCEPT !.faults = @ + 1] \/ UNCHANGED spent
    BY <1>2 DEF SubmitFails
  <2> QED BY <2>1
<1>3. CASE TimesOut
  <2>1. spent' = [spent EXCEPT !.timeouts = @ + 1] \/ UNCHANGED spent
    BY <1>3 DEF TimesOut
  <2> QED BY <2>1
<1>4. CASE PoolBreaks
  <2>1. spent' = [spent EXCEPT !.faults = @ + 1] \/ UNCHANGED spent
    BY <1>4 DEF PoolBreaks
  <2> QED BY <2>1
<1>5. CASE SkipRequested
  <2>1. spent' = [spent EXCEPT !.skips = @ + 1] \/ UNCHANGED spent
    BY <1>5 DEF SkipRequested
  <2> QED BY <2>1
<1>6. ASSUME NEW e \in Execs, TerminateRequested(e) PROVE spent' \in SpentSet
  <2>1. spent' = [spent EXCEPT !.terminations = @ + 1] \/ UNCHANGED spent
    BY <1>6 DEF TerminateRequested
  <2> QED BY <2>1
<1>7. Killers = {"server", "agent"}
  BY DEF Killers
<1> QED BY <1>1, <1>2, <1>3, <1>4, <1>5, <1>6, <1>7
  DEF Next, AgentThread, ServerThread, AgentStep, KillerStep, WorkerStep

\* The GPUs that are told and reserved stay GPUs.
LEMMA GpuStepTyped ==
    ASSUME Typed, Next \/ UNCHANGED vars
    PROVE  GpuTyped'
<1> USE DEF Typed, GpuTyped, FuturesTyped
<1>1. CASE \/ Publish \/ Consume \/ PreparationFails \/ Submit \/ SubmitFuture
           \/ SubmitFails \/ AbortActive \/ CancelEnds \/ Collect \/ ResultArrives
           \/ TimesOut \/ RestartExecutor \/ Evaluate \/ StageCompletes \/ Advance
           \/ SkipNext \/ SkipEnds \/ PoolBreaks \/ SkipRequested
           \/ \E k \in Killers : Flag(k) \/ Mark(k) \/ Share(k) \/ Kill(k) \/ KillMisses(k)
           \/ \E e \in Execs : StartWork(e) \/ ReportPid(e) \/ CodexEnds(e) \/ TerminateRequested(e)
           \/ UNCHANGED vars
  <2>1. UNCHANGED <<gpuOf, reserved>>
    BY <1>1 DEF Publish, Consume, PreparationFails, Submit, SubmitFuture,
       SubmitFails, AbortActive, CancelEnds, Collect, ResultArrives, TimesOut,
       RestartExecutor, Evaluate, StageCompletes, Advance, SkipNext, SkipEnds,
       PoolBreaks, SkipRequested, Flag, KillerEnds, Mark, Share, Kill,
       KillMisses, StartWork, ReportPid, CodexEnds, TerminateRequested, vars,
       agentVars, regVars, gpuVars, killVars, logVars
  <2> QED BY <2>1
<1>2. CASE Register
  <2>1. PICK e \in Execs : Acquire(e)
    BY <1>2 DEF Register
  <2>2. PICK g \in Gpus \cup {NoGpu} : g = IF FreeGpus = {} THEN NoGpu ELSE Least(FreeGpus)
    <3>1. FreeGpus \in SUBSET Nat
      BY ConstantsAssumption DEF FreeGpus, Gpus
    <3>2. FreeGpus # {} => Least(FreeGpus) \in FreeGpus
      BY <3>1, LeastIsLeast
    <3> QED BY <3>2 DEF FreeGpus
  <2>3. gpuOf' = [gpuOf EXCEPT ![e] = g]
    BY <2>1, <2>2 DEF Acquire
  <2>4. reserved' = [reserved EXCEPT ![e] = gpuOf'[e]]
    BY <2>1 DEF Acquire
  <2> QED BY <2>3, <2>4
<1>3. CASE CancelFuture
  BY <1>3 DEF CancelFuture, LetGo, Forget, Cleared, Released, AgentAt,
     killVars
<1>4. CASE ClearCollected
  BY <1>4 DEF ClearCollected, Cleared, Released, Forget, AgentAt, AgentGoes,
     killVars
<1>5. CASE Cleanup
  BY <1>5 DEF Cleanup, Cancelled, Cleared, Released, AgentAt, AgentGoes,
     killVars
<1>6. ASSUME NEW e \in Execs, CheckSkip(e) PROVE GpuTyped'
  BY <1>6 DEF CheckSkip, WorkerAt, WorkerGoes, Ends, Forget, agentVars,
     regVars, killVars
<1>7. ASSUME NEW e \in Execs, WorkEnds(e) PROVE GpuTyped'
  BY <1>7 DEF WorkEnds, WorkerAt, Ends, Forget, agentVars, killVars
<1>8. ASSUME NEW e \in Execs, OrphanEnds(e) PROVE GpuTyped'
  BY <1>8 DEF OrphanEnds, WorkerAt, Ends, Forget, agentVars, regVars, killVars
<1>9. Killers = {"server", "agent"}
  BY DEF Killers
<1> QED BY <1>1, <1>2, <1>3, <1>4, <1>5, <1>6, <1>7, <1>8, <1>9
  DEF Next, AgentThread, ServerThread, AgentStep, KillerStep, WorkerStep

\* The workers are in known states, and the pool has executions.
LEMMA WorkStepTyped ==
    ASSUME Typed, Next \/ UNCHANGED vars
    PROVE  WorkTyped'
<1>1. CASE \/ Publish \/ Consume \/ PreparationFails \/ Submit \/ SubmitFails
           \/ AbortActive \/ CancelEnds \/ Collect \/ Evaluate \/ StageCompletes
           \/ Advance \/ SkipNext \/ SkipEnds \/ SkipRequested
           \/ \E k \in Killers : Flag(k) \/ Mark(k) \/ Share(k) \/ KillMisses(k)
           \/ \E e \in Execs : TerminateRequested(e)
           \/ UNCHANGED vars
  <2>1. UNCHANGED <<workers, pool, deferred>>
    BY <1>1 DEF Publish, Consume, PreparationFails, Submit, SubmitFails,
       AbortActive, CancelEnds, Collect, Evaluate, StageCompletes, Advance,
       SkipNext, SkipEnds, SkipRequested, Flag, KillerEnds, Mark, Share,
       KillMisses, TerminateRequested, vars, agentVars, regVars, gpuVars,
       killVars, logVars
  <2> QED BY <2>1 DEF Typed, WorkTyped
<1>2. CASE Register
  BY <1>2 DEF Register, Acquire, Forgotten, AgentAt, AgentGoes, killVars,
     Typed, WorkTyped, WorkerStates
<1>3. CASE SubmitFuture
  <2>1. LastExec \in Execs
    BY <1>3 DEF SubmitFuture, AgentAt, Typed, FuturesTyped, Holding, LastExec
  <2> QED BY <1>3, <2>1 DEF SubmitFuture, Typed, WorkTyped, WorkerStates
<1>4. CASE CancelFuture
  <2>1. Head(futures) \in Execs /\ LetGo(Head(futures)) /\ UNCHANGED deferred
    BY <1>4, TailFacts DEF CancelFuture, Typed, FuturesTyped
  <2>2. CASE Forget(Head(futures))
    BY <2>1, <2>2, ForgetFacts DEF Typed, WorkTyped, WorkerStates
  <2>3. CASE UNCHANGED <<workers, pool>>
    BY <2>1, <2>3 DEF Typed, WorkTyped
  <2> QED BY <2>1, <2>2, <2>3 DEF LetGo
<1>5. CASE ResultArrives
  <2>1. Head(futures) \in Execs
    BY <1>5, TailFacts DEF ResultArrives, AgentAt, Typed, FuturesTyped, Holding
  <2>2. \/ UNCHANGED workers
        \/ workers' = [workers EXCEPT ![Head(futures)] = IF @ = "done" THEN "failed" ELSE @]
    BY <1>5 DEF ResultArrives
  <2> QED BY <1>5, <2>1, <2>2 DEF ResultArrives, Typed, WorkTyped, WorkerStates
<1>6. CASE TimesOut
  <2>1. UNCHANGED workers \/ Cancelled({Head(futures)})
    BY <1>6 DEF TimesOut
  <2> QED BY <1>6, <2>1, CancelledFacts DEF TimesOut, Typed, WorkTyped
<1>7. CASE RestartExecutor
  <2>1. Head(futures) \in Execs
    BY <1>7, TailFacts DEF RestartExecutor, AgentAt, Typed, FuturesTyped, Holding
  <2>2. workers' \in [Execs -> WorkerStates]
    BY <1>7, CancelledFacts DEF RestartExecutor
  <2> QED BY <1>7, <2>1, <2>2 DEF RestartExecutor, Typed, WorkTyped
<1>8. CASE ClearCollected
  <2>1. Head(futures) \in Execs
    BY <1>8, TailFacts DEF ClearCollected, AgentAt, Typed, FuturesTyped, Holding
  <2>2. UNCHANGED <<workers, pool>> \/ Forget(Head(futures))
    BY <1>8 DEF ClearCollected
  <2>3. UNCHANGED deferred
    BY <1>8 DEF ClearCollected
  <2>4. CASE Forget(Head(futures))
    BY <2>1, <2>3, <2>4, ForgetFacts DEF Typed, WorkTyped, WorkerStates
  <2> QED BY <2>2, <2>3, <2>4 DEF Typed, WorkTyped
<1>9. CASE Cleanup
  <2>1. workers' \in [Execs -> WorkerStates]
    BY <1>9, CancelledFacts DEF Cleanup
  <2> QED BY <1>9, <2>1 DEF Cleanup, WorkTyped
<1>10. CASE PoolBreaks
  BY <1>10 DEF PoolBreaks, agentVars, regVars, gpuVars, killVars, Typed,
     WorkTyped, WorkerStates
<1>11. ASSUME NEW k \in Killers, Kill(k) PROVE WorkTyped'
  BY <1>11 DEF Kill, KillerAt, KillerEnds, WorkerGoes, AgentGoes, regVars,
     gpuVars, Typed, WorkTyped, WorkerStates
<1>12. ASSUME NEW e \in Execs, StartWork(e) PROVE WorkTyped'
  BY <1>12 DEF StartWork, WorkerAt, WorkerGoes, agentVars, regVars, gpuVars,
     killVars, logVars, Typed, WorkTyped, WorkerStates
<1>13. ASSUME NEW e \in Execs, CheckSkip(e) PROVE WorkTyped'
  <2>1. UNCHANGED deferred /\ (Ends(e, "aborted") \/ (WorkerGoes(e, "starting") /\ UNCHANGED pool))
    BY <1>13 DEF CheckSkip
  <2>2. "aborted" \in WorkerStates /\ "starting" \in WorkerStates
    BY DEF WorkerStates
  <2>3. CASE Ends(e, "aborted")
    BY <2>1, <2>2, <2>3, EndsFacts DEF Typed, WorkTyped, WorkerStates
  <2>4. CASE WorkerGoes(e, "starting") /\ UNCHANGED pool
    BY <2>1, <2>2, <2>4 DEF WorkerGoes, Typed, WorkTyped
  <2> QED BY <2>1, <2>3, <2>4
<1>14. ASSUME NEW e \in Execs, ReportPid(e) PROVE WorkTyped'
  BY <1>14 DEF ReportPid, WorkerAt, WorkerGoes, agentVars, gpuVars, killVars,
     logVars, Typed, WorkTyped, WorkerStates
<1>15. ASSUME NEW e \in Execs, CodexEnds(e) PROVE WorkTyped'
  BY <1>15 DEF CodexEnds, WorkerAt, WorkerGoes, agentVars, regVars, gpuVars,
     killVars, logVars, Typed, WorkTyped, WorkerStates
<1>16. ASSUME NEW e \in Execs, WorkEnds(e) PROVE WorkTyped'
  <2>1. Ends(e, "done") /\ UNCHANGED deferred
    BY <1>16 DEF WorkEnds, WorkerGoes
  <2>2. "done" \in WorkerStates
    BY DEF WorkerStates
  <2> QED BY <2>1, <2>2, EndsFacts DEF Typed, WorkTyped, WorkerStates
<1>17. ASSUME NEW e \in Execs, OrphanEnds(e) PROVE WorkTyped'
  <2>1. Ends(e, "failed") /\ UNCHANGED deferred
    BY <1>17 DEF OrphanEnds, WorkerGoes
  <2>2. "failed" \in WorkerStates
    BY DEF WorkerStates
  <2> QED BY <2>1, <2>2, EndsFacts DEF Typed, WorkTyped, WorkerStates
<1>18. Killers = {"server", "agent"}
  BY DEF Killers
<1> QED BY <1>1, <1>2, <1>3, <1>4, <1>5, <1>6, <1>7, <1>8, <1>9, <1>10, <1>11,
       <1>12, <1>13, <1>14, <1>15, <1>16, <1>17, <1>18
  DEF Next, AgentThread, ServerThread, AgentStep, KillerStep, WorkerStep

\* The registry, the shared dictionary and the feedback stay well typed.
LEMMA RegStepTyped ==
    ASSUME Typed, Next \/ UNCHANGED vars
    PROVE  RegTyped'
<1>1. CASE \/ Publish \/ Consume \/ PreparationFails \/ Submit \/ SubmitFuture
           \/ SubmitFails \/ CancelEnds \/ Collect \/ TimesOut \/ RestartExecutor
           \/ Evaluate \/ StageCompletes \/ Advance \/ SkipNext \/ SkipEnds
           \/ PoolBreaks \/ SkipRequested
           \/ \E k \in Killers : Kill(k)
           \/ \E e \in Execs : StartWork(e) \/ CodexEnds(e) \/ TerminateRequested(e)
           \/ UNCHANGED vars
  <2>1. UNCHANGED <<entries, shared, feedback>>
    BY <1>1 DEF Publish, Consume, PreparationFails, Submit, SubmitFuture,
       SubmitFails, CancelEnds, Collect, TimesOut, RestartExecutor, Evaluate,
       StageCompletes, Advance, SkipNext, SkipEnds, PoolBreaks, SkipRequested,
       Kill, KillerEnds, StartWork, CodexEnds, TerminateRequested, vars,
       agentVars, regVars, gpuVars, killVars, logVars
  <2> QED BY <2>1 DEF Typed, RegTyped
<1>2. CASE Register
  <2>1. PICK e \in Execs, node \in BOOLEAN :
          /\ entries' = [entries EXCEPT ![e] =
                           [status |-> "running", payload |-> "none", node |-> node]]
          /\ shared' = [shared EXCEPT ![e] = NoShared]
          /\ feedback' = [feedback EXCEPT ![e] = "none"]
    BY <1>2 DEF Register
  <2>2. [status |-> "running", payload |-> "none", node |-> node] \in Entries
    BY DEF Entries
  <2>3. NoShared \in SharedEntries
    BY DEF NoShared, SharedEntries
  <2> QED BY <2>1, <2>2, <2>3 DEF Typed, RegTyped
<1>3. CASE AbortActive
  <2>1. "skip" \in Reasons
    BY DEF Reasons
  <2>2. Flagged(Range(futures), "skip") /\ UNCHANGED feedback
    BY <1>3 DEF AbortActive
  <2> QED BY <2>1, <2>2, FlaggedFacts DEF Typed, RegTyped
<1>4. CASE CancelFuture
  <2>1. Head(futures) \in Execs /\ LetGo(Head(futures)) /\ Cleared({Head(futures)})
    BY <1>4, TailFacts DEF CancelFuture, Typed, FuturesTyped
  <2>2. feedback' = feedback \/ feedback' = [feedback EXCEPT ![Head(futures)] = "none"]
    BY <2>1, ForgetFacts DEF LetGo
  <2>3. entries' \in [Execs -> Entries] /\ shared' \in [Execs -> SharedEntries]
    BY <2>1, ClearedFacts
  <2> QED BY <2>1, <2>2, <2>3 DEF Typed, RegTyped
<1>5. CASE ResultArrives
  <2>1. Head(futures) \in Execs
    BY <1>5, TailFacts DEF ResultArrives, AgentAt, Typed, FuturesTyped, Holding
  <2> DEFINE h == Head(futures)
  <2>2. entries[h] \in Entries /\ UNCHANGED shared
    BY <1>5, <2>1 DEF ResultArrives, Typed, RegTyped
  <2>3. CASE UNCHANGED <<entries, feedback>>
    BY <2>2, <2>3 DEF Typed, RegTyped
  <2>4. CASE /\ entries' = [entries EXCEPT ![h].node = TRUE]
             /\ feedback' = [feedback EXCEPT ![h] =
                   IF entries[h].payload # "none" THEN entries[h].payload ELSE @]
    <3>1. entries' = [entries EXCEPT ![h] = [entries[h] EXCEPT !.node = TRUE]]
      BY <2>4, Zenon
    <3>2. [entries[h] EXCEPT !.node = TRUE] \in Entries
      BY <2>2 DEF Entries
    <3>3. entries[h].payload \in Reasons \cup {"none"}
      BY <2>2 DEF Entries
    <3> HIDE DEF h
    <3>4. entries' \in [Execs -> Entries]
      BY <3>1, <3>2 DEF Typed, RegTyped
    <3>5. feedback' \in [Execs -> Reasons \cup {"none"}]
      <4>1. \/ feedback' = [feedback EXCEPT ![h] = entries[h].payload]
            \/ feedback' = [feedback EXCEPT ![h] = feedback[h]]
        BY <2>4, Zenon
      <4>2. h \in Execs /\ feedback \in [Execs -> Reasons \cup {"none"}]
        BY <2>1 DEF Typed, RegTyped, h
      <4>3. PICK r \in Reasons \cup {"none"} : feedback' = [feedback EXCEPT ![h] = r]
        BY <3>3, <4>1, <4>2
      <4> QED BY <4>2, <4>3
    <3> QED BY <2>2, <3>4, <3>5 DEF Typed, RegTyped
  <2> QED BY <1>5, <2>3, <2>4 DEF ResultArrives
<1>6. CASE ClearCollected
  <2>1. Head(futures) \in Execs
    BY <1>6, TailFacts DEF ClearCollected, AgentAt, Typed, FuturesTyped, Holding
  <2>2. Cleared({Head(futures)} \ deferred) /\ (UNCHANGED feedback \/ Forget(Head(futures)))
    BY <1>6 DEF ClearCollected
  <2>3. entries' \in [Execs -> Entries] /\ shared' \in [Execs -> SharedEntries]
    BY <2>2, ClearedFacts
  <2>4. feedback' = feedback \/ feedback' = [feedback EXCEPT ![Head(futures)] = "none"]
    BY <2>1, <2>2, ForgetFacts
  <2> QED BY <2>1, <2>3, <2>4 DEF Typed, RegTyped
<1>7. CASE Cleanup
  <2>1. Cleared(deferred) /\ UNCHANGED feedback
    BY <1>7 DEF Cleanup
  <2> QED BY <2>1, ClearedFacts DEF Typed, RegTyped
<1>8. ASSUME NEW k \in Killers, Flag(k) PROVE RegTyped'
  <2>1. /\ killers[k].reason \in Reasons
        /\ Flagged({killers[k].exec}, killers[k].reason) /\ UNCHANGED feedback
    BY <1>8 DEF Flag, KillerAt, Typed, KillTyped
  <2> QED BY <2>1, FlaggedFacts DEF Typed, RegTyped
<1>9. ASSUME NEW k \in Killers, Mark(k) PROVE RegTyped'
  <2> DEFINE e == killers[k].exec
            r == killers[k].reason
  <2>1. e \in Execs /\ r \in Reasons /\ UNCHANGED shared
    BY <1>9 DEF Mark, KillerAt, Typed, KillTyped
  <2>2. entries[e] \in Entries
    BY <2>1 DEF Typed, RegTyped
  <2>3. feedback' = feedback \/ feedback' = [feedback EXCEPT ![e] = r]
    BY <1>9 DEF Mark
  <2>4. PICK n \in Entries : entries' = [entries EXCEPT ![e] = n]
    <3>1. CASE UNCHANGED entries
      <4>1. entries' = [entries EXCEPT ![e] = entries[e]]
        BY <3>1, <2>1 DEF Typed, RegTyped
      <4> QED BY <4>1, <2>2
    <3>2. CASE entries' = [entries EXCEPT ![e].status = "terminated", ![e].payload = r]
      <4>1. entries' = [entries EXCEPT ![e] = [entries[e] EXCEPT !.status = "terminated",
                                                                 !.payload = r]]
        BY <2>1, <3>2 DEF Typed, RegTyped
      <4>2. [entries[e] EXCEPT !.status = "terminated", !.payload = r] \in Entries
        BY <2>1, <2>2 DEF Entries
      <4> QED BY <4>1, <4>2
    <3> QED BY <1>9, <3>1, <3>2 DEF Mark
  <2> HIDE DEF e, r
  <2> QED BY <2>1, <2>3, <2>4 DEF Typed, RegTyped
<1>10. ASSUME NEW k \in Killers, Share(k) PROVE RegTyped'
  <2> DEFINE e == killers[k].exec
  <2>1. e \in Execs /\ UNCHANGED <<entries, feedback>>
    BY <1>10 DEF Share, KillerAt, Typed, KillTyped
  <2>2. PICK s \in {"terminated", "skip"} :
          s = IF shared[e].flag = "skip" THEN shared[e].flag ELSE "terminated"
    OBVIOUS
  <2>3. shared[e] \in SharedEntries
    BY <2>1 DEF Typed, RegTyped
  <2>4. shared' = [shared EXCEPT ![e] = [shared[e] EXCEPT !.flag = s]]
    BY <1>10, <2>1, <2>2 DEF Share, Typed, RegTyped
  <2>5. [shared[e] EXCEPT !.flag = s] \in SharedEntries
    BY <2>2, <2>3 DEF SharedEntries
  <2> HIDE DEF e
  <2> QED BY <2>1, <2>4, <2>5 DEF Typed, RegTyped
<1>11. ASSUME NEW k \in Killers, KillMisses(k) PROVE RegTyped'
  <2>1. UNCHANGED feedback /\ (Cleared({killers[k].exec}) \/ UNCHANGED <<entries, shared>>)
    BY <1>11 DEF KillMisses, regVars
  <2> QED BY <2>1, ClearedFacts DEF Typed, RegTyped
<1>12. ASSUME NEW e \in Execs, CheckSkip(e) PROVE RegTyped'
  <2>1. UNCHANGED <<entries, shared>> /\ (Ends(e, "aborted") \/ UNCHANGED feedback)
    BY <1>12 DEF CheckSkip, regVars
  <2>2. "aborted" \in WorkerStates
    BY DEF WorkerStates
  <2>3. feedback' = feedback \/ feedback' = [feedback EXCEPT ![e] = "none"]
    BY <2>1, <2>2, EndsFacts
  <2> QED BY <2>1, <2>3 DEF Typed, RegTyped
<1>13. ASSUME NEW e \in Execs, ReportPid(e) PROVE RegTyped'
  BY <1>13 DEF ReportPid, WorkerAt, WorkerGoes, agentVars, gpuVars, killVars,
     logVars, Typed, RegTyped, Entries, SharedEntries, NoShared
<1>14. ASSUME NEW e \in Execs, WorkEnds(e) PROVE RegTyped'
  <2>1. "done" \in WorkerStates /\ Ends(e, "done") /\ UNCHANGED entries
    BY <1>14 DEF WorkEnds, WorkerStates
  <2>2. feedback' = feedback \/ feedback' = [feedback EXCEPT ![e] = "none"]
    BY <2>1, EndsFacts
  <2>3. shared[e] \in SharedEntries
    BY DEF Typed, RegTyped
  <2>4. PICK s \in SharedEntries : shared' = [shared EXCEPT ![e] = s]
    <3>1. \/ shared' = [shared EXCEPT ![e] = NoShared]
          \/ shared' = [shared EXCEPT ![e].pid = FALSE]
      BY <1>14 DEF WorkEnds
    <3>2. [shared EXCEPT ![e].pid = FALSE] = [shared EXCEPT ![e] = [shared[e] EXCEPT !.pid = FALSE]]
      BY Zenon
    <3>3. NoShared \in SharedEntries /\ [shared[e] EXCEPT !.pid = FALSE] \in SharedEntries
      BY <2>3 DEF NoShared, SharedEntries
    <3> QED BY <3>1, <3>2, <3>3
  <2> QED BY <2>1, <2>2, <2>4 DEF Typed, RegTyped
<1>15. ASSUME NEW e \in Execs, OrphanEnds(e) PROVE RegTyped'
  <2>1. "failed" \in WorkerStates /\ Ends(e, "failed") /\ UNCHANGED <<entries, shared>>
    BY <1>15 DEF OrphanEnds, WorkerStates, regVars
  <2>2. feedback' = feedback \/ feedback' = [feedback EXCEPT ![e] = "none"]
    BY <2>1, EndsFacts
  <2> QED BY <2>1, <2>2 DEF Typed, RegTyped
<1>16. Killers = {"server", "agent"}
  BY DEF Killers
<1> QED BY <1>1, <1>2, <1>3, <1>4, <1>5, <1>6, <1>7, <1>8, <1>9, <1>10, <1>11,
       <1>12, <1>13, <1>14, <1>15, <1>16
  DEF Next, AgentThread, ServerThread, AgentStep, KillerStep, WorkerStep

\* The server begins a termination.
LEMMA BegunTyped ==
    ASSUME Typed, NEW e \in Execs, NEW r \in Reasons, UNCHANGED agent,
           killers' = [killers EXCEPT !["server"] = Begun(e, r)]
    PROVE  KillTyped' /\ AgentKills'
<1>1. /\ Begun(e, r) \in KillerSet /\ Begun(e, r).exec = e /\ Begun(e, r).reason = r
  BY BegunFacts
<1>2. killers'["agent"] = killers["agent"]
  BY DEF Typed, KillTyped, Killers
<1>3. KillTyped'
  BY <1>1 DEF Typed, KillTyped
<1> QED BY <1>2, <1>3 DEF Typed, AgentKills, AgentAt

\* A termination goes on.
LEMMA GoneOnTyped ==
    ASSUME Typed, NEW k \in Killers, killers[k].pc # "idle", UNCHANGED agent,
           NEW pc \in {"share", "kill"},
           killers' = [killers EXCEPT ![k] = [killers[k] EXCEPT !.pc = pc]]
    PROVE  KillTyped' /\ AgentKills'
<1>1. killers[k] \in KillerSet
  BY DEF Typed, KillTyped
<1> DEFINE r == [killers[k] EXCEPT !.pc = pc]
<1>2. r \in KillerSet /\ r.pc = pc /\ r.exec = killers[k].exec /\ r.reason = killers[k].reason
  BY <1>1 DEF KillerSet
<1>a. killers' = [killers EXCEPT ![k] = r]
  OBVIOUS
<1> HIDE DEF r
<1>3. KillTyped'
  <2>1. killers' \in [Killers -> KillerSet]
    BY <1>2, <1>a DEF Typed, KillTyped
  <2>2. ASSUME NEW j \in Killers, killers'[j].pc # "idle"
        PROVE  killers'[j].exec \in Execs /\ killers'[j].reason \in Reasons
    <3>1. killers[j].pc # "idle" /\ killers'[j].exec = killers[j].exec
          /\ killers'[j].reason = killers[j].reason
      BY <1>2, <1>a, <2>2 DEF Typed, KillTyped
    <3> QED BY <3>1 DEF Typed, KillTyped
  <2> QED BY <2>1, <2>2 DEF KillTyped
<1>4. killers'["agent"].pc # "idle" <=> killers["agent"].pc # "idle"
  BY <1>2, <1>a DEF Typed, KillTyped, Killers
<1> QED BY <1>3, <1>4 DEF Typed, AgentKills, AgentAt

\* A termination is over.
LEMMA EndedTyped ==
    ASSUME Typed, NEW k \in Killers, killers' = [killers EXCEPT ![k] = NoKiller],
           k = "agent" => AgentAt("timeout") /\ AgentGoes("restart"),
           k = "server" => UNCHANGED agent
    PROVE  KillTyped' /\ AgentKills'
<1>1. NoKiller \in KillerSet /\ NoKiller.pc = "idle"
  BY DEF NoKiller, KillerSet
<1>2. KillTyped'
  BY <1>1 DEF Typed, KillTyped
<1>3. CASE k = "agent"
  <2>1. killers'["agent"].pc = "idle"
    BY <1>1, <1>3 DEF Typed, KillTyped
  <2>2. agent'.pc = "restart"
    BY <1>3 DEF AgentGoes, Typed, AgentTyped, AgentSet
  <2> QED BY <1>2, <2>1, <2>2 DEF AgentKills, AgentAt
<1>4. CASE k = "server"
  <2>1. killers'["agent"] = killers["agent"]
    BY <1>4 DEF Typed, KillTyped, Killers
  <2> QED BY <1>2, <1>4, <2>1 DEF Typed, AgentKills, AgentAt
<1> QED BY <1>3, <1>4 DEF Killers

\* The terminations stay well typed, and the agent waits for its own.
LEMMA KillStepTyped ==
    ASSUME Typed, Next \/ UNCHANGED vars
    PROVE  KillTyped' /\ AgentKills'
<1>1. CASE \/ CancelFuture \/ SkipEnds \/ PoolBreaks \/ SkipRequested
           \/ \E e \in Execs : StartWork(e) \/ CheckSkip(e) \/ ReportPid(e) \/ CodexEnds(e)
           \/ \E e \in Execs : WorkEnds(e) \/ OrphanEnds(e)
           \/ UNCHANGED vars
  <2>1. UNCHANGED <<killers, agent>>
    BY <1>1 DEF CancelFuture, SkipEnds, PoolBreaks, SkipRequested, StartWork,
       CheckSkip, ReportPid, CodexEnds, WorkEnds, OrphanEnds, vars, agentVars,
       regVars, gpuVars, killVars, logVars
  <2> QED BY <2>1 DEF Typed, KillTyped, AgentKills, AgentAt
<1>2. CASE Publish
  <2>1. agent.pc # "timeout" /\ agent'.pc # "timeout" /\ UNCHANGED killers
    BY <1>2 DEF Publish, AgentAt, AgentGoes, regVars, gpuVars, killVars, logVars,
         Typed, AgentTyped, AgentSet
  <2> QED BY <2>1 DEF Typed, KillTyped, AgentKills, AgentAt
<1>3. CASE Consume
  <2>1. agent.pc # "timeout" /\ agent'.pc # "timeout" /\ UNCHANGED killers
    BY <1>3 DEF Consume, AgentAt, regVars, gpuVars, killVars, Typed, AgentTyped,
         AgentSet
  <2> QED BY <2>1 DEF Typed, KillTyped, AgentKills, AgentAt
<1>4. CASE PreparationFails
  <2>1. agent.pc # "timeout" /\ agent'.pc # "timeout" /\ UNCHANGED killers
    BY <1>4 DEF PreparationFails, AgentAt, regVars, gpuVars, killVars, logVars, Typed,
         AgentTyped, AgentSet
  <2> QED BY <2>1 DEF Typed, KillTyped, AgentKills, AgentAt
<1>5. CASE Submit
  <2>1. agent.pc # "timeout" /\ agent'.pc # "timeout" /\ UNCHANGED killers
    BY <1>5 DEF Submit, AgentAt, AgentGoes, regVars, gpuVars, killVars, logVars, Typed,
         AgentTyped, AgentSet
  <2> QED BY <2>1 DEF Typed, KillTyped, AgentKills, AgentAt
<1>6. CASE Register
  <2>1. agent.pc # "timeout" /\ agent'.pc # "timeout" /\ UNCHANGED killers
    BY <1>6 DEF Register, Acquire, Forgotten, AgentAt, AgentGoes, killVars, Typed,
         AgentTyped, AgentSet
  <2> QED BY <2>1 DEF Typed, KillTyped, AgentKills, AgentAt
<1>7. CASE SubmitFuture
  <2>1. agent.pc # "timeout" /\ agent'.pc # "timeout" /\ UNCHANGED killers
    BY <1>7 DEF SubmitFuture, LastExec, AgentAt, regVars, gpuVars, killVars, logVars,
         Typed, AgentTyped, AgentSet
  <2> QED BY <2>1 DEF Typed, KillTyped, AgentKills, AgentAt
<1>8. CASE SubmitFails
  <2>1. agent.pc # "timeout" /\ agent'.pc # "timeout" /\ UNCHANGED killers
    BY <1>8 DEF SubmitFails, AgentAt, regVars, gpuVars, killVars, Typed, AgentTyped,
         AgentSet
  <2> QED BY <2>1 DEF Typed, KillTyped, AgentKills, AgentAt
<1>9. CASE AbortActive
  <2>1. agent.pc # "timeout" /\ agent'.pc # "timeout" /\ UNCHANGED killers
    BY <1>9 DEF AbortActive, Flagged, AgentGoes, gpuVars, killVars, logVars, Typed,
         AgentTyped, AgentSet
  <2> QED BY <2>1 DEF Typed, KillTyped, AgentKills, AgentAt
<1>10. CASE CancelEnds
  <2>1. agent.pc # "timeout" /\ agent'.pc # "timeout" /\ UNCHANGED killers
    BY <1>10 DEF CancelEnds, AgentAt, AgentGoes, regVars, gpuVars, killVars, Typed,
         AgentTyped, AgentSet
  <2> QED BY <2>1 DEF Typed, KillTyped, AgentKills, AgentAt
<1>11. CASE Collect
  <2>1. agent.pc # "timeout" /\ agent'.pc # "timeout" /\ UNCHANGED killers
    BY <1>11 DEF Collect, AgentAt, AgentGoes, regVars, gpuVars, killVars, logVars,
         Typed, AgentTyped, AgentSet
  <2> QED BY <2>1 DEF Typed, KillTyped, AgentKills, AgentAt
<1>12. CASE ResultArrives
  <2>1. agent.pc # "timeout" /\ agent'.pc # "timeout" /\ UNCHANGED killers
    BY <1>12 DEF ResultArrives, AgentAt, AgentGoes, gpuVars, killVars, logVars, Typed,
         AgentTyped, AgentSet
  <2> QED BY <2>1 DEF Typed, KillTyped, AgentKills, AgentAt
<1>13. CASE TimesOut
  <2>1. Head(futures) \in Execs
    BY <1>13, TailFacts DEF TimesOut, AgentAt, Typed, FuturesTyped, Holding
  <2>2. CASE agent'.pc = "clear" /\ UNCHANGED killers
    BY <1>13, <2>2 DEF TimesOut, Typed, KillTyped, AgentKills, AgentAt
  <2>3. CASE /\ AgentGoes("timeout")
             /\ killers' = [killers EXCEPT !["agent"] = Begun(Head(futures), "timeout")]
    <3> DEFINE b == Begun(Head(futures), "timeout")
    <3>1. "timeout" \in Reasons
      BY DEF Reasons
    <3>2. b \in KillerSet /\ b.exec \in Execs /\ b.reason \in Reasons /\ b.pc # "idle"
      BY <2>1, <3>1, BegunFacts
    <3>3. agent'.pc = "timeout"
      BY <2>3 DEF AgentGoes, Typed, AgentTyped, AgentSet
    <3> HIDE DEF b
    <3>4. killers' = [killers EXCEPT !["agent"] = b]
      BY <2>3 DEF b
    <3>5. KillTyped'
      BY <3>2, <3>4 DEF Typed, KillTyped
    <3>6. killers'["agent"].pc # "idle"
      BY <3>2, <3>4 DEF Typed, KillTyped, Killers
    <3> QED BY <3>3, <3>5, <3>6 DEF AgentKills, AgentAt
  <2> QED BY <1>13, <2>2, <2>3 DEF TimesOut, AgentGoes, Typed, AgentTyped, AgentSet
<1>14. CASE RestartExecutor
  <2>1. agent.pc # "timeout" /\ agent'.pc # "timeout" /\ UNCHANGED killers
    BY <1>14 DEF RestartExecutor, Cancelled, AgentAt, AgentGoes, regVars, gpuVars,
         killVars, logVars, Typed, AgentTyped, AgentSet
  <2> QED BY <2>1 DEF Typed, KillTyped, AgentKills, AgentAt
<1>15. CASE ClearCollected
  <2>1. agent.pc # "timeout" /\ agent'.pc # "timeout" /\ UNCHANGED killers
    BY <1>15 DEF ClearCollected, Cleared, Released, Forget, AgentAt, AgentGoes,
         killVars, Typed, AgentTyped, AgentSet
  <2> QED BY <2>1 DEF Typed, KillTyped, AgentKills, AgentAt
<1>16. CASE Evaluate
  <2>1. agent.pc # "timeout" /\ agent'.pc # "timeout" /\ UNCHANGED killers
    BY <1>16 DEF Evaluate, AgentAt, AgentGoes, regVars, gpuVars, killVars, logVars,
         Typed, AgentTyped, AgentSet
  <2> QED BY <2>1 DEF Typed, KillTyped, AgentKills, AgentAt
<1>17. CASE StageCompletes
  <2>1. agent.pc # "timeout" /\ agent'.pc # "timeout" /\ UNCHANGED killers
    BY <1>17 DEF StageCompletes, AgentAt, AgentGoes, regVars, gpuVars, killVars,
         logVars, Typed, AgentTyped, AgentSet
  <2> QED BY <2>1 DEF Typed, KillTyped, AgentKills, AgentAt
<1>18. CASE Cleanup
  <2>1. agent.pc # "timeout" /\ agent'.pc # "timeout" /\ UNCHANGED killers
    BY <1>18 DEF Cleanup, Cancelled, Cleared, Released, AgentAt, AgentGoes, killVars,
         Typed, AgentTyped, AgentSet
  <2> QED BY <2>1 DEF Typed, KillTyped, AgentKills, AgentAt
<1>19. CASE Advance
  <2>1. agent.pc # "timeout" /\ agent'.pc # "timeout" /\ UNCHANGED killers
    BY <1>19 DEF Advance, NewStage, AgentAt, AgentGoes, regVars, gpuVars, killVars,
         Typed, AgentTyped, AgentSet
  <2> QED BY <2>1 DEF Typed, KillTyped, AgentKills, AgentAt
<1>20. CASE SkipNext
  <2>1. PICK e \in Execs : killers' = [killers EXCEPT !["server"] = Begun(e, "skip")]
    BY <1>20 DEF SkipNext, Typed, TodoSet
  <2>2. "skip" \in Reasons
    BY DEF Reasons
  <2> QED BY <1>20, <2>1, <2>2, BegunTyped DEF SkipNext, agentVars
<1>21. ASSUME NEW k \in Killers, Flag(k) PROVE KillTyped' /\ AgentKills'
  <2>1. KillerEnds(k) /\ killers[k].pc # "idle"
    BY <1>21 DEF Flag, KillerAt
  <2>2. /\ killers' = [killers EXCEPT ![k] = NoKiller]
        /\ k = "agent" => AgentAt("timeout") /\ AgentGoes("restart")
        /\ k = "server" => UNCHANGED agent
    BY <2>1, KillerEndsFacts
  <2> QED BY <2>2, EndedTyped
<1>22. ASSUME NEW k \in Killers, Mark(k) PROVE KillTyped' /\ AgentKills'
  <2>1. UNCHANGED agent /\ killers[k].pc # "idle"
    BY <1>22 DEF Mark, KillerAt, agentVars
  <2>2. PICK pc \in {"share", "kill"} : killers' = [killers EXCEPT ![k] = [killers[k] EXCEPT !.pc = pc]]
    BY <1>22 DEF Mark, KillerGoes, Typed, KillTyped
  <2> QED BY <2>1, <2>2, GoneOnTyped
<1>23. ASSUME NEW k \in Killers, Share(k) PROVE KillTyped' /\ AgentKills'
  <2>1. UNCHANGED agent /\ killers[k].pc # "idle"
    BY <1>23 DEF Share, KillerAt, agentVars
  <2>2. PICK pc \in {"kill"} : killers' = [killers EXCEPT ![k] = [killers[k] EXCEPT !.pc = pc]]
    BY <1>23 DEF Share, KillerGoes, Typed, KillTyped
  <2>3. pc \in {"share", "kill"}
    OBVIOUS
  <2> QED BY <2>3, <2>1, <2>2, GoneOnTyped
<1>24. ASSUME NEW k \in Killers, Kill(k) PROVE KillTyped' /\ AgentKills'
  <2>1. KillerEnds(k) /\ killers[k].pc # "idle"
    BY <1>24 DEF Kill, KillerAt
  <2>2. /\ killers' = [killers EXCEPT ![k] = NoKiller]
        /\ k = "agent" => AgentAt("timeout") /\ AgentGoes("restart")
        /\ k = "server" => UNCHANGED agent
    BY <2>1, KillerEndsFacts
  <2> QED BY <2>2, EndedTyped
<1>25. ASSUME NEW k \in Killers, KillMisses(k) PROVE KillTyped' /\ AgentKills'
  <2>1. KillerEnds(k) /\ killers[k].pc # "idle"
    BY <1>25 DEF KillMisses, KillerAt
  <2>2. /\ killers' = [killers EXCEPT ![k] = NoKiller]
        /\ k = "agent" => AgentAt("timeout") /\ AgentGoes("restart")
        /\ k = "server" => UNCHANGED agent
    BY <2>1, KillerEndsFacts
  <2> QED BY <2>2, EndedTyped
<1>26. ASSUME NEW e \in Execs, TerminateRequested(e) PROVE KillTyped' /\ AgentKills'
  <2>1. "user" \in Reasons
    BY DEF Reasons
  <2> QED BY <1>26, <2>1, BegunTyped DEF TerminateRequested, agentVars
<1>27. Killers = {"server", "agent"}
  BY DEF Killers
<1> QED BY <1>1, <1>2, <1>3, <1>4, <1>5, <1>6, <1>7, <1>8, <1>9, <1>10, <1>11,
       <1>12, <1>13, <1>14, <1>15, <1>16, <1>17, <1>18, <1>19, <1>20, <1>21,
       <1>22, <1>23, <1>24, <1>25, <1>26, <1>27
  DEF Next, AgentThread, ServerThread, AgentStep, KillerStep, WorkerStep

\* What is known of the past stays well typed.
LEMMA HistoryStepTyped ==
    ASSUME Typed, Next \/ UNCHANGED vars
    PROVE  history' \in HistorySet
<1>1. CASE \/ Publish \/ PreparationFails \/ Submit \/ SubmitFuture \/ SubmitFails
           \/ AbortActive \/ Collect \/ ResultArrives \/ RestartExecutor \/ Evaluate
           \/ StageCompletes \/ SkipNext \/ SkipEnds
           \/ \E k \in Killers : Mark(k) \/ Share(k) \/ KillMisses(k)
           \/ \E e \in Execs : StartWork(e) \/ ReportPid(e) \/ CodexEnds(e) \/ TerminateRequested(e)
           \/ UNCHANGED vars
  <2>1. UNCHANGED history
    BY <1>1 DEF Publish, PreparationFails, Submit, SubmitFuture, SubmitFails,
       AbortActive, Collect, ResultArrives, RestartExecutor, Evaluate,
       StageCompletes, SkipNext, SkipEnds, Mark, Share, KillMisses,
       KillerEnds, StartWork, ReportPid, CodexEnds, TerminateRequested, vars,
       agentVars, regVars, gpuVars, killVars, logVars
  <2> QED BY <2>1 DEF Typed
<1>2. CASE Consume
  <2>1. UNCHANGED history \/ history' = [history EXCEPT !.skipped = @ \cup {agent.stage}]
    BY <1>2 DEF Consume
  <2>2. agent.stage \in Stages
    BY DEF Typed, AgentTyped, AgentSet
  <2> QED BY <2>1, <2>2 DEF Typed, HistorySet
<1>3. CASE Register
  <2>1. PICK e \in Execs :
          history' = [history EXCEPT
                !.acked = @ \ {e}, !.late = @ \ {e},
                !.loose = @ \ {e}, !.started = IF SkipSeen THEN @ + 1 ELSE @]
    BY <1>3 DEF Register
  <2>2. PICK n \in Nat : n = IF SkipSeen THEN history.started + 1 ELSE history.started
    BY DEF Typed, HistorySet
  <2>3. history' = [history EXCEPT !.acked = @ \ {e}, !.late = @ \ {e},
                                   !.loose = @ \ {e}, !.started = n]
    BY <2>1, <2>2
  <2> QED BY <2>3 DEF Typed, HistorySet
<1>4. CASE CancelFuture
  <2>1. Head(futures) \in Execs /\ LetGo(Head(futures))
    BY <1>4, TailFacts DEF CancelFuture, Typed, FuturesTyped
  <2>2. \/ Forget(Head(futures))
        \/ history' = [history EXCEPT !.loose = @ \cup {Head(futures)}]
    BY <2>1 DEF LetGo
  <2>3. CASE history' = [history EXCEPT !.loose = @ \cup {Head(futures)}]
    BY <2>1, <2>3 DEF Typed, HistorySet
  <2> QED BY <2>1, <2>2, <2>3, ForgetFacts
<1>5. CASE CancelEnds
  <2>1. history' = [history EXCEPT !.skipped = @ \cup {agent.stage}]
    BY <1>5 DEF CancelEnds
  <2>2. agent.stage \in Stages
    BY DEF Typed, AgentTyped, AgentSet
  <2> QED BY <2>1, <2>2 DEF Typed, HistorySet
<1>6. CASE TimesOut
  <2>1. Head(futures) \in Execs
    BY <1>6, TailFacts DEF TimesOut, AgentAt, Typed, FuturesTyped, Holding
  <2>2. PICK L \in SUBSET Execs :
          L = IF agent.mode = "seeds" THEN history.loose \cup {Head(futures)} ELSE history.loose
    BY <2>1 DEF Typed, HistorySet
  <2>3. history' = [history EXCEPT !.late = @ \cup {Head(futures)}, !.loose = L]
    BY <1>6, <2>2 DEF TimesOut
  <2> QED BY <2>1, <2>3 DEF Typed, HistorySet
<1>7. CASE ClearCollected
  <2>1. Head(futures) \in Execs
    BY <1>7, TailFacts DEF ClearCollected, AgentAt, Typed, FuturesTyped, Holding
  <2> DEFINE h == Head(futures)
  <2>2. Forget(h) \/ history' = [history EXCEPT !.acked = @ \ {h}, !.late = @ \ {h}]
    BY <1>7 DEF ClearCollected
  <2>3. CASE history' = [history EXCEPT !.acked = @ \ {h}, !.late = @ \ {h}]
    BY <2>3 DEF Typed, HistorySet
  <2> HIDE DEF h
  <2> QED BY <2>1, <2>2, <2>3, ForgetFacts DEF h
<1>8. CASE Cleanup
  <2>1. history' = [history EXCEPT
          !.loose = @ \cup {e \in Range(futures) : workers'[e] \in Unfinished}]
    BY <1>8 DEF Cleanup
  <2>2. {e \in Range(futures) : workers'[e] \in Unfinished} \in SUBSET Execs
    BY DEF Typed, FuturesTyped, Range
  <2> QED BY <2>1, <2>2 DEF Typed, HistorySet
<1>9. CASE Advance
  <2>1. UNCHANGED history \/ NewStage
    BY <1>9 DEF Advance
  <2>2. CASE NewStage
    <3>1. history' = [history EXCEPT !.accepted = {}, !.skipped = {}, !.started = 0]
      BY <2>2 DEF NewStage
    <3>2. history \in HistorySet /\ {} \in SUBSET Stages /\ 0 \in Nat
      BY DEF Typed
    <3> QED BY <3>1, <3>2 DEF HistorySet
  <2> QED BY <2>1, <2>2 DEF Typed
<1>10. CASE PoolBreaks
  <2>1. history' = [history EXCEPT
          !.loose = @ \cup {e \in Execs : workers'[e] = "orphaned"}]
    BY <1>10 DEF PoolBreaks
  <2> QED BY <2>1 DEF Typed, HistorySet
<1>11. CASE SkipRequested
  <2>1. history' = [history EXCEPT !.accepted = @ \cup {control.stage}]
    BY <1>11 DEF SkipRequested
  <2>2. control.stage \in Stages
    BY <1>11 DEF SkipRequested, Typed, ControlSet
  <2> QED BY <2>1, <2>2 DEF Typed, HistorySet
<1>12. ASSUME NEW k \in Killers, Flag(k) PROVE history' \in HistorySet
  <2>1. killers[k].exec \in Execs
    BY <1>12 DEF Flag, KillerAt, Typed, KillTyped
  <2>2. PICK L \in SUBSET Execs : history' = [history EXCEPT !.loose = L]
    <3>1. history.loose \in SUBSET Execs /\ history.loose \cup {killers[k].exec} \in SUBSET Execs
      BY <2>1 DEF Typed, HistorySet
    <3> QED BY <1>12, <3>1 DEF Flag
  <2> QED BY <2>2 DEF Typed, HistorySet
<1>13. ASSUME NEW k \in Killers, Kill(k) PROVE history' \in HistorySet
  <2>1. killers[k].exec \in Execs
    BY <1>13 DEF Kill, KillerAt, Typed, KillTyped
  <2>2. UNCHANGED history \/ history' = [history EXCEPT !.acked = @ \cup {killers[k].exec}]
    BY <1>13 DEF Kill
  <2> QED BY <2>1, <2>2 DEF Typed, HistorySet
<1>14. ASSUME NEW e \in Execs, CheckSkip(e) PROVE history' \in HistorySet
  <2>1. UNCHANGED history \/ Ends(e, "aborted")
    BY <1>14 DEF CheckSkip
  <2> QED BY <2>1, EndsFacts DEF Typed, WorkerStates
<1>15. ASSUME NEW e \in Execs, WorkEnds(e) PROVE history' \in HistorySet
  <2>1. Ends(e, "done") /\ "done" \in WorkerStates
    BY <1>15 DEF WorkEnds, WorkerStates
  <2> QED BY <2>1, EndsFacts
<1>16. ASSUME NEW e \in Execs, OrphanEnds(e) PROVE history' \in HistorySet
  <2>1. Ends(e, "failed") /\ "failed" \in WorkerStates
    BY <1>16 DEF OrphanEnds, WorkerStates
  <2> QED BY <2>1, EndsFacts
<1>17. Killers = {"server", "agent"}
  BY DEF Killers
<1> QED BY <1>1, <1>2, <1>3, <1>4, <1>5, <1>6, <1>7, <1>8, <1>9, <1>10, <1>11,
       <1>12, <1>13, <1>14, <1>15, <1>16, <1>17
  DEF Next, AgentThread, ServerThread, AgentStep, KillerStep, WorkerStep

\* Every step keeps the state well typed.
LEMMA StepTyped == Typed /\ [Next]_vars => Typed'
<1> SUFFICES ASSUME Typed, Next \/ UNCHANGED vars PROVE Typed'
  OBVIOUS
<1>1. AgentTyped' /\ FuturesTyped'
  BY AgentStepTyped, FuturesStepTyped
<1>2. control' \in ControlSet /\ todo' \in TodoSet /\ spent' \in SpentSet /\ history' \in HistorySet
  BY ControlStepTyped, TodoStepTyped, SpentStepTyped, HistoryStepTyped
<1>3. RegTyped' /\ WorkTyped' /\ GpuTyped'
  BY RegStepTyped, WorkStepTyped, GpuStepTyped
<1>4. KillTyped' /\ AgentKills'
  BY KillStepTyped
<1>5. ControlSet' = ControlSet /\ TodoSet' = TodoSet /\ SpentSet' = SpentSet
      /\ HistorySet' = HistorySet
  BY DEF ControlSet, TodoSet, SpentSet, HistorySet
<1> QED BY <1>1, <1>2, <1>3, <1>4, <1>5 DEF Typed

\* The states of the pod are always well typed.
THEOREM TypeCorrect == Spec => []TypeOK
<1>1. Typed => TypeOK
  BY DEF Typed, TypeOK, AgentTyped, AgentSet, Counts, FuturesTyped, ControlSet,
       RegTyped,
         KillTyped, KillerSet, TodoSet, WorkTyped, GpuTyped, HistorySet, SpentSet
<1> QED BY <1>1, InitTyped, StepTyped, PTL DEF Spec

-----------------------------------------------------------------------------
(* The batch.                                                               *)

\* Appending an execution the batch does not have keeps its members distinct.
LEMMA AppendDistinct ==
    ASSUME NEW S, NEW s \in Seq(S), NEW e \in S, e \notin Range(s),
           \A i, j \in DOMAIN s : s[i] = s[j] => i = j
    PROVE  \A i, j \in DOMAIN Append(s, e) : Append(s, e)[i] = Append(s, e)[j] => i = j
<1> DEFINE t == Append(s, e)
<1>1. /\ DOMAIN t = 1..Len(s) + 1 /\ DOMAIN s = 1..Len(s) /\ Len(s) \in Nat
      /\ t[Len(s) + 1] = e /\ \A i \in 1..Len(s) : t[i] = s[i]
  OBVIOUS
<1>2. \A i \in 1..Len(s) : s[i] # e
  BY <1>1 DEF Range
<1> HIDE DEF t
<1>3. SUFFICES ASSUME NEW i \in DOMAIN t, NEW j \in DOMAIN t, t[i] = t[j] PROVE i = j
  BY DEF t
<1>4. CASE i = Len(s) + 1 /\ j = Len(s) + 1
  BY <1>4
<1>5. CASE i \in 1..Len(s) /\ j \in 1..Len(s)
  BY <1>1, <1>3, <1>5
<1>6. CASE i \in 1..Len(s) /\ j = Len(s) + 1
  BY <1>1, <1>2, <1>3, <1>6
<1>7. CASE i = Len(s) + 1 /\ j \in 1..Len(s)
  BY <1>1, <1>2, <1>3, <1>7
<1> QED BY <1>1, <1>4, <1>5, <1>6, <1>7

\* Nor is the head of such a sequence among the rest.
LEMMA TailDistinct ==
    ASSUME NEW S, NEW s \in Seq(S), s # <<>>,
           \A i, j \in DOMAIN s : s[i] = s[j] => i = j
    PROVE  /\ \A i, j \in DOMAIN Tail(s) : Tail(s)[i] = Tail(s)[j] => i = j
           /\ Head(s) \notin Range(Tail(s))
<1> DEFINE t == Tail(s)
<1>1. /\ DOMAIN t = 1..Len(s) - 1 /\ DOMAIN s = 1..Len(s) /\ Len(s) \in Nat /\ Len(s) > 0
      /\ \A i \in 1..Len(s) - 1 : t[i] = s[i + 1]
      /\ Head(s) = s[1]
  OBVIOUS
<1> HIDE DEF t
<1>2. ASSUME NEW i \in DOMAIN t, NEW j \in DOMAIN t, t[i] = t[j] PROVE i = j
  <2>1. i + 1 \in DOMAIN s /\ j + 1 \in DOMAIN s /\ s[i + 1] = s[j + 1]
    BY <1>1, <1>2
  <2>2. i + 1 = j + 1
    BY <2>1
  <2> QED BY <1>1, <2>2
<1>3. ASSUME NEW i \in DOMAIN t PROVE t[i] # Head(s)
  <2>1. i + 1 \in DOMAIN s /\ 1 \in DOMAIN s /\ i + 1 # 1 /\ t[i] = s[i + 1]
    BY <1>1
  <2> QED BY <1>1, <2>1
<1>4. Head(s) \notin Range(t)
  BY <1>3 DEF Range
<1> QED BY <1>2, <1>4 DEF t

\* What the agent takes from its batch is no longer in it, and nothing else.
LEMMA HeadLeaves ==
    ASSUME Typed, Batches, futures # <<>>, futures' = Tail(futures)
    PROVE  /\ Head(futures) \in Batch
           /\ Batch' = Batch \ {Head(futures)}
           /\ \A i, j \in DOMAIN futures' : futures'[i] = futures'[j] => i = j
<1>1. futures \in Seq(Execs) /\ \A i, j \in DOMAIN futures : futures[i] = futures[j] => i = j
  BY DEF Typed, FuturesTyped, Batches
<1>2. /\ Head(futures) \in Range(futures)
      /\ Range(futures) = Range(Tail(futures)) \cup {Head(futures)}
  BY <1>1, TailFacts
<1>3. /\ Head(futures) \notin Range(Tail(futures))
      /\ \A i, j \in DOMAIN Tail(futures) : Tail(futures)[i] = Tail(futures)[j] => i = j
  BY <1>1, TailDistinct
<1> QED BY <1>2, <1>3 DEF Batch

\* What the agent registers was in no batch; it is the last of the new one.
LEMMA LastJoins ==
    ASSUME Typed, Batches, NEW e \in Execs, e \notin Batch, futures' = Append(futures, e)
    PROVE  /\ Batch' = Batch \cup {e} /\ LastExec' = e
           /\ \A i, j \in DOMAIN futures' : futures'[i] = futures'[j] => i = j
<1>1. futures \in Seq(Execs) /\ \A i, j \in DOMAIN futures : futures[i] = futures[j] => i = j
  BY DEF Typed, FuturesTyped, Batches
<1>2. /\ Range(Append(futures, e)) = Range(futures) \cup {e}
      /\ Append(futures, e)[Len(Append(futures, e))] = e
  BY <1>1, AppendFacts
<1>3. \A i, j \in DOMAIN Append(futures, e) :
         Append(futures, e)[i] = Append(futures, e)[j] => i = j
  BY <1>1, AppendDistinct DEF Batch
<1> QED BY <1>2, <1>3 DEF Batch, LastExec

\* The head and the last of a batch are in it.
LEMMA HeadAndLast ==
    ASSUME Typed, futures # <<>>
    PROVE  /\ Head(futures) \in Execs /\ Head(futures) \in Batch
           /\ LastExec \in Execs /\ LastExec \in Batch
<1>1. futures \in Seq(Execs)
  BY DEF Typed, FuturesTyped
<1>2. Head(futures) \in Execs /\ Head(futures) \in Range(futures)
  BY <1>1, TailFacts
<1>3. Len(futures) \in DOMAIN futures /\ futures[Len(futures)] \in Execs
  BY <1>1
<1> QED BY <1>2, <1>3 DEF Batch, LastExec, Range

\* An execution that is registered is referred to by nobody.
LEMMA RegisterFacts ==
    ASSUME Typed, Batches, Register
    PROVE  \E e \in Execs :
             /\ Forgotten(e) /\ e \notin Batch /\ e \notin deferred
             /\ Acquire(e)
             /\ Batch' = Batch \cup {e} /\ LastExec' = e
             /\ workers' = [workers EXCEPT ![e] = "none"]
             /\ shared' = [shared EXCEPT ![e] = NoShared]
             /\ \A f \in Execs : f # e => entries'[f] = entries[f] /\ feedback'[f] = feedback[f]
             /\ history'.acked = history.acked \ {e} /\ history'.late = history.late \ {e}
             /\ history'.loose = history.loose \ {e}
             /\ UNCHANGED <<deferred, killers>>
             /\ agent.pc = "register" /\ agent'.pc = "future"
<1>1. PICK e \in Execs, node \in BOOLEAN :
          /\ Forgotten(e) /\ Acquire(e)
          /\ entries' = [entries EXCEPT ![e] =
                [status |-> "running", payload |-> "none", node |-> node]]
          /\ shared' = [shared EXCEPT ![e] = NoShared]
          /\ workers' = [workers EXCEPT ![e] = "none"]
          /\ feedback' = [feedback EXCEPT ![e] = "none"]
          /\ futures' = Append(futures, e)
          /\ history' = [history EXCEPT
                !.acked = @ \ {e}, !.late = @ \ {e},
                !.loose = @ \ {e}, !.started = IF SkipSeen THEN @ + 1 ELSE @]
  BY DEF Register
<1>2. e \notin Batch /\ e \notin deferred
  BY <1>1 DEF Forgotten, Batch
<1>3. Batch' = Batch \cup {e} /\ LastExec' = e
  BY <1>1, <1>2, LastJoins
<1>4. /\ history'.acked = history.acked \ {e} /\ history'.late = history.late \ {e}
      /\ history'.loose = history.loose \ {e}
  BY <1>1 DEF Typed, HistorySet
<1>5. \A f \in Execs : f # e => entries'[f] = entries[f] /\ feedback'[f] = feedback[f]
  BY <1>1 DEF Typed, RegTyped
<1>6. agent.pc = "register" /\ agent'.pc = "future" /\ UNCHANGED <<deferred, killers>>
  BY DEF Register, AgentAt, AgentGoes, Typed, AgentTyped, AgentSet, killVars
<1> QED BY <1>1, <1>2, <1>3, <1>4, <1>5, <1>6

\* The batch keeps its members distinct and free of what is to be cleared later.
LEMMA BatchesStep ==
    ASSUME Typed, Batches, Next \/ UNCHANGED vars
    PROVE  Batches'
<1>1. CASE \/ SkipNext \/ SkipEnds \/ PoolBreaks \/ SkipRequested
           \/ \E k \in Killers : Mark(k) \/ Share(k)
           \/ \E e \in Execs : StartWork(e) \/ CheckSkip(e) \/ ReportPid(e) \/ CodexEnds(e)
           \/ \E e \in Execs : WorkEnds(e) \/ OrphanEnds(e) \/ TerminateRequested(e)
           \/ UNCHANGED vars
  <2>1. UNCHANGED <<futures, deferred, agent>>
    BY <1>1 DEF SkipNext, SkipEnds, PoolBreaks, SkipRequested, Mark, Share,
       StartWork, CheckSkip, ReportPid, CodexEnds, WorkEnds, OrphanEnds,
       TerminateRequested, vars, agentVars, regVars, gpuVars, killVars,
       logVars
  <2> QED BY <2>1 DEF Batches, Batch, AgentAt
<1>2. CASE Publish
  <2>1. agent.pc # "clear" /\ UNCHANGED <<futures, deferred>>
    BY <1>2 DEF Publish, AgentAt, AgentGoes, regVars, gpuVars, killVars, logVars
  <2> QED BY <2>1 DEF Batches, Batch, AgentAt
<1>3. CASE Consume
  <2>1. agent.pc # "clear" /\ UNCHANGED <<futures, deferred>>
    BY <1>3 DEF Consume, AgentAt, regVars, gpuVars, killVars
  <2> QED BY <2>1 DEF Batches, Batch, AgentAt
<1>4. CASE PreparationFails
  <2>1. agent.pc # "clear" /\ UNCHANGED <<futures, deferred>>
    BY <1>4 DEF PreparationFails, AgentAt, regVars, gpuVars, killVars, logVars
  <2> QED BY <2>1 DEF Batches, Batch, AgentAt
<1>5. CASE Submit
  <2>1. agent.pc # "clear" /\ UNCHANGED <<futures, deferred>>
    BY <1>5 DEF Submit, AgentAt, AgentGoes, regVars, gpuVars, killVars, logVars
  <2> QED BY <2>1 DEF Batches, Batch, AgentAt
<1>6. CASE Register
  <2>1. PICK e \in Execs : e \notin Batch /\ e \notin deferred /\ Batch' = Batch \cup {e}
                           /\ UNCHANGED deferred /\ agent.pc = "register"
    BY <1>6, RegisterFacts
  <2>2. PICK f \in Execs : futures' = Append(futures, f) /\ Forgotten(f)
    BY <1>6 DEF Register
  <2>3. \A i, j \in DOMAIN futures' : futures'[i] = futures'[j] => i = j
    BY <2>2, LastJoins DEF Forgotten, Batch
  <2>4. deferred' \cap Batch' = {}
    BY <2>1 DEF Batches, AgentAt
  <2> QED BY <2>3, <2>4 DEF Batches
<1>7. CASE SubmitFuture
  <2>1. agent.pc # "clear" /\ UNCHANGED <<futures, deferred>>
    BY <1>7 DEF SubmitFuture, LastExec, AgentAt, regVars, gpuVars, killVars, logVars
  <2> QED BY <2>1 DEF Batches, Batch, AgentAt
<1>8. CASE SubmitFails
  <2>1. agent.pc # "clear" /\ UNCHANGED <<futures, deferred>>
    BY <1>8 DEF SubmitFails, AgentAt, regVars, gpuVars, killVars
  <2> QED BY <2>1 DEF Batches, Batch, AgentAt
<1>9. CASE AbortActive
  <2>1. agent.pc # "clear" /\ UNCHANGED <<futures, deferred>>
    BY <1>9 DEF AbortActive, Flagged, AgentGoes, gpuVars, killVars, logVars
  <2> QED BY <2>1 DEF Batches, Batch, AgentAt
<1>10. CASE CancelFuture
  <2>1. futures # <<>> /\ futures' = Tail(futures) /\ UNCHANGED deferred /\ agent.pc = "cancel"
    BY <1>10 DEF CancelFuture, AgentAt, Typed, FuturesTyped, Holding
  <2>2. /\ Batch' = Batch \ {Head(futures)}
        /\ \A i, j \in DOMAIN futures' : futures'[i] = futures'[j] => i = j
    BY <2>1, HeadLeaves
  <2>3. deferred' \cap Batch' = {}
    BY <2>1, <2>2 DEF Batches, AgentAt
  <2> QED BY <2>2, <2>3 DEF Batches
<1>11. CASE CancelEnds
  <2>1. agent.pc # "clear" /\ UNCHANGED <<futures, deferred>>
    BY <1>11 DEF CancelEnds, AgentAt, AgentGoes, regVars, gpuVars, killVars
  <2> QED BY <2>1 DEF Batches, Batch, AgentAt
<1>12. CASE Collect
  <2>1. agent.pc # "clear" /\ UNCHANGED <<futures, deferred>>
    BY <1>12 DEF Collect, AgentAt, AgentGoes, regVars, gpuVars, killVars, logVars
  <2> QED BY <2>1 DEF Batches, Batch, AgentAt
<1>13. CASE ResultArrives
  <2>1. agent.pc # "clear" /\ UNCHANGED <<futures, deferred>>
    BY <1>13 DEF ResultArrives, AgentAt, AgentGoes, gpuVars, killVars, logVars
  <2> QED BY <2>1 DEF Batches, Batch, AgentAt
<1>14. CASE TimesOut
  <2>1. agent.pc # "clear" /\ UNCHANGED <<futures, deferred>>
    BY <1>14 DEF TimesOut, AgentAt, AgentGoes, regVars, gpuVars
  <2> QED BY <2>1 DEF Batches, Batch, AgentAt
<1>15. CASE RestartExecutor
  <2>1. /\ agent.pc = "restart" /\ agent'.pc = "clear" /\ UNCHANGED futures
        /\ deferred' = deferred \cup {Head(futures)}
    BY <1>15 DEF RestartExecutor, AgentAt, AgentGoes, Typed, AgentTyped, AgentSet
  <2> QED BY <2>1 DEF Batches, Batch, AgentAt
<1>16. CASE ClearCollected
  <2>1. futures # <<>> /\ futures' = Tail(futures) /\ UNCHANGED deferred /\ agent.pc = "clear"
    BY <1>16 DEF ClearCollected, AgentAt, Typed, FuturesTyped, Holding
  <2>2. /\ Batch' = Batch \ {Head(futures)}
        /\ \A i, j \in DOMAIN futures' : futures'[i] = futures'[j] => i = j
    BY <2>1, HeadLeaves
  <2>3. deferred' \cap Batch' = {}
    BY <2>1, <2>2 DEF Batches, AgentAt
  <2> QED BY <2>2, <2>3 DEF Batches
<1>17. CASE Evaluate
  <2>1. agent.pc # "clear" /\ UNCHANGED <<futures, deferred>>
    BY <1>17 DEF Evaluate, AgentAt, AgentGoes, regVars, gpuVars, killVars, logVars
  <2> QED BY <2>1 DEF Batches, Batch, AgentAt
<1>18. CASE StageCompletes
  <2>1. agent.pc # "clear" /\ UNCHANGED <<futures, deferred>>
    BY <1>18 DEF StageCompletes, AgentAt, AgentGoes, regVars, gpuVars, killVars, logVars
  <2> QED BY <2>1 DEF Batches, Batch, AgentAt
<1>19. CASE Cleanup
  <2>1. UNCHANGED futures /\ deferred' = {}
    BY <1>19 DEF Cleanup
  <2> QED BY <2>1 DEF Batches, Batch
<1>20. CASE Advance
  <2>1. agent.pc # "clear" /\ UNCHANGED <<futures, deferred>>
    BY <1>20 DEF Advance, NewStage, AgentAt, AgentGoes, regVars, gpuVars, killVars
  <2> QED BY <2>1 DEF Batches, Batch, AgentAt
<1>21. ASSUME NEW k \in Killers, Flag(k) PROVE Batches'
  <2>1. KillerEnds(k) /\ killers[k].pc # "idle" /\ UNCHANGED <<futures, deferred>>
    BY <1>21 DEF Flag, KillerAt
  <2>2. UNCHANGED agent \/ AgentAt("timeout")
    BY <2>1, KillerEndsFacts DEF Killers
  <2> QED BY <2>1, <2>2 DEF Batches, Batch, AgentAt
<1>22. ASSUME NEW k \in Killers, Kill(k) PROVE Batches'
  <2>1. KillerEnds(k) /\ killers[k].pc # "idle" /\ UNCHANGED <<futures, deferred>>
    BY <1>22 DEF Kill, KillerAt
  <2>2. UNCHANGED agent \/ AgentAt("timeout")
    BY <2>1, KillerEndsFacts DEF Killers
  <2> QED BY <2>1, <2>2 DEF Batches, Batch, AgentAt
<1>23. ASSUME NEW k \in Killers, KillMisses(k) PROVE Batches'
  <2>1. KillerEnds(k) /\ killers[k].pc # "idle" /\ UNCHANGED <<futures, deferred>>
    BY <1>23 DEF KillMisses, KillerAt
  <2>2. UNCHANGED agent \/ AgentAt("timeout")
    BY <2>1, KillerEndsFacts DEF Killers
  <2> QED BY <2>1, <2>2 DEF Batches, Batch, AgentAt
<1>24. Killers = {"server", "agent"}
  BY DEF Killers
<1> QED BY <1>1, <1>2, <1>3, <1>4, <1>5, <1>6, <1>7, <1>8, <1>9, <1>10, <1>11,
       <1>12, <1>13, <1>14, <1>15, <1>16, <1>17, <1>18, <1>19, <1>20, <1>21,
       <1>22, <1>23, <1>24
  DEF Next, AgentThread, ServerThread, AgentStep, KillerStep, WorkerStep

-----------------------------------------------------------------------------
(* What is kept of the past.                                                *)

\* What is late stays late while the agent has not collected it; what it has let
\* go of stays so until it is forgotten.
PastIsKept ==
    \A f \in Execs :
       /\ f \in history.late => f \in history.late' \/ f \notin Batch \/ f \notin Batch'
       /\ f \in history.loose => f \in history.loose' \/ workers'[f] = "none"

\* The past is kept by every step.
LEMMA PastKept ==
    ASSUME Typed, Batches, Next \/ UNCHANGED vars
    PROVE  PastIsKept
<1> USE DEF PastIsKept
<1>1. CASE \/ Publish \/ PreparationFails \/ Submit \/ SubmitFuture \/ SubmitFails
           \/ AbortActive \/ Collect \/ ResultArrives \/ RestartExecutor \/ Evaluate
           \/ StageCompletes \/ SkipNext \/ SkipEnds
           \/ \E k \in Killers : Mark(k) \/ Share(k) \/ KillMisses(k)
           \/ \E e \in Execs : StartWork(e) \/ ReportPid(e) \/ CodexEnds(e) \/ TerminateRequested(e)
           \/ UNCHANGED vars
  <2>1. UNCHANGED history
    BY <1>1 DEF Publish, PreparationFails, Submit, SubmitFuture, SubmitFails,
       AbortActive, Collect, ResultArrives, RestartExecutor, Evaluate,
       StageCompletes, SkipNext, SkipEnds, Mark, Share, KillMisses,
       KillerEnds, StartWork, ReportPid, CodexEnds, TerminateRequested, vars,
       agentVars, regVars, gpuVars, killVars, logVars
  <2> QED BY <2>1
<1>2. CASE Consume
  <2>1. UNCHANGED history \/ history' = [history EXCEPT !.skipped = @ \cup {agent.stage}]
    BY <1>2 DEF Consume
  <2>2. history'.late = history.late /\ history'.loose = history.loose
    BY <2>1 DEF Typed, HistorySet
  <2> QED BY <2>2
<1>3. CASE Register
  <2>1. PICK e \in Execs : /\ e \notin Batch /\ workers' = [workers EXCEPT ![e] = "none"]
                           /\ history'.late = history.late \ {e}
                           /\ history'.loose = history.loose \ {e}
    BY <1>3, RegisterFacts
  <2> QED BY <2>1 DEF Typed, WorkTyped
<1>4. CASE CancelFuture
  <2> DEFINE h == Head(futures)
  <2>1. futures # <<>> /\ futures' = Tail(futures) /\ LetGo(h)
    BY <1>4 DEF CancelFuture
  <2>2. h \in Execs /\ h \in Batch /\ Batch' = Batch \ {h}
    BY <2>1, HeadLeaves, HeadAndLast
  <2>3. CASE Forget(h)
    <3>1. /\ workers' = [workers EXCEPT ![h] = "none"]
          /\ history'.late = history.late \ {h} /\ history'.loose = history.loose \ {h}
      BY <2>2, <2>3, ForgetFacts
    <3> QED BY <2>2, <3>1 DEF Typed, WorkTyped
  <2>4. CASE history' = [history EXCEPT !.loose = @ \cup {h}]
    <3>1. history'.late = history.late /\ history'.loose = history.loose \cup {h}
      BY <2>4 DEF Typed, HistorySet
    <3> QED BY <3>1
  <2> QED BY <2>1, <2>3, <2>4 DEF LetGo
<1>5. CASE CancelEnds
  <2>1. history' = [history EXCEPT !.skipped = @ \cup {agent.stage}]
    BY <1>5 DEF CancelEnds
  <2>2. history'.late = history.late /\ history'.loose = history.loose
    BY <2>1 DEF Typed, HistorySet
  <2> QED BY <2>2
<1>6. CASE TimesOut
  <2>1. PICK L : L = (IF agent.mode = "seeds" THEN history.loose \cup {Head(futures)}
                     ELSE history.loose)
    OBVIOUS
  <2>2. history' = [history EXCEPT !.late = @ \cup {Head(futures)}, !.loose = L]
    BY <1>6, <2>1 DEF TimesOut
  <2>3. history'.late = history.late \cup {Head(futures)} /\ history'.loose = L
    BY <2>2 DEF Typed, HistorySet
  <2> QED BY <2>1, <2>3
<1>7. CASE ClearCollected
  <2> DEFINE h == Head(futures)
  <2>1. /\ futures # <<>> /\ futures' = Tail(futures)
        /\ Forget(h) \/ history' = [history EXCEPT !.acked = @ \ {h}, !.late = @ \ {h}]
    BY <1>7 DEF ClearCollected, AgentAt, Typed, FuturesTyped, Holding
  <2>2. h \in Execs /\ h \in Batch /\ Batch' = Batch \ {h}
    BY <2>1, HeadLeaves, HeadAndLast
  <2>3. CASE Forget(h)
    <3>1. /\ workers' = [workers EXCEPT ![h] = "none"]
          /\ history'.late = history.late \ {h} /\ history'.loose = history.loose \ {h}
      BY <2>2, <2>3, ForgetFacts
    <3> QED BY <2>2, <3>1 DEF Typed, WorkTyped
  <2>4. CASE history' = [history EXCEPT !.acked = @ \ {h}, !.late = @ \ {h}]
    <3>1. history'.late = history.late \ {h} /\ history'.loose = history.loose
      BY <2>4 DEF Typed, HistorySet
    <3> QED BY <2>2, <3>1
  <2> QED BY <2>1, <2>3, <2>4
<1>8. CASE Cleanup
  <2>1. PICK L : history' = [history EXCEPT !.loose = @ \cup L]
    BY <1>8 DEF Cleanup
  <2>2. history'.late = history.late /\ history'.loose = history.loose \cup L
    BY <2>1 DEF Typed, HistorySet
  <2> QED BY <2>2
<1>9. CASE Advance
  <2>1. UNCHANGED history \/ history' = [history EXCEPT !.accepted = {}, !.skipped = {}, !.started = 0]
    BY <1>9 DEF Advance, NewStage
  <2>2. history'.late = history.late /\ history'.loose = history.loose
    BY <2>1 DEF Typed, HistorySet
  <2> QED BY <2>2
<1>10. CASE PoolBreaks
  <2>1. PICK L : history' = [history EXCEPT !.loose = @ \cup L]
    BY <1>10 DEF PoolBreaks
  <2>2. history'.late = history.late /\ history'.loose = history.loose \cup L
    BY <2>1 DEF Typed, HistorySet
  <2> QED BY <2>2
<1>11. CASE SkipRequested
  <2>1. history' = [history EXCEPT !.accepted = @ \cup {control.stage}]
    BY <1>11 DEF SkipRequested
  <2>2. history'.late = history.late /\ history'.loose = history.loose
    BY <2>1 DEF Typed, HistorySet
  <2> QED BY <2>2
<1>12. ASSUME NEW k \in Killers, Flag(k) PROVE PastIsKept
  <2>1. PICK L : /\ history' = [history EXCEPT !.loose = L]
                 /\ L = history.loose \/ L = history.loose \cup {killers[k].exec}
    BY <1>12 DEF Flag
  <2>2. history'.late = history.late /\ history'.loose = L
    BY <2>1 DEF Typed, HistorySet
  <2> QED BY <2>1, <2>2
<1>13. ASSUME NEW k \in Killers, Kill(k) PROVE PastIsKept
  <2>1. UNCHANGED history \/ history' = [history EXCEPT !.acked = @ \cup {killers[k].exec}]
    BY <1>13 DEF Kill
  <2>2. history'.late = history.late /\ history'.loose = history.loose
    BY <2>1 DEF Typed, HistorySet
  <2> QED BY <2>2
<1>14. ASSUME NEW e \in Execs, CheckSkip(e) PROVE PastIsKept
  <2>1. UNCHANGED history \/ Ends(e, "aborted")
    BY <1>14 DEF CheckSkip
  <2>2. "aborted" \in WorkerStates
    BY DEF WorkerStates
  <2>3. CASE UNCHANGED history \/ e \in Batch
    BY <2>1, <2>2, <2>3, EndsFacts DEF Batch
  <2>4. CASE e \notin Batch /\ Ends(e, "aborted")
    <3>1. /\ workers' = [workers EXCEPT ![e] = "none"]
          /\ history'.late = history.late \ {e} /\ history'.loose = history.loose \ {e}
      BY <2>2, <2>4, EndsFacts DEF Batch
    <3> QED BY <2>4, <3>1 DEF Typed, WorkTyped
  <2> QED BY <2>1, <2>3, <2>4
<1>15. ASSUME NEW e \in Execs, WorkEnds(e) PROVE PastIsKept
  <2>1. Ends(e, "done") /\ UNCHANGED futures
    BY <1>15 DEF WorkEnds, agentVars
  <2>2. "done" \in WorkerStates
    BY DEF WorkerStates
  <2>3. CASE e \in Batch
    BY <2>1, <2>2, <2>3, EndsFacts DEF Batch
  <2>4. CASE e \notin Batch
    <3>1. /\ workers' = [workers EXCEPT ![e] = "none"]
          /\ history'.late = history.late \ {e} /\ history'.loose = history.loose \ {e}
      BY <2>1, <2>2, <2>4, EndsFacts DEF Batch
    <3> QED BY <2>4, <3>1 DEF Typed, WorkTyped
  <2> QED BY <2>3, <2>4
<1>16. ASSUME NEW e \in Execs, OrphanEnds(e) PROVE PastIsKept
  <2>1. Ends(e, "failed") /\ UNCHANGED futures
    BY <1>16 DEF OrphanEnds, agentVars
  <2>2. "failed" \in WorkerStates
    BY DEF WorkerStates
  <2>3. CASE e \in Batch
    BY <2>1, <2>2, <2>3, EndsFacts DEF Batch
  <2>4. CASE e \notin Batch
    <3>1. /\ workers' = [workers EXCEPT ![e] = "none"]
          /\ history'.late = history.late \ {e} /\ history'.loose = history.loose \ {e}
      BY <2>1, <2>2, <2>4, EndsFacts DEF Batch
    <3> QED BY <2>4, <3>1 DEF Typed, WorkTyped
  <2> QED BY <2>3, <2>4
<1>17. Killers = {"server", "agent"}
  BY DEF Killers
<1> QED BY <1>1, <1>2, <1>3, <1>4, <1>5, <1>6, <1>7, <1>8, <1>9, <1>10, <1>11,
       <1>12, <1>13, <1>14, <1>15, <1>16, <1>17
  DEF Next, AgentThread, ServerThread, AgentStep, KillerStep, WorkerStep

-----------------------------------------------------------------------------
(* The terminations.                                                        *)

\* What the agent has timed out stays late until it has been collected.
LEMMA LateHead ==
    ASSUME Typed, Batches, Terminations, Next \/ UNCHANGED vars, UNCHANGED futures,
           agent.pc \in {"timeout", "restart"}
    PROVE  Head(futures) \in history'.late
<1>1. Head(futures) \in Execs /\ Head(futures) \in Batch /\ Batch' = Batch
  BY HeadAndLast DEF Typed, FuturesTyped, Holding, Batch
<1>2. Head(futures) \in history.late
  BY DEF Terminations
<1> QED BY <1>1, <1>2, PastKept DEF PastIsKept

\* The agent terminates only the head of its batch, and only what is late; the
\* server acts for a user or a skip.
LEMMA TerminationsStep ==
    ASSUME Typed, Batches, Terminations, Next \/ UNCHANGED vars
    PROVE  Terminations'
<1>1. CASE \/ SkipEnds
           \/ \E e \in Execs : StartWork(e) \/ ReportPid(e) \/ CodexEnds(e)
           \/ UNCHANGED vars
  <2>1. UNCHANGED <<killers, agent, futures, history>>
    BY <1>1 DEF SkipEnds, StartWork, ReportPid, CodexEnds, vars, agentVars,
       regVars, gpuVars, killVars, logVars
  <2> QED BY <2>1 DEF Terminations
<1>2. CASE Publish
  <2>1. /\ agent.pc # "timeout" /\ agent'.pc \notin {"timeout", "restart"}
        /\ UNCHANGED killers
    BY <1>2 DEF Publish, AgentAt, AgentGoes, regVars, gpuVars, killVars, logVars,
         Typed, AgentTyped, AgentSet
  <2> QED BY <2>1 DEF Typed, AgentKills, AgentAt, Terminations
<1>3. CASE Consume
  <2>1. /\ agent.pc # "timeout" /\ agent'.pc \notin {"timeout", "restart"}
        /\ UNCHANGED killers
    BY <1>3 DEF Consume, AgentAt, regVars, gpuVars, killVars, Typed, AgentTyped,
         AgentSet
  <2> QED BY <2>1 DEF Typed, AgentKills, AgentAt, Terminations
<1>4. CASE PreparationFails
  <2>1. /\ agent.pc # "timeout" /\ agent'.pc \notin {"timeout", "restart"}
        /\ UNCHANGED killers
    BY <1>4 DEF PreparationFails, AgentAt, regVars, gpuVars, killVars, logVars, Typed,
         AgentTyped, AgentSet
  <2> QED BY <2>1 DEF Typed, AgentKills, AgentAt, Terminations
<1>5. CASE Submit
  <2>1. /\ agent.pc # "timeout" /\ agent'.pc \notin {"timeout", "restart"}
        /\ UNCHANGED killers
    BY <1>5 DEF Submit, AgentAt, AgentGoes, regVars, gpuVars, killVars, logVars, Typed,
         AgentTyped, AgentSet
  <2> QED BY <2>1 DEF Typed, AgentKills, AgentAt, Terminations
<1>6. CASE Register
  <2>1. /\ agent.pc # "timeout" /\ agent'.pc \notin {"timeout", "restart"}
        /\ UNCHANGED killers
    BY <1>6 DEF Register, Acquire, Forgotten, AgentAt, AgentGoes, killVars, Typed,
         AgentTyped, AgentSet
  <2> QED BY <2>1 DEF Typed, AgentKills, AgentAt, Terminations
<1>7. CASE SubmitFuture
  <2>1. /\ agent.pc # "timeout" /\ agent'.pc \notin {"timeout", "restart"}
        /\ UNCHANGED killers
    BY <1>7 DEF SubmitFuture, LastExec, AgentAt, regVars, gpuVars, killVars, logVars,
         Typed, AgentTyped, AgentSet
  <2> QED BY <2>1 DEF Typed, AgentKills, AgentAt, Terminations
<1>8. CASE SubmitFails
  <2>1. /\ agent.pc # "timeout" /\ agent'.pc \notin {"timeout", "restart"}
        /\ UNCHANGED killers
    BY <1>8 DEF SubmitFails, AgentAt, regVars, gpuVars, killVars, Typed, AgentTyped,
         AgentSet
  <2> QED BY <2>1 DEF Typed, AgentKills, AgentAt, Terminations
<1>9. CASE AbortActive
  <2>1. /\ agent.pc # "timeout" /\ agent'.pc \notin {"timeout", "restart"}
        /\ UNCHANGED killers
    BY <1>9 DEF AbortActive, Flagged, AgentGoes, gpuVars, killVars, logVars, Typed,
         AgentTyped, AgentSet
  <2> QED BY <2>1 DEF Typed, AgentKills, AgentAt, Terminations
<1>10. CASE CancelFuture
  <2>1. /\ agent.pc # "timeout" /\ agent'.pc \notin {"timeout", "restart"}
        /\ UNCHANGED killers
    BY <1>10 DEF CancelFuture, LetGo, Forget, Cleared, Released, AgentAt, killVars,
         Typed, AgentTyped, AgentSet
  <2> QED BY <2>1 DEF Typed, AgentKills, AgentAt, Terminations
<1>11. CASE CancelEnds
  <2>1. /\ agent.pc # "timeout" /\ agent'.pc \notin {"timeout", "restart"}
        /\ UNCHANGED killers
    BY <1>11 DEF CancelEnds, AgentAt, AgentGoes, regVars, gpuVars, killVars, Typed,
         AgentTyped, AgentSet
  <2> QED BY <2>1 DEF Typed, AgentKills, AgentAt, Terminations
<1>12. CASE Collect
  <2>1. /\ agent.pc # "timeout" /\ agent'.pc \notin {"timeout", "restart"}
        /\ UNCHANGED killers
    BY <1>12 DEF Collect, AgentAt, AgentGoes, regVars, gpuVars, killVars, logVars,
         Typed, AgentTyped, AgentSet
  <2> QED BY <2>1 DEF Typed, AgentKills, AgentAt, Terminations
<1>13. CASE ResultArrives
  <2>1. /\ agent.pc # "timeout" /\ agent'.pc \notin {"timeout", "restart"}
        /\ UNCHANGED killers
    BY <1>13 DEF ResultArrives, AgentAt, AgentGoes, gpuVars, killVars, logVars, Typed,
         AgentTyped, AgentSet
  <2> QED BY <2>1 DEF Typed, AgentKills, AgentAt, Terminations
<1>14. CASE TimesOut
  <2>1. Head(futures) \in Execs
    BY <1>14, HeadAndLast DEF TimesOut, AgentAt, Typed, FuturesTyped, Holding
  <2>2. UNCHANGED futures /\ Head(futures) \in history'.late
    <3>1. PICK L : history' = [history EXCEPT !.late = @ \cup {Head(futures)}, !.loose = L]
      BY <1>14 DEF TimesOut
    <3> QED BY <1>14, <3>1 DEF TimesOut, Typed, HistorySet
  <2>3. CASE AgentGoes("clear") /\ UNCHANGED killers
    BY <1>14, <2>3 DEF TimesOut, AgentAt, AgentGoes, Typed, AgentKills, AgentTyped,
         AgentSet,
       Terminations
  <2>4. CASE killers' = [killers EXCEPT !["agent"] = Begun(Head(futures), "timeout")]
    <3>1. /\ killers'["agent"].exec = Head(futures) /\ killers'["agent"].reason = "timeout"
          /\ killers'["server"] = killers["server"]
      BY <2>1, <2>4, BeginFacts DEF Killers, Reasons
    <3> QED BY <2>2, <3>1 DEF Terminations
  <2> QED BY <1>14, <2>3, <2>4 DEF TimesOut
<1>15. CASE RestartExecutor
  <2>1. agent'.pc = "clear" /\ agent.pc = "restart" /\ UNCHANGED killers
    BY <1>15 DEF RestartExecutor, AgentAt, AgentGoes, killVars, Typed, AgentTyped,
         AgentSet
  <2> QED BY <2>1 DEF Typed, AgentKills, AgentAt, Terminations
<1>16. CASE ClearCollected
  <2>1. /\ agent.pc # "timeout" /\ agent'.pc \notin {"timeout", "restart"}
        /\ UNCHANGED killers
    BY <1>16 DEF ClearCollected, Cleared, Released, Forget, AgentAt, AgentGoes,
         killVars, Typed, AgentTyped, AgentSet
  <2> QED BY <2>1 DEF Typed, AgentKills, AgentAt, Terminations
<1>17. CASE Evaluate
  <2>1. /\ agent.pc # "timeout" /\ agent'.pc \notin {"timeout", "restart"}
        /\ UNCHANGED killers
    BY <1>17 DEF Evaluate, AgentAt, AgentGoes, regVars, gpuVars, killVars, logVars,
         Typed, AgentTyped, AgentSet
  <2> QED BY <2>1 DEF Typed, AgentKills, AgentAt, Terminations
<1>18. CASE StageCompletes
  <2>1. /\ agent.pc # "timeout" /\ agent'.pc \notin {"timeout", "restart"}
        /\ UNCHANGED killers
    BY <1>18 DEF StageCompletes, AgentAt, AgentGoes, regVars, gpuVars, killVars,
         logVars, Typed, AgentTyped, AgentSet
  <2> QED BY <2>1 DEF Typed, AgentKills, AgentAt, Terminations
<1>19. CASE Cleanup
  <2>1. /\ agent.pc # "timeout" /\ agent'.pc \notin {"timeout", "restart"}
        /\ UNCHANGED killers
    BY <1>19 DEF Cleanup, Cancelled, Cleared, Released, AgentAt, AgentGoes, killVars,
         Typed, AgentTyped, AgentSet
  <2> QED BY <2>1 DEF Typed, AgentKills, AgentAt, Terminations
<1>20. CASE Advance
  <2>1. /\ agent.pc # "timeout" /\ agent'.pc \notin {"timeout", "restart"}
        /\ UNCHANGED killers
    BY <1>20 DEF Advance, NewStage, AgentAt, AgentGoes, regVars, gpuVars, killVars,
         Typed, AgentTyped, AgentSet
  <2> QED BY <2>1 DEF Typed, AgentKills, AgentAt, Terminations
<1>21. CASE SkipNext
  <2>1. PICK e \in Execs, r \in {"skip"} : killers' = [killers EXCEPT !["server"] = Begun(e, r)]
    BY <1>21 DEF SkipNext, Typed, TodoSet
  <2>2. UNCHANGED <<agent, futures, history>>
    BY <1>21 DEF SkipNext, agentVars, logVars
  <2>3. killers'["agent"] = killers["agent"] /\ killers'["server"].reason = r
    BY <2>1, BeginFacts DEF Killers, Reasons
  <2> QED BY <2>1, <2>2, <2>3 DEF Terminations
<1>22. CASE PoolBreaks
  <2>1. UNCHANGED <<agent, futures, killers>>
    BY <1>22 DEF PoolBreaks, agentVars, killVars
  <2> QED BY <2>1, LateHead DEF Terminations
<1>23. CASE SkipRequested
  <2>1. UNCHANGED <<agent, futures, killers>>
    BY <1>23 DEF SkipRequested, agentVars, killVars
  <2> QED BY <2>1, LateHead DEF Terminations
<1>24. ASSUME NEW k \in Killers, Flag(k) PROVE Terminations'
  <2>1. KillerEnds(k) /\ killers[k].pc # "idle" /\ UNCHANGED futures
    BY <1>24 DEF Flag, KillerAt
  <2>2. UNCHANGED agent \/ (AgentAt("timeout") /\ AgentGoes("restart"))
    BY <2>1, KillerEndsFacts DEF Killers
  <2>3. \A j \in Killers : killers'[j].pc = "idle" \/ killers'[j] = killers[j]
    BY <2>1, OverFacts
  <2>4. agent'.pc \in {"timeout", "restart"} => Head(futures) \in history'.late
    BY <2>1, <2>2, LateHead DEF Terminations, AgentAt, AgentGoes
  <2>5. "agent" \in Killers /\ "server" \in Killers
    BY DEF Killers
  <2> QED BY <2>1, <2>3, <2>4, <2>5 DEF Terminations
<1>25. ASSUME NEW k \in Killers, Mark(k) PROVE Terminations'
  <2>1. /\ UNCHANGED <<agent, futures, history>> /\ killers[k].pc # "idle"
        /\ \E pc : KillerGoes(k, pc)
    BY <1>25 DEF Mark, KillerAt, agentVars, logVars
  <2>2. \A j \in Killers :
           /\ killers'[j].exec = killers[j].exec /\ killers'[j].reason = killers[j].reason
           /\ killers'[j].pc # "idle" => killers[j].pc # "idle"
    BY <2>1, GoesFacts
  <2>3. "agent" \in Killers /\ "server" \in Killers
    BY DEF Killers
  <2> QED BY <2>1, <2>2, <2>3 DEF Terminations
<1>26. ASSUME NEW k \in Killers, Share(k) PROVE Terminations'
  <2>1. /\ UNCHANGED <<agent, futures, history>> /\ killers[k].pc # "idle"
        /\ \E pc : KillerGoes(k, pc)
    BY <1>26 DEF Share, KillerAt, agentVars, logVars
  <2>2. \A j \in Killers :
           /\ killers'[j].exec = killers[j].exec /\ killers'[j].reason = killers[j].reason
           /\ killers'[j].pc # "idle" => killers[j].pc # "idle"
    BY <2>1, GoesFacts
  <2>3. "agent" \in Killers /\ "server" \in Killers
    BY DEF Killers
  <2> QED BY <2>1, <2>2, <2>3 DEF Terminations
<1>27. ASSUME NEW k \in Killers, Kill(k) PROVE Terminations'
  <2>1. KillerEnds(k) /\ killers[k].pc # "idle" /\ UNCHANGED futures
    BY <1>27 DEF Kill, KillerAt
  <2>2. UNCHANGED agent \/ (AgentAt("timeout") /\ AgentGoes("restart"))
    BY <2>1, KillerEndsFacts DEF Killers
  <2>3. \A j \in Killers : killers'[j].pc = "idle" \/ killers'[j] = killers[j]
    BY <2>1, OverFacts
  <2>4. agent'.pc \in {"timeout", "restart"} => Head(futures) \in history'.late
    BY <2>1, <2>2, LateHead DEF Terminations, AgentAt, AgentGoes
  <2>5. "agent" \in Killers /\ "server" \in Killers
    BY DEF Killers
  <2> QED BY <2>1, <2>3, <2>4, <2>5 DEF Terminations
<1>28. ASSUME NEW k \in Killers, KillMisses(k) PROVE Terminations'
  <2>1. KillerEnds(k) /\ killers[k].pc # "idle" /\ UNCHANGED futures
    BY <1>28 DEF KillMisses, KillerAt
  <2>2. UNCHANGED agent \/ (AgentAt("timeout") /\ AgentGoes("restart"))
    BY <2>1, KillerEndsFacts DEF Killers
  <2>3. \A j \in Killers : killers'[j].pc = "idle" \/ killers'[j] = killers[j]
    BY <2>1, OverFacts
  <2>4. agent'.pc \in {"timeout", "restart"} => Head(futures) \in history'.late
    BY <2>1, <2>2, LateHead DEF Terminations, AgentAt, AgentGoes
  <2>5. "agent" \in Killers /\ "server" \in Killers
    BY DEF Killers
  <2> QED BY <2>1, <2>3, <2>4, <2>5 DEF Terminations
<1>29. ASSUME NEW e \in Execs, CheckSkip(e) PROVE Terminations'
  <2>1. UNCHANGED <<agent, futures, killers>>
    BY <1>29 DEF CheckSkip, agentVars, killVars
  <2> QED BY <2>1, LateHead DEF Terminations
<1>30. ASSUME NEW e \in Execs, WorkEnds(e) PROVE Terminations'
  <2>1. UNCHANGED <<agent, futures, killers>>
    BY <1>30 DEF WorkEnds, agentVars, killVars
  <2> QED BY <2>1, LateHead DEF Terminations
<1>31. ASSUME NEW e \in Execs, OrphanEnds(e) PROVE Terminations'
  <2>1. UNCHANGED <<agent, futures, killers>>
    BY <1>31 DEF OrphanEnds, agentVars, killVars
  <2> QED BY <2>1, LateHead DEF Terminations
<1>32. ASSUME NEW e \in Execs, TerminateRequested(e) PROVE Terminations'
  <2>1. PICK r \in {"user"} : killers' = [killers EXCEPT !["server"] = Begun(e, r)]
    BY <1>32 DEF TerminateRequested, Typed, TodoSet
  <2>2. UNCHANGED <<agent, futures, history>>
    BY <1>32 DEF TerminateRequested, agentVars, logVars
  <2>3. killers'["agent"] = killers["agent"] /\ killers'["server"].reason = r
    BY <2>1, BeginFacts DEF Killers, Reasons
  <2> QED BY <2>1, <2>2, <2>3 DEF Terminations
<1>33. Killers = {"server", "agent"}
  BY DEF Killers
<1> QED BY <1>1, <1>2, <1>3, <1>4, <1>5, <1>6, <1>7, <1>8, <1>9, <1>10, <1>11,
       <1>12, <1>13, <1>14, <1>15, <1>16, <1>17, <1>18, <1>19, <1>20, <1>21,
       <1>22, <1>23, <1>24, <1>25, <1>26, <1>27, <1>28, <1>29, <1>30, <1>31,
       <1>32, <1>33
  DEF Next, AgentThread, ServerThread, AgentStep, KillerStep, WorkerStep

-----------------------------------------------------------------------------
(* Where workers and terminations come from.                                *)

\* How a worker gets to each of its points.
WorkersMove ==
    \A f \in Execs :
       /\ workers'[f] \in Before =>
             workers[f] \in Before \/ (SubmitFuture /\ f = LastExec)
       /\ workers'[f] = "computing" => workers[f] \in Early
       /\ workers'[f] = "orphaned" => workers[f] = "orphaned" \/ f \in history'.loose
       /\ workers[f] = "none" => workers'[f] = "none" \/ (SubmitFuture /\ f = LastExec)

\* Every step moves the workers in these ways.
LEMMA WorkersMoved ==
    ASSUME Typed, Batches, Next \/ UNCHANGED vars
    PROVE  WorkersMove
<1> USE DEF WorkersMove, Before, Early
<1>1. CASE \/ Publish \/ Consume \/ PreparationFails \/ Submit \/ SubmitFails
           \/ AbortActive \/ CancelEnds \/ Collect \/ Evaluate \/ StageCompletes
           \/ Advance \/ SkipNext \/ SkipEnds \/ SkipRequested
           \/ \E k \in Killers : Flag(k) \/ Mark(k) \/ Share(k) \/ KillMisses(k)
           \/ \E e \in Execs : TerminateRequested(e)
           \/ UNCHANGED vars
  <2>1. UNCHANGED workers
    BY <1>1 DEF Publish, Consume, PreparationFails, Submit, SubmitFails,
       AbortActive, CancelEnds, Collect, Evaluate, StageCompletes, Advance,
       SkipNext, SkipEnds, SkipRequested, Flag, KillerEnds, Mark, Share,
       KillMisses, TerminateRequested, vars, agentVars, regVars, gpuVars,
       killVars, logVars
  <2> QED BY <2>1
<1>2. CASE Register
  <2>1. PICK e \in Execs : workers' = [workers EXCEPT ![e] = "none"]
    BY <1>2, RegisterFacts
  <2> QED BY <2>1 DEF Typed, WorkTyped
<1>3. CASE SubmitFuture
  <2> QED BY <1>3 DEF SubmitFuture, Typed, WorkTyped
<1>4. CASE CancelFuture
  <2>1. Head(futures) \in Execs /\ LetGo(Head(futures))
    BY <1>4, HeadAndLast DEF CancelFuture
  <2>2. UNCHANGED workers \/ workers' = [workers EXCEPT ![Head(futures)] = "none"]
    BY <2>1, ForgetFacts DEF LetGo
  <2> QED BY <2>1, <2>2 DEF Typed, WorkTyped
<1>5. CASE ResultArrives
  <2>1. \/ UNCHANGED workers
        \/ workers' = [workers EXCEPT ![Head(futures)] = IF @ = "done" THEN "failed" ELSE @]
    BY <1>5 DEF ResultArrives
  <2> QED BY <2>1 DEF Typed, WorkTyped
<1>6. CASE TimesOut
  <2>1. UNCHANGED workers \/ Cancelled({Head(futures)})
    BY <1>6 DEF TimesOut
  <2> QED BY <2>1, CancelledFacts
<1>7. CASE RestartExecutor
  <2>1. PICK E : Cancelled(E)
    BY <1>7 DEF RestartExecutor
  <2> QED BY <2>1, CancelledFacts
<1>8. CASE ClearCollected
  <2>1. Head(futures) \in Execs /\ (UNCHANGED workers \/ Forget(Head(futures)))
    BY <1>8, HeadAndLast DEF ClearCollected, AgentAt, Typed, FuturesTyped, Holding
  <2>2. UNCHANGED workers \/ workers' = [workers EXCEPT ![Head(futures)] = "none"]
    BY <2>1, ForgetFacts
  <2> QED BY <2>1, <2>2 DEF Typed, WorkTyped
<1>9. CASE Cleanup
  <2>1. PICK E : Cancelled(E)
    BY <1>9 DEF Cleanup
  <2> QED BY <2>1, CancelledFacts
<1>10. CASE PoolBreaks
  <2>1. \A f \in Execs : workers'[f] \in {workers[f], "orphaned", "failed"}
                         /\ (workers[f] = "none" => workers'[f] = "none")
    BY <1>10 DEF PoolBreaks, Unfinished
  <2>2. PICK L : history' = [history EXCEPT !.loose = @ \cup L] /\ L = {f \in Execs : workers'[f] = "orphaned"}
    BY <1>10 DEF PoolBreaks
  <2>3. history'.loose = history.loose \cup L
    BY <2>2 DEF Typed, HistorySet
  <2> QED BY <2>1, <2>2, <2>3
<1>11. ASSUME NEW k \in Killers, Kill(k) PROVE WorkersMove
  <2> DEFINE e == killers[k].exec
  <2>1. workers[e] # "none" /\ \E s \in {"killed", "failed", "exited"} : workers' = [workers EXCEPT ![e] = s]
    BY <1>11 DEF Kill, WorkerGoes
  <2> QED BY <2>1 DEF Typed, WorkTyped
<1>12. ASSUME NEW e \in Execs, StartWork(e) PROVE WorkersMove
  <2> QED BY <1>12 DEF StartWork, WorkerAt, WorkerGoes, Typed, WorkTyped
<1>13. ASSUME NEW e \in Execs, CheckSkip(e) PROVE WorkersMove
  <2>1. workers[e] = "preparing" /\ (Ends(e, "aborted") \/ WorkerGoes(e, "starting"))
    BY <1>13 DEF CheckSkip, WorkerAt
  <2>2. PICK s \in {"none", "aborted", "starting"} : workers' = [workers EXCEPT ![e] = s]
    BY <2>1, EndsFacts DEF WorkerStates, WorkerGoes
  <2> QED BY <2>1, <2>2 DEF Typed, WorkTyped
<1>14. ASSUME NEW e \in Execs, ReportPid(e) PROVE WorkersMove
  <2> QED BY <1>14 DEF ReportPid, WorkerAt, WorkerGoes, Typed, WorkTyped
<1>15. ASSUME NEW e \in Execs, CodexEnds(e) PROVE WorkersMove
  <2> QED BY <1>15 DEF CodexEnds, WorkerAt, WorkerGoes, Typed, WorkTyped
<1>16. ASSUME NEW e \in Execs, WorkEnds(e) PROVE WorkersMove
  <2>1. Ends(e, "done") /\ workers[e] # "none"
    BY <1>16 DEF WorkEnds, WorkerAt
  <2>2. workers' = [workers EXCEPT ![e] = "none"] \/ workers' = [workers EXCEPT ![e] = "done"]
    BY <2>1, EndsFacts DEF WorkerStates
  <2> QED BY <2>1, <2>2 DEF Typed, WorkTyped
<1>17. ASSUME NEW e \in Execs, OrphanEnds(e) PROVE WorkersMove
  <2>1. Ends(e, "failed") /\ workers[e] # "none"
    BY <1>17 DEF OrphanEnds, WorkerAt
  <2>2. workers' = [workers EXCEPT ![e] = "none"] \/ workers' = [workers EXCEPT ![e] = "failed"]
    BY <2>1, EndsFacts DEF WorkerStates
  <2> QED BY <2>1, <2>2 DEF Typed, WorkTyped
<1>18. Killers = {"server", "agent"}
  BY DEF Killers
<1> QED BY <1>1, <1>2, <1>3, <1>4, <1>5, <1>6, <1>7, <1>8, <1>9, <1>10, <1>11,
       <1>12, <1>13, <1>14, <1>15, <1>16, <1>17, <1>18
  DEF Next, AgentThread, ServerThread, AgentStep, KillerStep, WorkerStep

\* A pid is only reported by the worker; a termination only begins to mark what has
\* one.
PidsAppear ==
    /\ \A f \in Execs : shared'[f].pid => shared[f].pid \/ (ReportPid(f) /\ workers[f] = "starting")
    /\ \A j \in Killers : killers'[j].pc \in Marking =>
          \/ killers[j].pc \in Marking /\ killers'[j].exec = killers[j].exec
          \/ killers'[j].exec \in Execs /\ shared[killers'[j].exec].pid

\* Every step keeps to this.
LEMMA PidsAppeared ==
    ASSUME Typed, Batches, Next \/ UNCHANGED vars
    PROVE  PidsAppear
<1> USE DEF PidsAppear, Marking
<1>1. CASE \/ Publish \/ Consume \/ PreparationFails \/ Submit \/ SubmitFuture
           \/ SubmitFails \/ CancelEnds \/ Collect \/ ResultArrives \/ RestartExecutor
           \/ Evaluate \/ StageCompletes \/ Advance \/ SkipEnds \/ PoolBreaks
           \/ SkipRequested
           \/ \E e \in Execs : StartWork(e) \/ CheckSkip(e) \/ CodexEnds(e) \/ OrphanEnds(e)
           \/ UNCHANGED vars
  <2>1. UNCHANGED <<shared, killers>>
    BY <1>1 DEF Publish, Consume, PreparationFails, Submit, SubmitFuture,
       SubmitFails, CancelEnds, Collect, ResultArrives, RestartExecutor,
       Evaluate, StageCompletes, Advance, SkipEnds, PoolBreaks, SkipRequested,
       StartWork, CheckSkip, CodexEnds, OrphanEnds, vars, agentVars, regVars,
       gpuVars, killVars, logVars
  <2> QED BY <2>1
<1>2. CASE Register
  <2>1. UNCHANGED killers /\ \E e \in Execs : shared' = [shared EXCEPT ![e] = NoShared]
    BY <1>2, RegisterFacts
  <2> QED BY <2>1 DEF Typed, RegTyped, NoShared
<1>3. CASE AbortActive
  <2>1. Flagged(Range(futures), "skip") /\ UNCHANGED killers
    BY <1>3 DEF AbortActive, killVars
  <2> QED BY <2>1, FlaggedFacts DEF Reasons
<1>4. CASE CancelFuture
  <2>1. PICK E : Cleared(E)
    BY <1>4 DEF CancelFuture
  <2>2. UNCHANGED killers
    BY <1>4 DEF CancelFuture, killVars
  <2> QED BY <2>1, <2>2, ClearedFacts
<1>5. CASE TimesOut
  <2>1. UNCHANGED shared /\ Head(futures) \in Execs
    BY <1>5, HeadAndLast DEF TimesOut, AgentAt, regVars, Typed, FuturesTyped, Holding
  <2>2. CASE UNCHANGED killers
    BY <2>1, <2>2
  <2>3. CASE killers' = [killers EXCEPT !["agent"] = Begun(Head(futures), "timeout")]
    <3>1. /\ killers'["agent"].pc \in {"flag", "mark"} /\ killers'["agent"].exec = Head(futures)
          /\ killers'["agent"].pc = "mark" => shared[Head(futures)].pid
          /\ \A j \in Killers : j # "agent" => killers'[j] = killers[j]
      BY <2>1, <2>3, BeginFacts DEF Killers, Reasons
    <3> QED BY <2>1, <3>1
  <2> QED BY <1>5, <2>2, <2>3 DEF TimesOut
<1>6. CASE ClearCollected
  <2>1. PICK E : Cleared(E)
    BY <1>6 DEF ClearCollected
  <2>2. UNCHANGED killers
    BY <1>6 DEF ClearCollected, killVars
  <2> QED BY <2>1, <2>2, ClearedFacts
<1>7. CASE Cleanup
  <2>1. PICK E : Cleared(E)
    BY <1>7 DEF Cleanup
  <2>2. UNCHANGED killers
    BY <1>7 DEF Cleanup, killVars
  <2> QED BY <2>1, <2>2, ClearedFacts
<1>8. CASE SkipNext
  <2>1. PICK x \in Execs, r \in {"skip"} : killers' = [killers EXCEPT !["server"] = Begun(x, r)]
    BY <1>8 DEF SkipNext, Typed, TodoSet
  <2>2. UNCHANGED shared
    BY <1>8 DEF SkipNext, regVars
  <2>3. /\ killers'["server"].pc \in {"flag", "mark"} /\ killers'["server"].exec = x
        /\ killers'["server"].pc = "mark" => shared[x].pid
        /\ \A j \in Killers : j # "server" => killers'[j] = killers[j]
    BY <2>1, BeginFacts DEF Killers, Reasons
  <2> QED BY <2>1, <2>2, <2>3
<1>9. ASSUME NEW k \in Killers, Flag(k) PROVE PidsAppear
  <2>1. /\ KillerEnds(k) /\ killers[k].pc # "idle"
        /\ Flagged({killers[k].exec}, killers[k].reason) /\ killers[k].reason \in Reasons
    BY <1>9 DEF Flag, KillerAt, Typed, KillTyped
  <2> QED BY <2>1, OverFacts, FlaggedFacts
<1>10. ASSUME NEW k \in Killers, Mark(k) PROVE PidsAppear
  <2>1. /\ UNCHANGED shared /\ killers[k].pc \in Marking
        /\ KillerGoes(k, "kill") \/ KillerGoes(k, "share")
    BY <1>10 DEF Mark, KillerAt
  <2> QED BY <2>1, GoesFacts
<1>11. ASSUME NEW k \in Killers, Share(k) PROVE PidsAppear
  <2> DEFINE e == killers[k].exec
  <2>1. KillerGoes(k, "kill") /\ killers[k].pc \in Marking /\ e \in Execs
    BY <1>11 DEF Share, KillerAt, Typed, KillTyped
  <2>2. PICK s : shared' = [shared EXCEPT ![e] = [shared[e] EXCEPT !.flag = s]]
    BY <1>11, <2>1 DEF Share, Typed, RegTyped
  <2>3. shared[e] \in SharedEntries
    BY <2>1 DEF Typed, RegTyped
  <2>4. [shared[e] EXCEPT !.flag = s].pid = shared[e].pid
    BY <2>3 DEF SharedEntries
  <2> HIDE DEF e
  <2>5. \A f \in Execs : shared'[f].pid = shared[f].pid
    BY <2>1, <2>2, <2>4 DEF Typed, RegTyped
  <2>6. \A j \in Killers : killers'[j].exec = killers[j].exec /\ (j # k => killers'[j] = killers[j])
    BY <2>1, GoesFacts
  <2> QED BY <2>1, <2>5, <2>6
<1>12. ASSUME NEW k \in Killers, Kill(k) PROVE PidsAppear
  <2>1. UNCHANGED shared /\ KillerEnds(k) /\ killers[k].pc # "idle"
    BY <1>12 DEF Kill, KillerAt, regVars
  <2> QED BY <2>1, OverFacts
<1>13. ASSUME NEW k \in Killers, KillMisses(k) PROVE PidsAppear
  <2>1. /\ Cleared({killers[k].exec}) \/ UNCHANGED shared
        /\ KillerEnds(k) /\ killers[k].pc # "idle"
    BY <1>13 DEF KillMisses, KillerAt, regVars
  <2> QED BY <2>1, OverFacts, ClearedFacts
<1>14. ASSUME NEW e \in Execs, ReportPid(e) PROVE PidsAppear
  <2>1. /\ shared' = [shared EXCEPT ![e] = [pid |-> TRUE, flag |-> "none"]]
        /\ workers[e] = "starting" /\ UNCHANGED killers
    BY <1>14 DEF ReportPid, WorkerAt, killVars
  <2> QED BY <1>14, <2>1 DEF Typed, RegTyped
<1>15. ASSUME NEW e \in Execs, WorkEnds(e) PROVE PidsAppear
  <2>1. UNCHANGED killers
    BY <1>15 DEF WorkEnds, killVars
  <2>2. PICK s : s.pid = FALSE /\ shared' = [shared EXCEPT ![e] = s]
    <3>1. shared[e] \in SharedEntries
      BY DEF Typed, RegTyped
    <3>2. \/ shared' = [shared EXCEPT ![e] = NoShared]
          \/ shared' = [shared EXCEPT ![e] = [shared[e] EXCEPT !.pid = FALSE]]
      BY <1>15, Zenon DEF WorkEnds
    <3>3. NoShared.pid = FALSE /\ [shared[e] EXCEPT !.pid = FALSE].pid = FALSE
      BY <3>1 DEF NoShared, SharedEntries
    <3> QED BY <3>2, <3>3
  <2> QED BY <2>1, <2>2 DEF Typed, RegTyped
<1>16. ASSUME NEW e \in Execs, TerminateRequested(e) PROVE PidsAppear
  <2>1. PICK x \in Execs, r \in {"user"} : killers' = [killers EXCEPT !["server"] = Begun(x, r)]
    BY <1>16 DEF TerminateRequested, Typed, TodoSet
  <2>2. UNCHANGED shared
    BY <1>16 DEF TerminateRequested, regVars
  <2>3. /\ killers'["server"].pc \in {"flag", "mark"} /\ killers'["server"].exec = x
        /\ killers'["server"].pc = "mark" => shared[x].pid
        /\ \A j \in Killers : j # "server" => killers'[j] = killers[j]
    BY <2>1, BeginFacts DEF Killers, Reasons
  <2> QED BY <2>1, <2>2, <2>3
<1>17. Killers = {"server", "agent"}
  BY DEF Killers
<1> QED BY <1>1, <1>2, <1>3, <1>4, <1>5, <1>6, <1>7, <1>8, <1>9, <1>10, <1>11,
       <1>12, <1>13, <1>14, <1>15, <1>16, <1>17
  DEF Next, AgentThread, ServerThread, AgentStep, KillerStep, WorkerStep

\* Where there is no pid, there is none after a step but the worker's report.
LEMMA NoPidKept ==
    ASSUME Typed, Batches, Next \/ UNCHANGED vars, NEW e \in Execs, NoPid(e),
           workers[e] # "starting" \/ ~ReportPid(e)
    PROVE  NoPid(e)'
<1>1. ~shared'[e].pid
  BY PidsAppeared DEF PidsAppear, NoPid
<1>2. \A k \in Killers : killers'[k].pc \in Marking => killers'[k].exec # e
  BY PidsAppeared DEF PidsAppear, NoPid
<1> QED BY <1>1, <1>2 DEF NoPid

\* The agent comes to submit a future by registering one.
LEMMA ComesToFuture ==
    ASSUME Typed, agent'.pc = "future", ~Register, Next \/ UNCHANGED vars
    PROVE  agent.pc = "future" /\ UNCHANGED futures /\ ~SubmitFuture
<1>0. ~SubmitFuture
  BY DEF SubmitFuture, Typed, AgentTyped, AgentSet
<1>1. CASE \/ SkipNext \/ SkipEnds \/ PoolBreaks \/ SkipRequested
           \/ \E k \in Killers : Mark(k) \/ Share(k)
           \/ \E e \in Execs : StartWork(e) \/ CheckSkip(e) \/ ReportPid(e) \/ CodexEnds(e)
           \/ \E e \in Execs : WorkEnds(e) \/ OrphanEnds(e) \/ TerminateRequested(e)
           \/ UNCHANGED vars
  <2>1. UNCHANGED <<agent, futures>>
    BY <1>1 DEF SkipNext, SkipEnds, PoolBreaks, SkipRequested, Mark, Share,
       StartWork, CheckSkip, ReportPid, CodexEnds, WorkEnds, OrphanEnds,
       TerminateRequested, vars, agentVars, regVars, gpuVars, killVars,
       logVars
  <2> QED BY <1>0, <2>1
<1>2. CASE Publish
  <2>1. agent'.pc # "future"
    BY <1>2 DEF Publish, AgentAt, AgentGoes, regVars, gpuVars, killVars, logVars,
         Typed, AgentTyped, AgentSet
  <2> QED BY <2>1
<1>3. CASE Consume
  <2>1. agent'.pc # "future"
    BY <1>3 DEF Consume, AgentAt, regVars, gpuVars, killVars, Typed, AgentTyped,
         AgentSet
  <2> QED BY <2>1
<1>4. CASE PreparationFails
  <2>1. agent'.pc # "future"
    BY <1>4 DEF PreparationFails, AgentAt, regVars, gpuVars, killVars, logVars, Typed,
         AgentTyped, AgentSet
  <2> QED BY <2>1
<1>5. CASE Submit
  <2>1. agent'.pc # "future"
    BY <1>5 DEF Submit, AgentAt, AgentGoes, regVars, gpuVars, killVars, logVars, Typed,
         AgentTyped, AgentSet
  <2> QED BY <2>1
<1>6. CASE Register
  <2> QED BY <1>6
<1>7. CASE SubmitFuture
  <2>1. agent'.pc # "future"
    BY <1>7 DEF SubmitFuture, LastExec, AgentAt, regVars, gpuVars, killVars, logVars,
         Typed, AgentTyped, AgentSet
  <2> QED BY <2>1
<1>8. CASE SubmitFails
  <2>1. agent'.pc # "future"
    BY <1>8 DEF SubmitFails, AgentAt, regVars, gpuVars, killVars, Typed, AgentTyped,
         AgentSet
  <2> QED BY <2>1
<1>9. CASE AbortActive
  <2>1. agent'.pc # "future"
    BY <1>9 DEF AbortActive, Flagged, AgentGoes, gpuVars, killVars, logVars, Typed,
         AgentTyped, AgentSet
  <2> QED BY <2>1
<1>10. CASE CancelFuture
  <2>1. agent'.pc # "future"
    BY <1>10 DEF CancelFuture, LetGo, Forget, Cleared, Released, AgentAt, killVars,
         Typed, AgentTyped, AgentSet
  <2> QED BY <2>1
<1>11. CASE CancelEnds
  <2>1. agent'.pc # "future"
    BY <1>11 DEF CancelEnds, AgentAt, AgentGoes, regVars, gpuVars, killVars, Typed,
         AgentTyped, AgentSet
  <2> QED BY <2>1
<1>12. CASE Collect
  <2>1. agent'.pc # "future"
    BY <1>12 DEF Collect, AgentAt, AgentGoes, regVars, gpuVars, killVars, logVars,
         Typed, AgentTyped, AgentSet
  <2> QED BY <2>1
<1>13. CASE ResultArrives
  <2>1. agent'.pc # "future"
    BY <1>13 DEF ResultArrives, AgentAt, AgentGoes, gpuVars, killVars, logVars, Typed,
         AgentTyped, AgentSet
  <2> QED BY <2>1
<1>14. CASE TimesOut
  <2>1. agent'.pc # "future"
    BY <1>14 DEF TimesOut, Cancelled, AgentAt, AgentGoes, regVars, gpuVars, Typed,
         AgentTyped, AgentSet
  <2> QED BY <2>1
<1>15. CASE RestartExecutor
  <2>1. agent'.pc # "future"
    BY <1>15 DEF RestartExecutor, Cancelled, AgentAt, AgentGoes, regVars, gpuVars,
         killVars, logVars, Typed, AgentTyped, AgentSet
  <2> QED BY <2>1
<1>16. CASE ClearCollected
  <2>1. agent'.pc # "future"
    BY <1>16 DEF ClearCollected, Cleared, Released, Forget, AgentAt, AgentGoes,
         killVars, Typed, AgentTyped, AgentSet
  <2> QED BY <2>1
<1>17. CASE Evaluate
  <2>1. agent'.pc # "future"
    BY <1>17 DEF Evaluate, AgentAt, AgentGoes, regVars, gpuVars, killVars, logVars,
         Typed, AgentTyped, AgentSet
  <2> QED BY <2>1
<1>18. CASE StageCompletes
  <2>1. agent'.pc # "future"
    BY <1>18 DEF StageCompletes, AgentAt, AgentGoes, regVars, gpuVars, killVars,
         logVars, Typed, AgentTyped, AgentSet
  <2> QED BY <2>1
<1>19. CASE Cleanup
  <2>1. agent'.pc # "future"
    BY <1>19 DEF Cleanup, Cancelled, Cleared, Released, AgentAt, AgentGoes, killVars,
         Typed, AgentTyped, AgentSet
  <2> QED BY <2>1
<1>20. CASE Advance
  <2>1. agent'.pc # "future"
    BY <1>20 DEF Advance, NewStage, AgentAt, AgentGoes, regVars, gpuVars, killVars,
         Typed, AgentTyped, AgentSet
  <2> QED BY <2>1
<1>21. ASSUME NEW k \in Killers, Flag(k)
       PROVE agent.pc = "future" /\ UNCHANGED futures /\ ~SubmitFuture
  <2>1. KillerEnds(k) /\ killers[k].pc # "idle" /\ UNCHANGED futures
    BY <1>21 DEF Flag, KillerAt
  <2>2. UNCHANGED agent \/ AgentGoes("restart")
    BY <2>1, KillerEndsFacts DEF Killers
  <2>3. AgentGoes("restart") => agent'.pc = "restart"
    BY DEF AgentGoes, Typed, AgentTyped, AgentSet
  <2> QED BY <1>0, <2>1, <2>2, <2>3
<1>22. ASSUME NEW k \in Killers, Kill(k)
       PROVE agent.pc = "future" /\ UNCHANGED futures /\ ~SubmitFuture
  <2>1. KillerEnds(k) /\ killers[k].pc # "idle" /\ UNCHANGED futures
    BY <1>22 DEF Kill, KillerAt
  <2>2. UNCHANGED agent \/ AgentGoes("restart")
    BY <2>1, KillerEndsFacts DEF Killers
  <2>3. AgentGoes("restart") => agent'.pc = "restart"
    BY DEF AgentGoes, Typed, AgentTyped, AgentSet
  <2> QED BY <1>0, <2>1, <2>2, <2>3
<1>23. ASSUME NEW k \in Killers, KillMisses(k)
       PROVE agent.pc = "future" /\ UNCHANGED futures /\ ~SubmitFuture
  <2>1. KillerEnds(k) /\ killers[k].pc # "idle" /\ UNCHANGED futures
    BY <1>23 DEF KillMisses, KillerAt
  <2>2. UNCHANGED agent \/ AgentGoes("restart")
    BY <2>1, KillerEndsFacts DEF Killers
  <2>3. AgentGoes("restart") => agent'.pc = "restart"
    BY DEF AgentGoes, Typed, AgentTyped, AgentSet
  <2> QED BY <1>0, <2>1, <2>2, <2>3
<1>24. Killers = {"server", "agent"}
  BY DEF Killers
<1> QED BY <1>1, <1>2, <1>3, <1>4, <1>5, <1>6, <1>7, <1>8, <1>9, <1>10, <1>11,
       <1>12, <1>13, <1>14, <1>15, <1>16, <1>17, <1>18, <1>19, <1>20, <1>21,
       <1>22, <1>23, <1>24
  DEF Next, AgentThread, ServerThread, AgentStep, KillerStep, WorkerStep

\* Before Codex has been started there is no pid.
LEMMA PidsStep ==
    ASSUME Typed, Batches, Pids, Next \/ UNCHANGED vars
    PROVE  Pids'
<1>1. ASSUME NEW e \in Execs, workers'[e] \in Before PROVE NoPid(e)'
  <2>1. ~ReportPid(e)
    BY <1>1 DEF ReportPid, WorkerGoes, Before, Typed, WorkTyped
  <2>2. workers[e] \in Before \/ (SubmitFuture /\ e = LastExec)
    BY <1>1, WorkersMoved DEF WorkersMove
  <2>3. NoPid(e)
    BY <2>2 DEF Pids, SubmitFuture
  <2> QED BY <2>1, <2>3, NoPidKept
<1>2. ASSUME agent'.pc = "future"
      PROVE  workers'[LastExec'] = "none" /\ NoPid(LastExec)'
  <2>1. CASE Register
    <3>1. PICK e \in Execs :
             /\ LastExec' = e /\ Forgotten(e)
             /\ workers' = [workers EXCEPT ![e] = "none"]
             /\ shared' = [shared EXCEPT ![e] = NoShared] /\ UNCHANGED killers
      BY <2>1, RegisterFacts
    <3>2. workers'[e] = "none" /\ ~shared'[e].pid
      BY <3>1 DEF Typed, WorkTyped, RegTyped, NoShared
    <3>3. \A k \in Killers : killers'[k].exec # e
      BY <3>1 DEF Forgotten
    <3> QED BY <3>1, <3>2, <3>3 DEF NoPid
  <2>2. CASE ~Register
    <3>1. agent.pc = "future" /\ UNCHANGED futures /\ ~SubmitFuture
      BY <1>2, <2>2, ComesToFuture
    <3>2. /\ LastExec \in Execs /\ LastExec' = LastExec
          /\ workers[LastExec] = "none" /\ NoPid(LastExec)
      BY <3>1, HeadAndLast DEF Typed, FuturesTyped, Holding, LastExec, Pids, AgentAt
    <3>3. workers'[LastExec] = "none"
      BY <3>1, <3>2, WorkersMoved DEF WorkersMove
    <3>4. \A e \in Execs : NoPid(e) /\ workers[e] # "starting" => NoPid(e)'
      BY NoPidKept
    <3> QED BY <3>2, <3>3, <3>4 DEF NoPid
  <2> QED BY <2>1, <2>2
<1> QED BY <1>1, <1>2 DEF Pids, AgentAt

-----------------------------------------------------------------------------
(* The GPUs.                                                                *)

\* What is told and reserved changes for the members of a batch only when the
\* agent drops its pool.
GpusMove ==
    \A f \in Batch \cap Batch' : gpuOf'[f] = gpuOf[f] /\ (reserved'[f] = reserved[f] \/ Cleanup)

\* Every step keeps to this.
LEMMA GpusMoved ==
    ASSUME Typed, Batches, Next \/ UNCHANGED vars
    PROVE  GpusMove
<1> USE DEF GpusMove
<1>1. CASE \/ Publish \/ Consume \/ PreparationFails \/ Submit \/ SubmitFuture
           \/ SubmitFails \/ AbortActive \/ CancelEnds \/ Collect \/ ResultArrives
           \/ TimesOut \/ RestartExecutor \/ Evaluate \/ StageCompletes \/ Advance
           \/ SkipNext \/ SkipEnds \/ PoolBreaks \/ SkipRequested
           \/ \E k \in Killers : Flag(k) \/ Mark(k) \/ Share(k) \/ Kill(k) \/ KillMisses(k)
           \/ \E e \in Execs : StartWork(e) \/ ReportPid(e) \/ CodexEnds(e) \/ TerminateRequested(e)
           \/ UNCHANGED vars
  <2>1. UNCHANGED <<gpuOf, reserved>>
    BY <1>1 DEF Publish, Consume, PreparationFails, Submit, SubmitFuture,
       SubmitFails, AbortActive, CancelEnds, Collect, ResultArrives, TimesOut,
       RestartExecutor, Evaluate, StageCompletes, Advance, SkipNext, SkipEnds,
       PoolBreaks, SkipRequested, Flag, KillerEnds, Mark, Share, Kill,
       KillMisses, StartWork, ReportPid, CodexEnds, TerminateRequested, vars,
       agentVars, regVars, gpuVars, killVars, logVars
  <2> QED BY <2>1
<1>2. CASE Register
  <2>1. PICK e \in Execs : e \notin Batch /\ Acquire(e)
    BY <1>2, RegisterFacts
  <2> QED BY <2>1 DEF Acquire, Typed, GpuTyped, FuturesTyped, Batch, Range
<1>3. CASE CancelFuture
  <2> DEFINE h == Head(futures)
  <2>1. /\ futures # <<>> /\ futures' = Tail(futures) /\ reserved' = Released({h})
        /\ UNCHANGED gpuOf \/ Forget(h)
    BY <1>3 DEF CancelFuture, LetGo, AgentAt, Typed, FuturesTyped, Holding
  <2>2. h \in Execs /\ Batch' = Batch \ {h} /\ Batch \subseteq Execs
    BY <2>1, HeadLeaves, HeadAndLast DEF Typed, FuturesTyped, Batch, Range
  <2> HIDE DEF h
  <2>3. UNCHANGED gpuOf \/ gpuOf' = [gpuOf EXCEPT ![h] = NoGpu]
    BY <2>1, <2>2, ForgetFacts
  <2>4. \A f \in Execs : f # h => gpuOf'[f] = gpuOf[f] /\ reserved'[f] = reserved[f]
    BY <2>1, <2>3 DEF Released, Typed, GpuTyped
  <2> QED BY <2>2, <2>4
<1>4. CASE ClearCollected
  <2> DEFINE h == Head(futures)
  <2>1. /\ futures # <<>> /\ futures' = Tail(futures) /\ reserved' = Released({h})
        /\ UNCHANGED gpuOf \/ Forget(h)
    BY <1>4 DEF ClearCollected, LetGo, AgentAt, Typed, FuturesTyped, Holding
  <2>2. h \in Execs /\ Batch' = Batch \ {h} /\ Batch \subseteq Execs
    BY <2>1, HeadLeaves, HeadAndLast DEF Typed, FuturesTyped, Batch, Range
  <2> HIDE DEF h
  <2>3. UNCHANGED gpuOf \/ gpuOf' = [gpuOf EXCEPT ![h] = NoGpu]
    BY <2>1, <2>2, ForgetFacts
  <2>4. \A f \in Execs : f # h => gpuOf'[f] = gpuOf[f] /\ reserved'[f] = reserved[f]
    BY <2>1, <2>3 DEF Released, Typed, GpuTyped
  <2> QED BY <2>2, <2>4
<1>5. CASE Cleanup
  <2>1. UNCHANGED gpuOf
    BY <1>5 DEF Cleanup
  <2> QED BY <1>5, <2>1
<1>6. ASSUME NEW e \in Execs, CheckSkip(e) PROVE GpusMove
  <2>1. UNCHANGED reserved /\ (UNCHANGED gpuOf \/ Ends(e, "aborted"))
    BY <1>6 DEF CheckSkip
  <2>2. UNCHANGED gpuOf \/ (e \notin Batch /\ gpuOf' = [gpuOf EXCEPT ![e] = NoGpu])
    BY <2>1, EndsFacts DEF WorkerStates, Batch
  <2> QED BY <2>1, <2>2 DEF Typed, GpuTyped, FuturesTyped, Batch, Range
<1>7. ASSUME NEW e \in Execs, WorkEnds(e) PROVE GpusMove
  <2>1. Ends(e, "done") /\ UNCHANGED reserved
    BY <1>7 DEF WorkEnds
  <2>2. UNCHANGED gpuOf \/ (e \notin Batch /\ gpuOf' = [gpuOf EXCEPT ![e] = NoGpu])
    BY <2>1, EndsFacts DEF WorkerStates, Batch
  <2> QED BY <2>1, <2>2 DEF Typed, GpuTyped, FuturesTyped, Batch, Range
<1>8. ASSUME NEW e \in Execs, OrphanEnds(e) PROVE GpusMove
  <2>1. Ends(e, "failed") /\ UNCHANGED reserved
    BY <1>8 DEF OrphanEnds
  <2>2. UNCHANGED gpuOf \/ (e \notin Batch /\ gpuOf' = [gpuOf EXCEPT ![e] = NoGpu])
    BY <2>1, EndsFacts DEF WorkerStates, Batch
  <2> QED BY <2>1, <2>2 DEF Typed, GpuTyped, FuturesTyped, Batch, Range
<1>9. Killers = {"server", "agent"}
  BY DEF Killers
<1> QED BY <1>1, <1>2, <1>3, <1>4, <1>5, <1>6, <1>7, <1>8, <1>9
  DEF Next, AgentThread, ServerThread, AgentStep, KillerStep, WorkerStep

\* No GPU is reserved for two executions.
LEMMA ReservedOnce ==
    ASSUME Typed, Batches, Allotted, Next \/ UNCHANGED vars
    PROVE  \A e, f \in Execs : reserved'[e] = reserved'[f] /\ reserved'[e] # NoGpu => e = f
<1>1. CASE \/ Publish \/ Consume \/ PreparationFails \/ Submit \/ SubmitFuture
           \/ SubmitFails \/ AbortActive \/ CancelEnds \/ Collect \/ ResultArrives
           \/ TimesOut \/ RestartExecutor \/ Evaluate \/ StageCompletes \/ Advance
           \/ SkipNext \/ SkipEnds \/ PoolBreaks \/ SkipRequested
           \/ \E k \in Killers : Flag(k) \/ Mark(k) \/ Share(k) \/ Kill(k) \/ KillMisses(k)
           \/ \E e \in Execs : StartWork(e) \/ CheckSkip(e) \/ ReportPid(e) \/ CodexEnds(e)
           \/ \E e \in Execs : WorkEnds(e) \/ OrphanEnds(e) \/ TerminateRequested(e)
           \/ UNCHANGED vars
  <2>1. UNCHANGED reserved
    BY <1>1 DEF Publish, Consume, PreparationFails, Submit, SubmitFuture,
       SubmitFails, AbortActive, CancelEnds, Collect, ResultArrives, TimesOut,
       RestartExecutor, Evaluate, StageCompletes, Advance, SkipNext, SkipEnds,
       PoolBreaks, SkipRequested, Flag, KillerEnds, Mark, Share, Kill,
       KillMisses, StartWork, CheckSkip, ReportPid, CodexEnds, WorkEnds,
       OrphanEnds, TerminateRequested, vars, agentVars, regVars, gpuVars,
       killVars, logVars
  <2> QED BY <2>1 DEF Allotted
<1>2. CASE Register
  <2>1. PICK x \in Execs : Acquire(x)
    BY <1>2, RegisterFacts
  <2>2. PICK g : g = IF FreeGpus = {} THEN NoGpu ELSE Least(FreeGpus)
    OBVIOUS
  <2>3. gpuOf' = [gpuOf EXCEPT ![x] = g] /\ reserved' = [reserved EXCEPT ![x] = gpuOf'[x]]
    BY <2>1, <2>2 DEF Acquire
  <2>4. reserved' = [reserved EXCEPT ![x] = g]
    BY <2>3 DEF Typed, GpuTyped
  <2>5. g # NoGpu => \A f \in Execs : reserved[f] # g
    <3>1. FreeGpus \in SUBSET Nat
      BY ConstantsAssumption DEF FreeGpus, Gpus
    <3>2. FreeGpus # {} => Least(FreeGpus) \in FreeGpus
      BY <3>1, LeastIsLeast
    <3> QED BY <2>2, <3>2 DEF FreeGpus, Range, Typed, GpuTyped
  <2> QED BY <2>4, <2>5 DEF Allotted, Typed, GpuTyped
<1>3. CASE CancelFuture
  <2>1. reserved' = Released({Head(futures)})
    BY <1>3 DEF CancelFuture
  <2> QED BY <2>1 DEF Allotted, Released
<1>4. CASE ClearCollected
  <2>1. reserved' = Released({Head(futures)})
    BY <1>4 DEF ClearCollected
  <2> QED BY <2>1 DEF Allotted, Released
<1>5. CASE Cleanup
  <2>1. reserved' = Released(Execs)
    BY <1>5 DEF Cleanup
  <2> QED BY <2>1 DEF Allotted, Released
<1>6. Killers = {"server", "agent"}
  BY DEF Killers
<1> QED BY <1>1, <1>2, <1>3, <1>4, <1>5, <1>6
  DEF Next, AgentThread, ServerThread, AgentStep, KillerStep, WorkerStep

\* The agent does not give the GPU of what still works back, unless it has let go
\* of it.
LEMMA EndsWell ==
    ASSUME Typed, Batches, Terminations, Pids, Allotted, Next \/ UNCHANGED vars
    PROVE  agent'.pc \in {"restart", "clear"} /\ workers'[Head(futures')] \in Early =>
              Head(futures') \in history'.loose

<1>0. ASSUME agent.pc \in {"restart", "clear"}, UNCHANGED futures, ~SubmitFuture,
             workers'[Head(futures)] \in Early
      PROVE  Head(futures) \in history'.loose
  <2>1. Head(futures) \in Execs
    BY <1>0, HeadAndLast DEF Typed, FuturesTyped, Holding
  <2>2. workers[Head(futures)] \in Early
    BY <1>0, <2>1, WorkersMoved DEF WorkersMove, Early, Before
  <2>3. Head(futures) \in history.loose
    BY <1>0, <2>2 DEF Allotted
  <2> QED BY <1>0, <2>1, <2>3, PastKept DEF PastIsKept, Early, Before
<1>1. CASE \/ SkipNext \/ SkipEnds \/ PoolBreaks \/ SkipRequested
           \/ \E k \in Killers : Mark(k) \/ Share(k)
           \/ \E e \in Execs : StartWork(e) \/ CheckSkip(e) \/ ReportPid(e) \/ CodexEnds(e)
           \/ \E e \in Execs : WorkEnds(e) \/ OrphanEnds(e) \/ TerminateRequested(e)
           \/ UNCHANGED vars
  <2>1. UNCHANGED <<agent, futures>>
    BY <1>1 DEF SkipNext, SkipEnds, PoolBreaks, SkipRequested, Mark, Share,
       StartWork, CheckSkip, ReportPid, CodexEnds, WorkEnds, OrphanEnds,
       TerminateRequested, vars, agentVars, regVars, gpuVars, killVars,
       logVars
  <2>2. ~SubmitFuture
    BY <2>1 DEF SubmitFuture, AgentAt, Typed, AgentTyped, AgentSet
  <2> QED BY <1>0, <2>1, <2>2
<1>2. CASE Publish
  <2>1. agent'.pc \notin {"restart", "clear"}
    BY <1>2 DEF Publish, AgentAt, AgentGoes, regVars, gpuVars, killVars, logVars,
         Typed, AgentTyped, AgentSet
  <2> QED BY <2>1
<1>3. CASE Consume
  <2>1. agent'.pc \notin {"restart", "clear"}
    BY <1>3 DEF Consume, AgentAt, regVars, gpuVars, killVars, Typed, AgentTyped,
         AgentSet
  <2> QED BY <2>1
<1>4. CASE PreparationFails
  <2>1. agent'.pc \notin {"restart", "clear"}
    BY <1>4 DEF PreparationFails, AgentAt, regVars, gpuVars, killVars, logVars, Typed,
         AgentTyped, AgentSet
  <2> QED BY <2>1
<1>5. CASE Submit
  <2>1. agent'.pc \notin {"restart", "clear"}
    BY <1>5 DEF Submit, AgentAt, AgentGoes, regVars, gpuVars, killVars, logVars, Typed,
         AgentTyped, AgentSet
  <2> QED BY <2>1
<1>6. CASE Register
  <2>1. agent'.pc \notin {"restart", "clear"}
    BY <1>6 DEF Register, Acquire, Forgotten, AgentAt, AgentGoes, killVars, Typed,
         AgentTyped, AgentSet
  <2> QED BY <2>1
<1>7. CASE SubmitFuture
  <2>1. agent'.pc \notin {"restart", "clear"}
    BY <1>7 DEF SubmitFuture, LastExec, AgentAt, regVars, gpuVars, killVars, logVars,
         Typed, AgentTyped, AgentSet
  <2> QED BY <2>1
<1>8. CASE SubmitFails
  <2>1. agent'.pc \notin {"restart", "clear"}
    BY <1>8 DEF SubmitFails, AgentAt, regVars, gpuVars, killVars, Typed, AgentTyped,
         AgentSet
  <2> QED BY <2>1
<1>9. CASE AbortActive
  <2>1. agent'.pc \notin {"restart", "clear"}
    BY <1>9 DEF AbortActive, Flagged, AgentGoes, gpuVars, killVars, logVars, Typed,
         AgentTyped, AgentSet
  <2> QED BY <2>1
<1>10. CASE CancelFuture
  <2>1. agent'.pc \notin {"restart", "clear"}
    BY <1>10 DEF CancelFuture, LetGo, Forget, Cleared, Released, AgentAt, killVars,
         Typed, AgentTyped, AgentSet
  <2> QED BY <2>1
<1>11. CASE CancelEnds
  <2>1. agent'.pc \notin {"restart", "clear"}
    BY <1>11 DEF CancelEnds, AgentAt, AgentGoes, regVars, gpuVars, killVars, Typed,
         AgentTyped, AgentSet
  <2> QED BY <2>1
<1>12. CASE Collect
  <2>1. agent'.pc \notin {"restart", "clear"}
    BY <1>12 DEF Collect, AgentAt, AgentGoes, regVars, gpuVars, killVars, logVars,
         Typed, AgentTyped, AgentSet
  <2> QED BY <2>1
<1>13. CASE ResultArrives
  <2> DEFINE h == Head(futures)
  <2>1. /\ h \in Execs /\ UNCHANGED futures /\ workers[h] \notin Unfinished
    BY <1>13, HeadAndLast DEF ResultArrives, AgentAt, Typed, FuturesTyped, Holding
  <2>2. workers[h] \notin Early /\ ~SubmitFuture
    BY <1>13, <2>1 DEF Early, Before, Unfinished, ResultArrives, SubmitFuture, AgentAt
  <2>3. workers'[h] \notin Early
    BY <2>1, <2>2, WorkersMoved DEF WorkersMove, Early, Before
  <2> QED BY <2>1, <2>3
<1>14. CASE TimesOut
  <2>1. UNCHANGED futures /\ (AgentGoes("timeout") \/ agent.mode = "seeds")
    BY <1>14 DEF TimesOut
  <2>2. AgentGoes("timeout") => agent'.pc = "timeout"
    BY DEF AgentGoes, Typed, AgentTyped, AgentSet
  <2>3. agent.mode = "seeds" => Head(futures) \in history'.loose
    <3>1. PICK L : L = (IF agent.mode = "seeds" THEN history.loose \cup {Head(futures)}
                       ELSE history.loose)
      OBVIOUS
    <3>2. history' = [history EXCEPT !.late = @ \cup {Head(futures)}, !.loose = L]
      BY <1>14, <3>1 DEF TimesOut
    <3>3. history'.loose = L
      BY <3>2 DEF Typed, HistorySet
    <3> QED BY <3>1, <3>3
  <2> QED BY <2>1, <2>2, <2>3
<1>15. CASE RestartExecutor
  <2>1. agent.pc = "restart" /\ UNCHANGED futures /\ ~SubmitFuture
    BY <1>15 DEF RestartExecutor, SubmitFuture, AgentAt
  <2> QED BY <1>0, <2>1
<1>16. CASE ClearCollected
  <2>1. agent'.pc \notin {"restart", "clear"}
    BY <1>16 DEF ClearCollected, Cleared, Released, Forget, AgentAt, AgentGoes,
         killVars, Typed, AgentTyped, AgentSet
  <2> QED BY <2>1
<1>17. CASE Evaluate
  <2>1. agent'.pc \notin {"restart", "clear"}
    BY <1>17 DEF Evaluate, AgentAt, AgentGoes, regVars, gpuVars, killVars, logVars,
         Typed, AgentTyped, AgentSet
  <2> QED BY <2>1
<1>18. CASE StageCompletes
  <2>1. agent'.pc \notin {"restart", "clear"}
    BY <1>18 DEF StageCompletes, AgentAt, AgentGoes, regVars, gpuVars, killVars,
         logVars, Typed, AgentTyped, AgentSet
  <2> QED BY <2>1
<1>19. CASE Cleanup
  <2>1. agent'.pc \notin {"restart", "clear"}
    BY <1>19 DEF Cleanup, Cancelled, Cleared, Released, AgentAt, AgentGoes, killVars,
         Typed, AgentTyped, AgentSet
  <2> QED BY <2>1
<1>20. CASE Advance
  <2>1. agent'.pc \notin {"restart", "clear"}
    BY <1>20 DEF Advance, NewStage, AgentAt, AgentGoes, regVars, gpuVars, killVars,
         Typed, AgentTyped, AgentSet
  <2> QED BY <2>1
<1>21. ASSUME NEW k \in Killers, Flag(k)
       PROVE agent'.pc \in {"restart", "clear"} /\ workers'[Head(futures')] \in Early =>
              Head(futures') \in history'.loose
  <2>1. KillerEnds(k) /\ killers[k].pc # "idle" /\ UNCHANGED futures
    BY <1>21 DEF Flag, KillerAt
  <2>2. /\ k = "agent" => AgentAt("timeout") /\ AgentGoes("restart")
        /\ k = "server" => UNCHANGED agent
    BY <2>1, KillerEndsFacts
  <2>3. CASE k = "server"
    <3>1. UNCHANGED agent /\ ~SubmitFuture
      BY <2>2, <2>3 DEF SubmitFuture, AgentAt, Typed, AgentTyped, AgentSet
    <3> QED BY <1>0, <2>1, <3>1
  <2>4. CASE k = "agent"
    <3>1. killers[k].exec = Head(futures) /\ Head(futures) \in Execs
      BY <2>1, <2>2, <2>4, HeadAndLast DEF Terminations, Typed, FuturesTyped, Holding,
           AgentAt
    <3>2. workers'[Head(futures)] \in Early => Head(futures) \in history'.loose
      <4>1. PICK L : /\ history' = [history EXCEPT !.loose = L]
                     /\ L = (IF k = "agent" /\ workers[killers[k].exec] \in Running \cup {"queued"}
                            THEN history.loose \cup {killers[k].exec} ELSE history.loose)
        BY <1>21 DEF Flag
      <4>2. history'.loose = L /\ UNCHANGED workers
        BY <1>21, <4>1 DEF Flag, Typed, HistorySet
      <4> QED BY <2>4, <3>1, <4>1, <4>2 DEF Early, Before, Running, Unfinished
    <3> QED BY <2>1, <3>1, <3>2
  <2> QED BY <2>3, <2>4 DEF Killers
<1>22. ASSUME NEW k \in Killers, Kill(k)
       PROVE agent'.pc \in {"restart", "clear"} /\ workers'[Head(futures')] \in Early =>
              Head(futures') \in history'.loose
  <2>1. KillerEnds(k) /\ killers[k].pc # "idle" /\ UNCHANGED futures
    BY <1>22 DEF Kill, KillerAt
  <2>2. /\ k = "agent" => AgentAt("timeout") /\ AgentGoes("restart")
        /\ k = "server" => UNCHANGED agent
    BY <2>1, KillerEndsFacts
  <2>3. CASE k = "server"
    <3>1. UNCHANGED agent /\ ~SubmitFuture
      BY <2>2, <2>3 DEF SubmitFuture, AgentAt, Typed, AgentTyped, AgentSet
    <3> QED BY <1>0, <2>1, <3>1
  <2>4. CASE k = "agent"
    <3>1. killers[k].exec = Head(futures) /\ Head(futures) \in Execs
      BY <2>1, <2>2, <2>4, HeadAndLast DEF Terminations, Typed, FuturesTyped, Holding,
           AgentAt
    <3>2. workers'[Head(futures)] \notin Early
      <4>1. \E s \in {"killed", "failed", "exited"} : workers' = [workers EXCEPT ![Head(futures)] = s]
        BY <1>22, <3>1 DEF Kill, WorkerGoes
      <4> QED BY <3>1, <4>1 DEF Early, Before, Typed, WorkTyped
    <3> QED BY <2>1, <3>1, <3>2
  <2> QED BY <2>3, <2>4 DEF Killers
<1>23. ASSUME NEW k \in Killers, KillMisses(k)
       PROVE agent'.pc \in {"restart", "clear"} /\ workers'[Head(futures')] \in Early =>
              Head(futures') \in history'.loose
  <2>1. KillerEnds(k) /\ killers[k].pc # "idle" /\ UNCHANGED futures
    BY <1>23 DEF KillMisses, KillerAt
  <2>2. /\ k = "agent" => AgentAt("timeout") /\ AgentGoes("restart")
        /\ k = "server" => UNCHANGED agent
    BY <2>1, KillerEndsFacts
  <2>3. CASE k = "server"
    <3>1. UNCHANGED agent /\ ~SubmitFuture
      BY <2>2, <2>3 DEF SubmitFuture, AgentAt, Typed, AgentTyped, AgentSet
    <3> QED BY <1>0, <2>1, <3>1
  <2>4. CASE k = "agent"
    <3>1. killers[k].exec = Head(futures) /\ Head(futures) \in Execs
      BY <2>1, <2>2, <2>4, HeadAndLast DEF Terminations, Typed, FuturesTyped, Holding,
           AgentAt
    <3>2. workers'[Head(futures)] \notin Early
      <4>1. /\ workers[Head(futures)] \notin {"computing", "orphaned"} /\ UNCHANGED workers
            /\ killers[k].pc = "kill"
        BY <1>23, <3>1 DEF KillMisses, KillerAt
      <4>2. workers[Head(futures)] \notin Before
        BY <3>1, <4>1 DEF Pids, NoPid, Marking
      <4> QED BY <4>1, <4>2 DEF Early
    <3> QED BY <2>1, <3>1, <3>2
  <2> QED BY <2>3, <2>4 DEF Killers
<1>24. Killers = {"server", "agent"}
  BY DEF Killers
<1> QED BY <1>1, <1>2, <1>3, <1>4, <1>5, <1>6, <1>7, <1>8, <1>9, <1>10, <1>11,
       <1>12, <1>13, <1>14, <1>15, <1>16, <1>17, <1>18, <1>19, <1>20, <1>21,
       <1>22, <1>23, <1>24
  DEF Next, AgentThread, ServerThread, AgentStep, KillerStep, WorkerStep

\* What still works when the agent cancels it has been let go of.
LEMMA LetGoOfEarly ==
    ASSUME Typed, Batches, CancelFuture, NEW e \in Execs, workers'[e] \in Early,
           e \in Batch, e \notin Batch'
    PROVE  e \in history'.loose
<1>1. futures # <<>> /\ LetGo(Head(futures)) /\ futures' = Tail(futures)
  BY DEF CancelFuture
<1>2. e = Head(futures)
  BY <1>1, HeadLeaves
<1>3. CASE Forget(e)
  <2>1. workers'[e] = "none"
    BY <1>3, ForgetFacts DEF Typed, WorkTyped
  <2> QED BY <2>1 DEF Early, Before
<1>4. CASE history' = [history EXCEPT !.loose = @ \cup {e}]
  BY <1>4 DEF Typed, HistorySet
<1> QED BY <1>1, <1>2, <1>3, <1>4 DEF LetGo

\* What still works when the agent drops its pool has been let go of.
LEMMA CleanupLetsGo ==
    ASSUME Typed, Cleanup, NEW e \in Execs, workers'[e] \in Early, e \in Batch
    PROVE  e \in history'.loose
<1> DEFINE L == {f \in Range(futures) : workers'[f] \in Unfinished}
<1>1. history' = [history EXCEPT !.loose = @ \cup L]
  BY DEF Cleanup
<1>2. e \in L
  BY DEF Batch, Early, Before, Unfinished
<1> HIDE DEF L
<1>3. history'.loose = history.loose \cup L
  BY <1>1 DEF Typed, HistorySet
<1> QED BY <1>2, <1>3

\* Only three steps change the batch.
LEMMA BatchMoves ==
    ASSUME Typed, Next \/ UNCHANGED vars
    PROVE  Register \/ CancelFuture \/ ClearCollected \/ UNCHANGED futures
<1>1. CASE \/ Publish \/ Consume \/ PreparationFails \/ Submit \/ SubmitFuture
           \/ SubmitFails \/ AbortActive \/ CancelEnds \/ Collect \/ ResultArrives
           \/ TimesOut \/ RestartExecutor \/ Evaluate \/ StageCompletes \/ Cleanup
           \/ Advance \/ SkipNext \/ SkipEnds \/ PoolBreaks \/ SkipRequested
           \/ \E k \in Killers : Flag(k) \/ Mark(k) \/ Share(k) \/ Kill(k) \/ KillMisses(k)
           \/ \E e \in Execs : StartWork(e) \/ CheckSkip(e) \/ ReportPid(e) \/ CodexEnds(e)
           \/ \E e \in Execs : WorkEnds(e) \/ OrphanEnds(e) \/ TerminateRequested(e)
           \/ UNCHANGED vars
  <2>1. UNCHANGED futures
    BY <1>1 DEF Publish, Consume, PreparationFails, Submit, SubmitFuture,
       SubmitFails, AbortActive, CancelEnds, Collect, ResultArrives, TimesOut,
       RestartExecutor, Evaluate, StageCompletes, Cleanup, Advance, SkipNext,
       SkipEnds, PoolBreaks, SkipRequested, Flag, KillerEnds, Mark, Share,
       Kill, KillMisses, StartWork, CheckSkip, ReportPid, CodexEnds, WorkEnds,
       OrphanEnds, TerminateRequested, vars, agentVars, regVars, gpuVars,
       killVars, logVars
  <2> QED BY <2>1
<1>2. CASE Register
  <2> QED BY <1>2
<1>3. CASE CancelFuture
  <2> QED BY <1>3
<1>4. CASE ClearCollected
  <2> QED BY <1>4
<1>5. Killers = {"server", "agent"}
  BY DEF Killers
<1> QED BY <1>1, <1>2, <1>3, <1>4, <1>5
  DEF Next, AgentThread, ServerThread, AgentStep, KillerStep, WorkerStep

\* The GPUs stay allotted.
LEMMA AllottedStep ==
    ASSUME Typed, Batches, Terminations, Pids, Allotted, Next \/ UNCHANGED vars
    PROVE  Allotted'
<1>1. \A e, f \in Execs : reserved'[e] = reserved'[f] /\ reserved'[e] # NoGpu => e = f
  BY ReservedOnce
<1>2. ASSUME NEW e \in Execs, workers'[e] \in Early
      PROVE  e \in history'.loose \/ (e \in Batch' /\ reserved'[e] = gpuOf'[e])
  <2>1. e \in history.loose => e \in history'.loose
    BY <1>2, PastKept DEF PastIsKept, Early, Before
  <2>2. e \in history.loose \/ (e \in Batch /\ reserved[e] = gpuOf[e])
    <3>1. workers[e] \in Early \/ (SubmitFuture /\ e = LastExec)
      BY <1>2, WorkersMoved DEF WorkersMove, Early
    <3>2. CASE SubmitFuture /\ e = LastExec
      <4>1. AgentAt("future") /\ futures # <<>>
        BY <3>2 DEF SubmitFuture, AgentAt, Typed, FuturesTyped, Holding
      <4> QED BY <3>2, <4>1, HeadAndLast DEF Allotted
    <3> QED BY <3>1, <3>2 DEF Allotted
  <2>3. CASE e \in Batch /\ e \notin Batch'
    <3>1. CASE CancelFuture
      BY <1>2, <2>3, <3>1, LetGoOfEarly
    <3>2. CASE ClearCollected
      <4>1. e = Head(futures) /\ agent.pc = "clear"
        BY <2>3, <3>2, HeadLeaves DEF ClearCollected, AgentAt, Typed, FuturesTyped,
             Holding
      <4>2. workers[e] \in Early
        BY <1>2, <3>2, WorkersMoved DEF WorkersMove, Early, SubmitFuture,
             ClearCollected, AgentAt
      <4> QED BY <2>1, <4>1, <4>2 DEF Allotted
    <3>3. CASE Register
      BY <2>3, <3>3, RegisterFacts
    <3> QED BY <2>3, <3>1, <3>2, <3>3, BatchMoves DEF Batch
  <2>4. CASE e \in Batch /\ e \in Batch' /\ Cleanup
    BY <1>2, <2>4, CleanupLetsGo
  <2>5. CASE e \in Batch /\ e \in Batch' /\ ~Cleanup
    BY <2>1, <2>2, <2>5, GpusMoved DEF GpusMove
  <2> QED BY <2>1, <2>2, <2>3, <2>4, <2>5
<1>3. ASSUME NEW e \in Execs, workers'[e] = "orphaned" PROVE e \in history'.loose
  <2>1. workers[e] = "orphaned" => e \in history.loose
    BY DEF Allotted
  <2> QED BY <1>3, <2>1, WorkersMoved, PastKept DEF WorkersMove, PastIsKept
<1>4. agent'.pc \in {"restart", "clear"} /\ workers'[Head(futures')] \in Early =>
         Head(futures') \in history'.loose
  BY EndsWell
<1>5. ASSUME agent'.pc = "future" PROVE reserved'[LastExec'] = gpuOf'[LastExec']
  <2>1. CASE Register
    <3>1. PICK e \in Execs : LastExec' = e /\ Acquire(e)
      BY <2>1, RegisterFacts
    <3> QED BY <3>1 DEF Acquire, Typed, GpuTyped
  <2>2. CASE ~Register
    <3>1. agent.pc = "future" /\ UNCHANGED futures
      BY <1>5, <2>2, ComesToFuture
    <3>2. /\ LastExec \in Batch /\ LastExec' = LastExec /\ Batch' = Batch
          /\ reserved[LastExec] = gpuOf[LastExec] /\ ~Cleanup
      BY <3>1, HeadAndLast DEF Typed, FuturesTyped, Holding, LastExec, Batch, Allotted,
           AgentAt, Cleanup
    <3> QED BY <3>2, GpusMoved DEF GpusMove
  <2> QED BY <2>1, <2>2
<1> QED BY <1>1, <1>2, <1>3, <1>4, <1>5 DEF Allotted, AgentAt

-----------------------------------------------------------------------------
(* The skip.                                                                *)

\* Only the registration of an execution and a new stage count.
LEMMA StartedMoves ==
    ASSUME Typed, Next \/ UNCHANGED vars
    PROVE  Register \/ Advance \/ history'.started = history.started
<1>1. CASE \/ Publish \/ PreparationFails \/ Submit \/ SubmitFuture \/ SubmitFails
           \/ AbortActive \/ Collect \/ ResultArrives \/ RestartExecutor \/ Evaluate
           \/ StageCompletes \/ SkipNext \/ SkipEnds
           \/ \E k \in Killers : Mark(k) \/ Share(k) \/ KillMisses(k)
           \/ \E e \in Execs : StartWork(e) \/ ReportPid(e) \/ CodexEnds(e) \/ TerminateRequested(e)
           \/ UNCHANGED vars
  <2>1. UNCHANGED history
    BY <1>1 DEF Publish, PreparationFails, Submit, SubmitFuture, SubmitFails,
       AbortActive, Collect, ResultArrives, RestartExecutor, Evaluate,
       StageCompletes, SkipNext, SkipEnds, Mark, Share, KillMisses,
       KillerEnds, StartWork, ReportPid, CodexEnds, TerminateRequested, vars,
       agentVars, regVars, gpuVars, killVars, logVars
  <2> QED BY <2>1
<1>2. CASE Consume
  <2>1. UNCHANGED history \/ history' = [history EXCEPT !.skipped = @ \cup {agent.stage}]
    BY <1>2 DEF Consume
  <2> QED BY <2>1 DEF Typed, HistorySet
<1>3. CASE Register
  <2> QED BY <1>3
<1>4. CASE CancelFuture
  <2>1. /\ Head(futures) \in Execs
        /\ \/ Forget(Head(futures))
           \/ history' = [history EXCEPT !.loose = @ \cup {Head(futures)}]
    BY <1>4, HeadAndLast DEF CancelFuture, LetGo
  <2>2. CASE history' = [history EXCEPT !.loose = @ \cup {Head(futures)}]
    BY <2>2 DEF Typed, HistorySet
  <2> QED BY <2>1, <2>2, ForgetFacts
<1>5. CASE CancelEnds
  <2>1. history' = [history EXCEPT !.skipped = @ \cup {agent.stage}]
    BY <1>5 DEF CancelEnds
  <2> QED BY <2>1 DEF Typed, HistorySet
<1>6. CASE TimesOut
  <2>1. PICK L : L = (IF agent.mode = "seeds" THEN history.loose \cup {Head(futures)}
                     ELSE history.loose)
    OBVIOUS
  <2>2. history' = [history EXCEPT !.late = @ \cup {Head(futures)}, !.loose = L]
    BY <1>6, <2>1 DEF TimesOut
  <2> QED BY <2>2 DEF Typed, HistorySet
<1>7. CASE ClearCollected
  <2> DEFINE h == Head(futures)
  <2>1. h \in Execs /\ (Forget(h) \/ history' = [history EXCEPT !.acked = @ \ {h}, !.late = @ \ {h}])
    BY <1>7, HeadAndLast DEF ClearCollected, AgentAt, Typed, FuturesTyped, Holding
  <2>2. CASE history' = [history EXCEPT !.acked = @ \ {h}, !.late = @ \ {h}]
    BY <2>2 DEF Typed, HistorySet
  <2> HIDE DEF h
  <2> QED BY <2>1, <2>2, ForgetFacts
<1>8. CASE Cleanup
  <2>1. \E L : history' = [history EXCEPT !.loose = @ \cup L]
    BY <1>8 DEF Cleanup
  <2> QED BY <2>1 DEF Typed, HistorySet
<1>9. CASE Advance
  <2> QED BY <1>9
<1>10. CASE PoolBreaks
  <2>1. \E L : history' = [history EXCEPT !.loose = @ \cup L]
    BY <1>10 DEF PoolBreaks
  <2> QED BY <2>1 DEF Typed, HistorySet
<1>11. CASE SkipRequested
  <2>1. history' = [history EXCEPT !.accepted = @ \cup {control.stage}]
    BY <1>11 DEF SkipRequested
  <2> QED BY <2>1 DEF Typed, HistorySet
<1>12. ASSUME NEW k \in Killers, Flag(k)
       PROVE Register \/ Advance \/ history'.started = history.started
  <2>1. \E L : history' = [history EXCEPT !.loose = L]
    BY <1>12 DEF Flag
  <2> QED BY <2>1 DEF Typed, HistorySet
<1>13. ASSUME NEW k \in Killers, Kill(k)
       PROVE Register \/ Advance \/ history'.started = history.started
  <2>1. UNCHANGED history \/ history' = [history EXCEPT !.acked = @ \cup {killers[k].exec}]
    BY <1>13 DEF Kill
  <2> QED BY <2>1 DEF Typed, HistorySet
<1>14. ASSUME NEW e \in Execs, CheckSkip(e)
       PROVE Register \/ Advance \/ history'.started = history.started
  <2>1. UNCHANGED history \/ Ends(e, "aborted")
    BY <1>14 DEF CheckSkip
  <2> QED BY <2>1, EndsFacts DEF WorkerStates
<1>15. ASSUME NEW e \in Execs, WorkEnds(e)
       PROVE Register \/ Advance \/ history'.started = history.started
  <2>1. Ends(e, "done")
    BY <1>15 DEF WorkEnds
  <2> QED BY <2>1, EndsFacts DEF WorkerStates
<1>16. ASSUME NEW e \in Execs, OrphanEnds(e)
       PROVE Register \/ Advance \/ history'.started = history.started
  <2>1. Ends(e, "failed")
    BY <1>16 DEF OrphanEnds
  <2> QED BY <2>1, EndsFacts DEF WorkerStates
<1>17. Killers = {"server", "agent"}
  BY DEF Killers
<1> QED BY <1>1, <1>2, <1>3, <1>4, <1>5, <1>6, <1>7, <1>8, <1>9, <1>10, <1>11,
       <1>12, <1>13, <1>14, <1>15, <1>16, <1>17
  DEF Next, AgentThread, ServerThread, AgentStep, KillerStep, WorkerStep

\* Registering an execution and beginning a stage move the agent.
LEMMA AgentStays ==
    ASSUME Typed, UNCHANGED agent
    PROVE  ~Register /\ ~Advance
  BY DEF Register, Advance, AgentAt, AgentGoes, Typed, AgentTyped, AgentSet

\* A skip that has been accepted stays prompt.
LEMMA PromptStep ==
    ASSUME Typed, Prompt, Next \/ UNCHANGED vars
    PROVE  Prompt'
<1>1. CASE \/ SkipNext \/ SkipEnds
           \/ \E k \in Killers : Mark(k) \/ Share(k)
           \/ \E e \in Execs : StartWork(e) \/ ReportPid(e) \/ CodexEnds(e) \/ TerminateRequested(e)
           \/ UNCHANGED vars
  <2>1. UNCHANGED <<agent, futures, control, history>>
    BY <1>1 DEF SkipNext, SkipEnds, Mark, Share, StartWork, ReportPid,
       CodexEnds, TerminateRequested, vars, agentVars, regVars, gpuVars,
       killVars, logVars
  <2> QED BY <2>1 DEF Prompt, SkipSeen, AgentAt
<1>2. CASE Publish
  <2>1. /\ ~Register /\ ~Advance
        /\ agent.pc = "publish"
    BY <1>2 DEF Publish, AgentAt, AgentGoes, regVars, gpuVars, killVars, logVars,
         Register, Advance, SkipSeen, Typed, AgentTyped, AgentSet
  <2>2. history'.started = history.started
    BY <2>1, StartedMoves
  <2> QED BY <2>1, <2>2 DEF Prompt, SkipSeen, AgentAt
<1>3. CASE Consume
  <2>1. /\ ~Register /\ ~Advance
        /\ agent.pc = "consume"
    BY <1>3 DEF Consume, AgentAt, regVars, gpuVars, killVars, Register, Advance,
         SkipSeen, Typed, AgentTyped, AgentSet
  <2>2. history'.started = history.started
    BY <2>1, StartedMoves
  <2> QED BY <2>1, <2>2 DEF Prompt, SkipSeen, AgentAt
<1>4. CASE PreparationFails
  <2>1. /\ ~Register /\ ~Advance
        /\ agent.pc = "consume"
    BY <1>4 DEF PreparationFails, AgentAt, regVars, gpuVars, killVars, logVars,
         Register, Advance, SkipSeen, Typed, AgentTyped, AgentSet
  <2>2. history'.started = history.started
    BY <2>1, StartedMoves
  <2> QED BY <2>1, <2>2 DEF Prompt, SkipSeen, AgentAt
<1>5. CASE Submit
  <2>1. /\ ~Register /\ ~Advance
        /\ agent.pc = "submit"
        /\ agent'.pc = "register"
        /\ agent'.mode = agent.mode /\ agent'.stage = agent.stage
        /\ agent.mode = "step" => ~SkipSeen
    BY <1>5 DEF Submit, AgentAt, AgentGoes, regVars, gpuVars, killVars, logVars,
         Register, Advance, SkipSeen, Typed, AgentTyped, AgentSet
  <2>2. history'.started = history.started
    BY <2>1, StartedMoves
  <2> QED BY <2>1, <2>2 DEF Prompt, SkipSeen, AgentAt
<1>6. CASE Register
  <2>1. /\ agent.pc = "register" /\ agent'.pc = "future"
        /\ agent'.mode = agent.mode /\ agent'.stage = agent.stage /\ UNCHANGED control
    BY <1>6 DEF Register, AgentAt, AgentGoes, Typed, AgentTyped, AgentSet
  <2>2. PICK e \in Execs : /\ futures' = Append(futures, e)
                           /\ history' = [history EXCEPT
                                 !.acked = @ \ {e}, !.late = @ \ {e}, !.loose = @ \ {e},
                                 !.started = IF SkipSeen THEN @ + 1 ELSE @]
    BY <1>6 DEF Register
  <2>3. futures' # <<>>
    BY <2>2, AppendFacts DEF Typed, FuturesTyped
  <2>4. history.started \in Nat
    BY DEF Typed, HistorySet
  <2>5. PICK n \in Nat : n = IF SkipSeen THEN history.started + 1 ELSE history.started
    BY <2>4
  <2>6. history' = [history EXCEPT !.acked = @ \ {e}, !.late = @ \ {e}, !.loose = @ \ {e},
                                   !.started = n]
    BY <2>2, <2>5
  <2>7. history'.started = n
    BY <2>6 DEF Typed, HistorySet
  <2>8. CASE history.started > 0
    <3>1. agent.mode = "seeds" /\ history.started = 1
      BY <2>1, <2>8 DEF Prompt, AgentAt
    <3>2. ~SkipSeen
      BY <3>1 DEF SkipSeen
    <3>3. history'.started = 1
      BY <2>5, <2>7, <3>1, <3>2
    <3> QED BY <2>1, <3>1, <3>3 DEF Prompt, AgentAt
  <2>9. CASE ~(history.started > 0)
    <3>1. history.started = 0
      BY <2>4, <2>9
    <3>2. CASE SkipSeen
      <4>1. history'.started = 1
        BY <2>5, <2>7, <3>1, <3>2
      <4> QED BY <2>1, <2>3, <3>2, <4>1 DEF Prompt, SkipSeen, AgentAt
    <3>3. CASE ~SkipSeen
      <4>1. history'.started = 0
        BY <2>5, <2>7, <3>1, <3>3
      <4> QED BY <4>1 DEF Prompt
    <3> QED BY <3>2, <3>3
  <2> QED BY <2>8, <2>9
<1>7. CASE SubmitFuture
  <2>1. /\ ~Register /\ ~Advance /\ futures # <<>>
        /\ agent.pc = "future" /\ agent'.pc \in {"collect", "submit"}
        /\ agent'.mode = agent.mode /\ agent'.stage = agent.stage
        /\ UNCHANGED <<control, futures>>
    BY <1>7 DEF SubmitFuture, Register, Advance, AgentAt, Typed, AgentTyped, AgentSet,
       FuturesTyped, Holding
  <2>2. history'.started = history.started
    BY <2>1, StartedMoves
  <2> QED BY <2>1, <2>2 DEF Prompt, SkipSeen, AgentAt
<1>8. CASE SubmitFails
  <2>1. /\ ~Register /\ ~Advance
        /\ agent.pc = "future"
        /\ agent'.pc = "cleanup"
        /\ agent'.mode = agent.mode /\ agent'.stage = agent.stage
    BY <1>8 DEF SubmitFails, AgentAt, regVars, gpuVars, killVars, Register, Advance,
         SkipSeen, Typed, AgentTyped, AgentSet
  <2>2. history'.started = history.started
    BY <2>1, StartedMoves
  <2> QED BY <2>1, <2>2 DEF Prompt, SkipSeen, AgentAt
<1>9. CASE AbortActive
  <2>1. /\ ~Register /\ ~Advance
        /\ agent.pc \in {"submit", "collect"}
        /\ agent'.pc = "cancel"
        /\ agent'.mode = agent.mode /\ agent'.stage = agent.stage
        /\ agent.mode = "step"
    BY <1>9 DEF AbortActive, Flagged, AgentGoes, gpuVars, killVars, logVars, Register,
         Advance, SkipSeen, AgentAt, Typed, AgentTyped, AgentSet
  <2>2. history'.started = history.started
    BY <2>1, StartedMoves
  <2> QED BY <2>1, <2>2 DEF Prompt, SkipSeen, AgentAt
<1>10. CASE CancelFuture
  <2>1. agent.pc = "cancel" /\ UNCHANGED agent /\ ~Register /\ ~Advance
    BY <1>10 DEF CancelFuture, Register, Advance, AgentAt
  <2>2. history'.started = history.started
    BY <2>1, StartedMoves
  <2> QED BY <2>1, <2>2 DEF Prompt, AgentAt
<1>11. CASE CancelEnds
  <2>1. /\ ~Register /\ ~Advance
        /\ agent.pc = "cancel"
        /\ agent'.pc = "complete"
        /\ agent'.mode = agent.mode /\ agent'.stage = agent.stage
    BY <1>11 DEF CancelEnds, AgentAt, AgentGoes, regVars, gpuVars, killVars, Register,
         Advance, SkipSeen, Typed, AgentTyped, AgentSet
  <2>2. history'.started = history.started
    BY <2>1, StartedMoves
  <2> QED BY <2>1, <2>2 DEF Prompt, SkipSeen, AgentAt
<1>12. CASE Collect
  <2>1. /\ ~Register /\ ~Advance
        /\ agent.pc = "collect"
        /\ agent'.pc \in {"evaluate", "wait"}
        /\ agent'.mode = agent.mode /\ agent'.stage = agent.stage
        /\ agent.mode = "step" => futures = <<>> \/ ~SkipSeen
    BY <1>12 DEF Collect, AgentAt, AgentGoes, regVars, gpuVars, killVars, logVars,
         Register, Advance, SkipSeen, Typed, AgentTyped, AgentSet
  <2>2. history'.started = history.started
    BY <2>1, StartedMoves
  <2> QED BY <2>1, <2>2 DEF Prompt, SkipSeen, AgentAt
<1>13. CASE ResultArrives
  <2>1. /\ ~Register /\ ~Advance
        /\ agent.pc = "wait"
        /\ agent'.pc = "clear"
        /\ agent'.mode = agent.mode /\ agent'.stage = agent.stage
    BY <1>13 DEF ResultArrives, AgentAt, AgentGoes, gpuVars, killVars, logVars,
         Register, Advance, SkipSeen, Typed, AgentTyped, AgentSet
  <2>2. history'.started = history.started
    BY <2>1, StartedMoves
  <2> QED BY <2>1, <2>2 DEF Prompt, SkipSeen, AgentAt
<1>14. CASE TimesOut
  <2>1. /\ ~Register /\ ~Advance
        /\ agent.pc = "wait"
        /\ agent'.pc \in {"timeout", "clear"}
        /\ agent'.mode = agent.mode /\ agent'.stage = agent.stage
    BY <1>14 DEF TimesOut, Cancelled, AgentAt, AgentGoes, regVars, gpuVars, Register,
         Advance, SkipSeen, Typed, AgentTyped, AgentSet
  <2>2. history'.started = history.started
    BY <2>1, StartedMoves
  <2> QED BY <2>1, <2>2 DEF Prompt, SkipSeen, AgentAt
<1>15. CASE RestartExecutor
  <2>1. /\ ~Register /\ ~Advance
        /\ agent.pc = "restart"
        /\ agent'.pc = "clear"
        /\ agent'.mode = agent.mode /\ agent'.stage = agent.stage
    BY <1>15 DEF RestartExecutor, Cancelled, AgentAt, AgentGoes, regVars, gpuVars,
         killVars, logVars, Register, Advance, SkipSeen, Typed, AgentTyped, AgentSet
  <2>2. history'.started = history.started
    BY <2>1, StartedMoves
  <2> QED BY <2>1, <2>2 DEF Prompt, SkipSeen, AgentAt
<1>16. CASE ClearCollected
  <2>1. /\ ~Register /\ ~Advance
        /\ agent.pc = "clear"
        /\ agent'.pc = "collect"
        /\ agent'.mode = agent.mode /\ agent'.stage = agent.stage
    BY <1>16 DEF ClearCollected, Cleared, Released, Forget, AgentAt, AgentGoes,
         killVars, Register, Advance, SkipSeen, Typed, AgentTyped, AgentSet
  <2>2. history'.started = history.started
    BY <2>1, StartedMoves
  <2> QED BY <2>1, <2>2 DEF Prompt, SkipSeen, AgentAt
<1>17. CASE Evaluate
  <2>1. /\ ~Register /\ ~Advance
        /\ agent.pc = "evaluate"
        /\ agent.mode = "seeds" => agent'.pc = "cleanup" /\ agent'.mode = "seeds"
    BY <1>17 DEF Evaluate, AgentAt, AgentGoes, regVars, gpuVars, killVars, logVars,
         Register, Advance, SkipSeen, Typed, AgentTyped, AgentSet
  <2>2. history'.started = history.started
    BY <2>1, StartedMoves
  <2> QED BY <2>1, <2>2 DEF Prompt, SkipSeen, AgentAt
<1>18. CASE StageCompletes
  <2>1. /\ ~Register /\ ~Advance
        /\ agent.pc = "complete"
        /\ \/ agent'.pc = "submit" /\ agent'.mode = "seeds"
           \/ agent'.pc = "cleanup" /\ agent'.mode = agent.mode
    BY <1>18 DEF StageCompletes, AgentAt, AgentGoes, regVars, gpuVars, killVars,
         logVars, Register, Advance, SkipSeen, Typed, AgentTyped, AgentSet
  <2>2. history'.started = history.started
    BY <2>1, StartedMoves
  <2> QED BY <2>1, <2>2 DEF Prompt, SkipSeen, AgentAt
<1>19. CASE Cleanup
  <2>1. /\ ~Register /\ ~Advance
        /\ agent.pc = "cleanup"
        /\ agent'.pc = "advance"
        /\ agent'.mode = agent.mode /\ agent'.stage = agent.stage
    BY <1>19 DEF Cleanup, Cancelled, Cleared, Released, AgentAt, AgentGoes, killVars,
         Register, Advance, SkipSeen, Typed, AgentTyped, AgentSet
  <2>2. history'.started = history.started
    BY <2>1, StartedMoves
  <2> QED BY <2>1, <2>2 DEF Prompt, SkipSeen, AgentAt
<1>20. CASE Advance
  <2>1. CASE agent.mode = "substage" /\ UNCHANGED history
    <3>1. agent.pc = "advance"
      BY <1>20 DEF Advance, AgentAt
    <3>2. ~(history.started > 0)
      BY <2>1, <3>1 DEF Prompt, AgentAt
    <3> QED BY <2>1, <3>2 DEF Prompt
  <2>2. CASE NewStage
    <3>1. history'.started = 0
      BY <2>2 DEF NewStage, Typed, HistorySet
    <3> QED BY <3>1 DEF Prompt
  <2> QED BY <1>20, <2>1, <2>2 DEF Advance
<1>21. CASE PoolBreaks
  <2>1. UNCHANGED <<agent, futures, control>>
    BY <1>21 DEF PoolBreaks, agentVars
  <2>2. ~Register /\ ~Advance
    BY <2>1, AgentStays
  <2>3. history'.started = history.started
    BY <2>2, StartedMoves
  <2> QED BY <2>1, <2>3 DEF Prompt, SkipSeen, AgentAt
<1>22. CASE SkipRequested
  <2>1. UNCHANGED <<agent, futures>> /\ ~control.pending
    BY <1>22 DEF SkipRequested, agentVars
  <2>2. ~Register /\ ~Advance
    BY <2>1, AgentStays
  <2>3. history'.started = history.started
    BY <2>2, StartedMoves
  <2> QED BY <2>1, <2>3 DEF Prompt, SkipSeen, AgentAt
<1>23. ASSUME NEW k \in Killers, Flag(k) PROVE Prompt'
  <2>1. KillerEnds(k) /\ killers[k].pc # "idle" /\ UNCHANGED <<futures, control>>
    BY <1>23 DEF Flag, KillerAt
  <2>2. UNCHANGED agent \/ (AgentAt("timeout") /\ AgentGoes("restart"))
    BY <2>1, KillerEndsFacts DEF Killers
  <2>3. ~Register /\ ~Advance
    BY <2>2, AgentStays DEF Register, Advance, AgentAt
  <2>4. history'.started = history.started
    BY <2>3, StartedMoves
  <2>5. CASE UNCHANGED agent
    BY <2>1, <2>4, <2>5 DEF Prompt, SkipSeen, AgentAt
  <2>6. CASE AgentAt("timeout") /\ AgentGoes("restart")
    <3>1. agent.pc = "timeout" /\ agent'.pc = "restart" /\ agent'.mode = agent.mode
      BY <2>6 DEF AgentAt, AgentGoes, Typed, AgentTyped, AgentSet
    <3> QED BY <2>4, <3>1 DEF Prompt, AgentAt
  <2> QED BY <2>2, <2>5, <2>6
<1>24. ASSUME NEW k \in Killers, Kill(k) PROVE Prompt'
  <2>1. KillerEnds(k) /\ killers[k].pc # "idle" /\ UNCHANGED <<futures, control>>
    BY <1>24 DEF Kill, KillerAt
  <2>2. UNCHANGED agent \/ (AgentAt("timeout") /\ AgentGoes("restart"))
    BY <2>1, KillerEndsFacts DEF Killers
  <2>3. ~Register /\ ~Advance
    BY <2>2, AgentStays DEF Register, Advance, AgentAt
  <2>4. history'.started = history.started
    BY <2>3, StartedMoves
  <2>5. CASE UNCHANGED agent
    BY <2>1, <2>4, <2>5 DEF Prompt, SkipSeen, AgentAt
  <2>6. CASE AgentAt("timeout") /\ AgentGoes("restart")
    <3>1. agent.pc = "timeout" /\ agent'.pc = "restart" /\ agent'.mode = agent.mode
      BY <2>6 DEF AgentAt, AgentGoes, Typed, AgentTyped, AgentSet
    <3> QED BY <2>4, <3>1 DEF Prompt, AgentAt
  <2> QED BY <2>2, <2>5, <2>6
<1>25. ASSUME NEW k \in Killers, KillMisses(k) PROVE Prompt'
  <2>1. KillerEnds(k) /\ killers[k].pc # "idle" /\ UNCHANGED <<futures, control>>
    BY <1>25 DEF KillMisses, KillerAt
  <2>2. UNCHANGED agent \/ (AgentAt("timeout") /\ AgentGoes("restart"))
    BY <2>1, KillerEndsFacts DEF Killers
  <2>3. ~Register /\ ~Advance
    BY <2>2, AgentStays DEF Register, Advance, AgentAt
  <2>4. history'.started = history.started
    BY <2>3, StartedMoves
  <2>5. CASE UNCHANGED agent
    BY <2>1, <2>4, <2>5 DEF Prompt, SkipSeen, AgentAt
  <2>6. CASE AgentAt("timeout") /\ AgentGoes("restart")
    <3>1. agent.pc = "timeout" /\ agent'.pc = "restart" /\ agent'.mode = agent.mode
      BY <2>6 DEF AgentAt, AgentGoes, Typed, AgentTyped, AgentSet
    <3> QED BY <2>4, <3>1 DEF Prompt, AgentAt
  <2> QED BY <2>2, <2>5, <2>6
<1>26. ASSUME NEW e \in Execs, CheckSkip(e) PROVE Prompt'
  <2>1. UNCHANGED <<agent, futures, control>>
    BY <1>26 DEF CheckSkip, agentVars
  <2>2. ~Register /\ ~Advance
    BY <2>1, AgentStays
  <2>3. history'.started = history.started
    BY <2>2, StartedMoves
  <2> QED BY <2>1, <2>3 DEF Prompt, SkipSeen, AgentAt
<1>27. ASSUME NEW e \in Execs, WorkEnds(e) PROVE Prompt'
  <2>1. UNCHANGED <<agent, futures, control>>
    BY <1>27 DEF WorkEnds, agentVars
  <2>2. ~Register /\ ~Advance
    BY <2>1, AgentStays
  <2>3. history'.started = history.started
    BY <2>2, StartedMoves
  <2> QED BY <2>1, <2>3 DEF Prompt, SkipSeen, AgentAt
<1>28. ASSUME NEW e \in Execs, OrphanEnds(e) PROVE Prompt'
  <2>1. UNCHANGED <<agent, futures, control>>
    BY <1>28 DEF OrphanEnds, agentVars
  <2>2. ~Register /\ ~Advance
    BY <2>1, AgentStays
  <2>3. history'.started = history.started
    BY <2>2, StartedMoves
  <2> QED BY <2>1, <2>3 DEF Prompt, SkipSeen, AgentAt
<1>29. Killers = {"server", "agent"}
  BY DEF Killers
<1> QED BY <1>1, <1>2, <1>3, <1>4, <1>5, <1>6, <1>7, <1>8, <1>9, <1>10, <1>11,
       <1>12, <1>13, <1>14, <1>15, <1>16, <1>17, <1>18, <1>19, <1>20, <1>21,
       <1>22, <1>23, <1>24, <1>25, <1>26, <1>27, <1>28, <1>29
  DEF Next, AgentThread, ServerThread, AgentStep, KillerStep, WorkerStep

-----------------------------------------------------------------------------
(* The answers.                                                             *)

\* The request of a user has come too late for the execution.
Missed(f) ==
    /\ KillMisses("server")
    /\ killers["server"].reason = "user" /\ killers["server"].exec = f

\* What the registry knows of the batch it keeps, unless a request comes too late.
EntriesKeep ==
    \A f \in Batch \cap Batch' :
       /\ entries[f] # NoEntry => entries'[f] # NoEntry \/ Missed(f)
       /\ Heard(f) => Heard(f)' \/ Missed(f)

\* The batch has executions.
LEMMA BatchTyped == Typed => Batch \subseteq Execs
  BY DEF Typed, FuturesTyped, Batch, Range

\* What is terminated for neither a user nor a skip is late.
LEMMA TargetIsKnown ==
    ASSUME Typed, Terminations, NEW k \in Killers, killers[k].pc # "idle"
    PROVE  killers[k].reason \in {"user", "skip"} \/ killers[k].exec \in history.late
<1>1. CASE k = "server"
  BY <1>1 DEF Terminations
<1>2. CASE k = "agent"
  BY <1>2 DEF Terminations, Typed, AgentKills, AgentAt
<1> QED BY <1>1, <1>2 DEF Killers

\* Every step keeps to this.
LEMMA EntriesKept ==
    ASSUME Typed, Batches, Terminations, Next \/ UNCHANGED vars
    PROVE  EntriesKeep
<1> USE DEF EntriesKeep
<1>0. \A f \in Batch \cap Batch' : f \in history.late => f \in history'.late
  BY PastKept, BatchTyped DEF PastIsKept
<1>a. ASSUME NEW f \in Batch \cap Batch',
             \/ entries'[f] = entries[f]
             \/ /\ entries'[f] # NoEntry /\ entries'[f].status = "terminated"
                /\ entries'[f].payload \in {"user", "skip"} \/ f \in history'.late
             \/ Missed(f)
      PROVE  /\ entries[f] # NoEntry => entries'[f] # NoEntry \/ Missed(f)
             /\ Heard(f) => Heard(f)' \/ Missed(f)
  BY <1>0, <1>a DEF Heard
<1>1. CASE \/ Publish \/ Consume \/ PreparationFails \/ Submit \/ SubmitFuture
           \/ SubmitFails \/ CancelEnds \/ Collect \/ TimesOut \/ RestartExecutor
           \/ Evaluate \/ StageCompletes \/ Advance \/ SkipNext \/ SkipEnds
           \/ PoolBreaks \/ SkipRequested
           \/ \E k \in Killers : Share(k) \/ Kill(k)
           \/ \E e \in Execs : StartWork(e) \/ CheckSkip(e) \/ ReportPid(e) \/ CodexEnds(e)
           \/ \E e \in Execs : WorkEnds(e) \/ OrphanEnds(e) \/ TerminateRequested(e)
           \/ UNCHANGED vars
  <2>1. UNCHANGED entries
    BY <1>1 DEF Publish, Consume, PreparationFails, Submit, SubmitFuture,
       SubmitFails, CancelEnds, Collect, TimesOut, RestartExecutor, Evaluate,
       StageCompletes, Advance, SkipNext, SkipEnds, PoolBreaks, SkipRequested,
       Share, Kill, KillerEnds, StartWork, CheckSkip, ReportPid, CodexEnds,
       WorkEnds, OrphanEnds, TerminateRequested, vars, agentVars, regVars,
       gpuVars, killVars, logVars
  <2> QED BY <1>a, <2>1
<1>2. CASE Register
  <2>1. PICK e \in Execs : e \notin Batch /\ \A f \in Execs : f # e => entries'[f] = entries[f]
    BY <1>2, RegisterFacts
  <2>2. \A f \in Batch \cap Batch' : entries'[f] = entries[f]
    BY <2>1, BatchTyped
  <2> QED BY <1>a, <2>2
<1>3. CASE AbortActive
  <2>1. Flagged(Range(futures), "skip") /\ "skip" \in Reasons
    BY <1>3 DEF AbortActive, Reasons
  <2>2. \A f \in Execs : entries'[f] = entries[f] \/
           /\ entries[f] # NoEntry
           /\ entries'[f].status = "terminated" /\ entries'[f].payload = "skip"
    BY <2>1, FlaggedFacts
  <2>3. \A f \in Execs : entries'[f].status = "terminated" => entries'[f] # NoEntry
    BY DEF NoEntry
  <2>4. \A f \in Batch \cap Batch' :
           \/ entries'[f] = entries[f]
           \/ /\ entries'[f] # NoEntry /\ entries'[f].status = "terminated"
              /\ entries'[f].payload \in {"user", "skip"}
    BY <2>2, <2>3, BatchTyped
  <2> QED BY <1>a, <2>4
<1>4. CASE CancelFuture
  <2>1. Cleared({Head(futures)}) /\ Batch' = Batch \ {Head(futures)}
    BY <1>4, HeadLeaves DEF CancelFuture
  <2>2. \A f \in Batch \cap Batch' : entries'[f] = entries[f]
    BY <2>1, ClearedFacts, BatchTyped
  <2> QED BY <1>a, <2>2
<1>5. CASE ResultArrives
  <2> DEFINE h == Head(futures)
  <2>1. h \in Execs /\ entries[h] \in Entries
    BY <1>5, HeadAndLast DEF ResultArrives, AgentAt, Typed, FuturesTyped, Holding,
         RegTyped
  <2>2. \/ UNCHANGED entries
        \/ entries[h] # NoEntry /\ entries' = [entries EXCEPT ![h].node = TRUE]
    BY <1>5 DEF ResultArrives
  <2>3. CASE UNCHANGED entries
    BY <1>a, <2>3
  <2>4. CASE entries[h] # NoEntry /\ entries' = [entries EXCEPT ![h].node = TRUE]
    <3>1. entries' = [entries EXCEPT ![h] = [entries[h] EXCEPT !.node = TRUE]]
      BY <2>4, Zenon
    <3> DEFINE n == [entries[h] EXCEPT !.node = TRUE]
    <3>2. n.status = entries[h].status /\ n.payload = entries[h].payload /\ n.node = TRUE
      BY <2>1 DEF Entries
    <3>3. n # NoEntry
      BY <3>2 DEF NoEntry
    <3> HIDE DEF n, h
    <3>4. entries'[h] = n /\ \A f \in Execs : f # h => entries'[f] = entries[f]
      BY <2>1, <3>1 DEF Typed, RegTyped, n
    <3>5. ASSUME NEW f \in Batch \cap Batch'
          PROVE  /\ entries[f] # NoEntry => entries'[f] # NoEntry
                 /\ Heard(f) => Heard(f)'
      BY <1>0, <3>2, <3>3, <3>4, BatchTyped DEF Heard
    <3> QED BY <3>5
  <2> QED BY <2>2, <2>3, <2>4
<1>6. CASE ClearCollected
  <2>1. Cleared({Head(futures)} \ deferred) /\ Batch' = Batch \ {Head(futures)}
    BY <1>6, HeadLeaves DEF ClearCollected, AgentAt, Typed, FuturesTyped, Holding
  <2>2. \A f \in Batch \cap Batch' : entries'[f] = entries[f]
    BY <2>1, ClearedFacts, BatchTyped
  <2> QED BY <1>a, <2>2
<1>7. CASE Cleanup
  <2>1. Cleared(deferred) /\ agent.pc = "cleanup"
    BY <1>7 DEF Cleanup, AgentAt
  <2>2. \A f \in Batch : f \notin deferred
    BY <2>1 DEF Batches, AgentAt
  <2>3. \A f \in Batch \cap Batch' : entries'[f] = entries[f]
    BY <2>1, <2>2, ClearedFacts, BatchTyped
  <2> QED BY <1>a, <2>3
<1>8. ASSUME NEW k \in Killers, Flag(k) PROVE EntriesKeep
  <2> DEFINE r == killers[k].reason
  <2>1. /\ Flagged({killers[k].exec}, r) /\ r \in Reasons /\ killers[k].pc # "idle"
    BY <1>8 DEF Flag, KillerAt, Typed, KillTyped
  <2>2. \A f \in Execs : entries'[f] = entries[f] \/
           /\ f = killers[k].exec
           /\ entries'[f].status = "terminated" /\ entries'[f].payload = r
    <3>1. \A f \in Execs : entries'[f] = entries[f] \/
             /\ entries'[f].status = "terminated" /\ entries'[f].payload = r
      BY <2>1, FlaggedFacts
    <3>2. \A f \in Execs : f # killers[k].exec => entries'[f] = entries[f]
      BY <2>1 DEF Flagged
    <3> QED BY <3>1, <3>2
  <2>3. \A f \in Execs : entries'[f].status = "terminated" => entries'[f] # NoEntry
    BY DEF NoEntry
  <2>4. \A f \in Batch \cap Batch' :
           f = killers[k].exec => r \in {"user", "skip"} \/ f \in history'.late
    BY <1>0, <2>1, TargetIsKnown
  <2> HIDE DEF r
  <2>5. \A f \in Batch \cap Batch' :
           \/ entries'[f] = entries[f]
           \/ /\ entries'[f] # NoEntry /\ entries'[f].status = "terminated"
              /\ entries'[f].payload \in {"user", "skip"} \/ f \in history'.late
    BY <2>2, <2>3, <2>4, BatchTyped
  <2> QED BY <1>a, <2>5
<1>9. ASSUME NEW k \in Killers, Mark(k) PROVE EntriesKeep
  <2> DEFINE r == killers[k].reason
             e == killers[k].exec
  <2>1. killers[k].pc # "idle" /\ e \in Execs
    BY <1>9 DEF Mark, KillerAt, Typed, KillTyped
  <2>2. entries[e] \in Entries
    BY <2>1 DEF Typed, RegTyped
  <2>3. CASE UNCHANGED entries
    BY <1>a, <2>3
  <2>4. CASE entries' = [entries EXCEPT ![e].status = "terminated", ![e].payload = r]
    <3>1. entries' = [entries EXCEPT ![e] = [entries[e] EXCEPT !.status = "terminated",
                                                               !.payload = r]]
      BY <2>1, <2>4 DEF Typed, RegTyped
    <3> DEFINE n == [entries[e] EXCEPT !.status = "terminated", !.payload = r]
    <3>2. n.status = "terminated" /\ n.payload = r
      BY <2>2 DEF Entries
    <3>3. n # NoEntry
      BY <3>2 DEF NoEntry
    <3>4. \A f \in Batch \cap Batch' :
             f = killers[k].exec => r \in {"user", "skip"} \/ f \in history'.late
      BY <1>0, <2>1, TargetIsKnown
    <3> HIDE DEF n, r
    <3>5. entries'[e] = n /\ \A f \in Execs : f # e => entries'[f] = entries[f]
      BY <2>1, <3>1 DEF Typed, RegTyped, n
    <3>6. \A f \in Batch \cap Batch' :
             \/ entries'[f] = entries[f]
             \/ /\ entries'[f] # NoEntry /\ entries'[f].status = "terminated"
                /\ entries'[f].payload \in {"user", "skip"} \/ f \in history'.late
      BY <3>2, <3>3, <3>4, <3>5, BatchTyped
    <3> QED BY <1>a, <3>6
  <2> QED BY <1>9, <2>3, <2>4 DEF Mark
<1>10. ASSUME NEW k \in Killers, KillMisses(k) PROVE EntriesKeep
  <2>1. CASE UNCHANGED entries
    BY <1>a, <2>1
  <2>2. CASE killers[k].reason = "user" /\ Cleared({killers[k].exec})
    <3>1. k = "server"
      <4>1. killers[k].pc # "idle"
        BY <1>10 DEF KillMisses, KillerAt
      <4> QED BY <2>2, <4>1 DEF Terminations, Killers
    <3>2. \A f \in Batch \cap Batch' : f # killers[k].exec => entries'[f] = entries[f]
      BY <2>2, ClearedFacts, BatchTyped
    <3>3. Missed(killers[k].exec)
      BY <1>10, <2>2, <3>1 DEF Missed
    <3> QED BY <1>a, <3>2, <3>3
  <2> QED BY <1>10, <2>1, <2>2 DEF KillMisses, regVars
<1>11. Killers = {"server", "agent"}
  BY DEF Killers
<1> QED BY <1>1, <1>2, <1>3, <1>4, <1>5, <1>6, <1>7, <1>8, <1>9, <1>10, <1>11
  DEF Next, AgentThread, ServerThread, AgentStep, KillerStep, WorkerStep

\* An execution of the batch becomes acknowledged by the server's kill.
AckedMoves ==
    \A f \in Batch' : f \in history.acked' =>
       /\ f \in Batch
       /\ f \in history.acked \/ (Kill("server") /\ killers["server"].exec = f
                                  /\ killers["server"].reason = "user")

\* Every step keeps to this.
LEMMA AckedMoved ==
    ASSUME Typed, Batches, Terminations, Next \/ UNCHANGED vars
    PROVE  AckedMoves
<1> USE DEF AckedMoves
<1>1. CASE \/ Publish \/ PreparationFails \/ Submit \/ SubmitFuture \/ SubmitFails
           \/ AbortActive \/ Collect \/ ResultArrives \/ RestartExecutor \/ Evaluate
           \/ StageCompletes \/ SkipNext \/ SkipEnds
           \/ \E k \in Killers : Mark(k) \/ Share(k) \/ KillMisses(k)
           \/ \E e \in Execs : StartWork(e) \/ ReportPid(e) \/ CodexEnds(e) \/ TerminateRequested(e)
           \/ UNCHANGED vars
  <2>1. UNCHANGED <<history, futures>>
    BY <1>1 DEF Publish, PreparationFails, Submit, SubmitFuture, SubmitFails,
       AbortActive, Collect, ResultArrives, RestartExecutor, Evaluate,
       StageCompletes, SkipNext, SkipEnds, Mark, Share, KillMisses,
       KillerEnds, StartWork, ReportPid, CodexEnds, TerminateRequested, vars,
       agentVars, regVars, gpuVars, killVars, logVars
  <2> QED BY <2>1 DEF Batch
<1>2. CASE Consume
  <2>0. UNCHANGED futures
    BY <1>2 DEF Consume, AgentAt, regVars, gpuVars, killVars
  <2>1. UNCHANGED history \/ history' = [history EXCEPT !.skipped = @ \cup {agent.stage}]
    BY <1>2 DEF Consume
  <2>2. history'.acked = history.acked
    BY <2>1 DEF Typed, HistorySet
  <2> QED BY <2>0, <2>2 DEF Batch
<1>3. CASE Register
  <2>1. PICK e \in Execs : Batch' = Batch \cup {e} /\ history'.acked = history.acked \ {e}
    BY <1>3, RegisterFacts
  <2> QED BY <2>1
<1>4. CASE CancelFuture
  <2> DEFINE h == Head(futures)
  <2>1. futures # <<>> /\ futures' = Tail(futures) /\ LetGo(h)
    BY <1>4 DEF CancelFuture
  <2>2. h \in Execs /\ Batch' = Batch \ {h}
    BY <2>1, HeadLeaves, HeadAndLast
  <2>3. CASE Forget(h)
    <3>1. history'.acked = history.acked \ {h}
      BY <2>2, <2>3, ForgetFacts
    <3> QED BY <2>2, <3>1
  <2>4. CASE history' = [history EXCEPT !.loose = @ \cup {h}]
    <3>1. history'.acked = history.acked
      BY <2>4 DEF Typed, HistorySet
    <3> QED BY <2>2, <3>1
  <2> QED BY <2>1, <2>3, <2>4 DEF LetGo
<1>5. CASE CancelEnds
  <2>0. UNCHANGED futures
    BY <1>5 DEF CancelEnds, AgentAt, AgentGoes, regVars, gpuVars, killVars
  <2>1. history' = [history EXCEPT !.skipped = @ \cup {agent.stage}]
    BY <1>5 DEF CancelEnds
  <2>2. history'.acked = history.acked
    BY <2>1 DEF Typed, HistorySet
  <2> QED BY <2>0, <2>2 DEF Batch
<1>6. CASE TimesOut
  <2>0. UNCHANGED futures
    BY <1>6 DEF TimesOut, Cancelled, AgentAt, AgentGoes, regVars, gpuVars
  <2>1. \E L : history' = [history EXCEPT !.late = @ \cup {Head(futures)}, !.loose = L]
    BY <1>6 DEF TimesOut
  <2>2. history'.acked = history.acked
    BY <2>1 DEF Typed, HistorySet
  <2> QED BY <2>0, <2>2 DEF Batch
<1>7. CASE ClearCollected
  <2> DEFINE h == Head(futures)
  <2>1. /\ futures # <<>> /\ futures' = Tail(futures)
        /\ Forget(h) \/ history' = [history EXCEPT !.acked = @ \ {h}, !.late = @ \ {h}]
    BY <1>7 DEF ClearCollected, AgentAt, Typed, FuturesTyped, Holding
  <2>2. h \in Execs /\ Batch' = Batch \ {h}
    BY <2>1, HeadLeaves, HeadAndLast
  <2>3. CASE Forget(h)
    <3>1. history'.acked = history.acked \ {h}
      BY <2>2, <2>3, ForgetFacts
    <3> QED BY <2>2, <3>1
  <2>4. CASE history' = [history EXCEPT !.acked = @ \ {h}, !.late = @ \ {h}]
    <3>1. history'.acked = history.acked \ {h}
      BY <2>4 DEF Typed, HistorySet
    <3> QED BY <2>2, <3>1
  <2> QED BY <2>1, <2>3, <2>4
<1>8. CASE Cleanup
  <2>0. UNCHANGED futures
    BY <1>8 DEF Cleanup, Cancelled, Cleared, Released, AgentAt, AgentGoes, killVars
  <2>1. \E L : history' = [history EXCEPT !.loose = @ \cup L]
    BY <1>8 DEF Cleanup
  <2>2. history'.acked = history.acked
    BY <2>1 DEF Typed, HistorySet
  <2> QED BY <2>0, <2>2 DEF Batch
<1>9. CASE Advance
  <2>0. UNCHANGED futures
    BY <1>9 DEF Advance, NewStage, AgentAt, AgentGoes, regVars, gpuVars, killVars
  <2>1. UNCHANGED history \/ history' = [history EXCEPT !.accepted = {}, !.skipped = {}, !.started = 0]
    BY <1>9 DEF Advance, NewStage
  <2>2. history'.acked = history.acked
    BY <2>1 DEF Typed, HistorySet
  <2> QED BY <2>0, <2>2 DEF Batch
<1>10. CASE PoolBreaks
  <2>0. UNCHANGED futures
    BY <1>10 DEF PoolBreaks, agentVars, regVars, gpuVars, killVars
  <2>1. \E L : history' = [history EXCEPT !.loose = @ \cup L]
    BY <1>10 DEF PoolBreaks
  <2>2. history'.acked = history.acked
    BY <2>1 DEF Typed, HistorySet
  <2> QED BY <2>0, <2>2 DEF Batch
<1>11. CASE SkipRequested
  <2>0. UNCHANGED futures
    BY <1>11 DEF SkipRequested, agentVars, regVars, gpuVars
  <2>1. history' = [history EXCEPT !.accepted = @ \cup {control.stage}]
    BY <1>11 DEF SkipRequested
  <2>2. history'.acked = history.acked
    BY <2>1 DEF Typed, HistorySet
  <2> QED BY <2>0, <2>2 DEF Batch
<1>12. ASSUME NEW k \in Killers, Flag(k) PROVE AckedMoves
  <2>0. UNCHANGED futures
    BY <1>12 DEF Flag, Flagged, KillerAt, KillerEnds, AgentGoes, gpuVars
  <2>1. \E L : history' = [history EXCEPT !.loose = L]
    BY <1>12 DEF Flag
  <2>2. history'.acked = history.acked
    BY <2>1 DEF Typed, HistorySet
  <2> QED BY <2>0, <2>2 DEF Batch
<1>13. ASSUME NEW k \in Killers, Kill(k) PROVE AckedMoves
  <2>0. UNCHANGED futures /\ killers[k].pc # "idle"
    BY <1>13 DEF Kill, KillerAt
  <2>1. CASE UNCHANGED history
    BY <2>0, <2>1 DEF Batch
  <2>2. CASE /\ killers[k].reason = "user"
             /\ history' = [history EXCEPT !.acked = @ \cup {killers[k].exec}]
    <3>1. k = "server"
      BY <2>0, <2>2 DEF Terminations, Killers
    <3>2. history'.acked = history.acked \cup {killers[k].exec}
      BY <2>2 DEF Typed, HistorySet
    <3> QED BY <1>13, <2>0, <2>2, <3>1, <3>2 DEF Batch
  <2> QED BY <1>13, <2>1, <2>2 DEF Kill
<1>14. ASSUME NEW e \in Execs, CheckSkip(e) PROVE AckedMoves
  <2>0. UNCHANGED futures
    BY <1>14 DEF CheckSkip, WorkerAt, WorkerGoes, Ends, Forget, agentVars, regVars,
         killVars
  <2>1. UNCHANGED history \/ Ends(e, "aborted")
    BY <1>14 DEF CheckSkip
  <2>2. history'.acked \subseteq history.acked
    BY <2>1, EndsFacts DEF WorkerStates
  <2> QED BY <2>0, <2>2 DEF Batch
<1>15. ASSUME NEW e \in Execs, WorkEnds(e) PROVE AckedMoves
  <2>0. UNCHANGED futures
    BY <1>15 DEF WorkEnds, WorkerAt, Ends, Forget, agentVars, killVars
  <2>1. Ends(e, "done")
    BY <1>15 DEF WorkEnds
  <2>2. history'.acked \subseteq history.acked
    BY <2>1, EndsFacts DEF WorkerStates
  <2> QED BY <2>0, <2>2 DEF Batch
<1>16. ASSUME NEW e \in Execs, OrphanEnds(e) PROVE AckedMoves
  <2>0. UNCHANGED futures
    BY <1>16 DEF OrphanEnds, WorkerAt, Ends, Forget, agentVars, regVars, killVars
  <2>1. Ends(e, "failed")
    BY <1>16 DEF OrphanEnds
  <2>2. history'.acked \subseteq history.acked
    BY <2>1, EndsFacts DEF WorkerStates
  <2> QED BY <2>0, <2>2 DEF Batch
<1>17. Killers = {"server", "agent"}
  BY DEF Killers
<1> QED BY <1>1, <1>2, <1>3, <1>4, <1>5, <1>6, <1>7, <1>8, <1>9, <1>10, <1>11,
       <1>12, <1>13, <1>14, <1>15, <1>16, <1>17
  DEF Next, AgentThread, ServerThread, AgentStep, KillerStep, WorkerStep

\* What has come to its end comes to no other beginning.
WorkersSettle ==
    \A f \in Batch \cap Batch' :
       /\ workers[f] \in Through => workers'[f] \in Through
       /\ workers[f] \notin Unfinished =>
             workers'[f] = workers[f] \/ workers'[f] = "failed" \/ SubmitFuture

\* Every step keeps to this.
LEMMA WorkersSettled ==
    ASSUME Typed, Batches, Pids, Next \/ UNCHANGED vars
    PROVE  WorkersSettle
<1> USE DEF WorkersSettle
<1>a. ASSUME NEW f \in Batch \cap Batch',
             \/ workers'[f] = workers[f]
             \/ workers[f] \in {"queued", "preparing", "starting", "computing"}
             \/ /\ workers[f] \in {"exited", "killed"}
                /\ workers'[f] \in {"done", "failed", "exited", "killed"}
             \/ workers[f] \in {"done", "orphaned"} /\ workers'[f] = "failed"
             \/ workers[f] \in Unfinished /\ workers'[f] = "failed"
      PROVE  /\ workers[f] \in Through => workers'[f] \in Through
             /\ workers[f] \notin Unfinished =>
                   workers'[f] = workers[f] \/ workers'[f] = "failed" \/ SubmitFuture
  BY <1>a DEF Through, Unfinished
<1>b. Batch \subseteq Execs
  BY BatchTyped
<1>1. CASE \/ Publish \/ Consume \/ PreparationFails \/ Submit \/ SubmitFails
           \/ AbortActive \/ CancelEnds \/ Collect \/ Evaluate \/ StageCompletes
           \/ Advance \/ SkipNext \/ SkipEnds \/ SkipRequested
           \/ \E k \in Killers : Flag(k) \/ Mark(k) \/ Share(k) \/ KillMisses(k)
           \/ \E e \in Execs : TerminateRequested(e)
           \/ UNCHANGED vars
  <2>1. UNCHANGED workers
    BY <1>1 DEF Publish, Consume, PreparationFails, Submit, SubmitFails,
       AbortActive, CancelEnds, Collect, Evaluate, StageCompletes, Advance,
       SkipNext, SkipEnds, SkipRequested, Flag, KillerEnds, Mark, Share,
       KillMisses, TerminateRequested, vars, agentVars, regVars, gpuVars,
       killVars, logVars
  <2> QED BY <1>a, <2>1
<1>2. CASE Register
  <2>1. PICK e \in Execs : e \notin Batch /\ workers' = [workers EXCEPT ![e] = "none"]
    BY <1>2, RegisterFacts
  <2>2. \A f \in Batch \cap Execs : workers'[f] = workers[f]
    BY <2>1 DEF Typed, WorkTyped
  <2> QED BY <1>a, <1>b, <2>2
<1>3. CASE SubmitFuture
  <2>1. workers[LastExec] = "none" /\ workers' = [workers EXCEPT ![LastExec] = "queued"]
    BY <1>3 DEF SubmitFuture, Pids
  <2> QED BY <1>3, <2>1, BatchTyped DEF Typed, WorkTyped, Through
<1>4. CASE CancelFuture
  <2>1. /\ futures # <<>> /\ futures' = Tail(futures)
        /\ Head(futures) \in Execs /\ LetGo(Head(futures))
    BY <1>4, HeadAndLast DEF CancelFuture
  <2>2. Head(futures) \notin Batch'
    BY <2>1, HeadLeaves
  <2>3. UNCHANGED workers \/ workers' = [workers EXCEPT ![Head(futures)] = "none"]
    BY <2>1, ForgetFacts DEF LetGo
  <2>4. \A f \in Batch' \cap Execs : workers'[f] = workers[f]
    BY <2>2, <2>3 DEF Typed, WorkTyped
  <2> QED BY <1>a, <1>b, <2>4
<1>5. CASE ResultArrives
  <2>1. \/ UNCHANGED workers
        \/ workers' = [workers EXCEPT ![Head(futures)] = IF @ = "done" THEN "failed" ELSE @]
    BY <1>5 DEF ResultArrives
  <2>2. \A f \in Execs : workers'[f] = workers[f] \/
           (workers[f] \in {"done"} /\ workers'[f] \in {"failed"})
    BY <2>1 DEF Typed, WorkTyped
  <2> QED BY <1>a, <1>b, <2>2
<1>6. CASE TimesOut
  <2>1. UNCHANGED workers \/ Cancelled({Head(futures)})
    BY <1>6 DEF TimesOut
  <2>2. \A f \in Execs : workers'[f] = workers[f] \/ workers[f] = "queued"
    BY <2>1, CancelledFacts
  <2> QED BY <1>a, <1>b, <2>2
<1>7. CASE RestartExecutor
  <2>1. PICK E : Cancelled(E)
    BY <1>7 DEF RestartExecutor
  <2>2. \A f \in Execs : workers'[f] = workers[f] \/ workers[f] = "queued"
    BY <2>1, CancelledFacts
  <2> QED BY <1>a, <1>b, <2>2
<1>8. CASE ClearCollected
  <2>1. /\ futures # <<>> /\ futures' = Tail(futures) /\ Head(futures) \in Execs
        /\ UNCHANGED workers \/ Forget(Head(futures))
    BY <1>8, HeadAndLast DEF ClearCollected, AgentAt, Typed, FuturesTyped, Holding
  <2>2. Head(futures) \notin Batch'
    BY <2>1, HeadLeaves
  <2>3. UNCHANGED workers \/ workers' = [workers EXCEPT ![Head(futures)] = "none"]
    BY <2>1, ForgetFacts
  <2>4. \A f \in Batch' \cap Execs : workers'[f] = workers[f]
    BY <2>2, <2>3 DEF Typed, WorkTyped
  <2> QED BY <1>a, <1>b, <2>4
<1>9. CASE Cleanup
  <2>1. PICK E : Cancelled(E)
    BY <1>9 DEF Cleanup
  <2>2. \A f \in Execs : workers'[f] = workers[f] \/ workers[f] = "queued"
    BY <2>1, CancelledFacts
  <2> QED BY <1>a, <1>b, <2>2
<1>10. CASE PoolBreaks
  <2>1. \A f \in Execs :
           \/ workers'[f] = workers[f]
           \/ workers[f] \in {"starting", "computing"}
           \/ workers[f] \in Unfinished /\ workers'[f] = "failed"
    BY <1>10 DEF PoolBreaks, Unfinished
  <2> QED BY <1>a, <1>b, <2>1
<1>11. ASSUME NEW k \in Killers, Kill(k) PROVE WorkersSettle
  <2> DEFINE e == killers[k].exec
  <2>1. CASE workers[e] = "orphaned" /\ workers' = [workers EXCEPT ![e] = "failed"]
    BY <1>a, <1>b, <2>1 DEF Typed, WorkTyped
  <2>2. CASE workers[e] = "computing" /\ workers' = [workers EXCEPT ![e] = "killed"]
    BY <1>a, <1>b, <2>2 DEF Typed, WorkTyped
  <2>3. CASE workers[e] = "exited" /\ workers' = [workers EXCEPT ![e] = "exited"]
    BY <1>a, <1>b, <2>3 DEF Typed, WorkTyped
  <2> QED BY <1>11, <2>1, <2>2, <2>3 DEF Kill, WorkerGoes
<1>12. ASSUME NEW e \in Execs, StartWork(e) PROVE WorkersSettle
  <2>1. workers[e] \in {"queued"} /\ \E s \in {"preparing"} :
           workers' = [workers EXCEPT ![e] = s]
    BY <1>12 DEF StartWork, WorkerAt, WorkerGoes
  <2>2. \A f \in Execs : workers'[f] = workers[f] \/
           (workers[f] \in {"queued"} /\ workers'[f] \in {"preparing"})
    BY <2>1 DEF Typed, WorkTyped
  <2> QED BY <1>a, <1>b, <2>2
<1>13. ASSUME NEW e \in Execs, CheckSkip(e) PROVE WorkersSettle
  <2>1. workers[e] \in {"preparing"} /\ (Ends(e, "aborted") \/ WorkerGoes(e, "starting"))
    BY <1>13 DEF CheckSkip, WorkerAt
  <2>2. \A f \in Batch \cap Execs : workers'[f] = workers[f] \/
           (workers[f] \in {"preparing"} /\ workers'[f] \in {"aborted", "starting"})
    BY <2>1, EndsFacts DEF WorkerStates, WorkerGoes, Typed, WorkTyped, Batch
  <2> QED BY <1>a, <1>b, <2>2
<1>14. ASSUME NEW e \in Execs, ReportPid(e) PROVE WorkersSettle
  <2>1. workers[e] \in {"starting"} /\ \E s \in {"computing"} :
           workers' = [workers EXCEPT ![e] = s]
    BY <1>14 DEF ReportPid, WorkerAt, WorkerGoes
  <2>2. \A f \in Execs : workers'[f] = workers[f] \/
           (workers[f] \in {"starting"} /\ workers'[f] \in {"computing"})
    BY <2>1 DEF Typed, WorkTyped
  <2> QED BY <1>a, <1>b, <2>2
<1>15. ASSUME NEW e \in Execs, CodexEnds(e) PROVE WorkersSettle
  <2>1. workers[e] \in {"computing"} /\ \E s \in {"exited", "killed"} :
           workers' = [workers EXCEPT ![e] = s]
    BY <1>15 DEF CodexEnds, WorkerAt, WorkerGoes
  <2>2. \A f \in Execs : workers'[f] = workers[f] \/
           (workers[f] \in {"computing"} /\ workers'[f] \in {"exited", "killed"})
    BY <2>1 DEF Typed, WorkTyped
  <2> QED BY <1>a, <1>b, <2>2
<1>16. ASSUME NEW e \in Execs, WorkEnds(e) PROVE WorkersSettle
  <2>1. workers[e] \in {"exited", "killed"} /\ (Ends(e, "done"))
    BY <1>16 DEF WorkEnds, WorkerAt
  <2>2. \A f \in Batch \cap Execs : workers'[f] = workers[f] \/
           (workers[f] \in {"exited", "killed"} /\ workers'[f] \in {"done"})
    BY <2>1, EndsFacts DEF WorkerStates, WorkerGoes, Typed, WorkTyped, Batch
  <2> QED BY <1>a, <1>b, <2>2
<1>17. ASSUME NEW e \in Execs, OrphanEnds(e) PROVE WorkersSettle
  <2>1. workers[e] \in {"orphaned"} /\ (Ends(e, "failed"))
    BY <1>17 DEF OrphanEnds, WorkerAt
  <2>2. \A f \in Batch \cap Execs : workers'[f] = workers[f] \/
           (workers[f] \in {"orphaned"} /\ workers'[f] \in {"failed"})
    BY <2>1, EndsFacts DEF WorkerStates, WorkerGoes, Typed, WorkTyped, Batch
  <2> QED BY <1>a, <1>b, <2>2
<1>18. Killers = {"server", "agent"}
  BY DEF Killers
<1> QED BY <1>1, <1>2, <1>3, <1>4, <1>5, <1>6, <1>7, <1>8, <1>9, <1>10, <1>11,
       <1>12, <1>13, <1>14, <1>15, <1>16, <1>17, <1>18
  DEF Next, AgentThread, ServerThread, AgentStep, KillerStep, WorkerStep

\* Feedback that has reached the node that is about to be collected stays with it.
FeedbackKeeps ==
    agent.pc = "clear" => \A f \in Batch \cap Batch' :
       feedback[f] \in {"user", "skip"} => feedback'[f] \in {"user", "skip"}

\* Every step keeps to this.
LEMMA FeedbackKept ==
    ASSUME Typed, Batches, Terminations, Next \/ UNCHANGED vars
    PROVE  FeedbackKeeps
<1> USE DEF FeedbackKeeps
<1>1. CASE \/ Publish \/ Consume \/ PreparationFails \/ Submit \/ SubmitFuture
           \/ SubmitFails \/ AbortActive \/ CancelEnds \/ Collect \/ TimesOut
           \/ RestartExecutor \/ Evaluate \/ StageCompletes \/ Cleanup \/ Advance
           \/ SkipNext \/ SkipEnds \/ PoolBreaks \/ SkipRequested
           \/ \E k \in Killers : Flag(k) \/ Share(k) \/ Kill(k) \/ KillMisses(k)
           \/ \E e \in Execs : StartWork(e) \/ ReportPid(e) \/ CodexEnds(e) \/ TerminateRequested(e)
           \/ UNCHANGED vars
  <2>1. UNCHANGED feedback
    BY <1>1 DEF Publish, Consume, PreparationFails, Submit, SubmitFuture,
       SubmitFails, AbortActive, CancelEnds, Collect, TimesOut,
       RestartExecutor, Evaluate, StageCompletes, Cleanup, Advance, SkipNext,
       SkipEnds, PoolBreaks, SkipRequested, Flag, KillerEnds, Share, Kill,
       KillMisses, StartWork, ReportPid, CodexEnds, TerminateRequested, vars,
       agentVars, regVars, gpuVars, killVars, logVars
  <2> QED BY <2>1
<1>2. CASE Register
  <2>1. agent.pc # "clear"
    BY <1>2 DEF Register, AgentAt
  <2> QED BY <2>1
<1>3. CASE CancelFuture
  <2>1. agent.pc # "clear"
    BY <1>3 DEF CancelFuture, AgentAt
  <2> QED BY <2>1
<1>4. CASE ResultArrives
  <2>1. agent.pc # "clear"
    BY <1>4 DEF ResultArrives, AgentAt
  <2> QED BY <2>1
<1>5. CASE ClearCollected
  <2>1. /\ futures # <<>> /\ futures' = Tail(futures) /\ Head(futures) \in Execs
        /\ UNCHANGED feedback \/ Forget(Head(futures))
    BY <1>5, HeadAndLast DEF ClearCollected, AgentAt, Typed, FuturesTyped, Holding
  <2>2. Head(futures) \notin Batch'
    BY <2>1, HeadLeaves
  <2>3. UNCHANGED feedback \/ feedback' = [feedback EXCEPT ![Head(futures)] = "none"]
    BY <2>1, ForgetFacts
  <2> QED BY <2>2, <2>3, BatchTyped DEF Typed, RegTyped
<1>6. ASSUME NEW k \in Killers, Mark(k) PROVE FeedbackKeeps
  <2> SUFFICES ASSUME agent.pc = "clear" PROVE FeedbackKeeps
    OBVIOUS
  <2>1. k = "server" /\ killers[k].reason \in {"user", "skip"}
    BY <1>6 DEF Mark, KillerAt, Typed, AgentKills, AgentAt, Terminations, Killers
  <2>2. \/ UNCHANGED feedback
        \/ feedback' = [feedback EXCEPT ![killers[k].exec] = killers[k].reason]
    BY <1>6 DEF Mark
  <2> QED BY <2>1, <2>2, BatchTyped DEF Typed, RegTyped
<1>7. ASSUME NEW e \in Execs, CheckSkip(e) PROVE FeedbackKeeps
  <2>1. Ends(e, "aborted") \/ UNCHANGED feedback
    BY <1>7 DEF CheckSkip
  <2>2. e \in Batch => UNCHANGED feedback
    BY <2>1, EndsFacts DEF WorkerStates, Batch
  <2>3. e \notin Batch =>
           UNCHANGED feedback \/ feedback' = [feedback EXCEPT ![e] = "none"]
    BY <2>1, EndsFacts DEF WorkerStates, Batch
  <2> QED BY <2>2, <2>3, BatchTyped DEF Typed, RegTyped
<1>8. ASSUME NEW e \in Execs, WorkEnds(e) PROVE FeedbackKeeps
  <2>1. Ends(e, "done")
    BY <1>8 DEF WorkEnds
  <2>2. e \in Batch => UNCHANGED feedback
    BY <2>1, EndsFacts DEF WorkerStates, Batch
  <2>3. e \notin Batch =>
           UNCHANGED feedback \/ feedback' = [feedback EXCEPT ![e] = "none"]
    BY <2>1, EndsFacts DEF WorkerStates, Batch
  <2> QED BY <2>2, <2>3, BatchTyped DEF Typed, RegTyped
<1>9. ASSUME NEW e \in Execs, OrphanEnds(e) PROVE FeedbackKeeps
  <2>1. Ends(e, "failed")
    BY <1>9 DEF OrphanEnds
  <2>2. e \in Batch => UNCHANGED feedback
    BY <2>1, EndsFacts DEF WorkerStates, Batch
  <2>3. e \notin Batch =>
           UNCHANGED feedback \/ feedback' = [feedback EXCEPT ![e] = "none"]
    BY <2>1, EndsFacts DEF WorkerStates, Batch
  <2> QED BY <2>2, <2>3, BatchTyped DEF Typed, RegTyped
<1>10. Killers = {"server", "agent"}
  BY DEF Killers
<1> QED BY <1>1, <1>2, <1>3, <1>4, <1>5, <1>6, <1>7, <1>8, <1>9, <1>10
  DEF Next, AgentThread, ServerThread, AgentStep, KillerStep, WorkerStep

\* How the server comes to terminate an execution for a user: the request has found
\* it running, and the execution has been marked before its process is killed.
ServerActs ==
    killers'["server"].pc # "idle" /\ killers'["server"].reason = "user" =>
       \/ killers'["server"] = killers["server"]
       \/ /\ killers'["server"].pc = "mark"
          /\ entries[killers'["server"].exec].status = "running"
          /\ TerminateRequested(killers'["server"].exec)
       \/ /\ Mark("server") /\ killers'["server"].pc \in {"share", "kill"}
          /\ killers'["server"].exec = killers["server"].exec
          /\ killers["server"].reason = "user"
       \/ /\ Share("server") /\ killers'["server"].pc = "kill"
          /\ killers'["server"].exec = killers["server"].exec
          /\ killers["server"].reason = "user"

\* Every step of the server is one of these.
LEMMA ServerActed ==
    ASSUME Typed, Next \/ UNCHANGED vars
    PROVE  ServerActs
<1> USE DEF ServerActs
<1>1. CASE \/ Publish \/ Consume \/ PreparationFails \/ Submit \/ Register
           \/ SubmitFuture \/ SubmitFails \/ AbortActive \/ CancelFuture \/ CancelEnds
           \/ Collect \/ ResultArrives \/ RestartExecutor \/ ClearCollected \/ Evaluate
           \/ StageCompletes \/ Cleanup \/ Advance \/ SkipEnds \/ PoolBreaks
           \/ SkipRequested
           \/ \E e \in Execs : StartWork(e) \/ CheckSkip(e) \/ ReportPid(e) \/ CodexEnds(e)
           \/ \E e \in Execs : WorkEnds(e) \/ OrphanEnds(e)
           \/ UNCHANGED vars
  <2>1. UNCHANGED killers
    BY <1>1 DEF Publish, Consume, PreparationFails, Submit, Register,
       SubmitFuture, SubmitFails, AbortActive, CancelFuture, CancelEnds,
       Collect, ResultArrives, RestartExecutor, ClearCollected, Evaluate,
       StageCompletes, Cleanup, Advance, SkipEnds, PoolBreaks, SkipRequested,
       StartWork, CheckSkip, ReportPid, CodexEnds, WorkEnds, OrphanEnds, vars,
       agentVars, regVars, gpuVars, killVars, logVars
  <2> QED BY <2>1
<1>2. CASE TimesOut
  <2>1. Head(futures) \in Execs
    BY <1>2, HeadAndLast DEF TimesOut, AgentAt, Typed, FuturesTyped, Holding
  <2>2. CASE UNCHANGED killers
    BY <2>2
  <2>3. CASE killers' = [killers EXCEPT !["agent"] = Begun(Head(futures), "timeout")]
    <3>1. killers'["server"] = killers["server"]
      BY <2>1, <2>3, BeginFacts DEF Killers, Reasons
    <3> QED BY <3>1
  <2> QED BY <1>2, <2>2, <2>3 DEF TimesOut
<1>3. CASE SkipNext
  <2>1. PICK e \in Execs : killers' = [killers EXCEPT !["server"] = Begun(e, "skip")]
    BY <1>3 DEF SkipNext, Typed, TodoSet
  <2>2. killers'["server"].reason = "skip"
    BY <2>1, BeginFacts DEF Killers, Reasons
  <2> QED BY <2>2
<1>4. ASSUME NEW k \in Killers, Flag(k) PROVE ServerActs
  <2>1. KillerEnds(k) /\ killers[k].pc # "idle"
    BY <1>4 DEF Flag, KillerAt
  <2>2. \A j \in Killers : killers'[j].pc = "idle" \/ killers'[j] = killers[j]
    BY <2>1, OverFacts
  <2> QED BY <2>2 DEF Killers
<1>5. ASSUME NEW k \in Killers, Mark(k) PROVE ServerActs
  <2>1. \E pc \in {"share", "kill"} : KillerGoes(k, pc)
    BY <1>5 DEF Mark
  <2>2. /\ killers'[k].pc \in {"share", "kill"} /\ killers'[k].exec = killers[k].exec
        /\ killers'[k].reason = killers[k].reason
        /\ \A j \in Killers : j # k => killers'[j] = killers[j]
    BY <2>1, GoesFacts
  <2>3. CASE k = "server"
    BY <1>5, <2>2, <2>3
  <2>4. CASE k # "server"
    BY <2>2, <2>4 DEF Killers
  <2> QED BY <2>3, <2>4
<1>6. ASSUME NEW k \in Killers, Share(k) PROVE ServerActs
  <2>1. \E pc \in {"kill"} : KillerGoes(k, pc)
    BY <1>6 DEF Share
  <2>2. /\ killers'[k].pc \in {"kill"} /\ killers'[k].exec = killers[k].exec
        /\ killers'[k].reason = killers[k].reason
        /\ \A j \in Killers : j # k => killers'[j] = killers[j]
    BY <2>1, GoesFacts
  <2>3. CASE k = "server"
    BY <1>6, <2>2, <2>3
  <2>4. CASE k # "server"
    BY <2>2, <2>4 DEF Killers
  <2> QED BY <2>3, <2>4
<1>7. ASSUME NEW k \in Killers, Kill(k) PROVE ServerActs
  <2>1. KillerEnds(k) /\ killers[k].pc # "idle"
    BY <1>7 DEF Kill, KillerAt
  <2>2. \A j \in Killers : killers'[j].pc = "idle" \/ killers'[j] = killers[j]
    BY <2>1, OverFacts
  <2> QED BY <2>2 DEF Killers
<1>8. ASSUME NEW k \in Killers, KillMisses(k) PROVE ServerActs
  <2>1. KillerEnds(k) /\ killers[k].pc # "idle"
    BY <1>8 DEF KillMisses, KillerAt
  <2>2. \A j \in Killers : killers'[j].pc = "idle" \/ killers'[j] = killers[j]
    BY <2>1, OverFacts
  <2> QED BY <2>2 DEF Killers
<1>9. ASSUME NEW e \in Execs, TerminateRequested(e) PROVE ServerActs
  <2>1. /\ killers' = [killers EXCEPT !["server"] = Begun(e, "user")]
        /\ entries[e].status = "running" /\ shared[e].pid
    BY <1>9 DEF TerminateRequested
  <2>2. killers'["server"] = Begun(e, "user")
    BY <2>1 DEF Typed, KillTyped, Killers
  <2>3. Begun(e, "user").pc = "mark" /\ Begun(e, "user").exec = e
    BY <2>1 DEF Begun
  <2> QED BY <1>9, <2>1, <2>2, <2>3
<1>10. Killers = {"server", "agent"}
  BY DEF Killers
<1> QED BY <1>1, <1>2, <1>3, <1>4, <1>5, <1>6, <1>7, <1>8, <1>9, <1>10
  DEF Next, AgentThread, ServerThread, AgentStep, KillerStep, WorkerStep

\* How the agent comes to the end of its loop.
ComesToClear ==
    agent'.pc = "clear" =>
       /\ UNCHANGED futures
       /\ \/ agent.pc = "clear" /\ ~SubmitFuture
          \/ RestartExecutor \/ TimesOut \/ ResultArrives

\* The agent does not submit a future at the end of its loop.
LEMMA NotSubmitting == agent.pc = "clear" => ~SubmitFuture
  BY DEF SubmitFuture, AgentAt

\* Every step keeps to this.
LEMMA CameToClear ==
    ASSUME Typed, Next \/ UNCHANGED vars
    PROVE  ComesToClear
<1> USE DEF ComesToClear
<1>1. CASE \/ SkipNext \/ SkipEnds \/ PoolBreaks \/ SkipRequested
           \/ \E k \in Killers : Mark(k) \/ Share(k)
           \/ \E e \in Execs : StartWork(e) \/ CheckSkip(e) \/ ReportPid(e) \/ CodexEnds(e)
           \/ \E e \in Execs : WorkEnds(e) \/ OrphanEnds(e) \/ TerminateRequested(e)
           \/ UNCHANGED vars
  <2>1. UNCHANGED <<agent, futures>>
    BY <1>1 DEF SkipNext, SkipEnds, PoolBreaks, SkipRequested, Mark, Share,
       StartWork, CheckSkip, ReportPid, CodexEnds, WorkEnds, OrphanEnds,
       TerminateRequested, vars, agentVars, regVars, gpuVars, killVars,
       logVars
  <2> QED BY <2>1, NotSubmitting
<1>2. CASE Publish
  <2>1. agent'.pc = "consume"
    BY <1>2 DEF Publish, AgentGoes, Typed, AgentTyped, AgentSet
  <2> QED BY <2>1
<1>3. CASE Consume
  <2>1. agent'.pc \in {"complete", "submit"}
    BY <1>3 DEF Consume, AgentGoes, Typed, AgentTyped, AgentSet
  <2> QED BY <2>1
<1>4. CASE PreparationFails
  <2>1. agent'.pc = "cleanup"
    BY <1>4 DEF PreparationFails, AgentGoes, Typed, AgentTyped, AgentSet
  <2> QED BY <2>1
<1>5. CASE Submit
  <2>1. agent'.pc = "register"
    BY <1>5 DEF Submit, AgentGoes, Typed, AgentTyped, AgentSet
  <2> QED BY <2>1
<1>6. CASE Register
  <2>1. agent'.pc = "future"
    BY <1>6 DEF Register, AgentGoes, Typed, AgentTyped, AgentSet
  <2> QED BY <2>1
<1>7. CASE SubmitFuture
  <2>1. PICK x \in {"collect", "submit"} : x = IF agent.left = 1 THEN "collect" ELSE "submit"
    OBVIOUS
  <2>2. PICK n : n = agent.left - 1
    OBVIOUS
  <2>3. agent' = [agent EXCEPT !.left = n, !.pc = x]
    BY <1>7, <2>1, <2>2 DEF SubmitFuture
  <2>4. agent'.pc = x
    BY <2>3 DEF Typed, AgentTyped, AgentSet
  <2> QED BY <2>1, <2>4
<1>8. CASE SubmitFails
  <2>1. agent'.pc = "cleanup"
    BY <1>8 DEF SubmitFails, AgentGoes, Typed, AgentTyped, AgentSet
  <2> QED BY <2>1
<1>9. CASE AbortActive
  <2>1. agent'.pc = "cancel"
    BY <1>9 DEF AbortActive, AgentGoes, Typed, AgentTyped, AgentSet
  <2> QED BY <2>1
<1>10. CASE CancelFuture
  <2>1. agent'.pc = "cancel"
    BY <1>10 DEF CancelFuture, AgentAt
  <2> QED BY <2>1
<1>11. CASE CancelEnds
  <2>1. agent'.pc = "complete"
    BY <1>11 DEF CancelEnds, AgentGoes, Typed, AgentTyped, AgentSet
  <2> QED BY <2>1
<1>12. CASE Collect
  <2>1. agent'.pc \in {"evaluate", "wait"}
    BY <1>12 DEF Collect, AgentGoes, Typed, AgentTyped, AgentSet
  <2> QED BY <2>1
<1>13. CASE ResultArrives
  BY <1>13 DEF ResultArrives
<1>14. CASE TimesOut
  BY <1>14 DEF TimesOut
<1>15. CASE RestartExecutor
  BY <1>15 DEF RestartExecutor
<1>16. CASE ClearCollected
  <2>1. agent'.pc = "collect"
    BY <1>16 DEF ClearCollected, AgentGoes, Typed, AgentTyped, AgentSet
  <2> QED BY <2>1
<1>17. CASE Evaluate
  <2>1. agent'.pc \in {"publish", "cleanup", "complete"}
    BY <1>17 DEF Evaluate, AgentGoes, Typed, AgentTyped, AgentSet
  <2> QED BY <2>1
<1>18. CASE StageCompletes
  <2>1. agent'.pc \in {"submit", "cleanup"}
    BY <1>18 DEF StageCompletes, AgentGoes, Typed, AgentTyped, AgentSet
  <2> QED BY <2>1
<1>19. CASE Cleanup
  <2>1. agent'.pc = "advance"
    BY <1>19 DEF Cleanup, AgentGoes, Typed, AgentTyped, AgentSet
  <2> QED BY <2>1
<1>20. CASE Advance
  <2>1. agent'.pc \in {"publish", "over"}
    BY <1>20 DEF Advance, AgentGoes, Typed, AgentTyped, AgentSet
  <2> QED BY <2>1
<1>21. ASSUME NEW k \in Killers, Flag(k) PROVE ComesToClear
  <2>1. KillerEnds(k) /\ killers[k].pc # "idle" /\ UNCHANGED futures
    BY <1>21 DEF Flag, KillerAt
  <2>2. UNCHANGED agent \/ AgentGoes("restart")
    BY <2>1, KillerEndsFacts DEF Killers
  <2>3. agent'.pc = agent.pc \/ agent'.pc = "restart"
    BY <2>2 DEF AgentGoes, Typed, AgentTyped, AgentSet
  <2> QED BY <2>1, <2>3, NotSubmitting
<1>22. ASSUME NEW k \in Killers, Kill(k) PROVE ComesToClear
  <2>1. KillerEnds(k) /\ killers[k].pc # "idle" /\ UNCHANGED futures
    BY <1>22 DEF Kill, KillerAt
  <2>2. UNCHANGED agent \/ AgentGoes("restart")
    BY <2>1, KillerEndsFacts DEF Killers
  <2>3. agent'.pc = agent.pc \/ agent'.pc = "restart"
    BY <2>2 DEF AgentGoes, Typed, AgentTyped, AgentSet
  <2> QED BY <2>1, <2>3, NotSubmitting
<1>23. ASSUME NEW k \in Killers, KillMisses(k) PROVE ComesToClear
  <2>1. KillerEnds(k) /\ killers[k].pc # "idle" /\ UNCHANGED futures
    BY <1>23 DEF KillMisses, KillerAt
  <2>2. UNCHANGED agent \/ AgentGoes("restart")
    BY <2>1, KillerEndsFacts DEF Killers
  <2>3. agent'.pc = agent.pc \/ agent'.pc = "restart"
    BY <2>2 DEF AgentGoes, Typed, AgentTyped, AgentSet
  <2> QED BY <2>1, <2>3, NotSubmitting
<1>24. Killers = {"server", "agent"}
  BY DEF Killers
<1> QED BY <1>1, <1>2, <1>3, <1>4, <1>5, <1>6, <1>7, <1>8, <1>9, <1>10, <1>11,
       <1>12, <1>13, <1>14, <1>15, <1>16, <1>17, <1>18, <1>19, <1>20, <1>21,
       <1>22, <1>23, <1>24
  DEF Next, AgentThread, ServerThread, AgentStep, KillerStep, WorkerStep

\* The execution that a request of a user has missed is not acknowledged by it.
LEMMA MissedIsNotAcked ==
    ASSUME Answered, NEW f \in Batch, Missed(f)
    PROVE  f \notin history'.acked
<1>1. killers["server"].pc = "kill" /\ UNCHANGED history
  BY DEF Missed, KillMisses, KillerAt, logVars
<1>2. f \notin history.acked
  BY <1>1 DEF Answered, Missed
<1> QED BY <1>1, <1>2

\* What has been acknowledged stays heard.
LEMMA AckedStep ==
    ASSUME Typed, Batches, Terminations, Pids, Answered, Next \/ UNCHANGED vars,
           NEW f \in Batch' \cap history'.acked
    PROVE  workers'[f] \in Through /\ Heard(f)'
<1>1. /\ f \in Batch /\ ~Missed(f)
      /\ f \in history.acked \/ (Kill("server") /\ killers["server"].exec = f
                                 /\ killers["server"].reason = "user")
  BY AckedMoved, MissedIsNotAcked DEF AckedMoves
<1>2. Heard(f) => Heard(f)'
  BY <1>1, EntriesKept DEF EntriesKeep
<1>3. CASE f \in history.acked
  <2>1. workers[f] \in Through /\ Heard(f)
    BY <1>1, <1>3 DEF Answered
  <2>2. workers'[f] \in Through
    BY <1>1, <2>1, WorkersSettled DEF WorkersSettle
  <2> QED BY <1>2, <2>1, <2>2
<1>4. CASE Kill("server") /\ killers["server"].exec = f /\ killers["server"].reason = "user"
  <2>1. killers["server"].pc = "kill"
    BY <1>4 DEF Kill, KillerAt
  <2>2. Heard(f)
    BY <1>1, <1>4, <2>1 DEF Answered
  <2>3. \E s \in {"killed", "failed", "exited"} : workers' = [workers EXCEPT ![f] = s]
    BY <1>4 DEF Kill, WorkerGoes
  <2>4. workers'[f] \in Through
    BY <1>1, <2>3, BatchTyped DEF Typed, WorkTyped, Through
  <2> QED BY <1>2, <2>2, <2>4
<1> QED BY <1>1, <1>3, <1>4

\* A request of a user that is under way has not been answered yet, and has left its
\* words in the registry before it kills.
LEMMA RequestStep ==
    ASSUME Typed, Batches, Terminations, Pids, Answered, Next \/ UNCHANGED vars,
           killers'["server"].pc # "idle", killers'["server"].reason = "user",
           NEW e \in Execs, e = killers'["server"].exec
    PROVE  /\ killers'["server"].pc # "flag"
           /\ e \in Batch' =>
                 /\ e \notin history'.acked /\ entries'[e] # NoEntry
                 /\ killers'["server"].pc \in {"share", "kill"} => Heard(e)'
<1>0. "server" \in Killers
  BY DEF Killers
<1>1. ~Kill("server") /\ ~KillMisses("server")
  <2>1. Kill("server") \/ KillMisses("server") => KillerEnds("server") /\ killers["server"].pc # "idle"
    BY DEF Kill, KillMisses, KillerAt
  <2> QED BY <1>0, <2>1, OverFacts
<1>2. CASE killers'["server"] = killers["server"]
  <2>1. killers'["server"].pc # "flag"
    BY <1>2 DEF Answered
  <2>2. ASSUME e \in Batch'
        PROVE  /\ e \notin history'.acked /\ entries'[e] # NoEntry
               /\ killers'["server"].pc \in {"share", "kill"} => Heard(e)'
    <3>1. e \in Batch
      <4>1. CASE Register
        <5>1. PICK x \in Execs : Forgotten(x) /\ Batch' = Batch \cup {x}
          BY <4>1, RegisterFacts
        <5>2. killers["server"].exec # x
          BY <1>0, <5>1 DEF Forgotten
        <5> QED BY <1>2, <2>2, <5>1, <5>2
      <4>2. CASE CancelFuture \/ ClearCollected
        <5>1. futures # <<>> /\ futures' = Tail(futures)
          BY <4>2 DEF CancelFuture, ClearCollected, AgentAt, Typed, FuturesTyped,
               Holding
        <5> QED BY <2>2, <5>1, HeadLeaves
      <4>3. CASE UNCHANGED futures
        BY <2>2, <4>3 DEF Batch
      <4> QED BY <4>1, <4>2, <4>3, BatchMoves
    <3>2. /\ e \notin history.acked /\ entries[e] # NoEntry
          /\ killers["server"].pc \in {"share", "kill"} => Heard(e)
      BY <1>2, <3>1 DEF Answered
    <3>3. e \notin history'.acked
      BY <1>1, <2>2, <3>2, AckedMoved DEF AckedMoves
    <3>4. ~Missed(e)
      BY <1>1 DEF Missed
    <3>5. entries'[e] # NoEntry /\ (Heard(e) => Heard(e)')
      BY <2>2, <3>1, <3>2, <3>4, EntriesKept DEF EntriesKeep
    <3> QED BY <1>2, <3>2, <3>3, <3>5
  <2> QED BY <2>1, <2>2
<1>3. CASE /\ killers'["server"].pc = "mark" /\ entries[e].status = "running"
           /\ TerminateRequested(e)
  <2>1. UNCHANGED <<futures, entries, history>>
    BY <1>3 DEF TerminateRequested, agentVars, regVars
  <2>2. e \in Batch => e \notin history.acked
    BY <1>3 DEF Answered, Heard
  <2>3. entries[e] # NoEntry
    BY <1>3 DEF NoEntry
  <2> QED BY <1>3, <2>1, <2>2, <2>3 DEF Batch
<1>4. CASE /\ Mark("server") /\ killers'["server"].pc \in {"share", "kill"}
           /\ e = killers["server"].exec /\ killers["server"].reason = "user"
  <2>1. UNCHANGED <<futures, history>> /\ killers["server"].pc = "mark"
    BY <1>4 DEF Mark, KillerAt, agentVars, logVars
  <2>2. ASSUME e \in Batch'
        PROVE  e \notin history'.acked /\ entries'[e] # NoEntry /\ Heard(e)'
    <3>1. e \notin history.acked /\ entries[e] # NoEntry
      BY <1>4, <2>1, <2>2 DEF Answered, Batch
    <3>2. entries' = [entries EXCEPT ![e].status = "terminated", ![e].payload = "user"]
      BY <1>4, <3>1 DEF Mark
    <3>3. entries' = [entries EXCEPT ![e] = [entries[e] EXCEPT !.status = "terminated",
                                                               !.payload = "user"]]
      BY <3>2 DEF Typed, RegTyped
    <3> DEFINE n == [entries[e] EXCEPT !.status = "terminated", !.payload = "user"]
    <3>4. n.status = "terminated" /\ n.payload = "user"
      <4>1. entries[e] \in Entries
        BY DEF Typed, RegTyped
      <4> QED BY <4>1 DEF Entries
    <3>5. entries'[e] = n
      BY <3>3 DEF Typed, RegTyped
    <3> HIDE DEF n
    <3>6. entries'[e].status = "terminated" /\ entries'[e].payload = "user"
      BY <3>4, <3>5
    <3>7. NoEntry.status # "terminated"
      BY DEF NoEntry
    <3> QED BY <2>1, <3>1, <3>6, <3>7 DEF Heard
  <2> QED BY <1>4, <2>2
<1>5. CASE /\ Share("server") /\ killers'["server"].pc = "kill"
           /\ e = killers["server"].exec /\ killers["server"].reason = "user"
  <2>1. UNCHANGED <<futures, entries, history>> /\ killers["server"].pc = "share"
    BY <1>5 DEF Share, KillerAt, agentVars, logVars
  <2>2. e \in Batch => /\ e \notin history.acked /\ entries[e] # NoEntry
                       /\ Heard(e)
    BY <1>5, <2>1 DEF Answered
  <2> QED BY <1>5, <2>1, <2>2 DEF Batch, Heard
<1> QED BY <1>2, <1>3, <1>4, <1>5, ServerActed DEF ServerActs

\* When the agent has come to the end of its loop in time, the worker is through, and
\* what was acknowledged has its feedback.
LEMMA CollectedStep ==
    ASSUME Typed, Batches, Terminations, Pids, Answered, Next \/ UNCHANGED vars,
           agent'.pc = "clear", Head(futures') \notin history'.late
    PROVE  LET e == Head(futures') IN
           /\ workers'[e] \notin Unfinished
           /\ e \in history'.acked /\ workers'[e] \notin {"failed", "orphaned"}
                 => feedback'[e] \in {"user", "skip"}
<1> DEFINE e == Head(futures)
<1>1. UNCHANGED futures
  BY CameToClear DEF ComesToClear
<1>2. e \in Execs /\ e \in Batch /\ e \in Batch'
  <2>1. agent.pc \in {"clear", "restart", "wait"}
    BY CameToClear DEF ComesToClear, RestartExecutor, TimesOut, ResultArrives, AgentAt
  <2> QED BY <1>1, <2>1, HeadAndLast DEF Typed, FuturesTyped, Holding, Batch
<1>3. e \notin history.late
  BY <1>1, <1>2, PastKept DEF PastIsKept
<1>4. CASE agent.pc = "clear" /\ ~SubmitFuture
  <2>1. /\ workers[e] \notin Unfinished
        /\ e \in history.acked /\ workers[e] \notin {"failed", "orphaned"}
              => feedback[e] \in {"user", "skip"}
    BY <1>3, <1>4 DEF Answered, AgentAt
  <2>2. workers'[e] = workers[e] \/ workers'[e] = "failed"
    BY <1>2, <1>4, <2>1, WorkersSettled DEF WorkersSettle
  <2>3. ASSUME e \in history'.acked, workers'[e] \notin {"failed", "orphaned"}
        PROVE  feedback'[e] \in {"user", "skip"}
    <3>1. CASE e \in history.acked
      <4>1. feedback[e] \in {"user", "skip"}
        BY <2>1, <2>2, <2>3, <3>1
      <4> QED BY <1>2, <1>4, <4>1, FeedbackKept DEF FeedbackKeeps
    <3>2. CASE Kill("server") /\ killers["server"].exec = e
      <4>1. workers[e] = "orphaned"
        BY <2>1, <3>2 DEF Kill, Unfinished
      <4>2. workers' = [workers EXCEPT ![e] = "failed"]
        BY <3>2, <4>1 DEF Kill, WorkerGoes
      <4>3. workers'[e] = "failed"
        BY <1>2, <4>2 DEF Typed, WorkTyped
      <4> QED BY <2>3, <4>3
    <3> QED BY <1>2, <2>3, <3>1, <3>2, AckedMoved DEF AckedMoves
  <2> QED BY <1>1, <2>1, <2>2, <2>3 DEF Unfinished
<1>5. CASE RestartExecutor
  <2>1. e \in history.late
    BY <1>5 DEF RestartExecutor, AgentAt, Terminations
  <2> QED BY <1>3, <2>1
<1>6. CASE TimesOut
  <2>1. PICK L : history' = [history EXCEPT !.late = @ \cup {e}, !.loose = L]
    BY <1>6 DEF TimesOut
  <2>2. e \in history'.late
    BY <2>1 DEF Typed, HistorySet
  <2> QED BY <1>1, <2>2
<1>7. CASE ResultArrives
  <2>1. workers[e] \notin Unfinished /\ UNCHANGED history
    BY <1>7 DEF ResultArrives, logVars
  <2>2. e \in history.acked =>
           /\ workers[e] \in {"done", "failed"} /\ entries[e].status = "terminated"
           /\ entries[e].payload \in {"user", "skip"}
    BY <1>2, <1>3, <2>1 DEF Answered, Heard, Through, Unfinished
  <2>3. CASE workers[e] = "done" /\ UNCHANGED workers /\ ~UNCHANGED <<entries, feedback>>
    <3>1. /\ entries[e] # NoEntry
          /\ feedback' = [feedback EXCEPT ![e] =
                IF entries[e].payload # "none" THEN entries[e].payload ELSE @]
      BY <1>7, <2>3 DEF ResultArrives
    <3>2. entries[e].payload \in {"user", "skip"} => feedback'[e] = entries[e].payload
      BY <1>2, <3>1 DEF Typed, RegTyped
    <3> QED BY <1>1, <2>1, <2>2, <2>3, <3>2 DEF Unfinished
  <2>4. CASE workers[e] = "done" /\ UNCHANGED workers /\ entries[e] = NoEntry
    <3>1. e \notin history.acked
      BY <2>2, <2>4 DEF NoEntry
    <3> QED BY <1>1, <2>1, <2>4, <3>1
  <2>5. CASE workers' = [workers EXCEPT ![e] = IF @ = "done" THEN "failed" ELSE @]
    <3>1. workers'[e] = IF workers[e] = "done" THEN "failed" ELSE workers[e]
      BY <1>2, <2>5 DEF Typed, WorkTyped
    <3> QED BY <1>1, <2>1, <2>2, <3>1 DEF Unfinished
  <2>6. CASE /\ workers[e] = "done" /\ UNCHANGED workers /\ entries[e] # NoEntry
             /\ feedback' = [feedback EXCEPT ![e] =
                   IF entries[e].payload # "none" THEN entries[e].payload ELSE @]
    <3>2. entries[e].payload \in {"user", "skip"} => feedback'[e] = entries[e].payload
      BY <1>2, <2>6 DEF Typed, RegTyped
    <3> QED BY <1>1, <2>1, <2>2, <2>6, <3>2 DEF Unfinished
  <2> QED BY <1>7, <2>4, <2>5, <2>6 DEF ResultArrives
<1> QED BY <1>4, <1>5, <1>6, <1>7, CameToClear DEF ComesToClear

\* What the user has been told stays true.
LEMMA AnsweredStep ==
    ASSUME Typed, Batches, Terminations, Pids, Answered, Next \/ UNCHANGED vars
    PROVE  Answered'
<1>1. \A e \in Batch' \cap history'.acked : workers'[e] \in Through /\ Heard(e)'
  BY AckedStep
<1>2. killers'["server"].pc # "idle" /\ killers'["server"].reason = "user" =>
         LET e == killers'["server"].exec IN
         /\ killers'["server"].pc # "flag"
         /\ e \in Batch' =>
               /\ e \notin history'.acked /\ entries'[e] # NoEntry
               /\ killers'["server"].pc \in {"share", "kill"} =>
                     /\ entries'[e].status = "terminated"
                     /\ entries'[e].payload \in {"user", "skip"} \/ e \in history'.late
  <2> SUFFICES ASSUME killers'["server"].pc # "idle", killers'["server"].reason = "user"
               PROVE  LET e == killers'["server"].exec IN
                      /\ killers'["server"].pc # "flag"
                      /\ e \in Batch' =>
                            /\ e \notin history'.acked /\ entries'[e] # NoEntry
                            /\ killers'["server"].pc \in {"share", "kill"} =>
                                  /\ entries'[e].status = "terminated"
                                  /\ \/ entries'[e].payload \in {"user", "skip"}
                                     \/ e \in history'.late
    OBVIOUS
  <2>1. killers'["server"].exec \in Execs
    BY StepTyped DEF Typed, KillTyped, Killers
  <2>2. PICK e \in Execs : e = killers'["server"].exec
    BY <2>1
  <2>3. /\ killers'["server"].pc # "flag"
        /\ e \in Batch' =>
              /\ e \notin history'.acked /\ entries'[e] # NoEntry
              /\ killers'["server"].pc \in {"share", "kill"} => Heard(e)'
    BY <2>2, RequestStep
  <2> QED BY <2>2, <2>3 DEF Heard
<1>3. agent'.pc = "clear" =>
         LET e == Head(futures') IN
         e \notin history'.late =>
            /\ workers'[e] \notin Unfinished
            /\ e \in history'.acked /\ workers'[e] \notin {"failed", "orphaned"}
                  => feedback'[e] \in {"user", "skip"}
  BY CollectedStep
<1> QED BY <1>1, <1>2, <1>3 DEF Answered, AgentAt, Heard

-----------------------------------------------------------------------------
(* The theorems.                                                            *)

\* The invariant holds when the experiment begins.
LEMMA InitInv == Init => IInv
<1> SUFFICES ASSUME Init PROVE IInv
  OBVIOUS
<1>1. Typed
  BY InitTyped
<1>2. Batch = {} /\ DOMAIN futures = {} /\ agent.pc = "publish"
  BY DEF Init, Batch, Range
<1>3. \A k \in Killers : killers[k].pc = "idle"
  BY DEF Init, NoKiller
<1>4. "agent" \in Killers /\ "server" \in Killers
  BY DEF Killers
<1>5. /\ \A e \in Execs : workers[e] = "none" /\ reserved[e] = NoGpu
      /\ history.acked = {} /\ history.started = 0
  BY DEF Init
<1>6. Batches
  BY <1>2 DEF Batches
<1>7. Terminations
  BY <1>2, <1>3, <1>4 DEF Terminations
<1>8. Pids
  BY <1>2, <1>5 DEF Pids, Before, AgentAt
<1>9. Allotted
  BY <1>2, <1>5 DEF Allotted, Early, Before, AgentAt
<1>10. Answered
  BY <1>2, <1>3, <1>4, <1>5 DEF Answered, AgentAt
<1>11. Prompt
  BY <1>5 DEF Prompt
<1> QED BY <1>1, <1>6, <1>7, <1>8, <1>9, <1>10, <1>11 DEF IInv

\* Every step keeps it.
LEMMA StepInv == IInv /\ [Next]_vars => IInv'
<1> SUFFICES ASSUME IInv, Next \/ UNCHANGED vars PROVE IInv'
  OBVIOUS
<1>1. Typed /\ Batches /\ Terminations /\ Pids /\ Allotted /\ Answered /\ Prompt
  BY DEF IInv
<1>2. Typed'
  BY <1>1, StepTyped
<1>3. Batches' /\ Terminations'
  BY <1>1, BatchesStep, TerminationsStep
<1>4. Pids'
  BY <1>1, PidsStep
<1>5. Allotted'
  BY <1>1, AllottedStep
<1>6. Answered'
  BY <1>1, AnsweredStep
<1>7. Prompt'
  BY <1>1, PromptStep
<1> QED BY <1>2, <1>3, <1>4, <1>5, <1>6, <1>7 DEF IInv

\* The invariant holds in every state.
LEMMA Invariant == Spec => []IInv
  BY InitInv, StepInv, PTL DEF Spec

\* Two experiments never share a GPU, unless the agent has let go of one of them that
\* was still running: acquire_gpu gives out what is free, and release_gpu comes after
\* the worker of the execution has ended or been let go of.
THEOREM GpusNeverShared == Spec => []GpusAreExclusive
<1>1. IInv => GpusAreExclusive
  <2> SUFFICES ASSUME IInv, NEW e \in Computing, NEW f \in Computing,
                      e # f, gpuOf[e] = gpuOf[f], gpuOf[e] # NoGpu,
                      e \notin history.loose, f \notin history.loose
               PROVE  FALSE
    BY DEF GpusAreExclusive
  <2>1. /\ e \in Execs /\ workers[e] \in Early \cup {"orphaned"}
        /\ f \in Execs /\ workers[f] \in Early \cup {"orphaned"}
    BY DEF Computing, Early, Before
  <2>2. reserved[e] = gpuOf[e] /\ reserved[f] = gpuOf[f]
    BY <2>1 DEF IInv, Allotted
  <2> QED BY <2>1, <2>2 DEF IInv, Allotted
<1> QED BY <1>1, Invariant, PTL

\* A termination the user was told to be under way has its feedback delivered to a node
\* when the execution has been collected: mark_terminated comes before the kill, and
\* the entry is kept until attach_node has seen it.
THEOREM FeedbackIsDelivered == Spec => []AckedMeansFeedback
<1>1. IInv => AckedMeansFeedback
  BY DEF IInv, Answered, AckedMeansFeedback
<1> QED BY <1>1, Invariant, PTL

\* Once a skip of its stage has been accepted at most one more execution is registered:
\* ensure_no_skip_pending comes before every registration of a step.
THEOREM SkipsArePrompt == Spec => []SkipIsPrompt
<1>1. IInv => SkipIsPrompt
  <2> SUFFICES ASSUME IInv PROVE SkipIsPrompt
    OBVIOUS
  <2>1. history.started \in Nat /\ (history.started > 0 => history.started = 1)
    BY DEF IInv, Typed, HistorySet, Prompt
  <2> QED BY <2>1 DEF SkipIsPrompt
<1> QED BY <1>1, Invariant, PTL

=====
