----------------------------- MODULE PaperFlow -----------------------------
(***************************************************************************)
(* What the launcher does after the experiments: aggregate plots, write    *)
(* the paper in several attempts of several rounds, review it, upload, and *)
(* tell the server.  All it knows of earlier launches are the files they   *)
(* left.                                                                   *)
(***************************************************************************)
EXTENDS Naturals

CONSTANTS
    MaxRetries,  \* writeup_retries
    MaxRounds,   \* max_refinement_rounds
    MaxFaults    \* bound: calls that raise, and executions that crash

ASSUME PaperAssumption ==
    MaxRetries \in Nat \ {0} /\ MaxRounds \in Nat /\ MaxFaults \in Nat

VARIABLES
    at,      \* where the launcher's thread is
    ok,      \* the run outcome, then run_success
    disk,    \* files of the run: [stages, files, pdfs], pdfs by version
    report,  \* what the server was told: none, success or failure
    paper,   \* the attempt: [tries, round, built, origin, finished]
    blame,   \* history: why this launch may end otherwise than it should
    budget   \* faults, kills and resumes used so far

launch == <<at, ok, disk, report, paper, blame, budget>>

NoAttempt == [tries |-> 0, round |-> 0, built |-> FALSE, origin |-> 0, finished |-> FALSE]

PaperInit ==
    /\ ok = TRUE /\ report = "none" /\ blame = {}
    /\ disk = [stages |-> {}, files |-> {}, pdfs |-> {}]
    /\ paper = NoAttempt
    /\ budget = [faults |-> 0, kills |-> 0, resumes |-> 0]

With(d, f) == [d EXCEPT !.files = @ \cup {f}]
Fault == budget.faults < MaxFaults /\ budget' = [budget EXCEPT !.faults = @ + 1]

(* Whatever raises is caught by execute_launcher, reported as a failure    *)
(* and raised again.                                                       *)
Fails ==
    /\ at' = "finish" /\ ok' = FALSE /\ blame' = blame \cup {"raised"}
    /\ UNCHANGED <<disk, report, paper>>

CallFails ==
    /\ at \in {"judge", "seeds", "summarise", "write", "review", "upload"}
    /\ Fault /\ Fails

(* The idea and the title are copied to the run directory only now.        *)
CopyIdea ==
    /\ at = "copy" /\ at' = "plots" /\ disk' = With(disk, "idea")
    /\ UNCHANGED <<ok, report, paper, blame, budget>>

(* Most failures of the aggregation leave no figures and pass for success. *)
Aggregate ==
    /\ at = "plots" /\ at' = "write"
    /\ disk' \in IF "figures" \in disk.files THEN {disk}
                 ELSE {disk, With(disk, "figures")}
    /\ UNCHANGED <<ok, report, paper, blame, budget>>

(* One that raises skips the write-up, unless a paper is there, and is no  *)
(* failure of the run.                                                     *)
AggregationFails ==
    /\ at = "plots" /\ "figures" \notin disk.files
    /\ at' = IF disk.pdfs = {} THEN "review" ELSE "write"
    /\ blame' = blame \cup {"plots"}
    /\ UNCHANGED <<ok, disk, report, paper, budget>>

(* Any PDF of the run is taken for a finished paper.                       *)
KeepPaper ==
    /\ at = "write" /\ paper.tries = 0 /\ disk.pdfs # {} /\ at' = "review"
    /\ blame' = IF paper.finished THEN blame ELSE blame \cup {"left"}
    /\ UNCHANGED <<ok, disk, report, paper, budget>>

(* An attempt starts from an empty latex folder; PDFs of earlier attempts  *)
(* stay in the run's folder.                                               *)
BeginAttempt ==
    /\ at = "write" /\ paper.tries < MaxRetries
    /\ paper.tries = 0 => disk.pdfs = {}
    /\ at' = "draft"
    /\ paper' = [paper EXCEPT !.tries = @ + 1, !.round = 0, !.built = FALSE]
    /\ UNCHANGED <<ok, disk, report, blame, budget>>

(* The agent builds a PDF, which is copied, or latex does, and it is moved;*)
(* without either an old one will do.                                      *)
Draft ==
    /\ at = "draft"
    /\ \/ \E agent \in BOOLEAN :
            /\ paper' = [paper EXCEPT !.built = agent, !.origin = paper.tries]
            /\ disk' = [disk EXCEPT !.pdfs = @ \cup {0}] /\ at' = "refine"
       \/ /\ at' = IF 0 \in disk.pdfs THEN "refine" ELSE "write"
          /\ UNCHANGED <<paper, disk>>
    /\ UNCHANGED <<ok, report, blame, budget>>

(* A round of review and refinement.  A PDF the agent built earlier is     *)
(* still in the latex folder and is saved again.                           *)
Refine ==
    /\ at = "refine" /\ paper.round < MaxRounds /\ at' = "refine"
    /\ \/ \E agent \in BOOLEAN :
            /\ paper' = [paper EXCEPT !.round = @ + 1, !.built = agent \/ @]
            /\ disk' = [disk EXCEPT !.pdfs = @ \cup {paper.round + 1}]
       \/ /\ ~paper.built /\ paper' = [paper EXCEPT !.round = @ + 1]
          /\ UNCHANGED disk
    /\ UNCHANGED <<ok, report, blame, budget>>

(* The paper is acceptable, or the rounds are used up.                     *)
Accept ==
    /\ at = "refine" /\ at' = "review"
    /\ paper' = [paper EXCEPT !.finished = @ \/ paper.origin = paper.tries]
    /\ blame' = IF paper.origin = paper.tries THEN blame ELSE blame \cup {"stale"}
    /\ UNCHANGED <<ok, disk, report, budget>>

(* perform_writeup catches everything and returns False.                   *)
AttemptFails ==
    /\ at \in {"draft", "refine"} /\ Fault /\ at' = "write"
    /\ UNCHANGED <<ok, disk, report, paper, blame>>

GiveUpSilently ==
    /\ at = "write" /\ paper.tries = MaxRetries /\ at' = "review"
    /\ UNCHANGED <<ok, disk, report, paper, blame, budget>>

GiveUp ==
    /\ at = "write" /\ paper.tries = MaxRetries /\ Fails /\ UNCHANGED budget

(* No review without a paper, and none if there is one already.            *)
Review ==
    /\ at = "review" /\ at' = "upload"
    /\ disk' = IF disk.pdfs # {} THEN With(disk, "review") ELSE disk
    /\ UNCHANGED <<ok, report, paper, blame, budget>>

(* The workspace and the log; an upload that raises fails the run.         *)
Upload ==
    /\ at = "upload" /\ at' = "finish"
    /\ UNCHANGED <<ok, disk, report, paper, blame, budget>>

(* The finally clause tells the server.                                    *)
Finish ==
    /\ at = "finish" /\ at' = "ended"
    /\ report' = IF ok THEN "success" ELSE "failure"
    /\ UNCHANGED <<ok, disk, paper, blame, budget>>

PaperStep ==
    \/ CopyIdea \/ Aggregate \/ AggregationFails \/ KeepPaper \/ BeginAttempt
    \/ Draft \/ Refine \/ Accept \/ GiveUp \/ Review \/ Upload \/ Finish
=============================================================================
