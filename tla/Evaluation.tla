----------------------------- MODULE Evaluation -----------------------------
(***************************************************************************)
(* eval/: golden cases are run one after another through the production     *)
(* pipeline, judged, reported, and the report is gated against a baseline   *)
(* file, while the warehouse changes and the golden file is maintained.     *)
(*                                                                          *)
(* A statement is the case it answers and its text: the recorded expected_sql *)
(* or another with the same rows.  Rows are the statement's case and the      *)
(* version of the warehouse they were read from.  Several runs may follow    *)
(* each other; the files are never written by two at once.                  *)
(***************************************************************************)
EXTENDS Naturals, Sequences, FiniteSets

CONSTANTS
    Cases,       \* the golden file's active cases, in order
    Files,       \* baseline files
    MaxDrop,     \* --max-accuracy-drop-pct
    SameFile,    \* the run's --save-baseline and --baseline may be one file
    MaxChanges, MaxRuns   \* bounds

VARIABLES
    warehouse,   \* its version
    golden,      \* the golden file
    file,        \* the baseline files
    run,         \* eval.cli run
    memo,        \* make_production_pipeline: rows the agent already has
    runs

vars == <<warehouse, golden, file, run, memo, runs>>

Names == {Cases[i] : i \in DOMAIN Cases}
Versions == 0 .. MaxChanges
Unread == MaxChanges + 1
SQL == [of : Names, text : {"expected", "other"}]
Status == {"pass", "out of scope", "missed", "rejected", "failed", "mismatch", "reference"}
Report == [passed : 0 .. Len(Cases), total : 1 .. Len(Cases), reference : {"stored", "live"}]
Missing == [is |-> "missing"]
Broken == [is |-> "broken"]
Stopped(code) == [pc |-> "idle", code |-> code]

TypeOK ==
    /\ warehouse \in Versions /\ runs \in 0 .. MaxRuns
    /\ golden \in [Names -> [scope : BOOLEAN, rows : Versions]]
    /\ \A f \in Files : file[f] \in {Missing, Broken} \cup Report
    /\ memo \in [SQL -> Versions \cup {Unread}]
    /\ run.pc \in {"idle", "generate", "execute", "judge", "save", "gate"}
    /\ run.pc \notin {"idle", "save", "gate"} =>
         /\ run.at \in DOMAIN Cases /\ \A i \in DOMAIN run.status : run.status[i] \in Status

Empty == [s \in SQL |-> Unread]
Case == Cases[run.at]
Judging == UNCHANGED <<warehouse, golden, file, runs>>

\* _run: the golden file is read once.
Begin(reference, gate, save) ==
    /\ run.pc = "idle" /\ runs < MaxRuns /\ runs' = runs + 1
    /\ run' = [pc |-> "generate", code |-> "none", reference |-> reference, gate |-> gate,
               save |-> save, cases |-> golden, at |-> 1, status |-> <<>>, sql |-> "none",
               rows |-> Unread, began |-> warehouse, failed |-> {},
               stood |-> IF gate = "none" THEN Missing ELSE file[gate]]
    /\ memo' = Empty
    /\ UNCHANGED <<warehouse, golden, file>>

\* MUTANT: one case too many.
OnePast == run.at > Len(Cases)
\* run_golden_set: the last case.
Last == run.at = Len(Cases)
\* _finish: the next case, or the report.
Finish(status) ==
    run' = [run EXCEPT !.status = Append(@, status), !.sql = "none", !.rows = Unread,
                       !.pc = IF Last THEN "save" ELSE "generate", !.at = IF Last THEN @ ELSE @ + 1,
                       \* history: a right answer that did not pass, although the
                       \* data it was judged on did not change.
                       !.failed = IF /\ status = "mismatch" /\ run.sql.of = Case
                                     /\ run.began = warehouse
                                     /\ run.reference = "stored" => run.cases[Case].rows = warehouse
                                  THEN @ \cup {Case} ELSE @]

\* MUTANT: the memo outlives the question.
Outlives == memo
\* `memo.clear()`.
Cleared == Empty

\* generate: the agent's loop answers with a statement, whose rows it has.
Generate(sql) ==
    /\ run.pc = "generate" /\ Judging
    /\ memo' = [Cleared EXCEPT ![sql] = warehouse]
    /\ IF run.cases[Case].scope
       THEN Finish("missed")
       ELSE run' = [run EXCEPT !.pc = "execute", !.sql = sql, !.began = warehouse]

\* It raises: the sentinel, or anything else.
Declines ==
    /\ run.pc = "generate" /\ Judging /\ memo' = Cleared
    /\ \/ Finish(IF run.cases[Case].scope THEN "pass" ELSE "out of scope")
       \/ Finish("failed")

\* execute: what the memo has, once, or the warehouse.
Rows(s) == IF memo[s] # Unread THEN memo[s] ELSE warehouse
Taken(s) == [memo EXCEPT ![s] = Unread]

\* validate_sql and the execution of the generated statement.
Execute ==
    /\ run.pc = "execute" /\ Judging
    /\ \/ run' = [run EXCEPT !.pc = "judge", !.rows = Rows(run.sql)] /\ memo' = Taken(run.sql)
       \/ \E status \in {"rejected", "failed"} : Finish(status) /\ UNCHANGED memo

\* The rows it is compared with: the recorded ones, or those of expected_sql.
Judge ==
    /\ run.pc = "judge" /\ Judging
    /\ LET expected == [of |-> Case, text |-> "expected"]
           against == IF run.reference = "live" THEN Rows(expected) ELSE run.cases[Case].rows
       IN \/ /\ Finish(IF run.sql.of = Case /\ run.rows = against THEN "pass" ELSE "mismatch")
             /\ memo' = IF run.reference = "live" THEN Taken(expected) ELSE memo
          \/ run.reference = "live" /\ Finish("reference") /\ UNCHANGED memo

\* build_report.
Result == [passed |-> Cardinality({i \in DOMAIN run.status : run.status[i] = "pass"}),
           total |-> Len(run.status), reference |-> run.reference]

\* save_baseline writes the file in place; a crash leaves a part of it.
Save ==
    /\ run.pc = "save"
    /\ file' = IF run.save = "none" THEN file ELSE [file EXCEPT ![run.save] = Result]
    /\ run' = [run EXCEPT !.pc = "gate"]
    /\ UNCHANGED <<warehouse, golden, memo, runs>>

\* compare_to_baseline, on percentages.
WithinDrop(base) ==
    100 * (base.passed * Result.total - Result.passed * base.total) <= MaxDrop * base.total * Result.total

\* compare_to_baseline refuses another kind of reference; a file that cannot be
\* read raises.
Gate ==
    /\ run.pc = "gate" /\ UNCHANGED memo /\ Judging
    /\ LET base == IF run.gate = "none" THEN Missing ELSE file[run.gate]
           code == IF run.gate = "none" THEN "0"
                   ELSE IF base \in {Missing, Broken} \/ base.reference # run.reference THEN "raised"
                   ELSE IF WithinDrop(base) THEN "0" ELSE "1"
       IN run' = [pc |-> "idle", code |-> code, gated |-> run.gate # "none", stood |-> run.stood,
                  result |-> Result, failed |-> run.failed]

Crash ==
    /\ run.pc # "idle" /\ run' = Stopped("crashed")
    /\ IF run.pc = "save" /\ run.save # "none"
       THEN file' \in {file, [file EXCEPT ![run.save] = Broken]} ELSE file' = file
    /\ UNCHANGED <<warehouse, golden, memo, runs>>

\* The data changes; the owner records the rows of a case again.
Change == warehouse < MaxChanges /\ warehouse' = warehouse + 1 /\
          UNCHANGED <<golden, file, run, memo, runs>>
Record(c) == golden[c].rows # warehouse /\ golden' = [golden EXCEPT ![c].rows = warehouse] /\
             UNCHANGED <<warehouse, file, run, memo, runs>>

Init ==
    /\ warehouse = 0 /\ golden \in [Names -> [scope : BOOLEAN, rows : {0}]]
    /\ file = [f \in Files |-> Missing] /\ run = Stopped("none") /\ memo = Empty /\ runs = 0

Next ==
    \/ \E reference \in {"stored", "live"}, gate, save \in Files \cup {"none"} :
         (SameFile \/ gate = "none" \/ gate # save) /\ Begin(reference, gate, save)
    \/ \E sql \in SQL : Generate(sql)
    \/ Declines \/ Execute \/ Judge \/ Save \/ Gate \/ Crash \/ Change \/ \E c \in Names : Record(c)

Spec == Init /\ [][Next]_vars

(***************************************************************************)
(* Properties.                                                             *)
(***************************************************************************)
Ended == run.pc = "idle" /\ run.code \in {"0", "1", "raised"}

\* A right statement is judged wrong only when the warehouse changed while the
\* case was run, or since its rows were recorded: nothing that an earlier
\* question left in the pipeline decides (make_production_pipeline's memo).
RightPasses == run.pc # "idle" => run.failed = {}

\* A run that is gated and exits 0 is within the allowed drop of the baseline
\* that stood when it began, judged the same way (_run, compare_to_baseline).
GateHolds ==
    (Ended /\ run.code = "0" /\ run.gated) =>
        /\ run.stood \in Report /\ run.stood.reference = run.result.reference
        /\ 100 * run.result.passed * run.stood.total
             >= (100 * run.stood.passed - MaxDrop * run.stood.total) * run.result.total

EvaluationSound == RightPasses /\ GateHolds
=============================================================================
