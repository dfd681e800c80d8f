------------------------------ MODULE GoldenSet ------------------------------
(***************************************************************************)
(* scripts/harvest_golden.py, scripts/golden_sheet.py, eval/store.py and      *)
(* eval/verify.py: questions people asked become cases of the golden set, by  *)
(* way of a spreadsheet, while the server appends promoted flags to it.       *)
(*                                                                          *)
(* A turn is numbered by its time; the statement it ran is the same number,   *)
(* 0 is none, and Fix is what a reviewer writes.  A case's id is its origin   *)
(* and the turn (a digest of the record), so it fixes the question, too.      *)
(* Rows are the version of the database they were read at.  Of the strata     *)
(* of the sample the outcome is kept, the data source and language are not.  *)
(***************************************************************************)
EXTENDS Naturals, Sequences, FiniteSets, SequencesExt

CONSTANTS Questions, MaxTurns, MaxJobs, MaxReviews, MaxChanges   \* bounds

VARIABLES
    turns,       \* the turns people asked
    gone,        \* how many of their records have rotated out of the log
    confirmed,   \* the confirmed turns, the latest confirmation last
    candidates, sheet, golden,   \* candidates.jsonl, review.csv, golden.jsonl
    job,         \* an import or a verify, between its read and its write
    database,    \* its version
    jobs, reviews,   \* counters
    vouched      \* history: which statement people called right for a question

vars == <<turns, gone, confirmed, candidates, sheet, golden, job, database, jobs, reviews, vouched>>

Outcome == {"success", "empty", "out_of_scope", "error", "transport"}
Fix == MaxTurns + 1
Unrun == MaxChanges + 1
Case == [of : {"cand", "confirmed", "feedback"}, turn : 1 .. MaxTurns, question : Questions,
         sql : 0 .. Fix, expect : {"success", "empty", "out_of_scope"},
         status : {"pending_review", "pending_expected", "reviewed", "active"}, rows : 0 .. Unrun]
Idle == [is |-> "none"]

\* GoldenCase.__post_init__.
Valid(case) ==
    /\ case.status = "pending_review" => case.rows = Unrun
    /\ case.status \in {"reviewed", "active"} => (case.sql = 0 <=> case.expect = "out_of_scope")

TypeOK ==
    /\ Len(turns) <= MaxTurns /\ gone <= Len(turns) /\ ToSet(confirmed) \subseteq DOMAIN turns
    /\ \A c \in candidates \cup golden : c \in Case /\ Valid(c)
    /\ \A r \in sheet : r.verdict \in {"", "correct", "wrong", "skip"}
    /\ job.is \in {"none", "import", "verify"} /\ database \in 0 .. MaxChanges
    /\ jobs \in 0 .. MaxJobs /\ reviews \in 0 .. MaxReviews

\* ------------------------------------------------------------- the server
Server == UNCHANGED <<candidates, sheet, job, database, jobs, reviews>>
Logged == gone + 1 .. Len(turns)

Ask(q, outcome) ==
    /\ Len(turns) < MaxTurns /\ turns' = Append(turns, [question |-> q, outcome |-> outcome])
    /\ UNCHANGED <<gone, confirmed, golden, vouched>> /\ Server
Rotate ==
    /\ gone < Len(turns) /\ gone' = gone + 1
    /\ UNCHANGED <<turns, confirmed, golden, vouched>> /\ Server

\* turn_executed_successfully.
Executed(t) == turns[t].outcome \in {"success", "empty"}
Confirm(t) ==
    /\ t \in Logged /\ Executed(t) /\ t \notin ToSet(confirmed)
    /\ confirmed' = Append(confirmed, t) /\ vouched' = vouched \cup {<<turns[t].question, t>>}
    /\ UNCHANGED <<turns, gone, golden>> /\ Server

\* promote_to_golden_case appends to the file.
Promote(t) ==
    /\ t \in Logged /\ \A c \in golden : c.of # "feedback" \/ c.turn # t
    /\ golden' = golden \cup {[of |-> "feedback", turn |-> t, question |-> turns[t].question,
            sql |-> 0, expect |-> "success", status |-> "pending_expected", rows |-> Unrun]}
    /\ UNCHANGED <<turns, gone, confirmed, vouched>> /\ Server

\* ------------------------------------------------------------- harvest_golden
\* classify_record: an error says nothing when it is one of transport.
Classified(t) == turns[t].outcome # "transport"
Latest(q, of) == CHOOSE t \in of : turns[t].question = q /\
                    \A u \in of : turns[u].question = q => u <= t
Asked(of) == {turns[t].question : t \in of}

\* MUTANT: the confirmation of a question vouches for its last answer.
ConfirmedLatest(known) ==
    LET of == {t \in ToSet(confirmed) \cap Logged : Executed(t) /\ turns[t].question \notin known}
    IN {Latest(q, {t \in Logged : Executed(t)}) : q \in Asked(of)}
\* confirmed_candidates: of each question, the last confirmed turn in the log.
ConfirmedTurns(known) ==
    LET of == SelectSeq(confirmed, LAMBDA t : t \in Logged /\ Executed(t) /\ turns[t].question \notin known)
    IN {of[i] : i \in {i \in DOMAIN of :
            \A j \in i + 1 .. Len(of) : turns[of[j]].question # turns[of[i]].question}}

\* stratified_sample: n turns, of each outcome as many as its share (allocate),
\* at least one when there are slots for all, the largest first when not.
Stratum(pool, o) == {t \in pool : turns[t].outcome = o}
Samples(pool, n) ==
    LET strata == {o \in Outcome : Stratum(pool, o) # {}} IN
    {s \in SUBSET pool :
        /\ Cardinality(s) = IF n < Cardinality(pool) THEN n ELSE Cardinality(pool)
        /\ \A o, p \in strata :
             (Stratum(s, o) = {} /\ Stratum(s, p) # {}) =>
                 /\ Cardinality(Stratum(s, p)) = 1
                 /\ Cardinality(Stratum(pool, p)) >= Cardinality(Stratum(pool, o))}

\* candidate_to_case.
CaseOf(t, of) ==
    LET o == turns[t].outcome IN
    [of |-> of, turn |-> t, question |-> turns[t].question, rows |-> Unrun,
     sql |-> IF o \in {"success", "empty"} THEN t ELSE 0,
     expect |-> IF o = "error" THEN "success" ELSE o,
     status |-> IF of = "confirmed" THEN "reviewed" ELSE "pending_review"]

Tool == jobs < MaxJobs /\ jobs' = jobs + 1
Outside == UNCHANGED <<turns, gone, confirmed, database>>

\* main: --force to overwrite, --exclude golden.jsonl, --n.
Harvest(force, exclude, n) ==
    /\ job.is = "none" /\ Tool /\ (candidates = {} \/ force)
    /\ LET known == IF exclude THEN {c.question : c \in golden} ELSE {}
           sure == ConfirmedTurns(known)
           usable == {t \in Logged : Classified(t)}
           pool == {Latest(q, usable) : q \in Asked(usable) \ (known \cup Asked(sure))}
       IN \E sample \in Samples(pool, n) :
            candidates' = {CaseOf(t, "confirmed") : t \in sure} \cup {CaseOf(t, "cand") : t \in sample}
    /\ UNCHANGED <<sheet, golden, job, reviews, vouched>> /\ Outside

\* --------------------------------------------------------------- golden_sheet
\* render_sheet: a confirmed case's verdict is filled in.
RowOf(c) == [of |-> c.of, turn |-> c.turn, question |-> c.question, proposed |-> c.sql,
             correct |-> 0, expect |-> c.expect,
             verdict |-> IF c.of = "confirmed" THEN "correct" ELSE ""]
Export(force) ==
    /\ job.is = "none" /\ Tool /\ (sheet = {} \/ force) /\ candidates # {}
    /\ sheet' = {RowOf(c) : c \in candidates}
    /\ UNCHANGED <<candidates, golden, job, reviews, vouched>> /\ Outside

\* What a row says the answer is, by the import rules; a row without one is a
\* problem.
Answered(r) ==
    \/ r.verdict = "correct" /\ r.correct = 0 /\ (r.proposed # 0 \/ r.expect = "out_of_scope")
    \/ r.verdict = "wrong" /\ (r.correct # 0 \/ r.expect = "out_of_scope")
Statement(r) == IF r.verdict = "wrong" THEN r.correct
                ELSE IF r.expect = "out_of_scope" THEN 0 ELSE r.proposed

\* A reviewer fills in a row.
Review(r, verdict, correct, expect) ==
    /\ reviews < MaxReviews /\ reviews' = reviews + 1
    /\ LET row == [r EXCEPT !.verdict = verdict, !.correct = correct, !.expect = expect]
       IN /\ sheet' = (sheet \ {r}) \cup {row}
          /\ vouched' = IF Answered(row) THEN vouched \cup {<<row.question, Statement(row)>>} ELSE vouched
    /\ UNCHANGED <<candidates, golden, job, jobs>> /\ Outside

\* MUTANT: the question may be there already.
TakenById(r, cases) == \E c \in cases : c.of = r.of /\ c.turn = r.turn
\* import_sheet: the id or the question is in the golden set.
Taken(r, cases) ==
    \E c \in cases : (c.of = r.of /\ c.turn = r.turn) \/ c.question = r.question

\* `refused`: what the SQL guard says of the reviewers' statements.
Imported(rows, cases, refused) ==
    {[of |-> r.of, turn |-> r.turn, question |-> r.question, sql |-> Statement(r), rows |-> Unrun,
      expect |-> IF r.expect = "out_of_scope" /\ Statement(r) # 0 THEN "success" ELSE r.expect,
      status |-> "reviewed"] :
        r \in {x \in rows : Answered(x) /\ ~Taken(x, cases) /\ ~(refused /\ Statement(x) = Fix)}}

ReadSheet ==
    /\ job.is = "none" /\ Tool /\ sheet # {}
    /\ job' = [is |-> "import", rows |-> sheet, cases |-> golden]
    /\ UNCHANGED <<candidates, sheet, golden, reviews, vouched>> /\ Outside
Import(refused) ==
    /\ job.is = "import" /\ job' = Idle
    /\ golden' = LET new == Imported(job.rows, job.cases, refused)
                 IN IF new = {} THEN golden ELSE job.cases \cup new
    /\ UNCHANGED <<candidates, sheet, jobs, reviews, vouched>> /\ Outside

\* --------------------------------------------------------------------- verify
ReadGolden(accept, refresh) ==
    /\ job.is = "none" /\ Tool /\ golden # {}
    /\ job' = [is |-> "verify", cases |-> golden, accept |-> accept, refresh |-> refresh]
    /\ UNCHANGED <<candidates, sheet, golden, reviews, vouched>> /\ Outside

\* MUTANT: a case is accepted whatever its statement returned.
FitsAny(c, got) == TRUE
\* What the statement returned is what the case expects.
Fits(c, got) == got = IF c.expect = "empty" THEN "none" ELSE "rows"
\* `fill`.
Fill(c) == job.refresh \/ c.status = "reviewed" \/ c.rows = Unrun

\* _verify_one; `got` is rows, none, or a problem (the guard, the database, the
\* columns).
Verified(c, got) ==
    IF c.status \notin {"reviewed", "active"} THEN c
    ELSE LET done == IF job.accept THEN [c EXCEPT !.status = "active"] ELSE c
         IN IF c.expect = "out_of_scope" THEN done
            ELSE IF ~Fits(c, got) THEN c
            ELSE [done EXCEPT !.rows = IF got # "problem" /\ Fill(c) THEN database ELSE @]

\* verify_cases, and the file if anything changed.
Verify ==
    /\ job.is = "verify" /\ job' = Idle
    /\ \E got \in [job.cases -> {"rows", "none", "problem"}] :
        LET new == {Verified(c, got[c]) : c \in job.cases}
        IN golden' = IF new = job.cases THEN golden ELSE new
    /\ UNCHANGED <<candidates, sheet, jobs, reviews, vouched>> /\ Outside

Crash ==
    /\ job.is # "none" /\ job' = Idle
    /\ UNCHANGED <<candidates, sheet, golden, jobs, reviews, vouched>> /\ Outside
Change ==
    /\ database < MaxChanges /\ database' = database + 1
    /\ UNCHANGED <<turns, gone, confirmed, candidates, sheet, golden, job, jobs, reviews, vouched>>

Init ==
    /\ turns = <<>> /\ gone = 0 /\ confirmed = <<>> /\ candidates = {} /\ sheet = {} /\ golden = {}
    /\ job = Idle /\ database = 0 /\ jobs = 0 /\ reviews = 0 /\ vouched = {}

Next ==
    \/ \E q \in Questions, outcome \in Outcome : Ask(q, outcome)
    \/ Rotate \/ Crash \/ Change \/ Verify
    \/ \E t \in DOMAIN turns : Confirm(t) \/ Promote(t)
    \/ \E force, exclude \in BOOLEAN, n \in 1 .. 2 : Harvest(force, exclude, n)
    \/ \E force \in BOOLEAN : Export(force)
    \/ \E r \in sheet, verdict \in {"correct", "wrong", "skip"}, correct \in {0, Fix} :
        \E expect \in {r.expect, "out_of_scope"} : Review(r, verdict, correct, expect)
    \/ ReadSheet \/ \E refused \in BOOLEAN : Import(refused)
    \/ \E accept, refresh \in BOOLEAN : ReadGolden(accept, refresh)

Spec == Init /\ [][Next]_vars

(***************************************************************************)
(* Properties.                                                             *)
(***************************************************************************)
Trusted == {c \in golden : c.status \in {"reviewed", "active"}}

\* Whatever is harvested, exported, edited and imported again in between, the
\* statement of a trusted case is one a person called right for that very
\* question (GoldenCaseStatus: "a person confirmed the expected_sql").
Vouched == \A c \in Trusted : <<c.question, c.sql>> \in vouched

\* A case the gate runs has been executed, and its rows recorded (verify).
ActiveRan == \A c \in Trusted : (c.status = "active" /\ c.expect # "out_of_scope") => c.rows # Unrun

\* A question has one trusted case (import_sheet: taken_questions).
OnePerQuestion == \A c, d \in Trusted : c.question = d.question => c = d

GoldenSound == Vouched /\ ActiveRan /\ OnePerQuestion

\* "Append a new golden case for a flag": the case stays in the file.  An import
\* or a verify that read the file before writes it without the case.
PromotedKept == [][\A c \in golden : c.of = "feedback" => c \in golden']_vars
=============================================================================
