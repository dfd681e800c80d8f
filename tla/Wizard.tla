------------------------------- MODULE Wizard -------------------------------
(***************************************************************************)
(* setup_project.py with core/wizard_drafts.py: the set-up wizard drafts the *)
(* configuration files of a database, over runs that stop and are resumed.  *)
(*                                                                          *)
(* A result of a model step is known by the schema and the language it was   *)
(* made for; a file by the results and the hand edits in it.  The schema is   *)
(* its fingerprint, so it stands for the tables, their keys, the exclusions   *)
(* and the data sources read.  The log is the same record in memory and on    *)
(* disk; one that cannot be read is the empty one (_load_log).                *)
(***************************************************************************)
EXTENDS Naturals, Sequences, FiniteSets

CONSTANTS
    Output,      \* _WIZARD_OUTPUT_FILES, in order
    Langs,       \* --language
    MaxSchemas, MaxRuns, MaxEdits   \* bounds

Files == {Output[i] : i \in DOMAIN Output}
\* Two of them, a value of Output for a small instance.
DraftFiles == <<"entities", "examples">>
Steps == {"aliases", "rules", "examples"}

VARIABLES
    schema,      \* the database's schema, as its version
    live,        \* the output directory is protected
    dir,         \* its files
    backups,     \* per file: what the copies next to it hold
    disk,        \* .setup_log.json
    run,         \* the wizard's process
    runs, edits, \* counters
    stood        \* history: per file, every content that stood whole

vars == <<schema, live, dir, backups, disk, run, runs, edits, stood>>

Result == [schema : 1 .. MaxSchemas, lang : Langs, kind : {"drafted", "empty", "mock"}]
None == [kind |-> "none"]
Origin == Result \cup {[kind |-> "links"]} \cup [kind : {"hand"}, edit : 0 .. MaxEdits]
Content == [is : {"absent", "whole", "broken"}, of : SUBSET Origin]
Absent == [is |-> "absent", of |-> {}]
Whole(origins) == [is |-> "whole", of |-> origins]
\* The log: the steps recorded as done, the fingerprint, the stored results.
NoLog == [done |-> {}, fp |-> 0, result |-> [s \in Steps |-> None]]
Where == {"idle", "start", "connect", "schema", "fingerprint", "aliases", "rules",
          "examples", "review", "write", "validate"}
Stopped == [pc |-> "idle", exit |-> "none"]
Running(r) == r.pc # "idle"

TypeOK ==
    /\ schema \in 1 .. MaxSchemas /\ live \in BOOLEAN
    /\ dir \in [Files -> Content] /\ backups \in [Files -> SUBSET (SUBSET Origin)]
    /\ disk.done \subseteq Steps \cup {"write"} /\ disk.fp \in 0 .. MaxSchemas
    /\ \A s \in Steps : disk.result[s] \in Result \cup {None}
    /\ run.pc \in Where /\ runs \in 0 .. MaxRuns /\ edits \in 0 .. MaxEdits

\* MUTANT: a file that exists stands.
ExistsStands(f) == dir[f].is # "absent"
\* _file_stands: an examples file with no example does not.
FileStands(f) ==
    /\ dir[f].is # "absent"
    /\ (f = "examples" /\ dir[f].is = "whole") => \E o \in dir[f].of : o.kind \in {"drafted", "hand"}

\* MUTANT: a result made for another language is taken.
StoredAnyway(log, s, lang) ==
    IF s \in log.done /\ log.result[s].kind \notin {"none", "mock"} THEN log.result[s] ELSE None
\* _stored_result and _restorable_results.
Stored(log, s, lang) ==
    IF /\ s \in log.done /\ log.result[s].kind \notin {"none", "mock"}
       /\ s # "rules" => log.result[s].lang = lang
       /\ s = "examples" => log.result[s].kind # "empty"
    THEN log.result[s] ELSE None

\* ---------------------------------------------------------------- a run
Keeps == UNCHANGED <<schema, live, runs, edits>>
Quiet == UNCHANGED <<dir, backups, disk, stood>>
Save == disk' = run'.log
Exit(code) == run' = [pc |-> "idle", exit |-> code]

\* main, up to the log: a protected directory needs --overwrite-live.
Begin(resume, fresh, lang, kind) ==
    /\ ~Running(run) /\ runs < MaxRuns /\ runs' = runs + 1
    /\ run' = [pc |-> "start", exit |-> "none", resume |-> resume, fresh |-> fresh,
               lang |-> lang, kind |-> kind, log |-> IF resume THEN disk ELSE NoLog,
               seen |-> 0, existing |-> [f \in Files |-> {}],
               kept |-> [s \in Steps |-> None], used |-> [s \in Steps |-> None],
               reuse |-> FALSE, at |-> 1]
    /\ UNCHANGED <<schema, live, edits>> /\ Quiet

Refuse == run.pc = "start" /\ live /\ Exit("refused") /\ Quiet /\ Keeps

\* The files a run merges into: those a resumed run will not leave alone.
ToRead == {f \in Files : dir[f].is # "absent" /\ ~(run.resume /\ FileStands(f))}

Start ==
    /\ run.pc = "start"
    /\ IF run.resume /\ run.log.done = Steps \cup {"write"} /\ \A f \in Files : FileStands(f)
       THEN run' = [run EXCEPT !.pc = "validate"]
       ELSE IF ~run.fresh /\ \E f \in ToRead : dir[f].is = "broken" THEN Exit("unmergeable")
       ELSE run' = [run EXCEPT !.pc = "connect",
              !.existing = [f \in Files |-> IF ~run.fresh /\ f \in ToRead THEN dir[f].of ELSE {}],
              !.kept = [s \in Steps |-> IF run.resume THEN Stored(run.log, s, run.lang) ELSE None]]
    /\ Quiet /\ Keeps

\* No model, where one is needed: main returns 2.
NoModel ==
    /\ \/ run.pc = "connect" /\ \E s \in Steps : run.kept[s] = None
       \/ run.pc \in Steps /\ run.kept[run.pc] = None
    /\ Exit("no model") /\ Quiet /\ Keeps

\* step1_connection and step2_schema, which record the schema without its keys.
ReadSchema ==
    /\ run.pc = "connect"
    /\ run' = [run EXCEPT !.pc = "fingerprint", !.seen = schema, !.log.fp = 0,
                          !.reuse = run.resume /\ run.log.fp = schema]
    /\ Save /\ UNCHANGED <<dir, backups, stood>> /\ Keeps

\* The keyed fingerprint is saved, and what was stored is reused or not.
Fingerprint ==
    /\ run.pc = "fingerprint"
    /\ run' = [run EXCEPT !.pc = "aliases", !.log.fp = run.seen,
                          !.kept = IF run.reuse THEN @ ELSE [s \in Steps |-> None]]
    /\ Save /\ UNCHANGED <<dir, backups, stood>> /\ Keeps

\* What a model, or the stub, makes of a step.
Drafts(s) == IF run.kind = "mock" THEN {"mock"}
             ELSE {"drafted"} \cup (IF s = "examples" THEN {"empty"} ELSE {})
After(s) == CASE s = "aliases" -> "rules" [] s = "rules" -> "examples" [] OTHER -> "review"
Made(kind) == [schema |-> run.seen, lang |-> run.lang, kind |-> kind]

\* A step that a model makes, or its stored result.
Step(s) ==
    /\ run.pc = s
    /\ IF run.kept[s] # None
       THEN run' = [run EXCEPT !.pc = After(s), !.used[s] = run.kept[s]]
       ELSE \E kind \in Drafts(s) :
            run' = [run EXCEPT !.pc = After(s), !.used[s] = Made(kind),
                               !.log.result[s] = Made(kind), !.log.done = @ \cup {s}]
    /\ Save /\ UNCHANGED <<dir, backups, stood>> /\ Keeps

Aliases == Step("aliases")
Rules == Step("rules")
Examples == Step("examples")

\* The answers repeat: _AnswerGuard stops steps 3 and 4, and main saves the log.
Repeats ==
    /\ run.pc \in {"aliases", "rules"} /\ run.kept[run.pc] = None /\ run.kind # "mock"
    /\ Exit("stopped") /\ disk' = run.log
    /\ UNCHANGED <<dir, backups, stood>> /\ Keeps

\* ---------------------------------------------------------------- step 6
File == Output[run.at]
StepOf(f) == IF f = "entities" THEN "aliases" ELSE f
From(f) == IF f = "relationships" THEN [kind |-> "links"] ELSE run.used[StepOf(f)]

\* The file stands, or the reviewer skips it.
Passes ==
    /\ run.pc = "review" /\ run.at <= Len(Output)
    /\ run' = [run EXCEPT !.at = @ + 1]
    /\ Quiet /\ Keeps

\* MUTANT: the copy is of what the run read when it began.
CopiedAsRead(f) == [backups EXCEPT ![f] = @ \cup {run.existing[f]}]
\* back_up, which never overwrites a copy (_backup_path).
Copied(f) == [backups EXCEPT ![f] = @ \cup {dir[f].of}]

\* Accepted: a protected file is copied first.
BackUp ==
    /\ run.pc = "review" /\ run.at <= Len(Output)
    /\ ~(run.resume /\ FileStands(File))
    /\ run' = [run EXCEPT !.pc = "write"]
    /\ backups' = IF live /\ dir[File].is # "absent" THEN Copied(File) ELSE backups
    /\ UNCHANGED <<dir, disk, stood>> /\ Keeps

\* render: the draft is merged into what the file held at the start; an entry
\* of both is the draft's.
Merged(f) == {kept \cup {From(f)} : kept \in {run.existing[f], {}}}

WriteFile ==
    /\ run.pc = "write"
    /\ \E text \in Merged(File) :
        /\ dir' = [dir EXCEPT ![File] = Whole(text)]
        /\ stood' = [stood EXCEPT ![File] = @ \cup {text}]
    /\ run' = [run EXCEPT !.pc = "review", !.at = @ + 1]
    /\ UNCHANGED <<backups, disk>> /\ Keeps

\* Regenerate, asked for in the review of a file: a failure keeps the draft.
Regenerate ==
    /\ run.pc = "review" /\ run.at <= Len(Output)
    /\ ~(run.resume /\ FileStands(File)) /\ \E s \in Steps : run.kept[s] = None
    /\ LET s == StepOf(File) IN
       /\ s \in Steps
       /\ \E kind \in Drafts(s) :
            run' = [run EXCEPT !.used[s] = Made(kind), !.log.result[s] = Made(kind),
                               !.log.done = @ \cup {s}]
    /\ Quiet /\ Keeps

Reviewed ==
    /\ run.pc = "review" /\ run.at > Len(Output)
    /\ run' = [run EXCEPT !.pc = "validate", !.log.done = @ \cup {"write"}]
    /\ Save /\ UNCHANGED <<dir, backups, stood>> /\ Keeps

\* step7_validate reads four of the files and prints.
Validate == run.pc = "validate" /\ Exit("done") /\ disk' = run.log
            /\ UNCHANGED <<dir, backups, stood>> /\ Keeps

\* The process ends anywhere, or a write fails: the log being written may be
\* unreadable, the file being written is cut short.
Crash ==
    /\ Running(run) /\ Exit("crashed")
    /\ disk' \in {disk} \cup (IF run.pc \in {"start", "write"} THEN {} ELSE {NoLog})
    /\ IF run.pc = "write"
       THEN dir' \in {[dir EXCEPT ![File] = c] :
                        c \in {dir[File], [is |-> "broken", of |-> {}]}
                              \cup {Whole(part) : part \in UNION {SUBSET text : text \in Merged(File)}}}
       ELSE dir' = dir
    /\ UNCHANGED <<backups, stood>> /\ Keeps

\* ------------------------------------------------------------ the outside
Drift == schema < MaxSchemas /\ schema' = schema + 1 /\
         UNCHANGED <<live, dir, backups, disk, run, runs, edits, stood>>

\* Someone edits a file, or puts one there; not between the copy of it and the
\* write that follows at once.
Edit(f) ==
    /\ run.pc # "write"
    /\ edits < MaxEdits /\ edits' = edits + 1
    /\ LET now == dir[f].of \cup {[kind |-> "hand", edit |-> edits + 1]}
       IN dir' = [dir EXCEPT ![f] = Whole(now)] /\ stood' = [stood EXCEPT ![f] = {now}]
    /\ UNCHANGED <<schema, live, backups, disk, run, runs>>

Init ==
    /\ schema = 1 /\ live \in BOOLEAN
    /\ dir \in [Files -> {Absent, Whole({[kind |-> "hand", edit |-> 0]})}]
    /\ backups = [f \in Files |-> {}] /\ disk = NoLog /\ run = Stopped
    /\ runs = 0 /\ edits = 0
    /\ stood = [f \in Files |-> IF dir[f].is = "whole" THEN {dir[f].of} ELSE {}]

Next ==
    \/ \E resume, fresh \in BOOLEAN, lang \in Langs, kind \in {"model", "mock"} :
         Begin(resume, fresh, lang, kind)
    \/ Refuse \/ Start \/ NoModel \/ ReadSchema \/ Fingerprint
    \/ Aliases \/ Rules \/ Examples
    \/ Repeats \/ Passes \/ BackUp \/ WriteFile \/ Regenerate \/ Reviewed \/ Validate
    \/ Crash \/ Drift \/ \E f \in Files : Edit(f)

Spec == Init /\ [][Next]_vars

(***************************************************************************)
(* Properties.                                                             *)
(***************************************************************************)
\* In a protected directory nothing that ever stood in a file is lost,
\* whatever interrupts the wizard: it is in the file or in a copy next to it
\* ("every file the wizard replaces is first copied").
NothingLost ==
    live => \A f \in Files : \A c \in stood[f] : c \subseteq dir[f].of \/ c \in backups[f]

\* What a resumed run takes from an earlier one was made in its own language
\* and by a model, and is an answer (_stored_result, _restorable_results).
ReusedIsOurs ==
    Running(run) => \A s \in Steps : run.used[s] # None =>
        /\ s # "rules" => run.used[s].lang = run.lang
        /\ run.used[s].kind = "mock" => run.kind = "mock"

\* The two together.
WizardSound == NothingLost /\ ReusedIsOurs

\* A run whose schema differs from the one the results were made for does not
\* use them (--resume: "reused if the schema and language are unchanged").
ReusedMatchesSchema ==
    Running(run) => \A s \in Steps : run.used[s] # None => run.used[s].schema = run.seen
=============================================================================
