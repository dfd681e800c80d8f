----------------------------- MODULE Descriptions -----------------------------
(***************************************************************************)
(* scripts/draft_descriptions.py with schema_data/describe.py and             *)
(* describe_prompt.py: a model drafts the descriptions schema.yaml lacks into *)
(* schema.described.yaml, which a person corrects and puts in its place.      *)
(*                                                                          *)
(* A text is the hand that wrote it.  "none" is what the preflight objects    *)
(* to: empty, the placeholder, only the table's name or a column's type.      *)
(***************************************************************************)
EXTENDS Naturals, Sequences, FiniteSets, SequencesExt

CONSTANTS
    Order,      \* the tables, in the order schema.yaml lists them
    Items,      \* what is described of a table: itself and its columns
    MaxRuns, MaxEdits

VARIABLES
    schema,     \* schema.yaml: the tables it has and the text of each item
    output,     \* schema.described.yaml, or NoFile
    run,        \* the run in progress, or Idle
    runs, edits,
    base,       \* history: the schema.yaml the output was rendered from
    found       \* history: the output that run found and resumed, or NoFile

vars == <<schema, output, run, runs, edits, base, found>>

Tables == ToSet(Order)
Text == {"none", "person", "model", "fixed"}
NoFile == <<>>
Idle == [at |-> "idle"]
Exists(file) == file # NoFile

TypeOK ==
    /\ \A file \in {schema, output, base, found} : \A t \in DOMAIN file :
          t \in Tables /\ file[t] \in [Items -> Text]
    /\ run.at \in {"idle", "asking"} /\ runs \in 0 .. MaxRuns /\ edits \in 0 .. MaxEdits

\* find_targets: the items of a table that have no description yet.
Wanted(file, t) == {i \in Items : file[t][i] = "none"}
Targets(file) == {t \in DOMAIN file : Wanted(file, t) # {}}

\* MUTANT: what is left to describe is read from the input.
CarriedLeft(original, previous) ==
    [t \in (Targets(original) \cap DOMAIN previous) \ Targets(original) |->
        [i \in Wanted(original, t) |-> previous[t][i]]]
\* carried_drafts: the tables with nothing left to describe, as they are now.
Carried(original, previous) ==
    [t \in (Targets(original) \cap DOMAIN previous) \ Targets(previous) |->
        [i \in Wanted(original, t) |-> previous[t][i]]]

\* render_described_text: the input with the drafted texts put in.
Rendered(original, drafts) ==
    [t \in DOMAIN original |-> [i \in Items |->
        IF t \in DOMAIN drafts /\ i \in DOMAIN drafts[t] THEN drafts[t][i] ELSE original[t][i]]]
\* verify_described.
Verified(original, file, drafts) ==
    /\ DOMAIN file = DOMAIN original
    /\ \A t \in DOMAIN file, i \in Items :
          file[t][i] = original[t][i] \/ (t \in DOMAIN drafts /\ i \in DOMAIN drafts[t])

\* _save: nothing is written when nothing is drafted.  A write can fail.
Save(original, drafts, ok) ==
    LET file == Rendered(original, drafts)
        written == ok /\ Verified(original, file, drafts) /\ \E t \in DOMAIN drafts : drafts[t] # <<>>
    IN /\ output' = IF written THEN file ELSE output
       /\ base' = IF written THEN original ELSE base
       /\ found' = IF written THEN run.found ELSE found

\* main: from the arguments to the first question.
Start(selected, resume, force) ==
    /\ run = Idle /\ runs < MaxRuns
    /\ LET chosen == Targets(schema) \cap selected
           kept == IF resume /\ Exists(output) THEN Carried(schema, output) ELSE <<>>
       IN /\ chosen # {}
          /\ Exists(output) => resume \/ force
          /\ run' = [at |-> "asking", original |-> schema, drafts |-> kept,
                     pending |-> SelectSeq(Order, LAMBDA t : t \in chosen \ DOMAIN kept),
                     found |-> IF resume THEN output ELSE NoFile, saved |-> TRUE]
    /\ runs' = runs + 1 /\ UNCHANGED <<schema, output, edits, base, found>>

\* parse_answer keeps what was asked about.
Parsed(answer, t) == answer \cap Wanted(run.original, t)

\* _draft_all: an answer that is of use is drafted and the file written; that
\* the write fails is not noticed.
Answer(answer, ok) ==
    LET t == Head(run.pending)
        drafts == (t :> [i \in Parsed(answer, t) |-> "model"]) @@ run.drafts
    IN /\ run.at = "asking" /\ run.pending # <<>> /\ Parsed(answer, t) # {}
       /\ run' = [run EXCEPT !.pending = Tail(@), !.drafts = drafts, !.saved = ok]
       /\ Save(run.original, drafts, ok) /\ UNCHANGED <<schema, runs, edits>>
\* An answer that is of none, a refusal or a timeout: the table failed.
Fail ==
    /\ run.at = "asking" /\ run.pending # <<>> /\ run' = [run EXCEPT !.pending = Tail(@)]
    /\ UNCHANGED <<schema, output, runs, edits, base, found>>
Interrupt ==
    /\ run.at = "asking" /\ run.pending # <<>> /\ run' = [run EXCEPT !.pending = <<>>]
    /\ UNCHANGED <<schema, output, runs, edits, base, found>>
\* The last write.
Finish(ok) ==
    /\ run.at = "asking" /\ run.pending = <<>> /\ run' = Idle
    /\ Save(run.original, run.drafts, ok) /\ UNCHANGED <<schema, runs, edits>>
Crash ==
    /\ run # Idle /\ run' = Idle /\ UNCHANGED <<schema, output, runs, edits, base, found>>

\* ------------------------------------------------------------------ people
Edited == edits < MaxEdits /\ edits' = edits + 1
\* A drafted text is corrected in the output, at any time.
Correct(t, i) ==
    /\ t \in DOMAIN output /\ output[t][i] = "model" /\ output' = [output EXCEPT ![t][i] = "fixed"]
    /\ Edited /\ UNCHANGED <<schema, run, runs, base, found>>
\* "replace schema.yaml with the file".
Adopt ==
    /\ Exists(output) /\ schema' = output
    /\ Edited /\ UNCHANGED <<output, run, runs, base, found>>
Describe(t, i) ==
    /\ t \in DOMAIN schema /\ schema[t][i] = "none" /\ schema' = [schema EXCEPT ![t][i] = "person"]
    /\ Edited /\ UNCHANGED <<output, run, runs, base, found>>
\* sync_schema adds or drops a table.
Sync(t) ==
    /\ schema' = IF t \in DOMAIN schema THEN [u \in DOMAIN schema \ {t} |-> schema[u]]
                 ELSE (t :> [i \in Items |-> "none"]) @@ schema
    /\ Edited /\ UNCHANGED <<output, run, runs, base, found>>

Init ==
    /\ schema \in [Tables -> [Items -> {"none", "person"}]]
    /\ output = NoFile /\ base = NoFile /\ found = NoFile /\ run = Idle /\ runs = 0 /\ edits = 0

Next ==
    \/ \E selected \in SUBSET Tables, resume, force \in BOOLEAN : Start(selected, resume, force)
    \/ \E answer \in SUBSET Items, ok \in BOOLEAN : Answer(answer, ok)
    \/ Fail \/ Interrupt \/ Crash \/ Adopt
    \/ \E ok \in BOOLEAN : Finish(ok)
    \/ \E t \in Tables : Sync(t) \/ \E i \in Items : Correct(t, i) \/ Describe(t, i)

Spec == Init /\ [][Next]_vars

(***************************************************************************)
(* Properties.                                                             *)
(***************************************************************************)
\* "A description a person wrote is never a target and is never changed": what
\* schema.yaml described when the output was rendered reads the same in it.
CuratedKept ==
    \A t \in DOMAIN base, i \in Items :
        base[t][i] # "none" => t \in DOMAIN output /\ output[t][i] \in {base[t][i], "fixed"}

\* "The tables already drafted in the existing output are kept (as they are in
\* the file now, so a correction made by hand survives)", --resume: over every
\* write of the run, whatever it asked about and however it ended.
CorrectionsKept ==
    \A t \in DOMAIN found \cap DOMAIN base :
        Wanted(found, t) = {} =>
            \A i \in Wanted(base, t) : output[t][i] \in {found[t][i], "fixed"}

\* "The output is written after every table, so an interrupted run loses at most
\* the table in progress".
DraftedWritten ==
    (run # Idle /\ run.saved) =>
        \A t \in DOMAIN run.drafts : \A i \in DOMAIN run.drafts[t] :
            t \in DOMAIN output /\ output[t][i] \in {run.drafts[t][i], "fixed"}

DescriptionsSound == CuratedKept /\ CorrectionsKept /\ DraftedWritten

\* "Nothing is ever removed": a text of the output is not lost to a resumed run.
\* A table drafted in part is asked about again, whole, or not at all.
NothingRemoved ==
    [][(run # Idle /\ run.found # NoFile) =>
        \A t \in DOMAIN output \cap DOMAIN output', i \in Items :
            output[t][i] # "none" => output'[t][i] # "none"]_vars
=============================================================================
