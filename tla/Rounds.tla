------------------------------- MODULE Rounds -------------------------------
(***************************************************************************)
(* eval.cli split, run --share, compare and run --determinism: the golden    *)
(* file's cases are divided once into a half to develop on and a half to hold *)
(* out, every round leaves a file that may be given away, and two rounds are  *)
(* compared, on one half if asked.                                            *)
(*                                                                          *)
(* Case ids are numbers, in the order of their names.  A case's first tag is *)
(* its category; its expectation is a version.  Files are written one after  *)
(* another, and the golden file is edited by people meanwhile.               *)
(***************************************************************************)
EXTENDS Naturals, Sequences, FiniteSets, SequencesExt

CONSTANTS
    Ids,         \* 1 .. n
    Tags,
    Kinds,       \* what a round leaves: a "bundle" (--share), a "report" (--out)
    EditsInRun,  \* the golden file may be edited while a round runs
    Crashes,     \* the machine may stop between two files, each of which is whole
    Repeats,     \* of a determinism probe; 0 for none
    MaxEdits, MaxSplits, MaxRounds   \* bounds

VARIABLES
    golden,      \* the golden file: its cases
    halves,      \* dev_ids.txt and test_ids.txt
    job,         \* a split between its two files, or a round that runs
    rounds,      \* the files of the rounds, in order
    comparison,  \* what compare printed
    probe,       \* run --determinism
    warehouse,   \* its version, 0 or 1
    edits, splits,
    firsts       \* history: the test half as first written, or by --force since

vars == <<golden, halves, job, rounds, comparison, probe, warehouse, edits, splits, firsts>>

Missing == {0}   \* no file
Idle == [is |-> "none"]
NoComparison == [is |-> "none"]
Expectations == 0 .. 1
Pipelines == {"production", "single_shot"}
Outcomes == [status : {"pass"}, diagnosed : {"match", "match_capped"}]
            \cup [status : {"fingerprint_mismatch"}, diagnosed : {"actual_is_subset", "none"}]
            \cup [status : {"guard_rejected"}, diagnosed : {"none"}]

TypeOK ==
    /\ DOMAIN golden \subseteq Ids
    /\ \A i \in DOMAIN golden : golden[i].tag \in Tags /\ golden[i].expect \in Expectations
    /\ halves.dev \in {Missing} \cup SUBSET Ids /\ halves.test \in {Missing} \cup SUBSET Ids
    /\ job.is \in {"none", "split", "round"} /\ Len(rounds) <= MaxRounds
    /\ comparison.is \in {"none", "refused", "done"}
    /\ probe.variants \in Seq({"a", "b"}) /\ Len(probe.outcomes) <= Repeats
    /\ warehouse \in 0 .. 1 /\ edits \in 0 .. MaxEdits /\ splits \in 0 .. MaxSplits

\* ------------------------------------------------------------- the golden file
Edit ==
    /\ edits < MaxEdits /\ edits' = edits + 1 /\ (job.is = "round" => EditsInRun)
    /\ \/ \E i \in Ids \ DOMAIN golden, c \in [tag : Tags, expect : {0}] :
            golden' = [j \in DOMAIN golden \cup {i} |-> IF j = i THEN c ELSE golden[j]]
       \/ \E i \in DOMAIN golden :
            \/ golden' = [j \in DOMAIN golden \ {i} |-> golden[j]]
            \/ \E t \in Tags : golden' = [golden EXCEPT ![i].tag = t]
            \/ golden' = [golden EXCEPT ![i].expect = 1 - @]
    /\ UNCHANGED <<halves, job, rounds, comparison, probe, warehouse, splits, firsts>>

\* ------------------------------------------------------------- split
Category(t) == {i \in DOMAIN golden : golden[i].tag = t}
Position(i) == Cardinality({j \in Category(golden[i].tag) : j < i})
\* split_cases: the first, third, ... of each category are to develop on.
Split ==
    LET dev == {i \in DOMAIN golden : Position(i) % 2 = 0}
    IN [dev |-> dev, test |-> DOMAIN golden \ dev]

\* _split: a file that is there with other content.
Changed(new) == \/ halves.dev \notin {Missing, new.dev} \/ halves.test \notin {Missing, new.test}

BeginSplit(force) ==
    /\ job.is = "none" /\ splits < MaxSplits /\ splits' = splits + 1
    /\ force \/ ~Changed(Split)
    /\ job' = [is |-> "split", test |-> Split.test, force |-> force]
    /\ halves' = [halves EXCEPT !.dev = Split.dev]
    /\ UNCHANGED <<golden, rounds, comparison, probe, warehouse, edits, firsts>>
\* The second file.
EndSplit ==
    /\ job.is = "split" /\ job' = Idle
    /\ halves' = [halves EXCEPT !.test = job.test]
    /\ firsts' = IF firsts = Missing \/ job.force THEN job.test ELSE firsts
    /\ UNCHANGED <<golden, rounds, comparison, probe, warehouse, edits, splits>>
Crash ==
    /\ Crashes /\ job.is = "split" /\ job' = Idle
    /\ UNCHANGED <<golden, halves, rounds, comparison, probe, warehouse, edits, splits, firsts>>

\* ------------------------------------------------------------- run
\* _run reads the golden file; only_ids are the ids of --share-only-ids.
BeginRound(kind, pipeline, only_ids) ==
    /\ job.is = "none" /\ Len(rounds) < MaxRounds /\ DOMAIN golden # {}
    /\ job' = [is |-> "round", kind |-> kind, pipeline |-> pipeline, only |-> only_ids,
               cases |-> golden]
    /\ UNCHANGED <<golden, halves, rounds, comparison, probe, warehouse, edits, splits, firsts>>

Passes(outcome) == outcome.status = "pass"
NotExecuted == {"guard_rejected"}
\* mismatch_class_for; "none" is no class.
ClassFor(status, passed, diagnosed) ==
    CASE diagnosed # "none" -> diagnosed
      [] passed -> "match"
      [] status \in NotExecuted -> "not_executed"
      [] OTHER -> "none"

\* A case in full, and what _case_record leaves of one that is not listed.
FullRecord(o) == [status |-> o.status, passed |-> Passes(o), top |-> "none",
                  diagnosis |-> ClassFor(o.status, Passes(o), o.diagnosed)]
ReducedRecord(o) == [status |-> "", passed |-> Passes(o), diagnosis |-> "none",
                     top |-> FullRecord(o).diagnosis]

\* build_share_bundle, or report.to_dict: the file's hash is of what it holds now.
EndRound(outcome) ==
    /\ job.is = "round" /\ outcome \in [DOMAIN job.cases -> Outcomes] /\ job' = Idle
    /\ rounds' = Append(rounds,
         [kind |-> job.kind, pipeline |-> job.pipeline,
          hash |-> IF job.kind = "bundle" THEN golden ELSE <<>>,
          records |-> [i \in DOMAIN outcome |->
                          IF job.kind = "report" \/ i \in job.only THEN FullRecord(outcome[i])
                                                                   ELSE ReducedRecord(outcome[i])],
          outcome |-> outcome, judged |-> job.cases])   \* history
    /\ UNCHANGED <<golden, halves, comparison, probe, warehouse, edits, splits, firsts>>

\* ------------------------------------------------------------- compare
\* _case_from_record.
LoadedClass(r) ==
    LET diagnosed == IF r.diagnosis # "none" THEN r.diagnosis ELSE r.top
    IN ClassFor(r.status, r.passed, diagnosed)
\* load_run.
Loaded(round) == [i \in DOMAIN round.records |->
                    [passed |-> round.records[i].passed, class |-> LoadedClass(round.records[i])]]
Kept(cases, ids) == [i \in DOMAIN cases \cap ids |-> cases[i]]
Classes(cases) == [c \in {cases[i].class : i \in DOMAIN cases} |->
                      Cardinality({i \in DOMAIN cases : cases[i].class = c})]

Mixed(old, new) == old.pipeline # new.pipeline
Notes(old, new, oc, nc, mixed) ==
    (IF mixed THEN {"mixed pipelines"} ELSE {})
    \cup (IF old.kind = "bundle" /\ new.kind = "bundle" /\ old.hash # new.hash
          THEN {"golden file differs"} ELSE {})
    \cup (IF DOMAIN oc # DOMAIN nc THEN {"added or removed"} ELSE {})

\* compare_runs: ids is the chosen half, or every id.
Comparison(old, new, ids) ==
    LET oc == Kept(Loaded(old), ids) nc == Kept(Loaded(new), ids)
        both == DOMAIN oc \cap DOMAIN nc
        of(a, b) == {i \in both : oc[i].passed = a /\ nc[i].passed = b}
    IN [is |-> "done", ids |-> ids, fixed |-> of(FALSE, TRUE), regressed |-> of(TRUE, FALSE),
        failing |-> of(FALSE, FALSE), passing |-> Cardinality(of(TRUE, TRUE)),
        added |-> DOMAIN nc \ DOMAIN oc, removed |-> DOMAIN oc \ DOMAIN nc,
        classes |-> <<Classes(oc), Classes(nc)>>,
        notes |-> Notes(old, new, oc, nc, Mixed(old, new))]

\* --split dev or test, which needs the file.
Compare(half, allowMixed) ==
    /\ job.is = "none" /\ Len(rounds) = 2 /\ half \in {"all", "dev", "test"}
    /\ half # "all" => halves[half] \notin {Missing, {}}
    /\ comparison' = IF Mixed(rounds[1], rounds[2]) /\ ~allowMixed THEN [is |-> "refused"]
                     ELSE Comparison(rounds[1], rounds[2], IF half = "all" THEN Ids ELSE halves[half])
    /\ UNCHANGED <<golden, halves, job, rounds, probe, warehouse, edits, splits, firsts>>

\* ------------------------------------------------------------- determinism
\* A repeat of probe_determinism: the statement is judged at once, against the rows
\* recorded for the case or the reference's own (make_judge).
Right(variant, at) == variant = "a" \/ at = 1
Repeat(variant, mode) ==
    /\ Len(probe.outcomes) < Repeats /\ mode \in {"stored", "live"}
    /\ probe.mode \in {"none", mode}
    /\ probe' = [mode |-> mode,
                 variants |-> IF variant \in ToSet(probe.variants) THEN probe.variants
                              ELSE Append(probe.variants, variant),
                 outcomes |-> Append(probe.outcomes,
                     IF mode = "live" THEN Right(variant, warehouse)
                     ELSE Right(variant, warehouse) /\ warehouse = 0)]
    /\ UNCHANGED <<golden, halves, job, rounds, comparison, warehouse, edits, splits, firsts>>
\* The data of the day change.
NewData ==
    /\ warehouse = 0 /\ warehouse' = 1 /\ Repeats > 0
    /\ UNCHANGED <<golden, halves, job, rounds, comparison, probe, edits, splits, firsts>>

Deterministic == Len(probe.variants) <= 1
Steady == Cardinality(ToSet(probe.outcomes)) <= 1

Init ==
    /\ golden \in UNION {[s -> [tag : Tags, expect : {0}]] : s \in SUBSET Ids}
    /\ halves = [dev |-> Missing, test |-> Missing] /\ job = Idle /\ rounds = <<>>
    /\ comparison = NoComparison /\ warehouse = 0 /\ edits = 0 /\ splits = 0 /\ firsts = Missing
    /\ probe = [mode |-> "none", variants |-> <<>>, outcomes |-> <<>>]
Next ==
    \/ Edit \/ EndSplit \/ Crash \/ NewData
    \/ \E force \in BOOLEAN : BeginSplit(force)
    \/ \E k \in Kinds, p \in Pipelines, ids \in SUBSET Ids : BeginRound(k, p, ids)
    \/ job.is = "round" /\ \E o \in [DOMAIN job.cases -> Outcomes] : EndRound(o)
    \/ \E half \in {"all", "dev", "test"}, mixed \in BOOLEAN : Compare(half, mixed)
    \/ \E v \in {"a", "b"}, m \in {"stored", "live"} : Repeat(v, m)
Spec == Init /\ [][Next]_vars

\* ------------------------------------------------------------- properties
\* Without --force the held-out half is never written with other cases, whatever
\* is added to, taken from or retagged in the golden file.
HeldOut == halves.test \in {Missing, firsts}

\* Between two commands no case is both to develop on and held out.
HalvesApart ==
    (job.is # "split" /\ halves.test # Missing) => halves.dev \cap halves.test = {}

\* Of each category the halves have as many cases, or the one to develop on has one
\* more.
Balanced == \A t \in Tags :
    LET dev == Cardinality(Split.dev \cap Category(t))
    IN dev - Cardinality(Split.test \cap Category(t)) \in 0 .. 1

Compared == comparison.is = "done"
Old == rounds[1]
New == rounds[2]

\* What a reader of the comparison takes for unchanged is: a case of the half that
\* passed and does not any more is listed, as regressed or as removed.
RegressionListed ==
    Compared => \A i \in comparison.ids \cap DOMAIN Old.outcome :
        (Passes(Old.outcome[i]) /\ ~(i \in DOMAIN New.outcome /\ Passes(New.outcome[i])))
            => i \in comparison.regressed \cup comparison.removed

\* Only cases of the chosen half are counted, each once.
OnceEach ==
    Compared =>
        LET of == comparison.fixed \cup comparison.regressed \cup comparison.failing
        IN /\ of \cup comparison.added \cup comparison.removed \subseteq comparison.ids
           /\ Cardinality(of) + comparison.passing =
                Cardinality(comparison.ids \cap DOMAIN Old.outcome \cap DOMAIN New.outcome)

\* A file that hides the cases that are not listed compares like one that does not.
DetailNotNeeded ==
    \A n \in DOMAIN rounds : \A i \in DOMAIN rounds[n].records :
        Loaded(rounds[n])[i].class = FullRecord(rounds[n].outcome[i]).diagnosis

\* Two rounds that were not made alike are not compared without saying so: another
\* pipeline, or another expectation of a case in both.
SameYardstick ==
    Compared =>
        /\ Mixed(Old, New) => "mixed pipelines" \in comparison.notes
        /\ (\E i \in comparison.ids \cap DOMAIN Old.judged \cap DOMAIN New.judged :
                Old.judged[i] # New.judged[i]) => "golden file differs" \in comparison.notes

\* A question that gave one statement each time and was right only sometimes was
\* measured on data that changed (module comment of determinism.py).
SteadyWhenOneStatement ==
    (Deterministic /\ ~Steady) => (warehouse = 1)
RoundsSound == HeldOut /\ HalvesApart /\ Balanced /\ RegressionListed /\ OnceEach /\ DetailNotNeeded
               /\ SameYardstick /\ SteadyWhenOneStatement
=============================================================================
