----------------------------- MODULE PolicyDrafts -----------------------------
(***************************************************************************)
(* scripts/draft_policies.py, core/policy_drafts.py and core/policy_values.py *)
(* and what retrieval/value_retriever.py finds with the rings they draft.     *)
(*                                                                          *)
(* A text is the sequence of its words under the project's folding; a value   *)
(* the warehouse stores is such a text in one of its spellings.  One          *)
(* dimension and one memory key are kept, of each file what the run rewrites. *)
(***************************************************************************)
EXTENDS Naturals, Sequences, FiniteSets, SequencesExt

CONSTANTS
    Stored,        \* the values the column may hold: text, spelling, fit to show
    Default,       \* the default_label
    Generic,       \* the --generic-words
    MaxValues, MaxRuns, MaxEdits

VARIABLES
    warehouse,     \* the values the column holds
    live, draft,   \* the two directories: memory, session, aliases
    run, runs, edits,
    complete       \* history: by directory, its last run wrote all it had to

vars == <<warehouse, live, draft, run, runs, edits, complete>>

Idle == [at |-> "idle"]
None == <<>>
Texts(values) == {v.text : v \in values}

TypeOK ==
    /\ warehouse \subseteq Stored /\ run.at \in {"idle", "memory", "session", "aliases"}
    /\ \A dir \in {live, draft} : {"memory", "session", "aliases"} \cap DOMAIN dir = DOMAIN dir
    /\ runs \in 0 .. MaxRuns /\ edits \in 0 .. MaxEdits
    /\ DOMAIN complete = {"live", "draft"}

\* usable_values: fit to show, not the default label, and of the spellings of a
\* text the Persian one.
Usable(raw) ==
    {v \in raw : /\ v.fit /\ v.text # Default
                 /\ v.arabic => \A w \in raw : (w.fit /\ w.text = v.text) => w.arabic}

\* ------------------------------------------------------------ ring_aliases
\* ring_forms: a short form without a leading generic word.
Short(v, generic) ==
    IF generic /\ Len(v) > 1 /\ Head(v) \in Generic /\ ~(Len(v) = 2 /\ v[2] \in Generic) THEN {Tail(v)} ELSE {}
\* MUTANT: a form may name two values.
SharedNever(form, values, generic) == FALSE
\* A form two values would be shortened to.
Shared(form, values, generic) == Cardinality({v \in values : form \in Short(v, generic)}) > 1
\* draft_ring_aliases: an entry for each value without one, the longest first.
Aliased(aliases, values, generic) ==
    LET fresh == values \ {aliases[i].key : i \in DOMAIN aliases}
        entry(v) == [key |-> v, forms |-> {v} \cup {f \in Short(v, generic) : ~Shared(f, fresh, generic)}]
        longest == SetToSortSeq(fresh, LAMBDA v, w : Len(v) > Len(w))
    IN aliases \o [i \in DOMAIN longest |-> entry(longest[i])]

Within(form, text) == \E i \in 0 .. Len(text) - Len(form) : SubSeq(text, i + 1, i + Len(form)) = form
\* extract_ring: the first entry with a form in the question.
ExtractRing(aliases, text) ==
    LET hits == {i \in DOMAIN aliases : \E f \in aliases[i].forms : Within(f, text)}
    IN IF hits = {} THEN None ELSE aliases[CHOOSE i \in hits : \A j \in hits : i <= j].key

\* ------------------------------------------------------------------- a run
Dir(name) == IF name = "live" THEN live ELSE draft
Written(name, file, content) ==
    IF name = "live" THEN live' = [live EXCEPT ![file] = content] /\ UNCHANGED draft
    ELSE draft' = [f \in DOMAIN draft \cup {file} |-> IF f = file THEN content ELSE draft[f]] /\ UNCHANGED live

\* main, up to the first write.  The output is the draft directory or, with
\* --overwrite-live, the live one.
Start(out, rings, generic, force) ==
    /\ run = Idle /\ runs < MaxRuns /\ runs' = runs + 1 /\ (generic => rings)
    /\ Cardinality(warehouse) <= MaxValues /\ Usable(warehouse) # {}
    /\ out = "live" \/ force \/
         DOMAIN draft \cap ({"memory", "session"} \cup IF rings THEN {"aliases"} ELSE {}) = {}
    /\ LET options == Texts(Usable(warehouse))
       IN run' = [at |-> "memory", out |-> out, rings |-> rings, generic |-> generic, memory |-> options, session |-> {Default} \cup options,
                  aliases |-> Aliased(live.aliases, options, generic)]
    /\ UNCHANGED <<warehouse, live, draft, edits, complete>>

WriteFile(ok) ==
    /\ run # Idle
    /\ LET last == run.at = IF run.rings THEN "aliases" ELSE "session"
       IN /\ IF ok THEN Written(run.out, run.at, run[run.at]) ELSE UNCHANGED <<live, draft>>
          /\ run' = IF ~ok \/ last THEN Idle
                    ELSE [run EXCEPT !.at = IF @ = "memory" THEN "session" ELSE "aliases"]
          /\ complete' = [complete EXCEPT ![run.out] = ok /\ last]
    /\ UNCHANGED <<warehouse, runs, edits>>
Crash ==
    /\ run # Idle /\ run' = Idle
    /\ UNCHANGED <<warehouse, live, draft, runs, edits, complete>>

\* ------------------------------------------------------------------ people
Edited == edits < MaxEdits /\ edits' = edits + 1
\* The drafts are copied across.
Copy ==
    /\ run = Idle /\ complete["draft"] /\ Edited
    /\ live' = [f \in DOMAIN live |-> IF f \in DOMAIN draft THEN draft[f] ELSE live[f]]
    /\ complete' = [complete EXCEPT !["live"] = TRUE]
    /\ UNCHANGED <<warehouse, draft, run, runs>>
Store(v) ==
    /\ v \notin warehouse /\ warehouse' = warehouse \cup {v} /\ Edited
    /\ UNCHANGED <<live, draft, run, runs, complete>>

Init ==
    /\ warehouse \in SUBSET Stored
    /\ live = [memory |-> {}, session |-> {Default}, aliases |-> <<>>] /\ draft = <<>>
    /\ run = Idle /\ runs = 0 /\ edits = 0 /\ complete = [d \in {"live", "draft"} |-> FALSE]

Next ==
    \/ \E out \in {"live", "draft"}, rings, generic, force \in BOOLEAN : Start(out, rings, generic, force)
    \/ \E ok \in BOOLEAN : WriteFile(ok)
    \/ Crash \/ Copy
    \/ \E v \in Stored : Store(v)

Spec == Init /\ [][Next]_vars

(***************************************************************************)
(* Properties.                                                             *)
(***************************************************************************)
\* What an analyst may pin and what a clarification offers are one list, after
\* any number of runs, copies and stops ("the default_label followed by the
\* values", "the memory options never contain the default_label").
PairAgrees ==
    \A name \in {"live", "draft"} :
        (complete[name] /\ ~(run # Idle /\ run.out = name)) =>
            /\ Dir(name).session = {Default} \cup Dir(name).memory
            /\ Default \notin Dir(name).memory

\* "A shortened form that two values would share is left out": of the entries one
\* run adds, no two have a form in common but a value's own name.
FormsApart ==
    run # Idle =>
        LET added == {i \in DOMAIN run.aliases : i > Len(live.aliases)}
        IN \A i, j \in added : i # j =>
            run.aliases[i].forms \cap run.aliases[j].forms \subseteq {run.aliases[i].key, run.aliases[j].key}
\* "Longest value first": of the entries one run adds, without short forms, the
\* first with a form in the question that is a ring's name is that ring's.
NamesOfARun ==
    (run # Idle /\ ~run.generic) =>
        LET added == SubSeq(run.aliases, Len(live.aliases) + 1, Len(run.aliases))
        IN \A i \in DOMAIN added : ExtractRing(added, added[i].key) = added[i].key

PolicySound == PairAgrees /\ FormsApart /\ NamesOfARun

\* A question that is the name of a ring is about that ring: the longer name comes
\* first and "no other value would give the same form".
RingOfItsName ==
    \A i \in DOMAIN live.aliases : ExtractRing(live.aliases, live.aliases[i].key) = live.aliases[i].key
=============================================================================
