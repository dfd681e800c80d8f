----------------------------- MODULE Retrieval -----------------------------
(***************************************************************************)
(* retrieval/: which tables, values and data source a question is about,    *)
(* and eval/recall.py, scripts/analyze_misses.py: how often the tables are   *)
(* the right ones.                                                           *)
(*                                                                          *)
(* A question is a sequence of words, a phrase of the configuration too.     *)
(* Normalisation and the two ways of taking a plural off are Stem; a phrase  *)
(* inside a longer word is left out.  A table's name is the sequence of its  *)
(* parts, the bare name last.  The logarithms of the tf-idf score are whole  *)
(* weights.  The vocabulary of a dimension (Vocabulary) may match a value,   *)
(* miss or be unavailable; the join path (JoinPaths) adds some of the tables *)
(* between two retrieved ones.  The joins, rules and examples of the prompt   *)
(* follow from the tables and words alone and are left out.                  *)
(***************************************************************************)
EXTENDS Naturals, Integers, Sequences, FiniteSets, SequencesExt

CONSTANTS
    Questions,            \* the questions asked
    Stem,                 \* word -> word without its plural suffix
    Synonyms,             \* word -> the words aliases.yaml adds
    Years, YearWords,     \* is_year_literal, _YEAR_WORDS
    Says,                 \* word -> the static filters it states
    Names,                \* every table name, in the order of the names
    Keys,                 \* the tables of schema.yaml
    Sources, Owners,      \* the data sources, default first; table -> its own
    Keywords,             \* source -> its phrases
    Entities, Patterns,   \* entities.yaml, fact_patterns: <<table, phrases>>s
    FactTables, Signals,  \* fact_tables; always_include: <<table, phrases>>s
    Describes, Columns,   \* table -> word -> weight in descriptions, columns
    Joins,                \* pairs of tables a foreign key joins
    TopN, MinScore, Forced,           \* _TOP_N, _MIN_SCORE, _FORCED_SCORE
    ExtraTables, ExtraRatio,          \* retrieval_extra_*, in per cent
    Prune, PruneRatio, Corroborate,   \* retrieval_prune*, in per cent
    Hops, HubDegree,
    Tokens, Budget,       \* table -> size of its block; the retrieval budget
    Cases,                \* the golden cases of a report
    Logged,               \* the records of the query log
    MaxTurns              \* bound: questions of one session

None == "none"

VARIABLES
    question, previous,   \* the question; the source of the turn before
    named, ranked,        \* named_tables of both kinds; rank_tables
    candidates,           \* the tables found, before pruning
    entities, facts, joined,
    filters, resolved, unavailable,
    selection,
    turns, report, misses

vars == <<question, previous, named, ranked, candidates, entities, facts, joined, filters, resolved,
          unavailable, selection, turns, report, misses>>

\* ---------------------------------------------------------------- phrases
Stems(q) == [i \in DOMAIN q |-> Stem[q[i]]]
Within(p, q) == \E i \in 0 .. Len(q) - Len(p) : SubSeq(q, i + 1, i + Len(p)) = p

\* keyword_hits: a phrase counts once, as typed or in the singular.
Hits(s, q) == Cardinality({p \in Keywords[s] : Within(p, q) \/ Within(p, Stems(q))})

\* alias_hits, _words_match: words side by side, or all of several anywhere.
Matches(form, q) ==
    \/ Within(Stems(form), Stems(q))
    \/ Len(form) > 1 /\ ToSet(Stems(form)) \subseteq ToSet(Stems(q))

\* _expand
Expanded(q) ==
    q \o FlattenSeq([i \in DOMAIN q |-> Synonyms[q[i]] \o
                        IF Stem[q[i]] # q[i] THEN Synonyms[Stem[q[i]]] ELSE <<>>])
      \o IF ToSet(q) \cap Years # {} THEN YearWords ELSE <<>>
Vocabulary(q) == ToSet(Expanded(q)) \cup ToSet(Stems(Expanded(q)))

\* ------------------------------------------------------------- table names
Multiple == Len(Sources) > 1
Listed(S) == SelectSeq(Names, LAMBDA k : k \in S)
Unique(s) == FoldLeft(LAMBDA acc, x : IF x \in ToSet(acc) THEN acc ELSE Append(acc, x), <<>>, s)
Bare(k) == Last(k)
Qualifier(k) == Front(k)

\* _candidates: the key itself, or the keys that end with what is written.
Candidates(ref) == IF ref \in Keys THEN {ref} ELSE {k \in Keys : IsSuffix(ref, k)}

\* _home_qualifiers: where the names the configuration uses once live.
Home ==
    LET written == {e[1] : e \in ToSet(Entities) \cup ToSet(Patterns) \cup ToSet(Signals)}
                       \cup FactTables
    IN {Qualifier(CHOOSE k \in Candidates(r) : TRUE) :
            r \in {x \in written : Cardinality(Candidates(x)) = 1}}

\* _narrow: by the sources the text is about, else by the configuration's home.
Narrow(found, text) ==
    LET best == {s \in ToSet(Sources) : Hits(s, text) > 0 /\
                    \A o \in ToSet(Sources) : Hits(o, text) <= Hits(s, text)}
        about == IF Multiple THEN {k \in found : Owners[k] \cap best # {}} ELSE {}
        home == {k \in found : Qualifier(k) \in Home}
    IN CASE Cardinality(found) < 2 -> found
         [] Cardinality(found) >= 2 /\ about # {} -> about
         [] Cardinality(found) >= 2 /\ about = {} /\ home # {} -> home
         [] OTHER -> found

\* resolve_table_ref; a name the schema does not have stands for itself.
Resolve(ref, text) == Narrow(Candidates(ref), text)
OrItself(ref, text) == IF Resolve(ref, text) = {} THEN {ref} ELSE Resolve(ref, text)

\* configured_fact_tables
Facts == UNION {OrItself(r, <<>>) : r \in FactTables}

\* named_tables
NamedBy(forms, q) ==
    LET hit == SelectSeq(forms, LAMBDA f : \E p \in f[2] : Matches(p, q))
    IN Unique(FlattenSeq([i \in DOMAIN hit |-> Listed(OrItself(hit[i][1], q))]))

\* ----------------------------------------------------------------- ranking
\* _forced_tables: every word of a signal, anywhere in the expanded question.
ForcedTables(q) ==
    UNION {OrItself(s[1], Expanded(q)) :
              s \in {x \in ToSet(Signals) : \E p \in x[2] : ToSet(p) \subseteq Vocabulary(q)}}

\* _column_scores, _score_table
Sum(weight, words) == MapThenSumSet(LAMBDA w : weight[w], words)
ColumnScore(t, q) == Sum(Columns[t], ToSet(Stems(Expanded(q))))

\* rank_tables: <<table, score>> of each table there is evidence for, best first.
Ranked(q) ==
    LET forced == ForcedTables(q)
        words == Vocabulary(q)
        stems == ToSet(Stems(Expanded(q)))
        pairs == [i \in DOMAIN Names |->
                     LET t == Names[i]
                         s == IF t \in Keys THEN Sum(Describes[t], words) + Sum(Columns[t], stems)
                              ELSE 0
                     IN <<t, IF t \in forced /\ s < Forced THEN Forced ELSE s>>]
    IN SortSeq(SelectSeq(pairs, LAMBDA p : p[2] >= MinScore), LAMBDA p, o : p[2] > o[2])
Tables(found) == [i \in DOMAIN found |-> found[i][1]]
Weak(found) == SelectSeq(found, LAMBDA p : p[2] < Forced)
FirstOf(n, s) == SubSeq(s, 1, Min({n, Len(s)}))

\* retrieve_tables
Retrieved(found, fallback) ==
    IF found # <<>> THEN Tables(FirstOf(TopN, found))
    ELSE IF fallback THEN Listed(Keys) ELSE <<>>

\* scored_extras: what is forced, then the best few of the same kind.
Extras(found, fact, taken) ==
    LET pool == SelectSeq(found, LAMBDA p : p[1] \in Keys /\ (p[1] \in Facts) = fact)
        forced == SelectSeq(pool, LAMBDA p : p[2] >= Forced /\ p[1] \notin taken)
        extras == SelectSeq(Weak(pool), LAMBDA p : /\ p[1] \notin taken
                                                   /\ 100 * p[2] >= ExtraRatio * Weak(pool)[1][2])
    IN IF ExtraTables = 0 THEN <<>>
       ELSE Tables(forced) \o Tables(FirstOf(ExtraTables, extras))

\* What is named and what the ranking adds; the ranking alone without a name.
Found(called, found, fact) ==
    IF called # <<>> THEN called \o Extras(found, fact, ToSet(called))
    ELSE SelectSeq(Retrieved(found, TRUE), LAMBDA t : (t \in Facts) = fact)

Dimensions(called, found) == Found(called, found, FALSE)   \* EntityRetriever.retrieve
Events(called, found) == Found(called, found, TRUE)        \* FactRetriever.retrieve

\* ----------------------------------------------------------------- pruning
Neighbours(t) == {u \in Keys : {t, u} \in Joins}

\* connected_within: at most Hops keys, never through a hub.
Connected(t, anchors) ==
    LET reach[n \in 0 .. Hops] ==
            IF n = 0 THEN {t}
            ELSE LET near == reach[n - 1]
                     on == {v \in near : v = t \/ Cardinality(Neighbours(v)) <= HubDegree}
                 IN near \cup UNION {Neighbours(u) : u \in on}
    IN (reach[Hops] \cap anchors) \ {t} # {}

\* The table is kept because one already kept is joined to it.
Rescued(kept, all) ==
    LET grow[n \in 0 .. Cardinality(all)] ==
            IF n = 0 THEN kept
            ELSE LET so == grow[n - 1] IN so \cup {t \in all \ so : Connected(t, so)}
    IN grow[Cardinality(all)]

\* prune_selection: the tables that stay, of the candidates.
Kept(q, all, called, found) ==
    LET weak == SelectSeq(Weak(found), LAMBDA p : p[1] \in all)
        strong == called \cup (all \ ToSet(Tables(Weak(found))))
        anchors == (all \cap strong) \cup
                   {p[1] : p \in {o \in ToSet(weak) : /\ ColumnScore(o[1], q) > 0
                                                      /\ 100 * o[2] >= PruneRatio * weak[1][2]}}
        first == Rescued(IF anchors = {} THEN {weak[1][1]} ELSE anchors, all)
        pairs == {t \in all \ first : Connected(t, all \ (first \cup {t}))}
    IN IF ~Prune \/ Cardinality(all) < 2 \/ weak = <<>> THEN all
       ELSE IF Corroborate THEN Rescued(first \cup pairs, all) ELSE first

\* --------------------------------------------------------------- the source
\* retrieval_scores: a table counts once, shared out among its sources.
Unit == 6
Credit(s, tables) ==
    MapThenSumSet(LAMBDA t : IF s \in Owners[t] THEN Unit \div Cardinality(Owners[t]) ELSE 0,
                  tables \cap Keys)

\* select_source
Select(q, tables, values, before) ==
    LET all == ToSet(Sources)
        hits == [s \in all |-> Hits(s, q)]
        score == [s \in all |-> Credit(s, tables) + Credit(s, values)]
        Better(s, o) == hits[s] > hits[o] \/ (hits[s] = hits[o] /\ score[s] > score[o])
        most == Max({hits[s] : s \in all})
        pool == SelectSeq(Sources, LAMBDA s : hits[s] = most)
        high == Max({score[s] : s \in ToSet(pool)})
        leaders == SelectSeq(pool, LAMBDA s : score[s] = high)
        Chosen(s, why) ==
            [chosen |-> s, reason |-> why,
             after |-> <<s>> \o SelectSeq(SortSeq(Sources, Better), LAMBDA o : o # s)]
    IN CASE most > 0 /\ Len(pool) = 1 -> Chosen(pool[1], "keyword")
         [] (most = 0 \/ Len(pool) > 1) /\ before \in ToSet(pool) -> Chosen(before, "session")
         [] (most = 0 \/ Len(pool) > 1) /\ before \notin ToSet(pool)
                /\ high > 0 /\ Len(leaders) = 1 -> Chosen(leaders[1], "retrieval")
         [] OTHER -> Chosen(leaders[1], "default")

\* -------------------------------------------------------------- one question
\* ValueRetriever.retrieve: a whole date takes the place of its year.
Stated(q) ==
    LET all == UNION {Says[w] : w \in ToSet(q)}
    IN IF "PersianDate" \in all THEN all \ {"PersianYear"} ELSE all

\* expand_join_paths: tables between two retrieved ones (JoinPaths says which).
Bridges(S) == {t \in Keys \ S : Cardinality(Neighbours(t) \cap S) > 1}

\* What ContextRetriever finds for a question, before the vocabulary: the tables
\* that stay of those its words name and those the ranking adds.
Pruned(q, all, called, ordered, dims, events, kept) ==
    [named |-> called, ranked |-> ordered, candidates |-> all,
     entities |-> SelectSeq(dims, LAMBDA t : t \in kept),
     facts |-> SelectSeq(events, LAMBDA t : t \in kept),
     kept |-> kept, bridges |-> Bridges(kept),
     static |-> UNION {Resolve(<<f>>, <<>>) : f \in Stated(q)}]
Gathered(q, called, ordered, dims, events) ==
    Pruned(q, dims \o events, called, ordered, dims, events,
           Kept(q, ToSet(dims \o events), called, ordered))
Lookup(q) ==
    LET mine == NamedBy(Entities, q)
        theirs == NamedBy(Patterns, q)
        ordered == Ranked(q)
    IN Gathered(q, ToSet(mine \o theirs), ordered, Dimensions(mine, ordered), Events(theirs, ordered))

\* ContextRetriever.retrieve, then select_source_for_question.
Ask ==
    /\ turns < MaxTurns /\ turns' = turns + 1 /\ report = <<>> /\ misses = <<>>
    /\ previous' = IF turns = 0 THEN previous ELSE selection.chosen
    /\ \E q \in Questions : \E seen \in {Lookup(q)} :
         /\ question' = q /\ filters' = Stated(q)
         /\ named' = seen.named /\ ranked' = seen.ranked /\ candidates' = seen.candidates
         /\ entities' = seen.entities /\ facts' = seen.facts
         \* the vocabulary of what is left: a value of one table, or no list to look in
         /\ \E more \in SUBSET seen.bridges,
               hit \in {{t} : t \in ToSet(seen.entities) \ seen.static} \cup {{}} :
              /\ joined' = more /\ resolved' = hit
              /\ unavailable' \in {{}, ToSet(seen.entities) \ (seen.static \cup hit)}
              /\ selection' = IF ~Multiple THEN [chosen |-> None, reason |-> None, after |-> <<>>]
                              ELSE Select(q, seen.kept \cup more, hit,
                                          IF turns = 0 THEN previous ELSE selection.chosen)
    /\ UNCHANGED <<report, misses>>

\* ------------------------------------------------------------- how it does
\* gold_tables_from_sql: the guard resolves a name that means one table.
Gold(c) == UNION {IF Cardinality(Candidates(r)) = 1 THEN Candidates(r) ELSE {} : r \in c.reads}
Skipped(c) == \/ c.status # "active" \/ c.reads = {}
              \/ \E r \in c.reads : Cardinality(Candidates(r)) # 1
\* evaluate_recall, one case: found, missed, size, source.
Scored(c, got) ==
    [gold |-> Gold(c), missed |-> Gold(c) \ got,
     fits |-> MapThenSumSet(LAMBDA t : Tokens[t], got \cap Keys) <= Budget,
     source |-> IF ~Multiple \/ c.source = None THEN "unasked"
                ELSE IF c.source \notin ToSet(Sources) THEN "unscorable"
                ELSE IF Select(c.question, got, {}, None).chosen = c.source THEN "right"
                ELSE "wrong"]
Result(c) == Scored(c, Lookup(c.question).kept)
Count(results, T(_)) == Cardinality({i \in DOMAIN results : T(results[i])})

\* The two scripts run by themselves.
Fresh == turns = 0 /\ report = <<>> /\ misses = <<>>

Evaluate ==
    /\ Fresh
    /\ \E cases \in Cases :
       \E scored \in {SelectSeq(cases, LAMBDA c : ~Skipped(c))} :
       \E results \in {[i \in DOMAIN scored |-> Result(scored[i])]} :
            report' = <<[total |-> Len(cases), skipped |-> Len(cases) - Len(scored),
                         cases |-> scored,
                         full |-> Count(results, LAMBDA r : r.missed = {}),
                         over |-> Count(results, LAMBDA r : ~r.fits),
                         whole |-> Count(results, LAMBDA r : r.missed = {} /\ r.fits),
                         right |-> Count(results, LAMBDA r : r.source = "right"),
                         asked |-> Count(results, LAMBDA r : r.source \in {"right", "wrong"})]>>
    /\ UNCHANGED <<question, previous, named, ranked, candidates, entities, facts, joined,
                   filters, resolved, unavailable, selection, turns, misses>>

\* analyze_misses: a table of the SQL, by its bare name, that the ranking alone
\* does not bring.
Missing(e) == ({<<Bare(r)>> : r \in e.reads} \cap Keys) \ ToSet(Retrieved(Ranked(e.question), FALSE))
Analyse ==
    /\ Fresh
    /\ \E log \in Logged :
         misses' = <<[log |-> log,
                      found |-> SelectSeq(log, LAMBDA e : e.status = "SUCCESS" /\ Missing(e) # {})]>>
    /\ UNCHANGED <<question, previous, named, ranked, candidates, entities, facts, joined,
                   filters, resolved, unavailable, selection, turns, report>>

Init ==
    /\ question = <<>> /\ named = {} /\ ranked = <<>> /\ candidates = <<>> /\ entities = <<>> /\ facts = <<>> /\ joined = {}
    /\ filters = {} /\ resolved = {} /\ unavailable = {}
    /\ selection = [chosen |-> None, reason |-> None, after |-> <<>>]
    /\ previous \in ToSet(Sources) \cup {None}
    /\ turns = 0 /\ report = <<>> /\ misses = <<>>

Next == Ask \/ Evaluate \/ Analyse

Spec == Init /\ [][Next]_vars

TypeOK ==
    /\ ToSet(entities) \cup ToSet(facts) \subseteq ToSet(Names)
    /\ joined \subseteq Keys /\ resolved \subseteq ToSet(Names)
    /\ selection.chosen \in ToSet(Sources) \cup {None} /\ turns \in 0 .. MaxTurns

\* ---------------------------------------------------------------- properties
Asked == turns > 0
Selected == ToSet(entities) \cup ToSet(facts)

\* A table the question names, by an alias or a fact pattern, reaches the
\* prompt, and so does a table always_include forces, whichever retriever
\* found it and whatever the pruning dropped (entity_retriever.py:41-49,
\* table_evidence.py:204-210, pruning.py:84-101).
NamedReachesPrompt ==
    Asked => named \cup (ForcedTables(question) \cap Keys) \subseteq Selected

\* Pruning takes away and reorders nothing, leaves a table where it found one,
\* and has nothing to do on what it left (pruning.py:103-134).
PruningSettles ==
    Asked =>
        /\ entities \o facts = SelectSeq(candidates, LAMBDA t : t \in Selected)
        /\ candidates # <<>> => entities \o facts # <<>>
        /\ Kept(question, Selected, named, ranked) = Selected

\* One name is one table of the source that answers: when the question is about
\* the chosen source, a bare name with a table there means that table only
\* (table_keys.py:144-163 counts the keywords, source_selector.py:384-391 again).
NameMeansSourceTable ==
    (Asked /\ selection.reason = "keyword") =>
        \A e \in ToSet(Entities) \cup ToSet(Patterns) \cup ToSet(Signals) :
            LET here == {k \in Candidates(e[1]) : selection.chosen \in Owners[k]}
                elsewhere == {k \in Candidates(e[1]) : selection.chosen \notin Owners[k]}
                brought == \/ \E p \in e[2] : Matches(p, question)
                           \/ e \in ToSet(Signals) /\
                              \E p \in e[2] : ToSet(p) \subseteq Vocabulary(question)
            IN (brought /\ here # {}) =>
                   \A k \in elsewhere : k \in Selected =>
                       ranked = <<>> \/ k \in ToSet(Tables(Weak(ranked)))

\* A conversation leaves its source only for one the question has more
\* keywords of, and every source is a candidate once, the chosen one first
\* (source_selector.py:380-406).
SourceStays ==
    (Asked /\ Multiple) =>
        /\ selection.after[1] = selection.chosen
        /\ Len(selection.after) = Len(Sources) /\ ToSet(selection.after) = ToSet(Sources)
        /\ (previous # None /\ selection.chosen # previous) =>
               Hits(selection.chosen, question) > Hits(previous, question)
        /\ \A s \in ToSet(Sources) : Hits(s, question) <= Hits(selection.chosen, question)

\* A dimension is filtered once: what the text states by its own form is not
\* looked up again among the values of the table of that name
\* (context_retriever.py:156-159).
FilteredOnce == \A k \in resolved \cup unavailable : Bare(k) \notin filters

\* The report adds up and counts a case as found when the question names every
\* table its SQL reads (recall.py:519-607).
ReportHonest ==
    report # <<>> =>
        LET r == report[1] IN
        /\ r.skipped + Len(r.cases) = r.total
        /\ r.whole <= r.full /\ r.right <= r.asked
        /\ r.full >= Count(r.cases, LAMBDA c : Gold(c) \subseteq
               ToSet(NamedBy(Entities, c.question)) \cup ToSet(NamedBy(Patterns, c.question)))
        /\ r.full - r.whole <= r.over

\* Every answered question whose SQL reads a table the ranking does not bring
\* is a miss (analyze_misses.py:149-347).
EveryMissReported ==
    misses # <<>> =>
        \A e \in ToSet(misses[1].log) :
            (e.status = "SUCCESS" /\ ~(UNION {Candidates(r) : r \in e.reads}
                                         \subseteq ToSet(Retrieved(Ranked(e.question), FALSE)))) =>
                e \in ToSet(misses[1].found)

RetrievalSound ==
    /\ NamedReachesPrompt /\ PruningSettles /\ NameMeansSourceTable /\ SourceStays
    /\ FilteredOnce /\ ReportHonest /\ EveryMissReported
=============================================================================
