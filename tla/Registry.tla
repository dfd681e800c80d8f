------------------------------ MODULE Registry ------------------------------
(***************************************************************************)
(* schema_data/registry.py and prompt_engine/: schema.yaml as the program    *)
(* holds it, the text the model is shown of it, and how the guard reads a    *)
(* table name written as that text shows it.                                 *)
(*                                                                          *)
(* A table key is the sequence of its parts, the bare name last; quoting is   *)
(* left out.  A text is the record of what it shows.  Columns are what a     *)
(* unit or a flag may name; descriptions and templates are left out.         *)
(***************************************************************************)
EXTENDS Naturals, Sequences, FiniteSets, SequencesExt

CONSTANTS
    Fold,       \* a name in lower case
    Files,      \* schema.yaml as it may be: [tables, relations]
    Proposed,   \* the schema.yaml the wizard looks at before it is written
    Sources,    \* the data sources, default first
    Examples,   \* examples.yaml: [id, reads]
    Size, Budget,   \* tokens of a table; PROMPT_RETRIEVAL_TOKEN_BUDGET
    MaxTexts    \* bound: texts built

None == "none"                  \* no source
Nothing == [is |-> "nothing"]   \* not loaded, not asked, not looking

VARIABLES
    file,       \* schema.yaml
    cache,      \* _cache, Nothing before the first access
    bound,      \* TABLE_COLUMNS, as static_prefix holds it
    guarded,    \* the tables the guard was imported with
    prefixes,   \* build_static_prefix's cache: <<source, text>>s
    preview,    \* schema_text_in_effect: what to put back, Nothing outside
    shown, asked,   \* the last text and what was asked of it
    texts

vars == <<file, cache, bound, guarded, prefixes, preview, shown, asked, texts>>

Lower(s) == [i \in DOMAIN s |-> Fold[s[i]]]
Bare(key) == Last(key)
Default == Sources[1]
Several == Len(Sources) > 1

\* --------------------------------------------------------------- validation
\* effective_qualifier
Qualifier(t) == IF Len(t.key) > 1 THEN Front(t.key) ELSE t.db

\* TableDefinition, SchemaConfig: two spellings of one table, a qualifier that
\* says two things, a column that is not there, a flag without a qualifier.
ValidTable(t) ==
    /\ Len(t.key) \in 1 .. 4 /\ Len(t.db) <= 3
    /\ DOMAIN t.units \cup t.flagged \subseteq t.columns
    /\ t.flagged # {} => Qualifier(t) # <<>>
    /\ (Len(t.key) > 1 /\ t.db # <<>>) => Lower(Front(t.key)) = Lower(t.db)
    /\ IsInjective(t.sources)
Valid(f) ==
    /\ \A i \in DOMAIN f.tables : ValidTable(f.tables[i])
    /\ \A i, j \in DOMAIN f.tables :
         (Lower(Qualifier(f.tables[i])) = Lower(Qualifier(f.tables[j]))
             /\ Fold[Bare(f.tables[i].key)] = Fold[Bare(f.tables[j].key)]) => i = j

\* check_allowlist_structural_invariants: only the left table is looked up.
Unsound(f) ==
    \/ \A i \in DOMAIN f.tables : f.tables[i].columns = {}
    \/ \E r \in ToSet(f.relations) : r.from \notin {t.key : t \in ToSet(f.tables)}

\* ---------------------------------------------------------------- in memory
\* _merged_column_units: tables in their order, a disagreement drops the column.
Units(tables) ==
    LET pairs == UNION {{<<c, t.units[c]>> : c \in DOMAIN t.units} : t \in ToSet(tables)}
    IN {p \in pairs : \A o \in pairs : o[1] = p[1] => o = p}

\* _cache_entries: a table without columns is not shown, one join a pair.
Entries(f) ==
    LET seen == SelectSeq(f.tables, LAMBDA t : t.columns # {})
        last(r) == \A o \in ToSet(f.relations) :
                       (o.from = r.from /\ o.to = r.to) => o.nth <= r.nth
    IN [tables |-> seen, described |-> {t.key : t \in ToSet(f.tables)}, units |-> Units(f.tables),
        relations |-> {r \in ToSet(f.relations) : last(r)}]

Keys(c) == [i \in DOMAIN c.tables |-> c.tables[i].key]
Table(c, key) == CHOOSE t \in ToSet(c.tables) : t.key = key
\* table_datasource_sets
Placed(t) == IF t.sources = <<>> THEN <<Default>> ELSE t.sources

\* load_schema, _schema_cache; static_prefix and the guard are imported with it.
Load ==
    /\ cache = Nothing /\ Valid(file)
    /\ cache' = Entries(file) /\ bound' = ToSet(Keys(cache')) /\ guarded' = cache'.tables
    /\ UNCHANGED <<file, prefixes, preview, shown, asked, texts>>

\* schema_text_in_effect: another text for as long as the block runs.
BeginPreview ==
    /\ cache # Nothing /\ preview = Nothing /\ texts < MaxTexts
    /\ \E f \in Proposed :
         /\ Valid(f)
         /\ preview' = [cache |-> cache, bound |-> bound]
         /\ cache' = Entries(f) /\ bound' = ToSet(Keys(Entries(f))) /\ prefixes' = {}
    /\ shown' = Nothing /\ asked' = Nothing
    /\ UNCHANGED <<file, guarded, texts>>

\* The block ends or raises: either way the finally clauses run.
EndPreview ==
    /\ preview # Nothing
    /\ cache' = preview.cache /\ bound' = preview.bound /\ prefixes' = {} /\ preview' = Nothing
    /\ shown' = Nothing /\ asked' = Nothing   \* a text of the block stays in it
    /\ UNCHANGED <<file, guarded, texts>>

\* -------------------------------------------------------------------- texts
\* SchemaRegistry.tables_for_source
ForSource(c, source) ==
    SelectSeq(Keys(c), LAMBDA k : source = None \/ ~Several
                                  \/ source \in ToSet(Placed(Table(c, k))))

\* How the block tells to write a table: by its key, unless the name is shared
\* or the qualifier has several parts.
NeedsReference(c, k) ==
    \/ Len(Qualifier(Table(c, k))) > 1
    \/ Cardinality({o \in ToSet(Keys(c)) : Bare(o) = Bare(k)}) > 1
Written(c, k) ==
    IF NeedsReference(c, k) THEN Qualifier(Table(c, k)) \o <<Bare(k)>> ELSE k

\* get_relationships
Between(c, keys) == {r \in c.relations : {r.from, r.to} \subseteq keys}

\* build_schema_context
Block(c, selected, source) ==
    LET chosen == IF selected = <<>> THEN Keys(c) ELSE SelectSeq(selected, LAMBDA k : k \in ToSet(Keys(c)))
        scope == IF Several THEN source ELSE None
        keys == SelectSeq(chosen, LAMBDA k : k \in ToSet(ForSource(c, scope)))
        sets == {Placed(Table(c, k)) : k \in ToSet(keys)}
    IN [tables |-> keys, written |-> [k \in ToSet(keys) |-> Written(c, k)],
        rule |-> Several /\ scope = None /\ Cardinality(sets) > 1]

\* examples_for_source: a table nobody placed is the default source's.
RunsOn(c, e, source) ==
    \A k \in e.reads : IF k \in ToSet(Keys(c)) THEN source \in ToSet(Placed(Table(c, k)))
                       ELSE source = Default
ExamplesFor(c, source) ==
    {e \in ToSet(Examples) : source = None \/ ~Several \/ RunsOn(c, e, source)}

Text(path, block, relations, examples, session) ==
    [path |-> path, block |-> block, relations |-> relations, examples |-> examples,
     session |-> session]

\* build_static_prefix: everything of the source, or of the deployment.
Prefix(c, source) ==
    Text("static", Block(c, <<>>, source),
         Between(c, IF source = None THEN bound ELSE ToSet(ForSource(c, source))),
         ExamplesFor(c, source), TRUE)
Tokens(text) == FoldLeft(LAMBDA n, k : n + Size[k], 0, text.block.tables)

\* _build_retrieval: the retrieved tables of the source, or all of its tables.
Retrieval(c, selected, source) ==
    LET mine == SelectSeq(selected, LAMBDA k : k \in ToSet(ForSource(c, source)))
        tables == IF source = None THEN selected
                  ELSE IF mine # <<>> THEN mine ELSE ForSource(c, source)
    IN Text("retrieval", Block(c, tables, source), Between(c, ToSet(tables)),
            ExamplesFor(c, source), FALSE)

\* PromptBuilder.build: the static prefix while it fits the budget.  Retrieval
\* always brings a table.
Build ==
    /\ cache # Nothing /\ texts < MaxTexts /\ texts' = texts + 1
    /\ \E source \in (IF Several THEN ToSet(Sources) ELSE {}) \cup {None},
          wanted \in SUBSET cache.described \ {{}} :
         LET selected == SetToSeq(wanted)
             known == {p \in prefixes : p[1] = source}
             prefix == IF known # {} THEN (CHOOSE p \in known : TRUE)[2] ELSE Prefix(cache, source)
         IN /\ asked' = [source |-> source, selected |-> wanted]
            /\ prefixes' = IF Budget > 0 THEN prefixes \cup {<<source, prefix>>} ELSE prefixes
            /\ shown' = IF Budget > 0 /\ Tokens(prefix) <= Budget THEN prefix
                        ELSE Retrieval(cache, selected, source)
    /\ UNCHANGED <<file, cache, bound, guarded, preview>>

Init ==
    /\ file \in Files
    /\ cache = Nothing /\ bound = {} /\ guarded = <<>> /\ prefixes = {} /\ preview = Nothing
    /\ shown = Nothing /\ asked = Nothing /\ texts = 0

Next == Load \/ BeginPreview \/ EndPreview \/ Build

Spec == Init /\ [][Next]_vars

TypeOK ==
    /\ file \in Files /\ texts \in 0 .. MaxTexts
    /\ cache # Nothing => bound = ToSet(Keys(cache))
    /\ \A p \in prefixes : p[2].path = "static"

\* -------------------------------------------------------------- the guard
\* _build_schema_lookup, _match_table_ref: the table a name in SQL means.
Meant(ref) ==
    LET keys == {t \in ToSet(guarded) : Fold[Bare(t.key)] = Fold[Bare(ref)]}
        exact == {t \in keys : Lower(Qualifier(t)) = Lower(Front(ref))}
        loose == {t \in keys : Qualifier(t) = <<>>}
    IN CASE Len(ref) > 1 /\ exact # {} -> exact
         [] Len(ref) > 1 /\ exact = {} -> loose
         [] Len(ref) = 1 /\ Cardinality(keys) = 1 -> {t \in keys : Len(Qualifier(t)) <= 1}
         [] OTHER -> {}

\* -------------------------------------------------------------- properties
\* A table written the way the block shows it is that table to the guard,
\* whatever names tables share and however they are qualified
\* (registry.py:1311-1345, sql_guard.py:863-900).
ShownResolves ==
    (shown # Nothing /\ preview = Nothing /\ ToSet(shown.block.tables) \subseteq bound) =>
        \A k \in ToSet(shown.block.tables) : {t.key : t \in Meant(shown.block.written[k])} = {k}

\* A prompt for a source is of that source alone: its tables, joins between
\* tables it shows, examples that run there (builder.py:426-434,
\* source_scope.py:127-142); and of all of it when nothing was retrieved.
SourceAlone ==
    (shown # Nothing /\ asked.source # None) =>
        /\ \A r \in shown.relations : {r.from, r.to} \subseteq ToSet(shown.block.tables)
        /\ preview = Nothing =>
             /\ \A k \in ToSet(shown.block.tables) :
                    \A t \in ToSet(guarded) : t.key = k => asked.source \in ToSet(Placed(t))
             /\ (\E t \in ToSet(guarded) : asked.source \in ToSet(Placed(t)))
                    => (shown.block.tables # <<>> \/ ~(asked.selected \subseteq bound))

\* Two tables that no source has together are never shown without the rule
\* that one query has one source (registry.py:1363-1368).
RuleWhereNeeded ==
    (shown # Nothing /\ preview = Nothing) =>
        \A k, o \in ToSet(shown.block.tables) :
            (\A t, u \in ToSet(guarded) : (t.key = k /\ u.key = o) =>
                 ToSet(Placed(t)) \cap ToSet(Placed(u)) = {})
            => (~Several \/ shown.block.rule \/ k \notin bound \/ o \notin bound)

\* What the static path shows, the retrieval path shows a part of; the joins
\* that schema.yaml declares between two tables shown are there, on both
\* (static_prefix.py:170-175, builder.py:422-433).
JoinsShown ==
    (shown # Nothing /\ preview = Nothing /\ ToSet(shown.block.tables) \subseteq bound) =>
        \A r \in ToSet(file.relations) :
            ({r.from, r.to} \subseteq ToSet(shown.block.tables)) =>
                r \in shown.relations

\* A unit stands only where every table that gives the column a unit gives
\* that one (registry.py:865-872).
UnitsAgree ==
    cache # Nothing =>
        \A p \in cache.units : \A t \in ToSet(cache.tables) :
            p[1] \in DOMAIN t.units => t.units[p[1]] = p[2]

\* A text looked at before it is written leaves nothing behind: what is
\* remembered of a prompt is of the schema in force, before, within and after
\* the block (schema_preview.py:63-75).
RememberedIsCurrent ==
    /\ \A p \in prefixes : cache # Nothing /\ p[2] = Prefix(cache, p[1])
    /\ (cache # Nothing /\ preview = Nothing) => cache = Entries(file)

\* A schema that passes the checks before it is proposed declares joins of
\* tables it has: no join is dropped in silence (registry.py:1120-1123, 1433).
EndsKnown ==
    (cache # Nothing /\ preview = Nothing /\ ~Unsound(file)) =>
        \A r \in cache.relations : {r.from, r.to} \subseteq cache.described

RegistrySound ==
    /\ ShownResolves /\ SourceAlone /\ RuleWhereNeeded /\ JoinsShown /\ UnitsAgree
    /\ RememberedIsCurrent /\ EndsKnown
=============================================================================
