------------------------------- MODULE Drafting -------------------------------
(***************************************************************************)
(* database/schema_inspector_cli.py with schema_draft.py, schema_filter.py,  *)
(* catalogue.py, schema_inspector.py and schema_data/                        *)
(* relationship_proposals.py: the first schema.yaml, entities.yaml,          *)
(* aliases.yaml and relationships.yaml of an installation are drafted from   *)
(* the catalogues of its databases.                                         *)
(*                                                                          *)
(* A table is its location, <<schema, name>>; a pattern is what it matches,   *)
(* names are compared without their case, and types are families.           *)
(***************************************************************************)
EXTENDS Naturals, Sequences, FiniteSets, SequencesExt

CONSTANTS
    Order,        \* the data sources, the default one first
    Worlds,       \* the databases as they may be: [has, blind, keys, refers]
    Shape,        \* location -> its columns
    Family,       \* <<location, column>> -> the family of its type
    Stems,        \* column -> what its name says it is the ID of: [whole, ends]
    Commands,     \* the command lines
    Everywhere,   \* EXCLUDE_SCHEMAS and EXCLUDE_TABLES: [schemas, tables]
    Source,       \* source -> exclude_schemas, exclude_tables, keep_staging_schemas
    Staging,      \* STAGING_PATTERNS: [schemas, names]
    System,       \* the schemas of the server
    Unwritable,   \* names that cannot be written as a table key
    Protected,    \* directories a draft may not go to
    MaxRuns       \* bound

Sources == ToSet(Order)
Locations == DOMAIN Shape
Drafts == <<"entities", "aliases", "relationships", "schema">>
Files == ToSet(Drafts) \cup {"values"}
None == [is |-> "none"]

VARIABLES
    db,           \* what the databases hold
    run,          \* the run: [pc, command, at, kept, skipped, code]
    made,         \* what build_drafts returned, None before
    dir,          \* the output directory: which run wrote a file, 0 for none
    runs, asked   \* runs so far, and those that asked for values

vars == <<db, run, made, dir, runs, asked>>

\* ------------------------------------------------------------ the catalogue
\* read_catalogue: a login that sees no column of a table sees none of its keys.
Seen(s, l) == l \in db.has[s] /\ <<s, l>> \notin db.blind
ColumnsIn(s, l) == IF Seen(s, l) THEN Shape[l] ELSE {}
KeyIn(s, l) == IF Seen(s, l) THEN db.keys[l] ELSE <<>>
RefersIn(s, l) == {r \in db.refers : r.from = l /\ Seen(s, l) /\ Seen(s, r.to)}

\* -------------------------------------------------------------- what is left
\* table_is_excluded: a pattern with a dot is of the qualified name.
Matches(pattern, l) == IF Len(pattern) = 2 THEN l = pattern ELSE l[2] = pattern[1]
\* What is configured for all sources and for this one.
Configured(s) == Everywhere.schemas \cup Source[s].schemas
TableRules(s) == Everywhere.tables \cup Source[s].tables
\* schema_exclusion
Exclusion(c, s) ==
    [configured |-> Configured(s), cli |-> c.schemas, tables |-> TableRules(s), kept |-> Source[s].kept]
\* SchemaExclusion.reason
Reason(x, schema) ==
    CASE schema \in System -> "system"
      [] schema \in x.configured \ System -> "configured"
      [] schema \in x.cli \ (System \cup x.configured) -> "cli"
      [] OTHER -> "none"
\* doctor.is_staging
IsStaging(x, l) ==
    \/ l[1] \in Staging.schemas /\ l[1] \notin x.kept
    \/ l[2] \in Staging.names
\* select_tables: the first rule that applies.
RuleFor(c, x, l) ==
    IF Reason(x, l[1]) # "none" THEN Reason(x, l[1])
    ELSE IF c.include # {} /\ l[1] \notin c.include THEN "not-included"
    ELSE IF l[2] \in c.names THEN "exclude-tables"
    ELSE IF \E p \in x.tables : Matches(p, l) THEN "configured-tables"
    ELSE IF ~c.staging /\ IsStaging(x, l) THEN "staging"
    ELSE "none"

\* ------------------------------------------------------------ the new tables
First(S) == Order[CHOOSE i \in DOMAIN Order :
                     Order[i] \in S /\ \A j \in 1 .. i - 1 : Order[j] \notin S]
NamesOf(c) == IF c.url THEN {Order[1]} ELSE Sources        \* _resolve_sources
Several(c) == Cardinality(NamesOf(c)) > 1
Kept(kept) == UNION {kept[s] : s \in Sources}
Where(kept, l) == {s \in Sources : l \in kept[s]}
Merged(kept, l) == UNION {ColumnsIn(s, l) : s \in Where(kept, l)}
Shared(all, l) == \E k \in all \ {l} : k[2] = l[2]

\* table_key_for; <<>> when the name cannot be read back.
TableKey(l, qualified) ==
    IF l[2] \in Unwritable THEN <<>> ELSE IF qualified /\ l[1] # "" THEN l ELSE <<l[2]>>

\* draft_schema_text, _new_table_definition: sync_schema.py --add-tables '*'.
Entry(c, kept, l) ==
    LET key == TableKey(l, Shared(Kept(kept), l))
    IN [key |-> key, db |-> IF Len(key) = 2 THEN "" ELSE l[1], columns |-> Merged(kept, l),
        sources |-> IF Several(c) THEN Where(kept, l) ELSE {}]
\* _plan_new_tables: no column is seen, or the key cannot be written.
Skipped(kept, l) ==
    \/ Merged(kept, l) = {}
    \/ TableKey(l, Shared(Kept(kept), l)) = <<>>
Untold(kept) == {l \in Kept(kept) : Skipped(kept, l)}
Schema(c, kept) == {Entry(c, kept, l) : l \in Kept(kept) \ Untold(kept)}

\* table_location of a key, as the sync and the proposals read it.
Location(t) == IF Len(t.key) = 2 THEN t.key ELSE <<IF t.db = "" THEN "dbo" ELSE t.db, t.key[1]>>
Bare(t) == Last(t.key)
\* build_drafts: key_at, by the name and the qualifier.
KeyAt(schema, l) ==
    LET found == {t \in schema : Bare(t) = l[2] /\ l[1] = IF Len(t.key) = 2 THEN t.key[1] ELSE t.db}
    IN IF found = {} THEN <<>> ELSE (CHOOSE t \in found : TRUE).key

\* --------------------------------------------------------- the relationships
\* _locate: a table with columns that some source has where its key says.
Found(kept, t) == Where(kept, Location(t))
Located(kept, schema) == {t \in schema : Found(kept, t) # {}}
\* _make, _join_hint: what a proposal says; the sources only if there are several.
Proposal(c, t, column, to, ref, basis, sources) ==
    [from |-> Location(t), column |-> column, to |-> Location(to), ref |-> ref,
     basis |-> basis, sources |-> IF Several(c) THEN sources ELSE {}]

\* The declared keys of a table whose ends and columns the draft lists.
Covered(tables, kept, t) ==
    {p \in UNION {{<<r.column, to, r.ref, s>> : r \in RefersIn(s, Location(t)), to \in tables} : s \in Found(kept, t)} :
        \E r \in RefersIn(p[4], Location(t)) :
            /\ r.column = p[1] /\ r.to = Location(p[2]) /\ r.ref = p[3]
            /\ r.column \in t.columns /\ r.ref \in p[2].columns}
Declared(c, tables, kept, t) ==
    {Proposal(c, t, p[1], p[2], p[3], "declared",
              {q[4] : q \in {q \in Covered(tables, kept, t) : <<q[1], q[2], q[3]>> = <<p[1], p[2], p[3]>>}}) :
        p \in Covered(tables, kept, t)}

\* _infer, the pool: the table of that very name, else the longest ending.
Pool(tables, column) ==
    LET named(n) == {t \in tables : Bare(t) = n}
        ends == Stems[column].ends
        first == {i \in DOMAIN ends : named(ends[i]) # {} /\ \A j \in 1 .. i - 1 : named(ends[j]) = {}}
    IN IF named(Stems[column].whole) # {}
       THEN [how |-> "exact", of |-> named(Stems[column].whole)]
       ELSE [how |-> "suffix", of |-> UNION {named(ends[i]) : i \in first}]

\* _infer: the tables left when the rules have taken out the others.
Nearest(pool, kept, t) ==
    LET near == {x \in pool.of : Found(kept, x) \cap Found(kept, t) # {}}
    IN IF Cardinality(near) <= 1 THEN near ELSE {x \in near : Location(x)[1] = Location(t)[1]}
\* _infer: the column of the target, its key or one that is named like an ID.
TargetColumn(kept, t, x) ==
    LET s == First(Found(kept, t) \cap Found(kept, x))
        key == KeyIn(s, Location(x))
    IN IF Len(key) > 1 THEN "none"
       ELSE IF key # <<>> THEN key[1]
       ELSE IF "ID" \in ColumnsIn(s, Location(x)) THEN "ID" ELSE "none"
Inferred(c, tables, kept, t) ==
    LET s == First(Found(kept, t))
        free == (ColumnsIn(s, Location(t)) \cap t.columns \cap DOMAIN Stems)
                   \ ({p[1] : p \in Covered(tables, kept, t)} \cup {"ID"})
    IN UNION {LET pool == Pool(tables, column)
                  near == IF pool.how = "exact" /\ t \in pool.of THEN {} ELSE Nearest(pool, kept, t)
              IN {Proposal(c, t, column, x, TargetColumn(kept, t, x),
                           IF pool.how = "exact" /\ KeyIn(First(Found(kept, t) \cap Found(kept, x)), Location(x)) # <<>>
                           THEN "high" ELSE "medium", Found(kept, t) \cap Found(kept, x)) :
                      x \in {x \in near : /\ Cardinality(near) = 1
                                          /\ TargetColumn(kept, t, x) \in x.columns
                                          /\ Family[<<Location(t), column>>]
                                               = Family[<<Location(x), TargetColumn(kept, t, x)>>]}} :
              column \in free}
\* propose_relationships
Propose(c, kept, schema) ==
    LET tables == Located(kept, schema)
    IN UNION {Declared(c, tables, kept, t) \cup Inferred(c, tables, kept, t) : t \in tables}

\* --------------------------------------------------------------- the drafts
\* _fetch_samples: of text columns, from the first source that has the table.
Sampled(kept, schema) ==
    {l \in Kept(kept) : KeyAt(schema, l) # <<>>
        /\ \E column \in ColumnsIn(First(Where(kept, l)), l) : Family[<<l, column>>] = "text"}
\* draft_entities_yaml: the key of the schema draft, else the bare name.
Entities(c, kept, schema) ==
    {[key |-> IF KeyAt(schema, l) = <<>> THEN <<l[2]>> ELSE KeyAt(schema, l), at |-> l,
      sources |-> IF Several(c) THEN Where(kept, l) ELSE {},
      refers |-> {<<r.column, r.to>> : r \in RefersIn(First(Where(kept, l)), l)}] : l \in Kept(kept)}
\* _relationships_block: those whose two ends have a key.
Inline(schema, links) ==
    {<<KeyAt(schema, p.from), KeyAt(schema, p.to), p>> :
        p \in {p \in links : KeyAt(schema, p.from) # <<>> /\ KeyAt(schema, p.to) # <<>>}}

\* describe_skipped: per rule, the tables of all sources and their schemas.
Rules == {"system", "configured", "cli", "not-included", "exclude-tables", "configured-tables", "staging"}
Summary(skipped) ==
    [r \in Rules |->
       [tables |-> Cardinality({p \in UNION {skipped[s] \X {s} : s \in Sources} : p[1][1] = r}),
        schemas |-> Cardinality({p[2][1] : p \in {p \in UNION {skipped[s] : s \in Sources} : p[1] = r}})]]

\* _legacy_table gives no values, so that no file but the review has one.
\* build_drafts, with its tables, links and texts
Build(c, kept) ==
    LET schema == Schema(c, kept)
        links == Propose(c, kept, schema)
    IN [schema |-> schema, summary |-> Summary(run.skipped), untold |-> Untold(kept), entities |-> Entities(c, kept, schema),
        links |-> links, inline |-> Inline(schema, links),
        values |-> IF c.values THEN Sampled(kept, schema) ELSE {}]

\* -------------------------------------------------------------- the command
Nothing == [s \in Sources |-> {}]
Idle == [pc |-> "idle", command |-> None, at |-> 1, kept |-> Nothing, skipped |-> Nothing, code |-> 0]
Init == /\ db \in Worlds /\ run = Idle /\ made = None
        /\ dir = [f \in Files |-> 0] /\ runs = 0 /\ asked = {}

\* _guard_output_dir, _resolve_sources
Refused(c) == c.dir \in Protected \/ (c.url /\ c.only # {}) \/ ~(c.only \subseteq Sources)
\* main, to the first source.
Start(c) ==
    /\ run.pc = "idle" /\ runs < MaxRuns /\ runs' = runs + 1 /\ made' = None
    /\ run' = [Idle EXCEPT !.command = c,
                 !.pc = IF Refused(c) THEN "idle" ELSE "read", !.code = IF Refused(c) THEN 2 ELSE 0]
    /\ asked' = IF c.values THEN asked \cup {runs'} ELSE asked
    /\ UNCHANGED <<db, dir>>

Openers(c) == SelectSeq(Order, LAMBDA s : s \in IF c.url THEN {Order[1]}
                                                ELSE IF c.only = {} THEN Sources ELSE c.only)
\* read_selected
Read ==
    /\ run.pc = "read" /\ run.at <= Len(Openers(run.command))
    /\ LET s == Openers(run.command)[run.at]
           x == Exclusion(run.command, s)
       IN run' = [run EXCEPT !.at = @ + 1,
                    !.kept[s] = {l \in db.has[s] : RuleFor(run.command, x, l) = "none"},
                    !.skipped[s] = {<<RuleFor(run.command, x, l), l>> :
                                       l \in {l \in db.has[s] : RuleFor(run.command, x, l) # "none"}}]
    /\ UNCHANGED <<db, made, dir, runs, asked>>

\* A source that does not answer, or whose configuration is wrong.
ReadFails(code) ==
    /\ run.pc = "read" /\ run.at <= Len(Openers(run.command))
    /\ run' = [run EXCEPT !.pc = "idle", !.code = code]
    /\ UNCHANGED <<db, made, dir, runs, asked>>

BuildDrafts ==
    /\ run.pc = "read" /\ run.at > Len(Openers(run.command))
    /\ \E d \in {Build(run.command, run.kept)} : made' = d
    /\ run' = [run EXCEPT !.pc = IF run.command.dry THEN "idle" ELSE "write", !.at = 1]
    /\ UNCHANGED <<db, dir, runs, asked>>

\* _write_or_print, one file after another; the values last.
Write ==
    /\ run.pc = "write" /\ run.at <= Len(Drafts)
    /\ dir' = [dir EXCEPT ![Drafts[run.at]] = runs]
    /\ run' = [run EXCEPT !.at = @ + 1,
                 !.pc = IF run.at = Len(Drafts) /\ ~run.command.values THEN "idle" ELSE @]
    /\ UNCHANGED <<db, made, runs, asked>>
WriteValues ==
    /\ run.pc = "write" /\ run.at > Len(Drafts)
    /\ dir' = [dir EXCEPT !["values"] = runs]
    /\ run' = [run EXCEPT !.pc = "idle"]
    /\ UNCHANGED <<db, made, runs, asked>>
WriteFails ==
    /\ run.pc = "write" /\ run' = [run EXCEPT !.pc = "idle", !.code = 1]
    /\ UNCHANGED <<db, made, dir, runs, asked>>

Next ==
    \/ \E c \in Commands : Start(c)
    \/ Read \/ (\E code \in {1, 2} : ReadFails(code))
    \/ BuildDrafts \/ Write \/ WriteValues \/ WriteFails
Spec == Init /\ [][Next]_vars

TypeOK ==
    /\ db \in Worlds /\ dir \in [Files -> 0 .. MaxRuns] /\ runs \in 0 .. MaxRuns
    /\ run.pc \in {"idle", "read", "write"} /\ run.code \in 0 .. 2
    /\ run.kept \in [Sources -> SUBSET Locations] /\ asked \subseteq 1 .. MaxRuns

\* --------------------------------------------------------------- properties
\* What a rule leaves out, whatever the order of the rules.
LeftOut(c, s, l) ==
    \/ l[1] \in System \cup Everywhere.schemas \cup Source[s].schemas \cup c.schemas
    \/ c.include # {} /\ l[1] \notin c.include
    \/ l[2] \in c.names
    \/ \E p \in Everywhere.tables \cup Source[s].tables : Matches(p, l)
    \/ ~c.staging /\ (l[2] \in Staging.names \/ (l[1] \in Staging.schemas /\ l[1] \notin Source[s].kept))
ReadBy(c) == ToSet(Openers(c))

\* A table is in the draft of the schema, or the summary says why it is not,
\* exactly if a source that was read has it and no rule of that source leaves
\* it out; its `datasource:` lists those sources and no other.  The summary
\* counts every table left out once, and under a rule that does leave it out
\* (schema_draft.select_tables, describe_skipped, build_drafts).
DraftedAsRuled ==
    made # None =>
        LET c == run.command
            due == [l \in Locations |-> {s \in ReadBy(c) : l \in db.has[s] /\ ~LeftOut(c, s, l)}]
        IN /\ \A l \in Locations :
                (KeyAt(made.schema, l) # <<>> \/ l \in made.untold) <=> due[l] # {}
           /\ \A t \in made.schema, l \in Locations :
                (KeyAt(made.schema, l) = t.key /\ Several(c)) => t.sources = due[l]
           /\ \A r \in Rules :
                made.summary[r].tables =
                    Cardinality({x \in ReadBy(c) \X Locations :
                        x[2] \in db.has[x[1]] /\ LeftOut(c, x[1], x[2]) /\ <<r, x[2]>> \in run.skipped[x[1]]})
           /\ \A s \in ReadBy(c) : {p[2] : p \in run.skipped[s]} = {l \in db.has[s] : LeftOut(c, s, l)}
           /\ {e.at : e \in made.entities} = {l \in Locations : due[l] # {}}

\* Two tables never share a key: a name that several schemas have is written
\* with its schema, and what a key names is the table it was drafted from.  The
\* two drafts call a table by one key (registry.table_key_for,
\* schema_draft.build_drafts).
KeysMeanTables ==
    made # None =>
        /\ \A t, u \in made.schema : t # u => t.key # u.key /\ (Bare(t) = Bare(u) => Len(t.key) = 2)
        /\ \A l, k \in Locations :
             (KeyAt(made.schema, l) # <<>> /\ KeyAt(made.schema, l) = KeyAt(made.schema, k)) => l = k
        /\ \A e \in made.entities : \A f \in made.entities \ {e} : e.key # f.key

\* A link is between two drafted tables that a query can join: one source was
\* read to have both, and the key of a declared one is in that source.  A column has one
\* target, the one the database declares if there is one; a guess is of like
\* types and never of a table's own key; and a key that is declared between two
\* drafted tables is not lost (relationship_proposals.propose_relationships).
LinksHold ==
    made # None =>
        LET c == run.command
            in(l) == Where(run.kept, l)
        IN /\ \A p \in made.links :
                /\ KeyAt(made.schema, p.from) # <<>> /\ KeyAt(made.schema, p.to) # <<>>
                /\ in(p.from) \cap in(p.to) # {}
                /\ p.sources \subseteq in(p.from)
                /\ p.basis # "declared" =>
                     /\ p.from # p.to
                     /\ Family[<<p.from, p.column>>] = Family[<<p.to, p.ref>>]
                     /\ \A s \in in(p.from) : ~\E r \in RefersIn(s, p.from) :
                          r.column = p.column /\ KeyAt(made.schema, r.to) # <<>>
                /\ \A q \in made.links :
                     (p.from = q.from /\ p.column = q.column /\ p.basis # "declared") => p = q
           /\ \A s \in ReadBy(c) : \A l \in run.kept[s] : \A r \in RefersIn(s, l) :
                (KeyAt(made.schema, l) # <<>> /\ KeyAt(made.schema, r.to) # <<>>) =>
                    \E p \in made.links : /\ p.from = l /\ p.column = r.column /\ p.to = r.to
                                          /\ p.basis = "declared"
           /\ {x[3] : x \in made.inline} = made.links

\* What a later sync_schema.py --check finds is what the draft says: it finds
\* every table, in the sources of its `datasource:` line, but for a source that
\* was not read or whose own rules left the table out (schema_draft.py:545).
LaterSyncAgrees ==
    made # None =>
        LET c == run.command
        IN \A t \in made.schema :
             LET now == {s \in NamesOf(c) : Location(t) \in db.has[s]}
             IN /\ now # {}
                /\ Several(c) => \A s \in now \ t.sources : s \notin ReadBy(c) \/ LeftOut(c, s, Location(t))

\* A value read from a row is in no file but the review's, which is there only
\* if a run asked for it (schema_draft._legacy_table, _sample_review_yaml).
ValuesInReviewOnly ==
    /\ dir["values"] # 0 => dir["values"] \in asked
    /\ (made # None /\ made.values # {}) => run.command.values
    /\ made # None => \A l \in made.values : KeyAt(made.schema, l) # <<>>

\* A run that ends well leaves the drafts of that run and no other: what an
\* earlier one wrote, cut short or not, is all replaced; only its review file
\* stays if this run wrote none (schema_inspector_cli.main).
DraftsOfOneRun ==
    (run.pc = "idle" /\ made # None /\ run.code = 0 /\ ~run.command.dry) =>
        /\ \A f \in ToSet(Drafts) : dir[f] = runs
        /\ dir["values"] = runs <=> run.command.values
DraftingSound ==
    /\ DraftedAsRuled /\ KeysMeanTables /\ LinksHold
    /\ LaterSyncAgrees /\ ValuesInReviewOnly /\ DraftsOfOneRun
=============================================================================
