---------------------------- MODULE WizardTables ----------------------------
(***************************************************************************)
(* setup_project.py, step 2 and what it makes of an earlier run's files      *)
(* (with core/wizard_drafts.py and database/schema_inspector.py): the wizard  *)
(* lists the tables of every data source, leaves out those a rule or the      *)
(* operator names, reads the others, and merges the draft of their entities,  *)
(* rules and links into the files of the output directory.                   *)
(*                                                                          *)
(* A table is its location, <<schema, name>>; a key is <<name>> or            *)
(* <<schema, name>>; names are compared without their case.  A link is of one  *)
(* column.  What the models write of a table is left out, but for whether     *)
(* there is any.  Wizard has the log and the order of the steps.              *)
(***************************************************************************)
EXTENDS Naturals, Sequences, FiniteSets, SequencesExt, FiniteSetsExt

CONSTANTS
    Order,        \* the data sources of datasources.yaml
    Schemas,      \* the schemas of each, some without a table
    Worlds,       \* source -> its tables, as they may be
    Refers,       \* declared foreign keys: [from, to]
    Guesses,      \* pairs of tables that their column names suggest: [from, to]
    Facts,        \* tables that get a rule
    Source,       \* source -> exclude_schemas, exclude_tables, keep_staging_schemas
    Staging,      \* STAGING_PATTERNS: [schemas, names]
    System,       \* the schemas of the server
    Commands,     \* the command lines: [include, schemas, staging, asks, fresh]
    Answers,      \* schemas an operator leaves out when asked
    Leaves,       \* names of tables an operator leaves out when asked
    Own,          \* a key that an operator may choose for an entity
    Bare,         \* entities of an older draft, without their schema
    Few,          \* _FEW_FK_TABLES_PER_FK
    MaxRuns, MaxDrifts, MaxEdits   \* bounds

Sources == ToSet(Order)
Locations == UNION {world[s] : world \in Worlds, s \in Sources}
Files == <<"entities", "rules", "links">>

VARIABLES
    db,        \* what the databases hold
    recorded,  \* source -> the schemas recorded in its exclude_schemas
    dir,       \* the output directory
    run,       \* the run
    torn,      \* history: the files of the directory are not of one run
    runs, drifts, edits

vars == <<db, recorded, dir, run, torn, runs, drifts, edits>>

\* ------------------------------------------------------------- what is read
\* The tables listed, within --include-schemas.
Selected(c, found) == {l \in found : c.include = {} \/ l[1] \in c.include}
\* SchemaExclusion.reason, or the operator's answer.
SchemaOut(c, s, noted, schema) == schema \in System \cup Source[s].schemas \cup c.schemas \cup noted
\* SchemaExclusion.table_excluded, _is_staging
Matches(pattern, l) == IF Len(pattern) = 2 THEN l = pattern ELSE l[2] = pattern[1]
TableOut(c, s, l) ==
    \/ \E p \in Source[s].tables : Matches(p, l)
    \/ ~c.staging /\ (l[2] \in Staging.names \/ (l[1] \in Staging.schemas /\ l[1] \notin Source[s].kept))

\* MUTANT: a name is left out of the inspection though another schema has it.
PlanByName(c, s, noted, found) ==
    LET left == {l \in Selected(c, found) : ~SchemaOut(c, s, noted, l[1])}
        staged == {l \in left : TableOut(c, s, l)}
        unread == {l \in left : \A k \in left : k[1] = l[1] => k \in staged}
    IN [schemas |-> {l[1] : l \in left \ unread}, names |-> {l[2] : l \in staged \ unread},
        counted |-> (Selected(c, found) \ left) \cup staged]
\* _plan_reading: a schema of which nothing is left is not read; a name that a
\* rule leaves out is, as far as one table has it.
Plan(c, s, noted, found) ==
    LET left == {l \in Selected(c, found) : ~SchemaOut(c, s, noted, l[1])}
        staged == {l \in left : TableOut(c, s, l)}
        unread == {l \in left : \A k \in left : k[1] = l[1] => k \in staged}
        named == {l \in staged \ unread : \A k \in left \ {l} : k[2] # l[2]}
    IN [schemas |-> {schema \in Schemas : /\ c.include = {} \/ schema \in c.include
                                          /\ ~SchemaOut(c, s, noted, schema)
                                          /\ schema \notin {l[1] : l \in unread}},
        names |-> {l[2] : l \in named},
        counted |-> (Selected(c, found) \ left) \cup unread \cup named]

\* ------------------------------------------------------------------ the keys
\* An entity is [key, schema, table, sources, full, of]; `of` is the table it
\* was drafted from, and is in no file.
Place(e) == <<e.schema, e.table>>
Keys(entries) == {e.key : e \in entries}
Qualifier(key) == IF Len(key) = 2 THEN key[1] ELSE ""
\* _resolve_entity_schemas
Resolved(tables, entities) ==
    LET has(name) == {l[1] : l \in {t \in tables : t[2] = name}}
        at(e) == CASE e.schema # "" -> e.schema
                   [] e.schema = "" /\ Qualifier(e.key) # "" -> Qualifier(e.key)
                   [] OTHER -> IF Cardinality(has(e.table)) = 1 THEN CHOOSE x \in has(e.table) : TRUE ELSE ""
    IN {[e EXCEPT !.schema = at(e)] : e \in entities}
\* _TableNamer of the tables read and those of the earlier entities.
Known(tables, entities) == tables \cup {Place(e) : e \in entities}
KeyOf(known, l) ==
    IF l[1] # "" /\ \E k \in known : k[2] = l[2] /\ k[1] # l[1] THEN l ELSE <<l[2]>>
Ref(known, schema, name) ==
    LET same == {k \in known : k[2] = name}
    IN IF <<schema, name>> \in known THEN KeyOf(known, <<schema, name>>)
       ELSE IF schema # "" THEN <<schema, name>>
       ELSE IF Cardinality(same) = 1 THEN KeyOf(known, CHOOSE k \in same : TRUE)
       ELSE <<name>>
\* _rekey_map: a key an operator chose stays.
Rename(known, entities, rules) ==
    [key \in Keys(entities) \cup Keys(rules) |->
       IF key \in Keys(entities)
       THEN LET e == CHOOSE e \in entities : e.key = key
            IN IF key \in {<<e.table>>, Place(e)} THEN KeyOf(known, Place(e)) ELSE key
       ELSE Ref(known, Qualifier(key), Last(key))]
To(rename, key) == IF key \in DOMAIN rename THEN rename[key] ELSE key

\* ----------------------------------------------------------------- the merge
\* _combine_entities: what several entries of a table say together.
Combined(keeper, group) ==
    LET told == {e \in group : e.schema # ""}
    IN [keeper EXCEPT !.sources = UNION {e.sources : e \in group}, !.full = \E e \in group : e.full,
                      !.schema = IF @ = "" /\ told # {} THEN (CHOOSE e \in told : TRUE).schema ELSE @]
\* collapse_same_key: entries that get one key become one.
Collapsed(entities, rename) ==
    {LET group == {e \in entities : To(rename, e.key) = key}
         own == {e \in group : e.key = key}
         keeper == CHOOSE e \in IF own # {} THEN own ELSE group : TRUE
     IN [Combined(keeper, group) EXCEPT !.key = key] : key \in {To(rename, e.key) : e \in entities}}
\* hold_back_empty: a new entry that says less than the earlier one.
Held(earlier, e) == \E o \in earlier : o.key = e.key /\ o.full /\ ~e.full
\* render of entities.yaml with merge_mapping: the new entry
\* replaces the earlier one, unless it says less; of one table they keep the
\* sources of both.
MergedEntities(earlier, fresh) ==
    LET both(e, o) == [e EXCEPT !.sources = IF Place(e) = Place(o) THEN @ \cup o.sources ELSE @]
    IN {LET n == {e \in fresh : e.key = o.key}
        IN IF n = {} THEN o ELSE LET e == CHOOSE e \in n : TRUE
                                 IN IF Held(earlier, e) THEN both(o, e) ELSE both(e, o)
        : o \in earlier} \cup {e \in fresh : e.key \notin Keys(earlier)}
\* merge_mapping of business_rules.yaml
MergedRules(earlier, fresh, rename) ==
    LET old == {[r EXCEPT !.key = To(rename, r.key)] : r \in earlier}
    IN fresh \cup {r \in old : r.key \notin Keys(fresh)}
\* merge_relationships: a suggested link does not replace one that is not.
Ends(k) == {k.from, k.to}
MergedLinks(earlier, fresh, rename) ==
    LET old == [i \in DOMAIN earlier |-> [earlier[i] EXCEPT !.from = To(rename, @), !.to = To(rename, @)]]
        add(links, k) ==
            LET at == {i \in DOMAIN links : Ends(links[i]) = Ends(k)}
            IN IF at = {} THEN Append(links, k)
               ELSE IF k.inferred /\ ~links[Min(at)].inferred THEN links
               ELSE [links EXCEPT ![Min(at)] = k]
    IN FoldLeft(add, old, fresh)

\* _Link
Link(known, r, inferred) ==
    [from |-> Ref(known, r.from[1], r.from[2]), to |-> Ref(known, r.to[1], r.to[2]),
     inferred |-> inferred, of |-> <<r.from, r.to>>]
Declared(known, refers) == {Link(known, r, FALSE) : r \in refers}
\* _inferred_links: of the tables read, and of no pair that is declared.
Inferred(known, tables, declared) ==
    LET guessed == {g \in Guesses : {g.from, g.to} \subseteq tables}
    IN {k \in {Link(known, g, TRUE) : g \in guessed} : \A d \in declared : Ends(d) # Ends(k)}
\* _collect_links: guesses are added where the database declares few.
Links(known, tables, refers) ==
    LET declared == Declared(known, refers)
        few == tables # {} /\ Cardinality(declared) < Max({1, Cardinality(tables) \div Few})
    IN SetToSeq(declared) \o IF few THEN SetToSeq(Inferred(known, tables, declared)) ELSE <<>>

\* The tables of all sources together; a table is in the sources it was read from.
Tables(read) == UNION {read[s] : s \in Sources}
Without(refers, drop) == {r \in refers : {r.from, r.to} \cap drop = {}}   \* _drop_tables
\* Steps 3 and 4, and the files as step 6 renders them.
Made(had, read, refers, full) ==
    LET tables == Tables(read)
        entities == Resolved(tables, had.entities)
        known == Known(tables, entities)
        rename == Rename(known, entities, had.rules)
        fresh == {[key |-> KeyOf(known, l), schema |-> l[1], table |-> l[2], full |-> full, of |-> l,
                   sources |-> {s \in Sources : l \in read[s]}] : l \in tables}
    IN [entities |-> MergedEntities(Collapsed(entities, rename), fresh),
        rules |-> MergedRules(had.rules, {[key |-> KeyOf(known, l), of |-> l] : l \in Facts \cap tables}, rename),
        links |-> MergedLinks(had.links, Links(known, tables, refers), rename)]

\* ------------------------------------------------------------------- the run
Nothing == [s \in Sources |-> {}]
Empty == [entities |-> {}, rules |-> {}, links |-> <<>>]
NoCommand == [include |-> {}, schemas |-> {}, staging |-> FALSE, asks |-> FALSE, fresh |-> FALSE]
Idle == [pc |-> "idle", command |-> NoCommand, had |-> Empty, listed |-> Nothing, known |-> Nothing,
         chosen |-> {}, said |-> FALSE, read |-> Nothing, counted |-> [s \in Sources |-> [l \in Locations |-> 0]],
         refers |-> {}, dropped |-> {}, made |-> Empty, written |-> {}, at |-> 1, steady |-> TRUE]
Init == /\ db \in Worlds /\ recorded = Nothing /\ run = Idle /\ torn = FALSE
        /\ dir \in {[Empty EXCEPT !.entities = entities] : entities \in {{}, Bare}}
        /\ runs = 0 /\ drifts = 0 /\ edits = 0

Noted(s) == run.known[s] \cup run.chosen
\* _list_engine_tables, _read_existing
Listed == db
Existing(c) == IF c.fresh THEN Empty ELSE dir
PlanOf(s) == Plan(run.command, s, Noted(s), run.listed[s])
Once(S) == [l \in Locations |-> IF l \in S THEN 1 ELSE 0]

\* main reads the files, step1_sources finds the sources, step2_schema their
\* rules and their tables.
Begin(c) ==
    /\ run.pc = "idle" /\ runs < MaxRuns /\ runs' = runs + 1
    /\ run' = [Idle EXCEPT !.pc = IF c.asks THEN "ask" ELSE "inspect", !.command = c,
                 !.had = Existing(c), !.listed = Listed, !.known = recorded,
                 !.counted = [s \in Sources |-> Once(Plan(c, s, recorded[s], db[s]).counted)]]
    /\ UNCHANGED <<db, recorded, dir, torn, drifts, edits>>

\* The operator names schemas, which _record_choice writes to the sources that
\* would have been read from them, if it may and can.
Answer(schemas, record) ==
    /\ run.pc = "ask" /\ (record => schemas # {})
    /\ run' = [run EXCEPT !.pc = "inspect", !.chosen = schemas, !.said = record,
                 !.counted = [s \in Sources |->
                     Once(Plan(run.command, s, run.known[s] \cup schemas, run.listed[s]).counted)]]
    /\ recorded' = IF record THEN [s \in Sources |-> recorded[s] \cup (schemas \cap PlanOf(s).schemas)]
                   ELSE recorded
    /\ UNCHANGED <<db, dir, torn, runs, drifts, edits>>

\* _skip_tables: what a rule leaves out though it was read.
Skipped(s, found) == {l \in found : TableOut(run.command, s, l)}
\* SchemaInspector.inspect of one source; one with no schema left is not read.
Inspect ==
    /\ run.pc = "inspect" /\ run.at <= Len(Order)
    /\ LET s == Order[run.at]
           found == {l \in db[s] : l[1] \in PlanOf(s).schemas /\ l[2] \notin PlanOf(s).names}
           skipped == Skipped(s, found)
       IN run' = [run EXCEPT !.at = @ + 1, !.read[s] = found \ skipped,
                    !.counted[s] = [l \in Locations |-> @[l] + Once(skipped)[l]],
                    !.refers = @ \cup {r \in Refers : r.from \in found \ skipped /\ r.to \in db[s] \ skipped}]
    /\ UNCHANGED <<db, recorded, dir, torn, runs, drifts, edits>>

\* The tables of all sources together (_combine_snapshots); the operator leaves
\* some out, each counted for the first source that has it.  Then the keys are
\* found and the models asked.
LeaveOut(names, full) ==
    /\ run.pc = "inspect" /\ run.at > Len(Order) /\ (names # {} => run.command.asks)
    /\ LET tables == Tables(run.read)
           drop == {l \in tables : l[2] \in names}
           first(l) == Order[Min({i \in DOMAIN Order : l \in run.read[Order[i]]})]
           read == [s \in Sources |-> run.read[s] \ drop]
           refers == Without(run.refers, drop)
       IN \E made \in {Made(run.had, read, refers, full)} :
            run' = [run EXCEPT !.pc = "write", !.at = 1, !.read = read, !.refers = refers, !.made = made,
                      !.dropped = drop,
                      !.counted = [s \in Sources |-> [l \in Locations |->
                          @[s][l] + IF l \in drop /\ first(l) = s THEN 1 ELSE 0]]]
    /\ UNCHANGED <<db, recorded, dir, torn, runs, drifts, edits>>

Torn(written) == torn \/ (written # {} /\ written # ToSet(Files))
\* step6_review_and_write: a file is accepted or passed over.
Review(f, accept) ==
    /\ run.pc = "write" /\ run.at <= Len(Files) /\ f = Files[run.at]
    /\ dir' = IF accept THEN [dir EXCEPT ![f] = run.made[f]] ELSE dir
    /\ LET written == IF accept THEN run.written \cup {f} ELSE run.written
       IN IF run.at < Len(Files) THEN run' = [Idle EXCEPT !.pc = "write", !.made = run.made, !.at = run.at + 1, !.written = written]
                                   /\ UNCHANGED torn
          ELSE run' = Idle /\ torn' = Torn(written)
    /\ UNCHANGED <<db, recorded, runs, drifts, edits>>

\* A source does not answer, a model does not, or the operator stops the run.
Stop ==
    /\ run.pc # "idle" /\ run' = Idle /\ torn' = Torn(run.written)
    /\ UNCHANGED <<db, recorded, dir, runs, drifts, edits>>

\* The tables of the databases change.
Drift(world) ==
    /\ drifts < MaxDrifts /\ drifts' = drifts + 1 /\ world # db /\ db' = world
    /\ run' = IF run.pc \in {"ask", "inspect"} THEN [run EXCEPT !.steady = FALSE] ELSE run
    /\ UNCHANGED <<recorded, dir, torn, runs, edits>>

\* An operator gives an entity a key of its own.
Edit(e) ==
    /\ run.pc = "idle" /\ edits < MaxEdits /\ edits' = edits + 1
    /\ Own \notin Keys(dir.entities)
    /\ dir' = [dir EXCEPT !.entities = (@ \ {e}) \cup {[e EXCEPT !.key = Own]}]
    /\ UNCHANGED <<db, recorded, run, torn, runs, drifts>>

Next ==
    \/ \E c \in Commands : Begin(c)
    \/ \E schemas \in Answers, record \in BOOLEAN : Answer(schemas, record)
    \/ Inspect
    \/ \E names \in Leaves, full \in BOOLEAN : LeaveOut(names, full)
    \/ \E f \in ToSet(Files), accept \in BOOLEAN : Review(f, accept)
    \/ Stop
    \/ \E world \in Worlds : Drift(world)
    \/ \E e \in dir.entities : Edit(e)
Spec == Init /\ [][Next]_vars

TypeOK ==
    /\ db \in Worlds /\ recorded \in [Sources -> SUBSET Schemas]
    /\ run.pc \in {"idle", "ask", "inspect", "write"} /\ run.read \in [Sources -> SUBSET Locations]
    /\ torn \in BOOLEAN /\ runs \in 0 .. MaxRuns /\ drifts \in 0 .. MaxDrifts /\ edits \in 0 .. MaxEdits
    /\ \A s \in Sources : \A l \in Locations : run.counted[s][l] \in 0 .. 2

\* --------------------------------------------------------------- properties
Drafted == run.pc = "write" /\ run.at = 1
\* What the rules and the answers of this run leave out of a source.
LeftOut(s, l) ==
    \/ run.command.include # {} /\ l[1] \notin run.command.include
    \/ SchemaOut(run.command, s, Noted(s), l[1]) \/ TableOut(run.command, s, l) \/ l \in run.dropped

\* Whatever happens to the databases between the listing and the reading, a
\* table that a rule or the operator leaves out is not drafted; and while they
\* stay as they are, every other one that was listed is: a table of its name
\* that is left out does not take it along (_plan_reading,
\* SchemaInspector.inspect, _skip_tables, _drop_tables).
ReadAsRuled ==
    Drafted =>
        \A s \in Sources : \A l \in Locations :
            /\ l \in run.read[s] => ~LeftOut(s, l)
            /\ (l \in run.listed[s] /\ run.steady /\ ~LeftOut(s, l)) => l \in run.read[s]

\* While the databases stay as they are, the report of what was skipped counts
\* every listed table that is not drafted once, and no other; a table of two
\* sources that the operator leaves out by name counts for the first of them
\* (SkipReport, over the plan, the inspection and the last question).
CountedOnce ==
    (Drafted /\ run.steady) =>
        \A s \in Sources : \A l \in Selected(run.command, run.listed[s]) :
            IF l \in run.read[s] THEN run.counted[s][l] = 0
            ELSE IF l \in run.dropped
            THEN {t \in Sources : run.counted[t][l] = 1 /\ ~TableOut(run.command, t, l)} # {}
            ELSE run.counted[s][l] = 1

\* What the operator left out and had recorded is left out by the next run, and
\* nothing else is: under the same command and no answer it plans to read the
\* same tables (_record_choice, which looks at the plan before the answer).
RecordedHolds ==
    (run.pc = "inspect" /\ run.at = 1 /\ run.said) =>
        \A s \in Sources : Plan(run.command, s, recorded[s], run.listed[s]).schemas = PlanOf(s).schemas

\* A merge loses nothing of the earlier run: the table of every entity that
\* says its schema has an entity still, with its sources; what a rule or a link
\* was about has one still; and an entity without a schema is not left beside
\* the one of the only table it can be (_resolve_entity_schemas,
\* _collapse_existing, render in step6).
MergeKeeps ==
    Drafted =>
        /\ \A e \in run.had.entities : e.schema # "" =>
             \E o \in run.made.entities : Place(o) = Place(e) /\ e.sources \subseteq o.sources /\ (e.full => o.full)
        /\ \A e \in run.made.entities : e.schema = "" =>
             Cardinality({l \in Tables(run.read) : l[2] = e.table}) # 1
        /\ {r.of : r \in run.had.rules} \subseteq {r.of : r \in run.made.rules}
        /\ {Range(k.of) : k \in ToSet(run.had.links)} \subseteq {Range(k.of) : k \in ToSet(run.made.links)}

\* What a key of a rule or a link means to a reader of the directory.
Means(key) ==
    IF key \in Keys(dir.entities) THEN {Place(e) : e \in {e \in dir.entities : e.key = key}}
    ELSE {Place(e) : e \in {e \in dir.entities : e.table = Last(key) /\ Qualifier(key) \in {"", e.schema}}}
Renamed(l) == \E e \in dir.entities : e.key = Own /\ Place(e) = l
Fine(e) == e.schema # ""

\* When the files are of one run, a key means the table that it was written
\* for, though the name became shared, or stopped to be, since: an entity is of
\* its table, no table has two but for one an operator gave a key of its own,
\* and the rules and links follow (_table_namer, _rekey_map, collapse_same_key).
KeysFollow ==
    (run.pc = "idle" /\ ~torn /\ runs > 0) =>
        /\ \A e \in dir.entities : Fine(e) =>
             /\ Place(e) = e.of
             /\ \A o \in dir.entities \ {e} : o.key # e.key /\ (Place(o) = Place(e) => Own \in {o.key, e.key})
        /\ (\A e \in dir.entities : Fine(e)) =>
             /\ \A r \in dir.rules : Renamed(r.of) \/ Means(r.key) = {r.of}
             /\ \A k \in ToSet(dir.links) : /\ Renamed(k.of[1]) \/ Means(k.from) = {k.of[1]}
                                            /\ Renamed(k.of[2]) \/ Means(k.to) = {k.of[2]}

\* A link is of two tables of the draft, and no pair has two, unless an operator
\* keyed one of its entities (_drop_tables, _collect_links, merge_relationships).
LinksOnce ==
    (run.pc = "idle" /\ ~torn) =>
        \A i \in DOMAIN dir.links :
            /\ Range(dir.links[i].of) \subseteq {Place(e) : e \in dir.entities}
            /\ \A j \in DOMAIN dir.links \ {i} :
                 Range(dir.links[i].of) # Range(dir.links[j].of) \/ \E l \in Range(dir.links[i].of) : Renamed(l)

TablesSound ==
    /\ ReadAsRuled /\ CountedOnce /\ RecordedHolds
    /\ MergeKeeps /\ KeysFollow /\ LinksOnce
=============================================================================
