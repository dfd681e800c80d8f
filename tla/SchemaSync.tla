----------------------------- MODULE SchemaSync -----------------------------
(***************************************************************************)
(* schema_data/sync.py, placement.py and drift.py with scripts/              *)
(* sync_schema.py: schema.yaml, whose descriptions people write, is kept in  *)
(* step with the structure of the databases.                                *)
(*                                                                          *)
(* A column is its entries in the file: the description, the comment above    *)
(* it, the type recorded, and whether resolvable_columns or                 *)
(* prefetchable_columns names it.  The tool writes schema.synced.yaml; a      *)
(* person reads it and puts it in the place of schema.yaml.                  *)
(***************************************************************************)
EXTENDS Naturals, Sequences, FiniteSets

CONSTANTS
    Order,       \* the configured data sources, the default one first
    Tables, Columns, Types,
    Related,     \* tables that relationships.yaml names
    Excluded,    \* tables that exclusion names
    MaxChanges, MaxEdits, MaxRuns   \* bounds

Sources == {Order[i] : i \in DOMAIN Order}
Several == Len(Order) > 1

VARIABLES
    db,          \* what each source has
    file,        \* schema.yaml
    synced,      \* schema.synced.yaml
    tool,        \* a run of sync_schema.py
    baseline,    \* schema_drift_baseline.json
    drift,       \* the last drift report
    changes, edits, runs,   \* counters
    seen         \* history: what the previous drift check read

vars == <<db, file, synced, tool, baseline, drift, changes, edits, runs, seen>>

Type == Types \cup {"none"}
Placed == [there : BOOLEAN, col : [Columns -> Type]]
Column == [listed : BOOLEAN, text : {"none", "draft", "curated"}, stale : BOOLEAN,
           type : Type, flagged : BOOLEAN]
NoColumn == [listed |-> FALSE, text |-> "none", stale |-> FALSE, type |-> "none", flagged |-> FALSE]
Entry == [listed : BOOLEAN, missing : BOOLEAN, source : SUBSET Sources,
          described : BOOLEAN, col : [Columns -> Column]]
NoEntry == [listed |-> FALSE, missing |-> FALSE, source |-> {}, described |-> FALSE,
            col |-> [c \in Columns |-> NoColumn]]
File == [Tables -> Entry]
NoFile == [t \in Tables |-> NoEntry]
Ids == Tables \X Columns \X (Sources \cup {"one"})
NoTypes == [id \in Ids |-> "none"]
NoReport == [checked |-> {}, live |-> NoTypes, listed |-> {}, changed |-> {}]
Idle == [pc |-> "idle", at |-> 1, prune |-> FALSE, add |-> {}, raw |-> NoFile, cat |-> <<>>]

TypeOK ==
    /\ db \in [Sources -> [Tables -> Placed]] /\ file \in File /\ synced \in File
    /\ tool.pc \in {"idle", "read"} /\ tool.raw \in File
    /\ \A t \in Tables, c \in Columns : file[t].col[c].stale => file[t].col[c].listed
    /\ changes \in 0 .. MaxChanges /\ edits \in 0 .. MaxEdits /\ runs \in 0 .. MaxRuns

\* ------------------------------------------------------------- the plan
\* locate_tables: the sources that have a table.
Found(cat, t) == {s \in Sources : cat[s][t].there}
\* _merge_columns: a column's type is that of the first source that has it.
Live(cat, t, c) ==
    LET have == {i \in DOMAIN Order : Order[i] \in Found(cat, t) /\ cat[Order[i]][t].col[c] # "none"}
    IN IF have = {} THEN "none"
       ELSE cat[Order[CHOOSE i \in have : \A j \in have : i <= j]][t].col[c]
\* The login sees the table and none of its columns.
Unverifiable(cat, t) == \A c \in Columns : Live(cat, t, c) = "none"

Added(cat, t, c) == [listed |-> TRUE, text |-> "draft", stale |-> FALSE,
                     type |-> Live(cat, t, c), flagged |-> FALSE]

\* _plan_new_tables: an entry for a table that --add-tables names.
NewTable(cat, t) ==
    [listed |-> TRUE, missing |-> FALSE, described |-> FALSE,
     source |-> IF Several THEN Found(cat, t) ELSE {},
     col |-> [c \in Columns |-> IF Live(cat, t, c) = "none" THEN NoColumn ELSE Added(cat, t, c)]]

\* MUTANT: --prune takes a column whatever names it.
PrunedAll(prune, column) == prune
Pruned(prune, column) == prune /\ ~column.flagged

\* _column_edits, for one column of a table that is synced.
SyncColumn(cat, t, c, prune, column, record) ==
    CASE column.listed /\ Live(cat, t, c) = "none" ->
           IF Pruned(prune, column) THEN NoColumn ELSE [column EXCEPT !.stale = TRUE]
      [] column.listed /\ Live(cat, t, c) # "none" ->
           [column EXCEPT !.stale = FALSE,
                          !.type = IF @ = "none" /\ ~record THEN @ ELSE Live(cat, t, c)]
      [] ~column.listed /\ Live(cat, t, c) # "none" -> Added(cat, t, c)
      [] OTHER -> column

\* render_synced_text, which verify_structural_only compares with the plan.
Render(text, cat, prune, add, record) ==
    [t \in Tables |->
       LET e == text[t] IN
       CASE ~e.listed ->
              IF t \in add \ Excluded /\ Found(cat, t) # {} /\ ~Unverifiable(cat, t)
              THEN NewTable(cat, t) ELSE e
         [] e.listed /\ Found(cat, t) = {} ->
              IF prune /\ t \notin Related THEN NoEntry ELSE [e EXCEPT !.missing = TRUE]
         [] OTHER ->
              [e EXCEPT !.missing = FALSE,
                        !.source = IF Several THEN Found(cat, t) ELSE @,
                        !.col = IF e.described \/ Unverifiable(cat, t) THEN @
                                ELSE [c \in Columns |-> SyncColumn(cat, t, c, prune, @[c], record)]]]

\* sync_schema.py --check: an out-of-step file fails, missing type records do not.
CheckOK(text, cat) ==
    \/ Render(text, cat, FALSE, {}, TRUE) = text
    \/ Render(text, cat, FALSE, {}, FALSE) = text

\* ---------------------------------------------------------- sync_schema.py
Others == UNCHANGED <<db, baseline, drift, changes, edits, seen>>

Begin(prune, add) ==
    /\ tool.pc = "idle" /\ runs < MaxRuns /\ runs' = runs + 1
    /\ tool' = [Idle EXCEPT !.pc = "read", !.prune = prune, !.add = add, !.raw = file]
    /\ UNCHANGED <<file, synced>> /\ Others

\* _read_catalogues, one source after another.
Read ==
    /\ tool.pc = "read" /\ tool.at <= Len(Order)
    /\ LET s == Order[tool.at]
       IN tool' = [tool EXCEPT !.at = @ + 1,
                     !.cat = [x \in DOMAIN @ \cup {s} |-> IF x = s THEN db[s] ELSE @[x]]]
    /\ UNCHANGED <<file, synced, runs>> /\ Others

\* A source that cannot be read stops the run.
ReadFails ==
    /\ tool.pc = "read" /\ tool.at <= Len(Order) /\ tool' = Idle
    /\ UNCHANGED <<file, synced, runs>> /\ Others

Result == Render(tool.raw, tool.cat, tool.prune, tool.add, TRUE)
Finish ==
    /\ tool.pc = "read" /\ tool.at > Len(Order)
    /\ tool' = [tool EXCEPT !.pc = "idle"]
    /\ synced' = IF Result = tool.raw THEN synced ELSE Result
    /\ UNCHANGED <<file, runs>> /\ Others

\* ------------------------------------------------------ check_schema_drift
\* The sources a table is checked on.
Assigned(t) == IF ~Several THEN Sources
               ELSE IF file[t].source = {} THEN {Order[1]} ELSE file[t].source
Queryable(t) == file[t].listed /\ ~file[t].described
\* _column_id: a table of several sources has its columns apart.
Id(s, t, c) == <<t, c, IF Queryable(t) /\ Cardinality(Assigned(t)) > 1 THEN s ELSE "one">>

\* live_col_ids: what the sources that answered have, the later source last.
Scan(up) ==
    [id \in Ids |->
       LET has == {i \in DOMAIN Order :
                     /\ Order[i] \in up /\ Id(Order[i], id[1], id[2]) = id
                     /\ Queryable(id[1]) => Order[i] \in Assigned(id[1])
                     /\ db[Order[i]][id[1]].there}
           with == {i \in has : db[Order[i]][id[1]].col[id[2]] # "none"}
       IN IF with = {} THEN "none"
          ELSE db[Order[CHOOSE i \in with : \A j \in with : j <= i]][id[1]].col[id[2]]]

\* schema_col_ids: what schema.yaml says those sources have.
Listed(up) == {Id(s, t, c) : <<s, t, c>> \in
    {x \in up \X Tables \X Columns :
       Queryable(x[2]) /\ x[1] \in Assigned(x[2]) /\ file[x[2]].col[x[3]].listed}}

\* MUTANT: only what schema.yaml lists is remembered.
KeptListed(live, up) == [id \in Ids |-> IF id \in Listed(up) THEN live[id] ELSE "none"]
\* _save_baseline replaces the file with what this check saw.
Kept(live, up) == live

\* One check, on the sources that answer.
Drift(up) ==
    /\ runs < MaxRuns /\ runs' = runs + 1 /\ (~Several => up = Sources)
    /\ LET live == Scan(up) IN
       /\ drift' = [checked |-> up, live |-> live, listed |-> Listed(up),
                    changed |-> {id \in Listed(up) : live[id] # "none"
                                   /\ baseline[id] \notin {"none", live[id]}}]
       /\ baseline' = Kept(live, up)
    /\ seen' = drift
    /\ UNCHANGED <<db, file, synced, tool, changes, edits>>

\* ------------------------------------------------------------- the outside
\* The databases change: a table comes or goes, a column comes, goes or is retyped.
Change(s, t, placed) ==
    /\ changes < MaxChanges /\ changes' = changes + 1 /\ placed # db[s][t]
    /\ db' = [db EXCEPT ![s][t] = placed]
    /\ UNCHANGED <<file, synced, tool, baseline, drift, edits, runs, seen>>
Changed(s, t) ==
    {[there |-> ~db[s][t].there, col |-> db[s][t].col]} \cup
    {[there |-> TRUE, col |-> [db[s][t].col EXCEPT ![c] = ty]] : c \in Columns, ty \in Type}

\* Someone describes a column, or has its values looked up.
Curate(t, c, flag) ==
    /\ file[t].col[c].listed /\ edits < MaxEdits /\ edits' = edits + 1
    /\ file' = [file EXCEPT ![t].col[c].text = "curated", ![t].col[c].flagged = flag]
    /\ UNCHANGED <<db, synced, tool, baseline, drift, changes, runs, seen>>

\* The draft is read and takes the place of schema.yaml.
Replace ==
    /\ synced # NoFile /\ file # synced /\ file' = synced
    /\ UNCHANGED <<db, synced, tool, baseline, drift, changes, edits, runs, seen>>

Nowhere == [there |-> FALSE, col |-> [c \in Columns |-> "none"]]
Init ==
    /\ \E t \in Tables, c \in Columns, ty \in Types, others \in Type,
          recorded \in BOOLEAN, plain \in BOOLEAN :
         /\ db = [s \in Sources |-> [u \in Tables |->
                    IF s = Order[1] /\ u = t
                    THEN [there |-> TRUE, col |-> [x \in Columns |-> IF x = c THEN ty ELSE others]]
                    ELSE Nowhere]]
         /\ file = [NoFile EXCEPT ![t] = [NoEntry EXCEPT !.listed = TRUE, !.described = plain,
                      !.col[c] = IF plain THEN NoColumn ELSE
                                 [NoColumn EXCEPT !.listed = TRUE, !.text = "curated",
                                                  !.type = IF recorded THEN ty ELSE "none"]]]
    /\ synced = NoFile /\ tool = Idle /\ baseline = NoTypes /\ drift = NoReport
    /\ changes = 0 /\ edits = 0 /\ runs = 0 /\ seen = NoReport

Next ==
    \/ \E prune \in BOOLEAN, add \in {{}, Tables} : Begin(prune, add)
    \/ Read \/ ReadFails \/ Finish \/ Replace
    \/ \E up \in SUBSET Sources : Drift(up)
    \/ \E s \in Sources, t \in Tables : \E p \in Changed(s, t) : Change(s, t, p)
    \/ \E t \in Tables, c \in Columns, flag \in BOOLEAN : Curate(t, c, flag)

Spec == Init /\ [][Next]_vars

(***************************************************************************)
(* Properties.                                                             *)
(***************************************************************************)
\* What people wrote survives a run: a description and a flag stay as they
\* were, unless --prune was asked for, no source had the column and nothing
\* else in the file needs it ("must never be touched by a tool").
CuratedKept ==
    (tool.pc = "read" /\ tool.at > Len(Order)) =>
        \A t \in Tables, c \in Columns :
            LET was == tool.raw[t].col[c]  is == Result[t].col[c] IN
            was.listed =>
                \/ is.listed /\ is.text = was.text /\ is.flagged = was.flagged
                \/ /\ tool.prune /\ \A s \in Sources : ~tool.cat[s][t].there
                                      \/ tool.cat[s][t].col[c] = "none"
                   /\ was.flagged => Found(tool.cat, t) = {} /\ t \notin Related

\* One run is enough: the file it proposes passes --check, and a second run
\* with the same options proposes nothing, whatever state the file was in when
\* it began.
SyncSettles ==
    tool.pc = "idle" => \A prune \in BOOLEAN, add \in {{}, Tables} :
        LET once == Render(file, db, prune, add, TRUE) IN
        CheckOK(once, db) /\ Render(once, db, prune, add, TRUE) = once

\* A type that differs between two checks in a row, both of which read it, is
\* reported, also for a column that joined the file only in between
\* ("changed since the last time this check ran").
TypeChangeTold ==
    \A id \in drift.listed :
        (drift.live[id] # "none" /\ seen.live[id] # "none" /\ drift.live[id] # seen.live[id])
            => id \in drift.changed

\* The three together.
SchemaSound == CuratedKept /\ SyncSettles /\ TypeChangeTold
=============================================================================
