------------------------------ MODULE Migrate ------------------------------
(***************************************************************************)
(* appdb/migrate.py and scripts/migrate_app_db.py: the application database *)
(* is copied to another back end, while a server may still write to it.     *)
(*                                                                          *)
(* Every read of a table is a step: the snapshots are plain SELECTs on one  *)
(* connection without a transaction that spans them.  A row is its key and  *)
(* the number of the write that left it; `recent` rows carry a timestamp    *)
(* inside the quiet window.  Deleting a row leaves no timestamp.            *)
(***************************************************************************)
EXTENDS Naturals, Sequences, FiniteSets

CONSTANTS
    Tables,      \* TABLES_IN_MIGRATION_ORDER
    Counted,     \* AUTOINCREMENT_PK_COLUMNS: the tables with such a key
    DdlCommits,  \* the target ends a transaction at an ALTER TABLE (MySQL)
    KeepExport,  \* --keep-export
    MaxWrites,   \* bound: writes of the application
    MaxRuns      \* bound: runs of the tool

VARIABLES
    source, target,  \* the two databases
    recent,          \* writes whose timestamp is inside the quiet window
    writes,          \* the application's writes so far
    onTarget,        \* the application was restarted on the target
    tool,            \* the run of the tool
    runs,
    artefacts,       \* what the export files left on disk hold
    moments          \* history: the source's contents since the run began

vars == <<source, target, recent, writes, onTarget, tool, runs, artefacts, moments>>

T == {Tables[i] : i \in DOMAIN Tables}
Row == [key : 1 .. MaxWrites, write : 0 .. MaxWrites]
Database == [rows : [T -> SUBSET Row], next : [T -> 1 .. MaxWrites + 1]]
Nothing == [t \in T |-> {}]
Blank == [rows |-> Nothing, next |-> [t \in T |-> 1]]
Outcome == {"none", "ok", "refused", "mismatch", "dry", "raised"}
Tool == [pc : {"idle", "export", "quiet", "empty", "insert", "reseed", "source", "target"},
         at : 1 .. Len(Tables) + 1, dry : BOOLEAN,
         export : [T -> SUBSET Row], again : [T -> SUBSET Row], there : [T -> SUBSET Row],
         copy : Database, result : Outcome]
Idle(result) == [pc |-> "idle", at |-> 1, dry |-> FALSE, export |-> Nothing, again |-> Nothing,
                 there |-> Nothing, copy |-> Blank, result |-> result]

TypeOK ==
    /\ source \in Database /\ target \in Database
    /\ recent \subseteq 1 .. MaxWrites /\ writes \in 0 .. MaxWrites
    /\ onTarget \in BOOLEAN /\ tool \in Tool
    /\ runs \in 0 .. MaxRuns /\ artefacts \subseteq [T -> SUBSET Row]

\* The application, on whichever database it uses.
Used == IF onTarget THEN target ELSE source
Write(db) ==
    /\ writes < MaxWrites /\ writes' = writes + 1
    /\ target' = IF onTarget THEN db ELSE target
    /\ source' = IF onTarget THEN source ELSE db
    /\ moments' = IF onTarget THEN moments ELSE moments \cup {db.rows}
    /\ UNCHANGED <<onTarget, tool, runs, artefacts>>

Insert(t) ==
    /\ Used.next[t] <= MaxWrites
    /\ Write([Used EXCEPT !.rows[t] = @ \cup {[key |-> Used.next[t], write |-> writes + 1]},
                          !.next[t] = @ + 1])
    /\ recent' = recent \cup {writes + 1}

Delete(t) ==
    \E r \in Used.rows[t] : Write([Used EXCEPT !.rows[t] = @ \ {r}]) /\ UNCHANGED recent

\* The quiet window passes.
Age == recent # {} /\ recent' = {} /\
       UNCHANGED <<source, target, writes, onTarget, tool, runs, artefacts, moments>>

Others == UNCHANGED <<source, recent, writes, onTarget, runs>>
Goes(pc) == tool' = [tool EXCEPT !.pc = pc, !.at = 1]

\* run_migration: hash_database only reads, and what it returns is printed.
Begin(dry) ==
    /\ tool.pc = "idle" /\ ~onTarget /\ tool.result # "ok"
    /\ runs < MaxRuns /\ runs' = runs + 1
    /\ tool' = [Idle("none") EXCEPT !.pc = "export", !.dry = dry]
    /\ moments' = {source.rows}
    /\ UNCHANGED <<source, target, recent, writes, onTarget, artefacts>>

\* One table read, in _snapshot_all_tables.
Reads(pc, then) ==
    /\ tool.pc = pc
    /\ UNCHANGED <<target, artefacts, moments>> /\ Others
    /\ IF tool.at > Len(Tables) THEN Goes(then)
       ELSE LET t == Tables[tool.at] IN
            tool' = CASE pc = "export" -> [tool EXCEPT !.at = @ + 1, !.export[t] = source.rows[t]]
                      [] pc = "source" -> [tool EXCEPT !.at = @ + 1, !.again[t] = source.rows[t]]
                      [] pc = "target" -> [tool EXCEPT !.at = @ + 1, !.there[t] = target.rows[t]]

Export == Reads("export", "quiet")

\* check_quiescent, on what was read.
Quiescent == \A t \in T : \A r \in tool.export[t] : r.write \notin recent

\* A run that ends: main removes the export file of a verified one.
Ended(result) ==
    /\ tool' = Idle(result)
    /\ artefacts' = IF result = "ok" /\ ~KeepExport THEN artefacts \ {tool.export} ELSE artefacts

CheckQuiet ==
    /\ tool.pc = "quiet"
    /\ IF Quiescent THEN Goes("empty") /\ UNCHANGED artefacts ELSE Ended("refused")
    /\ UNCHANGED <<target, moments>> /\ Others

\* preview_migration, or on_export and the start of import_export.
Empty == \A t \in T : target.rows[t] = {}
CheckEmpty ==
    /\ tool.pc = "empty"
    /\ IF ~tool.dry /\ Empty
       THEN /\ artefacts' = artefacts \cup {tool.export}
            /\ tool' = [tool EXCEPT !.pc = "insert", !.at = 1, !.copy = target]
       ELSE IF ~tool.dry THEN tool' = Idle("refused") /\ artefacts' = artefacts \cup {tool.export}
       ELSE Ended(IF Empty THEN "dry" ELSE "refused")
    /\ UNCHANGED <<target, moments>> /\ Others

\* One table of the copy, inside the transaction; the last step commits it.
CopyTable ==
    /\ tool.pc = "insert"
    /\ IF tool.at > Len(Tables)
       THEN target' = tool.copy /\ Goes("source")
       ELSE LET t == Tables[tool.at] IN
            /\ UNCHANGED target
            /\ tool' = IF tool.export[t] = {} THEN [tool EXCEPT !.at = @ + 1]
                       ELSE [tool EXCEPT !.copy.rows[t] = tool.export[t],
                                         !.pc = IF t \in Counted THEN "reseed" ELSE @,
                                         !.at = IF t \in Counted THEN @ ELSE @ + 1]
    /\ UNCHANGED <<artefacts, moments>> /\ Others

Highest(rows) == (CHOOSE r \in rows : \A s \in rows : s.key <= r.key).key

\* MUTANT: the next key is that of the last row.
SeedAtMax(rows) == Highest(rows)
\* _reset_autoincrement.
Seed(rows) == Highest(rows) + 1

Reseed ==
    /\ tool.pc = "reseed"
    /\ LET t == Tables[tool.at]
           db == [tool.copy EXCEPT !.next[t] = Seed(tool.copy.rows[t])]
       IN /\ tool' = [tool EXCEPT !.pc = "insert", !.at = @ + 1, !.copy = db]
          /\ target' = IF DdlCommits THEN db ELSE target
    /\ UNCHANGED <<artefacts, moments>> /\ Others

\* verify_migration reads both databases again.
VerifySource == Reads("source", "target")

\* MUTANT: the copy is compared with what was exported.
ComparedToExport == tool.there = tool.export
\* Row counts and content hashes, table by table.
Same == tool.there = tool.again

VerifyTarget ==
    \/ tool.at <= Len(Tables) /\ Reads("target", "target")
    \/ /\ tool.pc = "target" /\ tool.at > Len(Tables)
       /\ Ended(IF Same THEN "ok" ELSE "mismatch")
       /\ UNCHANGED <<target, moments>> /\ Others

\* The tool is killed, or a database error nobody catches ends it: an open
\* transaction is rolled back.
Raise ==
    /\ tool.pc # "idle" /\ tool' = Idle("raised")
    /\ UNCHANGED <<target, artefacts, moments>> /\ Others

\* The operator starts the application on the target, as a pass allows.
Switch ==
    /\ tool.pc = "idle" /\ tool.result = "ok" /\ ~onTarget /\ onTarget' = TRUE
    /\ UNCHANGED <<source, target, recent, writes, tool, runs, artefacts, moments>>

Init ==
    /\ \E t \in T : source = [rows |-> [Nothing EXCEPT ![t] = {[key |-> 1, write |-> 0]}],
                              next |-> [u \in T |-> IF u = t THEN 2 ELSE 1]]
    /\ target = Blank /\ recent = {} /\ writes = 0 /\ onTarget = FALSE
    /\ tool = Idle("none") /\ runs = 0 /\ artefacts = {} /\ moments = {}

Next ==
    \/ \E t \in T : Insert(t) \/ Delete(t)
    \/ Age \/ \E dry \in BOOLEAN : Begin(dry)
    \/ Export \/ CheckQuiet \/ CheckEmpty \/ CopyTable \/ Reseed
    \/ VerifySource \/ VerifyTarget \/ Raise \/ Switch

Spec == Init /\ [][Next]_vars

(***************************************************************************)
(* Properties.                                                             *)
(***************************************************************************)
\* A run that reports PASS left in the target what the source held, all
\* tables together, at one moment of the run: writes that landed between two
\* reads were noticed (verify_migration re-reads both databases).
VerifiedIsSource ==
    (tool.result = "ok" /\ ~onTarget) => target.rows \in moments

\* Whatever the copy left behind, the application's next insert gets a key no
\* row has (_reset_autoincrement).
NextKeyFree ==
    \A t \in Counted : \A r \in target.rows[t] :
        (tool.pc = "idle" /\ tool.result = "ok") => r.key < target.next[t]

\* A target that no run has verified is empty, and the next run accepts it, or
\* is the whole of an export that is still on disk (import_export: one
\* transaction; main: the file is left unless the run passed).
AllOrNothing ==
    (tool.result # "ok" /\ ~onTarget) => target.rows \in {Nothing} \cup artefacts

\* The three together.
MigrationSound == VerifiedIsSource /\ NextKeyFree /\ AllOrNothing
=============================================================================
