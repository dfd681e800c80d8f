----------------------------- MODULE DataSources -----------------------------
(***************************************************************************)
(* datasources.yaml: database/datasources.py loads it for a server that       *)
(* re-reads it whenever it changed, database/datasources_edit.py records      *)
(* exclusions in it, and scripts/assign_datasources.py with                   *)
(* schema_data/placement.py places the tables of schema.yaml in its sources.  *)
(*                                                                          *)
(* A source is the set of the fields it sets, its dialect (the deployment's   *)
(* or another) and the patterns it excludes; a table's `datasource:` is a set *)
(* of names, empty for the default.                                           *)
(***************************************************************************)
EXTENDS Naturals, Sequences, FiniteSets, SequencesExt

CONSTANTS
    Names,       \* the sources there may be, in the order the file lists them
    Tables,
    Patterns,    \* that may be excluded
    MaxEdits, MaxJobs

VARIABLES
    file,        \* datasources.yaml: the sources and the default, or none
    schema,      \* schema.yaml: the sources each table names
    databases,   \* what is in them: the tables of each source
    tool,        \* a run of assign_datasources, or Idle
    proposal,    \* schema.with_datasources.yaml, and whether anything it was made from changed
    recorder,    \* a recorder of exclusions, or Idle
    server,      \* start-up and what it read
    edits, jobs

vars == <<file, schema, databases, tool, proposal, recorder, server, edits, jobs>>

Fields == {"url_env", "host", "database", "username", "username_env", "password_env", "trusted"}
Variables == {"url_env", "username_env", "password_env"}
Source == [set : SUBSET Fields, mixed : BOOLEAN, excluded : SUBSET Patterns]
Nothing == "none"
Idle == [at |-> "idle"]
NoProposal == [at |-> "none"]

\* DataSourceDefinition: one form, with one login.
Accepted(d) ==
    IF "url_env" \in d.set THEN d.set = {"url_env"}
    ELSE /\ {"host", "database"} \subseteq d.set
         /\ IF "trusted" \in d.set THEN d.set \cap {"username", "username_env", "password_env"} = {}
            ELSE /\ "password_env" \in d.set
                 /\ "username" \in d.set <=> "username_env" \notin d.set
\* DataSourcesConfig.
Valid(f) ==
    /\ DOMAIN f.sources # {} /\ \A n \in DOMAIN f.sources : Accepted(f.sources[n])
    /\ IF f.default = Nothing THEN Cardinality(DOMAIN f.sources) = 1 ELSE f.default \in DOMAIN f.sources

\* build_url, _resolve_url: a legacy variable that is not set is an empty URL, any
\* other an error; what a form lacks would be read as "None".
Needed(d) == IF "trusted" \in d.set THEN {}
             ELSE {"password_env"} \cup IF "username" \in d.set THEN {} ELSE {"username_env"}
Built(d, environ) ==
    IF "url_env" \in d.set THEN (IF "url_env" \in environ THEN "url" ELSE "empty")
    ELSE IF ~({"host", "database"} \cup Needed(d) \subseteq d.set) THEN "broken"
    ELSE IF Needed(d) \subseteq environ THEN "url" ELSE "unset"

Listed(f) == SelectSeq(Names, LAMBDA n : n \in DOMAIN f.sources)
DefaultName(f) == IF f.default = Nothing THEN Head(Listed(f)) ELSE f.default
\* datasource_names: the default first.
Configured(f) == <<DefaultName(f)>> \o SelectSeq(Listed(f), LAMBDA n : n # DefaultName(f))
\* pick_datasource: by the configured order, a source that is not configured last.
Rank(f, n) == IF n \in DOMAIN f.sources THEN CHOOSE i \in DOMAIN Configured(f) : Configured(f)[i] = n
              ELSE Len(Configured(f)) + 1
Pick(f, candidates) == CHOOSE n \in candidates : \A m \in candidates : Rank(f, n) <= Rank(f, m)

TypeOK ==
    /\ file.default \in ToSet(Names) \cup {Nothing}
    /\ \A n \in DOMAIN file.sources : n \in ToSet(Names) /\ file.sources[n] \in Source
    /\ schema \in [Tables -> SUBSET ToSet(Names)] /\ databases \in [ToSet(Names) -> SUBSET Tables]
    /\ tool.at \in {"idle", "reading"} /\ recorder.at \in {"idle", "read"}
    /\ server.at \in {"down", "checking", "up"} /\ edits \in 0 .. MaxEdits /\ jobs \in 0 .. MaxJobs

\* ------------------------------------------------------- assign_datasources
Job == jobs < MaxJobs /\ jobs' = jobs + 1
StartAssign ==
    /\ tool = Idle /\ Job /\ Valid(file)
    /\ tool' = [at |-> "reading", schema |-> schema, sources |-> Configured(file), default |-> DefaultName(file),
                todo |-> Configured(file), found |-> <<>>, fresh |-> TRUE]
    /\ UNCHANGED <<file, schema, databases, proposal, recorder, server, edits>>
\* The catalogue of one source; a source that cannot be read ends the run.
ReadCatalogue ==
    /\ tool.at = "reading" /\ tool.todo # <<>>
    /\ tool' = [tool EXCEPT !.todo = Tail(@), !.found = Append(@, databases[Head(tool.todo)])]
    /\ UNCHANGED <<file, schema, databases, proposal, recorder, server, edits, jobs>>
Unreadable ==
    /\ tool.at = "reading" /\ tool.todo # <<>> /\ tool' = Idle
    /\ UNCHANGED <<file, schema, databases, proposal, recorder, server, edits, jobs>>

\* locate_tables.
FoundIn(t) == {tool.sources[i] : i \in {i \in DOMAIN tool.sources : t \in tool.found[i]}}
Effective(sources, default) == IF sources = {} THEN {default} ELSE sources
\* MUTANT: a table that agrees by default keeps its empty list.
WantedEffective(t) ==
    IF FoundIn(t) = {} \/ FoundIn(t) \cap Effective(tool.schema[t], tool.default) # {} THEN tool.schema[t] ELSE FoundIn(t)
\* Placement.wanted.
Wanted(t) == IF FoundIn(t) = {} THEN tool.schema[t] ELSE FoundIn(t)
\* main, with two sources or more: the proposed file.
Propose ==
    /\ tool.at = "reading" /\ tool.todo = <<>> /\ tool' = Idle
    /\ proposal' = IF Len(tool.sources) < 2 THEN proposal
                   ELSE [at |-> "made", schema |-> [t \in Tables |-> Wanted(t)], was |-> tool.schema, fresh |-> tool.fresh]
    /\ UNCHANGED <<file, schema, databases, recorder, server, edits, jobs>>

\* --------------------------------------------------------- datasources_edit
\* _record: the file is read, extended when it is valid, and replaced.
ReadFile(n, p) ==
    /\ recorder = Idle /\ Job /\ Valid(file) /\ n \in DOMAIN file.sources /\ p \notin file.sources[n].excluded
    /\ recorder' = [at |-> "read", file |-> [file EXCEPT !.sources[n].excluded = @ \cup {p}]]
    /\ UNCHANGED <<file, schema, databases, tool, proposal, server, edits>>
Record ==
    /\ recorder.at = "read" /\ file' = recorder.file /\ recorder' = Idle
    /\ UNCHANGED <<schema, databases, tool, proposal, server, edits, jobs>>

\* ------------------------------------------------------------------- server
\* check_table_datasources at start-up: the names and then the default, each from
\* the file as it is.
StartServer ==
    /\ server.at = "down" /\ Valid(file) /\ \A n \in DOMAIN file.sources : ~file.sources[n].mixed
    /\ server' = [at |-> "checking", known |-> ToSet(Configured(file)), since |-> TRUE]
    /\ UNCHANGED <<file, schema, databases, tool, proposal, recorder, edits, jobs>>
CheckTables ==
    /\ server.at = "checking" /\ Valid(file)
    /\ server' = IF \A t \in Tables : Effective(schema[t], DefaultName(file)) \subseteq server.known
                 THEN [at |-> "up", since |-> server.since] ELSE [at |-> "down"]
    /\ UNCHANGED <<file, schema, databases, tool, proposal, recorder, edits, jobs>>
Stop ==
    /\ server.at = "up" /\ server' = [at |-> "down"]
    /\ UNCHANGED <<file, schema, databases, tool, proposal, recorder, edits, jobs>>

\* ------------------------------------------------------------------- people
\* A change of the files or the databases: what was read before is old.
Edited ==
    /\ edits < MaxEdits /\ edits' = edits + 1
    /\ tool' = IF tool = Idle THEN tool ELSE [tool EXCEPT !.fresh = FALSE]
    /\ proposal' = IF proposal = NoProposal THEN proposal ELSE [proposal EXCEPT !.fresh = FALSE]
    /\ server' = IF server.at = "down" THEN server ELSE [server EXCEPT !.since = FALSE]
    /\ UNCHANGED <<recorder, jobs>>
EditSource(n, d) == /\ Edited /\ UNCHANGED <<schema, databases>>
                    /\ file' = [file EXCEPT !.sources = [m \in DOMAIN @ \cup {n} |-> IF m = n THEN d ELSE @[m]]]
RemoveSource(n) == /\ n \in DOMAIN file.sources /\ Edited /\ UNCHANGED <<schema, databases>>
                   /\ file' = [file EXCEPT !.sources = [m \in DOMAIN @ \ {n} |-> @[m]]]
SetDefault(n) == n # file.default /\ file' = [file EXCEPT !.default = n] /\ Edited /\ UNCHANGED <<schema, databases>>
Move(t, n) == /\ databases' = [databases EXCEPT ![n] = IF t \in @ THEN @ \ {t} ELSE @ \cup {t}]
              /\ Edited /\ UNCHANGED <<file, schema>>
\* "Review it before replacing schema.yaml".
Adopt ==
    /\ proposal # NoProposal /\ schema # proposal.schema /\ schema' = proposal.schema
    /\ server' = IF server.at = "down" THEN server ELSE [server EXCEPT !.since = FALSE]
    /\ UNCHANGED <<file, databases, tool, proposal, recorder, edits, jobs>>

Login == {"host", "database", "username", "password_env"}
Init ==
    /\ file = [sources |-> [n \in {Names[1], Names[2]} |-> [set |-> Login, mixed |-> FALSE, excluded |-> {}]],
               default |-> Names[1]]
    /\ schema \in [Tables -> SUBSET {Names[1], Names[2]}] /\ databases \in [ToSet(Names) -> SUBSET Tables]
    /\ tool = Idle /\ proposal = NoProposal /\ recorder = Idle /\ server = [at |-> "down"] /\ edits = 0 /\ jobs = 0

Next ==
    \/ StartAssign \/ ReadCatalogue \/ Unreadable \/ Propose \/ Record
    \/ StartServer \/ CheckTables \/ Stop \/ Adopt
    \/ \E n \in ToSet(Names), p \in Patterns : ReadFile(n, p)
    \/ \E n \in ToSet(Names), set \in SUBSET Fields, mixed \in BOOLEAN :
          EditSource(n, [set |-> set, mixed |-> mixed, excluded |-> {}])
    \/ \E n \in ToSet(Names) : RemoveSource(n) \/ SetDefault(n) \/ \E t \in Tables : Move(t, n)

Spec == Init /\ [][Next]_vars

(***************************************************************************)
(* Properties.                                                             *)
(***************************************************************************)
\* The validator and the builder agree: whatever is written into the file, a
\* source that loads builds its URL from nothing but what it sets, and fails only
\* for a variable the environment lacks.
AcceptedBuilds ==
    Valid(file) =>
        \A n \in DOMAIN file.sources : LET d == file.sources[n] IN
            /\ \A environ \in SUBSET Variables : Built(d, environ) # "broken"
            /\ Built(d, d.set \cap Variables) = "url"

\* "The sources it was found in": once a proposal is adopted, and while nothing
\* it was made from changes, every table that is anywhere is used where it is,
\* whatever its line said and whichever source is the default.
PlacedWhereFound ==
    (proposal # NoProposal /\ proposal.fresh) =>
        \A t \in Tables :
            LET found == {n \in DOMAIN file.sources : t \in databases[n]}
            IN IF found = {} THEN proposal.schema[t] = proposal.was[t]
               ELSE Effective(proposal.schema[t], DefaultName(file)) = found

\* "Every schema.yaml table must name a configured data source; an unknown one
\* would only surface as a failed query later": while a server is up and no file
\* changed since it started, a query is routed to a source there is, of the
\* deployment's dialect.
StartedRoutes ==
    (server.at = "up" /\ server.since) =>
        \A t \in Tables :
            LET source == Pick(file, Effective(schema[t], DefaultName(file)))
            IN source \in DOMAIN file.sources /\ ~file.sources[source].mixed

SourcesSound == AcceptedBuilds /\ PlacedWhereFound /\ StartedRoutes

\* What a person wrote into the file meanwhile outlives a recorder's write.
EditKept ==
    [][Record => \A n \in DOMAIN file.sources : n \in DOMAIN file'.sources /\ file'.sources[n].set = file.sources[n].set]_vars
\* The check of start-up goes on to hold.
AlwaysRoutes == (server.at = "up" /\ Valid(file)) => \A t \in Tables : schema[t] \subseteq DOMAIN file.sources
=============================================================================
