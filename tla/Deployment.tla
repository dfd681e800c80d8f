------------------------------ MODULE Deployment ------------------------------
(***************************************************************************)
(* scripts/verify_deployment.py with core/config_doctor.py and                *)
(* core/policy_values.py: the checks of a deployment, run one after the other *)
(* from a shell or together from the admin panel (api/admin_routes.py with    *)
(* api/admin_result_cache.py), and the start of the server they speak for     *)
(* (core/config_preflight.py, api/server.py).                                 *)
(*                                                                          *)
(* A deployment is a record with a value for each thing a check looks at.     *)
(***************************************************************************)
EXTENDS Naturals, Sequences, FiniteSets, SequencesExt

CONSTANTS
    Sources,       \* the data sources, in order
    MaxChanges     \* to the deployment

VARIABLES
    deploy,        \* the deployment
    run,           \* the run from the shell: checks to do, results, or Idle
    cards,         \* the panel's cached results, by kind
    changes

vars == <<deploy, run, cards, changes>>

Idle == [at |-> "idle"]
Empty == [is |-> "none"]

\* What each thing may be; the first is as it should be.
Values == [
    settings |-> <<"valid", "invalid">>,        sourcesFile |-> <<"valid", "invalid">>,
    tables |-> <<"known", "unknown">>,          described |-> <<"all", "lacking", "none">>,
    catalogue |-> <<"same", "drifted", "misplaced">>,
    auth |-> <<TRUE, FALSE>>,                   envKeys |-> <<"keys", "none", "malformed">>,
    appdb |-> <<"good", "unreadable", "warehouse">>,
    dbKeys |-> <<"none", "issued", "revoked", "ambiguous">>,
    verifyKey |-> <<"unset", "known", "unknown">>, entry |-> <<"column", "unmatched">>,
    provider |-> <<"openai", "mock">>,          remote |-> <<"allowed", "refused">>,
    models |-> <<"listed", "unlisted", "down">>, answers |-> <<"own", "cached", "none", "thinking">>,
    log |-> <<"writable", "unwritable">>,       session |-> <<"writable", "unwritable", "off">>,
    schema |-> <<"good", "missing", "damaged", "rejected", "draft">>,
    aliases |-> <<"good", "missing", "damaged", "seeds", "tables", "raw">>,
    entities |-> <<"good", "missing", "damaged", "unknown">>,
    policies |-> <<"good", "missing", "damaged", "sample">>,
    other |-> <<"good", "missing", "damaged">>, prompt |-> <<"good", "missing", "empty">>,
    rate |-> <<"sane", "low">>,                 origin |-> <<"unset", "allowed", "refused">>,
    staging |-> <<"set", "off">>,               excluded |-> <<"set", "off">>,
    valueCheck |-> <<FALSE, TRUE>>]
SourceValues == [
    up |-> <<TRUE, FALSE>>, login |-> <<"refuses", "rolls back", "persists", "unknown">>,
    cap |-> <<"cut", "uncut", "no probe">>, wait |-> <<"aborts", "runs", "refused">>]
InOrder == [x \in DOMAIN Values \cup {"db"} |->
              IF x = "db" THEN [n \in ToSet(Sources) |-> [y \in DOMAIN SourceValues |-> SourceValues[y][1]]]
              ELSE Values[x][1]]

TypeOK ==
    /\ LET values == Values IN \A x \in DOMAIN values : deploy[x] \in ToSet(values[x])
    /\ \A n \in ToSet(Sources), y \in DOMAIN SourceValues : deploy.db[n][y] \in ToSet(SourceValues[y])
    /\ run.at \in {"idle", "checking"} /\ DOMAIN cards = {"plain", "deep"} /\ changes \in 0 .. MaxChanges

\* ---------------------------------------------------------------- results
\* A check is of all or of one source; a result may leave the reason to another.
Check(name, of) == [name |-> name, of |-> of]
Result(status, says) == [status |-> status, says |-> says]
Pass == Result("PASS", "")
Fail == Result("FAIL", "")
Skip == Result("SKIP", "")
SkipFor(name) == Result("SKIP", name)
PassIf(condition) == IF condition THEN Pass ELSE Fail

\* What the doctor can read of a file, and whether its loader accepts it.
Loads(d, f) == d[f] \notin {"missing", "damaged", "rejected"}
Parsed(d) == d.schema \notin {"missing", "damaged"}

SettingsValid(d) == d.settings = "valid" /\ d.sourcesFile = "valid"
\* check_table_datasources of the application.
TablesNamed(d) == d.sourcesFile = "valid" /\ Loads(d, "schema") /\ d.tables = "known"
Connectivity(d, n) == PassIf(d.sourcesFile = "valid" /\ d.db[n].up)
Reached(d, n) == Connectivity(d, n) = Pass
\* A login that can write passes when the transaction is rolled back.
ReadOnly(d, n) ==
    IF ~Reached(d, n) THEN SkipFor("Database connectivity")
    ELSE PassIf(d.db[n].login \in {"refuses", "rolls back"})
RowCap(d, n) ==
    IF ~Reached(d, n) THEN SkipFor("Database connectivity")
    ELSE IF d.db[n].cap = "no probe" THEN Skip ELSE PassIf(d.db[n].cap = "cut")
\* Any error that comes soon enough is taken for the timeout.
QueryTimeout(d, n) ==
    IF ~Reached(d, n) THEN SkipFor("Database connectivity") ELSE PassIf(d.db[n].wait # "runs")

ModelExists(d) == PassIf(d.models = "listed")
AnswersEach(d) ==
    LET answer == IF d.models = "down" THEN "none" ELSE d.answers
    IN IF d.provider = "mock" \/ d.remote = "refused" \/ answer = "thinking" THEN Skip
       ELSE IF answer = "none" THEN SkipFor("OpenAI-compatible model exists") ELSE PassIf(answer = "own")

\* get_active_principals, or the environment's keys when it fails.
EnvUsable(d) == d.envKeys = "keys" /\ ~(d.appdb = "good" /\ d.dbKeys = "revoked")
AnyKey(d) == EnvUsable(d) \/ (d.appdb = "good" /\ d.dbKeys = "issued")
Authenticates(d) ==
    IF d.envKeys = "malformed" THEN Fail
    ELSE IF ~d.auth THEN Pass
    ELSE PassIf(AnyKey(d) /\ d.verifyKey # "unknown")
RealColumns(d) ==
    IF d.envKeys = "malformed" THEN SkipFor("API key authentication")
    ELSE IF ~AnyKey(d) THEN Skip
    ELSE IF ~Parsed(d) THEN SkipFor("project_config/ loads")
    ELSE IF d.described = "none" THEN Skip ELSE PassIf(d.entry = "column")

LogWritable(d) == PassIf(d.log = "writable")
SessionWritable(d) == IF d.session = "off" THEN Skip ELSE PassIf(d.session = "writable")

Files == {"schema", "aliases", "entities", "policies", "other", "prompt"}
\* MUTANT: the files are only counted.
ConfigPresent(d) == PassIf(\A f \in Files : d[f] # "missing")
ConfigLoads(d) == PassIf(\A f \in Files : Loads(d, f) /\ d[f] # "empty")
Curated(d) ==
    IF d.schema = "missing" THEN SkipFor("project_config/ loads") ELSE PassIf(d.schema # "draft")
AliasesCurated(d) ==
    IF d.aliases = "missing" THEN SkipFor("project_config/ loads") ELSE PassIf(d.aliases \notin {"seeds", "tables"})
NoRawValues(d) ==
    IF d.aliases = "missing" THEN SkipFor("project_config/ loads") ELSE PassIf(d.aliases # "raw")
EntitiesMatch(d) ==
    IF ~Parsed(d) \/ ~Loads(d, "entities") THEN SkipFor("project_config/ loads")
    ELSE PassIf(d.entities # "unknown" /\ d.described # "none")
PoliciesReal(d) ==
    IF ~Parsed(d) \/ ~Loads(d, "policies") THEN SkipFor("project_config/ loads")
    ELSE PassIf(d.policies # "sample" /\ d.described # "none")
SourcesDescribed(d) ==
    IF ~Parsed(d) THEN SkipFor("project_config/ loads")
    ELSE IF d.sourcesFile = "invalid" THEN SkipFor("Tables map to data sources")
    ELSE PassIf(d.described = "all")
\* Advice is a PASS.
NoStaging(d) ==
    IF d.staging = "off" THEN Skip ELSE IF ~Parsed(d) THEN SkipFor("project_config/ loads") ELSE Pass
NoSampleValues(d) == IF ~Parsed(d) THEN SkipFor("project_config/ loads") ELSE Pass
NoExcluded(d) ==
    IF ~Parsed(d) THEN SkipFor("project_config/ loads")
    ELSE IF d.sourcesFile = "invalid" THEN SkipFor("Tables map to data sources")
    ELSE IF d.excluded = "off" THEN Skip ELSE Pass
Vocabularies(d) ==
    IF ~Parsed(d) \/ ~Loads(d, "entities") THEN SkipFor("project_config/ loads") ELSE Pass
AllUp(d) == \A n \in ToSet(Sources) : d.db[n].up
InAssignedSources(d) ==
    IF d.sourcesFile = "valid" /\ Len(Sources) < 2 THEN Skip
    ELSE PassIf(d.sourcesFile = "valid" /\ Loads(d, "schema") /\ AllUp(d) /\ d.catalogue # "misplaced")
StructureMatches(d) ==
    IF d.sourcesFile = "invalid" \/ ~Loads(d, "schema") \/ ~AllUp(d) THEN Skip ELSE PassIf(d.catalogue = "same")
RateSane(d) == PassIf(d.rate = "sane")
OriginAllowed(d) == PassIf(d.origin # "refused")

\* ------------------------------------------------------------------ a run
PerSource == <<"Database connectivity", "Login is read-only", "Row cap", "Query timeout">>
Global == <<"Tables are in their data source", "Schema structure matches the databases",
            "OpenAI-compatible model exists", "Model endpoint answers each prompt itself",
            "API key authentication", "Column restrictions name real columns", "Audit log directory writable",
            "Session store directory writable", "project_config/ loads", "project_config/ is curated",
            "Aliases are curated", "Every data source is described", "No staging tables", "No sample values",
            "No excluded schema", "No raw data values", "Entities match schema keys", "Policies use real values",
            "Rate limit sane", "Web UI origin allowed">>
\* build_checks: the checks of a source once for each; of the default, when the
\* file cannot be read.
BuildChecks(d) ==
    LET of(n) == [i \in DOMAIN PerSource |-> Check(PerSource[i], n)]
        all(names) == [i \in DOMAIN names |-> Check(names[i], "all")]
    IN all(<<"Settings.validate()", "Tables map to data sources">>)
       \o FlattenSeq([i \in DOMAIN Sources |-> IF i = 1 \/ d.sourcesFile = "valid" THEN of(Sources[i]) ELSE <<>>])
       \o all(Global) \o IF d.valueCheck THEN all(<<"Filter value check has vocabularies">>) ELSE <<>>

ResultOf(d, c) ==
    CASE c.name = "Settings.validate()" -> PassIf(SettingsValid(d))
      [] c.name = "Tables map to data sources" -> PassIf(TablesNamed(d))
      [] c.name = "Database connectivity" -> Connectivity(d, c.of)
      [] c.name = "Login is read-only" -> ReadOnly(d, c.of)
      [] c.name = "Row cap" -> RowCap(d, c.of)
      [] c.name = "Query timeout" -> QueryTimeout(d, c.of)
      [] c.name = "Tables are in their data source" -> InAssignedSources(d)
      [] c.name = "Schema structure matches the databases" -> StructureMatches(d)
      [] c.name = "OpenAI-compatible model exists" -> ModelExists(d)
      [] c.name = "Model endpoint answers each prompt itself" -> AnswersEach(d)
      [] c.name = "API key authentication" -> Authenticates(d)
      [] c.name = "Column restrictions name real columns" -> RealColumns(d)
      [] c.name = "Audit log directory writable" -> LogWritable(d)
      [] c.name = "Session store directory writable" -> SessionWritable(d)
      [] c.name = "project_config/ loads" -> ConfigLoads(d)
      [] c.name = "project_config/ is curated" -> Curated(d)
      [] c.name = "Aliases are curated" -> AliasesCurated(d)
      [] c.name = "Every data source is described" -> SourcesDescribed(d)
      [] c.name = "No staging tables" -> NoStaging(d)
      [] c.name = "No sample values" -> NoSampleValues(d)
      [] c.name = "No excluded schema" -> NoExcluded(d)
      [] c.name = "No raw data values" -> NoRawValues(d)
      [] c.name = "Entities match schema keys" -> EntitiesMatch(d)
      [] c.name = "Policies use real values" -> PoliciesReal(d)
      [] c.name = "Rate limit sane" -> RateSane(d)
      [] c.name = "Web UI origin allowed" -> OriginAllowed(d)
      [] c.name = "Filter value check has vocabularies" -> Vocabularies(d)

\* main: the list is made once, each check looks when its turn comes.
StartRun ==
    /\ run = Idle
    /\ run' = [at |-> "checking", todo |-> BuildChecks(deploy), results |-> <<>>, fresh |-> TRUE]
    /\ UNCHANGED <<deploy, cards, changes>>
RunCheck ==
    /\ run.at = "checking" /\ run.todo # <<>>
    /\ run' = [run EXCEPT !.todo = Tail(@),
                          !.results = Append(@, [check |-> Head(run.todo), result |-> ResultOf(deploy, Head(run.todo))])]
    /\ UNCHANGED <<deploy, cards, changes>>
Finished(r) == r.at = "checking" /\ r.todo = <<>>
ExitCode(r) == IF \E i \in DOMAIN r.results : r.results[i].result.status = "FAIL" THEN 1 ELSE 0

\* admin_health_checks: a list of results never fails, so it is kept for a while,
\* each kind under its own key.
Deep == {"Login is read-only", "Query timeout", "Tables are in their data source",
         "Schema structure matches the databases", "Model endpoint answers each prompt itself"}
PanelResults(kind, d) ==
    LET checks == SelectSeq(BuildChecks(d), LAMBDA c : kind = "deep" \/ c.name \notin Deep)
    IN [i \in DOMAIN checks |-> [check |-> checks[i], result |-> ResultOf(d, checks[i])]]
PanelChecks(kind) ==
    /\ cards[kind] = Empty /\ cards' = [cards EXCEPT ![kind] = [is |-> kind, of |-> deploy]]
    /\ UNCHANGED <<deploy, run, changes>>
\* The time to live of a card ends, or a refresh is asked for.
Expire(kind) ==
    /\ cards[kind] # Empty /\ cards' = [cards EXCEPT ![kind] = Empty]
    /\ UNCHANGED <<deploy, run, changes>>

\* ------------------------------------------------------------------ server
\* startup_preflight: the files that are read while the server is imported.
Importable(d) == \A f \in Files \ {"prompt"} : Loads(d, f)
\* lifespan, up to its first request.
CanStart(d) ==
    /\ Importable(d) /\ SettingsValid(d) /\ d.envKeys # "malformed"
    /\ d.appdb # "warehouse" /\ TablesNamed(d) /\ d.appdb # "unreadable"
    /\ d.dbKeys # "ambiguous" /\ (d.auth => AnyKey(d)) /\ d.prompt # "missing"

\* ------------------------------------------------------------------ people
Changed(d) ==
    /\ changes < MaxChanges /\ changes' = changes + 1 /\ deploy' = d
    /\ run' = IF run = Idle THEN run ELSE [run EXCEPT !.fresh = FALSE]
    /\ UNCHANGED cards
ChangeDeployment(x, v) == deploy[x] # v /\ Changed([deploy EXCEPT ![x] = v])
ChangeSource(n, y, v) == deploy.db[n][y] # v /\ Changed([deploy EXCEPT !.db[n][y] = v])

Init ==
    /\ deploy = InOrder /\ run = Idle /\ changes = 0
    /\ cards = [kind \in {"plain", "deep"} |-> Empty]
Next ==
    \/ StartRun \/ RunCheck
    \/ \E kind \in {"plain", "deep"} : PanelChecks(kind) \/ Expire(kind)
    \/ /\ changes < MaxChanges
       /\ LET values == Values IN \E x \in DOMAIN values : \E v \in ToSet(values[x]) : ChangeDeployment(x, v)
    \/ /\ changes < MaxChanges
       /\ \E n \in ToSet(Sources), y \in DOMAIN SourceValues : \E v \in ToSet(SourceValues[y]) :
              ChangeSource(n, y, v)
Spec == Init /\ [][Next]_vars

(***************************************************************************)
(* Properties.                                                             *)
(***************************************************************************)
Clean(r) == Finished(r) /\ r.fresh /\ ExitCode(r) = 0

\* "The server will start": after a run without a FAIL over a deployment that
\* stayed as it was the server starts, as far as the application database it
\* does not look into allows.
CleanStarts ==
    (Clean(run) /\ deploy.appdb = "good" /\ deploy.dbKeys # "ambiguous") => CanStart(deploy)

\* "The exit code is 0 only if no check FAILed (SKIPs do not fail the run)": a
\* SKIP that leaves the reason to another check never lets a run pass, since
\* that one fails.  The test of the model's answers is the exception.
SkipsExplained ==
    (Finished(run) /\ run.fresh) =>
        \A i \in DOMAIN run.results :
            LET r == run.results[i] IN
            (r.result.says # "" /\ r.check.name # "Model endpoint answers each prompt itself") =>
                \E j \in DOMAIN run.results :
                    /\ run.results[j].check.name = r.result.says /\ run.results[j].check.of \in {"all", r.check.of}
                    /\ run.results[j].result.status = "FAIL"

\* "Deep and non-deep results are cached separately": no plain card shows what
\* only a deep one runs, and both agree on what both ran, when nothing changed.
CardOfItsKind ==
    LET shown(kind) == PanelResults(cards[kind].is, cards[kind].of) IN
    /\ cards["plain"] # Empty => \A i \in DOMAIN shown("plain") : shown("plain")[i].check.name \notin Deep
    /\ (Empty \notin {cards["plain"], cards["deep"]} /\ cards["plain"].of = cards["deep"].of) =>
          ToSet(shown("plain")) \subseteq ToSet(shown("deep"))

DeploymentSound == CleanStarts /\ SkipsExplained /\ CardOfItsKind

\* A run without a FAIL is a server that starts, whatever the deployment.
PassStarts == Clean(run) => CanStart(deploy)
\* "`OpenAI-compatible model exists` reports an unreachable endpoint".
SilenceReported == Clean(run) => deploy.answers # "none" \/ deploy.provider = "mock" \/ deploy.remote = "refused"
\* A login that passes as read-only cannot write; a source that passes the test of
\* the timeout has one.
LimitsProven ==
    Clean(run) => \A n \in ToSet(Sources) : deploy.db[n].login # "rolls back" /\ deploy.db[n].wait # "refused"
\* "A warehouse that is briefly unreachable does not get pinned as unreachable".
NotPinned ==
    \A kind \in {"plain", "deep"} : cards[kind] # Empty =>
        \A n \in ToSet(Sources) : ~cards[kind].of.db[n].up => ~deploy.db[n].up
=============================================================================
