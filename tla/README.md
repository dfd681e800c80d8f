# Verification of local-sql-agent

The repository is a server that answers natural-language questions with SQL, and the tools
that set it up, feed it and judge it. This directory models both in TLA+, checks the models
with TLC on small instances, and proves with TLAPS, for all instances, the safety of the
server's parts: the session store, the question pipeline, the configuration versions, the keys
with their roles and requests, the query cache, rate limit and admission, the verdicts on
answers, the analyst's page, the keep-warm, the vocabulary, and the calls to databases and
models. The operators' tools are model-checked.
Paths below are relative to `src/`.

## 1. The system

A question enters through FastAPI (`api/`), is admitted (rate limit, concurrency cap,
maintenance mode), authenticated (`api/auth.py` over `appdb/key_store.py`), attached to a
conversation (`session/`), matched with tables (`retrieval/`, `schema_data/`), turned into
SQL by a language model (`llm/`), judged by the SQL guard (`security/`), run (`database/`)
and answered; some answers are cached (`api/query_cache.py`). Beside this path administrators
change keys, roles, requests for access and the configuration bundle (`appdb/`), while both
keep running: the admin handlers and most session handlers are plain functions on a thread
pool, the ask handlers are coroutines on one event loop that hand the turn to a worker
thread. Two browser pages (`web/`) call these routes. Before and beside the server run the
operators' programs: the set-up wizard, the drafting and synchronisation of `schema.yaml`,
the deployment checks, the migration of the application database, the evaluation. They share
files with the server and with the people who edit them, and they stop half-way.

| Component | State | Operations | What is hard | What makes it correct |
|---|---|---|---|---|
| Session store (`session/store.py`, `persistence.py`, routes in `api/v2_routes.py`) | live records in an ordered dict, rows and turns in SQLite | create, get / rehydrate, ask, rename, delete, expire, purge, restart | two objects for one session, work between lookup and save, eviction by other requests | a transcript holds its creator's turns, an answered turn is stored, deleted stays deleted, bounded memory |
| Question answering (`session/engine.py`, `llm/sql_agent.py`, `api/runner.py`, `llm/router.py`) | the rounds of one request | ask, correct, fall back to another source, check values, execute | four drivers with their own loops | bounded calls, only accepted SQL runs, nothing of one source in another's prompt, no remote prompt without the opt-in |
| Retrieval and prompt (`retrieval/`, `schema_data/registry.py`, `prompt_engine/`) | none but caches | match, rank, prune, join, choose a source, show | names in several schemas and sources, a token budget | what is named is shown, what is shown is read back as shown |
| SQL guard (`security/sql_guard.py`) | none | clean, validate, cap, transpile | scopes, CTEs, unions, two dialects | the cap holds once, the same tables after transpiling, true origins of columns |
| Model calls (`llm/providers.py`), keep-warm (`llm/warmup.py`) | a stream; threads and a lock | call, retry; warm, pause, stop | stalls and broken streams; foreground traffic and restarts | a whole response or an error; one sender, no warm-up after stop |
| Execution (`database/`) | engines, pooled connections | route, check out, ping, run, retry | databases that restart under the pool | a statement runs at home, a pool recovers |
| Vocabulary (`retrieval/dimension_vocabulary.py`) | values per column, claims | fetch, refresh, back off | single flight, stale fetches | newer values stay, a claim is released |
| Query cache (`api/query_cache.py`) | two LRU stores with TTL | get, get_by_sql, set, clear | keys computed before, stored after | rows never cross scopes or versions |
| Configuration versions (`appdb/config_versions.py`) | version rows, files, caches | save, restore, approve, reject | check-then-write, files written after the commit, lazy loads | no lost update, schema changes reviewed |
| Keys, roles, access requests (`appdb/key_store.py`, `roles.py`, `access_requests.py`) | rows, grants, requests, a cached merge with the environment | issue ... deny, import | a cache filled outside its lock, two authorities, outages | revocation holds, decisions are final, somebody can administer |
| Admission (`api/middleware.py`, `concurrency.py`, `maintenance.py`) | buckets, counter, semaphore, flag | consume, acquire, release | cancellation, eviction | limits hold, slots come back |
| Verdicts (`appdb/feedback.py`, `confirmations.py`) | rows per turn, the golden file | flag, withdraw, resolve, confirm, promote | check-then-write | a verdict is final and has a basis |
| Browser pages (`web/js`, `web/admin`) | arrays and cards | fetch, show, act | answers in any order | what is on the screen is what was asked |
| Data sources, schema tools, wizard, policies (`database/`, `schema_data/`, `setup_project.py`, `core/`, `scripts/`) | YAML files and logs | draft, merge, synchronise, place | hand edits, interrupted runs, changing databases | what people wrote stays, files agree with each other and the databases |
| Deployment checks (`scripts/verify_deployment.py`) | a report | check, start | a check that passes for the wrong reason | a clean report means the server starts |
| Migration (`appdb/migrate.py`) | two databases | snapshot, copy, verify | a server that still writes | "verified" means equal |
| Evaluation (`eval/`, `scripts/harvest_golden.py`) | golden file, reports, baseline | harvest, review, verify, run, compare, gate | changing data and files, caps, ties | right answers pass, wrong ones do not, the gate holds |
| Audit log (`logs/logger.py`, `observability/`) | rotated files | append, rotate, look up, count | a reader beside rotation | every record read, figures that add up |

`PROJECT.json` lists every component with its status and the reason where it is not
modelled, and the hazards the properties are for, each with its line.

## 2. The modules

Each component is one module, with one action per critical section: a block under a lock,
one database statement or transaction, one stretch of code that no other actor can observe
in the middle. Every module says in its header what its step is and what its data stand for.
Definitions marked `MUTANT` are plausible mistakes that replace the definition after them
when the properties themselves are tested; no specification uses them. `AdminPanel`,
`Frames` and `Guard` declare RECURSIVE operators; the modules with theorems, and
those they use, recurse by functions and folds.

`PROJECT.json` "map" gives the lines of every definition. What follows says how state and
actions correspond.

### The server

**SessionStore.** Requests (`Reqs`) run the seven session handlers. `hot`, `before` and
`rec` are the ordered dict and the record *objects*: after a demotion or an eviction the
same session may have a second object while a running turn still holds the first. `row` and
`dturns` are SQLite. `Lookup`, `LoadRow`, `LoadTurns`, `Rehydrate` are `get`/`_rehydrate`;
`CreateAdmit`, `CreateRow` are `create`; `StartTurn` .. `SyncSave` are an ask;
`RenameRecord`/`SetTitle` and `DeleteHot`/`DeleteRow` are the other handlers; `Disconnect` is
a client leaving a stream; `Expire`, `Age` and `Restart` are TTL, retention and the process.
`LoopFree` says which steps the event loop serialises.

**Generation.** One question through one of four drivers. The model, the guard's verdict and
the database are the environment: every outcome the code distinguishes may happen. A prompt
records whose schema prefix and which corrections it carries, a statement which named filters
it misses. `Ask*`, `Refuse` and `CallFails` are the router's chain, the `*Accepts` actions what
each driver does with accepted SQL, the rest the correction, spelling, fallback and value rounds.

**ConfigVersions, ConfigLine.** Admin threads save, restore, approve and
reject; the text of a file is the version that introduced it. `Serialised` chooses between the
in-memory engine, which holds a lock for a whole transaction and which the repository itself
configures for its tests only (appdb/engine.py), and the others, where the read
of the active row and the insert are separate steps. `WriteFile`, `Forget` and `ClearModules`
are the work after the commit, in its order; askers load files lazily and cache answers under
the version id. `ConfigLine` is what the docstrings promise: one line of applied versions, each
on top of the one it replaced, drafts beside it, decisions for good. At its end
ConfigVersions maps its table to that line (`Line`, `ImplementsLine`).

**KeyStore.** `loop` is the one request the event loop is authenticating (`Arrive`,
`ReadKeys`, `ReadRoles`, `Store`), `thread` the handlers in the pool. `Merge` combines the
table with the environment. `Restart` edits the environment and runs `bootstrap_from_env`
with its refusals, `Outage` makes the database unreachable. `gone`, `opened` and `granted`
are history used by properties only: the keys revoked, the columns ever opened to a key, and
each approval as a triple of principal, column and the keys there were that day. A handler that
revokes a capability keeps in `counted` the holders its last-admin check saw.

| Module | State and actions | Code |
|---|---|---|
| QueryCache | two sequences of entries, oldest first; requests compute a key, miss or hit, execute, store; `Clear`, `Expire`, a configuration change | `api/query_cache.py`, `run_query` |
| RateLimit | one ordered dict of token buckets, in units of 1/Window; a request is identified, consumes or is refused with Retry-After; the oldest bucket is evicted | `api/middleware.py`, `api/auth.py` |
| Admission | the slot counter, the semaphore, the loop's ready queue, the thread pool; each call of four routes through accept, maintenance, `run_bounded`, worker, stream and cancellation; a worker puts its sentinel (`Finish`) before its thread comes back (`End`) | `api/middleware.py`, `concurrency.py`, `maintenance.py`, `v2_routes.py` |
| TurnVerdicts | audit outcome, flags, confirmations and golden cases of turns; handlers call by call over their transactions, with crashes between and a reread that fails when the row is withdrawn meanwhile; `given` and `cut` are history: numbers the database gave twice, promotions a stop cut short | `appdb/feedback.py`, `confirmations.py`, their routes |
| Vocabulary | per column a list, its age, the claim of the background thread, a back-off; manual refresh and warm-up | `retrieval/dimension_vocabulary.py` |
| KeepWarm | the lock, keeper threads with a generation, warm-up passes, the age of each source's prefix, foreground use | `llm/warmup.py`, `prefix_activity.py` |
| ModelCall | pieces of a stream arriving, deadline, stall, break, garbage, retries | `llm/providers.py` |
| Execution | engines by when they were built, connections alive and recent, statements routed, pinged, retried once; databases go down and up | `database/executor.py`, `routing.py`, `connection.py`, `pool_ping.py` |
| JoinPaths | the foreign-key graph with declared and inferred edges, the shortest-path search, the tables it adds and rejects | `retrieval/join_paths.py` |
| Retrieval | the question's words against aliases, patterns, signals and scores; ranking, pruning, the values found, the chosen source; recall and the script of misses | `retrieval/`, `schema_data/retriever.py`, `eval/recall.py`, `scripts/analyze_misses.py` |
| Registry | schema.yaml and the texts made of it, with a cache and a preview; a written name resolved by the guard's rule | `schema_data/registry.py`, `prompt_engine/` |
| PromptBudget | measured prefixes, the token count asked of the endpoint, the recommended budget, schemas that grow after it | `scripts/prompt_budget.py` |
| Guard | a statement as a small tree through `clean_sql`, validation, `enforce_top`, transpilation and validation again | `security/sql_guard.py`, `llm/sql_agent.py:795-839` |
| WebClient | heap of turn arrays, the open conversation, pending requests; everything between two awaits is a step, answers come in any order and are those of the routes; `crossed` is history: an answer was written into another conversation than its own | `web/js/main.js`, `state.js`, `api.js` |
| AdminPanel | cards with the version they show, flows in flight, address, key, a form's draft, a revealed key | `web/admin/main.js`, `admin.js`, `views.js` |
| AuditTrail | the active file and its backups, a writer, a reader that lists then opens; lookups and the figures of four reports | `logs/logger.py`, `observability/audit.py`, `quality.py`, `scripts/analyze_audit_log.py` |

### The tools

| Module | State and actions | Code |
|---|---|---|
| Migrate | source and target tables, snapshots read table by table beside a server's writes, copy, verification, a second run | `appdb/migrate.py`, `scripts/migrate_app_db.py` |
| Wizard | the log of steps (memory and disk), files with their hand edits, a run in one of two languages, crash and resume, backup and write | `setup_project.py`, `core/wizard_drafts.py` |
| WizardTables | databases, recorded exclusions, the files of the output directory, one run: list, leave out, read, draft, merge with what is there | `setup_project.py` step 2 and its merges, `database/schema_inspector.py` |
| PolicyDrafts | stored values in several spellings, the drafted rings and keys, hand edits, what the retriever then finds | `scripts/draft_policies.py`, `core/policy_drafts.py`, `policy_values.py` |
| DataSources | datasources.yaml as people and the recorder write it, the placement of tables, a server that re-reads it | `database/datasources.py`, `datasources_edit.py`, `scripts/assign_datasources.py` |
| Drafting | the catalogues of two databases through exclusion and naming to the first drafts and proposed relationships | `database/schema_inspector_cli.py`, `schema_draft.py`, `schema_filter.py`, `schema_data/relationship_proposals.py` |
| SchemaSync | databases that change, schema.yaml that people edit, the proposed file, drift checks and their baseline | `schema_data/sync.py`, `placement.py`, `drift.py` |
| Descriptions | which hand wrote each text; a run drafts what is missing, a person corrects and installs | `scripts/draft_descriptions.py`, `schema_data/describe.py` |
| Deployment | a record with a value for each thing a check looks at, the checks one by one or from the panel's cards, and start-up | `scripts/verify_deployment.py`, `core/config_doctor.py`, `config_preflight.py` |
| GoldenSet | turns, the candidates file, the sheet, the reviewer, the golden file, verification | `scripts/harvest_golden.py`, `golden_sheet.py`, `eval/store.py`, `verify.py` |
| Evaluation | runs of cases through the pipeline, reports, baselines, the gate, a warehouse that changes | `eval/runner.py`, `cli.py`, `pipeline.py`, `baseline.py` |
| Frames | two tables of cells compared by rows, columns and tolerance; caps; a diagnosis and a fingerprint | `eval/compare.py`, `diagnosis.py`, `capcheck.py`, `fingerprint.py` |
| Rounds | the split in halves, rounds and the files they leave, comparisons, probes of determinism | `eval/rounds.py`, `determinism.py`, `share.py`, `cli.py` |

### Composition for TLC

The runs of SessionStore, Generation and Wizard use the modules themselves; the values a
`.cfg` cannot write stand at the end of Generation. The MC modules put
several small instances side by side: a variable `part` is chosen in the initial state, only
that machine moves, and a property speaks of the machine of its name (without naming the part
where the others, which stand still in their initial states, satisfy it anyway). What the
proofs assume of an instance's constants (`FirstIsAdmin`, and `LimitsConfigured`,
`VerdictsConfigured`, `PageConfigured`, `DataConfigured`, `CallConfigured`, `WarmConfigured`,
`VocabularyConfigured`, one per machine) TLC evaluates. This is a way to run many instances at
once and says nothing about machines together: they share no state except as inputs (the
configuration id in a cache key, the principal of a request, the answer of a call). Machines
that do share state are one module: the server, the files and the question in ConfigVersions; verdicts, audit log and golden file in TurnVerdicts; a run, the person and
the database in every module of a tool; the checks and the start in Deployment.

* `MCConfig`: `shared` (two admins, serialised transactions, crashes) and `alone` (ConfigVersions
  of the constants - ordinary transactions, crashes - with one of the admins at work, three
  versions and a question). Its `upset` is history for the files: since the last version that was
  applied with nobody else writing, another request wrote too, the version was overtaken, or the
  process stopped between two files. `OneSpec` is the constants' instance by itself.
* `MCKeys`: `life` (issue, enable, revoke, outages, restarts), `edits` (column edits, disabling and
  enabling), `roles` (two threads that grant and demote, outages), `requests` (two threads).
* `MCAnswers`: cache, rate limit in two windows, verdicts three times (two analysts' threads
  beside one admin's; one beside two admins'; one beside one over two turns, where ids of flags are
  given again), the analyst's page (two requests at once, to the point where two
  conversations meet), execution, joins, the model call.
* `MCServing`: admission with short routes and with streamed turns, keep-warm, vocabulary.
* `MCOperators`: the tools, retrieval, the guard, the administrators' page. The variables of
  its machines are slots `s1`, `s2`, ... in the order of each module's `vars`; comments under a
  machine's `Next` name what the instance leaves out.

## 3. What is checked

### Runs that pass

| Run | Instance | Shows |
|---|---|---|
| session_store | all 7 handlers, 3 requests, 2 sessions, 2 principals, room for 1 session, persistence | transcripts hold their creator's turns only; an answered turn is on disk until the session is deleted; a deleted session that no request holds stays gone; the hot set exceeds the limit by at most one session per further owner; eviction only hits the owner who causes it |
| generation_all | 4 drivers, chain of 3 back ends of which the last is remote and not opted in, 3 sources, 2 corrections | the call budget; only accepted SQL runs and nothing leaves for the remote back end at any position of the chain (`PolicyKept`); missing filters are reported and held-back SQL still runs (`ValuesChecked`); an answer of the turn engine leaves a named filter out only after the model was asked about it again or with no round left (`OmissionsAsked`); every question ends |
| config | parts shared and alone of MCConfig | no lost update, a reviewed and applied allowlist; the files on disk are the active version's whenever nobody writes, unless `upset`, and the next version applied alone puts them right (`DiskFollows`); and every step of the table, caches and crashes included, is a step of `ConfigLine` or none of its business |
| keys | parts life, edits, roles, requests of MCKeys | a request that reads the table never accepts a key revoked before it arrived, nobody sees a column never opened to the key, an approval covers disabled keys (`AccessSound`); a revoked key leaves the cache for good; a role revoke takes the last holder away only when its count was made wrong by an overlapping handler or an error (`LastHolderCounted`); decisions are final |
| answers | MCAnswers | no answer crosses scopes or configuration versions (`CacheIsolated`); no caller gets more than the allowance, Retry-After is honest, only the least recent caller is forgotten (`RateSound`); flag and confirmation never settle side by side, a decision nobody else was about to take is final, a golden case asks its flag's question, a promoted flag does not stay in the queue (`VerdictsSound`); until an answer meets another conversation than its own, the page shows, stashes and asks about the conversation it names (`PageSound`); statements run at home over pools that recover (`ExecutionSound`); joins are shortest and of one source (`JoinSound`, with their types); a response is whole and asked again only after errors (`CallSound`) |
| serving | MCServing | slots, permits and threads are counted and bounded, readers fed, maintenance refused (`AdmissionSound`); one sender, warm prefixes, quiet after stop (`WarmSound`); newer values stay (`VocabularySound`); every slot comes back unless the readers of streamed turns have taken every thread of the pool, from which there is no way out (`SlotReturnedOrJammed`), the keep-warm's lock comes back, a stopped thread ends, a claim on a column is released (`AllGivenBack`) |
| operators | MCOperators, 24 parts | `QuestionSound`: what the guard passes is capped once, by the cap it found and with no other LIMIT inside, and asks the rest unchanged, reads the same tables in both dialects, and knows where columns come from; what a question names reaches the prompt; the recommended budget fits. `SetupSound`: a verified copy equals its source; hand edits and results of the wizard survive, its files agree with each other and its exclusions; drafted policies name what they say; sources load, route and start; a clean report starts; cards show the truth. `SchemaSound`: what people wrote stays, one synchronisation is enough, a shown name is read back, drafts follow the catalogue. `GateSound`: right answers pass, the gate compares like with like, golden cases were vouched for, halves stay apart, every record is read and the figures add up |

The conjuncts of these composite properties have their own names and comments in their
modules.

### Runs that are violated

Each states what a doc or comment of the repository says and shows a behaviour of the code
that contradicts it; `PROJECT.json` quotes the line.

| Run | Property | The behaviour |
|---|---|---|
| session_delete_race | `DeletedStaysGone` | a lookup or a turn that overlaps a delete puts the deleted session back |
| generation_stale_source | `PromptsOfOneSource` | after a fallback the turn engine's value round is sent with the abandoned source's prompt |
| config_lost_update | `NoLostUpdate` | two saves on one base both pass the check, and the first is dropped silently |
| key_revoke_race | `RevokedStopsAtOnce` | a load that overlaps a revocation stores the revoked key after the cache was cleared |
| wizard_stale | `ReusedMatchesSchema` | the fingerprint of a changed schema is saved before the steps it invalidates are done again; a run that stops there is resumed with results of the old schema |

### Further instances

The modules state more than the runs keep in their lists. Each row is one module with the
constants of its run except those named, checked by hand with a `.cfg` of its own. "Holds" or
the behaviour found is the outcome.

| Module | Changed | Property | Outcome |
|---|---|---|---|
| SessionStore | Persistent FALSE | `AckedTurnVisible`, `DeletedStaysGone` | hold: without persistence there is one object per session |
| SessionStore | FairSpec | `EveryRequestEnds` | holds: making room never blocks |
| SessionStore | asks only | `TurnCap` | violated: `TurnEngine.ask` appends past the cap (session/engine.py:641; docs/api-contract-v2.md:114) |
| SessionStore | asks and reads | `AckedTurnVisible` | violated: a session demoted while a turn runs is rebuilt without the turn (session/store.py:295) |
| SessionStore | asks and renames | `RenamePersists` | violated: sync_turn writes back the title it read before a rename (session/store.py:379) |
| Generation | Engines {"agent"} | `PromptsOfOneSource` | violated: the agent's correction quotes a statement of the abandoned source (llm/sql_agent.py:554) |
| Generation | Engines {"agent"} | `CorrectionQuotesFailed` | violated: an older statement is shown with a newer error (llm/sql_agent.py:496) |
| ConfigVersions | Serialised FALSE | `AllowlistGoverned` | violated: an operations save overlapping a schema change takes it back unreviewed (appdb/config_versions.py:768) |
| ConfigVersions | Serialised FALSE | `DecisionsFinal` | violated: reject overwrites an approval (appdb/config_versions.py:924) |
| ConfigVersions | two admins, or one and a stop | `DiskIsActive`: `DiskFollows` whatever happened | violated: a stop between the commit and the last file; two versions written to disk in the reverse of their commit order (appdb/config_versions.py:801) |
| ConfigVersions | one admin, one asker | `LiveIsDisk` | violated: a lazy load stores the old text after the cache was cleared (knowledge/aliases.py:47) |
| ConfigVersions | one admin, one asker | `AnswerOfItsVersion` | violated: an old configuration's answer is cached under the new id (api/runner.py:1084) |
| QueryCache | as in answers | `AgeBounded` | violated: rows reused through the SQL store get a new deadline (api/runner.py:442) |
| QueryCache | as in answers | `InvalidateFinds` | violated: the route computes a key no stored entry has (api/server.py:795) |
| KeyStore | two threads demoting | `LastHolderKept` | violated: two overlapping role revokes remove both holders (appdb/roles.py:145) |
| KeyStore | roles, Outages TRUE | `LastHolderKept` | violated: an error while counting holders reads as nobody (appdb/roles.py:91) |
| KeyStore | roles | `HolderCanAct` | violated: a role granted to a principal known only from the environment never takes effect (appdb/key_store.py:304) |
| KeyStore | two threads submitting | `OneOpenTicket` | violated: two overlapping submits both insert (appdb/access_requests.py:200) |
| KeyStore | requests and issue | `AccessFollowsPerson` | violated: a key issued after an approval lacks the column (appdb/key_store.py:332), and an approval widens nothing for an environment-only key (appdb/access_requests.py:342) |
| KeyStore | life | `RevokingClearsAmbiguity` | violated: start-up keeps refusing after the conflicting key was revoked (appdb/key_store.py:165) |
| Admission | as in serving | `SlotReturned` | violated: the work and the reader of a streamed turn take two threads of one pool; enough turns leave none for a reader (api/v2_routes.py:461) |
| Admission | Routes {"patch"}, Toggles 1 | `RefusedInMaintenance` extended to that route | violated: the assumptions route does not name the maintenance check (api/v2_routes.py:584; api/maintenance.py:16) |
| WebClient | as in answers, without the condition on `crossed` | `TranscriptOfSession`, `CacheOfSession`, `AskedWhereShown` | violated: an analyst who clicks while an answer is on its way; a transcript or a turn that arrives after another conversation was opened goes into the one that is open then (web/js/main.js:614, 1436) |
| WebClient | Fails FALSE | `TranscriptComplete` | violated: a reload puts the empty array of the remembered conversation into the cache of transcripts, and the conversation is never fetched (web/js/main.js:606-610) |
| WebClient | as in answers | `NeverDemo` | violated: a 404 for a conversation that is gone switches the page to scripted answers |
| JoinPaths | as in answers | `SmallestSet` | violated: paths are found pair by pair, so together they may add more tables than needed |
| ModelCall | as in answers | `StreamBounded` | violated: the deadline is looked at between pieces only |
| Vocabulary | as in serving | `NewestKeptManual` | violated: a background fetch that read before the operator's refresh and stores after it takes the newer values back |
| TurnVerdicts | as in answers | `GoldenIsOutcome`, `GoldenIdsDiffer` | violated: the case is appended before the flag is resolved, so a stop between the two leaves a case without its outcome, and the next attempt appends a second one |
| TurnVerdicts | as in answers | `ConfirmationStored` | violated: a withdrawal between the insert and the read of the row fails the assertion of `confirm_turn` |
| TurnVerdicts | as in answers | `DecisionKept` | violated: two admins pass the check for an open flag, and the second overwrites the first (appdb/feedback.py:375) |
| TurnVerdicts | as in answers | `GoldenBacked` without its condition on numbers given again | violated: a withdrawn flag's id is given to a flag of another turn while a decision on it is under way, and the case asks the other question |
| Evaluation | SameFile TRUE | `GateHolds` | violated: the report may be written over the baseline it is compared with |
| GoldenSet | as in operators | `PromotedKept` | violated: a flag promoted while a job holds the golden file is lost when the job writes |
| Descriptions | as in operators | `NothingRemoved` | violated: a resumed run asks again for a table drafted in part, and a new answer with other parts replaces the old one |
| PolicyDrafts | as in operators | `RingOfItsName` | violated: a ring whose name is another's without a generic word resolves to that other ring |
| DataSources | as in operators | `EditKept`, `AlwaysRoutes` | violated: the recorder writes back the file it read before an edit; a source removed after start-up is not missed when the file is read again |
| Deployment | as in operators | `PassStarts`, `SilenceReported`, `LimitsProven` | violated: a report without a FAIL does not say that the server starts, that a model answers, or that every source refuses writes and has a timeout |
| Guard | as in operators | `OuterCapKept` | violated: an inner LIMIT is read as the cap of the whole and stripped (security/sql_guard.py:1717-1726) |
| AdminPanel | as in operators | `DraftSurvives` | violated: a reload of the card by hand draws over an open form |
| Frames | as in operators | `WholeStatement` | violated: results that were both cut are equal whatever the rest was |
| Rounds | two rounds, Kinds with "report" | `SameYardstick` | violated: a bundle is compared with a round that has no hash of its cases, so a changed expectation is not noticed |
| AuditTrail | without its condition on the listing | `EveryRecordRead` | violated: a file that is renamed to a backup not yet listed is read twice or not at all |
| AuditTrail | Doubles TRUE | `LookupFinds` | violated: two records of one turn |
| AuditTrail | Zone 1, MaxHits, MaxClock and MaxTurns 1, Principals {"a"} | `UsageOneWindow` | violated: the script takes the window in UTC, the records are in local time (scripts/analyze_audit_log.py:1165, api/runner.py:794) |
| Retrieval | ExtraTables 0 | `NamedReachesPrompt` | violated: a table added for a signal is cut again (schema_data/retriever.py:445) |
| Registry | an unqualified table beside a qualified one of its name, or names that differ in case only with db_schema | `ShownResolves` | violated: the name is shown bare and read as two (schema_data/registry.py:1311-1345, security/sql_guard.py:893-900) |
| Registry | two relationships of one pair; one with an unknown right table | `JoinsShown`, `EndsKnown` | violated: the later replaces the earlier; only the left end is checked (schema_data/registry.py:1120) |
| Drafting | source b excludes a table a declared key names | `LinksHold` | violated: the link is proposed all the same (schema_data/relationship_proposals.py:304) |
| Drafting | locations without a schema; two tables of a name, both without visible columns | `LaterSyncAgrees`, `KeysMeanTables` | violated: the synchronisation takes the missing schema for "dbo" (schema_data/placement.py:134) |
| WizardTables | a declared key whose target is left out | `LinksOnce`, `KeysFollow` | violated: the link to the unread table stays (setup_project.py:2509-2517) |
| WizardTables | a review that writes entities.yaml and stops | `KeysFollow` | violated: rules and links keep a key that is ambiguous now, and no later run re-keys them (setup_project.py:4817) |
| WizardTables | an operator's entity whose name becomes shared | `LinksOnce` | violated: old and new link of one pair |

`RevokedOnReload` speaks of requests that did reach the table. While the application database
is unreachable `_load_db_rows` answers no rows, and then every key the environment lists
authenticates, revoked or not; `RevocationTakesHold` leaves such keys out for that reason.
In WizardTables a table of two sources that a person leaves out counts once while the listing
counts it twice (setup_project.py:3298), so `CountedOnce` speaks of locations.

### Bounds, and why they are enough

Two of each actor is what a race between a check and a write needs; the session run uses
three requests because its behaviours need a creator and two more, and a limit of one
session makes eviction happen at once. Three sources and two corrections let a fallback
happen before, between and after corrections, and three back ends put the remote one
behind two that may fail. Four versions are the bootstrap, a base, and two that compete
for it. A cache time of 2 past a TTL of 1 covers fresh, expiring and expired. The tools run
twice (three times for the synchronisation), because what goes wrong is what a second run
makes of the first one's files, with one edit or one change of the databases between;
statements, frames, worlds of tables and schema files are enumerated sets that contain each
shape the code tells apart.

Every constant named `Max...`, the finite `Reqs`, `Queries`, `FreshKeys` and the sets of
inputs given in the MC modules cut behaviours off; everything else is finite by itself. The
comments under a machine's `Next` in MCOperators name the further restrictions (the order of
an edit and a run, one placement for unusual sources, one outcome of a first turn); they
select behaviours, never steps of the code. Symmetry is used over requests, handlers,
sessions and principals that no configuration distinguishes, and never with a liveness
property.

### Fairness

* SessionStore's `FairSpec`: `WF` on `Serve(r)`, the next step of a request that has started.
  A thread or a coroutine that is runnable is eventually run, and locks are held for finite
  blocks. The environment's steps (new requests, disconnects, time, restarts) are not fair. A
  turn ends because the calls in it have timeouts.
* Generation's `FairSpec`: `WF` on the single step of the request, for the same reason.
* KeyStore: `WF` on `Expire` alone, which is the monotonic clock: an entry that stays in the
  cache reaches its age. It does not need the loader to finish.
* Admission: `WF` on the pool's `Take`, on the event loop's next callback, on each call's
  maintenance check, each reader's `Get`, each worker's `Finish` and the return of its thread
  (`End`); nothing on arrivals, cancellations or the maintenance switch.
* KeepWarm: `WF` on each thread's next step; the stop event and the operator are not fair.
* Vocabulary: `WF` on the background thread of each column; calls have timeouts.

The other modules state safety only: a person or a program that stops half-way is one of
their behaviours.

## 4. What is proved

Seven modules prove 42 results about the specifications themselves, for every value of the
constants. Each has an inductive invariant that holds
in the initial states (`InitInv` or its like), is kept by each action (one lemma or step per
action, under it one step per conjunct the action disturbs) and implies what the runs check.
The only assumptions are those the modules name, which TLC evaluates in every run, and the
hypotheses written in a theorem.

| Module | Theorem | Proves | Hypothesis |
|---|---|---|---|
| SessionStoreProofs | `TypeCorrect`, `Isolation`, `Bounded`, `Eviction`, `Durable`, `Forgotten` | `TypeOK`, `TranscriptIsolation`, `HotSetBounded`, `EvictionStaysHome`, `AckedTurnDurable`, `GoneForGood` | |
| GenerationProofs | `TypeCorrect`, `Budget`, `Policy`, `Values`, `OmissionsAskedAbout` | `TypeOK`, `BudgetKept`, `PolicyKept`, `ValuesChecked`, `OmissionsAsked` | |
| ConfigProofs | `TypeCorrect` | `TypeOK` | |
| | `NothingLost`, `AllowlistOfSecurity`, `OneLineOfVersions` | `NoLostUpdate`, `AllowlistKept`, `ImplementsLine` | `Exclusive` |
| | `FilesFollowTheTable` | `DiskFollows`, of the constants' instance (`OneSpec`) | |
| KeyStoreProofs | `TypeCorrect`, `AccessIsSound`, `DecisionsAreFinal` | `TypeOK`, `AccessSound`, `DecisionFinal` | |
| | `LastHolderStays` | `LastHolderCounted` | |
| AnswersProofs | `Isolation`, `TypeCorrect` | `CacheIsolated`, the type invariant of QueryCache | |
| | `VerdictsAreSound`, `PageIsSound` | `VerdictsSound`, `PageSound` | |
| | `RateIsSound` | `RateSound` | |
| | `DataIsSound`, `ModelCallIsSound` | `ExecutionSound`, `CallSound` | |
| | `PartsTypeCorrect` | `MCTypeOK` | |
| | `AnswersAreSound` | all of these, of the run's specification | |
| ServingProofs | `TypeCorrect`, `CountsKept` | the type invariant of Admission, `AdmissionSound` without maintenance | |
| | `AdmissionIsSound` | `AdmissionSound` | `"patch" \notin Routes` |
| | `WarmIsSound`, `VocabularyIsSound` | `WarmSound`, `VocabularySound` | |
| | `PartsTypeCorrect` | `MCTypeOK` | |
| CallProofs | `ExecutionIsSound`, `TypeCorrect` | `ExecutionSound` and the type invariant of Execution | `Configured` |
| | `CallIsSound`, `CallTypeCorrect` | `CallSound` and the type invariant of ModelCall | `Configured` |
| | `AllowanceIsSound`, `AllowanceTypeCorrect` | `RateKept`, `RetryHonest`, `OnlyLeastRecentForgotten` and the type invariant of RateLimit | `Configured` |

`Exclusive` and the missing route exclude behaviours in which a run or a further instance shows the
property violated. `Configured` says what constants an
instance has: CallProofs has it as a hypothesis, the MC modules state it of their instances, so
that the theorems of AnswersProofs and ServingProofs need none. AnswersProofs takes what
CallProofs shows through an instance of it. Where MCAnswers gives constants of a machine values of
its own (turns of a conversation, reloads, the capacities of the two rate limits), its theorems are
for those and for all values of the others; the ones in CallProofs are for all.

### SessionStore

*Isolation* is not inductive alone: a request that passed its 404 check writes later,
through an object reference, and a rehydrating request builds an object before anyone can
see it. `OwnershipInv` adds what those two need: every record belongs to the creator of
its session and lists that creator's turns (`RecordsAgree`), the dict maps ids to records of
that id (`HotAgrees`), rows and stored turns name the creator (`DiskAgrees`), and a request
past its check holds a record of its own session that its caller owns while the record
being rebuilt is still private to it (`RequestsAgree`). The proof takes each action and
shows each part; `AfterLookupGuards` is the 404 check, `AdmitFacts` what admission does to
the dict.

*Bounded* holds for infinite request sets too. It uses finite cardinalities on top of
`OwnershipInv`: `AdmitKeepsBound` shows that the eviction
loop of `_make_room_for`, which only removes the caller's own sessions and stops when none is
left, cannot exceed the limit by more than one per owner; `RemoveKeepsBound` and
`SameHotKeepsBound` cover the actions that shrink or keep the hot set, and `OwnersKept` that
nobody else's ownership moves. *Eviction* follows from `AdmitEvictsOwn` and the invariant.

*Durable* needs `AnswersInv`: a position belongs to its handler, so only an ask can be at the
upsert that ends in an answer (`KindsAgree`), and no id that a request names or that was
removed is free to be created again (`SessionsCreated`). `MoveKeepsAnswers` is the step every
action instantiates: nobody drops a stored turn of a session that still exists. *Forgotten*
is an action property from the same invariant: the requests that found the session earlier
are the only ones that could still put it back, and none of them is left.

### Generation

`IInv` adds to the type and the policy: there is a statement wherever the code looks at one,
and a held-back one waits in the value round only (`StatementAtHand`); every round so far has
cost one call (`CallsCounted`), from which *Budget* follows at any point and not only at the
end; a statement past the guard is one it accepted (`PastGuardAllowed`); a held-back statement
is on its way to the database, there already, or answered (`HeldBackSomewhere`), which is the
second half of *Values*. *OmissionsAskedAbout* needs an invariant of its own (`Asked`): from the moment
the correction rounds let a statement of the turn engine go, through the spelling and the value
round and a fallback, its omissions were asked about, for the candidate and for the statement held
back alike.

### ConfigVersions

The proofs have two layers. `AnyInv` holds however transactions overlap: the types, the bootstrap
version applied (so that there always is an active one), `Room`, which counts the pending inserts
against `MaxVersions`, and `QuestionUnderWay`, which types the caches and the questions. *TypeCorrect* and
*FilesFollowTheTable* need no more.

`Exclusive` says that the writes of two admins do not overlap: the engine serialises
transactions, or there is one admin. Without it `config_lost_update` is the counterexample. The
lemmas about single steps need only that no two admins are about to write in the state they
start from (`OneWriter`).
`IInv` adds to `AnyInv` the table and what a request has checked. Every version was made on an
applied one and nothing was applied in between (`MadeOnApplied`, `OneLine`), a change of
`schema.yaml` carries the security admin's consent (`Reviewed`); the lock is held by whoever
is about to write (`WriterHolds`), so what it read still holds (`ReadyToWrite`); files and
allowlist are texts of applied versions (`FilesApplied`).

*OneLineOfVersions* is the refinement: `LineStarts` maps the initial states, and `StepMaps`
each step, to a step of `ConfigLine` under the mapping at the end of ConfigVersions - an insert
to an application or a draft, an approval and a rejection to a decision, the work on files,
caches, questions and a stop of the process to a stutter.

*FilesFollowTheTable* has no hypothesis on engine, admins or stops. `FilesInv` says, while nothing has
upset the files, which of them are already those of the active version when the one admin that
writes (`Writes`) is between its commit and its last file, and that all are when nobody writes. What
makes the table and the files disagree for good is what `upset` records, and a version applied
alone resets it.

### KeyStore

`IInv` has one part per owner of state: the tables (`TablesInv`), the handlers with what each
statement may rely on (`HandlersInv`), the request being authenticated (`LoopInv`), the cache
(`CacheInv`), and the room left in `access_requests` (`RoomInv`). Tables only grow (`Grown`):
a revoked key stays a tombstone and a column once opened stays in `opened`, so rows read before
an await say something true of the table after it; that is what lets the parts be proved
separately. `Stands` is what is left of an approval after later handlers: keys of its day
that still are that principal's and not revoked show the column.

*LastHolderStays* says which revokes can leave a capability without holders, in every
interleaving and with outages: `CountsInv` carries what the last-admin check let pass to the delete, so a
revoke that takes the last holder counted nobody, or somebody who has since lost the grant. Both happen,
as two further instances of `LastHolderKept` show.

### QueryCache, RateLimit

*Isolation* describes both stores by one predicate, `Sound`: an entry's rows carry the scope and
the version of its key, a key is there once, and there is room. Lookup, reuse through the SQL
store, insertion with eviction, expiry and `clear` each keep it; `Request` says that a request
in flight holds rows of the scope and version it started with, whatever the configuration became.

`RateSound` is about what a caller was granted since its bucket was made, a bucket holds only
what is left. `Earned` relates the two: what was granted and what is left are no more than
the capacity and the refill until the bucket was last stamped. `Due` says that a refused caller's
bucket will have a token when it was told to come back, and the last conjunct of `LimitInv`
that the buckets stand in the order in which their callers were seen, so that the one evicted
is the least recent. A key without a bucket has no past. Time times rate is not linear;
`Products` states the few facts about products the steps need. `LimitBounds` adds, for the types,
how far the counts go.

### Admission

Admission's queues - the loop's callbacks, the semaphore's waiters, the pool's work - are used as
the sets of what they hold (`QueuesInv`: each thing once). `HandlerInv`, `TaskInv` and `ReaderInv`
place every call's callbacks and work items by how far its handler and its task are; with them
`SlotsInv` and `PermitsInv` count: a slot is taken for the calls whose handler is inside, a permit
for the tasks inside, and each step moves one call from one side to the other. `ReaderInv` also
shows that a reader that still waits finds the sentinel once the work is over. `SinceInv` says
that a gated call that met maintenance is refused. The assumptions route (`"patch"`) does not
declare that check (api/v2_routes.py:584), so *AdmissionIsSound* excludes it and *CountsKept*
keeps the rest for it.

### TurnVerdicts

Handlers open a transaction per call, so `RequestOk` says what each request still knows between two
of them: a confirmation that inserts has seen a turn that did not fail; a decision that chose the golden
case has its line in the file, asking the question of the turn it read, and unless the number of its
flag was given again, the flag, if it is still there, is of that turn. `VerdictsExclude` is
inductive as stated, because `Settles` names the requests that will take a verdict back: one
whose reread will find the row it stored, or one past it. A request whose reread fails does not
count, and does not have to: whoever took its row away is another handler that settles the turn,
or a withdrawal after which there is no open flag. `PromotedDecided` and `DecisionFinal` say what is left of "one outcome per flag" with several
admins, stops and numbers given again; the strict forms are rows of the further instances.

### WebClient

The page keeps one array per conversation and shows one of them. Requests overlap freely, the server
changes meanwhile, calls fail, answers come in any order. `PageInv` says, of the page that talks to the
server and until two conversations met (`crossed`), whose array is whose (`PageOk`): a cached array holds turns
of its session and is cached for no other (`Coherent`); the array that is open is that of the open
conversation (`Held`) unless its transcript is still being fetched, and so is what is drawn (`Seen`)
unless its cards are still to come. The lemmas take each answer and show that one which is of the open
conversation keeps this, and each click that it hands over a coherent page; what is left is the answer written
into another conversation (main.js:614, 1436) and the transcript stashed before it came, which are `crossed`.

### KeepWarm, Vocabulary

One thread sends because whoever is in a pass holds the lock (`ThreadOk`). That no source stays
unused for long is a bound that depends on where the one running keeper is: `Limit` is that bound
while it waits, sets up, has the source still before it, or is past it, and shrinks with the timer
and the budget left; `Rests` says that the rest of a pass is an end of the list of sources. `IdleInv`
relates the age of a prefix to the time without a use, which a skipped source makes differ, and
`late` counts what a stopped thread still sends.

`VocabularySound` holds because a column has one background thread at a time, which alone gives the
claim back (`OneThread`); what it is about to store is then no older than what such a thread
stored (`StoresNewest`).

### Execution, ModelCall

`ExecutionSound` needs that whoever has a connection has it alone (`Apart`), that the builder of
an engine holds the lock (`LockInv`), that `_engines` names engines that are there
(`EnginesInv`), and what a thread knows of the connection it was handed (`Knows`). `CallSound` needs that
the text of an attempt is as far as its stream (`TextInv`) and how all attempts but the last
ended (`PostsInv`).

### What stays with TLC

* Liveness, which the prover does not do: `Terminates`, `RevocationTakesHold`, `AllGivenBack`.
* `JoinSound`: what the search returns, its types and that its path is shortest, is induction over the
  data of a recursive function.
* The five invariants of the operators run: guards, comparisons and merges compute recursively over
  their data, and range over enumerated inputs.

## 5. What is not modelled, and why

* **Memory** (`session/memory.py`, `knowledge/memory_policy.py`): remembered values per principal,
  one upsert or delete per call, which meet only in the limit on their number.
* **Clarification and refinement** (`session/ambiguity.py`, `session/refinement.py`): pure functions
  from a question and the session's turns to a plan; their outcomes are branches of Generation.
* **Authentication failures log** (`security/auth_failures.py`): a bounded ring in memory that
  only a report reads.
* **Knowledge loading**: files to dictionaries; the races of its caches are in ConfigVersions.
* **Export**: formats rows that were already accepted and read.
* Inside modelled components: the wording of prompts, formatting of results, timestamps and
  counters shown to people. In the guard: the grammar, the single forbidden nodes (one field of
  the statement stands for them), the column policy, and the separation of CTE names from table
  names, which the parser does. `relationship_map.py` and `value_resolver.py` are used by tests
  only.
* WizardTables leaves out the mode in which sources are given by URL, value synonyms, ring
  aliases, the counts of single rules, and schemas that exist in one source only.
* Wizard: a hand edit between a backup and its write is left out, `relationships.yaml` is not
  validated, the log of backups is not written.
* `session_ttl_seconds <= 0` and `key_cache_ttl_seconds <= 0`, which switch a mechanism off;
  several server processes on one database (the in-process caches of each are what the modules
  describe); providers other than the OpenAI-compatible one; the `webapp/` directory.
