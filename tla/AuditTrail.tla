----------------------------- MODULE AuditTrail -----------------------------
(***************************************************************************)
(* The audit log: logs/logger.py appends a record of each turn and shifts    *)
(* the files when the active one is full; observability/audit.py finds the    *)
(* record of a turn that is flagged or confirmed; and                         *)
(* scripts/analyze_audit_log.py, observability/quality.py and the admin       *)
(* routes count the records.  Who reads takes no lock: it lists the files     *)
(* and opens them one after another, while others write.                      *)
(*                                                                           *)
(* files[0] is the active file, files[i] backup i; an empty one is no file.   *)
(* A record holds a kind, which stands for what the turn came to.             *)
(***************************************************************************)
EXTENDS Naturals, Sequences, FiniteSets, SequencesExt

CONSTANTS
    Kinds,        \* of records, a subset of DOMAIN Shape
    Placements,   \* <<datasource, the source that was selected>>; "" is no field
    Principals,   \* callers; "" when no key is asked for
    Backups,      \* log_backup_count
    PerFile,      \* records that fit in log_max_bytes
    Zone,         \* hours the server's clock is ahead of UTC
    Days,         \* width of the recent half of the quality report
    Doubles,      \* a turn may leave two records
    RenameFails,  \* a file somebody reads cannot be moved
    MaxTurns, MaxFails, MaxHits, MaxReads, MaxClock   \* bounds

VARIABLES
    clock,
    files,
    writer,       \* who holds _write_lock, and how far the rotation is
    turns,        \* turns so far
    failures,     \* _write_failures
    written,      \* history: the turns whose records were written, in order
    hits,         \* rate_limit_hits.jsonl
    reader,       \* a lookup, or a report, on its way through the files
    confirmed, flagged,   \* turns
    reads

vars == <<clock, files, writer, turns, failures, written, hits, reader, confirmed, flagged, reads>>

Unreported == 99
NoCall == [called |-> FALSE, corrections |-> 0, prompt |-> 0, cached |-> Unreported, prefix |-> 0]
Call(corrections, prompt, cached, prefix) ==
    [called |-> TRUE, corrections |-> corrections, prompt |-> prompt, cached |-> cached, prefix |-> prefix]

\* What a turn leaves: its error, if it has a statement, the guard's verdict, if
\* the refused statement was kept, its rows (columns are known when it ran), and
\* the model's usage: the prompt, the tokens of it that were cached, our prefix.
Made(code, sql, verdict, kept, ran, rows, tier, llm) ==
    [code |-> code, sql |-> sql, verdict |-> verdict, kept |-> kept, ran |-> ran, rows |-> rows,
     tier |-> tier, llm |-> llm]
Shape ==
    [answered  |-> Made("", TRUE, "allowed", FALSE, TRUE, 2, "T2", Call(0, 4, 2, 4)),
     corrected |-> Made("", TRUE, "allowed", FALSE, TRUE, 0, "T2", Call(1, 8, 1, 4)),
     cached    |-> Made("", TRUE, "allowed", FALSE, TRUE, 1, "T0", NoCall),
     not_run   |-> Made("", TRUE, "allowed", FALSE, FALSE, 0, "T2", Call(0, 1, Unreported, 4)),
     asked     |-> Made("", FALSE, "none", FALSE, FALSE, 0, "T2", NoCall),
     refused   |-> Made("FORBIDDEN_SQL", TRUE, "rejected", TRUE, FALSE, 0, "T2", Call(2, 4, 0, 4)),
     empty     |-> Made("EMPTY_SQL_RESPONSE", FALSE, "rejected", FALSE, FALSE, 0, "T2", Call(1, 2, Unreported, 4)),
     declined  |-> Made("OUT_OF_SCOPE", FALSE, "none", FALSE, FALSE, 0, "T2", Call(0, 3, Unreported, 0)),
     down      |-> Made("MODEL_UNAVAILABLE", FALSE, "none", FALSE, FALSE, 0, "T2", NoCall),
     broken    |-> Made("QUERY_EXECUTION_ERROR", TRUE, "allowed", FALSE, FALSE, 0, "T2", Call(0, 3, 3, 4))]

Idle == [pc |-> "idle"]
NoReader == [pc |-> "none"]
Generations == 0 .. Backups
InLog == {files[i][j] : <<i, j>> \in {p \in Generations \X (1 .. PerFile) : p[2] <= Len(files[p[1]])}}

TypeOK ==
    /\ clock \in 0 .. MaxClock /\ DOMAIN files = Generations
    /\ \A i \in Generations : Len(files[i]) <= PerFile
    /\ writer.pc \in {"idle", "rotating", "writing"}
    /\ turns \in 0 .. MaxTurns /\ failures \in 0 .. MaxFails
    /\ Len(hits) <= MaxHits /\ reader.pc \in {"none", "reading", "done"}
    /\ confirmed \cup flagged \subseteq 1 .. turns /\ reads \in 0 .. MaxReads

\* ------------------------------------------------------------- the writer
\* save_audit_record, append_jsonl: a record that no longer fits moves the files.
AppendJsonl(turn, kind, place, principal) ==
    LET record == [turn |-> turn, kind |-> kind, at |-> clock, source |-> place[1],
                   chosen |-> place[2], principal |-> principal]
    IN /\ writer = Idle
       /\ writer' = [pc |-> IF Len(files[0]) = PerFile THEN "rotating" ELSE "writing",
                     generation |-> Backups, record |-> record]
       /\ UNCHANGED <<clock, files, failures, written, hits, reader, confirmed, flagged, reads>>
Turn(turn, kind, place, principal) ==
    /\ turn \in (IF turns < MaxTurns THEN {turns + 1} ELSE {}) \cup (IF Doubles THEN 1 .. turns ELSE {})
    /\ turns' = IF turn > turns THEN turn ELSE turns
    /\ AppendJsonl(turn, kind, place, principal)

\* _rotate, one file at a time: the oldest goes, then each moves up by one.
Rotate ==
    /\ writer.pc = "rotating"
    /\ IF Backups = 0 THEN files' = [files EXCEPT ![0] = <<>>]
       ELSE LET g == writer.generation
            IN files' = IF g = Backups THEN [files EXCEPT ![g] = files[g - 1], ![g - 1] = <<>>]
                        ELSE IF files[g - 1] = <<>> THEN files
                        ELSE [files EXCEPT ![g] = files[g - 1], ![g - 1] = <<>>]
    /\ writer' = IF writer.generation <= 1 THEN [writer EXCEPT !.pc = "writing"]
                 ELSE [writer EXCEPT !.generation = @ - 1]
    /\ reader' = IF reader.pc = "reading" THEN [reader EXCEPT !.moved = TRUE] ELSE reader   \* history
    /\ UNCHANGED <<clock, turns, failures, written, hits, confirmed, flagged, reads>>
\* The line is written, and flushed.
Write ==
    /\ writer.pc = "writing" /\ writer' = Idle
    /\ files' = [files EXCEPT ![0] = Append(@, writer.record)]
    /\ written' = Append(written, writer.record.turn)
    /\ UNCHANGED <<clock, turns, failures, hits, reader, confirmed, flagged, reads>>
\* save_audit_record's except OSError: the turn is answered without its record.
Fail ==
    /\ failures < MaxFails /\ failures' = failures + 1
    /\ writer.pc \in {"writing"} \cup (IF RenameFails /\ reader.pc = "reading" THEN {"rotating"} ELSE {})
    /\ writer' = Idle
    /\ UNCHANGED <<clock, files, turns, written, hits, reader, confirmed, flagged, reads>>

Tick ==
    /\ clock < MaxClock /\ clock' = clock + 1
    /\ UNCHANGED <<files, writer, turns, failures, written, hits, reader, confirmed, flagged, reads>>

\* record_rate_limit_hit, which the middleware calls for a caller with a principal.
Hit(principal) ==
    /\ principal # "" /\ Len(hits) < MaxHits
    /\ hits' = Append(hits, [principal |-> principal, at |-> clock])
    /\ UNCHANGED <<clock, files, writer, turns, failures, written, reader, confirmed, flagged, reads>>

\* ------------------------------------------------------------- the reader
\* resolve_log_paths: the active file sorts first, then .1, .2, ...
Paths == SelectSeq([i \in 1 .. Backups + 1 |-> i - 1], LAMBDA i : files[i] # <<>>)
Open(purpose) ==
    /\ reader.pc = "none" /\ reads < MaxReads /\ reads' = reads + 1
    /\ reader' = [pc |-> "reading", purpose |-> purpose, paths |-> Paths, got |-> <<>>,
                  held |-> InLog, all |-> Len(Paths) = Backups + 1, moved |-> FALSE]   \* history
    /\ UNCHANGED <<clock, files, writer, turns, failures, written, hits, confirmed, flagged>>

\* iter_records: the records of the next file; one that went away is passed over.
ReadFile ==
    /\ reader.pc = "reading" /\ reader.paths # <<>>
    /\ reader' = [reader EXCEPT !.paths = Tail(@), !.got = @ \o files[Head(reader.paths)]]
    /\ UNCHANGED <<clock, files, writer, turns, failures, written, hits, confirmed, flagged, reads>>

\* turn_executed_successfully.
Executed(r) == LET s == Shape[r.kind] IN s.code = "" /\ s.sql /\ s.verdict # "rejected" /\ s.ran
\* find_record_by_turn: the last that matches.
Found(got, turn) == LET mine == SelectSeq(got, LAMBDA r : r.turn = turn)
                    IN IF mine = <<>> THEN {} ELSE {mine[Len(mine)]}

\* submit_feedback needs the turn's record; confirm_turn one that ran.
Settle ==
    /\ reader.pc = "reading" /\ reader.paths = <<>>
    /\ IF reader.purpose.is = "report"
       THEN /\ reader' = [pc |-> "done", got |-> reader.got, confirmed |-> confirmed, flagged |-> flagged,
                          at |-> clock, held |-> reader.held, all |-> reader.all]
            /\ UNCHANGED <<confirmed, flagged>>
       ELSE LET turn == reader.purpose.turn found == Found(reader.got, turn)
            IN /\ confirmed' = IF reader.purpose.is = "confirm" /\ \E r \in found : Executed(r)
                               THEN confirmed \cup {turn} ELSE confirmed
               /\ flagged' = IF reader.purpose.is = "flag" /\ found # {}
                             THEN flagged \cup {turn} ELSE flagged
               /\ reader' = [pc |-> "done", turn |-> turn, found |-> found,
                             held |-> reader.held, all |-> reader.all, got |-> reader.got]
    /\ UNCHANGED <<clock, files, writer, turns, failures, written, hits, reads>>
Leave ==
    /\ reader.pc = "done" /\ reader' = NoReader
    /\ UNCHANGED <<clock, files, writer, turns, failures, written, hits, confirmed, flagged, reads>>

\* ------------------------------------------------------------- the report
Count(records, Test(_)) == Len(SelectSeq(records, Test))
CodeOf(r) == Shape[r.kind].code
CallOf(r) == Shape[r.kind].llm
Called(r) == CallOf(r).called

\* build_llm_status: what the backend says of its cache, or our estimate.
Reported(c) == c.called /\ c.cached # Unreported /\ c.prompt > 0
PrefixHit(c) ==
    IF Reported(c)
    THEN LET shared == IF c.prefix = 0 \/ c.prompt < c.prefix THEN c.prompt ELSE c.prefix
         IN c.cached > 0 /\ 2 * c.cached >= shared
    ELSE c.prompt > 0 /\ c.prefix > 0 /\ 2 * c.prompt < c.prefix

\* _classify_error_code.
Bucket(code) ==
    CASE code \in {"FORBIDDEN_SQL", "INJECTION_ATTEMPT"} -> "guard_policy"
      [] code \in {"INVALID_SQL_RESPONSE", "EMPTY_SQL_RESPONSE"} -> "guard_correctable"
      [] code = "OUT_OF_SCOPE" -> "scope_decline"
      [] code \in {"MODEL_UNAVAILABLE", "MODEL_TIMEOUT", "DATABASE_UNAVAILABLE", "QUERY_TIMEOUT",
                   "SERVER_OVERLOAD"} -> "transport"
      [] code = "QUERY_EXECUTION_ERROR" -> "execution"
      [] OTHER -> "other"
Buckets == {"guard_policy", "guard_correctable", "scope_decline", "transport", "execution", "other"}
FailureTaxonomy(rs) ==
    [success |-> Count(rs, LAMBDA r : CodeOf(r) = ""), failure |-> Count(rs, LAMBDA r : CodeOf(r) # ""),
     by_bucket |-> [b \in Buckets |-> Count(rs, LAMBDA r : CodeOf(r) # "" /\ Bucket(CodeOf(r)) = b)]]

CacheBehaviour(rs) ==
    [t0 |-> Count(rs, LAMBDA r : Shape[r.kind].tier = "T0"), calls |-> Count(rs, Called),
     hits |-> Count(rs, LAMBDA r : Called(r) /\ PrefixHit(CallOf(r))),
     server |-> Count(rs, LAMBDA r : Reported(CallOf(r))),
     server_hits |-> Count(rs, LAMBDA r : Reported(CallOf(r)) /\ PrefixHit(CallOf(r)))]
\* latency_by_cache: the calls of each of its three groups.
ByCache(rs) ==
    [hit |-> Count(rs, LAMBDA r : Reported(CallOf(r)) /\ PrefixHit(CallOf(r))),
     miss |-> Count(rs, LAMBDA r : Reported(CallOf(r)) /\ ~PrefixHit(CallOf(r))),
     unreported |-> Count(rs, LAMBDA r : Called(r) /\ ~Reported(CallOf(r)))]

\* guard_rejection_report: a statement that was not kept has no shape.
Rejected(r) == Shape[r.kind].verdict = "rejected"
Rejections(rs) ==
    [total |-> Count(rs, Rejected),
     not_recorded |-> Count(rs, LAMBDA r : Rejected(r) /\ ~Shape[r.kind].kept),
     shapes |-> Count(rs, LAMBDA r : Rejected(r) /\ Shape[r.kind].kept)]

Corrections == 0 .. 2
CorrectionRounds(rs) ==
    LET of(n) == Count(rs, LAMBDA r : Called(r) /\ CallOf(r).corrections = n)
        fine(n) == Count(rs, LAMBDA r : Called(r) /\ CallOf(r).corrections = n /\ CodeOf(r) = "")
    IN [distribution |-> [n \in Corrections |-> of(n)], succeeded |-> [n \in Corrections |-> fine(n)]]

\* per_principal_usage: times are compared as they are written, the records' in the
\* server's time and the hits' in UTC.
InWindow(stamp, since) == since <= stamp
Usage(rs, hs, since) ==
    LET mine(p) == SelectSeq(rs, LAMBDA r : r.principal = p /\ InWindow(r.at + Zone, since))
    IN [p \in Principals |->
          [queries |-> Len(mine(p)), failures |-> Count(mine(p), LAMBDA r : CodeOf(r) # ""),
           hits |-> Count(hs, LAMBDA h : h.principal = p /\ InWindow(h.at, since))]]

\* _datasource_of.
DatasourceOf(r) == IF r.source # "" THEN r.source ELSE IF r.chosen # "" THEN r.chosen ELSE "(none)"
\* compute_metrics.
Metrics(rs, confirmed_keys, flagged_keys) ==
    LET in_window == {rs[i].turn : i \in DOMAIN rs}
        executed == Count(rs, Executed) errors == FailureTaxonomy(rs).failure
    IN [questions |-> Len(rs), executed |-> executed, errors |-> errors,
        rest |-> Len(rs) - executed - errors,
        empty |-> Count(rs, LAMBDA r : Executed(r) /\ Shape[r.kind].rows = 0),
        guard_rejected |-> Count(rs, Rejected),
        needed_correction |-> Count(rs, LAMBDA r : CallOf(r).corrections > 0),
        out_of_scope |-> Count(rs, LAMBDA r : CodeOf(r) = "OUT_OF_SCOPE"),
        confirmed |-> Cardinality(in_window \cap confirmed_keys),
        flagged |-> Cardinality(in_window \cap flagged_keys),
        rated |-> Cardinality(in_window \cap (confirmed_keys \cup flagged_keys))]
\* _section.
Sources(rs) == {DatasourceOf(rs[i]) : i \in DOMAIN rs}
Section(rs, confirmed_keys, flagged_keys) ==
    [overall |-> Metrics(rs, confirmed_keys, flagged_keys),
     by_datasource |-> [s \in Sources(rs) |->
        Metrics(SelectSeq(rs, LAMBDA r : DatasourceOf(r) = s), confirmed_keys, flagged_keys)]]
\* build_quality_report: the records of the last days, and all of them.
Recent(rs, now) == SelectSeq(rs, LAMBDA r : r.at + Days >= now)

Init ==
    /\ clock = 0 /\ files = [i \in Generations |-> <<>>] /\ writer = Idle /\ turns = 0
    /\ failures = 0 /\ written = <<>> /\ hits = <<>> /\ reader = NoReader
    /\ confirmed = {} /\ flagged = {} /\ reads = 0

Next ==
    \/ \E t \in 1 .. MaxTurns, k \in Kinds, p \in Placements, c \in Principals : Turn(t, k, p, c)
    \/ Rotate \/ Write \/ Fail \/ Tick
    \/ \E c \in Principals : Hit(c)
    \/ Open([is |-> "report"])
    \/ \E t \in 1 .. turns, is \in {"flag", "confirm"} : Open([is |-> is, turn |-> t])
    \/ ReadFile \/ Settle \/ Leave

Spec == Init /\ [][Next]_vars

\* ------------------------------------------------------------- properties
Is(purpose) == reader.pc = "done" /\ ("found" \in DOMAIN reader <=> purpose = "lookup")
Got == {reader.got[i] : i \in DOMAIN reader.got}

\* A record that was in the log when the reader listed the files, and is there when
\* it is through, was read -- if no backup was still to come: the records move away
\* from the files that are yet to be opened, never past the last one
\* (iter_records, _rotate).
EveryRecordRead == (reader.pc = "done" /\ reader.all) => reader.held \cap InLog \subseteq Got
\* Of a turn that can be looked up the lookup finds the one record.
LookupFinds ==
    Is("lookup") => \A r \in reader.held \cap InLog :
        (r.turn = reader.turn /\ reader.all) => reader.found = {r}

\* No record is counted twice unless the files moved under the reader.
TwiceOnlyIfMoved ==
    (reader.pc = "reading" /\ ~reader.moved) => IsInjective(reader.got)

\* What was written stays until as many more records as fit in the backups.
KeptLong ==
    LET from == IF Len(written) > Backups * PerFile THEN Len(written) - Backups * PerFile + 1 ELSE 1
    IN \A i \in from .. Len(written) :
          writer = Idle => \E r \in InLog : r.turn = written[i]

\* A turn that is confirmed was executed, whatever became of its record since; so no
\* more answers count as confirmed than as executed (confirm_turn, compute_metrics).
RatedWereAnswered ==
    Is("report") =>
        LET all == Metrics(reader.got, reader.confirmed, reader.flagged)
        IN /\ all.confirmed <= all.executed /\ all.confirmed <= all.rated
           /\ all.rated <= all.confirmed + all.flagged

\* The sections add up: every question is executed, an error or neither, those of the
\* sources are those overall, and the recent ones are among all of them.
SectionsAddUp ==
    Is("report") =>
        \A all \in {Section(reader.got, reader.confirmed, reader.flagged)},
           recent \in {Section(Recent(reader.got, reader.at), reader.confirmed, reader.flagged)} :
        LET sum(field) == FoldSet(LAMBDA s, n : n + all.by_datasource[s][field], 0, DOMAIN all.by_datasource)
        IN /\ all.overall.rest >= 0 /\ all.overall.empty <= all.overall.executed
           /\ \A f \in DOMAIN all.overall : IsInjective(reader.got) => sum(f) = all.overall[f]
           /\ \A f \in DOMAIN all.overall : recent.overall[f] <= all.overall[f]

\* The report of the log, the quality report and the page of the callers count the
\* same turns: they are computed apart, over the same records.
ReportsAgree ==
    Is("report") =>
        LET rs == reader.got
            taxonomy == FailureTaxonomy(rs) cache == CacheBehaviour(rs) rounds == CorrectionRounds(rs)
            all == Metrics(rs, {}, {}) usage == Usage(rs, hits, 0) guard == Rejections(rs)
            sum(f, of) == FoldSet(LAMBDA x, n : n + f[x], 0, of)
        IN /\ taxonomy.success + taxonomy.failure = all.questions
           /\ sum(taxonomy.by_bucket, Buckets) = taxonomy.failure
           /\ taxonomy.by_bucket["scope_decline"] = all.out_of_scope
           /\ sum([p \in Principals |-> usage[p].queries], Principals) = all.questions
           /\ sum([p \in Principals |-> usage[p].failures], Principals) = all.errors
           /\ guard.total = all.guard_rejected /\ guard.total = guard.not_recorded + guard.shapes
           /\ sum(rounds.distribution, Corrections) = cache.calls
           /\ sum(rounds.distribution, Corrections \ {0}) = all.needed_correction
           /\ sum(ByCache(rs), DOMAIN ByCache(rs)) = cache.calls
           /\ ByCache(rs).hit = cache.server_hits /\ cache.server_hits <= cache.hits

\* A query and a refusal of one caller at one moment are both in the window that is
\* asked for, or both out of it (admin_usage).
UsageOneWindow ==
    Is("report") => \A since \in 0 .. MaxClock, i \in DOMAIN reader.got, j \in DOMAIN hits :
        reader.got[i].at = hits[j].at =>
            (InWindow(reader.got[i].at + Zone, since) <=> InWindow(hits[j].at, since))

TrailSound ==
    /\ EveryRecordRead /\ LookupFinds /\ TwiceOnlyIfMoved /\ KeptLong /\ RatedWereAnswered
    /\ SectionsAddUp /\ ReportsAgree /\ UsageOneWindow
=============================================================================
