----------------------------- MODULE QueryCache -----------------------------
(***************************************************************************)
(* The result cache of POST /query: api/query_cache.py (two LRU stores     *)
(* with a time to live, one keyed by the question, one by the SQL) and the *)
(* requests of api/runner.py, run_query, that read and fill it.            *)
(*                                                                         *)
(* Rows are known by when they were read and for whom.  A key is the       *)
(* configuration component, the question or the SQL, and the caller's      *)
(* scope; an OrderedDict is a sequence, oldest first.                      *)
(***************************************************************************)
EXTENDS Naturals, Sequences, FiniteSets

CONSTANTS
    Requests,     \* threads serving POST /query
    Questions,    \* normalised questions
    Sqls,         \* normalised statements the model may write
    Scopes,       \* scope_key values: what a caller may see
    NoScope,      \* the empty scope of a call that names none
    Ttl,          \* cache_ttl_seconds
    MaxSize,      \* cache_max_size
    MaxVersion,   \* bound: configuration versions
    MaxTime       \* bound: the clock

ASSUME BoundsAssumption ==
    /\ Ttl \in Nat \ {0} /\ MaxSize \in Nat \ {0}
    /\ MaxVersion \in Nat \ {0} /\ MaxTime \in Nat
ASSUME ScopesAssumption == NoScope \notin Scopes

VARIABLES
    now,       \* time.monotonic()
    version,   \* the active configuration version
    store,     \* _store
    sqlStore,  \* _sql_store
    req,       \* per request
    served,    \* history: the last answer given, to whom, when, from where
    dropped    \* history: the last /cache/invalidate, what it found, what was there

vars == <<now, version, store, sqlStore, req, served, dropped>>

\* prefix_version_for_config(prompt, version); 0 stands for the plain content
\* hash prefix_version(prompt), which names no version.
Prefixes == 0 .. MaxVersion

Rows == [read: 0 .. MaxTime, scope: Scopes, version: Prefixes]
NoRows == [read |-> 0, scope |-> NoScope, version |-> 0]

Key(prefix, what, scope) == [prefix |-> prefix, what |-> what, scope |-> scope]
Positions(s, key) == {i \in DOMAIN s : s[i].key = key}
Has(s, key) == Positions(s, key) # {}
Position(s, key) == CHOOSE i \in Positions(s, key) : TRUE
Entry(s, key) == s[Position(s, key)]

Idle == [pc |-> "idle", what |-> NoScope, scope |-> NoScope, version |-> 0,
         sql |-> NoScope, rows |-> NoRows]

\* An ordered dict holds a key once (TypeOK).
Without(s, key) ==
    IF Has(s, key)
    THEN LET i == Position(s, key) IN SubSeq(s, 1, i - 1) \o SubSeq(s, i + 1, Len(s))
    ELSE s

\* MUTANT: the capacity is compared with >.
TrimLate(s) == IF Len(s) > MaxSize THEN SubSeq(s, Len(s) - MaxSize + 1, Len(s)) ELSE s

\* `while len(store) >= max_size: popitem(last=False)`.
Trim(s) == IF Len(s) >= MaxSize THEN SubSeq(s, Len(s) - MaxSize + 2, Len(s)) ELSE s

\* _set_in: an existing key moves to the end, a new one may push out the oldest.
SetIn(s, key, rows) ==
    Append(IF Has(s, key) THEN Without(s, key) ELSE Trim(s),
           [key |-> key, rows |-> rows, expires |-> now + Ttl])

\* _get_from: a fresh entry moves to the end, an expired one goes.
Fresh(s, key) == Has(s, key) /\ now <= Entry(s, key).expires
Touch(s, key) ==
    IF ~Has(s, key) THEN s
    ELSE IF Fresh(s, key) THEN Append(Without(s, key), Entry(s, key))
    ELSE Without(s, key)

Reply(r, rows, hit) ==
    served' = [scope |-> req[r].scope, version |-> req[r].version, at |-> now,
               rows |-> rows, hit |-> hit]

-----------------------------------------------------------------------------
(* run_query.                                                              *)

\* cache_prefix_version_for and scope_key are taken once, at the start.
Start(r) ==
    /\ req[r].pc = "idle"
    /\ \E q \in Questions, s \in Scopes :
        req' = [req EXCEPT ![r] = [Idle EXCEPT !.pc = "lookup", !.what = q, !.scope = s,
                                               !.version = version]]
    /\ UNCHANGED <<now, version, store, sqlStore, served, dropped>>

QuestionKey(r) == Key(req[r].version, req[r].what, req[r].scope)

\* A hit is the answer; a miss asks the model.
Lookup(r) ==
    LET key == QuestionKey(r)
    IN  /\ req[r].pc = "lookup"
        /\ store' = Touch(store, key)
        /\ IF Fresh(store, key)
           THEN /\ Reply(r, Entry(store, key).rows, TRUE)
                /\ req' = [req EXCEPT ![r] = Idle]
           ELSE /\ req' = [req EXCEPT ![r].pc = "sql"]
                /\ UNCHANGED served
        /\ UNCHANGED <<now, version, sqlStore, dropped>>

\* MUTANT: the SQL key has no scope.
SqlKeyUnscoped(r, sql) == Key(req[r].version, sql, NoScope)

SqlKey(r, sql) == Key(req[r].version, sql, req[r].scope)

\* _rows_from_sql_cache: the model wrote a statement; its rows may be cached.
SqlLookup(r) ==
    /\ req[r].pc = "sql"
    /\ \E sql \in Sqls :
        LET key == SqlKey(r, sql)
        IN  /\ sqlStore' = Touch(sqlStore, key)
            /\ req' = [req EXCEPT ![r].sql = sql,
                         ![r].pc = IF Fresh(sqlStore, key) THEN "reuse" ELSE "execute",
                         ![r].rows = IF Fresh(sqlStore, key) THEN Entry(sqlStore, key).rows
                                     ELSE NoRows]
    /\ UNCHANGED <<now, version, store, served, dropped>>

\* The database is read, with the columns this caller may see.
Execute(r) ==
    /\ req[r].pc = "execute"
    /\ req' = [req EXCEPT ![r].pc = "set",
                 ![r].rows = [read |-> now, scope |-> req[r].scope,
                              version |-> req[r].version]]
    /\ UNCHANGED <<now, version, store, sqlStore, served, dropped>>

\* The model or the database failed: nothing is cached.
Fail(r) ==
    /\ req[r].pc \in {"sql", "execute"}
    /\ req' = [req EXCEPT ![r] = Idle]
    /\ UNCHANGED <<now, version, store, sqlStore, served, dropped>>

\* MUTANT: the version is taken again when the answer is stored.
VersionToStoreNow(r) == version

VersionToStore(r) == req[r].version

\* query_cache.set: both stores, with the same new deadline.
Store(r, rows) ==
    /\ store' = SetIn(store, Key(VersionToStore(r), req[r].what, req[r].scope), rows)
    /\ sqlStore' = SetIn(sqlStore, SqlKey(r, req[r].sql), rows)
    /\ Reply(r, rows, FALSE)
    /\ req' = [req EXCEPT ![r] = Idle]
    /\ UNCHANGED <<now, version, dropped>>

\* Rows count as read when they are first answered with.
Set(r) == req[r].pc = "set" /\ Store(r, [req[r].rows EXCEPT !.read = now])

\* Rows found under the SQL are stored again like new ones.
Reuse(r) == req[r].pc = "reuse" /\ Store(r, req[r].rows)

-----------------------------------------------------------------------------
(* The cache routes, an applied configuration version, time.               *)

Clear ==
    /\ store' = <<>> /\ sqlStore' = <<>>
    /\ UNCHANGED <<now, version, req, served, dropped>>

\* POST /cache/invalidate looks under the plain content hash and no scope.
InvalidateKey(q) == Key(0, q, NoScope)

Invalidate ==
    /\ \E q \in Questions :
        /\ store' = Without(store, InvalidateKey(q))
        /\ dropped' = [found |-> Has(store, InvalidateKey(q)),
                       there |-> \E i \in DOMAIN store : store[i].key.what = q]
    /\ UNCHANGED <<now, version, sqlStore, req, served>>

Apply ==
    /\ version < MaxVersion /\ version' = version + 1
    /\ UNCHANGED <<now, store, sqlStore, req, served, dropped>>

Tick ==
    /\ now < MaxTime /\ now' = now + 1
    /\ UNCHANGED <<version, store, sqlStore, req, served, dropped>>

Init ==
    /\ now = 0 /\ version = 1 /\ store = <<>> /\ sqlStore = <<>>
    /\ req = [r \in Requests |-> Idle]
    /\ served = [scope |-> NoScope, version |-> 0, at |-> 0, rows |-> NoRows, hit |-> FALSE]
    /\ dropped = [found |-> FALSE, there |-> FALSE]

Serve(r) == Start(r) \/ Lookup(r) \/ SqlLookup(r) \/ Execute(r) \/ Fail(r) \/ Set(r)
            \/ Reuse(r)

Next ==
    \/ \E r \in Requests : Serve(r)
    \/ Clear \/ Invalidate \/ Apply \/ Tick

Spec == Init /\ [][Next]_vars

-----------------------------------------------------------------------------
(* Properties.                                                             *)

EntryType(whats) ==
    [key: [prefix: Prefixes, what: whats, scope: Scopes \cup {NoScope}], rows: Rows,
     expires: 0 .. (MaxTime + Ttl)]

\* Types; neither store is ever larger than cache_max_size and no key is held
\* twice, however lookups, insertions and expiry interleave.
TypeOK ==
    /\ now \in 0 .. MaxTime /\ version \in Prefixes
    /\ store \in Seq(EntryType(Questions)) /\ sqlStore \in Seq(EntryType(Sqls))
    /\ Len(store) <= MaxSize /\ Len(sqlStore) <= MaxSize
    /\ \A s \in {store, sqlStore} : \A i, j \in DOMAIN s : s[i].key = s[j].key => i = j
    /\ \A r \in Requests : req[r].pc \in {"idle", "lookup", "sql", "execute", "set", "reuse"}

\* Nobody is served rows that were read for callers who may see other columns,
\* directly or through the SQL tier: "different scope keys can never collide".
ScopeIsolated == served.rows.scope = served.scope

\* An answer was produced by a request that started under the same configuration
\* version: entries "become unreachable under the new version's keys", also when
\* the version moves while a request is in flight.
VersionIsolated == served.rows.version = served.version

\* Both at once: what a request is served belongs to its caller and its version.
CacheIsolated == ScopeIsolated /\ VersionIsolated

\* "How long a cached query result stays valid": rows served from the cache were
\* first answered with at most the time to live ago.
AgeBounded == served.hit => served.at <= served.rows.read + Ttl

\* "Returns 404 if the entry does not exist": an answer of /cache/invalidate that
\* the question is not cached is true.
InvalidateFinds == dropped.there => dropped.found
=============================================================================
