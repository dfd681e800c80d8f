-------------------------------- MODULE Guard ---------------------------------
(***************************************************************************)
(* security/sql_guard.py as llm/sql_agent.py:795-839 runs it: a statement of  *)
(* the model is cleaned, validated and capped as T-SQL, and transpiled to the *)
(* dialect of the source and validated again.                                *)
(*                                                                          *)
(* A statement is a small tree.  What the walk over single nodes looks for is *)
(* one field, `flaw`; the column policy is not modelled, and a CTE is never   *)
(* named like a table of the schema.                                         *)
(***************************************************************************)
EXTENDS Naturals, Sequences, FiniteSets, SequencesExt, FiniteSetsExt

CONSTANTS
    Entries,       \* the tables schema.yaml may list: records [key, bare, qual, columns, source]
    Dialects,      \* the dialects a source may have
    DefaultTop,    \* settings.default_top_n
    Limits,        \* the caps a model writes; 0 is none
    InnerLimits    \* those it writes inside, as LIMIT

VARIABLES
    schema,        \* the entries of schema.yaml
    target,        \* the dialect of the source
    asked,         \* the statement as the model wrote it
    sql,           \* the statement as it stands
    at,            \* "raw", "cleaned", "valid", "capped", "translated", "ready" or "refused"
    reason,        \* of the refusal
    injected       \* the cap ensure_top put in, or 0

vars == <<schema, target, asked, sql, at, reason, injected>>

(***************************************************************************)
(* Statements.                                                             *)
(***************************************************************************)
\* Sources of a FROM clause: a table reference or a derived table.
Ref(name, qual, alias) == [is |-> "table", name |-> name, qual |-> qual, alias |-> alias]
Derived(body, alias) == [is |-> "query", body |-> body, alias |-> alias]
\* Column references and projections.
Col(of, name) == [of |-> of, name |-> name]
Star(of) == [is |-> "star", of |-> of]
Copy(col, as) == [is |-> "copy", col |-> col, as |-> as]
Computed(as) == [is |-> "computed", as |-> as]
\* Queries: `top` as in T-SQL, `limit` as elsewhere; 0 is none.
Select(from, out) == [is |-> "select", from |-> from, out |-> out, top |-> 0, limit |-> 0, order |-> FALSE]
Union(left, right) == [is |-> "union", left |-> left, right |-> right, limit |-> 0, order |-> FALSE]

RECURSIVE RefsOf(_), LimitsOf(_), Unlimited(_)
Parts(q) == IF q.is = "union" THEN <<q.left, q.right>>
            ELSE [i \in DOMAIN SelectSeq(q.from, LAMBDA s : s.is = "query") |->
                     SelectSeq(q.from, LAMBDA s : s.is = "query")[i].body]
\* The table references of a query.
RefsOf(q) ==
    UNION {RefsOf(p) : p \in ToSet(Parts(q))} \cup
    (IF q.is = "select" THEN {s \in ToSet(q.from) : s.is = "table"} ELSE {})
Bodies(s) == {s.query} \cup {s.ctes[i].body : i \in DOMAIN s.ctes}
Refs(s) == UNION {RefsOf(q) : q \in Bodies(s)}
\* The LIMITs in the order in which they are written.
LimitsOf(q) ==
    FlattenSeq([i \in DOMAIN Parts(q) |-> LimitsOf(Parts(q)[i])]) \o (IF q.limit > 0 THEN <<q.limit>> ELSE <<>>)
Unlimited(q) ==
    IF q.is = "union" THEN [q EXCEPT !.left = Unlimited(@), !.right = Unlimited(@), !.limit = 0]
    ELSE [q EXCEPT !.limit = 0,
                   !.from = [i \in DOMAIN @ |-> IF @[i].is = "query" THEN [@[i] EXCEPT !.body = Unlimited(@)] ELSE @[i]]]

(***************************************************************************)
(* Tables: the name as written, and schema.yaml.                           *)
(***************************************************************************)
\* _cte_names, 823-831.
CteNames(s) == {s.ctes[i].alias : i \in DOMAIN s.ctes}
Match(status, key) == [status |-> status, key |-> key]
NoKey == "no key"
\* _match_table_ref, 863-900, over the index _build_schema_lookup makes.
MatchRef(r) ==
    LET candidates == {e \in schema : e.bare = r.name}
        exact == {e \in candidates : e.qual = r.qual}
        loose == {e \in candidates : e.qual = <<>>}
        only(S, otherwise) ==
            IF Cardinality(S) = 1 THEN Match("resolved", (CHOOSE e \in S : TRUE).key)
            ELSE Match(IF S = {} THEN otherwise ELSE "ambiguous", NoKey)
    IN IF candidates = {} THEN Match("unknown", NoKey)
       ELSE IF r.qual # <<>>
       THEN only(IF exact # {} THEN exact ELSE loose, "qualifier_mismatch")
       ELSE IF Cardinality(candidates) = 1 /\ \E e \in candidates : Len(e.qual) > 1
       THEN Match("multi_part_only", NoKey)
       ELSE only(candidates, "unknown")
\* _resolve_table_name, 919-939.
Resolve(r, ctes) == IF r.name \in ctes THEN NoKey ELSE MatchRef(r).key
Entry(key) == CHOOSE e \in schema : e.key = key
HasColumn(key, name) == name \in ToSet(Entry(key).columns)
\* extract_touched_tables, 2516-2595.
Touched(s) == {Resolve(r, CteNames(s)) : r \in Refs(s)} \ {NoKey}

(***************************************************************************)
(* column_origins, 1224-1273: where a column comes from.                   *)
(***************************************************************************)
Unknown == {<<"cannot", "tell">>}
\* The union of what the parts say; nothing is known when one of them does not say.
Joined(S) == IF Unknown \in S THEN Unknown ELSE UNION S
Label(source) == source.alias

RECURSIVE BodyOrigins(_, _, _), ScopeOrigins(_, _, _)
\* _source_origins, 1090-1107.
SourceOrigins(source, name, s) ==
    IF source.is = "query" THEN BodyOrigins(source.body, name, s)
    ELSE IF source.qual = <<>> /\ source.name \in CteNames(s)
    THEN BodyOrigins((CHOOSE c \in ToSet(s.ctes) : c.alias = source.name).body, name, s)
    ELSE LET key == Resolve(source, CteNames(s))
         IN IF key = NoKey THEN Unknown ELSE IF HasColumn(key, name) THEN {<<key, name>>} ELSE {}
\* _scope_origins, 1110-1147, within one select.
ScopeOrigins(q, col, s) ==
    LET chosen == {x \in ToSet(q.from) : col.of = "" \/ Label(x) = col.of}
    IN Joined({SourceOrigins(x, col.name, s) : x \in chosen})
\* _select_output_origins, 1156-1184.
OutputOrigins(q, name, s) ==
    LET named == {p \in ToSet(q.out) : p.is # "star" /\ p.as = name}
        stars == {p \in ToSet(q.out) : p.is = "star"}
    IN IF named # {}
       THEN Joined({IF p.is = "computed" THEN Unknown ELSE ScopeOrigins(q, p.col, s) : p \in named})
       ELSE Joined({ScopeOrigins(q, Col(p.of, name), s) : p \in stars})
\* _setop_branches, 2598-2615.
RECURSIVE Branches(_)
Branches(q) == IF q.is = "union" THEN Branches(q.left) \o Branches(q.right) ELSE <<q>>
\* _body_origins, 1187-1221.
BodyOrigins(q, name, s) ==
    LET branches == Branches(q)
        first == branches[1]
        positions == {i \in DOMAIN first.out : first.out[i].as = name}
        at_(b, i) == IF i > Len(b.out) THEN Unknown
                     ELSE IF b.out[i].is # "copy" THEN Unknown ELSE ScopeOrigins(b, b.out[i].col, s)
    IN IF q.is = "select" THEN OutputOrigins(q, name, s)
       ELSE IF \E p \in ToSet(first.out) : p.is = "star"
       THEN Joined({OutputOrigins(b, name, s) : b \in ToSet(branches)})
       ELSE IF positions = {} THEN {}
       ELSE Joined({at_(b, Min(positions)) : b \in ToSet(branches)})
Origins(s, col) ==
    LET found == ScopeOrigins(s.query, col, s) IN IF found = Unknown THEN {} ELSE found

(***************************************************************************)
(* The steps.                                                              *)
(***************************************************************************)
\* _ensure_top_ast, 2618-2708, and ensure_top, 2711-2891: one cap on the outermost query.
Uncapped(q, dialect) == IF dialect = "tsql" /\ q.is = "select" THEN q.top = 0 ELSE q.limit = 0
Cap(q, n, dialect) == IF dialect = "tsql" THEN [q EXCEPT !.top = n] ELSE [q EXCEPT !.limit = n]
Wrapped(q) == Select(<<Derived(q, "_ensure_top_capped")>>, <<Star("")>>)
OrderedUnion(q) == q.is = "union" /\ (q.order \/ \E b \in ToSet(Branches(q)) : b.order)
CannotCap(q, dialect) == OrderedUnion(q) /\ Uncapped(q, dialect)
EnsureTop(q, n, dialect) ==
    IF ~Uncapped(q, dialect) THEN q
    ELSE IF q.is = "union" THEN Cap(Wrapped(q), n, dialect) ELSE Cap(q, n, dialect)

\* clean_sql, 1614-1732: every LIMIT goes, and the first is the cap of the whole.
WrittenLimits(s) == FlattenSeq([i \in DOMAIN s.ctes |-> LimitsOf(s.ctes[i].body)]) \o LimitsOf(s.query)
Stripped(s) ==
    [s EXCEPT !.query = Unlimited(@), !.ctes = [i \in DOMAIN @ |-> [@[i] EXCEPT !.body = Unlimited(@)]]]
NoSelect(s) == s.flaw = "no select"
MUTANT_Cleaned(s) == Stripped(s)
Cleaned(s) ==
    IF WrittenLimits(s) = <<>> THEN s
    ELSE [Stripped(s) EXCEPT !.query = EnsureTop(@, WrittenLimits(s)[1], "tsql")]
CleanFails(s) == NoSelect(s) \/ (WrittenLimits(s) # <<>> /\ CannotCap(Stripped(s).query, "tsql"))

\* The walk of validate_sql over single nodes, 2014-2167 and 2447-2493: what a
\* statement of this dialect must not contain.
Policy == {"several statements", "not a select", "forbidden", "dangerous", "system", "state", "function"}
NodeRefused(s, dialect) ==
    \/ s.flaw \in Policy \cup {"comment", "syntax"}
    \/ dialect # "tsql" /\ s.flaw \in {"national", "plus"}
\* A qualified column of a table, which the table must have, 2312-2344: the alias
\* map _collect_table_alias_map, 974-1012, knows every alias, and a bare name
\* that is written once.
AliasOf(s, name) ==
    LET here == {r \in Refs(s) : Resolve(r, CteNames(s)) # NoKey}
        aliased == {r \in here : r.alias = name /\ r.alias # r.name}
        bare == {r \in here : r.name = name}
    IN IF Cardinality(bare) = 1 THEN Resolve(CHOOSE r \in bare : TRUE, CteNames(s))
       ELSE IF aliased # {} THEN Resolve(CHOOSE r \in aliased : TRUE, CteNames(s)) ELSE NoKey
UnknownColumn(s) ==
    s.where.of # "" /\ AliasOf(s, s.where.of) # NoKey /\ ~HasColumn(AliasOf(s, s.where.of), s.where.name)
\* _require_single_datasource, 1581-1611.
CrossSource(s) == Cardinality({Entry(k).source : k \in Touched(s)}) > 1
\* The first thing validate_sql, 1735-2513, finds wrong, or "".
Wrong(s, dialect) ==
    LET real == {r \in Refs(s) : r.name \notin CteNames(s)}
    IN IF dialect = "tsql" /\ WrittenLimits(s) # <<>> THEN "limit"
       ELSE IF NodeRefused(s, dialect) THEN s.flaw
       ELSE IF \E r \in real : MatchRef(r).status = "ambiguous" THEN "ambiguous_table"
       ELSE IF \E r \in real : MatchRef(r).status # "resolved" THEN "unknown_table"
       ELSE IF CrossSource(s) THEN "cross_datasource"
       ELSE IF UnknownColumn(s) THEN "unknown column"
       ELSE IF real = {} THEN "no_table_reference" ELSE ""

Refuse(why) == at' = "refused" /\ reason' = why /\ UNCHANGED sql
Pass(to, s) == at' = to /\ sql' = s /\ UNCHANGED reason

Clean ==
    /\ at = "raw"
    /\ IF CleanFails(sql) THEN Refuse("other") ELSE Pass("cleaned", Cleaned(sql))
    /\ UNCHANGED <<schema, target, asked, injected>>
Validate ==
    /\ at = "cleaned"
    /\ IF Wrong(sql, "tsql") # "" THEN Refuse(Wrong(sql, "tsql")) ELSE Pass("valid", sql)
    /\ UNCHANGED <<schema, target, asked, injected>>
PutCap ==
    /\ at = "valid"
    /\ LET capped == [sql EXCEPT !.query = EnsureTop(@, DefaultTop, "tsql")]
       IN IF CannotCap(sql.query, "tsql") THEN Refuse("other") /\ UNCHANGED injected
          ELSE Pass("capped", capped) /\ injected' = IF capped # sql THEN DefaultTop ELSE 0
    /\ UNCHANGED <<schema, target, asked>>

\* transpile_sql, 2930-3025: TOP becomes LIMIT and a national literal a plain one.
RECURSIVE Rendered(_)
Rendered(q) ==
    IF q.is = "union" THEN [q EXCEPT !.left = Rendered(@), !.right = Rendered(@)]
    ELSE [q EXCEPT !.limit = q.top, !.top = 0,
                   !.from = [i \in DOMAIN @ |-> IF @[i].is = "query" THEN [@[i] EXCEPT !.body = Rendered(@)] ELSE @[i]]]
Transpiled(s) ==
    [s EXCEPT !.query = Rendered(@), !.flaw = IF @ = "national" THEN "" ELSE @,
              !.ctes = [i \in DOMAIN @ |-> [@[i] EXCEPT !.body = Rendered(@)]]]
\* What a reader of the other dialect may make of a name: a table the statement did
\* not read.
Misread(s) ==
    LET renamed(r, e) == [r EXCEPT !.name = e.bare, !.qual = e.qual]
    IN IF s.query.is # "select" \/ s.query.from[1].is # "table" THEN {}
       ELSE {[s EXCEPT !.query.from[1] = renamed(@, e)] :
                e \in {e \in schema : e.key \notin Touched(s)}}
\* transpile_and_revalidate, 3028-3152.
Translate ==
    /\ at = "capped"
    /\ IF target = "tsql" THEN Pass("translated", sql)
       ELSE \/ Refuse("other")
            \/ \E s \in {Transpiled(sql)} \cup Misread(Transpiled(sql)) : Pass("translated", s)
    /\ UNCHANGED <<schema, target, asked, injected>>
\* The tables of the T-SQL text, which is `asked` with another cap.
Revalidated(s) == Touched(s) = Touched(asked)
Revalidate ==
    /\ at = "translated"
    /\ IF target = "tsql" THEN Pass("ready", sql)
       ELSE IF Wrong(sql, target) # "" THEN Refuse(Wrong(sql, target))
       ELSE IF ~Revalidated(sql) THEN Refuse("other")
       ELSE Pass("ready", sql)
    /\ UNCHANGED <<schema, target, asked, injected>>

(***************************************************************************)
(* The statements a model writes over the names of a schema.               *)
(***************************************************************************)
Names(E) == {e.bare : e \in E} \cup {"gone"}
Quals(E) == {e.qual : e \in E} \cup {<<>>}
TableRefs(E) == {Ref(n, q, a) : n \in Names(E), q \in Quals(E), a \in {"x"}} \cup
                {Ref(n, q, n) : n \in Names(E), q \in Quals(E)}
Columns(E) == UNION {ToSet(e.columns) : e \in E}
Outputs(E) ==
    {<<Star("")>>, <<Computed("a")>>} \cup {<<Copy(Col("", c), d)>> : c \in Columns(E), d \in Columns(E)}
Selects(E) == {Select(<<Ref(n, q, n)>>, out) : n \in Names(E), q \in Quals(E), out \in Outputs(E)}
Exact(E) == {Select(<<Ref(e.bare, e.qual, e.bare)>>, out) : e \in E, out \in Outputs(E)}
Inner(E) ==
    Selects(E) \cup {[q EXCEPT !.limit = n] : q \in {q \in Exact(E) : q.out[1].is = "star"}, n \in InnerLimits \ {0}}
               \cup {Union(l, r) : l \in Exact(E), r \in Exact(E)}
Statement(ctes, query, where, flaw) == [ctes |-> ctes, query |-> query, where |-> where, flaw |-> flaw]
Plain(from) == Select(from, <<Star("")>>)
Caps(q) == {q} \cup {[q EXCEPT !.top = n] : n \in Limits} \cup {[q EXCEPT !.limit = n] : n \in Limits}
              \cup {[q EXCEPT !.top = n, !.limit = m] : n \in Limits, m \in Limits}
UnionCaps(q) == {q, [q EXCEPT !.order = TRUE]} \cup {[q EXCEPT !.limit = n] : n \in Limits} \cup {[q EXCEPT !.left.top = n] : n \in Limits}
Flaws == {"no select", "several statements", "forbidden", "comment", "national", "plus"}
Where(E) == {Col(o, c) : o \in {"", "x"}, c \in Columns(E)}
Written(E) ==
    LET one == CHOOSE e \in E : TRUE
        simple == Plain(<<Ref(one.bare, one.qual, "x")>>)
    IN {Statement(<<>>, q, Col("", "a"), f) : q \in Caps(simple), f \in Flaws \cup {""}}
       \cup {Statement(<<>>, Plain(<<r>>), w, "") : r \in TableRefs(E), w \in Where(E)}
       \cup {Statement(<<>>, Plain(<<r, Ref(e.bare, e.qual, "y")>>), w, "") : r \in TableRefs(E), e \in E, w \in Where(E)}
       \cup {Statement(<<>>, Plain(<<Derived(b, "x")>>), w, "") : b \in Inner(E), w \in Where(E)}
       \cup {Statement(<<>>, q, Col("", "a"), "") :
                q \in UNION {Caps(Plain(<<Derived([simple EXCEPT !.limit = n], "x")>>)) : n \in InnerLimits}}
       \cup {Statement(<<[alias |-> "w", body |-> b]>>, Plain(<<Ref("w", <<>>, "x")>>), w, "") :
                b \in Inner(E), w \in Where(E)}
       \cup {Statement(<<>>, q, Col("", "a"), "") :
                q \in UNION {UnionCaps(Union(simple, Plain(<<Ref(e.bare, e.qual, "x")>>))) : e \in E}}

Init ==
    /\ schema \in (SUBSET Entries) \ {{}} /\ target \in Dialects
    /\ asked \in Written(schema) /\ sql = asked
    /\ at = "raw" /\ reason = "" /\ injected = 0
Next == Clean \/ Validate \/ PutCap \/ Translate \/ Revalidate
Spec == Init /\ [][Next]_vars

TypeOK ==
    /\ schema \subseteq Entries /\ target \in Dialects
    /\ at \in {"raw", "cleaned", "valid", "capped", "translated", "ready", "refused"}
    /\ (at = "refused") = (reason # "") /\ injected \in {0, DefaultTop}

(***************************************************************************)
(* What a statement means: the rows it reads, of tables with one row each,  *)
(* whose cells are named <<key, column>>.  A row is a sequence of pairs of a *)
(* label, a name and a value.                                              *)
(***************************************************************************)
\* A cell of a row under a label.
Cell(label, name, value) == [label |-> label, name |-> name, value |-> value]
RECURSIVE RowsOf(_, _)
Relabelled(row, label) == [i \in DOMAIN row |-> [row[i] EXCEPT !.label = label]]
SourceRows(source, s) ==
    LET rows == IF source.is = "query" THEN RowsOf(source.body, s)
                ELSE IF source.qual = <<>> /\ source.name \in CteNames(s)
                THEN RowsOf((CHOOSE c \in ToSet(s.ctes) : c.alias = source.name).body, s)
                ELSE LET key == Resolve(source, CteNames(s))
                     IN {[i \in DOMAIN Entry(key).columns |-> Cell("", Entry(key).columns[i], <<key, Entry(key).columns[i]>>)]}
    IN {Relabelled(row, source.alias) : row \in rows}
JoinedRows(q, s) ==
    IF Len(q.from) = 1 THEN SourceRows(q.from[1], s)
    ELSE {x \o y : x \in SourceRows(q.from[1], s), y \in SourceRows(q.from[2], s)}
\* The cells a column reference of a row may mean.
Meant(row, col) == SelectSeq(row, LAMBDA c : c.name = col.name /\ col.of \in {"", c.label})
Projected(row, p) ==
    CASE p.is = "star" -> SelectSeq(row, LAMBDA c : p.of \in {"", c.label})
      [] p.is = "computed" -> <<Cell("", p.as, "computed")>>
      [] OTHER -> <<[Meant(row, p.col)[1] EXCEPT !.name = p.as]>>
RowsOf(q, s) ==
    IF q.is = "union"
    THEN LET left == RowsOf(q.left, s)
             names == (CHOOSE row \in left : TRUE)
         IN left \cup {[i \in DOMAIN names |-> [row[i] EXCEPT !.name = names[i].name]] : row \in RowsOf(q.right, s)}
    ELSE {FlattenSeq([i \in DOMAIN q.out |-> Projected(row, q.out[i])]) : row \in JoinedRows(q, s)}
\* The database takes the statement: its columns exist, without a doubt, and the
\* branches of its unions have as many columns.
RECURSIVE TakenQuery(_, _)
TakenQuery(q, s) ==
    IF q.is = "union"
    THEN /\ TakenQuery(q.left, s) /\ TakenQuery(q.right, s)
         /\ {Len(row) : row \in RowsOf(q.left, s)} = {Len(row) : row \in RowsOf(q.right, s)}
    ELSE /\ \A i \in DOMAIN q.from : q.from[i].is = "query" => TakenQuery(q.from[i].body, s)
         /\ Cardinality({q.from[i].alias : i \in DOMAIN q.from}) = Len(q.from)
         /\ \A row \in JoinedRows(q, s) : \A p \in ToSet(q.out) :
                p.is = "copy" => Len(Meant(row, p.col)) = 1
Taken(s) ==
    /\ \A i \in DOMAIN s.ctes : TakenQuery(s.ctes[i].body, s)
    /\ TakenQuery(s.query, s) /\ s.query.is = "select"
    /\ \A row \in JoinedRows(s.query, s) : Len(Meant(row, s.where)) = 1

(***************************************************************************)
(* Properties.                                                             *)
(***************************************************************************)
\* What it asks for, but for the cap of the whole.
Core(q) == IF q.is = "union" THEN [q EXCEPT !.limit = 0] ELSE [q EXCEPT !.top = 0, !.limit = 0]
OwnCap(q) == IF q.is = "union" THEN q.limit ELSE IF q.top > 0 THEN q.top ELSE q.limit

\* The statement with the cap on the whole and no other change.
Says(cap, said) ==
    /\ OwnCap(sql.query) = cap /\ sql.ctes = said.ctes
    /\ Core(sql.query) = (IF asked.query.is = "union" THEN Wrapped(Core(said.query)) ELSE Core(said.query))
ForTarget(s) == IF target = "tsql" THEN s ELSE Transpiled(s)
\* "Guarantee the database never returns an unbounded result set": what runs has
\* one cap on the whole answer - the outermost TOP, or else the first LIMIT the
\* model wrote anywhere, or else the default - and no LIMIT of the model inside;
\* in all else it asks what the model asked (clean_sql, ensure_top, transpile_sql).
CapKept ==
    at = "ready" =>
        Says(IF asked.query.is = "select" /\ asked.query.top > 0 THEN asked.query.top
             ELSE IF WrittenLimits(asked) # <<>> THEN WrittenLimits(asked)[1] ELSE DefaultTop,
             ForTarget(Stripped(asked)))
\* The cap is the one the model wrote on the outermost query, whatever it wrote
\* inside; clean_sql takes an inner LIMIT for it.
OuterCapKept ==
    at = "ready" =>
        Says(IF OwnCap(asked.query) > 0 THEN OwnCap(asked.query) ELSE DefaultTop, ForTarget(asked))
\* Capping twice is capping once.
CapOnce == at = "capped" => EnsureTop(sql.query, DefaultTop, "tsql") = sql.query
\* "Never execute anything the guard has not approved in the dialect it will
\* actually run in": what runs touches the tables the model's T-SQL named, every
\* one of them listed, of one source, and says nothing that dialect misreads.
SameTables ==
    at = "ready" =>
        /\ Touched(sql) = Touched(asked) /\ Touched(sql) # {} /\ ~CrossSource(sql)
        /\ \A r \in Refs(sql) : r.name \in CteNames(sql) \/ Resolve(r, CteNames(sql)) # NoKey
        /\ Wrong(sql, target) = ""
\* column_origins: "the stored columns a column reads": if it names any, of a
\* statement the database takes, they are the ones whose cells the column shows.
OriginsRight ==
    (at = "valid" /\ sql.query.is = "select" /\ Origins(sql, sql.where) # {} /\ Taken(sql)) =>
        Origins(sql, sql.where) = {Meant(row, sql.where)[1].value : row \in JoinedRows(sql.query, sql)}

GuardSound == CapKept /\ CapOnce /\ SameTables /\ OriginsRight
=============================================================================
