--------------------------- MODULE KeyStoreProofs ---------------------------
(***************************************************************************)
(* Proofs about KeyStore, for every set of keys, people, columns, routes   *)
(* and pool threads, with outages and restarts.  The inductive invariant   *)
(* has one part per owner of state: the tables, the handlers, the request  *)
(* being authenticated, the cache, and the room left in access_requests.   *)
(* Tables only grow (Grown), so a part a step does not write keeps what it *)
(* says of them.                                                           *)
(***************************************************************************)
EXTENDS KeyStore, FiniteSetTheorems, SequenceTheorems, TLAPS

LoopFields == {"pc", "key", "rows", "roles", "who", "gone", "loaded"}
ThreadFields == {"pc", "route", "key", "id", "cap", "cols", "ticket", "counted"}
Grants == Principals \X Caps

TypedRows(rs) == DOMAIN rs \subseteq Keys /\ \A k \in DOMAIN rs : rs[k] \in Row
TypedPrincipals(ps) == DOMAIN ps \subseteq Keys /\ \A k \in DOMAIN ps : ps[k] \in Principal

\* The keys of es see only columns that op has opened to them.
Within(es, op) == \A k \in DOMAIN es : Columns \ es[k].denied \subseteq op[k]

\* Every key of ks is a tombstone of rs.
Dead(rs, ks) == ks \subseteq DOMAIN rs /\ \A k \in ks : rs[k].revoked

\* What approval g said of the keys of its day still stands in rs.
Stands(g, rs) ==
    /\ g[3] \subseteq DOMAIN rs
    /\ \A k \in g[3] : rs[k].id = g[1] /\ ~rs[k].revoked => g[2] \notin rs[k].denied

TablesInv ==
    /\ up \in BOOLEAN /\ dbUp \in BOOLEAN /\ env \subseteq EnvKeys
    /\ TypedRows(rows)
    /\ roles \subseteq Grants
    /\ tickets \in Seq(Ticket)
    /\ opened \in [Keys -> SUBSET Columns]
    /\ Within(EnvEntry, opened)
    /\ Within(rows, opened)
    /\ Dead(rows, gone)
    /\ \A g \in granted : Stands(g, rows)

\* What a handler holds, by the statement it is at.
Handler(h, rs) ==
    /\ DOMAIN h = ThreadFields
    /\ h.cols \subseteq Columns
    /\ (h.pc = "idle") <=> (h.route = None)
    /\ h.route # None => h.route \in Routes
    /\ h.pc = "issue" => h.id \in Principals
    /\ h.pc = "edit" =>
        h.key \in DOMAIN rs /\ h.route \in {"disable", "enable", "revoke", "acl"}
    /\ h.route = "revoke" =>
        h.pc = "edit" \/ (h.pc = "invalidate" /\ h.key \in DOMAIN rs /\ rs[h.key].revoked)
    /\ h.pc \in {"check", "insert", "holders", "delete"} => h.id \in Principals /\ h.cap \in Caps
    /\ h.pc \in {"look", "append"} => h.route = "submit" /\ h.id \in Principals

HandlersInv ==
    /\ DOMAIN thread = Threads
    /\ \A t \in Threads : Handler(thread[t], rows)

LoopInv ==
    /\ DOMAIN loop = LoopFields
    /\ loop.pc # "free" => loop.key \in Keys
    /\ TypedRows(loop.rows) /\ loop.roles \subseteq Grants
    /\ Within(loop.rows, opened)
    /\ loop.who # None =>
        loop.key \in Keys /\ loop.who \in Principal /\ Columns \ loop.who.denied \subseteq opened[loop.key]
    /\ loop.gone \subseteq gone
    /\ loop.pc \in {"keys", "roles"} => ~loop.loaded
    /\ loop.pc = "roles" \/ (loop.pc = "store" /\ loop.loaded) => Dead(loop.rows, loop.gone)
    /\ RevokedOnReload

CacheInv == cache # None => TypedPrincipals(cache) /\ Within(cache, opened)

\* Every submit under way has a place left for its row.
Submitting == {t \in Threads : thread[t].route = "submit"}
RoomInv == Len(tickets) + Cardinality(Submitting) <= MaxTickets

IInv == TablesInv /\ HandlersInv /\ LoopInv /\ CacheInv /\ RoomInv

-----------------------------------------------------------------------------
(* Lemmas on the operators                                                 *)

\* get_active_principals makes whole principals, shows what the two sources show,
\* and leaves out every revoked row.
LEMMA MergeSound ==
    ASSUME NEW rs, NEW ro, NEW e \in SUBSET EnvKeys, NEW op, NEW ks,
           TypedRows(rs), Within(rs, op), Within(EnvEntry, op)
    PROVE  /\ TypedPrincipals(Merge(rs, ro, e))
           /\ Within(Merge(rs, ro, e), op)
           /\ Dead(rs, ks) => ks \cap DOMAIN Merge(rs, ro, e) = {}
<1> DEFINE m == Merge(rs, ro, e)
<1>1. DOMAIN m = {j \in DOMAIN rs : Usable(rs[j])} \cup (e \ DOMAIN rs)
    BY DEF Merge
<1>2. ASSUME NEW k \in DOMAIN m, k \in DOMAIN rs
      PROVE  m[k] \in Principal /\ m[k].denied = rs[k].denied
    <2> DEFINE cs == {c \in Caps : <<rs[k].id, c>> \in ro} \cup (IF k \in e THEN EnvEntry[k].caps ELSE {})
    <2>1. rs[k].id \in Principals /\ rs[k].denied \in SUBSET Columns
        BY <1>2 DEF TypedRows, Row
    <2>2. cs \in SUBSET Caps
        BY EntriesAssumption DEF Principal
    <2>3. m[k] = [id |-> rs[k].id, denied |-> rs[k].denied, caps |-> cs]
        BY <1>2 DEF Merge
    <2> HIDE DEF cs, m
    <2> QED
        BY <2>1, <2>2, <2>3 DEF Principal
<1>3. ASSUME NEW k \in DOMAIN m, k \notin DOMAIN rs
      PROVE  k \in EnvKeys /\ m[k] = EnvEntry[k] /\ EnvEntry[k] \in Principal
    BY <1>1, <1>3, EntriesAssumption DEF Merge
<1>4. DOMAIN EnvEntry = EnvKeys
    BY EntriesAssumption
<1> HIDE DEF m
<1>5. TypedPrincipals(m)
    BY <1>1, <1>2, <1>3 DEF TypedPrincipals, TypedRows, Keys
<1>6. Within(m, op)
    BY <1>1, <1>2, <1>3, <1>4 DEF Within
<1>7. Dead(rs, ks) => ks \cap DOMAIN m = {}
    BY <1>1 DEF Dead, Usable
<1> QED
    BY <1>5, <1>6, <1>7 DEF m

\* resolve_principal finds what the merged set holds.
LEMMA FindSound ==
    ASSUME NEW ps, NEW k, NEW op, TypedPrincipals(ps), Within(ps, op), Find(ps, k) # None
    PROVE  k \in Keys /\ Find(ps, k) \in Principal /\ Columns \ Find(ps, k).denied \subseteq op[k]
BY DEF Find, TypedPrincipals, Within

-----------------------------------------------------------------------------
(* The tables only grow                                                    *)

RowsGrown ==
    /\ DOMAIN rows \subseteq DOMAIN rows'
    /\ \A k \in DOMAIN rows : rows[k].revoked => rows'[k].revoked
OpenedGrown == \A k \in Keys : opened[k] \subseteq opened'[k]
Grown == RowsGrown /\ OpenedGrown /\ gone \subseteq gone'

LEMMA GrownIfUnchanged == UNCHANGED <<rows, opened, gone>> => Grown
BY DEF Grown, RowsGrown, OpenedGrown

\* What a request under authentication holds stays true while the tables grow.
LEMMA LoopKept == LoopInv /\ Grown /\ UNCHANGED loop => LoopInv'
<1> SUFFICES ASSUME LoopInv, Grown, UNCHANGED loop PROVE LoopInv'
    OBVIOUS
<1>1. Within(loop.rows, opened)'
    BY DEF LoopInv, Within, TypedRows, Grown, OpenedGrown
<1>2. loop'.who # None => Columns \ loop'.who.denied \subseteq opened'[loop'.key]
    BY DEF LoopInv, Grown, OpenedGrown
<1>3. loop'.gone \subseteq gone'
    BY DEF LoopInv, Grown
<1> QED
    BY <1>1, <1>2, <1>3 DEF LoopInv, RevokedOnReload

LEMMA CacheKept == CacheInv /\ OpenedGrown /\ UNCHANGED cache => CacheInv'
BY DEF CacheInv, TypedPrincipals, Within, OpenedGrown

\* One handler moves on; the others still hold what they held.
LEMMA HandlerMoves ==
    ASSUME HandlersInv, RowsGrown, NEW t \in Threads, NEW h,
           thread' = [thread EXCEPT ![t] = h], Handler(h, rows')
    PROVE  HandlersInv'
<1>1. DOMAIN thread' = Threads
    BY DEF HandlersInv
<1>2. ASSUME NEW s \in Threads PROVE Handler(thread'[s], rows')
    <2>1. CASE s = t
        BY <2>1 DEF HandlersInv
    <2>2. CASE s # t
        <3>1. thread'[s] = thread[s]
            BY <2>2
        <3>2. Handler(thread[s], rows)
            BY DEF HandlersInv
        <3> QED
            BY <3>1, <3>2 DEF Handler, RowsGrown
    <2> QED
        BY <2>1, <2>2
<1> QED
    BY <1>1, <1>2 DEF HandlersInv

LEMMA HandlersKept == HandlersInv /\ RowsGrown /\ UNCHANGED thread => HandlersInv'
BY DEF HandlersInv, Handler, RowsGrown

LEMMA IdleHandler == ASSUME NEW rs PROVE Handler(IdleThread, rs)
BY NoneAssumption DEF Handler, IdleThread, ThreadFields, Gate

LEMMA FinishKeeps ==
    ASSUME HandlersInv, RowsGrown, NEW t \in Threads, Finish(t)
    PROVE  HandlersInv'
BY HandlerMoves, IdleHandler DEF Finish

\* The room for new requests, when one handler changes.
LEMMA RoomKept ==
    ASSUME RoomInv, TablesInv, Submitting' \subseteq Submitting, UNCHANGED tickets
    PROVE  RoomInv'
<1>1. IsFiniteSet(Submitting) 
    BY ThreadsAssumption, FS_Subset DEF Submitting
<1>2. Cardinality(Submitting') <= Cardinality(Submitting) /\ IsFiniteSet(Submitting')
    BY <1>1, FS_Subset
<1>3. Cardinality(Submitting) \in Nat /\ Cardinality(Submitting') \in Nat
    BY <1>1, <1>2, FS_CardinalityType
<1>4. Len(tickets) \in Nat
    BY LenProperties DEF TablesInv
<1> QED
    BY <1>2, <1>3, <1>4, BoundsAssumption DEF RoomInv

LEMMA GoSubmitting ==
    ASSUME HandlersInv, NEW t \in Threads, NEW pc, Go(t, pc)
    PROVE  Submitting' = Submitting
BY DEF HandlersInv, Handler, Go, Submitting, ThreadFields

LEMMA FinishSubmitting ==
    ASSUME HandlersInv, NEW t \in Threads, Finish(t)
    PROVE  Submitting' = Submitting \ {t}
BY NoneAssumption DEF HandlersInv, Finish, Submitting, IdleThread, Gate

-----------------------------------------------------------------------------
(* The tables, step by step                                                *)

\* A step that writes none of them.
LEMMA TablesKept ==
    TablesInv /\ UNCHANGED <<process, tables, history>> => TablesInv'
BY DEF TablesInv, process, tables, history, TypedRows, Within, Dead, Stands

\* issue_key: the new row is nobody's yet, so no approval or tombstone names it.
LEMMA IssueTables ==
    ASSUME TablesInv, HandlersInv, NEW t \in Threads, IssueKey(t)
    PROVE  TablesInv' /\ Grown
<1>1. PICK k \in FreshKeys \ DOMAIN rows : rows' = Put(rows, k, NewRow(thread[t].id))
    BY DEF IssueKey
<1>2. DOMAIN rows' = DOMAIN rows \cup {k} /\ k \notin DOMAIN rows /\ k \in Keys
    BY <1>1 DEF Put, Keys
<1>3. \A j \in DOMAIN rows : rows'[j] = rows[j]
    BY <1>1 DEF Put
<1>4. rows'[k] = NewRow(thread[t].id)
    BY <1>1 DEF Put
<1>5. NewRow(thread[t].id) \in Row /\ NewRow(thread[t].id).denied = Columns
    BY DEF NewRow, Row, HandlersInv, Handler, IssueKey, At
<1>6. UNCHANGED <<process, roles, tickets, history>>
    BY DEF IssueKey
<1>7. TypedRows(rows')
    BY <1>2, <1>3, <1>4, <1>5 DEF TablesInv, TypedRows
<1>8. Within(rows', opened)
    BY <1>2, <1>3, <1>4, <1>5 DEF TablesInv, Within
<1>9. Dead(rows', gone) /\ \A g \in granted : Stands(g, rows')
    BY <1>2, <1>3 DEF TablesInv, Dead, Stands
<1>10. Grown
    BY <1>2, <1>3, <1>6 DEF Grown, RowsGrown, OpenedGrown, history
<1> QED
    BY <1>6, <1>7, <1>8, <1>9, <1>10 DEF TablesInv, process, history

\* What an edit does to a row: it stays a row of the same person, is shown only
\* more columns if the route is acl, and a tombstone stays.
LEMMA EditedRow ==
    ASSUME NEW r \in Row, NEW route, NEW cols \in SUBSET Columns
    PROVE  /\ Edited(r, route, cols) \in Row
           /\ Edited(r, route, cols).id = r.id
           /\ r.revoked => Edited(r, route, cols).revoked
           /\ route = "revoke" => Edited(r, route, cols).revoked
           /\ route \in {"disable", "enable", "revoke"} => Edited(r, route, cols).denied = r.denied
           /\ route \notin {"disable", "enable", "revoke"} =>
                Edited(r, route, cols).denied = cols /\ Edited(r, route, cols).revoked = r.revoked
BY DEF Edited, Row

LEMMA EditTables ==
    ASSUME TablesInv, HandlersInv, NEW t \in Threads, EditKey(t)
    PROVE  TablesInv' /\ Grown
<1> DEFINE h == thread[t]
           k == h.key
<1>0. k \in DOMAIN rows /\ h.cols \in SUBSET Columns /\ k \in Keys
    BY DEF TablesInv, TypedRows, HandlersInv, Handler, EditKey, At
<1>1. DOMAIN rows' = DOMAIN rows
      /\ (\A j \in DOMAIN rows : j # k => rows'[j] = rows[j])
      /\ rows'[k] = Edited(rows[k], h.route, h.cols)
    BY <1>0 DEF EditKey
<1>2. rows[k] \in Row
    BY <1>0 DEF TablesInv, TypedRows
<1>3. UNCHANGED <<process, roles, tickets, gone>>
    BY DEF EditKey
<1>4. TypedRows(rows')
    BY <1>0, <1>1, <1>2, EditedRow DEF TablesInv, TypedRows
<1>5. RowsGrown /\ Dead(rows', gone)
    BY <1>0, <1>1, <1>2, EditedRow DEF RowsGrown, TablesInv, Dead
<1>6. CASE h.route = "acl"
    <2>1. opened' = [opened EXCEPT ![k] = @ \cup (Columns \ h.cols)]
          /\ granted' = {g \in granted : g[1] # rows[k].id \/ g[2] \notin h.cols}
        BY <1>6 DEF EditKey
    <2>2. rows'[k].denied = h.cols /\ rows'[k].id = rows[k].id /\ rows'[k].revoked = rows[k].revoked
        BY <1>0, <1>1, <1>2, <1>6, EditedRow
    <2> HIDE DEF h, k
    <2>3. OpenedGrown /\ opened' \in [Keys -> SUBSET Columns]
        BY <1>0, <2>1 DEF OpenedGrown, TablesInv
    <2>4. Within(rows', opened')
        BY <1>0, <1>1, <2>1, <2>2, <2>3 DEF TablesInv, Within, OpenedGrown, TypedRows
    <2>5. Within(EnvEntry, opened')
        BY <2>3, EntriesAssumption DEF TablesInv, Within, OpenedGrown, Keys
    <2>6. \A g \in granted' : Stands(g, rows')
        BY <1>0, <1>1, <2>1, <2>2 DEF TablesInv, Stands
    <2> QED
        BY <1>3, <1>4, <1>5, <2>3, <2>4, <2>5, <2>6 DEF TablesInv, process, Grown
<1>7. CASE h.route # "acl"
    <2>1. UNCHANGED <<opened, granted>>
        BY <1>7 DEF EditKey
    <2>2. h.route \in {"disable", "enable", "revoke"}
        BY <1>7 DEF HandlersInv, Handler, EditKey, At
    <2>3. rows'[k].denied = rows[k].denied /\ rows'[k].id = rows[k].id /\ (rows[k].revoked => rows'[k].revoked)
        BY <1>0, <1>1, <1>2, <2>2, EditedRow
    <2> HIDE DEF h, k
    <2>4. Within(rows', opened')
        BY <1>0, <1>1, <2>1, <2>3 DEF TablesInv, Within
    <2>5. rows'[k].revoked \in BOOLEAN /\ rows[k].revoked \in BOOLEAN
        BY <1>0, <1>1, <1>4 DEF TypedRows, Row, TablesInv
    <2>6. \A g \in granted' : Stands(g, rows')
        BY <1>0, <1>1, <2>1, <2>3, <2>5 DEF TablesInv, Stands
    <2> QED
        BY <1>3, <1>4, <1>5, <2>1, <2>4, <2>6 DEF TablesInv, process, Grown, OpenedGrown
<1> QED
    BY <1>6, <1>7

\* A sequence with one element replaced.
LEMMA Decided ==
    ASSUME TablesInv, NEW n \in DOMAIN tickets, NEW st \in {"approved", "denied"},
           NEW new, new = [tickets EXCEPT ![n] = [@ EXCEPT !.status = st]]
    PROVE  /\ new \in Seq(Ticket)
           /\ Len(new) = Len(tickets)
           /\ \A m \in DOMAIN tickets : m # n => new[m] = tickets[m]
<1>1. tickets \in Seq(Ticket)
    BY DEF TablesInv
<1>2. tickets[n] \in Ticket
    BY <1>1, ElementOfSeq, LenProperties
<1>3. [tickets[n] EXCEPT !.status = st] \in Ticket
    BY <1>2 DEF Ticket
<1>4. new = [tickets EXCEPT ![n] = [tickets[n] EXCEPT !.status = st]]
    OBVIOUS
<1> DEFINE v == [tickets[n] EXCEPT !.status = st]
<1> HIDE DEF v
<1>5. new = [tickets EXCEPT ![n] = v] /\ v \in Ticket
    BY <1>3, <1>4 DEF v
<1>6. n \in 1..Len(tickets)
    BY <1>1, LenProperties
<1>7. new \in Seq(Ticket) /\ Len(new) = Len(tickets)
    BY <1>1, <1>5, <1>6, ExceptSeq
<1> QED
    BY <1>5, <1>7

LEMMA ApproveTables ==
    ASSUME TablesInv, NEW t \in Threads, Approve(t)
    PROVE  TablesInv' /\ Grown /\ Len(tickets') = Len(tickets)
<1> DEFINE n == thread[t].ticket
           req == tickets[n]
           keys == LiveKeys(req.id)
<1>1. UNCHANGED <<process, roles, cache, loop, gone>>
    BY DEF Approve
<1>2. CASE ~Claimable(n)
    <2>1. UNCHANGED <<tickets, rows, opened, granted>>
        BY <1>2 DEF Approve
    <2> QED
        BY <1>1, <2>1, TablesKept, GrownIfUnchanged DEF tables, history
<1>3. CASE Claimable(n)
    <2>1. n \in DOMAIN tickets
        BY <1>3 DEF Claimable
    <2>2. req \in Ticket
        BY <2>1, ElementOfSeq, LenProperties DEF TablesInv
    <2>3. req.id \in Principals /\ req.col \in Columns
        BY <2>2 DEF Ticket
    <2>4. tickets' \in Seq(Ticket) /\ Len(tickets') = Len(tickets)
        BY <1>3, <2>1, Decided DEF Approve
    <2>5. keys \subseteq DOMAIN rows /\ (\A k \in DOMAIN rows :
            k \in keys <=> rows[k].id = req.id /\ ~rows[k].revoked)
        BY DEF LiveKeys
    <2>6. rows' = [k \in DOMAIN rows |->
              IF k \in keys THEN [rows[k] EXCEPT !.denied = @ \ {req.col}] ELSE rows[k]]
          /\ opened' = [k \in Keys |-> IF k \in keys THEN opened[k] \cup {req.col} ELSE opened[k]]
          /\ granted' = granted \cup {<<req.id, req.col, DOMAIN rows>>}
        BY <1>3 DEF Approve
    <2> HIDE DEF n, req, keys
    <2>7. DOMAIN rows' = DOMAIN rows /\ (\A k \in DOMAIN rows :
            /\ rows'[k] \in Row
            /\ rows'[k].id = rows[k].id /\ rows'[k].revoked = rows[k].revoked
            /\ k \in keys => rows'[k].denied = rows[k].denied \ {req.col}
            /\ k \notin keys => rows'[k].denied = rows[k].denied)
        BY <2>6 DEF TablesInv, TypedRows, Row
    <2>8. OpenedGrown /\ opened' \in [Keys -> SUBSET Columns]
        BY <2>3, <2>6 DEF OpenedGrown, TablesInv
    <2>9. TypedRows(rows') /\ Dead(rows', gone) /\ RowsGrown
        BY <2>7 DEF TablesInv, TypedRows, Dead, RowsGrown
    <2>10. Within(rows', opened')
        BY <2>6, <2>7 DEF TablesInv, Within, TypedRows
    <2>11. Within(EnvEntry, opened')
        BY <2>8, EntriesAssumption DEF TablesInv, Within, OpenedGrown, Keys
    <2>12. ASSUME NEW g \in granted' PROVE Stands(g, rows')
        <3>1. CASE g \in granted
            BY <2>7, <3>1 DEF TablesInv, Stands
        <3>2. CASE g = <<req.id, req.col, DOMAIN rows>>
            BY <2>5, <2>7, <3>2 DEF Stands
        <3> QED
            BY <2>6, <3>1, <3>2
    <2> QED
        BY <1>1, <2>4, <2>8, <2>9, <2>10, <2>11, <2>12 DEF TablesInv, Grown, process
<1> QED
    BY <1>2, <1>3

LEMMA DenyTables ==
    ASSUME TablesInv, NEW t \in Threads, Deny(t)
    PROVE  TablesInv' /\ Grown /\ Len(tickets') = Len(tickets)
<1> DEFINE n == thread[t].ticket
<1>1. UNCHANGED <<process, rows, roles, history>>
    BY DEF Deny
<1>2. tickets' \in Seq(Ticket) /\ Len(tickets') = Len(tickets)
    <2>1. CASE Claimable(n)
        BY <2>1, Decided DEF Deny, Claimable
    <2>2. CASE ~Claimable(n)
        BY <2>2 DEF Deny, TablesInv
    <2> QED
        BY <2>1, <2>2
<1> QED
    BY <1>1, <1>2, GrownIfUnchanged DEF TablesInv, process, history

\* submit_request appends one open row.
LEMMA SubmitTables ==
    ASSUME TablesInv, HandlersInv, NEW t \in Threads, SubmitInsert(t)
    PROVE  TablesInv' /\ Grown /\ Len(tickets') = Len(tickets) + 1
<1>1. PICK c \in thread[t].cols :
        tickets' = Append(tickets, [id |-> thread[t].id, col |-> c, status |-> "open"])
    BY DEF SubmitInsert
<1>2. [id |-> thread[t].id, col |-> c, status |-> "open"] \in Ticket
    BY DEF HandlersInv, Handler, SubmitInsert, At, Ticket
<1>3. tickets' \in Seq(Ticket) /\ Len(tickets') = Len(tickets) + 1
    BY <1>1, <1>2, AppendProperties DEF TablesInv
<1> QED
    BY <1>3, GrownIfUnchanged DEF SubmitInsert, TablesInv, process, history

LEMMA RolesTables ==
    ASSUME TablesInv, HandlersInv, NEW t \in Threads, GrantInsert(t) \/ RevokeDelete(t)
    PROVE  TablesInv' /\ Grown
<1>1. <<thread[t].id, thread[t].cap>> \in Grants
    BY DEF HandlersInv, Handler, GrantInsert, RevokeDelete, At, Grants
<1>2. roles' \subseteq Grants
    BY <1>1 DEF GrantInsert, RevokeDelete, TablesInv
<1>3. UNCHANGED <<process, rows, tickets, history>>
    BY DEF GrantInsert, RevokeDelete
<1> QED
    BY <1>2, <1>3, GrownIfUnchanged DEF TablesInv, process, history

\* The answer to a revocation is given after its row was stamped.
LEMMA InvalidateTables ==
    ASSUME TablesInv, HandlersInv, NEW t \in Threads, Invalidate(t)
    PROVE  TablesInv' /\ Grown
<1>1. UNCHANGED <<process, tables, opened, granted>>
    BY DEF Invalidate
<1>2. thread[t].route = "revoke" =>
        thread[t].key \in DOMAIN rows /\ rows[thread[t].key].revoked
    BY DEF HandlersInv, Handler, Invalidate, At
<1>3. gone' = IF thread[t].route = "revoke" THEN gone \cup {thread[t].key} ELSE gone
    BY DEF Invalidate
<1>4. Dead(rows, gone') /\ gone \subseteq gone'
    BY <1>2, <1>3 DEF TablesInv, Dead
<1> QED
    BY <1>1, <1>4 DEF TablesInv, Grown, RowsGrown, OpenedGrown, process, tables

\* bootstrap_from_env writes only into an empty table.
LEMMA RestartTables ==
    ASSUME TablesInv, NEW e \in SUBSET EnvKeys, Restart(e)
    PROVE  TablesInv' /\ Grown
<1>1. UNCHANGED <<dbUp, roles, tickets, history>> /\ env' = e /\ rows' = Imported(e)
    BY DEF Restart
<1>2. up' \in BOOLEAN
    BY DEF Restart
<1>3. CASE DOMAIN rows # {}
    BY <1>1, <1>2, <1>3, GrownIfUnchanged DEF Imported, TablesInv, history
<1>4. CASE DOMAIN rows = {}
    <2>1. rows' = [k \in e |-> [id |-> EnvEntry[k].id, denied |-> EnvEntry[k].denied,
                                disabled |-> FALSE, revoked |-> FALSE]]
        BY <1>1, <1>4 DEF Imported
    <2>2. \A k \in e : EnvEntry[k].id \in Principals /\ EnvEntry[k].denied \in SUBSET Columns
        BY EntriesAssumption DEF Principal
    <2>3. TypedRows(rows')
        BY <2>1, <2>2 DEF TypedRows, Row, Keys
    <2>4. DOMAIN EnvEntry = EnvKeys
        BY EntriesAssumption
    <2>5. Within(rows', opened)
        BY <2>1, <2>4 DEF Within, TablesInv
    <2>6. Dead(rows', gone) /\ \A g \in granted : Stands(g, rows')
        BY <1>4 DEF TablesInv, Dead, Stands
    <2>7. Grown
        BY <1>1, <1>4 DEF Grown, RowsGrown, OpenedGrown, history
    <2> QED
        BY <1>1, <1>2, <2>3, <2>5, <2>6, <2>7 DEF TablesInv, history
<1> QED
    BY <1>3, <1>4

-----------------------------------------------------------------------------
(* The handlers, step by step                                              *)

\* A handler that goes on to pc, holding there what it must.
LEMMA GoKeeps ==
    ASSUME HandlersInv, RowsGrown, NEW t \in Threads, NEW pc, Go(t, pc),
           Handler(thread[t], rows) => Handler([thread[t] EXCEPT !.pc = pc], rows')
    PROVE  HandlersInv' /\ Submitting' = Submitting
<1>1. Handler(thread[t], rows)
    BY DEF HandlersInv
<1>2. thread' = [thread EXCEPT ![t] = [thread[t] EXCEPT !.pc = pc]]
    BY DEF Go
<1> QED
    BY <1>1, <1>2, HandlerMoves, GoSubmitting

\* The same for a handler of revoke.
LEMMA HoldKeeps ==
    ASSUME HandlersInv, RowsGrown, NEW t \in Threads, NEW pc, NEW counted, Hold(t, pc, counted),
           Handler(thread[t], rows) =>
                Handler([thread[t] EXCEPT !.pc = pc, !.counted = counted], rows')
    PROVE  HandlersInv' /\ Submitting' = Submitting
<1>1. Handler(thread[t], rows)
    BY DEF HandlersInv
<1>2. thread' = [thread EXCEPT ![t] = [thread[t] EXCEPT !.pc = pc, !.counted = counted]]
    BY DEF Hold
<1>3. Submitting' = Submitting
    BY DEF HandlersInv, Handler, Hold, Submitting, ThreadFields
<1> QED
    BY <1>1, <1>2, <1>3, HandlerMoves

\* The steps of a handler that end at invalidate_cache.
LEMMA ToInvalidate ==
    ASSUME NEW h, NEW rs, NEW new, Handler(h, rs),
           h.pc \in {"issue", "check", "insert", "delete", "approve"},
           DOMAIN rs \subseteq DOMAIN new
    PROVE  /\ Handler([h EXCEPT !.pc = "invalidate"], new)
           /\ Handler([h EXCEPT !.pc = "invalidate", !.counted = {}], new)
BY NoneAssumption DEF Handler, ThreadFields, Gate

LEMMA RouteNone == None \notin DOMAIN Gate /\ None \notin Routes
BY NoneAssumption, RoutesAssumption

LEMMA EditHandlers ==
    ASSUME TablesInv, HandlersInv, NEW t \in Threads, EditKey(t), RowsGrown
    PROVE  HandlersInv' /\ Submitting' = Submitting
<1> DEFINE h == thread[t]
<1>1. Handler(h, rows) /\ h.pc = "edit" /\ Go(t, "invalidate")
    BY DEF HandlersInv, EditKey, At
<1>2. rows[h.key] \in Row /\ h.cols \in SUBSET Columns /\ h.key \in DOMAIN rows
    BY <1>1 DEF TablesInv, TypedRows, Handler
<1>3. rows'[h.key] = Edited(rows[h.key], h.route, h.cols)
    BY <1>2 DEF EditKey
<1>4. h.route = "revoke" => rows'[h.key].revoked
    BY <1>2, <1>3, EditedRow
<1>5. Handler([h EXCEPT !.pc = "invalidate"], rows')
    BY <1>1, <1>2, <1>4, RouteNone DEF Handler, ThreadFields, RowsGrown, Gate
<1> QED
    BY <1>1, <1>5, GoKeeps

LEMMA WriterHandlers ==
    ASSUME HandlersInv, NEW t \in Threads, RowsGrown,
           IssueKey(t) \/ GrantInsert(t) \/ RevokeDelete(t) \/ Approve(t)
    PROVE  HandlersInv' /\ (Submitting' = Submitting \/ Submitting' = Submitting \ {t})
<1>1. \/ Finish(t)
      \/ Go(t, "invalidate") /\ thread[t].pc \in {"issue", "check", "insert", "delete", "approve"}
      \/ Hold(t, "invalidate", {}) /\ thread[t].pc = "delete"
    BY DEF IssueKey, GrantInsert, RevokeDelete, Approve, At
<1>2. CASE Finish(t)
    BY <1>2, FinishKeeps, FinishSubmitting
<1>3. CASE Go(t, "invalidate") /\ thread[t].pc \in {"issue", "check", "insert", "delete", "approve"}
    <2>1. Handler(thread[t], rows) => Handler([thread[t] EXCEPT !.pc = "invalidate"], rows')
        BY <1>3, ToInvalidate DEF RowsGrown
    <2> QED
        BY <1>3, <2>1, GoKeeps
<1>4. CASE Hold(t, "invalidate", {}) /\ thread[t].pc = "delete"
    <2>1. Handler(thread[t], rows) =>
            Handler([thread[t] EXCEPT !.pc = "invalidate", !.counted = {}], rows')
        BY <1>4, ToInvalidate DEF RowsGrown
    <2> QED
        BY <1>4, <2>1, HoldKeeps
<1> QED
    BY <1>1, <1>2, <1>3, <1>4

\* The statements of grant, revoke and submit_request that only look.
LEMMA ReaderHandlers ==
    ASSUME HandlersInv, NEW t \in Threads, RowsGrown, UNCHANGED rows,
           GrantCheck(t) \/ RevokeCheck(t) \/ SubmitLook(t)
    PROVE  HandlersInv' /\ (Submitting' = Submitting \/ Submitting' = Submitting \ {t})
<1>1. Handler(thread[t], rows)
    BY DEF HandlersInv
<1>2. \/ Finish(t)
      \/ thread[t].pc = "check" /\ \E pc \in {"invalidate", "insert"} : Go(t, pc)
      \/ thread[t].pc = "holders" /\ \E counted : Hold(t, "delete", counted)
      \/ thread[t].pc = "look" /\ Go(t, "append")
    BY DEF GrantCheck, RevokeCheck, SubmitLook, At
<1>3. CASE Finish(t)
    BY <1>3, FinishKeeps, FinishSubmitting
<1>4. CASE thread[t].pc = "check" /\ \E pc \in {"invalidate", "insert"} : Go(t, pc)
    <2>1. PICK pc \in {"invalidate", "insert"} : Go(t, pc)
        BY <1>4
    <2>2. Handler([thread[t] EXCEPT !.pc = pc], rows')
        BY <1>1, <1>4, RouteNone DEF Handler, ThreadFields, Gate
    <2> QED
        BY <2>1, <2>2, GoKeeps
<1>5. CASE thread[t].pc = "holders" /\ \E counted : Hold(t, "delete", counted)
    <2>1. PICK counted : Hold(t, "delete", counted)
        BY <1>5
    <2>2. Handler([thread[t] EXCEPT !.pc = "delete", !.counted = counted], rows')
        BY <1>1, <1>5, RouteNone DEF Handler, ThreadFields, Gate
    <2> QED
        BY <2>1, <2>2, HoldKeeps
<1>6. CASE thread[t].pc = "look" /\ Go(t, "append")
    <2>1. Handler([thread[t] EXCEPT !.pc = "append"], rows')
        BY <1>1, <1>6, RouteNone DEF Handler, ThreadFields, Gate
    <2> QED
        BY <1>6, <2>1, GoKeeps
<1> QED
    BY <1>2, <1>3, <1>4, <1>5, <1>6

\* The fields of a handler before its body is filled in.
LEMMA StartFields ==
    ASSUME NEW route
    PROVE  /\ DOMAIN Start(route) = ThreadFields /\ Start(route).pc = First[route]
           /\ Start(route).route = route /\ Start(route).cols = {}
BY DEF Start, IdleThread, ThreadFields

\* The handler of each route starts at a statement that suits what its body names.
LEMMA BodyHandler ==
    ASSUME TablesInv, loop.who \in Principal, NEW route \in Routes, NEW b \in Body(route)
    PROVE  Handler(b, rows) /\ b.route = route /\ b.pc = First[route]
<1>1. route \in DOMAIN Gate /\ route # None /\ None \notin Routes
    BY RoutesAssumption, RouteNone
<1>2. /\ DOMAIN Start(route) = ThreadFields /\ Start(route).pc = First[route]
      /\ Start(route).route = route /\ Start(route).cols = {}
    BY StartFields
<1> USE DEF ThreadFields
<1>3. CASE route = "issue"
    <2>1. Body(route) = {[Start(route) EXCEPT !.id = p] : p \in Principals}
        BY <1>3 DEF Body
    <2>2. PICK p \in Principals : b = [Start(route) EXCEPT !.id = p]
        BY <2>1
    <2>3. First[route] = "issue"
        BY <1>3 DEF First
    <2> QED
        BY <1>1, <1>2, <1>3, <2>2, <2>3 DEF Handler
<1>4. CASE route \in {"disable", "enable", "revoke"}
    <2>1. Body(route) = {[Start(route) EXCEPT !.key = k] : k \in DOMAIN rows}
        BY <1>4 DEF Body
    <2>2. PICK k \in DOMAIN rows : b = [Start(route) EXCEPT !.key = k]
        BY <2>1
    <2>3. First[route] = "edit"
        BY <1>4 DEF First
    <2> QED
        BY <1>1, <1>2, <1>4, <2>2, <2>3 DEF Handler
<1>5. CASE route = "acl"
    <2>1. Body(route) = {[Start(route) EXCEPT !.key = e[1], !.cols = e[2]] :
                        e \in (DOMAIN rows) \X (SUBSET Columns)}
        BY <1>5 DEF Body
    <2>2. PICK e \in (DOMAIN rows) \X (SUBSET Columns) :
            b = [Start(route) EXCEPT !.key = e[1], !.cols = e[2]]
        BY <2>1
    <2>3. First[route] = "edit"
        BY <1>5 DEF First
    <2> QED
        <3>1. e[1] \in DOMAIN rows /\ e[2] \subseteq Columns
            BY <2>2
        <3>2. DOMAIN b = ThreadFields /\ b.pc = "edit" /\ b.route = route /\ b.key = e[1] /\ b.cols = e[2]
            BY <1>2, <2>2, <2>3
        <3> HIDE DEF ThreadFields
        <3> QED
            BY <1>1, <1>5, <2>3, <3>1, <3>2 DEF Handler
<1>6. CASE route \in {"grant", "demote"}
    <2>1. Body(route) = {[Start(route) EXCEPT !.id = g[1], !.cap = g[2]] :
                        g \in Principals \X Caps}
        BY <1>6 DEF Body
    <2>2. PICK g \in Principals \X Caps :
            b = [Start(route) EXCEPT !.id = g[1], !.cap = g[2]]
        BY <2>1
    <2>3. First[route] = IF route = "grant" THEN "check" ELSE "holders"
        BY <1>6 DEF First
    <2> QED
        BY <1>1, <1>2, <1>6, <2>2, <2>3 DEF Handler
<1>7. CASE route \in {"approve", "deny"}
    <2>1. Body(route) = {[Start(route) EXCEPT !.ticket = n] : n \in DOMAIN tickets}
        BY <1>7 DEF Body
    <2>2. PICK n \in DOMAIN tickets : b = [Start(route) EXCEPT !.ticket = n]
        BY <2>1
    <2>3. First[route] = route
        BY <1>7 DEF First
    <2> QED
        BY <1>1, <1>2, <1>7, <2>2, <2>3 DEF Handler
<1>8. CASE route = "submit"
    <2>1. Body(route) = {[Start(route) EXCEPT !.id = loop.who.id, !.cols = {c}] :
                        c \in EverDenied(loop.who)}
        BY <1>8 DEF Body
    <2>2. PICK c \in EverDenied(loop.who) : b = [Start(route) EXCEPT !.id = loop.who.id, !.cols = {c}]
        BY <2>1
    <2>3. First[route] = "look"
        BY <1>8 DEF First
    <2>4. \A m \in DOMAIN tickets : tickets[m] \in Ticket
        BY ElementOfSeq, LenProperties DEF TablesInv
    <2>5. c \in Columns /\ loop.who.id \in Principals
        BY <2>2, <2>4 DEF EverDenied, Ticket, Principal
    <2> QED
        BY <1>1, <1>2, <1>8, <2>2, <2>3, <2>5 DEF Handler
<1> QED
    BY <1>1, <1>3, <1>4, <1>5, <1>6, <1>7, <1>8 DEF Gate

-----------------------------------------------------------------------------
(* The request being authenticated, and the cache                          *)

LEMMA IdleLoopSound == ASSUME loop' = IdleLoop PROVE LoopInv'
<1>1. /\ DOMAIN loop' = LoopFields /\ loop'.pc = "free" /\ loop'.rows = Empty
      /\ loop'.roles = {} /\ loop'.who = None /\ loop'.gone = {} /\ ~loop'.loaded
    BY DEF IdleLoop, LoopFields
<1>2. DOMAIN Empty = {}
    BY DEF Empty
<1> QED
    BY <1>1, <1>2 DEF LoopInv, TypedRows, Within, RevokedOnReload

\* A request that finds the cached set, or starts to load.
LEMMA ArriveLoop ==
    ASSUME CacheInv, NEW k \in Keys, Arrive(k)
    PROVE  LoopInv'
<1>1. DOMAIN Empty = {}
    BY DEF Empty
<1>2. UNCHANGED <<gone, opened>>
    BY DEF Arrive, history
<1>3. CASE cache # None
    <2>1. /\ DOMAIN loop' = LoopFields /\ loop'.pc = "resolved" /\ loop'.key = k
          /\ loop'.rows = Empty /\ loop'.roles = {} /\ loop'.who = Find(cache, k)
          /\ loop'.gone = gone /\ ~loop'.loaded
        BY <1>3 DEF Arrive, IdleLoop, LoopFields
    <2>2. Find(cache, k) # None =>
            Find(cache, k) \in Principal /\ Columns \ Find(cache, k).denied \subseteq opened[k]
        BY <1>3, FindSound DEF CacheInv
    <2> QED
        BY <1>1, <1>2, <2>1, <2>2 DEF LoopInv, TypedRows, Within, RevokedOnReload
<1>4. CASE cache = None
    <2>1. /\ DOMAIN loop' = LoopFields /\ loop'.pc = "keys" /\ loop'.key = k
          /\ loop'.rows = Empty /\ loop'.roles = {} /\ loop'.who = None
          /\ loop'.gone = gone /\ ~loop'.loaded
        BY <1>4 DEF Arrive, IdleLoop, LoopFields
    <2> QED
        BY <1>1, <1>2, <2>1 DEF LoopInv, TypedRows, Within, RevokedOnReload
<1> QED
    BY <1>3, <1>4

\* Every key revoked before the request arrived is a tombstone of the rows it reads.
LEMMA ReadKeysLoop == ASSUME TablesInv, LoopInv, ReadKeys PROVE LoopInv'
<1>1. UNCHANGED <<gone, opened>>
    BY DEF ReadKeys, history
<1>2. /\ DOMAIN loop' = LoopFields /\ loop'.key = loop.key /\ loop'.key \in Keys
      /\ loop'.roles = loop.roles /\ loop'.who = loop.who /\ loop'.gone = loop.gone
      /\ loop'.loaded = loop.loaded /\ ~loop.loaded
      /\ \/ loop'.pc = "roles" /\ loop'.rows = rows
         \/ loop'.pc = "store" /\ loop'.rows = loop.rows
    BY DEF ReadKeys, LoopInv, LoopFields
<1>3. Dead(rows, loop.gone) /\ TypedRows(rows) /\ Within(rows, opened)
    BY DEF TablesInv, LoopInv, Dead
<1> QED
    BY <1>1, <1>2, <1>3 DEF LoopInv, RevokedOnReload

LEMMA ReadRolesLoop == ASSUME TablesInv, LoopInv, ReadRoles PROVE LoopInv'
<1>1. UNCHANGED <<gone, opened>>
    BY DEF ReadRoles, history
<1>2. /\ DOMAIN loop' = LoopFields /\ loop'.key = loop.key /\ loop'.key \in Keys
      /\ loop'.who = loop.who /\ loop'.gone = loop.gone /\ loop'.pc = "store"
      /\ \/ loop'.rows = loop.rows /\ loop'.roles = roles /\ loop'.loaded
         \/ loop'.rows = Empty /\ loop'.roles = loop.roles /\ ~loop'.loaded
    BY DEF ReadRoles, LoopInv, LoopFields
<1>3. Dead(loop.rows, loop.gone)
    BY DEF LoopInv, ReadRoles
<1>4. TypedRows(Empty) /\ Within(Empty, opened)
    BY DEF TypedRows, Within, Empty
<1>5. roles \subseteq Grants
    BY DEF TablesInv
<1> QED
    BY <1>1, <1>2, <1>3, <1>4, <1>5 DEF LoopInv, RevokedOnReload

LEMMA StoreSound == ASSUME TablesInv, LoopInv, Store PROVE LoopInv' /\ CacheInv'
<1> DEFINE m == Merge(loop.rows, loop.roles, env)
<1>1. UNCHANGED <<gone, opened>> /\ cache' = m
    BY DEF Store, history
<1>2. /\ TypedPrincipals(m) /\ Within(m, opened)
      /\ Dead(loop.rows, loop.gone) => loop.gone \cap DOMAIN m = {}
    BY MergeSound DEF TablesInv, LoopInv
<1>3. /\ DOMAIN loop' = LoopFields /\ loop'.pc = "resolved" /\ loop'.key = loop.key
      /\ loop'.key \in Keys /\ loop'.rows = Empty /\ loop'.roles = {}
      /\ loop'.who = Find(m, loop.key) /\ loop'.gone = loop.gone /\ loop'.loaded = loop.loaded
    BY DEF Store, LoopInv, LoopFields
<1> HIDE DEF m
<1>4. Find(m, loop.key) # None =>
        /\ Find(m, loop.key) \in Principal
        /\ Columns \ Find(m, loop.key).denied \subseteq opened[loop.key]
    BY <1>2, FindSound
<1>5. loop.loaded /\ loop.key \in loop.gone => Find(m, loop.key) = None
    BY <1>2 DEF LoopInv, Store, Find
<1>6. TypedRows(Empty) /\ Within(Empty, opened)
    BY DEF TypedRows, Within, Empty
<1>7. LoopInv'
    BY <1>1, <1>3, <1>4, <1>5, <1>6 DEF LoopInv, RevokedOnReload
<1> QED
    BY <1>1, <1>2, <1>7 DEF CacheInv

LEMMA RestartCache ==
    ASSUME TablesInv', NEW e \in SUBSET EnvKeys, Restart(e)
    PROVE  CacheInv'
<1> DEFINE m == Merge(rows', roles, e)
<1>1. cache' = None \/ cache' = m
    BY DEF Restart
<1>2. TypedRows(rows') /\ Within(rows', opened') /\ Within(EnvEntry, opened')
    BY DEF TablesInv
<1>3. TypedPrincipals(m) /\ Within(m, opened')
    BY <1>2, MergeSound
<1> QED
    BY <1>1, <1>3 DEF CacheInv

-----------------------------------------------------------------------------
(* Room in access_requests                                                 *)

LEMMA SubmittingFinite == IsFiniteSet(Submitting) /\ Cardinality(Submitting) \in Nat
BY ThreadsAssumption, FS_Subset, FS_CardinalityType DEF Submitting

\* RoomFor keeps a place for the row of every submit that is dispatched.
LEMMA DispatchRoom ==
    ASSUME TablesInv, HandlersInv, RoomInv, NEW t \in Threads, NEW route, NEW b,
           RoomFor(route), b.route = route, thread[t].pc = "idle",
           thread' = [thread EXCEPT ![t] = b], UNCHANGED tickets
    PROVE  RoomInv'
<1>1. thread[t].route = None /\ None # "submit"
    BY NoneAssumption DEF HandlersInv, Handler, Gate
<1>2. Len(tickets) \in Nat /\ Pending("submit") = Cardinality(Submitting)
    BY LenProperties DEF TablesInv, Pending, Submitting
<1>3. CASE route # "submit"
    <2>1. Submitting' \subseteq Submitting
        BY <1>3 DEF Submitting, HandlersInv
    <2> QED
        BY <2>1, RoomKept
<1>4. CASE route = "submit"
    <2>1. t \notin Submitting /\ Submitting' = Submitting \cup {t}
        BY <1>1, <1>4 DEF Submitting, HandlersInv
    <2>2. Cardinality(Submitting') = Cardinality(Submitting) + 1
        BY <2>1, SubmittingFinite, FS_AddElement
    <2>3. Len(tickets) + Cardinality(Submitting) < MaxTickets
        BY <1>2, <1>4 DEF RoomFor
    <2> QED
        BY <1>2, <2>2, <2>3, SubmittingFinite, BoundsAssumption DEF RoomInv
<1> QED
    BY <1>3, <1>4

LEMMA SubmitRoom ==
    ASSUME TablesInv, HandlersInv, RoomInv, NEW t \in Threads, SubmitInsert(t)
    PROVE  RoomInv'
<1>1. t \in Submitting /\ Submitting' = Submitting \ {t}
    BY FinishSubmitting DEF SubmitInsert, HandlersInv, Handler, At, Submitting
<1>2. Cardinality(Submitting') = Cardinality(Submitting) - 1
    BY <1>1, SubmittingFinite, FS_RemoveElement
<1>3. Len(tickets') = Len(tickets) + 1 /\ Len(tickets) \in Nat
    BY SubmitTables, LenProperties DEF TablesInv
<1> QED
    BY <1>2, <1>3, SubmittingFinite, BoundsAssumption DEF RoomInv

\* A step that keeps the length of the table and adds no submit.
LEMMA SameRoom ==
    ASSUME TablesInv, RoomInv, Len(tickets') = Len(tickets), Submitting' \subseteq Submitting
    PROVE  RoomInv'
<1>1. Cardinality(Submitting') <= Cardinality(Submitting) /\ Cardinality(Submitting') \in Nat
    BY SubmittingFinite, FS_Subset, FS_CardinalityType
<1>2. Len(tickets) \in Nat
    BY LenProperties DEF TablesInv
<1> QED
    BY <1>1, <1>2, SubmittingFinite, BoundsAssumption DEF RoomInv

-----------------------------------------------------------------------------
(* Every step keeps the invariant                                          *)

LEMMA InitIInv == Init => IInv
<1> SUFFICES ASSUME Init PROVE IInv
    OBVIOUS
<1>1. DOMAIN EnvEntry = EnvKeys /\ DOMAIN Empty = {}
    BY EntriesAssumption DEF Empty
<1>2. TablesInv
    <2>1. opened \in [Keys -> SUBSET Columns]
        BY DEF Init
    <2>2. Within(EnvEntry, opened)
        BY <1>1 DEF Init, Within, Keys
    <2>3. tickets \in Seq(Ticket)
        BY DEF Init
    <2> QED
        BY <1>1, <2>1, <2>2, <2>3 DEF Init, TablesInv, TypedRows, Within, Dead
<1>3. HandlersInv
    BY IdleHandler DEF Init, HandlersInv
<1>4. LoopInv
    <2>1. /\ DOMAIN loop = LoopFields /\ loop.pc = "free" /\ loop.rows = Empty
          /\ loop.roles = {} /\ loop.who = None /\ loop.gone = {} /\ ~loop.loaded
        BY DEF Init, IdleLoop, LoopFields
    <2> QED
        BY <1>1, <2>1 DEF LoopInv, TypedRows, Within, RevokedOnReload
<1>5. CacheInv
    BY DEF Init, CacheInv
<1>6. RoomInv
    <2>1. Submitting = {}
        BY NoneAssumption DEF Init, Submitting, IdleThread, Gate
    <2>2. Len(tickets) = 0
        BY DEF Init
    <2> QED
        BY <2>1, <2>2, FS_EmptySet, BoundsAssumption DEF RoomInv
<1> QED
    BY <1>2, <1>3, <1>4, <1>5, <1>6 DEF IInv

\* The steps of the event loop.
LEMMA LoopStep ==
    ASSUME IInv,
           (\E k \in Keys : Arrive(k)) \/ ReadKeys \/ ReadRoles \/ Store \/ Expire \/ Dismiss
    PROVE  IInv' /\ UNCHANGED tickets
<1>1. UNCHANGED <<process, tables, thread, history>>
    BY DEF Arrive, ReadKeys, ReadRoles, Store, Expire, Dismiss
<1>2. UNCHANGED <<rows, opened, gone, tickets>> /\ Grown
    BY <1>1, GrownIfUnchanged DEF tables, history
<1>3. TablesInv'
    BY <1>1, TablesKept DEF IInv
<1>4. HandlersInv' /\ RoomInv'
    BY <1>1, <1>2 DEF IInv, HandlersInv, RoomInv, Submitting
<1>5. LoopInv' /\ CacheInv'
    <2>1. CASE \E k \in Keys : Arrive(k)
        BY <1>2, <2>1, ArriveLoop, CacheKept DEF IInv, Grown, Arrive
    <2>2. CASE ReadKeys
        BY <1>2, <2>2, ReadKeysLoop, CacheKept DEF IInv, Grown, ReadKeys
    <2>3. CASE ReadRoles
        BY <1>2, <2>3, ReadRolesLoop, CacheKept DEF IInv, Grown, ReadRoles
    <2>4. CASE Store
        BY <2>4, StoreSound DEF IInv
    <2>5. CASE Expire
        BY <1>2, <2>5, LoopKept DEF IInv, CacheInv, Expire
    <2>6. CASE Dismiss
        BY <1>2, <2>6, IdleLoopSound, CacheKept DEF IInv, Grown, Dismiss
    <2> QED
        BY <2>1, <2>2, <2>3, <2>4, <2>5, <2>6
<1> QED
    BY <1>2, <1>3, <1>4, <1>5 DEF IInv

\* A handler's step that reads or fails.
LEMMA QuietStep ==
    ASSUME IInv, NEW t \in Threads,
           DbError(t) \/ GrantCheck(t) \/ RevokeCheck(t) \/ SubmitLook(t)
    PROVE  IInv' /\ UNCHANGED tickets
<1>1. UNCHANGED <<process, tables, cache, loop, history>>
    BY DEF DbError, GrantCheck, RevokeCheck, SubmitLook
<1>2. UNCHANGED <<rows, opened, gone, tickets, cache, loop>> /\ Grown
    BY <1>1, GrownIfUnchanged DEF tables, history
<1>3. HandlersInv' /\ Submitting' \subseteq Submitting
    <2>1. CASE DbError(t)
        BY <1>2, <2>1, FinishKeeps, FinishSubmitting DEF DbError, IInv, Grown
    <2>2. CASE GrantCheck(t) \/ RevokeCheck(t) \/ SubmitLook(t)
        BY <1>2, <2>2, ReaderHandlers DEF IInv, Grown
    <2> QED
        BY <2>1, <2>2
<1> QED
    BY <1>1, <1>2, <1>3, TablesKept, LoopKept, CacheKept, RoomKept DEF IInv, Grown

\* A handler's step that writes.
LEMMA WriteStep ==
    ASSUME IInv, NEW t \in Threads,
           \/ IssueKey(t) \/ EditKey(t) \/ GrantInsert(t) \/ RevokeDelete(t)
           \/ SubmitInsert(t) \/ Approve(t) \/ Deny(t)
    PROVE  IInv'
<1>1. UNCHANGED <<cache, loop>>
    BY DEF IssueKey, EditKey, GrantInsert, RevokeDelete, SubmitInsert, Approve, Deny
<1>2. TablesInv' /\ Grown
    BY IssueTables, EditTables, RolesTables, SubmitTables, ApproveTables, DenyTables DEF IInv
<1>3. HandlersInv'
    <2>1. CASE IssueKey(t) \/ GrantInsert(t) \/ RevokeDelete(t) \/ Approve(t)
        BY <1>2, <2>1, WriterHandlers DEF IInv, Grown
    <2>2. CASE EditKey(t)
        BY <1>2, <2>2, EditHandlers DEF IInv, Grown
    <2>3. CASE SubmitInsert(t) \/ Deny(t)
        BY <1>2, <2>3, FinishKeeps DEF IInv, Grown, SubmitInsert, Deny
    <2> QED
        BY <2>1, <2>2, <2>3
<1>4. RoomInv'
    <2>1. CASE SubmitInsert(t)
        BY <2>1, SubmitRoom DEF IInv
    <2>2. CASE ~SubmitInsert(t)
        <3>1. Len(tickets') = Len(tickets)
            BY <2>2, ApproveTables, DenyTables DEF IInv, IssueKey, EditKey, GrantInsert, RevokeDelete
        <3>2. CASE IssueKey(t) \/ GrantInsert(t) \/ RevokeDelete(t) \/ Approve(t)
            BY <1>2, <3>1, <3>2, WriterHandlers, SameRoom DEF IInv, Grown
        <3>3. CASE EditKey(t)
            BY <1>2, <3>1, <3>3, EditHandlers, SameRoom DEF IInv, Grown
        <3>4. CASE Deny(t)
            BY <3>1, <3>4, FinishSubmitting, SameRoom DEF IInv, Deny
        <3> QED
            BY <2>2, <3>2, <3>3, <3>4
    <2> QED
        BY <2>1, <2>2
<1> QED
    BY <1>1, <1>2, <1>3, <1>4, LoopKept, CacheKept DEF IInv, Grown

LEMMA InvalidateStep ==
    ASSUME IInv, NEW t \in Threads, Invalidate(t)
    PROVE  IInv' /\ UNCHANGED tickets
<1>1. TablesInv' /\ Grown
    BY InvalidateTables DEF IInv
<1>2. UNCHANGED <<loop, tickets>> /\ cache' = None /\ Finish(t)
    BY DEF Invalidate, tables
<1>3. HandlersInv' /\ Submitting' \subseteq Submitting
    BY <1>1, <1>2, FinishKeeps, FinishSubmitting DEF IInv, Grown
<1> QED
    BY <1>1, <1>2, <1>3, LoopKept, RoomKept DEF IInv, CacheInv

LEMMA DispatchStep ==
    ASSUME IInv, NEW t \in Threads, Dispatch(t)
    PROVE  IInv' /\ UNCHANGED tickets
<1>1. UNCHANGED <<process, tables, cache, history>> /\ loop' = IdleLoop
    BY DEF Dispatch
<1>2. UNCHANGED <<rows, opened, gone, tickets, cache>> /\ Grown
    BY <1>1, GrownIfUnchanged DEF tables, history
<1>3. PICK route \in Routes :
        RoomFor(route) /\ \E b \in Body(route) : thread' = [thread EXCEPT ![t] = b]
    BY DEF Dispatch
<1>4. PICK b \in Body(route) : thread' = [thread EXCEPT ![t] = b]
    BY <1>3
<1>5. loop.who \in Principal /\ thread[t].pc = "idle"
    BY DEF Dispatch, IInv, LoopInv
<1>6. Handler(b, rows) /\ b.route = route
    BY <1>5, BodyHandler DEF IInv
<1>7. HandlersInv'
    BY <1>2, <1>4, <1>6, HandlerMoves DEF IInv, Grown
<1>8. RoomInv'
    BY <1>2, <1>3, <1>4, <1>5, <1>6, DispatchRoom DEF IInv
<1> QED
    BY <1>1, <1>2, <1>7, <1>8, TablesKept, IdleLoopSound, CacheKept DEF IInv, Grown

LEMMA RestartStep ==
    ASSUME IInv, NEW e \in SUBSET EnvKeys, Restart(e)
    PROVE  IInv' /\ UNCHANGED tickets
<1>1. TablesInv'
    BY RestartTables DEF IInv
<1>2. loop' = IdleLoop /\ thread' = [t \in Threads |-> IdleThread] /\ UNCHANGED tickets
    BY DEF Restart
<1>3. HandlersInv'
    BY <1>2, IdleHandler DEF HandlersInv
<1>4. Submitting' = {}
    BY <1>2, NoneAssumption DEF Submitting, IdleThread, Gate
<1>5. RoomInv'
    BY <1>2, <1>4, RoomKept DEF IInv
<1> QED
    BY <1>1, <1>2, <1>3, <1>5, IdleLoopSound, RestartCache DEF IInv

LEMMA OutageStep == ASSUME IInv, Outage PROVE IInv' /\ UNCHANGED tickets
<1>1. UNCHANGED <<up, env, tables, cache, loop, thread, history>> /\ dbUp' = ~dbUp
    BY DEF Outage
<1>2. UNCHANGED <<rows, roles, tickets, gone, opened, granted>> /\ Grown
    BY <1>1, GrownIfUnchanged DEF tables, history
<1>3. TablesInv'
    BY <1>1, <1>2 DEF IInv, TablesInv, TypedRows, Within, Dead, Stands
<1>4. HandlersInv' /\ RoomInv'
    BY <1>1, <1>2 DEF IInv, HandlersInv, RoomInv, Submitting
<1> QED
    BY <1>1, <1>2, <1>3, <1>4, LoopKept, CacheKept DEF IInv, Grown

LEMMA NextIInv == IInv /\ [Next]_vars => IInv'
<1> SUFFICES ASSUME IInv, [Next]_vars PROVE IInv'
    OBVIOUS
<1>1. CASE (\E k \in Keys : Arrive(k)) \/ ReadKeys \/ ReadRoles \/ Store \/ Expire \/ Dismiss
    BY <1>1, LoopStep
<1>2. ASSUME NEW t \in Threads,
             \/ Dispatch(t) \/ DbError(t) \/ IssueKey(t) \/ EditKey(t) \/ Invalidate(t)
             \/ GrantCheck(t) \/ GrantInsert(t) \/ RevokeCheck(t) \/ RevokeDelete(t)
             \/ SubmitLook(t) \/ SubmitInsert(t) \/ Approve(t) \/ Deny(t)
      PROVE  IInv'
    BY <1>2, DispatchStep, QuietStep, WriteStep, InvalidateStep
<1>3. CASE \E e \in SUBSET EnvKeys : Restart(e)
    BY <1>3, RestartStep
<1>4. CASE Outage
    BY <1>4, OutageStep
<1>5. CASE UNCHANGED vars
    <2>1. UNCHANGED <<process, tables, history, rows, opened, gone, tickets, loop, cache, thread>>
        BY <1>5 DEF vars, process, tables, history
    <2>2. HandlersInv' /\ RoomInv'
        BY <2>1 DEF IInv, HandlersInv, RoomInv, Submitting
    <2> QED
        BY <2>1, <2>2, TablesKept, LoopKept, CacheKept, GrownIfUnchanged DEF IInv, Grown
<1> QED
    BY <1>1, <1>2, <1>3, <1>4, <1>5 DEF Next

-----------------------------------------------------------------------------
(* The theorems                                                            *)

LEMMA Invariance == Spec => []IInv
BY InitIInv, NextIInv, PTL DEF Spec

\* get_active_principals never makes half a principal out of its two sources, a
\* handler runs only routes of this server, and access_requests keeps its bound.
THEOREM TypeCorrect == Spec => []TypeOK
<1>1. ASSUME IInv PROVE TypeOK
    <2>1. Len(tickets) <= MaxTickets
        <3>1. Len(tickets) \in Nat
            BY <1>1, LenProperties DEF IInv, TablesInv
        <3> QED
            BY <1>1, <3>1, SubmittingFinite, BoundsAssumption DEF IInv, RoomInv
    <2>2. \A t \in Threads : thread[t].pc # "idle" => thread[t].route \in Routes
        BY <1>1 DEF IInv, HandlersInv, Handler
    <2> QED
        BY <1>1, <2>1, <2>2 DEF IInv, TypeOK, TablesInv, TypedRows, Grants, CacheInv,
            TypedPrincipals, LoopInv
<1> QED
    BY <1>1, Invariance, PTL

\* A loaded request honours every tombstone, nobody sees a column that was never
\* opened to their key, and an approval covers the keys of its day, whatever the
\* threads, outages and restarts do in between (get_active_principals, issue_key,
\* approve_request).
THEOREM AccessIsSound == Spec => []AccessSound
<1>1. ASSUME IInv PROVE AccessSound
    <2>1. RevokedOnReload
        BY <1>1 DEF IInv, LoopInv
    <2>2. VisibleOnlyGranted
        BY <1>1 DEF IInv, LoopInv, CacheInv, Within, VisibleOnlyGranted
    <2>3. ASSUME NEW g \in granted, NEW k \in EffectiveKeys(g[1]) \cap g[3]
          PROVE  g[2] \notin Effective[k].denied
        <3>1. Stands(g, rows)
            BY <1>1 DEF IInv, TablesInv
        <3>2. k \in DOMAIN rows /\ k \in DOMAIN Effective /\ Effective[k].id = g[1]
            BY <3>1 DEF EffectiveKeys, Stands
        <3>3. Usable(rows[k]) /\ Effective[k].id = rows[k].id /\ Effective[k].denied = rows[k].denied
            BY <3>2 DEF Effective, Merge
        <3> QED
            BY <3>1, <3>2, <3>3 DEF Stands, Usable
    <2> QED
        BY <2>1, <2>2, <2>3 DEF AccessSound, ApprovalHolds
<1> QED
    BY <1>1, Invariance, PTL

\* approve_request and deny_request never reverse each other, however many
\* threads decide the same request.
THEOREM DecisionsAreFinal == Spec => DecisionFinal
<1> DEFINE Kept == \A n \in DOMAIN tickets : tickets[n].status # "open" => tickets'[n] = tickets[n]
<1>1. ASSUME IInv, [Next]_vars PROVE [Kept]_vars
    <2>1. ASSUME NEW t \in Threads, Approve(t) PROVE Kept
        <3> DEFINE m == thread[t].ticket
        <3>1. CASE Claimable(m)
            BY <1>1, <2>1, <3>1, Decided DEF Approve, Claimable, IInv
        <3>2. CASE ~Claimable(m)
            BY <2>1, <3>2 DEF Approve
        <3> QED
            BY <3>1, <3>2
    <2>2. ASSUME NEW t \in Threads, Deny(t) PROVE Kept
        <3> DEFINE m == thread[t].ticket
        <3>1. CASE Claimable(m)
            BY <1>1, <2>2, <3>1, Decided DEF Deny, Claimable, IInv
        <3>2. CASE ~Claimable(m)
            BY <2>2, <3>2 DEF Deny
        <3> QED
            BY <3>1, <3>2
    <2>3. ASSUME NEW t \in Threads, SubmitInsert(t) PROVE Kept
        <3>1. PICK c \in thread[t].cols :
                tickets' = Append(tickets, [id |-> thread[t].id, col |-> c, status |-> "open"])
            BY <2>3 DEF SubmitInsert
        <3>2. DOMAIN tickets = 1..Len(tickets) /\ Len(tickets) \in Nat
            BY <1>1, LenProperties DEF IInv, TablesInv
        <3>3. [id |-> thread[t].id, col |-> c, status |-> "open"] \in Ticket
            BY <1>1, <2>3 DEF IInv, HandlersInv, Handler, SubmitInsert, At, Ticket
        <3> QED
            BY <1>1, <3>1, <3>2, <3>3, AppendProperties DEF IInv, TablesInv
    <2>4. ASSUME NEW t \in Threads,
                 IssueKey(t) \/ EditKey(t) \/ GrantInsert(t) \/ RevokeDelete(t)
          PROVE  UNCHANGED tickets
        BY <2>4 DEF IssueKey, EditKey, GrantInsert, RevokeDelete
    <2>5. ASSUME NEW t \in Threads,
                 \/ Dispatch(t) \/ DbError(t) \/ Invalidate(t)
                 \/ GrantCheck(t) \/ RevokeCheck(t) \/ SubmitLook(t)
          PROVE  UNCHANGED tickets
        BY <1>1, <2>5, DispatchStep, InvalidateStep, QuietStep
    <2>6. CASE \E e \in SUBSET EnvKeys : Restart(e)
        BY <1>1, <2>6, RestartStep
    <2>7. CASE Outage
        BY <1>1, <2>7, OutageStep
    <2>8. CASE (\E k \in Keys : Arrive(k)) \/ ReadKeys \/ ReadRoles \/ Store \/ Expire \/ Dismiss
        BY <1>1, <2>8, LoopStep
    <2> HIDE DEF Kept
    <2>9. UNCHANGED tickets => Kept
        BY DEF Kept
    <2> QED
        BY <1>1, <2>1, <2>2, <2>3, <2>4, <2>5, <2>6, <2>7, <2>8, <2>9 DEF Next
<1> QED
    BY <1>1, Invariance, PTL DEF Spec, DecisionFinal

\* A revoke about to delete has counted holders that its check let pass.
Counted(h) == h.pc = "delete" => MayRevoke(h.id, h.cap, h.counted)
CountsInv == \A t \in Threads : Counted(thread[t])

\* The step of a thread that is not about to delete afterwards.
LEMMA CountsKept ==
    ASSUME HandlersInv, CountsInv, env' = env, NEW t \in Threads, NEW h,
           thread' = [thread EXCEPT ![t] = h], h.pc # "delete"
    PROVE  CountsInv'
<1>1. thread'[t] = h /\ \A s \in Threads \ {t} : thread'[s] = thread[s]
    BY DEF HandlersInv
<1> QED
    BY <1>1 DEF CountsInv, Counted, MayRevoke, EnvHolders

LEMMA RevokeCounts ==
    ASSUME HandlersInv, CountsInv, NEW t \in Threads, RevokeCheck(t)
    PROVE  CountsInv'
<1> DEFINE h == thread[t]
           counted == EnvHolders(h.cap) \cup (IF dbUp THEN DbHolders(h.cap) ELSE {})
<1>1. /\ env' = env
      /\ IF MayRevoke(h.id, h.cap, counted) THEN Hold(t, "delete", counted) ELSE Finish(t)
    BY DEF RevokeCheck, process
<1> HIDE DEF counted
<1>2. CASE Finish(t)
    <2>1. IdleThread.pc # "delete"
        BY DEF IdleThread
    <2> QED
        BY <1>1, <1>2, <2>1, CountsKept DEF Finish
<1>3. CASE MayRevoke(h.id, h.cap, counted) /\ Hold(t, "delete", counted)
    <2>1. thread'[t] = [h EXCEPT !.pc = "delete", !.counted = counted]
        BY <1>3 DEF Hold, HandlersInv
    <2>2. DOMAIN h = ThreadFields
        BY DEF HandlersInv, Handler
    <2>3. thread'[t].id = h.id /\ thread'[t].cap = h.cap /\ thread'[t].counted = counted
        BY <2>1, <2>2 DEF ThreadFields
    <2>4. \A s \in Threads \ {t} : thread'[s] = thread[s]
        BY <1>3 DEF Hold, HandlersInv
    <2> QED
        BY <1>1, <1>3, <2>3, <2>4 DEF CountsInv, Counted, MayRevoke, EnvHolders
<1> QED
    BY <1>1, <1>2, <1>3

LEMMA CountsInvariant == Spec => []CountsInv
<1>1. Init => CountsInv
    BY DEF Init, CountsInv, Counted, IdleThread
<1>2. IInv /\ CountsInv /\ [Next]_vars => CountsInv'
    <2> SUFFICES ASSUME IInv, CountsInv, [Next]_vars PROVE CountsInv'
        OBVIOUS
    <2>1. CASE UNCHANGED <<env, thread>>
        BY <2>1 DEF CountsInv, Counted, MayRevoke, EnvHolders
    <2>2. ASSUME NEW t \in Threads, NEW pc, NEW counted, pc # "delete", env' = env,
                 Finish(t) \/ Go(t, pc) \/ Hold(t, pc, counted)
          PROVE  CountsInv'
        <3>1. /\ IdleThread.pc # "delete"
              /\ [thread[t] EXCEPT !.pc = pc].pc = pc
              /\ [thread[t] EXCEPT !.pc = pc, !.counted = counted].pc = pc
            BY DEF IInv, HandlersInv, Handler, ThreadFields, IdleThread
        <3> QED
            BY <2>2, <3>1, CountsKept DEF IInv, Finish, Go, Hold
    <2>3. ASSUME NEW t \in Threads, Dispatch(t) PROVE CountsInv'
        <3>1. PICK route \in Routes : \E b \in Body(route) : thread' = [thread EXCEPT ![t] = b]
            BY <2>3 DEF Dispatch
        <3>2. PICK b \in Body(route) : thread' = [thread EXCEPT ![t] = b]
            BY <3>1
        <3>3. b.pc # "delete"
            <4>1. b.pc = First[route] /\ route \in DOMAIN Gate
                BY <2>3, BodyHandler, RoutesAssumption DEF IInv, Dispatch, LoopInv
            <4> QED
                BY <4>1 DEF First, Gate
        <3> QED
            BY <2>3, <3>2, <3>3, CountsKept DEF IInv, Dispatch, process
    <2>4. ASSUME NEW t \in Threads,
                 \/ DbError(t) \/ IssueKey(t) \/ EditKey(t) \/ Invalidate(t)
                 \/ GrantCheck(t) \/ GrantInsert(t) \/ RevokeDelete(t)
                 \/ SubmitLook(t) \/ SubmitInsert(t) \/ Approve(t) \/ Deny(t)
          PROVE  CountsInv'
        <3>1. env' = env
            BY <2>4 DEF DbError, IssueKey, EditKey, Invalidate, GrantCheck, GrantInsert,
                RevokeDelete, SubmitLook, SubmitInsert, Approve, Deny, process
        <3>2. \/ Finish(t) \/ Hold(t, "invalidate", {})
              \/ \E pc \in {"invalidate", "insert", "append"} : Go(t, pc)
            BY <2>4 DEF DbError, IssueKey, EditKey, Invalidate, GrantCheck, GrantInsert,
                RevokeDelete, SubmitLook, SubmitInsert, Approve, Deny
        <3> QED
            BY <2>2, <3>1, <3>2
    <2>5. CASE \E e \in SUBSET EnvKeys : Restart(e)
        BY <2>5 DEF Restart, CountsInv, Counted, IdleThread
    <2>6. CASE (\E k \in Keys : Arrive(k)) \/ ReadKeys \/ ReadRoles \/ Store \/ Expire
               \/ Dismiss \/ Outage
        BY <2>1, <2>6 DEF Arrive, ReadKeys, ReadRoles, Store, Expire, Dismiss, Outage, process
    <2> QED
        BY <2>1, <2>3, <2>4, <2>5, <2>6, RevokeCounts DEF IInv, Next, vars
<1> QED
    BY <1>1, <1>2, Invariance, PTL DEF Spec

\* What a delete that takes the last holder had counted.
Stale(t, cap) ==
    /\ thread[t].pc = "delete" /\ thread'[t].pc = "invalidate"
    /\ thread[t].cap = cap
    /\ thread[t].counted = {} \/ ~(thread[t].counted \subseteq Holders(cap))

LEMMA LostByStaleCount ==
    ASSUME HandlersInv, CountsInv, NEW t \in Threads, RevokeDelete(t), NEW cap \in Caps,
           Holders(cap) # {}, Holders(cap)' = {}, env' = env
    PROVE  Stale(t, cap)
<1> DEFINE h == thread[t]
<1>1. h.pc = "delete" /\ roles' = roles \ {<<h.id, h.cap>>} /\ Hold(t, "invalidate", {})
    BY DEF RevokeDelete, At
<1>2. thread'[t].pc = "invalidate"
    BY <1>1 DEF Hold, HandlersInv, Handler, ThreadFields
<1>3. h.counted # {h.id}
    BY <1>1 DEF CountsInv, Counted, MayRevoke
<1> HIDE DEF h
<1>4. EnvHolders(cap)' = EnvHolders(cap)
    BY DEF EnvHolders
<1>5. DbHolders(cap)' = DbHolders(cap) \ (IF cap = h.cap THEN {h.id} ELSE {})
    BY <1>1 DEF DbHolders
<1>6. h.cap = cap /\ Holders(cap) = {h.id}
    BY <1>4, <1>5 DEF Holders
<1>7. h.counted = {} \/ ~(h.counted \subseteq Holders(cap))
    BY <1>3, <1>6
<1> QED
    BY <1>1, <1>2, <1>6, <1>7 DEF Stale, h

\* However handlers overlap and the database fails: a role revoke takes a
\* capability from its last holder only when it counted nobody, or somebody whose
\* grant is gone since (roles.revoke).
THEOREM LastHolderStays == Spec => LastHolderCounted
<1> DEFINE Told ==
        env' = env => \A cap \in Caps :
            Holders(cap) # {} /\ Holders(cap)' = {} => \E t \in Threads : Stale(t, cap)
<1>1. ASSUME IInv, CountsInv, [Next]_vars PROVE [Told]_vars
    <2>1. CASE \E t \in Threads : RevokeDelete(t)
        BY <1>1, <2>1, LostByStaleCount DEF IInv
    <2>2. CASE roles \subseteq roles'
        BY <2>2 DEF Holders, EnvHolders, DbHolders
    <2>3. CASE UNCHANGED vars
        BY <2>3
    <2> HIDE DEF Told
    <2>4. ASSUME NEW t \in Threads, GrantInsert(t) PROVE roles \subseteq roles'
        BY <2>4 DEF GrantInsert
    <2>5. ASSUME NEW t \in Threads,
                 \/ Dispatch(t) \/ DbError(t) \/ IssueKey(t) \/ EditKey(t) \/ Invalidate(t)
                 \/ GrantCheck(t) \/ RevokeCheck(t)
                 \/ SubmitLook(t) \/ SubmitInsert(t) \/ Approve(t) \/ Deny(t)
          PROVE  UNCHANGED roles
        BY <2>5 DEF Dispatch, DbError, IssueKey, EditKey, Invalidate, GrantCheck, RevokeCheck,
            SubmitLook, SubmitInsert, Approve, Deny, tables
    <2>6. CASE \E e \in SUBSET EnvKeys : Restart(e)
        BY <2>2, <2>6 DEF Restart
    <2>7. CASE Outage
        BY <2>2, <2>7 DEF Outage, tables
    <2>8. CASE (\E k \in Keys : Arrive(k)) \/ ReadKeys \/ ReadRoles \/ Store \/ Expire \/ Dismiss
        BY <2>2, <2>8 DEF Arrive, ReadKeys, ReadRoles, Store, Expire, Dismiss, tables
    <2> QED
        BY <1>1, <2>1, <2>2, <2>3, <2>4, <2>5, <2>6, <2>7, <2>8 DEF Next
<1> QED
    BY <1>1, Invariance, CountsInvariant, PTL DEF Spec, LastHolderCounted, Stale

=============================================================================
