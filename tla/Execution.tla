----------------------------- MODULE Execution -----------------------------
(***************************************************************************)
(* database/executor.py with routing.py, connection.py and pool_ping.py:    *)
(* statements are routed to a data source and run on a pooled connection,   *)
(* while the databases restart under the pools.                             *)
(*                                                                          *)
(* A source is its name; an engine is numbered by when it was built.  A      *)
(* physical connection is `alive` until its database goes down, `recent`    *)
(* while it has been used within DB_POOL_PING_IDLE_SECONDS.  The pool's own *)
(* rules (SQLAlchemy's QueuePool: a limit, invalidation, one replacement at *)
(* checkout) are modelled from how these files use them.  A statement of no  *)
(* table is sent to the default source.                                     *)
(***************************************************************************)
EXTENDS Naturals, Sequences, FiniteSets

CONSTANTS
    Sources,      \* datasource_names(): in the file's order, the default first
    Tables, Queries,
    Pooled,       \* the connections a pool may have
    PingAll,      \* DB_POOL_PING_IDLE_SECONDS = 0
    MaxRestarts, MaxAsked   \* bounds

VARIABLES
    homes,    \* table_datasource_sets, fixed: the sources of each table
    engines,  \* _engines: the engine of each source, 0 for none
    lock,     \* _engines_lock: who holds it
    pool,     \* per engine: its source, its connections
    up,       \* per source: the database answers
    query,    \* the callers
    asked, restarts   \* counters

vars == <<homes, engines, lock, pool, up, query, asked, restarts>>

\* What an instance must be: one source or more, a pool of at least one
\* connection, names apart from the values they stand beside.
Configured ==
    /\ Sources \in Seq({Sources[i] : i \in DOMAIN Sources}) /\ Sources # <<>>
    /\ "none" \notin {Sources[i] : i \in DOMAIN Sources}
    /\ IsFiniteSet(Queries) /\ "free" \notin Queries
    /\ Pooled \in Nat \ {0} /\ PingAll \in BOOLEAN
    /\ MaxRestarts \in Nat /\ MaxAsked \in Nat

Names == {Sources[i] : i \in DOMAIN Sources}
Default == Sources[1]
Slots == 1 .. Pooled
\* An engine a caller may build although another one has.
Engines == 1 .. Cardinality(Queries) + Len(Sources)
None == [is |-> "none", alive |-> FALSE, recent |-> FALSE, known |-> FALSE, open |-> FALSE]
Connection == [is : {"none", "idle", "out"}, alive : BOOLEAN, recent : BOOLEAN,
               known : BOOLEAN,  \* the pool has been invalidated since
               open : BOOLEAN]   \* a transaction is open on it
Result == {"none", "rows", "cross", "refused", "error", "lost"}
Idle(result) == [pc |-> "idle", tables |-> {}, source |-> Default, engine |-> 0, slot |-> 1,
                 doomed |-> FALSE, result |-> result]

TypeOK ==
    /\ homes \in [Tables -> SUBSET Names \ {{}}]
    /\ engines \in [Names -> 0 .. Len(pool)] /\ lock \in Queries \cup {"free"}
    /\ \A e \in DOMAIN pool : pool[e].source \in Names /\ pool[e].conn \in [Slots -> Connection]
    /\ Len(pool) \in 0 .. Cardinality(Engines) /\ up \in [Names -> BOOLEAN]
    /\ \A q \in Queries :
        /\ query[q].pc \in {"idle", "engine", "lock", "build", "checkout", "ping", "run", "rollback"}
        /\ query[q].result \in Result /\ query[q].source \in Names
    /\ asked \in 0 .. MaxAsked /\ restarts \in 0 .. MaxRestarts

Conn(q) == pool[query[q].engine].conn[query[q].slot]
Set(q, c) == pool' = [pool EXCEPT ![query[q].engine].conn[query[q].slot] = c]
Goes(q, pc) == query' = [query EXCEPT ![q].pc = pc]
\* What the properties look at is kept.
Ends(q, result) == query' = [query EXCEPT ![q] = [Idle(result) EXCEPT
        !.doomed = query[q].doomed /\ result = "lost",
        !.source = IF result = "rows" THEN query[q].source ELSE @,
        !.tables = IF result = "rows" THEN query[q].tables ELSE @]]
Engineering == UNCHANGED <<engines, lock>>
Outside == UNCHANGED <<homes, up, asked, restarts>>

\* MUTANT: a source that holds one of the tables is enough.
HoldsOne(tables) == {s \in Names : \E t \in tables : s \in homes[t]}
\* choose_datasource: the sources that hold every table.
Candidates(tables) == {s \in Names : \A t \in tables : s \in homes[t]}

\* pick_datasource: the default, or the first in the file.
Pick(found) == Sources[CHOOSE i \in DOMAIN Sources :
                   Sources[i] \in found /\ \A j \in 1 .. i - 1 : Sources[j] \notin found]

Sent(tables, source) == [Idle("none") EXCEPT !.pc = "engine", !.tables = tables, !.source = source]

\* execute_sql with a source, and without one: _route.
Ask(q, tables, given) ==
    /\ query[q].pc = "idle" /\ asked < MaxAsked /\ asked' = asked + 1
    /\ query' = [query EXCEPT ![q] =
         IF given # "none" THEN Sent({}, given)
         ELSE IF Candidates(tables) = {} THEN Idle("cross")
         ELSE Sent(tables, Pick(Candidates(tables)))]
    /\ UNCHANGED <<homes, pool, up, restarts>> /\ Engineering

\* get_engine: without the lock first.
GetEngine(q) ==
    /\ query[q].pc = "engine"
    /\ LET e == engines[query[q].source] IN
       query' = [query EXCEPT ![q].engine = e, ![q].pc = IF e = 0 THEN "lock" ELSE "checkout"]
    /\ UNCHANGED pool /\ Engineering /\ Outside

Lock(q) ==
    /\ query[q].pc = "lock" /\ lock = "free" /\ lock' = q
    /\ Goes(q, "build") /\ UNCHANGED <<engines, pool>> /\ Outside

\* MUTANT: the cache is not looked at again under the lock.
NotAgain(s) == TRUE
\* The second look.
Missing(s) == engines[s] = 0

Build(q) ==
    /\ query[q].pc = "build" /\ lock' = "free"
    /\ LET s == query[q].source
           e == IF Missing(s) THEN Len(pool) + 1 ELSE engines[s]
       IN /\ engines' = [engines EXCEPT ![s] = e]
          /\ pool' = IF Missing(s) THEN Append(pool, [source |-> s, conn |-> [i \in Slots |-> None]])
                     ELSE pool
          /\ query' = [query EXCEPT ![q].engine = e, ![q].pc = "checkout"]
    /\ Outside

\* --------------------------------------------------------------- the pool
New == [is |-> "out", alive |-> TRUE, recent |-> TRUE, known |-> FALSE, open |-> FALSE]

\* A connection from the pool, or a new one; an invalidated one is replaced
\* first.  A new one is refused by a database that is down.
Checkout(q) ==
    /\ query[q].pc = "checkout"
    /\ \E i \in Slots :
        LET c == pool[query[q].engine].conn[i]
            fresh == c.is = "none" \/ c.known
        IN /\ c.is # "out"
           /\ c.is = "none" => \A j \in Slots : pool[query[q].engine].conn[j].is # "idle"
           /\ IF fresh /\ ~up[query[q].source]
              THEN /\ pool' = [pool EXCEPT ![query[q].engine].conn[i] = None]
                   /\ Ends(q, "refused")
              ELSE /\ pool' = [pool EXCEPT ![query[q].engine].conn[i] =
                                 IF fresh THEN New ELSE [@ EXCEPT !.is = "out"]]
                   /\ query' = [query EXCEPT ![q].slot = i, ![q].pc = "ping",
                                  ![q].doomed = ~fresh /\ ~c.alive /\ ~c.recent]
    /\ Engineering /\ Outside

\* Every connection of the pool is in use until pool_timeout.
PoolTimeout(q) ==
    /\ query[q].pc = "checkout"
    /\ \A i \in Slots : pool[query[q].engine].conn[i].is = "out"
    /\ Ends(q, "refused") /\ UNCHANGED pool /\ Engineering /\ Outside

\* InvalidatePoolError, or a statement that met a lost connection: what the
\* pool has is not handed out again.
Invalidated(e) == [i \in Slots |-> [pool[e].conn[i] EXCEPT !.known = pool[e].conn[i].is # "none"]]

\* MUTANT: a connection with a stamp is never asked.
NeverIfStamped(c) == PingAll
\* _ping_if_idle.
Asks(c) == PingAll \/ ~c.recent

\* The ping, and the one replacement a failed one leads to.
Ping(q) ==
    /\ query[q].pc = "ping"
    /\ LET e == query[q].engine
           lost == Asks(Conn(q)) /\ ~Conn(q).alive
           told == Invalidated(e)
       IN IF ~lost THEN Goes(q, "run") /\ UNCHANGED pool
          ELSE IF up[query[q].source]
          THEN /\ pool' = [pool EXCEPT ![e].conn = [told EXCEPT ![query[q].slot] = New]]
               /\ query' = [query EXCEPT ![q].pc = "run", ![q].doomed = FALSE]
          ELSE pool' = [pool EXCEPT ![e].conn = [told EXCEPT ![query[q].slot] = None]]
               /\ Ends(q, "refused")
    /\ Engineering /\ Outside

\* begin, _apply_session_setup, the statement, fetchmany.
Run(q) ==
    /\ query[q].pc = "run"
    /\ IF Conn(q).alive
       THEN /\ Set(q, [Conn(q) EXCEPT !.open = TRUE])
            /\ \E result \in {"rows", "error"} :
                 query' = [query EXCEPT ![q].pc = "rollback", ![q].result = result]
       ELSE /\ pool' = [pool EXCEPT ![query[q].engine].conn =
                          [Invalidated(query[q].engine) EXCEPT ![query[q].slot] = None]]
            /\ Ends(q, "lost")
    /\ Engineering /\ Outside

\* MUTANT: the transaction is left to the pool's next user after an error.
OnlyAfterRows(q) == query[q].result = "rows"
\* `finally: transaction.rollback()`.
RollsBack(q) == TRUE

\* The rollback, and the connection's return, which stamps it.
Rollback(q) ==
    /\ query[q].pc = "rollback"
    /\ IF Conn(q).alive
       THEN /\ Set(q, [Conn(q) EXCEPT !.is = "idle", !.recent = TRUE,
                                      !.open = ~RollsBack(q)])
            /\ Ends(q, query[q].result)
       ELSE /\ pool' = [pool EXCEPT ![query[q].engine].conn =
                          [Invalidated(query[q].engine) EXCEPT ![query[q].slot] = None]]
            /\ Ends(q, "lost")
    /\ Engineering /\ Outside

\* ------------------------------------------------------------ the databases
Down(s) ==
    /\ up[s] /\ restarts < MaxRestarts /\ restarts' = restarts + 1
    /\ up' = [up EXCEPT ![s] = FALSE]
    /\ pool' = [e \in DOMAIN pool |->
          IF pool[e].source # s THEN pool[e]
          ELSE [pool[e] EXCEPT !.conn = [i \in Slots |-> [@[i] EXCEPT !.alive = FALSE]]]]
    /\ UNCHANGED <<homes, engines, lock, query, asked>>

Up(s) == ~up[s] /\ up' = [up EXCEPT ![s] = TRUE] /\
         UNCHANGED <<homes, engines, lock, pool, query, asked, restarts>>

\* A connection lies unused for DB_POOL_PING_IDLE_SECONDS.
Age(e, i) ==
    /\ pool[e].conn[i].is = "idle" /\ pool[e].conn[i].recent
    /\ pool' = [pool EXCEPT ![e].conn[i].recent = FALSE]
    /\ UNCHANGED <<homes, engines, lock, up, query, asked, restarts>>

Init ==
    /\ homes \in [Tables -> SUBSET Names \ {{}}]
    /\ engines = [s \in Names |-> 0] /\ lock = "free" /\ pool = <<>>
    /\ up = [s \in Names |-> TRUE] /\ query = [q \in Queries |-> Idle("none")]
    /\ asked = 0 /\ restarts = 0

Next ==
    \/ \E q \in Queries :
        \/ \E tables \in SUBSET Tables, given \in Names \cup {"none"} :
            (given = "none" \/ tables = {}) /\ Ask(q, tables, given)
        \/ GetEngine(q) \/ Lock(q) \/ Build(q)
        \/ Checkout(q) \/ PoolTimeout(q) \/ Ping(q) \/ Run(q) \/ Rollback(q)
    \/ \E s \in Names : Down(s) \/ Up(s)
    \/ \E e \in DOMAIN pool, i \in Slots : Age(e, i)

Spec == Init /\ [][Next]_vars

(***************************************************************************)
(* Properties.                                                             *)
(***************************************************************************)
\* A statement that is routed runs where every table it names is
\* (choose_datasource; "every table in one query must come from the same data
\* source").
RunsAtHome ==
    \A q \in Queries : query[q].result = "rows" =>
        \A t \in query[q].tables : query[q].source \in homes[t]

\* However many threads ask first, a source has one pool, and so no more
\* connections than the pool's limit (get_engine: the second look).
OnePool == \A d, e \in DOMAIN pool : pool[d].source = pool[e].source => d = e

\* A statement never fails on a connection that had lain idle past the
\* threshold when it was handed out: it was asked and replaced
\* (install_idle_aware_ping).  Only one used within it can be found lost.
IdleIsAsked == \A q \in Queries : query[q].result = "lost" => ~query[q].doomed

\* What waits in a pool has no transaction open (executor: begin and rollback
\* around every statement), and no connection is with nobody.
PoolClean ==
    /\ \A e \in DOMAIN pool, i \in Slots : pool[e].conn[i].is = "idle" => ~pool[e].conn[i].open
    /\ \A e \in DOMAIN pool, i \in Slots : pool[e].conn[i].is = "out" =>
         \E q \in Queries : /\ query[q].pc \in {"ping", "run", "rollback"}
                            /\ query[q].engine = e /\ query[q].slot = i

ExecutionSound == RunsAtHome /\ OnePool /\ IdleIsAsked /\ PoolClean
=============================================================================
