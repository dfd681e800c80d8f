---------------------------- MODULE CallProofs -----------------------------
(***************************************************************************)
(* Proofs about the two calls of an answer that leave the process: the     *)
(* statement sent to a database (Execution) and the prompt sent to a model *)
(* (ModelCall), for any sources, threads, pools, databases that go down at *)
(* any time, and any endpoint; and about the allowance a question needs    *)
(* before either (RateLimit), for any callers, proxies, limits and size of *)
(* the table of buckets.                                                   *)
(*                                                                         *)
(* ExecutionSound is not inductive: that a connection comes back clean     *)
(* needs that the thread which returns it is the only one that has it,     *)
(* that a source has one pool needs that whoever builds one holds the      *)
(* lock, and that an idle connection is asked about needs what a thread    *)
(* knows of the connection it was handed until it has asked.  CallSound    *)
(* needs how far the text, the stream and the attempts are at each point.  *)
(* The allowance needs what a bucket holds for the requests of its caller  *)
(* and the order in which the buckets were used.                           *)
(***************************************************************************)
EXTENDS Execution, FiniteSetTheorems, FunctionTheorems, SequenceTheorems,
        WellFoundedInduction, TLAPS

Entry == [source : Names, conn : [Slots -> Connection]]
Pcs == {"idle", "engine", "lock", "build", "checkout", "ping", "run", "rollback"}
Call == [pc : Pcs, tables : SUBSET Tables, source : Names, engine : Nat, slot : Slots,
         doomed : BOOLEAN, result : Result]

\* The thread has a connection.
Holding == {"ping", "run", "rollback"}
Holds(q, e, i) == query[q].pc \in Holding /\ query[q].engine = e /\ query[q].slot = i

TypeInv ==
    /\ homes \in [Tables -> SUBSET Names \ {{}}]
    /\ engines \in [Names -> Nat] /\ lock \in Queries \cup {"free"}
    /\ pool \in Seq(Entry) /\ up \in [Names -> BOOLEAN] /\ query \in [Queries -> Call]
    /\ asked \in 0 .. MaxAsked /\ restarts \in 0 .. MaxRestarts

\* _engines names the engine of its source, and every engine is there.
EnginesInv ==
    /\ \A s \in Names : engines[s] # 0 =>
        engines[s] \in DOMAIN pool /\ pool[engines[s]].source = s
    /\ \A e \in DOMAIN pool : engines[pool[e].source] = e

LockInv == \A q \in Queries : query[q].pc = "build" <=> lock = q

\* What one thread knows, in terms of its call c and the connection it has.
Knows(c, x) ==
    /\ \A t \in c.tables : c.source \in homes[t]
    /\ c.doomed => c.pc = "ping" /\ ~x.alive /\ ~x.recent
    /\ c.pc \notin {"idle", "rollback"} => c.result = "none"
    /\ c.pc = "rollback" => c.result \in {"rows", "error"}

QueryInv ==
    \A q \in Queries :
        /\ query[q].pc \in {"checkout"} \cup Holding =>
            /\ query[q].engine \in DOMAIN pool
            /\ pool[query[q].engine].source = query[q].source
        /\ query[q].pc \in Holding => Conn(q).is = "out"
        /\ Knows(query[q], Conn(q))

\* Whoever has a connection has it alone.
Apart ==
    \A q, r \in Queries :
        /\ query[q].pc \in Holding /\ query[r].pc \in Holding
        /\ query[q].engine = query[r].engine /\ query[q].slot = query[r].slot
        => q = r

IInv == Configured /\ TypeInv /\ EnginesInv /\ LockInv /\ QueryInv /\ Apart /\ PoolClean
-----------------------------------------------------------------------------
(* The operators.                                                          *)

\* choose_datasource and pick_datasource: a source that holds every table.
LEMMA PickFinds ==
    ASSUME Configured, NEW found, found \subseteq Names, found # {}
    PROVE  Pick(found) \in found
<1> DEFINE Found == {i \in DOMAIN Sources : Sources[i] \in found}
           first == CHOOSE i \in DOMAIN Sources :
                       Sources[i] \in found /\ \A j \in 1 .. i - 1 : Sources[j] \notin found
<1>1. Found # {} /\ Found \subseteq Nat
    BY LenProperties DEF Configured, Names
<1>2. PICK x \in Found : \A y \in Found : ~ (<<y, x>> \in OpToRel(<, Nat))
    BY <1>1, NatLessThanWellFounded, WFMin
<1>3. \A y \in Found : ~ (y < x)
    BY <1>1, <1>2 DEF OpToRel
<1>4. x \in DOMAIN Sources /\ Sources[x] \in found
    OBVIOUS
<1>5. DOMAIN Sources = 1 .. Len(Sources) /\ Len(Sources) \in Nat
    BY LenProperties DEF Configured
<1>6. \A j \in 1 .. x - 1 : Sources[j] \notin found
    BY <1>3, <1>4, <1>5
<1>7. first \in DOMAIN Sources /\ Sources[first] \in found
    BY <1>4, <1>6
<1> QED
    BY <1>7 DEF Pick

LEMMA Sourced ==
    ASSUME Configured
    PROVE  /\ Default \in Names /\ "none" \notin Names
           /\ Len(Sources) \in Nat /\ DOMAIN Sources = 1 .. Len(Sources)
<1>1. /\ Len(Sources) \in Nat /\ DOMAIN Sources = 1 .. Len(Sources)
    BY LenProperties DEF Configured
<1>2. Len(Sources) # 0
    BY EmptySeq, <1>1 DEF Configured
<1> QED
    BY <1>1, <1>2 DEF Configured, Default, Names

\* Another set of connections for one engine.
LEMMA Replaced ==
    ASSUME NEW p \in Seq(Entry), NEW e \in DOMAIN p, NEW conns \in [Slots -> Connection]
    PROVE  /\ [p EXCEPT ![e].conn = conns] \in Seq(Entry)
           /\ DOMAIN [p EXCEPT ![e].conn = conns] = DOMAIN p
           /\ Len([p EXCEPT ![e].conn = conns]) = Len(p)
           /\ \A d \in DOMAIN p :
                /\ [p EXCEPT ![e].conn = conns][d].source = p[d].source
                /\ [p EXCEPT ![e].conn = conns][d].conn = IF d = e THEN conns ELSE p[d].conn
<1> DEFINE new == [p[e] EXCEPT !.conn = conns]
<1>1. e \in 1 .. Len(p) /\ p[e] \in Entry /\ DOMAIN p = 1 .. Len(p)
    BY LenProperties
<1>2. new \in Entry /\ new.source = p[e].source /\ new.conn = conns
    BY <1>1 DEF Entry
<1>3. [p EXCEPT ![e].conn = conns] = [p EXCEPT ![e] = new]
    OBVIOUS
<1> HIDE DEF new
<1>4. /\ [p EXCEPT ![e] = new] \in Seq(Entry)
      /\ Len([p EXCEPT ![e] = new]) = Len(p)
      /\ \A j \in 1 .. Len(p) : [p EXCEPT ![e] = new][j] = IF j = e THEN new ELSE p[j]
    BY <1>1, <1>2, ExceptSeq
<1>5. DOMAIN [p EXCEPT ![e] = new] = DOMAIN p
    OBVIOUS
<1> QED
    BY <1>1, <1>2, <1>3, <1>4, <1>5

\* Connections.
LEMMA ConnectionFacts ==
    /\ None \in Connection /\ New \in Connection
    /\ None.is = "none" /\ New.is = "out" /\ New.alive /\ New.recent
    /\ \A x \in Connection :
        /\ x.is \in {"none", "idle", "out"} /\ x.alive \in BOOLEAN /\ x.recent \in BOOLEAN
        /\ x.known \in BOOLEAN /\ x.open \in BOOLEAN
BY DEF None, New, Connection
-----------------------------------------------------------------------------
(* Kinds of step.                                                          *)

\* A step of thread q that leaves the pools alone and has no connection before
\* or after it.
LEMMA Moves ==
    ASSUME IInv, NEW q \in Queries, NEW c \in Call,
           query[q].pc \notin Holding, c.pc \notin Holding,
           query' = [query EXCEPT ![q] = c],
           \A t \in c.tables : c.source \in homes[t],
           ~c.doomed, c.pc # "idle" => c.result = "none",
           c.pc = "checkout" => c.engine \in DOMAIN pool /\ pool[c.engine].source = c.source,
           UNCHANGED <<homes, engines, pool, up, restarts>>,
           asked' \in 0 .. MaxAsked, lock' \in Queries \cup {"free"},
           \A r \in Queries : query'[r].pc = "build" <=> lock' = r
    PROVE  IInv'
<1>1. /\ query' \in [Queries -> Call] /\ query'[q] = c
      /\ \A r \in Queries \ {q} : query'[r] = query[r]
    BY DEF IInv, TypeInv
<1>2. Configured' /\ TypeInv' /\ EnginesInv' /\ LockInv'
    BY <1>1 DEF IInv, Configured, TypeInv, EnginesInv, LockInv, Names, Entry, Slots
<1>3. QueryInv'
    <2> SUFFICES ASSUME NEW r \in Queries
                 PROVE  /\ query'[r].pc \in {"checkout"} \cup Holding =>
                            /\ query'[r].engine \in DOMAIN pool
                            /\ pool[query'[r].engine].source = query'[r].source
                        /\ query'[r].pc \in Holding => Conn(r)'.is = "out"
                        /\ Knows(query[r], Conn(r))'
        BY DEF QueryInv
    <2>1. CASE r = q
        BY <1>1, <2>1 DEF Knows, Holding
    <2>2. CASE r # q
        BY <1>1, <2>2 DEF IInv, QueryInv, Knows, Conn
    <2> QED
        BY <2>1, <2>2
<1>4. Apart'
    BY <1>1 DEF IInv, Apart
<1>5. PoolClean'
    BY <1>1 DEF IInv, PoolClean, Holding
<1> QED
    BY <1>2, <1>3, <1>4, <1>5 DEF IInv

\* A step of thread q on connection i of engine e, which nobody else has; what
\* the others of the pool lose is at most their trust.
LEMMA Serves ==
    ASSUME IInv, NEW q \in Queries, NEW c \in Call, NEW e \in DOMAIN pool, NEW i \in Slots,
           NEW conns \in [Slots -> Connection],
           query[q].pc \in {"checkout"} \cup Holding, query[q].pc \in Holding => Holds(q, e, i),
           \A r \in Queries \ {q} : ~Holds(r, e, i),
           c.pc \in {"idle"} \cup Holding,
           query' = [query EXCEPT ![q] = c],
           c.pc \in Holding => c.engine = e /\ c.slot = i /\ c.source = pool[e].source,
           \A t \in c.tables : c.source \in homes[t],
           c.doomed => c.pc = "ping" /\ ~conns[i].alive /\ ~conns[i].recent,
           c.pc \notin {"idle", "rollback"} => c.result = "none",
           c.pc = "rollback" => c.result \in {"rows", "error"},
           \A j \in Slots \ {i} : /\ conns[j].is = pool[e].conn[j].is
                                  /\ conns[j].alive = pool[e].conn[j].alive
                                  /\ conns[j].recent = pool[e].conn[j].recent
                                  /\ conns[j].open = pool[e].conn[j].open,
           conns[i].is = "out" <=> c.pc \in Holding,
           conns[i].is = "idle" => ~conns[i].open,
           pool' = [pool EXCEPT ![e].conn = conns],
           UNCHANGED <<homes, engines, lock, up, asked, restarts>>
    PROVE  IInv'
<1>1. /\ query' \in [Queries -> Call] /\ query'[q] = c
      /\ \A r \in Queries \ {q} : query'[r] = query[r]
    BY DEF IInv, TypeInv
<1>2. /\ pool' \in Seq(Entry) /\ DOMAIN pool' = DOMAIN pool
      /\ \A d \in DOMAIN pool : /\ pool'[d].source = pool[d].source
                                /\ pool'[d].conn = IF d = e THEN conns ELSE pool[d].conn
    <2>1. pool \in Seq(Entry)
        BY DEF IInv, TypeInv
    <2> QED
        BY ONLY <2>1, Replaced, SMTT(30), e \in DOMAIN pool, conns \in [Slots -> Connection],
                pool' = [pool EXCEPT ![e].conn = conns]
<1>3. Configured' /\ TypeInv' /\ EnginesInv'
    BY <1>1, <1>2, ZenonT(30) DEF IInv, Configured, TypeInv, EnginesInv, Names, Entry, Slots
<1>4. LockInv'
    BY <1>1 DEF IInv, LockInv, Holding
<1>5. \A r \in Queries \ {q} : query[r].pc \in Holding =>
        /\ query[r].engine \in DOMAIN pool /\ query[r].slot \in Slots
        /\ Conn(r)'.is = Conn(r).is /\ Conn(r)'.alive = Conn(r).alive
        /\ Conn(r)'.recent = Conn(r).recent
    <2> SUFFICES ASSUME NEW r \in Queries \ {q}, query[r].pc \in Holding
                 PROVE  /\ query[r].engine \in DOMAIN pool /\ query[r].slot \in Slots
                        /\ Conn(r)'.is = Conn(r).is /\ Conn(r)'.alive = Conn(r).alive
                        /\ Conn(r)'.recent = Conn(r).recent
        OBVIOUS
    <2>1. query[r].engine \in DOMAIN pool /\ query[r].slot \in Slots /\ query'[r] = query[r]
        BY <1>1 DEF IInv, TypeInv, Call, QueryInv
    <2> QED
        BY <1>1, <1>2, <2>1 DEF Conn, Holds
<1>6. QueryInv'
    <2> SUFFICES ASSUME NEW r \in Queries
                 PROVE  /\ query'[r].pc \in {"checkout"} \cup Holding =>
                            /\ query'[r].engine \in DOMAIN pool'
                            /\ pool'[query'[r].engine].source = query'[r].source
                        /\ query'[r].pc \in Holding => Conn(r)'.is = "out"
                        /\ Knows(query[r], Conn(r))'
        BY DEF QueryInv
    <2>1. CASE r = q
        <3>1. c.pc \in Holding => Conn(q)' = conns[i]
            BY <1>1, <1>2 DEF Conn
        <3>2. Knows(query[q], Conn(q))'
            BY <1>1, <3>1 DEF Knows, Holding
        <3>3. c.pc \in {"checkout"} \cup Holding => c.pc \in Holding
            BY DEF Holding
        <3>4. c.pc \in Holding => c.engine \in DOMAIN pool' /\ pool'[c.engine].source = c.source
            BY <1>2
        <3>5. c.pc \in Holding => Conn(q)'.is = "out"
            BY <3>1
        <3> QED
            BY <1>1, <2>1, <3>2, <3>3, <3>4, <3>5 DEF Knows, Conn
    <2>2. CASE r # q
        <3>1. query'[r] = query[r] /\ QueryInv
            BY <1>1, <2>2 DEF IInv
        <3>2. query[r].doomed => query[r].pc \in Holding
            BY <3>1 DEF QueryInv, Knows, Holding
        <3>3. Knows(query[r], Conn(r))'
            BY <1>5, <2>2, <3>1, <3>2 DEF QueryInv, Knows
        <3>4. query[r].pc \in {"checkout"} \cup Holding =>
                /\ query[r].engine \in DOMAIN pool
                /\ pool[query[r].engine].source = query[r].source
            BY <3>1 DEF QueryInv
        <3>5. query[r].pc \in Holding => Conn(r)'.is = "out"
            BY <1>5, <2>2, <3>1 DEF QueryInv
        <3> QED
            BY <1>2, <3>1, <3>3, <3>4, <3>5
    <2> QED
        BY <2>1, <2>2
<1>7. Apart'
    BY <1>1 DEF IInv, Apart, Holds
<1>8. PoolClean'
    <2>1. ASSUME NEW d \in DOMAIN pool, NEW j \in Slots, d # e \/ j # i
          PROVE  /\ pool'[d].conn[j].is = pool[d].conn[j].is
                 /\ pool'[d].conn[j].open = pool[d].conn[j].open
        BY <1>2, <2>1
    <2>2. ASSUME NEW d \in DOMAIN pool, NEW j \in Slots, pool'[d].conn[j].is = "idle"
          PROVE  ~pool'[d].conn[j].open
        BY <1>2, <2>1, <2>2 DEF IInv, PoolClean
    <2>3. ASSUME NEW d \in DOMAIN pool, NEW j \in Slots, pool'[d].conn[j].is = "out"
          PROVE  \E r \in Queries : Holds(r, d, j)'
        <3>1. CASE d = e /\ j = i
            BY <1>1, <1>2, <2>3, <3>1 DEF Holds
        <3>2. CASE d # e \/ j # i
            <4>1. PICK r \in Queries : Holds(r, d, j)
                BY <2>1, <2>3, <3>2 DEF IInv, PoolClean, Holds, Holding
            <4>2. r # q
                BY <3>2, <4>1 DEF Holds
            <4> QED
                BY <1>1, <4>1, <4>2 DEF Holds
        <3> QED
            BY <3>1, <3>2
    <2> QED
        BY <1>2, <2>2, <2>3 DEF PoolClean, Holds, Holding
<1> QED
    BY <1>3, <1>4, <1>6, <1>7, <1>8 DEF IInv
-----------------------------------------------------------------------------
(* The actions.                                                            *)

LEMMA CallFacts ==
    ASSUME IInv, NEW q \in Queries
    PROVE  /\ query[q] \in Call
           /\ query[q].pc \in Pcs /\ query[q].tables \in SUBSET Tables
           /\ query[q].source \in Names /\ query[q].engine \in Nat /\ query[q].slot \in Slots
           /\ query[q].doomed \in BOOLEAN /\ query[q].result \in Result
           /\ Knows(query[q], Conn(q))
           /\ query[q].pc = "build" <=> lock = q
           /\ 1 \in Slots
<1>1. query[q] \in Call
    BY DEF IInv, TypeInv
<1>2. Pooled \in Nat \ {0}
    BY DEF IInv, Configured
<1> QED
    BY <1>1, <1>2 DEF IInv, Call, QueryInv, LockInv, Slots

\* What the end of a statement leaves behind.
LEMMA EndFacts ==
    ASSUME IInv, NEW q \in Queries, NEW result \in Result, Ends(q, result)
    PROVE  \E c \in Call :
             /\ query' = [query EXCEPT ![q] = c]
             /\ c.pc = "idle" /\ c.result = result
             /\ \A t \in c.tables : c.source \in homes[t]
             /\ c.doomed => query[q].doomed /\ result = "lost"
<1> DEFINE c == [Idle(result) EXCEPT
        !.doomed = query[q].doomed /\ result = "lost",
        !.source = IF result = "rows" THEN query[q].source ELSE @,
        !.tables = IF result = "rows" THEN query[q].tables ELSE @]
<1>1. Default \in Names
    BY Sourced DEF IInv
<1>2. /\ c.pc = "idle" /\ c.result = result
      /\ c.doomed = (query[q].doomed /\ result = "lost")
      /\ c.source = (IF result = "rows" THEN query[q].source ELSE Default)
      /\ c.tables = (IF result = "rows" THEN query[q].tables ELSE {})
    BY DEF Idle
<1>3. c \in Call
    BY <1>1, CallFacts DEF Idle, Call, Pcs
<1>4. query' = [query EXCEPT ![q] = c]
    BY DEF Ends
<1> HIDE DEF c
<1>5. \A t \in c.tables : c.source \in homes[t]
    BY <1>2, CallFacts DEF Knows
<1> QED
    BY <1>2, <1>3, <1>4, <1>5

LEMMA InitInv == Configured /\ Init => IInv
<1> SUFFICES ASSUME Configured, Init PROVE IInv
    OBVIOUS
<1>1. /\ Default \in Names /\ 1 \in Slots
    BY Sourced DEF Slots, Configured
<1>2. pool \in Seq(Entry) /\ DOMAIN pool = {} /\ Len(pool) = 0
    BY EmptySeq DEF Init
<1>3. Idle("none") \in Call /\ Idle("none").pc = "idle" /\ Idle("none").tables = {}
      /\ Idle("none").doomed = FALSE
    BY <1>1 DEF Idle, Call, Pcs, Result
<1>4. query = [q \in Queries |-> Idle("none")]
    BY DEF Init
<1>5. \A q \in Queries : query[q] = Idle("none")
    BY <1>4
<1>6. TypeInv
    BY <1>2, <1>3, <1>4 DEF Init, TypeInv, Configured
<1>7. EnginesInv /\ PoolClean
    BY <1>2 DEF Init, EnginesInv, PoolClean
<1>8. LockInv /\ Apart
    BY <1>3, <1>5 DEF Init, LockInv, Apart, Holding, Configured
<1>9. QueryInv
    BY <1>3, <1>5 DEF QueryInv, Knows, Holding
<1> QED
    BY <1>6, <1>7, <1>8, <1>9 DEF IInv

LEMMA AskInv ==
    ASSUME IInv, NEW q \in Queries, NEW tables \in SUBSET Tables, NEW given \in Names \cup {"none"},
           given = "none" \/ tables = {}, Ask(q, tables, given)
    PROVE  IInv'
<1> DEFINE c == IF given # "none" THEN Sent({}, given)
                ELSE IF Candidates(tables) = {} THEN Idle("cross")
                ELSE Sent(tables, Pick(Candidates(tables)))
<1>1. Default \in Names /\ "none" \notin Names
    BY Sourced DEF IInv
<1>2. Candidates(tables) # {} => /\ Pick(Candidates(tables)) \in Names
                                 /\ \A t \in tables : Pick(Candidates(tables)) \in homes[t]
    <2>1. Candidates(tables) # {} => Pick(Candidates(tables)) \in Candidates(tables)
        BY PickFinds DEF IInv, Candidates
    <2> QED
        BY <2>1 DEF Candidates
<1>3. \A T \in SUBSET Tables, s \in Names :
        /\ Sent(T, s) \in Call /\ Sent(T, s).pc = "engine" /\ Sent(T, s).tables = T
        /\ Sent(T, s).source = s /\ Sent(T, s).doomed = FALSE /\ Sent(T, s).result = "none"
    BY <1>1, CallFacts DEF Sent, Idle, Call, Pcs, Result
<1>4. Idle("cross") \in Call /\ Idle("cross").pc = "idle" /\ Idle("cross").tables = {}
      /\ Idle("cross").doomed = FALSE
    BY <1>1, CallFacts DEF Idle, Call, Pcs, Result
<1>5. /\ c \in Call /\ c.pc \in {"idle", "engine"} /\ ~c.doomed
      /\ c.pc # "idle" => c.result = "none"
      /\ \A t \in c.tables : c.source \in homes[t]
    BY <1>2, <1>3, <1>4
<1>6. query' = [query EXCEPT ![q] = c]
    BY DEF Ask
<1> HIDE DEF c
<1>7. /\ query[q].pc = "idle" /\ asked' \in 0 .. MaxAsked /\ lock' \in Queries \cup {"free"}
      /\ UNCHANGED <<homes, engines, lock, pool, up, restarts>>
    BY DEF Ask, Engineering, IInv, TypeInv, Configured
<1>8. \A r \in Queries : query'[r].pc = "build" <=> lock' = r
    BY <1>5, <1>6, <1>7 DEF IInv, LockInv, TypeInv
<1> QED
    BY <1>5, <1>6, <1>7, <1>8, Moves DEF Holding

LEMMA GetEngineInv == ASSUME IInv, NEW q \in Queries, GetEngine(q) PROVE IInv'
<1> DEFINE e == engines[query[q].source]
           c == [query[q] EXCEPT !.engine = e, !.pc = IF e = 0 THEN "lock" ELSE "checkout"]
<1>1. e \in Nat /\ (e # 0 => e \in DOMAIN pool /\ pool[e].source = query[q].source)
    BY CallFacts DEF IInv, TypeInv, EnginesInv
<1>2. query' = [query EXCEPT ![q] = c]
    BY DEF GetEngine
<1> HIDE DEF e
<1>3. /\ c \in Call /\ c.engine = e /\ c.pc = (IF e = 0 THEN "lock" ELSE "checkout")
      /\ c.tables = query[q].tables /\ c.source = query[q].source
      /\ c.doomed = query[q].doomed /\ c.result = query[q].result
    BY <1>1, CallFacts DEF Call, Pcs
<1> HIDE DEF c
<1>4. query[q].pc = "engine" /\ UNCHANGED <<homes, engines, lock, pool, up, asked, restarts>>
    BY DEF GetEngine, Engineering, Outside
<1>5. /\ \A t \in c.tables : c.source \in homes[t]
      /\ ~c.doomed /\ c.result = "none"
    BY <1>3, <1>4, CallFacts DEF Knows
<1>6. /\ \A r \in Queries : query'[r].pc = "build" <=> lock' = r
      /\ lock' \in Queries \cup {"free"} /\ asked' \in 0 .. MaxAsked
    BY <1>2, <1>3, <1>4 DEF IInv, LockInv, TypeInv
<1> QED
    BY <1>1, <1>2, <1>3, <1>4, <1>5, <1>6, Moves DEF Holding

LEMMA LockStep == ASSUME IInv, NEW q \in Queries, Lock(q) PROVE IInv'
<1> DEFINE c == [query[q] EXCEPT !.pc = "build"]
<1>1. query' = [query EXCEPT ![q] = c]
    BY DEF Lock, Goes
<1>2. /\ c \in Call /\ c.pc = "build"
      /\ c.tables = query[q].tables /\ c.source = query[q].source
      /\ c.doomed = query[q].doomed /\ c.result = query[q].result
    BY CallFacts DEF Call, Pcs
<1> HIDE DEF c
<1>3. /\ query[q].pc = "lock" /\ lock = "free" /\ lock' = q
      /\ UNCHANGED <<homes, engines, pool, up, asked, restarts>>
    BY DEF Lock, Outside
<1>4. /\ \A t \in c.tables : c.source \in homes[t]
      /\ ~c.doomed /\ c.result = "none"
    BY <1>2, <1>3, CallFacts DEF Knows
<1>5. /\ \A r \in Queries : query'[r].pc = "build" <=> lock' = r
      /\ lock' \in Queries \cup {"free"} /\ asked' \in 0 .. MaxAsked
    BY <1>1, <1>2, <1>3 DEF IInv, LockInv, TypeInv, Configured
<1> QED
    BY <1>1, <1>2, <1>3, <1>4, <1>5, Moves DEF Holding

LEMMA BuildInv == ASSUME IInv, NEW q \in Queries, Build(q) PROVE IInv'
<1> DEFINE s == query[q].source
           e == IF Missing(s) THEN Len(pool) + 1 ELSE engines[s]
           c == [query[q] EXCEPT !.engine = e, !.pc = "checkout"]
           new == [source |-> s, conn |-> [i \in Slots |-> None]]
<1>1. /\ query' = [query EXCEPT ![q] = c] /\ query[q].pc = "build"
      /\ engines' = [engines EXCEPT ![s] = e]
      /\ pool' = (IF Missing(s) THEN Append(pool, new) ELSE pool)
      /\ lock' = "free" /\ UNCHANGED <<homes, up, asked, restarts>>
    BY DEF Build, Outside
<1>2. s \in Names /\ Len(pool) \in Nat /\ DOMAIN pool = 1 .. Len(pool) /\ pool \in Seq(Entry)
    BY CallFacts, LenProperties DEF IInv, TypeInv
<1>3. e \in Nat
    BY <1>2 DEF IInv, TypeInv
<1>4. /\ c \in Call /\ c.pc = "checkout" /\ c.engine = e
      /\ c.tables = query[q].tables /\ c.source = s
      /\ c.doomed = query[q].doomed /\ c.result = query[q].result
    BY <1>3, CallFacts DEF Call, Pcs
<1>5. /\ \A t \in c.tables : c.source \in homes[t]
      /\ ~c.doomed /\ c.result = "none"
    BY <1>1, <1>4, CallFacts DEF Knows
<1>6. /\ query' \in [Queries -> Call] /\ query'[q] = c
      /\ \A r \in Queries \ {q} : query'[r] = query[r]
    BY <1>1, <1>4 DEF IInv, TypeInv
<1>7. /\ lock' \in Queries \cup {"free"}
      /\ \A r \in Queries : query'[r].pc = "build" <=> lock' = r
    BY <1>1, <1>4, <1>6 DEF IInv, LockInv, TypeInv, Configured
<1>8. new \in Entry /\ new.source = s /\ \A i \in Slots : new.conn[i] = None
    BY <1>2, ConnectionFacts DEF Entry
<1> HIDE DEF c, new
<1>9. CASE ~Missing(s)
    <2>1. e = engines[s] /\ e # 0
        BY <1>9 DEF Missing
    <2>2. engines' = engines
        BY <1>1, <1>2, <2>1 DEF IInv, TypeInv
    <2>3. e \in DOMAIN pool /\ pool[e].source = s
        BY <1>2, <2>1 DEF IInv, EnginesInv
    <2> HIDE DEF e
    <2>4. asked' \in 0 .. MaxAsked /\ UNCHANGED <<homes, engines, pool, up, restarts>>
        BY <1>1, <1>9, <2>2 DEF IInv, TypeInv
    <2> QED
        BY <1>1, <1>4, <1>5, <1>7, <2>3, <2>4, Moves DEF Holding
<1>10. CASE Missing(s)
    <2>1. engines[s] = 0 /\ e = Len(pool) + 1
        BY <1>10 DEF Missing
    <2>2. /\ pool' \in Seq(Entry) /\ DOMAIN pool' = DOMAIN pool \cup {e} /\ pool'[e] = new
          /\ \A d \in DOMAIN pool : pool'[d] = pool[d]
        <3>1. /\ pool' \in Seq(Entry) /\ Len(pool') = Len(pool) + 1 /\ pool'[Len(pool) + 1] = new
              /\ \A d \in 1 .. Len(pool) : pool'[d] = pool[d]
            BY <1>1, <1>2, <1>8, <1>10, AppendProperties
        <3>2. DOMAIN pool' = 1 .. Len(pool')
            BY <3>1, LenProperties
        <3> QED
            BY <1>2, <2>1, <3>1, <3>2
    <2>3. e \notin DOMAIN pool /\ e # 0
        BY <1>2, <2>1
    <2> HIDE DEF e
    <2>4. engines' \in [Names -> Nat] /\ engines'[s] = e
          /\ \A n \in Names \ {s} : engines'[n] = engines[n]
        BY <1>1, <1>2, <1>3 DEF IInv, TypeInv
    <2>5. TypeInv' /\ Configured'
        BY <1>1, <1>6, <1>7, <2>2, <2>4 DEF IInv, TypeInv, Configured
    <2>6. \A d \in DOMAIN pool : pool[d].source \in Names /\ pool[d].source # s
        <3>1. ASSUME NEW d \in DOMAIN pool
              PROVE  pool[d].source \in Names /\ engines[pool[d].source] = d /\ d # 0
            <4>1. pool[d] \in Entry /\ d # 0
                BY <1>2
            <4> QED
                BY <4>1 DEF Entry, IInv, EnginesInv
        <3> QED
            BY <2>1, <3>1
    <2>7. EnginesInv'
        <3>1. ASSUME NEW n \in Names, engines'[n] # 0
              PROVE  engines'[n] \in DOMAIN pool' /\ pool'[engines'[n]].source = n
            <4>1. CASE n = s
                BY <1>8, <2>2, <2>4, <4>1
            <4>2. CASE n # s
                BY <2>2, <2>4, <3>1, <4>2 DEF IInv, EnginesInv
            <4> QED
                BY <4>1, <4>2
        <3>2. ASSUME NEW d \in DOMAIN pool' PROVE engines'[pool'[d].source] = d
            <4>1. CASE d = e
                BY <1>8, <2>2, <2>4, <4>1
            <4>2. CASE d # e
                <5>1. d \in DOMAIN pool /\ pool'[d] = pool[d] /\ engines[pool[d].source] = d
                    BY <2>2, <4>2 DEF IInv, EnginesInv
                <5> QED
                    BY <2>4, <2>6, <5>1
            <4> QED
                BY <4>1, <4>2
        <3> QED
            BY <3>1, <3>2 DEF EnginesInv
    <2>8. LockInv' /\ Apart'
        BY <1>4, <1>6, <1>7 DEF IInv, LockInv, Apart, Holding
    <2>9. QueryInv'
        <3> SUFFICES ASSUME NEW r \in Queries
                     PROVE  /\ query'[r].pc \in {"checkout"} \cup Holding =>
                                /\ query'[r].engine \in DOMAIN pool'
                                /\ pool'[query'[r].engine].source = query'[r].source
                            /\ query'[r].pc \in Holding => Conn(r)'.is = "out"
                            /\ Knows(query[r], Conn(r))'
            BY DEF QueryInv
        <3>1. CASE r = q
            BY <1>1, <1>4, <1>5, <1>6, <1>8, <2>2, <3>1 DEF Knows, Holding
        <3>2. CASE r # q
            <4>1. query'[r] = query[r] /\ QueryInv
                BY <1>6, <3>2 DEF IInv
            <4>2. query[r].pc \in Holding => Conn(r)' = Conn(r)
                BY <2>2, <4>1 DEF QueryInv, Conn
            <4>3. query[r].doomed => query[r].pc \in Holding
                BY <4>1 DEF QueryInv, Knows, Holding
            <4>4. Knows(query[r], Conn(r))'
                BY <1>1, <4>1, <4>2, <4>3 DEF QueryInv, Knows
            <4>5. query[r].pc \in {"checkout"} \cup Holding =>
                    /\ query[r].engine \in DOMAIN pool
                    /\ pool[query[r].engine].source = query[r].source
                BY <4>1 DEF QueryInv
            <4>6. query[r].pc \in Holding => Conn(r)'.is = "out"
                BY <4>1, <4>2 DEF QueryInv
            <4> QED
                BY <2>2, <4>1, <4>4, <4>5, <4>6
        <3> QED
            BY <3>1, <3>2
    <2>10. PoolClean'
        <3>1. \A i \in Slots : pool'[e].conn[i].is = "none"
            BY <1>8, <2>2, ConnectionFacts
        <3>2. \A r \in Queries : query[r].pc \in Holding => query'[r] = query[r]
            BY <1>1, <1>6 DEF Holding
        <3>3. \A d \in DOMAIN pool, i \in Slots :
                /\ pool'[d].conn[i].is = "idle" => ~pool'[d].conn[i].open
                /\ pool'[d].conn[i].is = "out" => \E r \in Queries : Holds(r, d, i)
            BY <2>2 DEF IInv, PoolClean, Holds, Holding
        <3>4. ASSUME NEW d \in DOMAIN pool', NEW i \in Slots, pool'[d].conn[i].is = "out"
              PROVE  \E r \in Queries : Holds(r, d, i)'
            <4>1. d \in DOMAIN pool
                BY <2>2, <3>1, <3>4
            <4>2. PICK r \in Queries : Holds(r, d, i)
                BY <3>3, <3>4, <4>1
            <4>3. query'[r] = query[r]
                BY <3>2, <4>2 DEF Holds
            <4> QED
                BY <4>2, <4>3 DEF Holds
        <3>5. ASSUME NEW d \in DOMAIN pool', NEW i \in Slots, pool'[d].conn[i].is = "idle"
              PROVE  ~pool'[d].conn[i].open
            BY <2>2, <3>1, <3>3, <3>5
        <3> QED
            BY <3>4, <3>5 DEF PoolClean, Holds, Holding
    <2> QED
        BY <2>5, <2>7, <2>8, <2>9, <2>10 DEF IInv
<1> QED
    BY <1>9, <1>10

LEMMA PoolTimeoutInv == ASSUME IInv, NEW q \in Queries, PoolTimeout(q) PROVE IInv'
<1>1. /\ query[q].pc = "checkout" /\ UNCHANGED <<homes, engines, lock, pool, up, asked, restarts>>
      /\ Ends(q, "refused")
    BY DEF PoolTimeout, Engineering, Outside
<1>2. PICK c \in Call :
         /\ query' = [query EXCEPT ![q] = c]
         /\ c.pc = "idle"
         /\ \A t \in c.tables : c.source \in homes[t]
         /\ ~c.doomed
    BY <1>1, EndFacts DEF Result
<1>3. /\ \A r \in Queries : query'[r].pc = "build" <=> lock' = r
      /\ lock' \in Queries \cup {"free"} /\ asked' \in 0 .. MaxAsked
    BY <1>1, <1>2 DEF IInv, LockInv, TypeInv
<1> QED
    BY <1>1, <1>2, <1>3, Moves DEF Holding

LEMMA InvalidatedFacts ==
    ASSUME IInv, NEW e \in DOMAIN pool
    PROVE  /\ pool[e].conn \in [Slots -> Connection] /\ pool[e].source \in Names
           /\ Invalidated(e) \in [Slots -> Connection]
           /\ \A j \in Slots : /\ Invalidated(e)[j].is = pool[e].conn[j].is
                               /\ Invalidated(e)[j].alive = pool[e].conn[j].alive
                               /\ Invalidated(e)[j].recent = pool[e].conn[j].recent
                               /\ Invalidated(e)[j].open = pool[e].conn[j].open
<1>1. pool[e] \in Entry
    BY LenProperties DEF IInv, TypeInv
<1>2. pool[e].conn \in [Slots -> Connection] /\ pool[e].source \in Names
    BY <1>1 DEF Entry
<1> QED
    BY <1>2 DEF Invalidated, Connection

\* A thread that has a connection has it alone.
LEMMA HolderFacts ==
    ASSUME IInv, NEW q \in Queries, query[q].pc \in Holding
    PROVE  /\ query[q].engine \in DOMAIN pool /\ query[q].slot \in Slots
           /\ pool[query[q].engine].source = query[q].source
           /\ Holds(q, query[q].engine, query[q].slot)
           /\ \A r \in Queries \ {q} : ~Holds(r, query[q].engine, query[q].slot)
           /\ Conn(q) = pool[query[q].engine].conn[query[q].slot]
           /\ Conn(q) \in Connection /\ Conn(q).is = "out"
<1>1. /\ query[q].engine \in DOMAIN pool /\ query[q].slot \in Slots
      /\ pool[query[q].engine].source = query[q].source
      /\ Conn(q).is = "out" /\ Conn(q) = pool[query[q].engine].conn[query[q].slot]
    BY CallFacts DEF IInv, QueryInv, Conn
<1>2. pool[query[q].engine].conn \in [Slots -> Connection]
    BY <1>1, InvalidatedFacts
<1> QED
    BY <1>1, <1>2 DEF IInv, Apart, Holds
\* One connection of engine e changed.
LEMMA OneChanged ==
    ASSUME NEW old \in [Slots -> Connection], NEW i \in Slots, NEW x \in Connection
    PROVE  /\ [old EXCEPT ![i] = x] \in [Slots -> Connection]
           /\ [old EXCEPT ![i] = x][i] = x
           /\ \A j \in Slots \ {i} : [old EXCEPT ![i] = x][j] = old[j]
OBVIOUS

LEMMA CheckoutInv == ASSUME IInv, NEW q \in Queries, Checkout(q) PROVE IInv'
<1> DEFINE e == query[q].engine
<1>1. PICK i \in Slots :
        LET x == pool[e].conn[i]
            fresh == x.is = "none" \/ x.known
        IN /\ x.is # "out"
           /\ IF fresh /\ ~up[query[q].source]
              THEN /\ pool' = [pool EXCEPT ![e].conn[i] = None]
                   /\ Ends(q, "refused")
              ELSE /\ pool' = [pool EXCEPT ![e].conn[i] =
                                 IF fresh THEN New ELSE [@ EXCEPT !.is = "out"]]
                   /\ query' = [query EXCEPT ![q].slot = i, ![q].pc = "ping",
                                  ![q].doomed = ~fresh /\ ~x.alive /\ ~x.recent]
    BY DEF Checkout
<1>2. /\ query[q].pc = "checkout" /\ UNCHANGED <<homes, engines, lock, up, asked, restarts>>
    BY DEF Checkout, Engineering, Outside
<1>3. e \in DOMAIN pool /\ pool[e].source = query[q].source
    BY <1>2 DEF IInv, QueryInv
<1> DEFINE old == pool[e].conn
           x == old[i]
           fresh == x.is = "none" \/ x.known
<1>4. old \in [Slots -> Connection] /\ x \in Connection /\ x.is # "out"
    BY <1>1, <1>3, InvalidatedFacts
<1>5. \A r \in Queries \ {q} : ~Holds(r, e, i)
    BY <1>4, HolderFacts DEF Holds
<1>6. CASE fresh /\ ~up[query[q].source]
    <2>1. pool' = [pool EXCEPT ![e].conn = [old EXCEPT ![i] = None]] /\ Ends(q, "refused")
        BY <1>1, <1>6
    <2>2. PICK c \in Call :
             /\ query' = [query EXCEPT ![q] = c] /\ c.pc = "idle"
             /\ \A t \in c.tables : c.source \in homes[t]
             /\ ~c.doomed
        BY <2>1, EndFacts DEF Result
    <2> HIDE DEF e, old, x, fresh
    <2>3. PICK conns : conns = [old EXCEPT ![i] = None]
        OBVIOUS
    <2>4. /\ conns \in [Slots -> Connection] /\ conns[i] = None
          /\ \A j \in Slots \ {i} : conns[j] = old[j]
        BY <1>4, <2>3, OneChanged, ConnectionFacts
    <2> QED
        BY <1>2, <1>3, <1>5, <2>1, <2>2, <2>3, <2>4, ConnectionFacts, Serves DEF Holding, old
<1>7. CASE ~(fresh /\ ~up[query[q].source])
    <2> DEFINE taken == IF fresh THEN New ELSE [x EXCEPT !.is = "out"]
               c == [query[q] EXCEPT !.slot = i, !.pc = "ping",
                                     !.doomed = ~fresh /\ ~x.alive /\ ~x.recent]
    <2>1. /\ pool' = [pool EXCEPT ![e].conn = [old EXCEPT ![i] = taken]]
          /\ query' = [query EXCEPT ![q] = c]
        BY <1>1, <1>7
    <2>2. /\ taken \in Connection /\ taken.is = "out"
          /\ ~fresh => taken.alive = x.alive /\ taken.recent = x.recent
        BY <1>4, ConnectionFacts DEF Connection
    <2>3. /\ c \in Call /\ c.pc = "ping" /\ c.engine = e /\ c.slot = i
          /\ c.tables = query[q].tables /\ c.source = query[q].source
          /\ c.result = query[q].result
          /\ c.doomed => ~fresh /\ ~x.alive /\ ~x.recent
        BY CallFacts DEF Call, Pcs
    <2> HIDE DEF taken, c
    <2>4. /\ \A t \in c.tables : c.source \in homes[t]
          /\ c.result = "none"
        BY <1>2, <2>3, CallFacts DEF Knows
    <2> HIDE DEF e, old, x, fresh
    <2>5. PICK conns : conns = [old EXCEPT ![i] = taken]
        OBVIOUS
    <2>6. /\ conns \in [Slots -> Connection] /\ conns[i] = taken
          /\ \A j \in Slots \ {i} : conns[j] = old[j]
        BY <1>4, <2>2, <2>5, OneChanged
    <2>7. c.doomed => ~conns[i].alive /\ ~conns[i].recent
        BY <2>2, <2>3, <2>6
    <2>8. pool' = [pool EXCEPT ![e].conn = conns]
        BY <2>1, <2>5
    <2>9. /\ c.pc \in Holding /\ query[q].pc \notin Holding /\ c.source = pool[e].source
          /\ conns[i].is = "out"
        BY <1>2, <1>3, <2>2, <2>3, <2>6 DEF Holding
    <2> QED
        BY <1>2, <1>3, <1>5, <2>1, <2>3, <2>4, <2>6, <2>7, <2>8, <2>9, Serves DEF old
<1> QED
    BY <1>6, <1>7

\* A statement's end, with its connection returned clean or dropped.
LEMMA Returns ==
    ASSUME IInv, NEW q \in Queries, query[q].pc \in Holding, NEW result \in Result,
           NEW base \in [Slots -> Connection], NEW x \in Connection,
           \A j \in Slots : LET y == pool[query[q].engine].conn[j] IN
              base[j].is = y.is /\ base[j].alive = y.alive /\ base[j].recent = y.recent
              /\ base[j].open = y.open,
           x.is # "out", x.is = "idle" => ~x.open,
           result = "lost" => ~query[q].doomed,
           Ends(q, result),
           pool' = [pool EXCEPT ![query[q].engine].conn = [base EXCEPT ![query[q].slot] = x]],
           UNCHANGED <<homes, engines, lock, up, asked, restarts>>
    PROVE  IInv'
<1>1. PICK c \in Call :
         /\ query' = [query EXCEPT ![q] = c] /\ c.pc = "idle"
         /\ \A t \in c.tables : c.source \in homes[t]
         /\ ~c.doomed
    BY EndFacts
<1>2. PICK e \in DOMAIN pool, i \in Slots :
         /\ e = query[q].engine /\ i = query[q].slot
         /\ Holds(q, e, i) /\ \A r \in Queries \ {q} : ~Holds(r, e, i)
    BY HolderFacts
<1>3. PICK conns : conns = [base EXCEPT ![i] = x]
    OBVIOUS
<1>4. /\ conns \in [Slots -> Connection] /\ conns[i] = x
      /\ \A j \in Slots \ {i} : conns[j] = base[j]
    BY <1>3, OneChanged
<1>5. pool' = [pool EXCEPT ![e].conn = conns]
    BY <1>2, <1>3
<1>6. \A j \in Slots \ {i} : /\ conns[j].is = pool[e].conn[j].is
                             /\ conns[j].alive = pool[e].conn[j].alive
                             /\ conns[j].recent = pool[e].conn[j].recent
                             /\ conns[j].open = pool[e].conn[j].open
    BY <1>2, <1>4
<1>7. c.pc \notin Holding /\ c.pc \in {"idle"} \cup Holding /\ c.pc \notin {"rollback"}
    BY <1>1 DEF Holding
<1> QED
    BY <1>1, <1>2, <1>4, <1>5, <1>6, <1>7, Serves, ZenonT(30)
\* A thread goes on with its connection.
LEMMA GoesOn ==
    ASSUME IInv, NEW q \in Queries, query[q].pc \in Holding, NEW c \in Call,
           NEW base \in [Slots -> Connection], NEW x \in Connection,
           \A j \in Slots : LET y == pool[query[q].engine].conn[j] IN
              base[j].is = y.is /\ base[j].alive = y.alive /\ base[j].recent = y.recent
              /\ base[j].open = y.open,
           x.is = "out", c.pc \in {"run", "rollback"},
           c.engine = query[q].engine, c.slot = query[q].slot, c.source = query[q].source,
           c.tables = query[q].tables, ~c.doomed,
           c.pc = "run" => c.result = "none", c.pc = "rollback" => c.result \in {"rows", "error"},
           query' = [query EXCEPT ![q] = c],
           pool' = [pool EXCEPT ![query[q].engine].conn = [base EXCEPT ![query[q].slot] = x]],
           UNCHANGED <<homes, engines, lock, up, asked, restarts>>
    PROVE  IInv'
<1>1. PICK e \in DOMAIN pool, i \in Slots :
         /\ e = query[q].engine /\ i = query[q].slot /\ pool[e].source = query[q].source
         /\ Holds(q, e, i) /\ \A r \in Queries \ {q} : ~Holds(r, e, i)
    BY HolderFacts
<1>2. PICK conns : conns = [base EXCEPT ![i] = x]
    OBVIOUS
<1>3. /\ conns \in [Slots -> Connection] /\ conns[i] = x
      /\ \A j \in Slots \ {i} : conns[j] = base[j]
    BY <1>2, OneChanged
<1>4. pool' = [pool EXCEPT ![e].conn = conns]
    BY <1>1, <1>2
<1>5. \A j \in Slots \ {i} : /\ conns[j].is = pool[e].conn[j].is
                             /\ conns[j].alive = pool[e].conn[j].alive
                             /\ conns[j].recent = pool[e].conn[j].recent
                             /\ conns[j].open = pool[e].conn[j].open
    BY <1>1, <1>3
<1>6. /\ c.pc \in Holding /\ c.pc \in {"idle"} \cup Holding
      /\ c.pc \notin {"idle", "rollback"} => c.result = "none"
      /\ \A t \in c.tables : c.source \in homes[t]
    BY CallFacts DEF Holding, Knows
<1>7. c.engine = e /\ c.slot = i /\ c.source = pool[e].source
    BY <1>1
<1> QED
    BY <1>1, <1>3, <1>4, <1>5, <1>6, <1>7, Serves

LEMMA PingInv == ASSUME IInv, NEW q \in Queries, Ping(q) PROVE IInv'
<1> DEFINE e == query[q].engine
           lost == Asks(Conn(q)) /\ ~Conn(q).alive
           told == Invalidated(e)
<1>1. /\ query[q].pc = "ping" /\ query[q].pc \in Holding
      /\ UNCHANGED <<homes, engines, lock, up, asked, restarts>>
    BY DEF Ping, Holding, Engineering, Outside
<1>2. e \in DOMAIN pool /\ Conn(q) \in Connection /\ Conn(q).is = "out"
      /\ Conn(q) = pool[e].conn[query[q].slot]
    BY <1>1, HolderFacts
<1>3. /\ pool[e].conn \in [Slots -> Connection] /\ told \in [Slots -> Connection]
      /\ \A j \in Slots : /\ told[j].is = pool[e].conn[j].is
                          /\ told[j].alive = pool[e].conn[j].alive
                          /\ told[j].recent = pool[e].conn[j].recent
                          /\ told[j].open = pool[e].conn[j].open
    BY <1>2, InvalidatedFacts
<1>4. ~lost => ~query[q].doomed
    BY <1>2, CallFacts DEF Knows, Asks
<1>5. query[q].result = "none"
    BY <1>1, CallFacts DEF Knows
<1>6. CASE ~lost
    <2> DEFINE c == [query[q] EXCEPT !.pc = "run"]
    <2>1. query' = [query EXCEPT ![q] = c] /\ pool' = pool
        BY <1>6 DEF Ping, Goes
    <2>2. /\ c \in Call /\ c.pc = "run" /\ c.engine = e /\ c.slot = query[q].slot
          /\ c.tables = query[q].tables /\ c.source = query[q].source
          /\ c.result = query[q].result /\ c.doomed = query[q].doomed
        BY CallFacts DEF Call, Pcs
    <2> HIDE DEF c
    <2>3. pool[e].conn = [pool[e].conn EXCEPT ![query[q].slot] = Conn(q)]
        BY <1>2, <1>3
    <2>4. pool = [pool EXCEPT ![e].conn = pool[e].conn]
        <3>1. pool[e] \in Entry /\ pool \in Seq(Entry) /\ pool = [d \in DOMAIN pool |-> pool[d]]
            BY <1>2, LenProperties DEF IInv, TypeInv
        <3> QED
            BY <1>2, <3>1 DEF Entry
    <2>5. pool' = [pool EXCEPT ![e].conn = [pool[e].conn EXCEPT ![query[q].slot] = Conn(q)]]
        BY <2>1, <2>3, <2>4
    <2>6. /\ ~c.doomed /\ c.pc \in {"run", "rollback"} /\ c.pc # "rollback"
          /\ c.result = "none"
        BY <1>4, <1>5, <1>6, <2>2
    <2>7. \A j \in Slots : LET y == pool[e].conn[j] IN
              y.is = y.is /\ y.alive = y.alive /\ y.recent = y.recent /\ y.open = y.open
        OBVIOUS
    <2> HIDE DEF lost, told
    <2> QED
        BY <1>1, <1>2, <1>3, <2>1, <2>2, <2>5, <2>6, <2>7, GoesOn
<1>7. CASE lost /\ up[query[q].source]
    <2> DEFINE c == [query[q] EXCEPT !.pc = "run", !.doomed = FALSE]
    <2>1. /\ query' = [query EXCEPT ![q] = c]
          /\ pool' = [pool EXCEPT ![e].conn = [told EXCEPT ![query[q].slot] = New]]
        BY <1>7 DEF Ping
    <2>2. /\ c \in Call /\ c.pc = "run" /\ c.engine = e /\ c.slot = query[q].slot
          /\ c.tables = query[q].tables /\ c.source = query[q].source
          /\ c.result = query[q].result /\ ~c.doomed
        BY CallFacts DEF Call, Pcs
    <2>3. /\ c.pc \in {"run", "rollback"} /\ c.pc # "rollback" /\ c.result = "none"
        BY <1>5, <2>2
    <2> HIDE DEF c, told, lost
    <2> QED
        BY <1>1, <1>3, <2>1, <2>2, <2>3, GoesOn, ConnectionFacts, ZenonT(30)
<1>8. CASE lost /\ ~up[query[q].source]
    <2>1. /\ pool' = [pool EXCEPT ![e].conn = [told EXCEPT ![query[q].slot] = None]]
          /\ Ends(q, "refused")
        BY <1>8 DEF Ping
    <2>2. "refused" \in Result
        BY DEF Result
    <2> HIDE DEF told
    <2> QED
        BY <1>1, <1>3, <2>1, <2>2, Returns, ConnectionFacts
<1> QED
    BY <1>6, <1>7, <1>8

LEMMA RunInv == ASSUME IInv, NEW q \in Queries, Run(q) PROVE IInv'
<1> DEFINE e == query[q].engine
           told == Invalidated(e)
<1>1. /\ query[q].pc = "run" /\ query[q].pc \in Holding
      /\ UNCHANGED <<homes, engines, lock, up, asked, restarts>>
    BY DEF Run, Holding, Engineering, Outside
<1>2. e \in DOMAIN pool /\ Conn(q) \in Connection /\ Conn(q).is = "out"
    BY <1>1, HolderFacts
<1>3. /\ pool[e].conn \in [Slots -> Connection] /\ told \in [Slots -> Connection]
      /\ \A j \in Slots : /\ told[j].is = pool[e].conn[j].is
                          /\ told[j].alive = pool[e].conn[j].alive
                          /\ told[j].recent = pool[e].conn[j].recent
                          /\ told[j].open = pool[e].conn[j].open
    BY <1>2, InvalidatedFacts
<1>4. ~query[q].doomed
    BY <1>1, CallFacts DEF Knows
<1>5. CASE Conn(q).alive
    <2>1. PICK result \in {"rows", "error"} :
             query' = [query EXCEPT ![q].pc = "rollback", ![q].result = result]
        BY <1>5 DEF Run
    <2> DEFINE c == [query[q] EXCEPT !.pc = "rollback", !.result = result]
               x == [Conn(q) EXCEPT !.open = TRUE]
    <2>2. /\ query' = [query EXCEPT ![q] = c]
          /\ pool' = [pool EXCEPT ![e].conn = [pool[e].conn EXCEPT ![query[q].slot] = x]]
        BY <1>5, <2>1 DEF Run, Set
    <2>3. /\ c \in Call /\ c.pc = "rollback" /\ c.engine = e /\ c.slot = query[q].slot
          /\ c.tables = query[q].tables /\ c.source = query[q].source
          /\ c.result = result /\ c.doomed = query[q].doomed
        BY CallFacts DEF Call, Pcs, Result
    <2>4. x \in Connection /\ x.is = "out"
        BY <1>2 DEF Connection
    <2> HIDE DEF c, x
    <2> QED
        BY <1>1, <1>3, <1>4, <2>2, <2>3, <2>4, GoesOn
<1>6. CASE ~Conn(q).alive
    <2>1. /\ pool' = [pool EXCEPT ![e].conn = [told EXCEPT ![query[q].slot] = None]]
          /\ Ends(q, "lost")
        BY <1>6 DEF Run
    <2>2. "lost" \in Result
        BY DEF Result
    <2> HIDE DEF told
    <2> QED
        BY <1>1, <1>3, <1>4, <2>1, <2>2, Returns, ConnectionFacts
<1> QED
    BY <1>5, <1>6

LEMMA RollbackInv == ASSUME IInv, NEW q \in Queries, Rollback(q) PROVE IInv'
<1> DEFINE e == query[q].engine
           told == Invalidated(e)
<1>1. /\ query[q].pc = "rollback" /\ query[q].pc \in Holding
      /\ UNCHANGED <<homes, engines, lock, up, asked, restarts>>
    BY DEF Rollback, Holding, Engineering, Outside
<1>2. e \in DOMAIN pool /\ Conn(q) \in Connection /\ Conn(q).is = "out"
    BY <1>1, HolderFacts
<1>3. /\ pool[e].conn \in [Slots -> Connection] /\ told \in [Slots -> Connection]
      /\ \A j \in Slots : /\ told[j].is = pool[e].conn[j].is
                          /\ told[j].alive = pool[e].conn[j].alive
                          /\ told[j].recent = pool[e].conn[j].recent
                          /\ told[j].open = pool[e].conn[j].open
    BY <1>2, InvalidatedFacts
<1>4. ~query[q].doomed
    BY <1>1, CallFacts DEF Knows
<1>5. CASE Conn(q).alive
    <2> DEFINE x == [Conn(q) EXCEPT !.is = "idle", !.recent = TRUE, !.open = ~RollsBack(q)]
    <2>1. /\ pool' = [pool EXCEPT ![e].conn = [pool[e].conn EXCEPT ![query[q].slot] = x]]
          /\ Ends(q, query[q].result)
        BY <1>5 DEF Rollback, Set
    <2>2. x \in Connection /\ x.is = "idle" /\ ~x.open
        BY <1>2 DEF Connection, RollsBack
    <2>3. query[q].result \in Result
        BY CallFacts
    <2> HIDE DEF x
    <2> QED
        BY <1>1, <1>3, <1>4, <2>1, <2>2, <2>3, Returns
<1>6. CASE ~Conn(q).alive
    <2>1. /\ pool' = [pool EXCEPT ![e].conn = [told EXCEPT ![query[q].slot] = None]]
          /\ Ends(q, "lost")
        BY <1>6 DEF Rollback
    <2>2. "lost" \in Result
        BY DEF Result
    <2> HIDE DEF told
    <2> QED
        BY <1>1, <1>3, <1>4, <2>1, <2>2, Returns, ConnectionFacts
<1> QED
    BY <1>5, <1>6
\* What happens to connections while nobody uses them: some die, some get old.
LEMMA Weather ==
    ASSUME IInv, pool' \in Seq(Entry), DOMAIN pool' = DOMAIN pool,
           \A e \in DOMAIN pool : pool'[e].source = pool[e].source,
           \A e \in DOMAIN pool, i \in Slots :
                /\ pool'[e].conn[i].is = pool[e].conn[i].is
                /\ pool'[e].conn[i].open = pool[e].conn[i].open
                /\ pool'[e].conn[i].alive => pool[e].conn[i].alive
                /\ pool'[e].conn[i].recent => pool[e].conn[i].recent,
           up' \in [Names -> BOOLEAN], restarts' \in 0 .. MaxRestarts,
           UNCHANGED <<homes, engines, lock, query, asked>>
    PROVE  IInv'
<1>1. Configured' /\ TypeInv' /\ LockInv' /\ Apart'
    BY DEF IInv, Configured, TypeInv, LockInv, Apart
<1>2. EnginesInv'
    BY DEF IInv, EnginesInv, TypeInv
<1>3. QueryInv'
    <2> SUFFICES ASSUME NEW r \in Queries
                 PROVE  /\ query[r].pc \in {"checkout"} \cup Holding =>
                            /\ query[r].engine \in DOMAIN pool'
                            /\ pool'[query[r].engine].source = query[r].source
                        /\ query[r].pc \in Holding => Conn(r)'.is = "out"
                        /\ Knows(query[r], Conn(r))'
        BY DEF QueryInv
    <2>1. /\ query[r].pc \in {"checkout"} \cup Holding =>
                /\ query[r].engine \in DOMAIN pool
                /\ pool[query[r].engine].source = query[r].source
          /\ query[r].pc \in Holding => Conn(r).is = "out"
          /\ Knows(query[r], Conn(r))
        BY DEF IInv, QueryInv
    <2>2. query[r].pc \in Holding =>
                /\ Conn(r)'.is = Conn(r).is
                /\ Conn(r)'.alive => Conn(r).alive
                /\ Conn(r)'.recent => Conn(r).recent
        BY <2>1, CallFacts DEF Conn
    <2>3. query[r].doomed => query[r].pc \in Holding
        BY <2>1 DEF Knows, Holding
    <2>4. Knows(query[r], Conn(r))'
        BY <2>1, <2>2, <2>3 DEF Knows
    <2> QED
        BY <2>1, <2>2, <2>4
<1>4. PoolClean'
    <2>1. PoolClean
        BY DEF IInv
    <2>2. \A e \in DOMAIN pool', i \in Slots :
            pool'[e].conn[i].is = "idle" => ~pool'[e].conn[i].open
        BY <2>1 DEF PoolClean
    <2>3. \A e \in DOMAIN pool', i \in Slots : pool'[e].conn[i].is = "out" =>
            \E q \in Queries : /\ query'[q].pc \in {"ping", "run", "rollback"}
                               /\ query'[q].engine = e /\ query'[q].slot = i
        BY <2>1 DEF PoolClean
    <2> QED
        BY <2>2, <2>3 DEF PoolClean
<1> QED
    BY <1>1, <1>2, <1>3, <1>4 DEF IInv

LEMMA DownInv == ASSUME IInv, NEW s \in Names, Down(s) PROVE IInv'
<1> DEFINE fallen(e) == [pool[e] EXCEPT !.conn = [i \in Slots |-> [@[i] EXCEPT !.alive = FALSE]]]
<1>1. pool' = [e \in DOMAIN pool |-> IF pool[e].source # s THEN pool[e] ELSE fallen(e)]
    BY DEF Down
<1>2. /\ DOMAIN pool = 1 .. Len(pool) /\ Len(pool) \in Nat
      /\ \A e \in DOMAIN pool : pool[e] \in Entry
    BY LenProperties DEF IInv, TypeInv
<1>3. ASSUME NEW e \in DOMAIN pool
      PROVE  /\ fallen(e) \in Entry /\ fallen(e).source = pool[e].source
             /\ \A i \in Slots :
                  /\ fallen(e).conn[i].is = pool[e].conn[i].is
                  /\ fallen(e).conn[i].open = pool[e].conn[i].open
                  /\ fallen(e).conn[i].alive = FALSE
                  /\ fallen(e).conn[i].recent = pool[e].conn[i].recent
    <2>1. pool[e] \in Entry /\ pool[e].conn \in [Slots -> Connection] /\ pool[e].source \in Names
        BY <1>2 DEF Entry
    <2> DEFINE new == [i \in Slots |-> [pool[e].conn[i] EXCEPT !.alive = FALSE]]
    <2>2. /\ new \in [Slots -> Connection]
          /\ \A i \in Slots : /\ new[i].is = pool[e].conn[i].is
                              /\ new[i].open = pool[e].conn[i].open
                              /\ new[i].alive = FALSE
                              /\ new[i].recent = pool[e].conn[i].recent
        BY <2>1 DEF Connection
    <2>3. fallen(e) = [pool[e] EXCEPT !.conn = new]
        OBVIOUS
    <2> HIDE DEF new, fallen
    <2>4. fallen(e) \in Entry /\ fallen(e).source = pool[e].source /\ fallen(e).conn = new
        BY <2>1, <2>2, <2>3 DEF Entry
    <2> QED
        BY <2>2, <2>4
<1> HIDE DEF fallen
<1>4. pool' \in [1 .. Len(pool) -> Entry]
    BY <1>1, <1>2, <1>3
<1>5. pool' \in Seq(Entry)
    BY <1>2, <1>4, SeqDef
<1>6. /\ DOMAIN pool' = DOMAIN pool
      /\ \A e \in DOMAIN pool : pool'[e].source = pool[e].source
      /\ \A e \in DOMAIN pool, i \in Slots :
                /\ pool'[e].conn[i].is = pool[e].conn[i].is
                /\ pool'[e].conn[i].open = pool[e].conn[i].open
                /\ pool'[e].conn[i].alive => pool[e].conn[i].alive
                /\ pool'[e].conn[i].recent => pool[e].conn[i].recent
    BY <1>1, <1>3
<1>7. /\ up' \in [Names -> BOOLEAN] /\ restarts' \in 0 .. MaxRestarts
      /\ UNCHANGED <<homes, engines, lock, query, asked>>
    BY DEF Down, IInv, TypeInv, Configured
<1> QED
    BY <1>5, <1>6, <1>7, Weather

LEMMA UpInv == ASSUME IInv, NEW s \in Names, Up(s) PROVE IInv'
<1>1. /\ up' \in [Names -> BOOLEAN] /\ restarts' \in 0 .. MaxRestarts
      /\ UNCHANGED <<homes, engines, lock, pool, query, asked>>
    BY DEF Up, IInv, TypeInv
<1>2. pool' \in Seq(Entry) /\ pool' = pool
    BY <1>1 DEF IInv, TypeInv
<1> QED
    BY <1>1, <1>2, Weather

LEMMA AgeInv == ASSUME IInv, NEW e \in DOMAIN pool, NEW i \in Slots, Age(e, i) PROVE IInv'
<1> DEFINE x == [pool[e].conn[i] EXCEPT !.recent = FALSE]
<1>1. pool' = [pool EXCEPT ![e].conn = [pool[e].conn EXCEPT ![i] = x]]
    BY DEF Age
<1>2. pool[e].conn \in [Slots -> Connection] /\ pool \in Seq(Entry)
    BY InvalidatedFacts DEF IInv, TypeInv
<1>3. /\ x \in Connection /\ x.is = pool[e].conn[i].is /\ x.open = pool[e].conn[i].open
      /\ x.alive = pool[e].conn[i].alive /\ ~x.recent
    BY <1>2 DEF Connection
<1> HIDE DEF x
<1>4. PICK conns : conns = [pool[e].conn EXCEPT ![i] = x]
    OBVIOUS
<1>5. /\ conns \in [Slots -> Connection] /\ conns[i] = x
      /\ \A j \in Slots \ {i} : conns[j] = pool[e].conn[j]
    BY <1>2, <1>3, <1>4, OneChanged
<1>6. pool' = [pool EXCEPT ![e].conn = conns]
    BY <1>1, <1>4
<1>7. /\ pool' \in Seq(Entry) /\ DOMAIN pool' = DOMAIN pool
      /\ \A d \in DOMAIN pool : /\ pool'[d].source = pool[d].source
                                /\ pool'[d].conn = IF d = e THEN conns ELSE pool[d].conn
    BY ONLY <1>2, <1>5, <1>6, Replaced, e \in DOMAIN pool
<1>8. ASSUME NEW d \in DOMAIN pool, NEW j \in Slots
      PROVE  /\ pool'[d].conn[j].is = pool[d].conn[j].is
             /\ pool'[d].conn[j].open = pool[d].conn[j].open
             /\ pool'[d].conn[j].alive => pool[d].conn[j].alive
             /\ pool'[d].conn[j].recent => pool[d].conn[j].recent
    BY <1>3, <1>5, <1>7
<1>9. /\ up' \in [Names -> BOOLEAN] /\ restarts' \in 0 .. MaxRestarts
      /\ UNCHANGED <<homes, engines, lock, query, asked>>
    BY DEF Age, IInv, TypeInv
<1> QED
    BY <1>7, <1>8, <1>9, Weather

-----------------------------------------------------------------------------
(* The theorems.                                                           *)

LEMMA Invariance == Configured => (Spec => []IInv)
<1> SUFFICES ASSUME Configured PROVE Spec => []IInv
    OBVIOUS
<1>1. Init => IInv
    BY InitInv
<1>2. IInv /\ [Next]_vars => IInv'
    <2> SUFFICES ASSUME IInv, [Next]_vars PROVE IInv'
        OBVIOUS
    <2>1. CASE UNCHANGED vars
        <3>1. UNCHANGED <<homes, engines, lock, pool, up, query, asked, restarts>>
            BY <2>1 DEF vars
        <3>2. pool' \in Seq(Entry) /\ up' \in [Names -> BOOLEAN] /\ restarts' \in 0 .. MaxRestarts
            BY <3>1 DEF IInv, TypeInv
        <3> QED
            BY <3>1, <3>2, Weather
    <2>2. CASE \E q \in Queries, tables \in SUBSET Tables, given \in Names \cup {"none"} :
                 (given = "none" \/ tables = {}) /\ Ask(q, tables, given)
        BY <2>2, AskInv
    <2>3. CASE \E q \in Queries : GetEngine(q) \/ Lock(q) \/ Build(q)
        BY <2>3, GetEngineInv, LockStep, BuildInv
    <2>4. CASE \E q \in Queries : Checkout(q) \/ PoolTimeout(q) \/ Ping(q) \/ Run(q) \/ Rollback(q)
        BY <2>4, CheckoutInv, PoolTimeoutInv, PingInv, RunInv, RollbackInv
    <2>5. CASE \E s \in Names : Down(s) \/ Up(s)
        BY <2>5, DownInv, UpInv
    <2>6. CASE \E e \in DOMAIN pool, i \in Slots : Age(e, i)
        BY <2>6, AgeInv
    <2> QED
        BY <2>1, <2>2, <2>3, <2>4, <2>5, <2>6 DEF Next
<1> QED
    BY <1>1, <1>2, PTL DEF Spec

\* However many threads ask, whichever databases restart under the pools and in
\* whatever order: a statement that is answered ran where all its tables are
\* (choose_datasource), get_engine builds one pool for a source, a connection that
\* lay idle is asked before a statement trusts it (install_idle_aware_ping), and
\* every connection that returns is clean (execute_sql's rollback).
THEOREM ExecutionIsSound == Configured => (Spec => []ExecutionSound)
<1>1. IInv => ExecutionSound
    <2> SUFFICES ASSUME IInv PROVE ExecutionSound
        OBVIOUS
    <2>1. RunsAtHome
        BY CallFacts DEF RunsAtHome, Knows
    <2>2. OnePool
        BY DEF OnePool, IInv, EnginesInv
    <2>3. IdleIsAsked
        BY CallFacts DEF IdleIsAsked, Knows
    <2> QED
        BY <2>1, <2>2, <2>3 DEF IInv, ExecutionSound
<1> QED
    BY <1>1, Invariance, PTL

\* Types.  There are never more engines than sources, so get_engine's two looks keep
\* the number of connections within the pools' limits.
THEOREM TypeCorrect == Configured => (Spec => []TypeOK)
<1>1. IInv => TypeOK
    <2> SUFFICES ASSUME IInv PROVE TypeOK
        OBVIOUS
    <2>1. /\ Len(pool) \in Nat /\ DOMAIN pool = 1 .. Len(pool)
          /\ \A e \in DOMAIN pool : pool[e] \in Entry
        BY LenProperties DEF IInv, TypeInv
    <2>2. \A e \in DOMAIN pool : pool[e].source \in Names /\ pool[e].conn \in [Slots -> Connection]
        BY <2>1 DEF Entry
    <2>3. engines \in [Names -> 0 .. Len(pool)]
        <3>1. \A s \in Names : engines[s] \in 0 .. Len(pool)
            BY <2>1 DEF IInv, EnginesInv, TypeInv
        <3> QED
            BY <3>1 DEF IInv, TypeInv
    <2>4. Len(pool) <= Len(Sources)
        <3> DEFINE f == [e \in 1 .. Len(pool) |-> pool[e].source]
                   g == [i \in 1 .. Len(Sources) |-> Sources[i]]
        <3>1. Len(Sources) \in Nat /\ DOMAIN Sources = 1 .. Len(Sources)
            BY Sourced DEF IInv
        <3>2. f \in Injection(1 .. Len(pool), Names)
            <4>1. f \in [1 .. Len(pool) -> Names]
                BY <2>1, <2>2
            <4>2. \A d, e \in 1 .. Len(pool) : f[d] = f[e] => d = e
                BY <2>1 DEF IInv, EnginesInv
            <4> HIDE DEF f
            <4> QED
                BY <4>1, <4>2 DEF Injection, IsInjective
        <3>3. g \in Surjection(1 .. Len(Sources), Names)
            BY <3>1 DEF Surjection, Names
        <3> HIDE DEF f, g
        <3>4. /\ IsFiniteSet(1 .. Len(Sources)) /\ Cardinality(1 .. Len(Sources)) = Len(Sources)
            <4>1. PICK n \in Nat : n = Len(Sources)
                BY <3>1
            <4>2. IsFiniteSet(1 .. n) /\ Cardinality(1 .. n) = n
                BY FS_Interval
            <4> QED
                BY <4>1, <4>2
        <3>5. IsFiniteSet(Names) /\ Cardinality(Names) <= Len(Sources)
            BY <3>3, <3>4, FS_Surjection
        <3>6. Cardinality(1 .. Len(pool)) = Len(pool)
            BY <2>1, FS_Interval, SMTT(30)
        <3>7. Cardinality(1 .. Len(pool)) <= Cardinality(Names)
            BY <3>2, <3>5, FS_Injection
        <3>8. Cardinality(Names) \in Nat
            BY <3>5, FS_CardinalityType
        <3> QED
            BY <2>1, <3>1, <3>5, <3>6, <3>7, <3>8
    <2>5. Len(pool) \in 0 .. Cardinality(Engines)
        <3>1. Cardinality(Queries) \in Nat /\ Len(Sources) \in Nat
            BY FS_CardinalityType, Sourced DEF IInv, Configured
        <3>2. Cardinality(1 .. Cardinality(Queries) + Len(Sources)) = Cardinality(Queries) + Len(Sources)
            BY <3>1, FS_Interval
        <3> QED
            BY <2>1, <2>4, <3>1, <3>2 DEF Engines
    <2> QED
        BY <2>2, <2>3, <2>5, CallFacts DEF TypeOK, IInv, TypeInv, Pcs
<1> QED
    BY <1>1, Invariance, PTL
-----------------------------------------------------------------------------
(* The call to the model.                                                  *)

CONSTANTS Pieces, Retries, Timeout
VARIABLES call, sent, sentinel, posts

M == INSTANCE ModelCall

CallPcs == {"sleeping", "waiting", "reading", "answered", "out_of_scope", "timeout", "gave_up"}
CallRecord ==
    [pc : CallPcs,
     attempt : Nat, elapsed : Nat, quiet : Nat, text : Seq(1 .. Pieces), finished : BOOLEAN]

\* The text of an attempt is as far as its stream, and a finish_reason follows the
\* last piece.
TextInv ==
    call.pc # "sleeping" =>
        /\ Len(call.text) = sent /\ \A i \in 1 .. sent : call.text[i] = i
        /\ call.finished \/ call.pc \in {"answered", "out_of_scope"} => sent = Pieces

\* How many attempts there were, and how all but the last ended.
PostsInv ==
    /\ Len(posts) = IF call.pc = "sleeping" THEN call.attempt - 1 ELSE call.attempt
    /\ \A i \in DOMAIN posts : i < call.attempt => posts[i] = "error"

CallInv == M!Configured /\ M!TypeOK /\ call \in CallRecord /\ TextInv /\ PostsInv
LEMMA RecordFacts ==
    /\ \A c \in CallRecord :
        /\ c.pc \in CallPcs /\ c.attempt \in Nat /\ c.elapsed \in Nat /\ c.quiet \in Nat
        /\ c.text \in Seq(1 .. Pieces) /\ c.finished \in BOOLEAN
        /\ c = [pc |-> c.pc, attempt |-> c.attempt, elapsed |-> c.elapsed, quiet |-> c.quiet,
                text |-> c.text, finished |-> c.finished]
    /\ \A p \in CallPcs, a, e, w \in Nat, t \in Seq(1 .. Pieces), f \in BOOLEAN :
        [pc |-> p, attempt |-> a, elapsed |-> e, quiet |-> w, text |-> t, finished |-> f] \in CallRecord
BY DEF CallRecord, CallPcs

LEMMA CallState ==
    ASSUME CallInv
    PROVE  /\ Pieces \in Nat /\ Retries \in Nat \ {0} /\ Timeout \in Nat
           /\ call \in CallRecord /\ call.attempt \in 1 .. Retries
           /\ call.elapsed \in 0 .. M!Long /\ call.quiet \in 0 .. Timeout
           /\ call.text \in Seq(1 .. Pieces) /\ call.finished \in BOOLEAN
           /\ sent \in 0 .. Pieces /\ sentinel \in BOOLEAN
           /\ posts \in Seq({"open", "answer", "timeout", "error"})
           /\ Len(posts) \in Nat /\ DOMAIN posts = 1 .. Len(posts)
           /\ M!Long \in Nat
<1>1. /\ Pieces \in Nat /\ Retries \in Nat \ {0} /\ Timeout \in Nat /\ call \in CallRecord
      /\ M!TypeOK
    BY DEF CallInv, M!Configured
<1>2. M!Long \in Nat
    BY <1>1 DEF M!Long
<1>3. /\ call.attempt \in 1 .. Retries
      /\ call.elapsed \in 0 .. M!Long /\ call.quiet \in 0 .. Timeout
      /\ call.text \in Seq(1 .. Pieces) /\ call.finished \in BOOLEAN
      /\ sent \in 0 .. Pieces /\ sentinel \in BOOLEAN
      /\ posts \in Seq({"open", "answer", "timeout", "error"})
    BY <1>1 DEF M!TypeOK
<1>4. Len(posts) \in Nat /\ DOMAIN posts = 1 .. Len(posts)
    BY <1>3, LenProperties
<1> QED
    BY <1>1, <1>2, <1>3, <1>4

\* An update of the call's record.
LEMMA Updated ==
    ASSUME call \in CallRecord,
           NEW pc \in CallPcs, NEW elapsed \in Nat, NEW quiet \in Nat,
           NEW text \in Seq(1 .. Pieces), NEW finished \in BOOLEAN,
           call' = [call EXCEPT !.pc = pc, !.elapsed = elapsed, !.quiet = quiet,
                                !.text = text, !.finished = finished]
    PROVE  /\ call' \in CallRecord /\ call'.pc = pc /\ call'.attempt = call.attempt
           /\ call'.elapsed = elapsed /\ call'.quiet = quiet
           /\ call'.text = text /\ call'.finished = finished
<1>1. call'.pc = pc /\ call'.attempt = call.attempt /\ call'.elapsed = elapsed
    BY DEF CallRecord
<1>2. call'.quiet = quiet /\ call'.text = text /\ call'.finished = finished
    BY DEF CallRecord
<1>3. call' \in CallRecord
    BY DEF CallRecord
<1> QED
    BY <1>1, <1>2, <1>3

\* The last attempt ends: in pc, or in the sleep before the next one.
LEMMA AttemptEnds ==
    ASSUME CallInv, NEW pc \in {"sleeping", "answered", "out_of_scope", "timeout", "gave_up"},
           NEW how \in {"answer", "timeout", "error"},
           NEW attempt \in 1 .. Retries,
           call.pc # "sleeping",
           call' = [call EXCEPT !.pc = pc, !.attempt = attempt],
           attempt = IF pc = "sleeping" THEN call.attempt + 1 ELSE call.attempt,
           pc = "sleeping" => how = "error",
           pc \in {"answered", "out_of_scope"} => sent = Pieces,
           posts' = [posts EXCEPT ![Len(posts)] = how], UNCHANGED <<sent, sentinel>>
    PROVE  CallInv'
<1>1. /\ call' \in CallRecord /\ call'.pc = pc /\ call'.attempt = attempt
      /\ call'.elapsed = call.elapsed /\ call'.quiet = call.quiet
      /\ call'.text = call.text /\ call'.finished = call.finished
    <2>1. pc \in CallPcs /\ attempt \in Nat /\ call \in CallRecord
        BY CallState DEF CallPcs
    <2> QED
        BY <2>1 DEF CallRecord
<1>2. Len(posts) = call.attempt /\ Len(posts) \in 1 .. Len(posts)
    <2>1. Len(posts) = call.attempt
        BY DEF CallInv, PostsInv
    <2> QED
        BY <2>1, CallState
<1>3. /\ posts' \in Seq({"open", "answer", "timeout", "error"}) /\ Len(posts') = Len(posts)
      /\ \A i \in 1 .. Len(posts) : posts'[i] = IF i = Len(posts) THEN how ELSE posts[i]
    BY <1>2, CallState, ExceptSeq
<1>4. M!TypeOK' /\ M!Configured'
    BY <1>1, <1>3, CallState DEF M!TypeOK, M!Configured, CallInv, M!Long
<1>5. TextInv'
    BY <1>1 DEF TextInv, CallInv
<1>6. PostsInv'
    <2>1. DOMAIN posts' = 1 .. Len(posts')
        BY <1>3, LenProperties
    <2>2. ASSUME NEW i \in 1 .. Len(posts), i < attempt PROVE posts'[i] = "error"
        BY <1>2, <1>3, <2>2, CallState, SMTT(30) DEF CallInv, PostsInv
    <2> QED
        BY <1>1, <1>2, <1>3, <2>1, <2>2, CallState DEF PostsInv
<1> QED
    BY <1>1, <1>4, <1>5, <1>6 DEF CallInv

LEMMA FailsInv == ASSUME CallInv, call.pc \in {"waiting", "reading"}, M!Fails PROVE CallInv'
<1>1. CASE call.attempt < Retries
    <2>1. /\ call' = [call EXCEPT !.pc = "sleeping", !.attempt = call.attempt + 1]
          /\ posts' = [posts EXCEPT ![Len(posts)] = "error"] /\ UNCHANGED <<sent, sentinel>>
        BY <1>1 DEF M!Fails, M!response
    <2>2. call.attempt + 1 \in 1 .. Retries
        BY <1>1, CallState, SMTT(30)
    <2> QED
        BY <2>1, <2>2, AttemptEnds
<1>2. CASE ~(call.attempt < Retries)
    <2>1. /\ call' = [call EXCEPT !.pc = "gave_up"]
          /\ posts' = [posts EXCEPT ![Len(posts)] = "error"] /\ UNCHANGED <<sent, sentinel>>
        BY <1>2 DEF M!Fails, M!response
    <2>2. call' = [call EXCEPT !.pc = "gave_up", !.attempt = call.attempt]
        BY <2>1, CallState DEF CallRecord
    <2> QED
        BY <2>1, <2>2, CallState, AttemptEnds
<1> QED
    BY <1>1, <1>2

LEMMA EndsInv ==
    ASSUME CallInv, call.pc \in {"waiting", "reading"},
           NEW pc \in {"answered", "out_of_scope", "timeout"}, NEW how \in {"answer", "timeout"},
           M!Ends(pc, how), pc \in {"answered", "out_of_scope"} => sent = Pieces
    PROVE  CallInv'
<1>1. /\ call' = [call EXCEPT !.pc = pc]
      /\ posts' = [posts EXCEPT ![Len(posts)] = how] /\ UNCHANGED <<sent, sentinel>>
    BY DEF M!Ends, M!response
<1>2. call' = [call EXCEPT !.pc = pc, !.attempt = call.attempt]
    BY <1>1, CallState DEF CallRecord
<1> QED
    BY <1>1, <1>2, CallState, AttemptEnds

LEMMA AnswersEnd ==
    ASSUME CallInv, call.pc = "reading", sent = Pieces, M!Answers PROVE CallInv'
BY EndsInv DEF M!Answers

LEMMA TimesOutInv ==
    ASSUME CallInv, call.pc \in {"waiting", "reading"}, M!TimesOut PROVE CallInv'
BY EndsInv DEF M!TimesOut

\* The stream goes on: the same attempt, the text as far as the stream.
LEMMA StreamsOn ==
    ASSUME CallInv, call.pc \in {"waiting", "reading"}, call' \in CallRecord,
           call'.pc \in {"waiting", "reading"}, call'.attempt = call.attempt,
           call'.elapsed \in 0 .. M!Long, call'.quiet \in 0 .. Timeout,
           sent' \in 0 .. Pieces, Len(call'.text) = sent', \A i \in 1 .. sent' : call'.text[i] = i,
           call'.finished => sent' = Pieces, UNCHANGED <<sentinel, posts>>
    PROVE  CallInv'
<1>1. M!TypeOK' /\ M!Configured'
    BY CallState DEF M!TypeOK, M!Configured, CallInv, M!Long, CallRecord
<1>2. TextInv' /\ PostsInv'
    BY DEF TextInv, PostsInv, CallInv
<1> QED
    BY <1>1, <1>2 DEF CallInv

LEMMA PostStep == ASSUME CallInv, M!Post PROVE CallInv'
<1>1. /\ call.pc = "sleeping" /\ posts' = Append(posts, "open") /\ sent' = 0 /\ sentinel' \in BOOLEAN
      /\ call' = [call EXCEPT !.pc = "waiting", !.elapsed = 0, !.quiet = 0,
                              !.text = <<>>, !.finished = FALSE]
    BY DEF M!Post, M!Assembler
<1>2. <<>> \in Seq(1 .. Pieces) /\ Len(<<>>) = 0
    BY EmptySeq
<1>3. /\ call' \in CallRecord /\ call'.pc = "waiting" /\ call'.attempt = call.attempt
      /\ call'.elapsed = 0 /\ call'.quiet = 0 /\ call'.text = <<>> /\ call'.finished = FALSE
    <2>1. PICK text \in Seq(1 .. Pieces) : text = <<>>
        BY <1>2
    <2>2. call' = [call EXCEPT !.pc = "waiting", !.elapsed = 0, !.quiet = 0,
                               !.text = text, !.finished = FALSE]
        BY <1>1, <2>1
    <2>3. "waiting" \in CallPcs /\ 0 \in Nat /\ FALSE \in BOOLEAN /\ call \in CallRecord
        BY CallState DEF CallPcs
    <2>4. /\ call' \in CallRecord /\ call'.pc = "waiting" /\ call'.attempt = call.attempt
          /\ call'.elapsed = 0 /\ call'.quiet = 0 /\ call'.text = text /\ call'.finished = FALSE
        BY ONLY <2>2, <2>3, Updated, ZenonT(30)
    <2> QED
        BY <2>1, <2>4
<1>4. Len(posts) = call.attempt - 1 /\ \A i \in 1 .. Len(posts) : posts[i] = "error"
    BY <1>1, CallState, SMTT(30) DEF CallInv, PostsInv
<1>5. /\ posts' \in Seq({"open", "answer", "timeout", "error"}) /\ Len(posts') = Len(posts) + 1
      /\ \A i \in 1 .. Len(posts) : posts'[i] = posts[i]
    BY <1>1, CallState, AppendProperties
<1>6. DOMAIN posts' = 1 .. Len(posts')
    BY <1>5, LenProperties
<1>7. PostsInv'
    <2>1. ASSUME NEW i \in 1 .. Len(posts'), i < call.attempt PROVE posts'[i] = "error"
        <3>1. i \in 1 .. Len(posts)
            BY <1>4, <1>5, <2>1, CallState
        <3> QED
            BY <1>4, <1>5, <3>1
    <2>2. Len(posts') = call.attempt
        BY <1>4, <1>5, CallState
    <2> QED
        BY <1>3, <1>6, <2>1, <2>2 DEF PostsInv
<1>8. M!TypeOK' /\ M!Configured'
    BY <1>1, <1>2, <1>3, <1>5, CallState DEF M!TypeOK, M!Configured, CallInv, M!Long
<1>9. TextInv'
    BY <1>1, <1>2, <1>3 DEF TextInv
<1> QED
    BY <1>3, <1>7, <1>8, <1>9 DEF CallInv

LEMMA TickStep == ASSUME CallInv, M!Tick PROVE CallInv'
<1>1. call.pc \in {"waiting", "reading"}
    BY DEF M!Tick
<1>2. CASE call.quiet < Timeout
    <2>1. /\ call' = [call EXCEPT !.quiet = @ + 1, !.elapsed = IF @ = M!Long THEN @ ELSE @ + 1]
          /\ UNCHANGED <<sent, sentinel, posts>>
        BY <1>2 DEF M!Tick, M!response
    <2>2. PICK e : e = IF call.elapsed = M!Long THEN call.elapsed ELSE call.elapsed + 1
        OBVIOUS
    <2>3. PICK w : w = call.quiet + 1
        OBVIOUS
    <2>4. e \in 0 .. M!Long /\ e \in Nat /\ w \in 0 .. Timeout /\ w \in Nat
        <3>1. /\ call.elapsed \in 0 .. M!Long /\ call.quiet \in 0 .. Timeout
              /\ M!Long \in Nat /\ Timeout \in Nat
            BY CallState
        <3>2. e \in 0 .. M!Long /\ e \in Nat
            BY <2>2, <3>1
        <3>3. w \in 0 .. Timeout /\ w \in Nat
            BY <1>2, <2>3, <3>1
        <3> QED
            BY <3>2, <3>3
    <2>5. /\ call' \in CallRecord /\ call'.pc = call.pc /\ call'.attempt = call.attempt
          /\ call'.elapsed = e /\ call'.quiet = w
          /\ call'.text = call.text /\ call'.finished = call.finished
        <3>1. call \in CallRecord /\ call.pc \in CallPcs
            BY CallState DEF CallRecord
        <3>2. PICK pc \in CallPcs, text \in Seq(1 .. Pieces), finished \in BOOLEAN :
                 pc = call.pc /\ text = call.text /\ finished = call.finished
            BY <3>1, CallState
        <3>3. call' = [call EXCEPT !.pc = pc, !.elapsed = e, !.quiet = w,
                                   !.text = text, !.finished = finished]
            <4>1. call' = [call EXCEPT !.quiet = w, !.elapsed = e]
                BY <2>1, <2>2, <2>3
            <4> QED
                BY <3>1, <3>2, <4>1 DEF CallRecord
        <3>4. /\ call' \in CallRecord /\ call'.pc = pc /\ call'.attempt = call.attempt
              /\ call'.elapsed = e /\ call'.quiet = w
              /\ call'.text = text /\ call'.finished = finished
            <4>1. call'.pc = pc /\ call'.attempt = call.attempt /\ call'.elapsed = e
                BY <2>4, <3>1, <3>2, <3>3 DEF CallRecord
            <4>2. call'.quiet = w /\ call'.text = text /\ call'.finished = finished
                BY <2>4, <3>1, <3>2, <3>3 DEF CallRecord
            <4>3. call' \in CallRecord
                BY <2>4, <3>1, <3>2, <3>3 DEF CallRecord
            <4> QED
                BY <4>1, <4>2, <4>3
        <3> QED
            BY <3>2, <3>4
    <2> QED
        BY <1>1, <2>1, <2>4, <2>5, CallState, StreamsOn DEF CallInv, TextInv
<1>3. CASE ~(call.quiet < Timeout)
    BY <1>1, <1>3, TimesOutInv, FailsInv DEF M!Tick
<1> QED
    BY <1>2, <1>3

LEMMA LineStep ==
    ASSUME CallInv, M!Headers \/ M!KeepAlive \/ M!FinishReason PROVE CallInv'
<1>1. ASSUME NEW pc \in {"waiting", "reading"}, NEW finished \in BOOLEAN,
             call.pc \in {"waiting", "reading"}, finished => sent = Pieces,
             call' = [call EXCEPT !.pc = pc, !.quiet = 0, !.finished = finished],
             UNCHANGED <<sent, sentinel, posts>>
      PROVE  CallInv'
    <2>1. /\ call' \in CallRecord /\ call'.pc = pc /\ call'.attempt = call.attempt
          /\ call'.elapsed = call.elapsed /\ call'.quiet = 0
          /\ call'.text = call.text /\ call'.finished = finished
        <3>1. call \in CallRecord /\ call.elapsed \in Nat /\ 0 \in Nat /\ pc \in CallPcs
              /\ call.text \in Seq(1 .. Pieces)
            BY CallState DEF CallRecord, CallPcs
        <3>2. PICK e \in Nat, text \in Seq(1 .. Pieces) : e = call.elapsed /\ text = call.text
            BY <3>1
        <3>3. call' = [call EXCEPT !.pc = pc, !.elapsed = e, !.quiet = 0,
                                   !.text = text, !.finished = finished]
            BY <1>1, <3>1, <3>2 DEF CallRecord
        <3>4. /\ call' \in CallRecord /\ call'.pc = pc /\ call'.attempt = call.attempt
              /\ call'.elapsed = e /\ call'.quiet = 0
              /\ call'.text = text /\ call'.finished = finished
            <4>1. call'.pc = pc /\ call'.attempt = call.attempt /\ call'.elapsed = e
                BY <1>1, <3>1, <3>2, <3>3 DEF CallRecord
            <4>2. call'.quiet = 0 /\ call'.text = text /\ call'.finished = finished
                BY <1>1, <3>1, <3>2, <3>3 DEF CallRecord
            <4>3. call' \in CallRecord
                BY <1>1, <3>1, <3>2, <3>3 DEF CallRecord
            <4> QED
                BY <4>1, <4>2, <4>3
        <3> QED
            BY <3>2, <3>4
    <2> QED
        BY <1>1, <2>1, CallState, StreamsOn DEF CallInv, TextInv
<1>2. call.pc \in {"waiting", "reading"} => (call.finished => sent = Pieces)
    BY DEF CallInv, TextInv
<1>3. CASE M!Headers
    <2>1. CASE call.pc = "waiting" /\ M!Fails
        BY <2>1, FailsInv
    <2>2. CASE /\ call.pc = "waiting" /\ call' = [call EXCEPT !.pc = "reading", !.quiet = 0]
               /\ UNCHANGED <<sent, sentinel, posts>>
        <3>1. call' = [call EXCEPT !.pc = "reading", !.quiet = 0, !.finished = call.finished]
            BY <2>2, CallState DEF CallRecord
        <3> QED
            BY <1>1, <1>2, <2>2, <3>1, CallState
    <2> QED
        BY <1>3, <2>1, <2>2 DEF M!Headers, M!response
<1>4. CASE M!KeepAlive
    <2>1. call.pc = "reading" /\ call' = [call EXCEPT !.quiet = 0] /\ UNCHANGED <<sent, sentinel, posts>>
        BY <1>4 DEF M!KeepAlive, M!response
    <2>2. call' = [call EXCEPT !.pc = "reading", !.quiet = 0, !.finished = call.finished]
        BY <2>1, CallState DEF CallRecord
    <2> QED
        BY <1>1, <1>2, <2>1, <2>2, CallState
<1>5. CASE M!FinishReason
    <2>1. call.pc = "reading" /\ sent = Pieces
        BY <1>5 DEF M!FinishReason, M!Event
    <2>2. CASE M!TimesOut
        BY <2>1, <2>2, TimesOutInv
    <2>3. CASE /\ call' = [call EXCEPT !.finished = TRUE, !.quiet = 0]
               /\ UNCHANGED <<sent, sentinel, posts>>
        <3>1. call' = [call EXCEPT !.pc = "reading", !.quiet = 0, !.finished = TRUE]
            BY <2>1, <2>3, CallState DEF CallRecord
        <3> QED
            BY <1>1, <2>1, <2>3, <3>1
    <2> QED
        BY <1>5, <2>2, <2>3 DEF M!FinishReason, M!Event, M!response
<1> QED
    BY <1>3, <1>4, <1>5

LEMMA PieceStep == ASSUME CallInv, M!Piece PROVE CallInv'
<1>1. sent < Pieces /\ call.pc = "reading"
    BY DEF M!Piece, M!Event
<1>2. CASE M!TimesOut
    BY <1>1, <1>2, TimesOutInv
<1>3. CASE /\ call' = [call EXCEPT !.text = Append(@, sent + 1), !.quiet = 0]
           /\ sent' = sent + 1 /\ UNCHANGED <<sentinel, posts>>
    <2>1. sent + 1 \in 1 .. Pieces /\ sent' \in 0 .. Pieces
        BY <1>1, <1>3, CallState
    <2>2. /\ Append(call.text, sent + 1) \in Seq(1 .. Pieces)
          /\ Len(Append(call.text, sent + 1)) = Len(call.text) + 1
          /\ \A i \in 1 .. Len(call.text) : Append(call.text, sent + 1)[i] = call.text[i]
          /\ Append(call.text, sent + 1)[Len(call.text) + 1] = sent + 1
        BY <2>1, CallState, AppendProperties
    <2>3. Len(call.text) = sent /\ (\A i \in 1 .. sent : call.text[i] = i) /\ ~call.finished
        BY <1>1, CallState DEF CallInv, TextInv
    <2>4. PICK text : text = Append(call.text, sent + 1)
        OBVIOUS
    <2>5. /\ call' \in CallRecord /\ call'.pc = call.pc /\ call'.attempt = call.attempt
          /\ call'.elapsed = call.elapsed /\ call'.quiet = 0
          /\ call'.text = text /\ call'.finished = call.finished
        BY <1>3, <2>2, <2>4, CallState DEF CallRecord
    <2>6. Len(text) = sent' /\ \A i \in 1 .. sent' : text[i] = i
        BY <1>3, <2>2, <2>3, <2>4, CallState, SMTT(30)
    <2> QED
        BY <1>1, <1>3, <2>1, <2>3, <2>5, <2>6, CallState, StreamsOn, SMTT(30)
<1> QED
    BY <1>2, <1>3 DEF M!Piece, M!Event

LEMMA EndStep ==
    ASSUME CallInv, M!Done \/ M!StreamError \/ M!Close \/ M!Broken PROVE CallInv'
<1>1. CASE M!Done
    BY <1>1, AnswersEnd, TimesOutInv DEF M!Done, M!Event
<1>2. CASE M!StreamError
    BY <1>2, FailsInv, TimesOutInv DEF M!StreamError, M!Event
<1>3. CASE M!Close
    <2>1. call.finished => sent = Pieces
        BY <1>3 DEF M!Close, CallInv, TextInv
    <2> QED
        BY <1>3, <2>1, AnswersEnd, FailsInv DEF M!Close, M!Complete
<1>4. CASE M!Broken
    BY <1>4, FailsInv DEF M!Broken
<1> QED
    BY <1>1, <1>2, <1>3, <1>4

LEMMA CallInvariance == M!Configured => (M!Spec => []CallInv)
<1> SUFFICES ASSUME M!Configured PROVE M!Spec => []CallInv
    OBVIOUS
<1>1. M!Init => CallInv
    <2> SUFFICES ASSUME M!Init PROVE CallInv
        OBVIOUS
    <2>1. /\ <<>> \in Seq(1 .. Pieces) /\ <<>> \in Seq({"open", "answer", "timeout", "error"})
          /\ Len(<<>>) = 0
        BY EmptySeq
    <2>2. posts = <<>> /\ sent = 0 /\ sentinel = FALSE /\ DOMAIN posts = {}
        BY DEF M!Init
    <2>3. /\ call.pc = "sleeping" /\ call.attempt = 1 /\ call.elapsed = 0 /\ call.quiet = 0
          /\ call.text = <<>> /\ call.finished = FALSE
        BY DEF M!Init
    <2>4. call \in CallRecord
        BY <2>1 DEF M!Init, CallRecord, CallPcs
    <2>5. /\ Pieces \in Nat /\ 1 \in 1 .. Retries /\ 0 \in 0 .. M!Long /\ 0 \in 0 .. Timeout
          /\ 0 \in 0 .. Pieces
        BY DEF M!Configured, M!Long
    <2>6. M!TypeOK
        BY <2>1, <2>2, <2>3, <2>5 DEF M!TypeOK
    <2>7. TextInv /\ PostsInv
        BY <2>1, <2>2, <2>3 DEF TextInv, PostsInv
    <2> QED
        BY <2>4, <2>6, <2>7 DEF CallInv
<1>2. CallInv /\ [M!Next]_M!vars => CallInv'
    <2> SUFFICES ASSUME CallInv, [M!Next]_M!vars PROVE CallInv'
        OBVIOUS
    <2>1. CASE UNCHANGED M!vars
        BY <2>1 DEF M!vars, M!response, CallInv, M!Configured, M!TypeOK, M!Long, TextInv, PostsInv
    <2>2. CASE M!Next
        BY <2>2, PostStep, TickStep, LineStep, PieceStep, EndStep DEF M!Next
    <2> QED
        BY <2>1, <2>2
<1> QED
    BY <1>1, <1>2, PTL DEF M!Spec

\* Whatever the endpoint does - stalls, breaks off, sends garbage, keeps the line
\* alive - a response that is returned is every piece of one attempt in order, and
\* generate_with_meta asks again only after an error, LLM_RETRIES times at most.
THEOREM CallIsSound == M!Configured => (M!Spec => []M!CallSound)
<1>1. CallInv => M!CallSound
    <2> SUFFICES ASSUME CallInv PROVE M!CallSound
        OBVIOUS
    <2>1. ASSUME call.pc \in {"answered", "out_of_scope"}
          PROVE  call.text = [i \in 1 .. Pieces |-> i]
        <3>1. Len(call.text) = Pieces /\ \A i \in 1 .. Pieces : call.text[i] = i
            BY <2>1 DEF CallInv, TextInv
        <3>2. call.text \in [1 .. Pieces -> 1 .. Pieces]
            BY <3>1, CallState, LenProperties
        <3> QED
            BY <3>1, <3>2
    <2>2. M!AskedAgainOnlyAfterErrors
        BY CallState DEF M!AskedAgainOnlyAfterErrors, CallInv, PostsInv
    <2> QED
        BY <2>1, <2>2 DEF M!CallSound, M!WholeResponse
<1> QED
    BY <1>1, CallInvariance, PTL

\* Types of the call, its attempts and its stream.
THEOREM CallTypeCorrect == M!Configured => (M!Spec => []M!TypeOK)
<1>1. CallInv => M!TypeOK
    BY DEF CallInv
<1> QED
    BY <1>1, CallInvariance, PTL
-----------------------------------------------------------------------------
(* The allowance of a caller.                                              *)

CONSTANTS Identities, Peers, Trusted, Forwarded, NoHeader, Requests, Burst, AuthRequests,
          Window, MaxTracked, MaxTime, MaxSpent
VARIABLES now, buckets, spent, others, promise

L == INSTANCE RateLimit

BucketRec == [key : L!Keys, tokens : Nat, last : Nat]

\* What a source was let through was there when its bucket was last stamped.
Earned(b, s) ==
    s.n * Window + b.tokens <= L!Capacity(b.key) + (b.last - s.since) * L!Rate(b.key)
\* The bucket will have filled up by the time its caller was told to come back.
Due(b, p) == p = L!Never \/ Window <= b.tokens + (p - b.last) * L!Rate(b.key)

LimitTypes ==
    /\ now \in 0 .. MaxTime
    /\ buckets \in Seq(BucketRec) /\ Len(buckets) <= MaxTracked
    /\ \A i, j \in DOMAIN buckets : buckets[i].key = buckets[j].key => i = j
    /\ \A i \in DOMAIN buckets :
        buckets[i].last <= now /\ buckets[i].tokens <= L!Capacity(buckets[i].key)
    /\ spent \in [L!Keys -> [n : Nat, since : Nat]]
    /\ others \in [L!Keys -> SUBSET L!Keys] /\ promise \in [L!Keys -> Nat]
    /\ \A k \in L!Keys : spent[k].since <= now /\ IsFiniteSet(others[k])

\* A key without a bucket has no past, and a bucket's key has seen the keys of
\* the buckets behind it.
LimitInv ==
    /\ L!Configured /\ LimitTypes
    /\ \A k \in L!Keys : L!Tracked(k) \/ (spent[k].n = 0 /\ promise[k] = L!Never)
    /\ \A i \in DOMAIN buckets :
        /\ Earned(buckets[i], spent[buckets[i].key])
        /\ Due(buckets[i], promise[buckets[i].key])
    /\ \A i, j \in DOMAIN buckets : i < j => buckets[j].key \in others[buckets[i].key]

LEMMA Products ==
    /\ \A x, y, r \in Int : (x + y) * r = x * r + y * r /\ x * r \in Int
    /\ \A x, y \in Int, r \in Nat : x <= y => x * r <= y * r
    /\ \A x, r \in Nat : x * r \in Nat
    /\ \A a \in Nat, r \in Nat \ {0} : a \div r \in Nat /\ a <= (a \div r + 1) * r
<1>1. \A x, y, r \in Int : (x + y) * r = x * r + y * r /\ x * r \in Int
    OBVIOUS
<1>2. \A x, y \in Int, r \in Nat : x <= y => x * r <= y * r
    OBVIOUS
<1>3. \A x, r \in Nat : x * r \in Nat
    OBVIOUS
<1>4. \A a \in Nat, r \in Nat \ {0} : a \div r \in Nat
    OBVIOUS
<1>5. \A a \in Int, r \in Nat \ {0} : a < (a \div r + 1) * r
    OBVIOUS
<1>6. \A a \in Nat, r \in Nat \ {0} : a <= (a \div r + 1) * r
    <2> TAKE a \in Nat, r \in Nat \ {0}
    <2>1. a < (a \div r + 1) * r /\ a \div r \in Nat
        BY <1>4, <1>5
    <2>2. (a \div r + 1) * r \in Nat
        BY <1>3, <2>1
    <2> QED
        BY <2>1, <2>2
<1> QED
    BY <1>1, <1>2, <1>3, <1>4, <1>6

LEMMA RateFacts ==
    ASSUME L!Configured, NEW k \in L!Keys
    PROVE  /\ L!Rate(k) \in Nat \ {0} /\ L!Capacity(k) \in Nat /\ Window \in Nat \ {0}
           /\ Window <= L!Capacity(k)
<1>1. L!Rate(k) \in Nat \ {0} /\ Window \in Nat \ {0} /\ Burst \in Nat
    BY DEF L!Configured, L!Rate
<1> DEFINE r == L!Rate(k) + Burst
<1>2. r \in Nat /\ 1 <= r
    BY <1>1
<1>3. L!Capacity(k) = r * Window
    BY DEF L!Capacity
<1> HIDE DEF r
<1>4. r * Window \in Nat /\ 1 * Window <= r * Window
    BY <1>1, <1>2, Products
<1> QED
    BY <1>1, <1>3, <1>4

LEMMA BucketFacts ==
    ASSUME LimitInv
    PROVE  /\ Len(buckets) \in Nat /\ DOMAIN buckets = 1 .. Len(buckets)
           /\ \A i \in 1 .. Len(buckets) :
                /\ buckets[i] \in BucketRec /\ buckets[i].key \in L!Keys
                /\ buckets[i].tokens \in Nat /\ buckets[i].last \in Nat
           /\ MaxTracked \in Nat \ {0} /\ now \in Nat
           /\ \A k : L!Tracked(k) <=> \E i \in 1 .. Len(buckets) : buckets[i].key = k
<1>1. Len(buckets) \in Nat /\ DOMAIN buckets = 1 .. Len(buckets)
      /\ \A i \in 1 .. Len(buckets) : buckets[i] \in BucketRec
    BY LenProperties, ElementOfSeq DEF LimitInv, LimitTypes
<1>2. \A b \in BucketRec : b.key \in L!Keys /\ b.tokens \in Nat /\ b.last \in Nat
    BY DEF BucketRec
<1>3. MaxTracked \in Nat \ {0} /\ now \in Nat
    BY DEF LimitInv, LimitTypes, L!Configured
<1>4. \A k : L!Tracked(k) <=> \E i \in 1 .. Len(buckets) : buckets[i].key = k
    BY <1>1 DEF L!Tracked, L!Positions
<1> QED
    BY <1>1, <1>2, <1>3, <1>4

\* The bucket a request finds or gets; the one its key displaces, if any; and
\* where the others were.
Found(key) == IF L!Tracked(key) THEN L!Bucket(key)
              ELSE [key |-> key, tokens |-> L!Capacity(key), last |-> now]
Cut(key) == IF L!Tracked(key) THEN L!Place(key)
            ELSE IF Len(buckets) >= MaxTracked THEN 1 ELSE Len(buckets) + 1
Fewer(key) == IF Cut(key) <= Len(buckets) THEN Len(buckets) - 1 ELSE Len(buckets)
From(key, i) == IF i < Cut(key) THEN i ELSE i + 1

LEMMA CutFacts ==
    ASSUME LimitInv, NEW key \in L!Keys
    PROVE  /\ Cut(key) \in 1 .. Len(buckets) + 1 /\ Fewer(key) \in Nat
           /\ Fewer(key) + 1 <= MaxTracked
           /\ \A i \in 1 .. Fewer(key) : From(key, i) \in 1 .. Len(buckets) /\ From(key, i) # Cut(key)
           /\ \A i, j \in 1 .. Fewer(key) : i < j => From(key, i) < From(key, j)
           /\ \A j \in 1 .. Len(buckets) : j # Cut(key) => \E i \in 1 .. Fewer(key) : From(key, i) = j
           /\ L!Tracked(key) => Cut(key) <= Len(buckets) /\ buckets[Cut(key)].key = key
           /\ ~L!Tracked(key) /\ Cut(key) <= Len(buckets)
              => Cut(key) = 1 /\ Len(buckets) = MaxTracked
<1> DEFINE n == Len(buckets)
           p == Cut(key)
<1>1. n \in Nat /\ n <= MaxTracked /\ MaxTracked \in Nat \ {0}
    BY BucketFacts DEF LimitInv, LimitTypes
<1>2. L!Tracked(key) => p \in 1 .. n /\ buckets[p].key = key
    <2> SUFFICES ASSUME L!Tracked(key) PROVE p \in 1 .. n /\ buckets[p].key = key
        OBVIOUS
    <2>1. \E i \in L!Positions(key) : TRUE
        BY DEF L!Tracked
    <2>2. L!Place(key) \in L!Positions(key)
        BY <2>1 DEF L!Place
    <2> QED
        BY <2>2, BucketFacts DEF Cut, L!Positions
<1>3. ~L!Tracked(key) => p = (IF n >= MaxTracked THEN 1 ELSE n + 1)
    BY DEF Cut
<1> HIDE DEF p, n
<1>4. p \in 1 .. n + 1
    BY <1>1, <1>2, <1>3
<1>5. ~L!Tracked(key) /\ p <= n => p = 1 /\ n = MaxTracked
    BY <1>1, <1>3
<1>6. Fewer(key) = IF p <= n THEN n - 1 ELSE n
    BY DEF Fewer, p, n
<1>7. Fewer(key) \in Nat /\ Fewer(key) + 1 <= MaxTracked
    BY <1>1, <1>2, <1>3, <1>4, <1>6
<1>8. \A i : From(key, i) = IF i < p THEN i ELSE i + 1
    BY DEF From, p
<1>9. \A i \in 1 .. Fewer(key) : From(key, i) \in 1 .. n /\ From(key, i) # p
    BY <1>1, <1>4, <1>6, <1>8
<1>10. \A i, j \in 1 .. Fewer(key) : i < j => From(key, i) < From(key, j)
    BY <1>1, <1>4, <1>6, <1>8
<1>11. ASSUME NEW j \in 1 .. n, j # p PROVE \E i \in 1 .. Fewer(key) : From(key, i) = j
    <2>1. CASE j < p
        <3>1. j \in 1 .. Fewer(key) /\ From(key, j) = j
            BY <1>1, <1>4, <1>6, <1>8, <1>11, <2>1
        <3> QED
            BY <3>1
    <2>2. CASE j > p
        <3>1. j - 1 \in 1 .. Fewer(key) /\ From(key, j - 1) = j
            BY <1>1, <1>4, <1>6, <1>8, <1>11, <2>2
        <3> QED
            BY <3>1
    <2> QED
        BY <1>4, <1>11, <2>1, <2>2
<1> QED
    BY <1>2, <1>4, <1>5, <1>7, <1>9, <1>10, <1>11 DEF p, n

LEMMA SliceFacts ==
    ASSUME LimitInv, NEW m \in 1 .. Len(buckets) + 1, NEW n \in 0 .. Len(buckets), m <= n + 1
    PROVE  /\ SubSeq(buckets, m, n) \in Seq(BucketRec) /\ Len(SubSeq(buckets, m, n)) = n - m + 1
           /\ \A i \in 1 .. n - m + 1 : SubSeq(buckets, m, n)[i] = buckets[m + i - 1]
<1>1. buckets \in Seq(BucketRec) /\ Len(buckets) \in Nat
    BY BucketFacts DEF LimitInv, LimitTypes
<1>2. m \in 1 .. Len(buckets) + 1 /\ n \in m - 1 .. Len(buckets)
    BY <1>1
<1> QED
    BY <1>1, <1>2, SubSeqProperties

\* The other buckets in their order, and that of the request at the end.
LEMMA TouchedIs ==
    ASSUME LimitInv, NEW key \in L!Keys, NEW t, t = L!Touched(key),
           NEW n, n = Fewer(key) + 1
    PROVE  /\ t \in Seq(BucketRec) /\ Len(t) = n /\ t[n] = Found(key)
           /\ \A i \in 1 .. Fewer(key) : t[i] = buckets[From(key, i)]
<1> DEFINE b == Len(buckets)
           p == Cut(key)
           old == Found(key)
<1>1. /\ b \in Nat /\ p \in 1 .. b + 1 /\ Fewer(key) \in Nat /\ DOMAIN buckets = 1 .. b
      /\ buckets \in Seq(BucketRec) /\ \A i \in 1 .. b : buckets[i] \in BucketRec
    BY CutFacts, BucketFacts DEF LimitInv, LimitTypes
<1>2. old \in BucketRec
    <2>1. CASE L!Tracked(key)
        <3>1. old = buckets[p] /\ p \in 1 .. b
            BY <1>1, <2>1, CutFacts DEF Found, Cut, L!Bucket
        <3> QED
            BY <1>1, <3>1
    <2>2. CASE ~L!Tracked(key)
        <3>1. L!Capacity(key) \in Nat /\ now \in Nat
            BY RateFacts, BucketFacts DEF LimitInv
        <3> QED
            BY <2>2, <3>1 DEF Found, BucketRec
    <2> QED
        BY <2>1, <2>2
<1>3. \E room \in Seq(BucketRec) :
        /\ Len(room) = Fewer(key) /\ L!Touched(key) = Append(room, old)
        /\ \A i \in 1 .. Fewer(key) : room[i] = buckets[From(key, i)]
    <2>1. CASE L!Tracked(key)
        <3> DEFINE l == SubSeq(buckets, 1, p - 1)
                   r == SubSeq(buckets, p + 1, b)
        <3>1. p = L!Place(key) /\ p \in 1 .. b
            BY <1>1, <2>1, CutFacts DEF Cut
        <3>2. L!Touched(key) = Append(l \o r, old)
            BY <2>1, <3>1 DEF L!Touched, L!Without, Found
        <3> HIDE DEF p, b, old
        <3>3. /\ 1 \in 1 .. b + 1 /\ p - 1 \in 0 .. b /\ 1 <= p - 1 + 1 /\ p - 1 - 1 + 1 = p - 1
              /\ p + 1 \in 1 .. b + 1 /\ b \in 0 .. b /\ p + 1 <= b + 1 /\ b - (p + 1) + 1 = b - p
            BY <1>1, <3>1
        <3>4. /\ l \in Seq(BucketRec) /\ Len(l) = p - 1
              /\ \A i \in 1 .. p - 1 : l[i] = buckets[1 + i - 1]
            BY <3>3, SliceFacts DEF b
        <3>5. /\ r \in Seq(BucketRec) /\ Len(r) = b - p
              /\ \A i \in 1 .. b - p : r[i] = buckets[p + 1 + i - 1]
            BY <3>3, SliceFacts DEF b
        <3> HIDE DEF l, r
        <3>6. /\ l \o r \in Seq(BucketRec) /\ Len(l \o r) = Len(l) + Len(r)
              /\ \A i \in 1 .. Len(l) + Len(r) :
                    (l \o r)[i] = IF i <= Len(l) THEN l[i] ELSE r[i - Len(l)]
            BY <3>4, <3>5, ConcatProperties
        <3>7. Fewer(key) = b - 1
            BY <1>1, <3>1 DEF Fewer, p, b
        <3>8. Len(l \o r) = Fewer(key)
            BY <1>1, <3>1, <3>4, <3>5, <3>6, <3>7
        <3>9. ASSUME NEW i \in 1 .. Fewer(key) PROVE (l \o r)[i] = buckets[From(key, i)]
            <4>1. CASE i < p
                <5>1. i \in 1 .. p - 1 /\ i <= Len(l) /\ 1 + i - 1 = i /\ i \in 1 .. Len(l) + Len(r)
                    BY <1>1, <3>1, <3>4, <3>5, <3>7, <4>1
                <5> QED
                    BY <3>4, <3>6, <4>1, <5>1 DEF From, p
            <4>2. CASE ~(i < p)
                <5>0. /\ i \in 1 .. b - 1 /\ Len(l) + Len(r) = b - 1 /\ Len(l) = p - 1
                      /\ b \in Nat /\ p \in 1 .. b /\ p <= i
                    BY <1>1, <3>1, <3>4, <3>5, <3>7, <4>2
                <5>1. /\ i - (p - 1) \in 1 .. b - p /\ ~(i <= p - 1)
                      /\ p + 1 + (i - (p - 1)) - 1 = i + 1
                    BY <5>0
                <5>2. (l \o r)[i] = r[i - (p - 1)]
                    BY <3>6, <5>0, <5>1
                <5>3. r[i - (p - 1)] = buckets[i + 1]
                    BY <3>5, <5>1
                <5>4. From(key, i) = i + 1
                    BY <4>2 DEF From, p
                <5> QED
                    BY <5>2, <5>3, <5>4
            <4> QED
                BY <4>1, <4>2
        <3> QED
            BY <3>2, <3>6, <3>4, <3>5, <3>8, <3>9
    <2>2. CASE ~L!Tracked(key) /\ b >= MaxTracked
        <3>1. p = 1 /\ b >= 1 /\ MaxTracked \in Nat \ {0}
            BY <1>1, <2>2, BucketFacts DEF Cut
        <3>2. L!Touched(key) = Append(Tail(buckets), old)
            BY <2>2 DEF L!Touched, Found
        <3>3. buckets # <<>>
            BY <1>1, <3>1
        <3>4. /\ Tail(buckets) \in Seq(BucketRec) /\ Len(Tail(buckets)) = b - 1
              /\ \A i \in 1 .. b - 1 : Tail(buckets)[i] = buckets[i + 1]
            BY <1>1, <3>3, HeadTailProperties
        <3>5. Fewer(key) = b - 1 /\ \A i \in 1 .. b - 1 : From(key, i) = i + 1
            <4>1. Fewer(key) = b - 1
                BY <1>1, <3>1 DEF Fewer
            <4> HIDE DEF b
            <4>2. \A i \in 1 .. b - 1 : From(key, i) = i + 1
                BY <1>1, <3>1 DEF From
            <4> QED
                BY <4>1, <4>2
        <3> HIDE DEF b
        <3>6. \A i \in 1 .. Fewer(key) : Tail(buckets)[i] = buckets[From(key, i)]
            BY <3>4, <3>5
        <3> QED
            BY <3>2, <3>4, <3>5, <3>6
    <2>3. CASE ~L!Tracked(key) /\ ~(b >= MaxTracked)
        <3>1. L!Touched(key) = Append(buckets, old)
            BY <2>3 DEF L!Touched, Found
        <3>2. p = b + 1 /\ Fewer(key) = b
            <4>1. p = b + 1
                BY <2>3 DEF Cut
            <4>2. ~(p <= b)
                BY <1>1, <4>1
            <4> QED
                BY <4>1, <4>2 DEF Fewer
        <3>3. \A i \in 1 .. b : From(key, i) = i
            BY <1>1, <3>2 DEF From
        <3> QED
            BY <1>1, <3>1, <3>2, <3>3
    <2> QED
        BY <2>1, <2>2, <2>3
<1>4. PICK room \in Seq(BucketRec) :
        /\ Len(room) = Fewer(key) /\ t = Append(room, old)
        /\ \A i \in 1 .. Fewer(key) : room[i] = buckets[From(key, i)]
    BY <1>3
<1> HIDE DEF old
<1>5. /\ t \in Seq(BucketRec) /\ Len(t) = Len(room) + 1
      /\ \A i \in 1 .. Len(room) : t[i] = room[i]
      /\ t[Len(room) + 1] = old
    BY <1>2, <1>4, AppendProperties
<1> QED
    BY <1>4, <1>5 DEF old

LEMMA OtherKeys ==
    ASSUME LimitInv, NEW key \in L!Keys, NEW i \in 1 .. Fewer(key)
    PROVE  /\ From(key, i) \in 1 .. Len(buckets) /\ buckets[From(key, i)].key # key
<1>1. From(key, i) \in 1 .. Len(buckets) /\ From(key, i) # Cut(key)
    BY CutFacts
<1>2. CASE L!Tracked(key)
    <2>1. Cut(key) \in 1 .. Len(buckets) /\ buckets[Cut(key)].key = key
        BY <1>2, CutFacts, BucketFacts
    <2>2. DOMAIN buckets = 1 .. Len(buckets)
        BY BucketFacts
    <2> QED
        BY <1>1, <2>1, <2>2 DEF LimitInv, LimitTypes
<1>3. CASE ~L!Tracked(key)
    BY <1>1, <1>3, BucketFacts
<1> QED
    BY <1>1, <1>2, <1>3

LEMMA RefilledIs ==
    ASSUME L!Configured, now \in Nat, NEW b \in BucketRec, b.last <= now
    PROVE  /\ L!Refilled(b) \in Nat /\ L!Refilled(b) <= L!Capacity(b.key)
           /\ L!Refilled(b) <= b.tokens + (now - b.last) * L!Rate(b.key)
           /\ \/ L!Refilled(b) = L!Capacity(b.key)
              \/ L!Refilled(b) = b.tokens + (now - b.last) * L!Rate(b.key)
<1> DEFINE c == L!Capacity(b.key)
           e == (now - b.last) * L!Rate(b.key)
<1>1. b.key \in L!Keys /\ b.tokens \in Nat /\ b.last \in Nat
    BY DEF BucketRec
<1>2. c \in Nat /\ L!Rate(b.key) \in Nat
    BY <1>1, RateFacts
<1>3. now - b.last \in Nat
    BY <1>1
<1>4. e \in Nat
    BY <1>2, <1>3, Products
<1>5. L!Refilled(b) = IF c < b.tokens + e THEN c ELSE b.tokens + e
    BY DEF L!Refilled, L!Least
<1> HIDE DEF c, e
<1>6. /\ L!Refilled(b) \in Nat /\ L!Refilled(b) <= c /\ L!Refilled(b) <= b.tokens + e
      /\ L!Refilled(b) = c \/ L!Refilled(b) = b.tokens + e
    BY <1>1, <1>2, <1>4, <1>5
<1> QED
    BY <1>6 DEF c, e

LEMMA FoundFacts ==
    ASSUME LimitInv, NEW key \in L!Keys
    PROVE  /\ Found(key) \in BucketRec /\ Found(key).key = key /\ Found(key).last <= now
           /\ Found(key).tokens <= L!Capacity(key)
           /\ Earned(Found(key), spent[key])
           /\ L!Tracked(key) => Due(Found(key), promise[key])
<1>1. CASE L!Tracked(key)
    <2>1. Found(key) = buckets[Cut(key)] /\ Cut(key) \in 1 .. Len(buckets)
          /\ buckets[Cut(key)].key = key
        BY <1>1, CutFacts, BucketFacts DEF Found, Cut, L!Bucket
    <2>2. DOMAIN buckets = 1 .. Len(buckets) /\ buckets[Cut(key)] \in BucketRec
        BY <2>1, BucketFacts
    <2> QED
        BY <2>1, <2>2 DEF LimitInv, LimitTypes
<1>2. CASE ~L!Tracked(key)
    <2> DEFINE c == L!Capacity(key)
               s == spent[key]
    <2>1. Found(key) = [key |-> key, tokens |-> c, last |-> now]
        BY <1>2 DEF Found
    <2>2. c \in Nat /\ now \in Nat /\ L!Rate(key) \in Nat /\ Window \in Nat
        BY RateFacts, BucketFacts DEF LimitInv
    <2>3. s.n = 0 /\ s.since \in Nat /\ s.since <= now
        BY <1>2 DEF LimitInv, LimitTypes
    <2>4. Found(key) \in BucketRec /\ Found(key).key = key /\ Found(key).last = now
          /\ Found(key).tokens = c
        BY <2>1, <2>2 DEF BucketRec
    <2>5. (now - s.since) * L!Rate(key) \in Nat /\ 0 * Window = 0
        <3>1. now - s.since \in Nat
            BY <2>2, <2>3
        <3> QED
            BY <2>2, <3>1, Products
    <2> HIDE DEF c, s
    <2>6. s.n * Window + c <= c + (now - s.since) * L!Rate(key)
        BY <2>2, <2>3, <2>5
    <2>7. Earned(Found(key), s)
        BY <2>4, <2>6 DEF Earned, c
    <2>8. now <= now /\ c <= c
        BY <2>2
    <2> QED
        BY <1>2, <2>4, <2>7, <2>8 DEF c, s
<1> QED
    BY <1>1, <1>2

\* _consume: the request's bucket is the last one, stamped and charged.
LEMMA ConsumeIs ==
    ASSUME LimitInv, NEW key \in L!Keys, NEW c, c = L!Consume(key),
           NEW n, n = Fewer(key) + 1
    PROVE  /\ c.tokens = L!Refilled(Found(key)) /\ c.allowed = (c.tokens >= Window)
           /\ c.buckets \in Seq(BucketRec) /\ Len(c.buckets) = n
           /\ c.buckets[n].key = key /\ c.buckets[n].last = now
           /\ c.buckets[n].tokens = IF c.allowed THEN c.tokens - Window ELSE c.tokens
           /\ c.buckets[n].tokens \in Nat /\ c.buckets[n].tokens <= L!Capacity(key)
           /\ \A i \in 1 .. Fewer(key) : c.buckets[i] = buckets[From(key, i)]
<1> DEFINE t == L!Touched(key)
           x == L!Refilled(Found(key))
           i == L!At(t, key)
           new == [key |-> key, last |-> now, tokens |-> IF x >= Window THEN x - Window ELSE x]
<1>1. /\ t \in Seq(BucketRec) /\ Len(t) = n /\ t[n] = Found(key)
      /\ \A j \in 1 .. Fewer(key) : t[j] = buckets[From(key, j)]
    BY TouchedIs
<1>2. Found(key).key = key /\ n \in Nat \ {0} /\ Fewer(key) \in Nat
    BY FoundFacts, CutFacts
<1>3. c = [allowed |-> L!Refilled(t[i]) >= Window, tokens |-> L!Refilled(t[i]),
           buckets |-> [t EXCEPT ![i] =
             [key |-> key, last |-> now,
              tokens |-> IF L!Refilled(t[i]) >= Window THEN L!Refilled(t[i]) - Window
                         ELSE L!Refilled(t[i])]]]
    BY DEF L!Consume
<1> HIDE DEF t
<1>4. DOMAIN t = 1 .. n
    BY <1>1, LenProperties
<1>5. i = n
    <2>1. n \in DOMAIN t /\ t[n].key = key
        BY <1>1, <1>2, <1>4
    <2>2. \A j \in DOMAIN t : t[j].key = key => j = n
        <3> SUFFICES ASSUME NEW j \in DOMAIN t, j # n PROVE t[j].key # key
            OBVIOUS
        <3>1. j \in 1 .. Fewer(key)
            BY <1>2, <1>4
        <3> QED
            BY <1>1, <3>1, OtherKeys
    <2> QED
        BY <2>1, <2>2 DEF L!At
<1> HIDE DEF i
<1>6. t[i] = Found(key)
    BY <1>1, <1>5
<1>7. c.allowed = (x >= Window) /\ c.tokens = x /\ c.buckets = [t EXCEPT ![n] = new]
    BY <1>3, <1>5, <1>6
<1>8. x \in Nat /\ x <= L!Capacity(key) /\ Window \in Nat /\ L!Capacity(key) \in Nat
    BY FoundFacts, RefilledIs, RateFacts, BucketFacts DEF LimitInv
<1> HIDE DEF x
<1>9. new.tokens \in Nat /\ new.tokens <= L!Capacity(key)
    BY <1>8
<1>10. new \in BucketRec /\ new.key = key /\ new.last = now
    BY <1>9, BucketFacts DEF BucketRec
<1>11. new.tokens = IF c.allowed THEN c.tokens - Window ELSE c.tokens
    BY <1>7
<1> HIDE DEF new
<1>12. /\ c.buckets \in Seq(BucketRec) /\ Len(c.buckets) = n /\ c.buckets[n] = new
       /\ \A j \in 1 .. Fewer(key) : c.buckets[j] = t[j]
    <2>1. n \in 1 .. Len(t)
        BY <1>1, <1>2
    <2>2. c.buckets \in Seq(BucketRec) /\ Len(c.buckets) = n
        BY <1>1, <1>7, <1>10, <2>1, ExceptSeq
    <2>3. c.buckets[n] = new
        BY <1>4, <1>7, <1>2
    <2>4. ASSUME NEW j \in 1 .. Fewer(key) PROVE c.buckets[j] = t[j]
        <3>1. j \in 1 .. n /\ j # n
            BY <1>2
        <3> QED
            BY <1>4, <1>7, <3>1
    <2> QED
        BY <2>2, <2>3, <2>4
<1> QED
    BY <1>1, <1>7, <1>9, <1>10, <1>11, <1>12 DEF x

\* Whether the request is let through or told when to come back.
LEMMA Charged ==
    ASSUME LimitInv, NEW key \in L!Keys, NEW x, x = L!Refilled(Found(key)),
           NEW nb \in BucketRec, nb.key = key, nb.last = now
    PROVE  /\ x >= Window /\ nb.tokens = x - Window
              => Earned(nb, [spent[key] EXCEPT !.n = @ + 1])
           /\ nb.tokens = x => Earned(nb, spent[key])
           /\ x < Window /\ nb.tokens = x
              => Due(nb, L!Least(L!Never, now + L!RetryAfter(x, key)))
           /\ x < Window => L!Least(L!Never, now + L!RetryAfter(x, key)) \in Nat
<1> DEFINE b == Found(key)
           s == spent[key]
           r == L!Rate(key)
           c == L!Capacity(key)
           q == L!RetryAfter(x, key)
<1>1. /\ b \in BucketRec /\ b.key = key /\ b.last <= now /\ Earned(b, s)
      /\ b.tokens \in Nat /\ b.last \in Nat /\ now \in Nat
    BY FoundFacts, BucketFacts DEF BucketRec
<1>2. r \in Nat \ {0} /\ c \in Nat /\ Window \in Nat \ {0}
    BY RateFacts DEF LimitInv
<1>3. s \in [n : Nat, since : Nat] /\ s.n \in Nat /\ s.since \in Nat
    BY DEF LimitInv, LimitTypes
<1>4. x \in Nat /\ x <= b.tokens + (now - b.last) * r
    BY <1>1, RefilledIs DEF LimitInv
<1>5. s.n * Window + b.tokens <= c + (b.last - s.since) * r
    BY <1>1 DEF Earned
<1> HIDE DEF b, r, c, s
<1>6. (b.last - s.since) * r + (now - b.last) * r = (now - s.since) * r
    <2>1. b.last - s.since \in Int /\ now - b.last \in Int /\ r \in Int
          /\ (b.last - s.since) + (now - b.last) = now - s.since
        BY <1>1, <1>2, <1>3
    <2> QED
        BY <2>1, Products
<1>7. s.n * Window + x <= c + (now - s.since) * r
    <2>1. /\ s.n * Window \in Int /\ (b.last - s.since) * r \in Int /\ (now - b.last) * r \in Int
          /\ (now - s.since) * r \in Int
        <3>1. /\ s.n \in Int /\ Window \in Int /\ b.last - s.since \in Int /\ now - b.last \in Int
              /\ now - s.since \in Int /\ r \in Int
            BY <1>1, <1>2, <1>3
        <3> QED
            BY <3>1, Products
    <2> QED
        BY <1>1, <1>2, <1>4, <1>5, <1>6, <2>1
<1>8. ASSUME x >= Window, nb.tokens = x - Window
      PROVE  Earned(nb, [s EXCEPT !.n = @ + 1])
    <2>1. (s.n + 1) * Window = s.n * Window + Window /\ s.n * Window \in Nat
        <3>1. 1 * Window = Window /\ s.n \in Int /\ 1 \in Int /\ Window \in Int
            BY <1>2, <1>3
        <3> QED
            BY <1>2, <1>3, <3>1, Products
    <2>2. (s.n + 1) * Window + nb.tokens = s.n * Window + x
        BY <1>2, <1>4, <1>8, <2>1
    <2>3. [s EXCEPT !.n = @ + 1].n = s.n + 1 /\ [s EXCEPT !.n = @ + 1].since = s.since
        BY <1>3
    <2> QED
        BY <1>7, <2>2, <2>3 DEF Earned, r, c
<1>9. ASSUME nb.tokens = x PROVE Earned(nb, s)
    BY <1>7, <1>9 DEF Earned, r, c
<1>10. x < Window => q \in Nat /\ Window <= x + q * r
    <2> SUFFICES ASSUME x < Window PROVE q \in Nat /\ Window <= x + q * r
        OBVIOUS
    <2>1. Window - x \in Nat
        BY <1>2, <1>4
    <2>2. (Window - x) \div r \in Nat /\ Window - x <= ((Window - x) \div r + 1) * r
        BY <1>2, <2>1, Products
    <2>3. q = (Window - x) \div r + 1
        BY DEF L!RetryAfter, r
    <2> HIDE DEF q
    <2>4. q \in Nat
        BY <2>2, <2>3
    <2>5. q * r \in Nat /\ Window - x <= q * r
        BY <1>2, <2>2, <2>3, <2>4, Products
    <2> QED
        BY <1>2, <1>4, <2>4, <2>5
<1> HIDE DEF q
<1>11. L!Least(L!Never, now + q) = IF L!Never < now + q THEN L!Never ELSE now + q
    BY DEF L!Least
<1>12. L!Never \in Nat
    BY <1>2 DEF L!Never, L!Configured, LimitInv
<1>13. x < Window => L!Least(L!Never, now + q) \in Nat
    BY <1>1, <1>10, <1>11, <1>12
<1>14. ASSUME x < Window, nb.tokens = x PROVE Due(nb, L!Least(L!Never, now + q))
    <2>1. CASE L!Never < now + q
        BY <1>11, <2>1 DEF Due
    <2>2. CASE ~(L!Never < now + q)
        <3>1. PICK d \in Nat : d = now + q
            BY <1>1, <1>10, <1>14
        <3>2. d - nb.last = q
            BY <1>1, <1>10, <1>14, <3>1
        <3>3. Window <= nb.tokens + (d - nb.last) * r
            BY <1>10, <1>14, <3>2
        <3>4. Due(nb, d)
            BY <3>3 DEF Due, r
        <3> QED
            BY <1>11, <2>2, <3>1, <3>4
    <2> QED
        BY <2>1, <2>2
<1> QED
    BY <1>8, <1>9, <1>13, <1>14 DEF s, q

\* A displaced key had seen the keys of all buckets, and that of the request.
Forgets == \A k \in L!Keys : L!Tracked(k) /\ ~L!Tracked(k)' => Cardinality(others'[k]) >= MaxTracked

LEMMA Displaced ==
    ASSUME LimitInv, Len(buckets) = MaxTracked, NEW key \in L!Keys, ~L!Tracked(key)
    PROVE  Cardinality(others[buckets[1].key] \cup {key}) >= MaxTracked
<1> DEFINE n == Len(buckets)
           all == others[buckets[1].key] \cup {key}
           f == [i \in 1 .. n |-> IF i = 1 THEN key ELSE buckets[i].key]
<1>1. n \in Nat \ {0} /\ n = MaxTracked /\ DOMAIN buckets = 1 .. n
    BY BucketFacts
<1>2. /\ 1 \in 1 .. n /\ buckets[1].key \in L!Keys
      /\ \A i \in 1 .. n : buckets[i].key # key
    BY <1>1, BucketFacts
<1>3. IsFiniteSet(others[buckets[1].key])
    BY <1>2 DEF LimitInv, LimitTypes
<1>4. IsFiniteSet(all)
    BY <1>3, FS_AddElement
<1>5. f \in Injection(1 .. n, all)
    <2>1. \A i \in 1 .. n : i # 1 => buckets[i].key \in others[buckets[1].key]
        BY <1>1, <1>2 DEF LimitInv
    <2>2. f \in [1 .. n -> all]
        BY <2>1
    <2>3. \A i, j \in 1 .. n : f[i] = f[j] => i = j
        BY <1>1, <1>2 DEF LimitInv, LimitTypes
    <2> HIDE DEF f, all, n
    <2> QED
        BY <2>2, <2>3 DEF Injection, IsInjective
<1> HIDE DEF f, all
<1>6. Cardinality(1 .. n) <= Cardinality(all)
    BY <1>4, <1>5, FS_Injection
<1>7. Cardinality(1 .. n) = n
    BY <1>1, FS_Interval
<1> QED
    BY <1>1, <1>6, <1>7 DEF all

LEMMA RequestInv ==
    ASSUME LimitInv, NEW id \in Identities, NEW peer \in Peers,
           NEW header \in Forwarded \cup {NoHeader}, L!Request(id, peer, header)
    PROVE  LimitInv' /\ Forgets
<1> DEFINE key == L!BucketKey(id, peer, header)
           c == L!Consume(key)
           n == Fewer(key) + 1
           kept == {buckets'[i].key : i \in DOMAIN buckets'}
           lost == {k \in L!Keys : L!Tracked(k)} \ kept
           due == L!Least(L!Never, now + L!RetryAfter(c.tokens, key))
<1>1. key \in L!Keys /\ L!Source(id, peer, header) = key
    <2>1. id \in L!Everyone \cap Identities
        BY DEF LimitInv, L!Configured
    <2>2. L!ClientIp(peer, header) \in L!Ips
        BY DEF L!ClientIp, L!Ips
    <2> QED
        BY <2>1, <2>2 DEF L!BucketKey, L!Keys, L!Source, L!ClientIp
<1>2. /\ buckets' = c.buckets /\ now' = now
      /\ others' = [k \in L!Keys |-> IF k = key \/ ~L!Tracked(k) THEN {} ELSE others[k] \cup {key}]
      /\ spent' = [k \in L!Keys |->
            IF k \in lost THEN [n |-> 0, since |-> now]
            ELSE IF k = key /\ c.allowed THEN [spent[k] EXCEPT !.n = @ + 1] ELSE spent[k]]
      /\ promise' = [k \in L!Keys |->
            IF k \in lost \/ (k = key /\ c.allowed) THEN L!Never
            ELSE IF k = key THEN due ELSE promise[k]]
    BY <1>1 DEF L!Request, L!Charge
<1> HIDE DEF key
<1>3. /\ c.tokens = L!Refilled(Found(key)) /\ c.allowed = (c.tokens >= Window)
      /\ buckets' \in Seq(BucketRec) /\ Len(buckets') = n
      /\ buckets'[n].key = key /\ buckets'[n].last = now
      /\ buckets'[n].tokens = IF c.allowed THEN c.tokens - Window ELSE c.tokens
      /\ buckets'[n].tokens \in Nat /\ buckets'[n].tokens <= L!Capacity(key)
      /\ \A i \in 1 .. Fewer(key) : buckets'[i] = buckets[From(key, i)]
    BY <1>1, <1>2, ConsumeIs
<1>4. /\ n \in Nat \ {0} /\ n <= MaxTracked /\ Fewer(key) = n - 1 /\ DOMAIN buckets' = 1 .. n
      /\ DOMAIN buckets = 1 .. Len(buckets)
      /\ \A i \in 1 .. n : i # n => i \in 1 .. Fewer(key)
    <2>1. Fewer(key) \in Nat /\ Fewer(key) + 1 <= MaxTracked
        BY <1>1, CutFacts
    <2>2. DOMAIN buckets' = 1 .. n
        BY <1>3, <2>1, LenProperties
    <2> QED
        BY <2>1, <2>2, BucketFacts
<1> HIDE DEF c, n
<1>5. \A i \in 1 .. n : i # n =>
        /\ i \in 1 .. Fewer(key) /\ From(key, i) \in 1 .. Len(buckets)
        /\ buckets'[i] = buckets[From(key, i)] /\ buckets'[i].key # key
        /\ buckets'[i].key \in L!Keys /\ L!Tracked(buckets'[i].key)
    BY <1>1, <1>3, <1>4, OtherKeys, BucketFacts
<1>6. \A k : L!Tracked(k)' <=> \E i \in 1 .. n : buckets'[i].key = k
    BY <1>4 DEF L!Tracked, L!Positions
<1>7. \A k : k \in kept <=> \E i \in 1 .. n : buckets'[i].key = k
    BY <1>4
<1>8. /\ \A i \in 1 .. n : buckets'[i].key \in kept /\ buckets'[i].key \notin lost
      /\ key \in kept /\ key \notin lost
    BY <1>3, <1>4, <1>7
<1>9. \A k \in L!Keys : k \in lost <=> L!Tracked(k) /\ k \notin kept
    OBVIOUS
<1> HIDE DEF kept, lost
<1>10. \A i, j \in 1 .. n : buckets'[i].key = buckets'[j].key => i = j
    <2> SUFFICES ASSUME NEW i \in 1 .. n, NEW j \in 1 .. n, i < j
                 PROVE  buckets'[i].key # buckets'[j].key
        BY <1>4
    <2>1. i # n
        BY <1>4
    <2>2. CASE j = n
        BY <1>3, <1>5, <2>1, <2>2
    <2>3. CASE j # n
        <3>1. From(key, i) < From(key, j)
            BY <1>1, <1>5, <2>1, <2>3, CutFacts
        <3>2. From(key, i) \in 1 .. Len(buckets) /\ From(key, j) \in 1 .. Len(buckets)
            BY <1>5, <2>1, <2>3
        <3>3. From(key, i) # From(key, j)
            BY <3>1, <3>2
        <3> QED
            BY <1>4, <1>5, <2>1, <2>3, <3>2, <3>3 DEF LimitInv, LimitTypes
    <2> QED
        BY <2>2, <2>3
<1>11. \A k \in L!Keys : k \in lost =>
            ~L!Tracked(key) /\ Len(buckets) = MaxTracked /\ buckets[1].key = k /\ k # key
    <2> SUFFICES ASSUME NEW k \in L!Keys, k \in lost
                 PROVE  ~L!Tracked(key) /\ Len(buckets) = MaxTracked /\ buckets[1].key = k /\ k # key
        OBVIOUS
    <2>1. PICK j \in 1 .. Len(buckets) : buckets[j].key = k
        BY <1>9, BucketFacts
    <2>2. j = Cut(key)
        <3> SUFFICES ASSUME j # Cut(key) PROVE FALSE
            OBVIOUS
        <3>1. PICK i \in 1 .. Fewer(key) : From(key, i) = j
            BY <1>1, CutFacts
        <3>2. i \in 1 .. n /\ buckets'[i] = buckets[j]
            BY <1>3, <1>4, <3>1
        <3> QED
            BY <1>7, <1>9, <2>1, <3>2
    <2>3. k # key
        BY <1>8
    <2> QED
        BY <1>1, <2>1, <2>2, <2>3, CutFacts, BucketFacts
<1>12. \A k \in L!Keys : L!Tracked(k)' \/ (spent'[k].n = 0 /\ promise'[k] = L!Never)
    <2> SUFFICES ASSUME NEW k \in L!Keys, k \notin kept
                 PROVE  spent'[k].n = 0 /\ promise'[k] = L!Never
        BY <1>6, <1>7
    <2>1. CASE k \in lost
        BY <1>2, <2>1
    <2>2. CASE k \notin lost
        <3>1. ~L!Tracked(k) /\ k # key
            BY <1>8, <1>9, <2>2
        <3>2. spent'[k] = spent[k] /\ promise'[k] = promise[k]
            BY <1>2, <2>2, <3>1
        <3> QED
            BY <3>1, <3>2 DEF LimitInv
    <2> QED
        BY <2>1, <2>2
<1>13. /\ \A k \in L!Keys : k # key /\ k \notin lost => spent'[k] = spent[k] /\ promise'[k] = promise[k]
       /\ \A k \in L!Keys : k # key /\ L!Tracked(k) => others'[k] = others[k] \cup {key}
       /\ c.allowed => spent'[key] = [spent[key] EXCEPT !.n = @ + 1] /\ promise'[key] = L!Never
       /\ ~c.allowed => spent'[key] = spent[key] /\ promise'[key] = due
    BY <1>1, <1>2, <1>8
<1>14. c.tokens \in Nat /\ now \in Nat /\ Window \in Nat /\ c.allowed \in BOOLEAN
       /\ buckets'[n] \in BucketRec
    <2>1. c.tokens \in Nat
        BY <1>1, <1>3, FoundFacts, RefilledIs, BucketFacts DEF LimitInv
    <2>2. n \in 1 .. Len(buckets')
        BY <1>3, <1>4
    <2>3. buckets'[n] \in BucketRec
        BY <1>3, <2>2, ElementOfSeq
    <2>4. c.allowed \in BOOLEAN
        BY <1>3
    <2> QED
        BY <2>1, <2>3, <2>4, BucketFacts DEF LimitInv, L!Configured
<1>15. /\ c.allowed => Earned(buckets'[n], spent'[key])
       /\ ~c.allowed => Earned(buckets'[n], spent'[key]) /\ Due(buckets'[n], promise'[key])
       /\ ~c.allowed => due \in Nat
    <2> DEFINE nb == buckets'[n]
    <2>1. /\ c.tokens >= Window /\ nb.tokens = c.tokens - Window
              => Earned(nb, [spent[key] EXCEPT !.n = @ + 1])
          /\ nb.tokens = c.tokens => Earned(nb, spent[key])
          /\ c.tokens < Window /\ nb.tokens = c.tokens => Due(nb, due)
          /\ c.tokens < Window => due \in Nat
        BY <1>1, <1>3, <1>14, Charged
    <2> HIDE DEF due
    <2>2. ~c.allowed => c.tokens < Window
        <3>1. c.tokens >= Window => c.allowed
            BY <1>3, Zenon
        <3>2. c.tokens >= Window \/ c.tokens < Window
            BY <1>14
        <3> QED
            BY <3>1, <3>2
    <2> HIDE DEF nb
    <2>3. c.allowed => Earned(nb, [spent[key] EXCEPT !.n = @ + 1])
        BY <1>3, <2>1 DEF nb
    <2>4. ~c.allowed => Earned(nb, spent[key]) /\ Due(nb, due) /\ due \in Nat
        BY <1>3, <2>1, <2>2 DEF nb
    <2> QED
        BY <1>13, <2>3, <2>4 DEF nb
<1> HIDE DEF due
<1>16. c.allowed => Due(buckets'[n], promise'[key])
    BY <1>13 DEF Due
<1>17. ASSUME NEW i \in 1 .. n
       PROVE  Earned(buckets'[i], spent'[buckets'[i].key]) /\ Due(buckets'[i], promise'[buckets'[i].key])
    <2>1. CASE i = n
        BY <1>3, <1>14, <1>15, <1>16, <2>1
    <2>2. CASE i # n
        <3> DEFINE f == From(key, i)
        <3>1. f \in DOMAIN buckets /\ buckets'[i] = buckets[f]
            BY <1>4, <1>5, <2>2
        <3>2. Earned(buckets[f], spent[buckets[f].key]) /\ Due(buckets[f], promise[buckets[f].key])
            BY <3>1 DEF LimitInv
        <3>3. spent'[buckets'[i].key] = spent[buckets'[i].key]
              /\ promise'[buckets'[i].key] = promise[buckets'[i].key]
            BY <1>5, <1>8, <1>13, <2>2
        <3> HIDE DEF f
        <3> QED
            BY <3>1, <3>2, <3>3
    <2> QED
        BY <2>1, <2>2
<1>18. ASSUME NEW i \in 1 .. n, NEW j \in 1 .. n, i < j
       PROVE  buckets'[j].key \in others'[buckets'[i].key]
    <2>1. i # n
        BY <1>4, <1>18
    <2>2. others'[buckets'[i].key] = others[buckets'[i].key] \cup {key}
        BY <1>5, <1>13, <2>1
    <2>3. CASE j = n
        BY <1>3, <2>2, <2>3
    <2>4. CASE j # n
        <3>1. From(key, i) < From(key, j)
            BY <1>1, <1>5, <1>18, <2>1, <2>4, CutFacts
        <3>2. /\ From(key, i) \in DOMAIN buckets /\ From(key, j) \in DOMAIN buckets
              /\ buckets'[i] = buckets[From(key, i)] /\ buckets'[j] = buckets[From(key, j)]
            BY <1>4, <1>5, <2>1, <2>4
        <3> QED
            BY <2>2, <3>1, <3>2 DEF LimitInv
    <2> QED
        BY <2>3, <2>4
<1>19. \A i \in 1 .. n : buckets'[i].last <= now /\ buckets'[i].tokens <= L!Capacity(buckets'[i].key)
    <2> TAKE i \in 1 .. n
    <2>1. CASE i = n
        <3>1. now <= now
            BY <1>14
        <3> QED
            BY <1>3, <2>1, <3>1
    <2>2. CASE i # n
        BY <1>4, <1>5, <2>2 DEF LimitInv, LimitTypes
    <2> QED
        BY <2>1, <2>2
<1>20. spent' \in [L!Keys -> [n : Nat, since : Nat]] /\ \A k \in L!Keys : spent'[k].since <= now
    <2>1. \A k \in L!Keys : spent[k] \in [n : Nat, since : Nat] /\ spent[k].since <= now
        BY DEF LimitInv, LimitTypes
    <2>2. now <= now
        BY <1>14
    <2>3. ASSUME NEW k \in L!Keys
          PROVE  spent'[k] \in [n : Nat, since : Nat] /\ spent'[k].since <= now
        <3>1. CASE k \in lost
            BY <1>2, <1>14, <2>2, <3>1
        <3>2. CASE k \notin lost /\ k = key /\ c.allowed
            <4>1. spent'[k] = [spent[k] EXCEPT !.n = @ + 1]
                BY <1>13, <3>2
            <4> QED
                BY <2>1, <4>1
        <3>3. CASE k \notin lost /\ ~(k = key /\ c.allowed)
            BY <1>13, <2>1, <3>3
        <3> QED
            BY <3>1, <3>2, <3>3
    <2>4. DOMAIN spent' = L!Keys /\ spent' = [k \in L!Keys |-> spent'[k]]
        BY <1>2
    <2> QED
        BY <2>3, <2>4
<1>21. others' \in [L!Keys -> SUBSET L!Keys] /\ \A k \in L!Keys : IsFiniteSet(others'[k])
    <2>1. \A k \in L!Keys : others[k] \subseteq L!Keys /\ IsFiniteSet(others[k])
        BY DEF LimitInv, LimitTypes
    <2>2. \A k \in L!Keys : others'[k] = {} \/ others'[k] = others[k] \cup {key}
        BY <1>2
    <2>3. \A k \in L!Keys : others'[k] \subseteq L!Keys
        BY <1>1, <2>1, <2>2
    <2>4. others' \in [L!Keys -> SUBSET L!Keys]
        BY <1>2, <2>3
    <2>5. IsFiniteSet({}) /\ \A k \in L!Keys : IsFiniteSet(others[k] \cup {key})
        BY <2>1, FS_EmptySet, FS_AddElement
    <2>6. \A k \in L!Keys : IsFiniteSet(others'[k])
        BY <2>2, <2>5
    <2> QED
        BY <2>4, <2>6
<1>22. promise' \in [L!Keys -> Nat]
    <2>1. L!Never \in Nat
        BY DEF LimitInv, L!Configured, L!Never
    <2>2. \A k \in L!Keys : promise[k] \in Nat
        BY DEF LimitInv, LimitTypes
    <2>3. \A k \in L!Keys : promise'[k] \in Nat
        BY <1>2, <1>15, <2>1, <2>2
    <2> QED
        BY <1>2, <2>3
<1>23. LimitTypes'
    <2>1. now' \in 0 .. MaxTime
        BY <1>2 DEF LimitInv, LimitTypes
    <2>2. (\A i, j \in DOMAIN buckets : buckets[i].key = buckets[j].key => i = j)'
        BY <1>4, <1>10
    <2>3. (\A i \in DOMAIN buckets :
                buckets[i].last <= now /\ buckets[i].tokens <= L!Capacity(buckets[i].key))'
        BY <1>2, <1>4, <1>19
    <2>4. (\A k \in L!Keys : spent[k].since <= now /\ IsFiniteSet(others[k]))'
        BY <1>2, <1>20, <1>21
    <2>5. buckets' \in Seq(BucketRec) /\ Len(buckets') <= MaxTracked
        BY <1>3, <1>4
    <2> QED
        BY <1>20, <1>21, <1>22, <2>1, <2>2, <2>3, <2>4, <2>5 DEF LimitTypes
<1>24. (\A i \in DOMAIN buckets :
            /\ Earned(buckets[i], spent[buckets[i].key])
            /\ Due(buckets[i], promise[buckets[i].key]))'
    BY <1>4, <1>17, Zenon DEF Earned, Due
<1>25. (\A i, j \in DOMAIN buckets : i < j => buckets[j].key \in others[buckets[i].key])'
    BY <1>4, <1>18
<1>26. LimitInv'
    BY <1>12, <1>23, <1>24, <1>25 DEF LimitInv
<1>27. Forgets
    <2> SUFFICES ASSUME NEW k \in L!Keys, L!Tracked(k), ~L!Tracked(k)'
                 PROVE  Cardinality(others'[k]) >= MaxTracked
        BY DEF Forgets
    <2>1. k \in lost
        BY <1>6, <1>7, <1>9
    <2>2. ~L!Tracked(key) /\ Len(buckets) = MaxTracked /\ buckets[1].key = k /\ k # key
        BY <1>11, <2>1
    <2>3. others'[k] = others[k] \cup {key}
        BY <1>13, <2>2
    <2> QED
        BY <1>1, <2>2, <2>3, Displaced
<1> QED
    BY <1>26, <1>27

LEMMA LimitBegins == L!Configured /\ L!Init => LimitInv
<1> SUFFICES ASSUME L!Configured, L!Init PROVE LimitInv
    OBVIOUS
<1>1. /\ now = 0 /\ buckets = <<>> /\ others = [k \in L!Keys |-> {}]
      /\ spent = [k \in L!Keys |-> [n |-> 0, since |-> 0]]
      /\ promise = [k \in L!Keys |-> L!Never]
    BY DEF L!Init
<1>2. L!Never \in Nat /\ MaxTime \in Nat /\ MaxTracked \in Nat \ {0}
    BY DEF L!Configured, L!Never
<1>3. buckets \in Seq(BucketRec) /\ Len(buckets) = 0 /\ DOMAIN buckets = {}
    BY <1>1, EmptySeq
<1>4. LimitTypes
    <2>1. now \in 0 .. MaxTime /\ Len(buckets) <= MaxTracked
        BY <1>1, <1>2, <1>3
    <2>2. spent \in [L!Keys -> [n : Nat, since : Nat]] /\ \A k \in L!Keys : spent[k].since <= now
        BY <1>1
    <2>3. others \in [L!Keys -> SUBSET L!Keys] /\ \A k \in L!Keys : IsFiniteSet(others[k])
        BY <1>1, FS_EmptySet
    <2>4. promise \in [L!Keys -> Nat]
        BY <1>1, <1>2
    <2> QED
        BY <1>3, <2>1, <2>2, <2>3, <2>4 DEF LimitTypes
<1> QED
    BY <1>1, <1>3, <1>4 DEF LimitInv

LEMMA TickInv == ASSUME LimitInv, L!Tick PROVE LimitInv' /\ Forgets
<1>1. /\ now' = now + 1 /\ now < MaxTime /\ buckets' = buckets /\ spent' = spent
      /\ others' = others /\ promise' = promise
    BY DEF L!Tick
<1>2. now \in 0 .. MaxTime /\ MaxTime \in Nat
    BY DEF LimitInv, LimitTypes, L!Configured
<1>3. now' \in 0 .. MaxTime /\ now <= now' /\ now \in Nat
    BY <1>1, <1>2
<1>4. \A k : L!Tracked(k)' <=> L!Tracked(k)
    BY <1>1 DEF L!Tracked, L!Positions
<1>5. \A i \in DOMAIN buckets : buckets[i].last <= now'
    <2> TAKE i \in DOMAIN buckets
    <2>1. buckets[i].last \in Nat /\ buckets[i].last <= now
        BY BucketFacts DEF LimitInv, LimitTypes
    <2> QED
        BY <1>1, <1>3, <2>1
<1>6. \A k \in L!Keys : spent[k].since <= now'
    <2> TAKE k \in L!Keys
    <2>1. spent[k].since \in Nat /\ spent[k].since <= now
        BY DEF LimitInv, LimitTypes
    <2> QED
        BY <1>1, <1>3, <2>1
<1>7. LimitTypes'
    BY <1>1, <1>3, <1>5, <1>6 DEF LimitInv, LimitTypes
<1>8. (\A i \in DOMAIN buckets :
            /\ Earned(buckets[i], spent[buckets[i].key])
            /\ Due(buckets[i], promise[buckets[i].key]))'
    BY <1>1, Zenon DEF LimitInv, Earned, Due
<1>9. (\A i, j \in DOMAIN buckets : i < j => buckets[j].key \in others[buckets[i].key])'
    BY <1>1 DEF LimitInv
<1>10. \A k \in L!Keys : L!Tracked(k)' \/ (spent'[k].n = 0 /\ promise'[k] = L!Never)
    BY <1>1, <1>4 DEF LimitInv
<1>11. LimitInv'
    BY <1>7, <1>8, <1>9, <1>10 DEF LimitInv
<1> QED
    BY <1>4, <1>11 DEF Forgets

LEMMA LimitStep == LimitInv /\ [L!Next]_L!vars => LimitInv' /\ Forgets
<1>1. ASSUME LimitInv, L!Next PROVE LimitInv' /\ Forgets
    BY <1>1, RequestInv, TickInv DEF L!Next
<1>2. ASSUME LimitInv, UNCHANGED L!vars PROVE LimitInv' /\ Forgets
    <2>1. /\ now' = now /\ buckets' = buckets /\ spent' = spent /\ others' = others
          /\ promise' = promise
        BY <1>2 DEF L!vars
    <2>2. \A k : L!Tracked(k)' <=> L!Tracked(k)
        BY <2>1 DEF L!Tracked, L!Positions
    <2>3. LimitTypes'
        BY <1>2, <2>1 DEF LimitInv, LimitTypes
    <2>4. (\A i \in DOMAIN buckets :
                /\ Earned(buckets[i], spent[buckets[i].key])
                /\ Due(buckets[i], promise[buckets[i].key]))'
        BY <1>2, <2>1, Zenon DEF LimitInv, Earned, Due
    <2>5. LimitInv'
        BY <1>2, <2>1, <2>2, <2>3, <2>4 DEF LimitInv
    <2> QED
        BY <2>2, <2>5 DEF Forgets
<1> QED
    BY <1>1, <1>2

LEMMA LimitKept == LimitInv => L!RateKept
<1> SUFFICES ASSUME LimitInv, NEW k \in L!Keys
             PROVE  spent[k].n * Window <= L!Capacity(k) + (now - spent[k].since) * L!Rate(k)
    BY DEF L!RateKept
<1> DEFINE s == spent[k]
           b == Found(k)
           r == L!Rate(k)
           c == L!Capacity(k)
<1>1. /\ b.tokens \in Nat /\ b.last \in Nat /\ b.last <= now /\ b.key = k /\ now \in Nat
      /\ Earned(b, s)
    BY FoundFacts, BucketFacts DEF BucketRec
<1>2. r \in Nat /\ c \in Nat /\ Window \in Nat /\ s.n \in Nat /\ s.since \in Nat
    BY RateFacts DEF LimitInv, LimitTypes
<1>3. s.n * Window + b.tokens <= c + (b.last - s.since) * r
    BY <1>1 DEF Earned
<1> HIDE DEF s, b, r, c
<1>4. (b.last - s.since) * r <= (now - s.since) * r
    <2>1. b.last - s.since \in Int /\ now - s.since \in Int /\ b.last - s.since <= now - s.since
        BY <1>1, <1>2
    <2> QED
        BY <1>2, <2>1, Products
<1>5. /\ s.n * Window \in Int /\ (b.last - s.since) * r \in Int /\ (now - s.since) * r \in Int
    <2>1. s.n \in Int /\ Window \in Int /\ r \in Int /\ b.last - s.since \in Int /\ now - s.since \in Int
        BY <1>1, <1>2
    <2> QED
        BY <2>1, Products
<1>6. s.n * Window <= c + (now - s.since) * r
    BY <1>1, <1>2, <1>3, <1>4, <1>5
<1> QED
    BY <1>6 DEF s, r, c

LEMMA LimitHonest == LimitInv => L!RetryHonest
<1> SUFFICES ASSUME LimitInv, NEW k \in L!Keys, promise[k] <= now, L!Tracked(k)
             PROVE  L!Refilled(L!Bucket(k)) >= Window
    BY DEF L!RetryHonest
<1> DEFINE b == Found(k)
           r == L!Rate(k)
           p == promise[k]
           x == L!Refilled(b)
<1>1. /\ b \in BucketRec /\ b.key = k /\ b.tokens \in Nat /\ b.last \in Nat /\ b.last <= now
      /\ now \in Nat /\ Due(b, p) /\ b = L!Bucket(k)
    BY FoundFacts, BucketFacts DEF BucketRec, Found
<1>2. /\ r \in Nat /\ Window \in Nat /\ L!Capacity(k) \in Nat /\ Window <= L!Capacity(k)
      /\ p \in Nat /\ p <= now
    BY RateFacts DEF LimitInv, LimitTypes
<1>3. p # L!Never
    <2>1. now <= MaxTime /\ MaxTime \in Nat /\ L!Never = MaxTime + Window + 2
        BY DEF LimitInv, LimitTypes, L!Configured, L!Never
    <2> QED
        BY <1>1, <1>2, <2>1
<1>4. Window <= b.tokens + (p - b.last) * r
    BY <1>1, <1>3 DEF Due
<1>5. x \in Nat /\ (x = L!Capacity(k) \/ x = b.tokens + (now - b.last) * r)
    BY <1>1, RefilledIs DEF LimitInv
<1> HIDE DEF b, r, p, x
<1>6. (p - b.last) * r <= (now - b.last) * r
    <2>1. p - b.last \in Int /\ now - b.last \in Int /\ p - b.last <= now - b.last
        BY <1>1, <1>2
    <2> QED
        BY <1>2, <2>1, Products
<1>7. (p - b.last) * r \in Int /\ (now - b.last) * r \in Int
    <2>1. p - b.last \in Int /\ now - b.last \in Int /\ r \in Int
        BY <1>1, <1>2
    <2> QED
        BY <2>1, Products
<1>8. Window <= b.tokens + (now - b.last) * r
    BY <1>1, <1>2, <1>4, <1>6, <1>7
<1>9. x >= Window
    BY <1>2, <1>5, <1>8
<1> QED
    BY <1>1, <1>9 DEF x

\* For any limits, callers and table: a source is let through what its bucket
\* held and was refilled with, the wait a 429 names is enough, and a bucket is
\* forgotten only when the table was full of callers seen since
\* (RateLimitMiddleware._consume).
THEOREM AllowanceIsSound ==
    L!Configured => (L!Spec => [](L!RateKept /\ L!RetryHonest) /\ L!OnlyLeastRecentForgotten)
<1> SUFFICES ASSUME L!Configured
             PROVE  L!Spec => [](L!RateKept /\ L!RetryHonest) /\ L!OnlyLeastRecentForgotten
    OBVIOUS
<1>1. Forgets => [\A k \in L!Keys : (L!Tracked(k) /\ ~L!Tracked(k)')
                                    => L!Cardinality(others'[k]) >= MaxTracked]_L!vars
    BY DEF Forgets, Cardinality, L!Cardinality
<1>2. LimitInv => L!RateKept /\ L!RetryHonest
    BY LimitKept, LimitHonest
<1>3. L!Init => LimitInv
    BY LimitBegins
<1>4. LimitInv /\ [L!Next]_L!vars => LimitInv'
    BY LimitStep
<1>5. LimitInv /\ [L!Next]_L!vars
      => [\A k \in L!Keys : (L!Tracked(k) /\ ~L!Tracked(k)')
                            => L!Cardinality(others'[k]) >= MaxTracked]_L!vars
    BY <1>1, LimitStep
<1> QED
    BY <1>2, <1>3, <1>4, <1>5, PTL DEF L!Spec, L!OnlyLeastRecentForgotten

\* The histories stay within what bounds them.
LimitBounds == \A k \in L!Keys : spent[k].n <= MaxSpent /\ promise[k] <= L!Never

LEMMA BoundsStep ==
    ASSUME LimitInv, LimitBounds, [L!Next]_L!vars
    PROVE  LimitBounds'
<1>1. ASSUME NEW id \in Identities, NEW peer \in Peers, NEW header \in Forwarded \cup {NoHeader},
             L!Request(id, peer, header)
      PROVE  LimitBounds'
    <2> DEFINE key == L!BucketKey(id, peer, header)
               source == L!Source(id, peer, header)
    <2>1. key \in L!Keys
        <3>1. id \in L!Everyone \cap Identities
            BY DEF LimitInv, L!Configured
        <3>2. L!ClientIp(peer, header) \in L!Ips
            BY DEF L!ClientIp, L!Ips
        <3> QED
            BY <3>1, <3>2 DEF L!BucketKey, L!Keys
    <2>2. PICK c : c = L!Consume(key)
        OBVIOUS
    <2>3. L!Charge(key, source, c)
        BY <1>1, <2>2 DEF L!Request
    <2> HIDE DEF key, source
    <2>4. c.tokens \in Nat /\ c.allowed = (c.tokens >= Window)
        <3>1. c.tokens = L!Refilled(Found(key)) /\ c.allowed = (c.tokens >= Window)
            BY <2>1, <2>2, ConsumeIs
        <3>2. Found(key) \in BucketRec /\ Found(key).last <= now /\ now \in Nat /\ L!Configured
            BY <2>1, FoundFacts, BucketFacts DEF LimitInv
        <3>3. L!Refilled(Found(key)) \in Nat
            BY <3>2, RefilledIs
        <3> QED
            BY <3>1, <3>3
    <2>5. PICK lost :
            /\ spent' = [k \in L!Keys |->
                 IF k \in lost THEN [n |-> 0, since |-> now]
                 ELSE IF k = source /\ c.allowed THEN [spent[k] EXCEPT !.n = @ + 1] ELSE spent[k]]
            /\ promise' = [k \in L!Keys |->
                 IF k \in lost \/ (k = key /\ c.allowed) THEN L!Never
                 ELSE IF k = key THEN L!Least(L!Never, now + L!RetryAfter(c.tokens, key))
                 ELSE promise[k]]
        BY <2>3 DEF L!Charge
    <2>6. spent[source].n < MaxSpent
        BY <2>3 DEF L!Charge
    <2>7. /\ MaxSpent \in Nat /\ L!Never \in Nat /\ now \in Nat
          /\ \A k \in L!Keys : spent[k] \in [n : Nat, since : Nat] /\ promise[k] \in Nat
        BY DEF LimitInv, LimitTypes, L!Configured, L!Never
    <2> SUFFICES ASSUME NEW k \in L!Keys
                 PROVE  (spent[k].n <= MaxSpent /\ promise[k] <= L!Never)'
        BY DEF LimitBounds, L!Keys, L!Ips, L!Everyone, L!Never
    <2>8. spent'[k].n <= MaxSpent
        <3>1. spent[k].n <= MaxSpent /\ spent[k].n \in Nat
            BY <2>7 DEF LimitBounds
        <3>2. CASE k \in lost
            BY <2>5, <2>7, <3>2
        <3>3. CASE k \notin lost /\ k = source /\ c.allowed
            <4>1. spent'[k] = [spent[k] EXCEPT !.n = @ + 1]
                BY <2>5, <3>3
            <4>2. spent'[k].n = spent[k].n + 1
                BY <2>7, <4>1
            <4> QED
                BY <2>6, <2>7, <3>1, <3>3, <4>2
        <3>4. CASE k \notin lost /\ ~(k = source /\ c.allowed)
            BY <2>5, <3>1, <3>4
        <3> QED
            BY <3>2, <3>3, <3>4
    <2>9. promise'[k] <= L!Never
        <3>1. CASE k \in lost \/ (k = key /\ c.allowed)
            BY <2>5, <2>7, <3>1
        <3>2. CASE k \notin lost /\ k = key /\ ~c.allowed
            <4>1. promise'[k] = L!Least(L!Never, now + L!RetryAfter(c.tokens, key))
                BY <2>5, <3>2
            <4>2. Window \in Nat /\ c.tokens < Window /\ L!Rate(key) \in Nat \ {0}
                <5>1. Window \in Nat /\ L!Rate(key) \in Nat \ {0}
                    BY <2>1, RateFacts DEF LimitInv
                <5>2. ~(c.tokens >= Window)
                    BY <2>4, <3>2
                <5> QED
                    BY <2>4, <5>1, <5>2
            <4>3. (Window - c.tokens) \div L!Rate(key) \in Nat
                BY <2>4, <4>2, Products
            <4>4. now + L!RetryAfter(c.tokens, key) \in Nat
                BY <2>7, <4>3 DEF L!RetryAfter
            <4> QED
                BY <2>7, <4>1, <4>4 DEF L!Least
        <3>3. CASE k \notin lost /\ k # key
            BY <2>5, <3>3 DEF LimitBounds
        <3> QED
            BY <3>1, <3>2, <3>3
    <2> QED
        BY <2>8, <2>9 DEF L!Never
<1>2. CASE L!Tick \/ UNCHANGED L!vars
    <2>1. UNCHANGED <<spent, promise>>
        BY <1>2 DEF L!Tick, L!vars
    <2> QED
        BY <2>1 DEF LimitBounds
<1> QED
    BY <1>1, <1>2 DEF L!Next

LEMMA LimitTypesHold == LimitInv /\ LimitBounds => L!TypeOK
<1> SUFFICES ASSUME LimitInv, LimitBounds PROVE L!TypeOK
    OBVIOUS
<1>1. ASSUME NEW i \in DOMAIN buckets
      PROVE  /\ buckets[i].key \in L!Keys /\ buckets[i].last \in 0 .. now
             /\ buckets[i].tokens \in 0 .. L!Capacity(buckets[i].key)
    <2>1. buckets[i] \in BucketRec /\ buckets[i].last <= now
          /\ buckets[i].tokens <= L!Capacity(buckets[i].key) /\ now \in Nat
        BY <1>1, BucketFacts DEF LimitInv, LimitTypes
    <2>2. buckets[i].key \in L!Keys /\ buckets[i].last \in Nat /\ buckets[i].tokens \in Nat
        BY <2>1 DEF BucketRec
    <2>3. L!Capacity(buckets[i].key) \in Nat
        BY <2>2, RateFacts DEF LimitInv
    <2> QED
        BY <2>1, <2>2, <2>3
<1>2. spent \in [L!Keys -> [n : 0 .. MaxSpent, since : 0 .. MaxTime]]
    <2> SUFFICES ASSUME NEW k \in L!Keys PROVE spent[k] \in [n : 0 .. MaxSpent, since : 0 .. MaxTime]
        BY DEF LimitInv, LimitTypes
    <2>1. /\ spent[k] \in [n : Nat, since : Nat] /\ spent[k].n <= MaxSpent /\ spent[k].since <= now
          /\ now \in Nat /\ now <= MaxTime /\ MaxTime \in Nat /\ MaxSpent \in Nat
        BY DEF LimitInv, LimitTypes, LimitBounds, L!Configured
    <2> QED
        BY <2>1
<1>3. promise \in [L!Keys -> 0 .. L!Never]
    <2> SUFFICES ASSUME NEW k \in L!Keys PROVE promise[k] \in 0 .. L!Never
        BY DEF LimitInv, LimitTypes
    <2>1. promise[k] \in Nat /\ promise[k] <= L!Never /\ L!Never \in Nat
        BY DEF LimitInv, LimitTypes, LimitBounds, L!Configured, L!Never
    <2> QED
        BY <2>1
<1>4. now \in 0 .. MaxTime /\ Len(buckets) <= MaxTracked /\ others \in [L!Keys -> SUBSET L!Keys]
    BY DEF LimitInv, LimitTypes
<1> QED
    BY <1>1, <1>2, <1>3, <1>4 DEF L!TypeOK

LEMMA BoundsBegin == L!Configured /\ L!Init => LimitBounds
<1> SUFFICES ASSUME L!Configured, L!Init, NEW k \in L!Keys
             PROVE  spent[k].n <= MaxSpent /\ promise[k] <= L!Never
    BY DEF LimitBounds
<1>1. spent[k].n = 0 /\ promise[k] = L!Never /\ MaxSpent \in Nat /\ L!Never \in Nat
    BY DEF L!Init, L!Configured, L!Never
<1> QED
    BY <1>1

\* The table of buckets never outgrows max_tracked_ips, and no bucket its
\* capacity.
THEOREM AllowanceTypeCorrect == L!Configured => (L!Spec => []L!TypeOK)
<1> SUFFICES ASSUME L!Configured PROVE L!Spec => []L!TypeOK
    OBVIOUS
<1>1. L!Init => LimitInv /\ LimitBounds
    BY LimitBegins, BoundsBegin
<1>2. LimitInv /\ LimitBounds /\ [L!Next]_L!vars => LimitInv' /\ LimitBounds'
    BY LimitStep, BoundsStep
<1> QED
    BY <1>1, <1>2, LimitTypesHold, PTL DEF L!Spec
=============================================================================
