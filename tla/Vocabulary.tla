----------------------------- MODULE Vocabulary -----------------------------
(***************************************************************************)
(* The prefetched value lists of retrieval/dimension_vocabulary.py: a cache *)
(* per (table, column) that serves stale values while one background thread *)
(* fetches new ones, with a back-off after a failure, beside the operator's *)
(* manual refresh and the warm-up at start.                                 *)
(*                                                                          *)
(* Times are kept as ages, capped one past the limit they are compared      *)
(* with.  A list of values is known by whether it is still what the         *)
(* warehouse holds.                                                         *)
(***************************************************************************)
EXTENDS Naturals, FiniteSets

CONSTANTS
    Columns,     \* the (table, column) pairs of PREFETCH_COLUMNS
    Ttl,         \* dimension_vocabulary_ttl_seconds
    Backoff,     \* _BACKGROUND_REFRESH_BACKOFF_SECONDS
    Manual,      \* threads of manual_refresh and warm_all
    StartFails   \* whether a new thread may fail to start

VARIABLES
    up,        \* the database answers
    cache,     \* _store
    inFlight,  \* _in_flight
    failure,   \* _last_failure, as an age
    threads,   \* the background refresh threads
    manual     \* per operator thread: its refresh

vars == <<up, cache, inFlight, failure, threads, manual>>

Configured == Columns # {} /\ Ttl \in Nat /\ Backoff \in Nat /\ StartFails \in BOOLEAN

Absent == [is |-> FALSE, age |-> 0, current |-> FALSE, by |-> "none"]
Long == Backoff + 1
Idle == [pc |-> "idle", of |-> CHOOSE c \in Columns : TRUE, current |-> FALSE]

TypeOK ==
    /\ up \in BOOLEAN
    /\ cache \in [Columns -> [is : BOOLEAN, age : 0 .. Ttl + 1, current : BOOLEAN,
                           by : {"none", "thread", "manual"}]]
    /\ inFlight \subseteq Columns
    /\ failure \in [Columns -> 0 .. Long]
    /\ threads \subseteq [of : Columns, pc : {"fetch", "store", "mark", "fail", "leave"}, current : BOOLEAN]
    /\ manual \in [Manual -> [of : Columns, pc : {"idle", "fetch", "store", "mark", "fail"},
                              current : BOOLEAN]]

Init ==
    /\ up \in BOOLEAN
    /\ cache = [c \in Columns |-> Absent] /\ inFlight = {} /\ threads = {}
    /\ failure = [c \in Columns |-> Long]
    /\ manual = [m \in Manual |-> Idle]

Next1(age, limit) == IF age < limit THEN age + 1 ELSE limit

Fresh(c) == cache[c].is /\ cache[c].age <= Ttl
Thread(c, pc, current) == [of |-> c, pc |-> pc, current |-> current]

BacksOff(c) == failure[c] < Backoff

\* MUTANT: the thread claims the column itself, when it runs.
Unclaimed(c) == inFlight

\* _in_flight.add under the lock that looked.
Claimed(c) == inFlight \cup {c}

\* A request looks at a column: match_question_against_vocabulary and
\* get_vocabulary_for_check serve what there is and, unless it is fresh,
\* trigger a refresh.  `starts` is FALSE when the thread cannot be started.
Look(c, starts) ==
    /\ ~Fresh(c) /\ c \notin inFlight /\ ~BacksOff(c)
    /\ inFlight' = Claimed(c)
    /\ threads' = IF starts THEN threads \cup {Thread(c, "fetch", FALSE)} ELSE threads
    /\ UNCHANGED <<up, cache, failure, manual>>

\* refresh_vocabulary's query: what the warehouse holds now, or an error.
Fetch(t) ==
    /\ t.pc = "fetch"
    /\ threads' = (threads \ {t}) \cup {[t EXCEPT !.pc = IF up THEN "store" ELSE "fail", !.current = up]}
    /\ UNCHANGED <<up, cache, inFlight, failure, manual>>

\* _cache.set, a whole entry at a time.
Stored(current, by) == [is |-> TRUE, age |-> 0, current |-> current, by |-> by]

Store(t) ==
    /\ t.pc = "store"
    /\ cache' = [cache EXCEPT ![t.of] = Stored(t.current, "thread")]
    /\ threads' = (threads \ {t}) \cup {[t EXCEPT !.pc = "mark"]}
    /\ UNCHANGED <<up, inFlight, failure, manual>>

\* _mark_attempt_succeeded or _mark_attempt_failed.
Mark(t) ==
    /\ t.pc \in {"mark", "fail"}
    /\ failure' = [failure EXCEPT ![t.of] = IF t.pc = "mark" THEN Long ELSE 0]
    /\ threads' = (threads \ {t}) \cup {[t EXCEPT !.pc = "leave"]}
    /\ UNCHANGED <<up, cache, inFlight, manual>>

\* MUTANT: the marker is taken away on success only.
LeavesOnSuccess(c) == IF failure[c] = 0 THEN inFlight ELSE inFlight \ {c}

\* The `finally` of _run.
Left(c) == inFlight \ {c}

Leave(t) ==
    /\ t.pc = "leave"
    /\ inFlight' = Left(t.of) /\ threads' = threads \ {t}
    /\ UNCHANGED <<up, cache, failure, manual>>

Background(c) == \E t \in threads : t.of = c /\ (Fetch(t) \/ Store(t) \/ Mark(t) \/ Leave(t))

\* manual_refresh, and one column of warm_all, which leaves the marks alone:
\* neither looks at the back-off or at the threads in flight.
ManualStart(m, c) ==
    /\ manual[m].pc = "idle"
    /\ manual' = [manual EXCEPT ![m] = [Idle EXCEPT !.pc = "fetch", !.of = c]]
    /\ UNCHANGED <<up, cache, inFlight, failure, threads>>

ManualFetch(m) ==
    /\ manual[m].pc = "fetch"
    /\ manual' = [manual EXCEPT ![m].pc = IF up THEN "store" ELSE "fail", ![m].current = up]
    /\ UNCHANGED <<up, cache, inFlight, failure, threads>>

ManualStore(m) ==
    /\ manual[m].pc = "store"
    /\ cache' = [cache EXCEPT ![manual[m].of] = Stored(manual[m].current, "manual")]
    /\ manual' = [manual EXCEPT ![m].pc = "mark"]
    /\ UNCHANGED <<up, inFlight, failure, threads>>

ManualMark(m, marks) ==
    /\ manual[m].pc \in {"mark", "fail"}
    /\ failure' = IF marks
                  THEN [failure EXCEPT ![manual[m].of] = IF manual[m].pc = "mark" THEN Long ELSE 0]
                  ELSE failure
    /\ manual' = [manual EXCEPT ![m] = Idle]
    /\ UNCHANGED <<up, cache, inFlight, threads>>

\* The warehouse's values change; the database goes or comes; time passes.
Change ==
    /\ cache' = [c \in Columns |-> [cache[c] EXCEPT !.current = FALSE]]
    /\ threads' = {[t EXCEPT !.current = FALSE] : t \in threads}
    /\ manual' = [m \in Manual |-> [manual[m] EXCEPT !.current = FALSE]]
    /\ UNCHANGED <<up, inFlight, failure>>

Outage ==
    /\ up' = ~up
    /\ UNCHANGED <<cache, inFlight, failure, threads, manual>>

Tick ==
    /\ cache' = [c \in Columns |-> IF cache[c].is THEN [cache[c] EXCEPT !.age = Next1(@, Ttl + 1)]
                                   ELSE cache[c]]
    /\ failure' = [c \in Columns |-> Next1(failure[c], Long)]
    /\ UNCHANGED <<up, inFlight, threads, manual>>

Next ==
    \/ \E c \in Columns :
        \/ \E starts \in {TRUE} \cup {~StartFails} : Look(c, starts)
        \/ \E m \in Manual : ManualStart(m, c)
    \/ \E c \in Columns : Background(c)
    \/ \E m \in Manual :
        \/ ManualFetch(m) \/ ManualStore(m)
        \/ \E marks \in BOOLEAN : ManualMark(m, marks)
    \/ Change \/ Outage \/ Tick

Spec == Init /\ [][Next]_vars

\* A running thread goes on: its query has a timeout.
FairSpec == Spec /\ \A c \in Columns : WF_vars(Background(c))

(***************************************************************************)
(* Properties.                                                             *)
(***************************************************************************)
\* A background refresh that was slow never puts an older list over the newer
\* one of another background refresh, with a full time to live.
NewestKept ==
    [][\A t \in threads : (t.pc = "store" /\ t \notin threads' /\ cache[t.of].by = "thread") =>
            (cache[t.of].current => t.current)]_vars

\* The same for the operator's refresh, which asks no marker: a background
\* refresh that read before it and stores after it takes its values back.
NewestKeptManual ==
    [][\A t \in threads : (t.pc = "store" /\ t \notin threads') =>
            (cache[t.of].current => t.current)]_vars

\* A claimed column is released again, so it can always be refreshed later.
ClaimReleased == \A c \in Columns : (c \in inFlight) ~> (c \notin inFlight)
=============================================================================
