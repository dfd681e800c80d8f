------------------------------ MODULE KeepWarm ------------------------------
(***************************************************************************)
(* llm/warmup.py: the warm-up that sends each data source's static prompt   *)
(* prefix to the model server once (at start, or when an operator asks),    *)
(* and the keep-warm thread that sends it again whenever no request used it *)
(* for an interval, with llm/prefix_activity.py's record of those requests. *)
(*                                                                          *)
(* Time passes only while every thread waits: between its passes, or for    *)
(* the model server.  The steps in between take none.                       *)
(***************************************************************************)
EXTENDS Naturals, Sequences

CONSTANTS
    Sources,    \* warm_sources(), in order
    Interval,   \* llm_prefix_keepwarm_seconds
    Budget,     \* llm_prefix_warmup_timeout_seconds
    Keepers     \* KeepWarm objects, one per start of the keep-warm

VARIABLES
    idle,      \* per source: seconds_since_use, capped past Interval
    lapse,     \* history, per source: time since a use or an excused miss
    lock,      \* who holds _warmup_lock
    thread,    \* per thread: where it is, its timer, what is left of its pass
    current,   \* _keepwarm
    paused,    \* maintenance mode
    late       \* history, per thread: prefixes sent although it was stopped

vars == <<idle, lapse, lock, thread, current, paused, late>>

Names == {Sources[i] : i \in DOMAIN Sources}
Startup == "startup"
Threads == Keepers \cup {Startup}
Nobody == "nobody"
Longest == 2 * Interval + 2 * Budget

\* An interval of 0 starts no keep-warm.
Configured ==
    /\ Sources \in Seq(Names) /\ Interval \in Nat \ {0} /\ Budget \in Nat
    /\ Startup \notin Keepers /\ Nobody \notin Keepers

New == [pc |-> "new", timer |-> 0, todo |-> <<>>, left |-> 0, stop |-> FALSE]

TypeOK ==
    /\ idle \in [Names -> 0 .. Interval + 1] /\ lapse \in [Names -> 0 .. Longest]
    /\ lock \in Threads \cup {Nobody} /\ current \in Keepers \cup {Nobody}
    /\ \A t \in Threads :
        /\ thread[t].pc \in {"new", "waiting", "setup", "next", "chosen", "calling", "ended"}
        /\ thread[t].timer \in 0 .. Interval /\ thread[t].left \in 0 .. Budget
        /\ thread[t].stop \in BOOLEAN
        /\ \E i \in 1 .. Len(Sources) + 1 : thread[t].todo = SubSeq(Sources, i, Len(Sources))
    /\ paused \in BOOLEAN /\ late \in [Threads -> 0 .. Len(Sources)]

Init ==
    /\ idle = [s \in Names |-> Interval + 1] /\ lapse = [s \in Names |-> 0]
    /\ lock = Nobody /\ current = Nobody /\ paused = FALSE
    /\ thread = [t \in Threads |-> New]
    /\ late = [t \in Threads |-> 0]

Least(a, b) == IF a < b THEN a ELSE b
Zero(f, names) == [s \in Names |-> IF s \in names THEN 0 ELSE f[s]]
Running(t) == thread[t].pc \notin {"new", "ended"} /\ ~thread[t].stop
KeptWarm == \E k \in Keepers : Running(k)

\* The end of a pass: wait for the next, or, at start-up, end.
Rest(t) == IF t = Startup THEN [thread[t] EXCEPT !.pc = "ended"]
           ELSE [thread[t] EXCEPT !.pc = "waiting", !.timer = 0]

\* MUTANT: a second pass runs beside the first.
Reentered == TRUE

\* _warmup_lock.acquire(blocking=False).
LockFree == lock = Nobody

\* start_background_warmup, or POST /admin/llm/warmup.
WarmUp ==
    /\ thread[Startup].pc = "new"
    /\ IF LockFree
       THEN /\ lock' = Startup
            /\ thread' = [thread EXCEPT ![Startup].pc = "setup"]
       ELSE /\ thread' = [thread EXCEPT ![Startup].pc = "ended"] /\ UNCHANGED lock
    /\ UNCHANGED <<idle, lapse, current, paused, late>>

\* start_keepwarm: a new object, unless the current one is running.
Start(k) ==
    /\ thread[k].pc = "new" /\ (current \in Keepers => ~Running(current))
    /\ current' = k
    /\ thread' = [thread EXCEPT ![k].pc = "waiting"]
    /\ lapse' = IF KeptWarm THEN lapse ELSE Zero(lapse, Names)
    /\ UNCHANGED <<idle, lock, paused, late>>

\* stop_keepwarm: the event is set; a pass that is under way goes on.
Stop ==
    /\ current # Nobody
    /\ thread' = [thread EXCEPT ![current].stop = TRUE]
    /\ current' = Nobody
    /\ UNCHANGED <<idle, lapse, lock, paused, late>>

\* MUTANT: the loop does not look at what its wait returned.
EndsNever(k) == FALSE

\* _run leaves its loop when the wait was cut short.
Ends(k) == thread[k].stop

\* The wait returned: _run's loop and run_once up to the lock.  A pass that
\* finds maintenance mode or another warm-up is missed.
Wake(k) ==
    /\ thread[k].pc = "waiting" /\ (Ends(k) \/ thread[k].timer = Interval)
    /\ IF Ends(k)
       THEN thread' = [thread EXCEPT ![k].pc = "ended"] /\ UNCHANGED <<lapse, lock>>
       ELSE IF paused \/ ~LockFree
       THEN /\ thread' = [thread EXCEPT ![k] = Rest(k)]
            /\ lapse' = Zero(lapse, Names) /\ UNCHANGED lock
       ELSE /\ thread' = [thread EXCEPT ![k].pc = "setup"]
            /\ lock' = k /\ UNCHANGED lapse
    /\ UNCHANGED <<idle, current, paused, late>>

\* MUTANT: the early return of a failed set-up keeps the lock.
KeepsLock(t) == IF thread[t].pc = "setup" THEN lock ELSE Nobody

\* The `finally` of warm_prefix_cache.
Freed(t) == Nobody

\* The router and the list of sources; both may fail.
SetUp(t, ok) ==
    /\ thread[t].pc = "setup"
    /\ IF ok
       THEN /\ thread' = [thread EXCEPT ![t].pc = "next", ![t].todo = Sources, ![t].left = Budget]
            /\ UNCHANGED <<lock, lapse>>
       ELSE /\ thread' = [thread EXCEPT ![t] = Rest(t)] /\ lock' = Freed(t)
            /\ lapse' = IF t = Startup THEN lapse ELSE Zero(lapse, Names)
    /\ UNCHANGED <<idle, current, paused, late>>

\* MUTANT: the pass does not look at the stop event.
Deaf(t) == FALSE

\* `cancel`, which only the keep-warm passes.
Cancelled(t) == t # Startup /\ thread[t].stop

\* MUTANT: off by one, a use a whole interval ago still counts.
UsedWithin(t, s) == t # Startup /\ idle[s] <= Interval

\* skip_used_within, which only the keep-warm passes.
UsedRecently(t, s) == t # Startup /\ idle[s] < Interval

\* One round of the loop up to the request: a source is skipped, or chosen.
NextSource(t) ==
    LET s == Head(thread[t].todo)
        skip(missed) == /\ thread' = [thread EXCEPT ![t].todo = Tail(@)]
                        /\ lapse' = IF missed THEN Zero(lapse, {s}) ELSE lapse
    IN
    /\ thread[t].pc = "next"
    /\ IF thread[t].todo = <<>>
       THEN /\ thread' = [thread EXCEPT ![t] = Rest(t)] /\ lock' = Freed(t)
            /\ UNCHANGED lapse
       ELSE /\ IF Cancelled(t) \/ thread[t].left = 0 THEN skip(TRUE)
               ELSE IF UsedRecently(t, s) THEN skip(FALSE)
               ELSE thread' = [thread EXCEPT ![t].pc = "chosen"] /\ UNCHANGED lapse
            /\ UNCHANGED lock
    /\ UNCHANGED <<idle, current, paused, late>>

Send(t) ==
    /\ thread[t].pc = "chosen"
    /\ thread' = [thread EXCEPT ![t].pc = "calling"]
    /\ late' = IF thread[t].stop THEN [late EXCEPT ![t] = @ + 1] ELSE late
    /\ UNCHANGED <<idle, lapse, lock, current, paused>>

\* The server answers, or _warm_one swallows whatever was raised: a timeout,
\* no prefix cache, an endpoint that is not allowed.
Answer(t, ok) ==
    LET s == Head(thread[t].todo) IN
    /\ thread[t].pc = "calling"
    /\ thread' = [thread EXCEPT ![t].pc = "next", ![t].todo = Tail(@)]
    /\ idle' = IF ok THEN Zero(idle, {s}) ELSE idle
    /\ lapse' = Zero(lapse, {s})
    /\ UNCHANGED <<lock, current, paused, late>>

\* A real request ends and notes its prefix.
NoteUse(s) ==
    /\ idle' = Zero(idle, {s}) /\ lapse' = Zero(lapse, {s})
    /\ UNCHANGED <<lock, thread, current, paused, late>>

Pause ==
    /\ paused' = ~paused
    /\ UNCHANGED <<idle, lapse, lock, thread, current, late>>

\* Every thread that is alive waits for the time to pass.
Waits(t) ==
    \/ thread[t].pc \in {"new", "ended"}
    \/ thread[t].pc = "waiting" /\ ~Ends(t) /\ thread[t].timer < Interval
    \/ thread[t].pc = "calling" /\ thread[t].left > 0

Tick ==
    /\ \A t \in Threads : Waits(t)
    /\ idle' = [s \in Names |-> Least(idle[s] + 1, Interval + 1)]
    /\ lapse' = [s \in Names |-> IF KeptWarm THEN Least(lapse[s] + 1, Longest) ELSE lapse[s]]
    /\ thread' = [t \in Threads |->
            CASE thread[t].pc = "waiting" -> [thread[t] EXCEPT !.timer = @ + 1]
              [] thread[t].pc = "calling" -> [thread[t] EXCEPT !.left = @ - 1]
              [] OTHER -> thread[t]]
    /\ UNCHANGED <<lock, current, paused, late>>

Step(t) ==
    \/ Wake(t) \/ NextSource(t) \/ Send(t)
    \/ \E ok \in BOOLEAN : SetUp(t, ok) \/ Answer(t, ok)

Next ==
    \/ WarmUp \/ Stop \/ Pause \/ Tick
    \/ \E k \in Keepers : Start(k)
    \/ \E t \in Threads : Step(t)
    \/ \E s \in Names : NoteUse(s)

Spec == Init /\ [][Next]_vars

\* A thread that can go on does; a request to the server ends, with its
\* timeout at the latest.
Fairness == \A t \in Threads : WF_vars(Step(t))
FairSpec == Spec /\ Fairness

(***************************************************************************)
(* Properties.                                                             *)
(***************************************************************************)
\* The start-up warm-up, an operator's and two keep-warm threads, one of which
\* is still ending, never send prefixes to the server side by side
\* (_warmup_lock).
Sending(t) == thread[t].pc \in {"chosen", "calling"}
OneSender == \A t, u \in Threads : Sending(t) /\ Sending(u) => t = u

\* While a keep-warm runs, a source goes without a use, or a pass that tried or
\* had to skip it, for less than two intervals and two budgets: one that was
\* used just under an interval before a pass waits for the next one
\* (config.py: the prefix never sits unused for long enough).
WarmKept == \A s \in Names : lapse[s] < Longest

\* Once stopped, a keep-warm sends at most the request it had chosen.
QuietAfterStop == \A k \in Keepers : late[k] <= 1

\* Whatever fails in a pass, the next one finds the lock free.
LockReturned == \A t \in Threads : (lock = t) ~> (lock # t)

\* A stopped keep-warm ends, from wherever it was.
StoppedEnds == \A k \in Keepers : (thread[k].stop) ~> (thread[k].pc = "ended")
=============================================================================
