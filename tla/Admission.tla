----------------------------- MODULE Admission -----------------------------
(***************************************************************************)
(* What stands between an accepted connection and the pipeline:            *)
(* ConcurrencyMiddleware's slots (api/middleware.py), the maintenance      *)
(* check (api/maintenance.py), run_bounded's semaphore                     *)
(* (api/concurrency.py), the event loop's ready queue and the thread pool  *)
(* behind asyncio.to_thread, which the streamed turn of api/v2_routes.py   *)
(* uses twice: once for the work, once to wait for its events.             *)
(*                                                                         *)
(* Routes: "query" answers when the work is done (POST /query, POST turns),*)
(* "patch" is the assumptions route, "stream" is /query/stream, whose      *)
(* generator awaits the work itself, "turns" is a streamed turn, whose     *)
(* work is a task of its own.                                              *)
(***************************************************************************)
EXTENDS Naturals, Sequences, FiniteSets

CONSTANTS
    Calls,        \* requests of the four capped routes
    Routes,       \* the routes they may use
    Slots,        \* MAX_CONCURRENT_REQUESTS
    Permits,      \* QUERY_THREAD_LIMIT
    PoolSize,     \* workers of the loop's default executor, min(32, cpu + 4)
    MaxStages,    \* bound: stage events of one turn
    Toggles       \* bound: maintenance switches

ASSUME CallsAssumption == IsFiniteSet(Calls)
ASSUME RoutesAssumption == Routes \subseteq {"query", "patch", "stream", "turns"}
ASSUME LimitsAssumption ==
    /\ Slots \in Nat \ {0} /\ Permits \in Nat \ {0} /\ PoolSize \in Nat \ {0}
    /\ MaxStages \in Nat /\ Toggles \in Nat

VARIABLES
    active,       \* ConcurrencyMiddleware._active
    maint,        \* _state.active, and how often it was switched
    ready,        \* the event loop's ready queue
    permits,      \* Semaphore._value
    waiting,      \* Semaphore._waiters
    pool,         \* the executor's queue of work items
    busy,         \* the work items its threads are running
    events,       \* per call: the queue.Queue between worker and generator
    call          \* per call: its route, the handler's pc and the task's pc

vars == <<active, maint, ready, permits, waiting, pool, busy, events, call>>

AllRoutes == {"query", "patch", "stream", "turns"}
Streamed == {"stream", "turns"}
Item(c, what) == [of |-> c, what |-> what]
\* "end": run() put its sentinel and the thread has yet to return.
WorkItem == [of : Calls, what : {"run", "end", "get"}]
Callback == [of : Calls, what : {"start", "task", "granted", "ran", "stage", "done"}]

Idle == [route |-> "query", pc |-> "idle", task |-> "none", since |-> FALSE]

\* A call that holds one of the middleware's slots.
Held == {c \in Calls : call[c].pc \in {"checking", "starting", "awaiting", "reading", "joining"}}
\* A task that holds a permit: it was granted one and has not left the block.
Inside == {c \in Calls : call[c].task \in {"granted", "running"}}

TypeOK ==
    /\ active \in 0 .. Slots /\ permits \in 0 .. Permits
    /\ maint \in [on : BOOLEAN, switched : 0 .. Toggles]
    /\ ready \in Seq(Callback) /\ waiting \in Seq(Calls)
    /\ pool \in Seq(WorkItem) /\ busy \subseteq WorkItem
    /\ events \in [Calls -> Seq({"stage", "done"})]
    /\ call \in [Calls -> [route : AllRoutes, since : BOOLEAN,
                           pc : {"idle", "checking", "starting", "awaiting", "reading",
                                 "joining", "answered", "refused", "gone"},
                           task : {"none", "new", "waiting", "granted", "running", "done"}]]

Init ==
    /\ active = 0 /\ permits = Permits
    /\ maint = [on |-> FALSE, switched |-> 0]
    /\ ready = <<>> /\ waiting = <<>> /\ pool = <<>> /\ busy = {}
    /\ events = [c \in Calls |-> <<>>]
    /\ call = [c \in Calls |-> Idle]

Set(c, pc, task) == call' = [call EXCEPT ![c].pc = pc, ![c].task = task]

(***************************************************************************)
(* The middleware and the maintenance switch.                              *)
(***************************************************************************)
\* MUTANT: the streamed turn is missing from the capped routes.
CappedUnstreamed(route) == route # "turns"

\* _is_capped_request.
Capped(route) == route \in AllRoutes

\* MUTANT: off by one.
FullLate == active > Slots

\* _try_acquire.
Full == active >= Slots

\* A request reaches ConcurrencyMiddleware; its handler has still to resolve
\* the dependencies.  `since` remembers that maintenance was on by then.
Arrive(c) ==
    /\ call[c].pc = "idle"
    /\ \E route \in Routes :
        IF Capped(route) /\ Full
        THEN /\ call' = [call EXCEPT ![c] = [Idle EXCEPT !.route = route, !.pc = "refused"]]
             /\ UNCHANGED active
        ELSE /\ call' = [call EXCEPT ![c] = [Idle EXCEPT !.route = route, !.pc = "checking",
                                                         !.since = maint.on]]
             /\ active' = IF Capped(route) THEN active + 1 ELSE active
    /\ UNCHANGED <<maint, ready, permits, waiting, pool, busy, events>>

Toggle ==
    /\ maint.switched < Toggles
    /\ maint' = [on |-> ~maint.on, switched |-> maint.switched + 1]
    /\ call' = [c \in Calls |-> IF call[c].pc = "checking"
                                THEN [call[c] EXCEPT !.since = FALSE] ELSE call[c]]
    /\ UNCHANGED <<active, ready, permits, waiting, pool, busy, events>>

\* MUTANT: the streamed routes do not declare the dependency either.
GatedUnstreamed(route) == route = "query"

\* The routes that declare require_not_in_maintenance.
Gated(route) == route # "patch"

\* require_not_in_maintenance runs in a thread of its own before the handler;
\* it is the only look at the flag.
Check(c) ==
    /\ call[c].pc = "checking"
    /\ IF maint.on /\ Gated(call[c].route)
       THEN /\ Set(c, "refused", "none") /\ active' = active - 1
            /\ UNCHANGED ready
       ELSE /\ Set(c, "starting", "none")
            /\ ready' = Append(ready, Item(c, "start"))
            /\ UNCHANGED active
    /\ UNCHANGED <<maint, permits, waiting, pool, busy, events>>

(***************************************************************************)
(* The event loop: one callback at a time, in the order they became ready. *)
(***************************************************************************)
At(c, what) == ready # <<>> /\ Head(ready) = Item(c, what)

\* `async with semaphore` and the submission of the work.
Enter(c, pc, rest) ==
    IF permits > 0 /\ waiting = <<>>
    THEN /\ permits' = permits - 1 /\ pool' = Append(pool, Item(c, "run"))
         /\ Set(c, pc, "running") /\ ready' = rest /\ UNCHANGED waiting
    ELSE /\ waiting' = Append(waiting, c) /\ Set(c, pc, "waiting")
         /\ ready' = rest /\ UNCHANGED <<permits, pool>>

\* MUTANT: the permit is freed and handed to a waiter too.
LeaveTwice(queue) ==
    [permits |-> permits + 1, waiting |-> IF queue = <<>> THEN <<>> ELSE Tail(queue),
     woken |-> IF queue = <<>> THEN <<>> ELSE <<Item(Head(queue), "granted")>>]

\* MUTANT: the waiter that got the permit is not made ready.
LeaveAsleep(queue) ==
    IF queue = <<>> THEN [permits |-> permits + 1, waiting |-> <<>>, woken |-> <<>>]
    ELSE [permits |-> permits, waiting |-> Tail(queue), woken |-> <<>>]

\* Leaving the block hands the permit to the first waiter, or frees it.
\* Returns [permits, waiting, woken].
Leave(queue) ==
    IF queue = <<>> THEN [permits |-> permits + 1, waiting |-> <<>>, woken |-> <<>>]
    ELSE [permits |-> permits, waiting |-> Tail(queue),
          woken |-> <<Item(Head(queue), "granted")>>]

Release(queue, rest) ==
    LET left == Leave(queue) IN
    /\ permits' = left.permits /\ waiting' = left.waiting /\ ready' = rest \o left.woken

\* The woken waiter holds the permit already.
Woken(calls, queue) ==
    IF queue = <<>> THEN calls ELSE [calls EXCEPT ![Head(queue)].task = "granted"]

\* The handler's first step.  A streamed turn creates the task, which becomes
\* ready behind everything else, and at once submits its first events.get.
Start(c) ==
    /\ At(c, "start")
    /\ IF call[c].route = "turns"
       THEN /\ pool' = Append(pool, Item(c, "get"))
            /\ ready' = Append(Tail(ready), Item(c, "task"))
            /\ Set(c, "reading", "new")
            /\ UNCHANGED <<permits, waiting>>
       ELSE Enter(c, "awaiting", Tail(ready))
    /\ UNCHANGED <<active, maint, busy, events>>

RunTask(c) ==
    /\ At(c, "task")
    /\ Enter(c, call[c].pc, Tail(ready))
    /\ UNCHANGED <<active, maint, busy, events>>

Granted(c) ==
    /\ At(c, "granted")
    /\ pool' = Append(pool, Item(c, "run"))
    /\ Set(c, call[c].pc, "running") /\ ready' = Tail(ready)
    /\ UNCHANGED <<active, maint, permits, waiting, busy, events>>

\* The work's result reaches the coroutine that awaits it.
Ran(c) ==
    /\ At(c, "ran")
    /\ Release(waiting, Tail(ready))
    /\ LET answers == call[c].pc \in {"awaiting", "joining"} IN
       /\ call' = Woken([call EXCEPT ![c].pc = IF answers THEN "answered" ELSE @,
                                     ![c].task = "done"], waiting)
       /\ active' = IF answers THEN active - 1 ELSE active
    /\ UNCHANGED <<maint, pool, busy, events>>

\* One item of the event queue reaches the generator: it asks for the next, or
\* at the sentinel leaves the loop and awaits the task.
Progress(c) ==
    /\ At(c, "stage")
    /\ pool' = Append(pool, Item(c, "get")) /\ ready' = Tail(ready)
    /\ UNCHANGED <<active, maint, permits, waiting, busy, events, call>>

Join(c) ==
    /\ At(c, "done")
    /\ ready' = Tail(ready)
    /\ IF call[c].task = "done"
       THEN Set(c, "answered", "done") /\ active' = active - 1
       ELSE Set(c, "joining", call[c].task) /\ UNCHANGED active
    /\ UNCHANGED <<maint, permits, waiting, pool, busy, events>>

Loop(c) ==
    \/ Start(c) \/ RunTask(c) \/ Granted(c) \/ Ran(c) \/ Progress(c) \/ Join(c)

(***************************************************************************)
(* The pool's threads.                                                     *)
(***************************************************************************)
Take ==
    /\ pool # <<>> /\ Cardinality(busy) < PoolSize
    /\ busy' = busy \cup {Head(pool)} /\ pool' = Tail(pool)
    /\ UNCHANGED <<active, maint, ready, permits, waiting, events, call>>

Stages(c) == Cardinality({i \in DOMAIN events[c] : events[c][i] = "stage"})

OnStage(c) ==
    /\ Item(c, "run") \in busy /\ call[c].route = "turns" /\ Stages(c) < MaxStages
    /\ events' = [events EXCEPT ![c] = Append(@, "stage")]
    /\ UNCHANGED <<active, maint, ready, permits, waiting, pool, busy, call>>

\* MUTANT: without the `finally`, a turn that raises ends without the sentinel.
PutUnlessRaised(c, raised) == IF raised THEN events[c] ELSE Append(events[c], "done")

\* run() of _ask_turn_streaming_stages: the sentinel is put in a `finally`.
Put(c, raised) == Append(events[c], "done")

Return(c) ==
    ready' = IF call[c].task = "running" THEN Append(ready, Item(c, "ran")) ELSE ready

\* The work returns or raises; whoever awaits the thread, if anyone still
\* does, becomes ready.  A turn's sentinel is there before its result.
Finish(c, raised) ==
    /\ Item(c, "run") \in busy
    /\ IF call[c].route = "turns"
       THEN /\ busy' = (busy \ {Item(c, "run")}) \cup {Item(c, "end")}
            /\ events' = [events EXCEPT ![c] = Put(c, raised)]
            /\ UNCHANGED ready
       ELSE /\ busy' = busy \ {Item(c, "run")}
            /\ Return(c) /\ UNCHANGED events
    /\ UNCHANGED <<active, maint, permits, waiting, pool, call>>

End(c) ==
    /\ Item(c, "end") \in busy
    /\ busy' = busy \ {Item(c, "end")}
    /\ Return(c)
    /\ UNCHANGED <<active, maint, permits, waiting, pool, events, call>>

\* queue.Queue.get returns in its thread; a generator that is gone is not told.
Get(c) ==
    /\ Item(c, "get") \in busy /\ events[c] # <<>>
    /\ busy' = busy \ {Item(c, "get")}
    /\ events' = [events EXCEPT ![c] = Tail(@)]
    /\ ready' = IF call[c].pc = "reading" THEN Append(ready, Item(c, Head(events[c]))) ELSE ready
    /\ UNCHANGED <<active, maint, permits, waiting, pool, call>>

(***************************************************************************)
(* A client goes away: the response is cancelled where it stands, the      *)
(* middleware's `finally` frees the slot, a thread that already runs is not *)
(* interrupted.  Awaited work is cancelled with its handler; the task of a  *)
(* streamed turn goes on alone.                                            *)
(***************************************************************************)
\* A queue holds at most one of these.
Without(s, items) ==
    IF \E i \in DOMAIN s : s[i] \in items
    THEN LET i == CHOOSE i \in DOMAIN s : s[i] \in items
         IN  SubSeq(s, 1, i - 1) \o SubSeq(s, i + 1, Len(s))
    ELSE s

\* MUTANT: the task is cancelled with the generator that started it.
DetachedUntilRun(c) == call[c].pc = "reading" /\ call[c].task # "running"

\* The work is a task the generator does not await.
Detached(c) == call[c].pc = "reading"

Disconnect(c) ==
    /\ call[c].route \in Streamed /\ call[c].pc \in {"awaiting", "reading", "joining"}
    /\ active' = active - 1
    /\ IF Detached(c)
       THEN /\ pool' = Without(pool, {Item(c, "get")})
            /\ ready' = Without(ready, {Item(c, "stage"), Item(c, "done")})
            /\ call' = [call EXCEPT ![c].pc = "gone"]
            /\ UNCHANGED <<permits, waiting>>
       ELSE /\ pool' = Without(pool, {Item(c, "run")})
            /\ IF call[c].task = "waiting"
               THEN /\ waiting' = Without(waiting, {c})
                    /\ call' = [call EXCEPT ![c].pc = "gone", ![c].task = "done"]
                    /\ UNCHANGED <<permits, ready>>
               ELSE /\ Release(waiting, Without(ready, {Item(c, "granted"), Item(c, "ran")}))
                    /\ call' = Woken([call EXCEPT ![c].pc = "gone", ![c].task = "done"], waiting)
    /\ UNCHANGED <<maint, busy, events>>

\* Every call has been served and every thread is idle.
Quiet ==
    /\ \A c \in Calls : call[c].pc \in {"answered", "refused", "gone"}
    /\ ready = <<>> /\ pool = <<>> /\ busy = {}
    /\ UNCHANGED vars

Next ==
    \/ \E c \in Calls :
        \/ Arrive(c) \/ Check(c) \/ Loop(c)
        \/ OnStage(c) \/ End(c) \/ Get(c) \/ Disconnect(c)
        \/ \E raised \in BOOLEAN : Finish(c, raised)
    \/ Toggle \/ Take
    \/ Quiet

\* The loop and the threads run whenever they can; clients and admins need not.
Fairness ==
    /\ WF_vars(Take) /\ WF_vars(\E c \in Calls : Loop(c))
    /\ \A c \in Calls :
        /\ WF_vars(Check(c)) /\ WF_vars(End(c)) /\ WF_vars(Get(c))
        /\ WF_vars(\E raised \in BOOLEAN : Finish(c, raised))

Spec == Init /\ [][Next]_vars
FairSpec == Spec /\ Fairness

(***************************************************************************)
(* Properties.                                                             *)
(***************************************************************************)
\* However a call ends - answered, refused by maintenance, raised, cancelled
\* at any point - its slot comes back exactly once (middleware.py: a client
\* disconnect or exception always releases the slot, never leaking counts).
SlotsCounted == active = Cardinality(Held) /\ active <= Slots

\* A permit is in the semaphore or with exactly one task that is inside the
\* block, also when a waiter is cancelled in the moment it was woken; and no
\* task waits while a permit is free (api/concurrency.py, run_bounded).
PermitsCounted ==
    /\ permits + Cardinality(Inside) = Permits
    /\ permits > 0 => waiting = <<>>

\* No more threads do pipeline work than there are permits, not counting the
\* work of callers that went away, which nothing can stop.
WorkBounded ==
    Cardinality({c \in Calls : /\ Item(c, "run") \in busy
                               /\ ~(call[c].route = "stream" /\ call[c].pc = "gone")}) <= Permits

\* A thread waiting for a turn's next event has a producer that will still put
\* one: the worker has not ended without the sentinel, whatever it raised.
ReaderFed ==
    \A c \in Calls :
        (Item(c, "get") \in busy /\ events[c] = <<>>) =>
            \/ call[c].task \in {"new", "waiting", "granted"}
            \/ Item(c, "run") \in busy
            \/ \E i \in DOMAIN pool : pool[i] = Item(c, "run")

\* A query that arrived during maintenance, and saw no switch since, reaches
\* no handler (api/maintenance.py: new analyst queries are refused).
RefusedInMaintenance ==
    \A c \in Calls : call[c].since => call[c].pc \in {"idle", "checking", "refused"}

\* These together: what admission promises whatever happens.
AdmissionSound ==
    SlotsCounted /\ PermitsCounted /\ WorkBounded /\ ReaderFed /\ RefusedInMaintenance

\* Every call that got a slot gives it back: nothing waits for a thread that
\* never comes (api/v2_routes.py, _ask_turn_streaming_stages).
SlotReturned == \A c \in Calls : (c \in Held) ~> (c \notin Held)

\* Every thread waits for the events of a turn whose work has no thread yet.
Jammed ==
    /\ Cardinality(busy) = PoolSize
    /\ \A w \in busy : w.what = "get" /\ events[w.of] = <<>>

\* Every call that got a slot gives it back, unless the readers of streamed turns
\* take every thread before the work they wait for: no other order of calls,
\* errors, waiters and disconnects keeps a slot, and that one is final
\* (api/v2_routes.py, _ask_turn_streaming_stages).
SlotReturnedOrJammed ==
    /\ \A c \in Calls : (c \in Held) ~> (c \notin Held \/ Jammed)
    /\ [][Jammed => Jammed']_vars
=============================================================================
