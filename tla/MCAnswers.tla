----------------------------- MODULE MCAnswers -----------------------------
(* Small instances, side by side, of the machines an answer passes through  *)
(* around the pipeline: the allowance of its caller, the joins its tables   *)
(* need, the call to the model, the database that runs the statement, the   *)
(* cache it may come from instead, the page it is shown on, the verdicts    *)
(* people give on it.  They share no state, so in a behaviour only the      *)
(* machine named by `part` moves and the others stay where they started.    *)
EXTENDS QueryCache, TLC

CONSTANTS Turns, Handlers, Triage, NoTurn, Outcomes, ReusesIds, MaxFlags, MaxCases, MaxCrashes,
          Sources, Tables, Pooled, PingAll, MaxRestarts, MaxAsked,
          Pieces, Retries, Timeout,
          Sessions, Demo, NoSession,
          Peers, Trusted, Forwarded, NoHeader

VARIABLES part,
          rlNow, buckets, spent, others, promise,
          audit, flags, raised, confirmed, golden, tvReq, crashes, orphaned,
          given, cut,
          server, mode, page, pending, busy, reloads, away, crossed,
          homes, engines, lock, pool, up, query, asked, restarts,
          graph, placed, selected, unjoined, component, added, unfit, done,
          model, sent, sentinel, posts

limit == <<rlNow, buckets, spent, others, promise>>
verdict == <<audit, flags, raised, confirmed, golden, tvReq, crashes, orphaned, given, cut>>
web == <<server, mode, page, pending, busy, reloads, away, crossed>>
data == <<homes, engines, lock, pool, up, query, asked, restarts>>
joins == <<graph, placed, selected, unjoined, component, added, unfit, done>>
llm == <<model, sent, sentinel, posts>>

\* One request in a window of two, among callers with and without a key; and
\* two requests in a window of three, where a refill is a fraction.
R == INSTANCE RateLimit WITH now <- rlNow,
        Identities <- {"failed", "none"}, Requests <- 1, Burst <- 0, AuthRequests <- 1,
        Window <- 2, MaxTracked <- 2, MaxTime <- 1, MaxSpent <- 2
F == INSTANCE RateLimit WITH now <- rlNow,
        Identities <- {"none"}, Requests <- 2, Burst <- 0, AuthRequests <- 1,
        Window <- 3, MaxTracked <- 2, MaxTime <- 2, MaxSpent <- 3
ASSUME LimitsConfigured == R!Configured /\ F!Configured
V == INSTANCE TurnVerdicts WITH req <- tvReq
ASSUME VerdictsConfigured == V!Configured
W == INSTANCE WebClient WITH
        Fails <- TRUE, MaxTurns <- 2, MaxReloads <- 1, MaxAway <- 1
ASSUME PageConfigured == W!Configured
TwoSources == <<"A", "B">>
X == INSTANCE Execution WITH Queries <- Requests
ASSUME DataConfigured == X!Configured
\* Every graph of four tables, two of which share a bare name; keys and sources
\* chosen so that names, keys and sources each decide some join.
J == INSTANCE JoinPaths WITH homes <- placed, pending <- unjoined, dropped <- unfit,
        Tables <- 1 .. 4, Bare <- <<"x", "x", "y", "z">>, Schema <- <<"s", "r", "s", "r">>,
        Facts <- {1}, MaxHops <- 3, HubDegree <- 2, MaxAdded <- 1,
        Declared <- SUBSET {p \in SUBSET (1 .. 4) : Cardinality(p) = 2},
        Keyed <- {{}, {<<3, "x">>}, {<<2, "y">>, <<4, "x">>}, {<<1, "z">>, <<3, "z">>}},
        Placed <- {<<{}, {}, {}, {}>>, <<{"A"}, {"A", "B"}, {"B"}, {"A", "B"}>>,
                   <<{"A"}, {"B"}, {"A", "B"}, {"B"}>>, <<{"A", "B"}, {"B"}, {"A"}, {"A", "B"}>>},
        Retrieved <- {<<4, 1>>, <<1, 3>>, <<3, 1, 4>>, <<2, 4, 1>>}
C == INSTANCE ModelCall WITH call <- model
ASSUME CallConfigured == C!Configured

\* The verdicts three times: two analysts' threads beside one admin's who writes
\* no golden cases; one beside two admins'; one beside one, over two turns.
VerdictParts == {"verdicts", "triage", "reuse"}
Parts == VerdictParts \cup {"cache", "callers", "refill", "page", "data", "joins", "llm"}

Chosen(S) == CHOOSE x \in S : TRUE
AtRest(threads) == \A w \in threads : tvReq'[w].pc = "free"
VerdictsNext ==
    /\ V!Next
    /\ part # "verdicts" => AtRest(Handlers \ {Chosen(Handlers)})
    /\ part # "triage" => AtRest(Triage \ {Chosen(Triage)})
    /\ IF part = "verdicts" THEN UNCHANGED golden ELSE UNCHANGED audit
    /\ part = "reuse" => UNCHANGED crashes

\* At most two requests at once; a behaviour ends where two conversations meet,
\* of which nothing is claimed.
PageNext == ~crossed /\ W!Next /\ Cardinality(pending') <= 2 /\ (reloads + away)' <= 1

MCInit ==
    /\ part \in Parts
    /\ Init /\ (IF part = "refill" THEN F!Init ELSE R!Init) /\ V!Init /\ W!Init
    /\ X!Init /\ C!Init
    /\ IF part = "joins" THEN J!Init
       ELSE graph = {} /\ placed = <<>> /\ selected = <<>> /\ done = TRUE
            /\ unjoined = {} /\ component = {} /\ added = <<>> /\ unfit = {}
    /\ part # "verdicts" => audit[Chosen(Turns)] = "ok"
    /\ \A t \in Turns \ {Chosen(Turns)} : audit[t] = (IF part = "reuse" THEN "ok" ELSE "none")
    /\ part # "page" => \A s \in Sessions : server[s].there = "live"
    /\ part # "data" => \A t \in DOMAIN homes : homes[t] = {"A"}

MCNext ==
    /\ UNCHANGED part
    /\ \/ part = "cache" /\ Next /\ UNCHANGED <<limit, verdict, web, data, joins, llm>>
       \/ part = "callers" /\ R!Next /\ UNCHANGED <<vars, verdict, web, data, joins, llm>>
       \/ part = "refill" /\ F!Next /\ UNCHANGED <<vars, verdict, web, data, joins, llm>>
       \/ part \in VerdictParts /\ VerdictsNext /\ UNCHANGED <<vars, limit, web, data, joins, llm>>
       \/ part = "page" /\ PageNext /\ UNCHANGED <<vars, limit, verdict, data, joins, llm>>
       \/ part = "data" /\ X!Next /\ UNCHANGED <<vars, limit, verdict, web, joins, llm>>
       \/ part = "joins" /\ J!Next /\ UNCHANGED <<vars, limit, verdict, web, data, llm>>
       \/ part = "llm" /\ C!Next /\ UNCHANGED <<vars, limit, verdict, web, data, joins>>

MCSpec == MCInit /\ [][MCNext]_<<part, vars, limit, verdict, web, data, joins, llm>>

MCTypeOK ==
    /\ part = "cache" => TypeOK
    /\ part = "callers" => R!TypeOK
    /\ part = "refill" => F!TypeOK
    /\ part \in VerdictParts => V!TypeOK
    /\ part = "page" => W!TypeOK
    /\ part = "data" => X!TypeOK
    /\ part = "llm" => C!TypeOK

\* The properties of the machines, by the names they have there, those of one
\* machine together.
RateSound ==
    /\ [](/\ part = "callers" => R!RateKept /\ R!RetryHonest
          /\ part = "refill" => F!RateKept /\ F!RetryHonest)
    /\ R!OnlyLeastRecentForgotten
VerdictsSound ==
    /\ [](V!VerdictsExclude /\ V!GoldenBacked /\ V!PromotedDecided)
    /\ V!ConfirmedRan /\ V!ResolvedStays /\ V!DecisionFinal
PageSound ==
    /\ [](part = "page" => W!TranscriptOfSession /\ W!CacheOfSession)
    /\ W!AskedWhereShown
ExecutionSound == X!ExecutionSound
\* What the joins' types are depends on what the search returns.
JoinSound == part = "joins" => J!TypeOK /\ J!JoinSound
CallSound == C!CallSound

Interchangeable == Permutations(Requests) \cup Permutations(Sessions)
=============================================================================
