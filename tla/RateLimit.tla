----------------------------- MODULE RateLimit -----------------------------
(***************************************************************************)
(* RateLimitMiddleware (api/middleware.py): token buckets per caller in one *)
(* OrderedDict with a bound on its size, behind AuthMiddleware             *)
(* (api/auth.py), which says who the caller is.                            *)
(*                                                                         *)
(* Tokens are counted in units of 1/Window, so that a second refills a      *)
(* bucket by its requests per window and one request costs Window.         *)
(***************************************************************************)
EXTENDS Integers, Sequences, FiniteSets

CONSTANTS
    Identities,    \* who AuthMiddleware may find the caller to be
    Peers,         \* TCP peers
    Trusted,       \* _TRUSTED_PROXIES, a subset of Peers
    Forwarded,     \* addresses an X-Forwarded-For header may name
    NoHeader,      \* a request without one
    Requests,      \* requests_per_window
    Burst,         \* burst
    AuthRequests,  \* auth_failure_requests_per_window
    Window,        \* window_seconds of both limits
    MaxTracked,    \* max_tracked_ips
    MaxTime,       \* bound: the clock
    MaxSpent       \* bound: requests of one source the history counts

VARIABLES
    now,      \* time.monotonic()
    buckets,  \* _buckets, least recently seen first
    spent,    \* history, per source: requests let through and since when
    others,   \* history, per key: the keys seen since it was
    promise   \* history, per key: when the last 429 said to come back

vars == <<now, buckets, spent, others, promise>>

Everyone == {"principal", "failed", "none"}

\* What an instance must be: every limit lets something through.
Configured ==
    /\ Identities \subseteq Everyone
    /\ Requests \in Nat \ {0} /\ AuthRequests \in Nat \ {0} /\ Burst \in Nat
    /\ Window \in Nat \ {0} /\ MaxTracked \in Nat \ {0}
    /\ MaxTime \in Nat /\ MaxSpent \in Nat

Ips == Peers \cup Forwarded
Keys == [id : Everyone \cap Identities, ip : Ips]
Never == MaxTime + Window + 2

\* MUTANT: the header is believed whoever sends it.
AnyHeader(peer, header) == IF header # NoHeader THEN header ELSE peer

\* _client_ip: only a trusted proxy speaks for somebody else.
ClientIp(peer, header) == IF peer \in Trusted /\ header # NoHeader THEN header ELSE peer

\* _bucket_key.
BucketKey(id, peer, header) == [id |-> id, ip |-> ClientIp(peer, header)]

\* Who really sends: the peer, or whom a trusted proxy names.
Source(id, peer, header) ==
    [id |-> id, ip |-> IF peer \in Trusted /\ header # NoHeader THEN header ELSE peer]

Rate(key) == IF key.id = "failed" THEN AuthRequests ELSE Requests
Capacity(key) == (Rate(key) + Burst) * Window

Positions(key) == {i \in DOMAIN buckets : buckets[i].key = key}
Tracked(key) == Positions(key) # {}
Place(key) == CHOOSE i \in Positions(key) : TRUE
Bucket(key) == buckets[Place(key)]
Without(key) == SubSeq(buckets, 1, Place(key) - 1) \o SubSeq(buckets, Place(key) + 1, Len(buckets))
Least(a, b) == IF a < b THEN a ELSE b

TypeOK ==
    /\ now \in 0 .. MaxTime
    /\ Len(buckets) <= MaxTracked
    /\ \A i \in DOMAIN buckets :
        /\ buckets[i].key \in Keys /\ buckets[i].last \in 0 .. now
        /\ buckets[i].tokens \in 0 .. Capacity(buckets[i].key)
    /\ spent \in [Keys -> [n : 0 .. MaxSpent, since : 0 .. MaxTime]]
    /\ others \in [Keys -> SUBSET Keys] /\ promise \in [Keys -> 0 .. Never]

Init ==
    /\ now = 0 /\ buckets = <<>>
    /\ spent = [k \in Keys |-> [n |-> 0, since |-> 0]]
    /\ others = [k \in Keys |-> {}]
    /\ promise = [k \in Keys |-> Never]

\* MUTANT: off by one, the table outgrows its bound.
OneTooMany(key) ==
    IF Tracked(key)
    THEN Append(Without(key), Bucket(key))
    ELSE Append(IF Len(buckets) > MaxTracked THEN Tail(buckets) ELSE buckets,
                [key |-> key, tokens |-> Capacity(key), last |-> now])

\* MUTANT: the bucket a caller comes back to keeps its place in the order.
StaysPut(key) ==
    IF Tracked(key) THEN buckets
    ELSE Append(IF Len(buckets) >= MaxTracked THEN Tail(buckets) ELSE buckets,
                [key |-> key, tokens |-> Capacity(key), last |-> now])

\* get, then popitem(last=False) and a full bucket, or move_to_end.
Touched(key) ==
    IF Tracked(key)
    THEN Append(Without(key), Bucket(key))
    ELSE Append(IF Len(buckets) >= MaxTracked THEN Tail(buckets) ELSE buckets,
                [key |-> key, tokens |-> Capacity(key), last |-> now])

Refilled(b) == Least(Capacity(b.key), b.tokens + (now - b.last) * Rate(b.key))

\* MUTANT: the wait is rounded down.
RoundedDown(tokens, key) == (Window - tokens) \div Rate(key)

\* The Retry-After header, int(retry_after) + 1.
RetryAfter(tokens, key) == (Window - tokens) \div Rate(key) + 1

\* Where a table has the bucket of a key.
At(table, key) == CHOOSE j \in DOMAIN table : table[j].key = key

\* _consume under its lock: refill, stamp, and take one request's worth.
Consume(key) ==
    LET touched == Touched(key)
        i == At(touched, key)
        tokens == Refilled(touched[i])
        allowed == tokens >= Window
    IN [allowed |-> allowed, tokens |-> tokens,
        buckets |-> [touched EXCEPT ![i] =
            [key |-> key, last |-> now, tokens |-> IF allowed THEN tokens - Window ELSE tokens]]]

\* What a request of `source` under `key` leaves behind.  The histories start
\* again with a key that is not tracked any more.
Charge(key, source, result) ==
    LET kept == {result.buckets[i].key : i \in DOMAIN result.buckets}
        lost == {k \in Keys : Tracked(k)} \ kept
    IN
    /\ spent[source].n < MaxSpent
    /\ buckets' = result.buckets
    /\ others' = [k \in Keys |-> IF k = key \/ ~Tracked(k) THEN {} ELSE others[k] \cup {key}]
    /\ spent' = [k \in Keys |->
            IF k \in lost THEN [n |-> 0, since |-> now]
            ELSE IF k = source /\ result.allowed THEN [spent[k] EXCEPT !.n = @ + 1] ELSE spent[k]]
    /\ promise' = [k \in Keys |->
            IF k \in lost \/ (k = key /\ result.allowed) THEN Never
            ELSE IF k = key THEN Least(Never, now + RetryAfter(result.tokens, key)) ELSE promise[k]]
    /\ UNCHANGED now

\* A request of a path that is not exempt.
Request(id, peer, header) ==
    LET key == BucketKey(id, peer, header)
    IN Charge(key, Source(id, peer, header), Consume(key))

Tick ==
    /\ now < MaxTime /\ now' = now + 1
    /\ UNCHANGED <<buckets, spent, others, promise>>

Next ==
    \/ \E id \in Identities, peer \in Peers, header \in Forwarded \cup {NoHeader} :
        Request(id, peer, header)
    \/ Tick

Spec == Init /\ [][Next]_vars

\* Whatever headers it sends, a source is let through at most its capacity and
\* what was refilled since its bucket was made; a failing key presented from
\* its address costs it nothing (RateLimitMiddleware, trusted_proxies).
RateKept ==
    \A k \in Keys : spent[k].n * Window <= Capacity(k) + (now - spent[k].since) * Rate(k)

\* A caller who waits as long as the 429 said is let through, whatever others
\* did meanwhile and however often it knocked before.
RetryHonest ==
    \A k \in Keys : (promise[k] <= now /\ Tracked(k)) => Refilled(Bucket(k)) >= Window

\* A bucket is forgotten only when max_tracked_ips other callers came since its
\* caller was last seen.
OnlyLeastRecentForgotten ==
    [][\A k \in Keys : (Tracked(k) /\ ~Tracked(k)') => Cardinality(others'[k]) >= MaxTracked]_vars
=============================================================================
