SPECIFICATION MCSpec
CONSTANTS
    Requests = {r1, r2}
    Questions = {q1}
    Sqls = {s1}
    Scopes = {all, some}
    NoScope = none
    Ttl = 1
    MaxSize = 2
    MaxVersion = 2
    MaxTime = 2
    Turns = {t1, t2}
    Handlers = {h1, h2}
    Triage = {a1, a2}
    NoTurn = NoTurn
    Outcomes = {"golden_case", "not_a_defect"}
    ReusesIds = TRUE
    MaxFlags = 2
    MaxCases = 2
    MaxCrashes = 1
    Sources <- TwoSources
    Tables = {"t", "u"}
    Pooled = 2
    PingAll = FALSE
    MaxRestarts = 1
    MaxAsked = 2
    Pieces = 2
    Retries = 2
    Timeout = 2
    Sessions = {c1, c2}
    Demo = Demo
    NoSession = NoSession
    Peers = {p1, proxy}
    Trusted = {proxy}
    Forwarded = {f1}
    NoHeader = NoHeader
SYMMETRY Interchangeable
INVARIANTS MCTypeOK CacheIsolated ExecutionSound JoinSound CallSound
PROPERTIES RateSound VerdictsSound PageSound
CHECK_DEADLOCK FALSE
