SPECIFICATION Spec
CONSTANTS
    Sids = {s1, s2}
    Principals = {p1, p2}
    Reqs = {r1, r2, r3}
    Kinds = {"create", "ask", "stream", "patch", "read", "rename", "delete"}
    MaxSize = 1
    MaxTurns = 1
    Persistent = TRUE
    None = None
SYMMETRY Symmetry
INVARIANTS TypeOK TranscriptIsolation AckedTurnDurable HotSetBounded
PROPERTIES GoneForGood EvictionStaysHome
