SPECIFICATION Spec
CONSTANTS
    Sids = {s1}
    Principals = {p1}
    Reqs = {r1, r2, r3}
    Kinds = {"create", "ask", "delete"}
    MaxSize = 1
    MaxTurns = 1
    Persistent = TRUE
    None = None
INVARIANTS DeletedStaysGone
