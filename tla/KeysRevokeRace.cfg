SPECIFICATION OneSpec
CONSTANTS
    EnvKeys = {"e1", "e2"}
    EnvEntry <- Entries
    FreshKeys = {}
    Principals = {"ann", "bob"}
    Columns = {"c1"}
    Threads = {t1}
    Second = t1
    Routes = {"revoke"}
    Outages = FALSE
    Restarts = FALSE
    MaxTickets = 0
    None = None
INVARIANTS RevokedStopsAtOnce
