SPECIFICATION MCSpec
CONSTANTS
    EnvKeys = {"e1", "e2"}
    EnvEntry <- Entries
    FreshKeys = {"n1"}
    Principals = {"ann", "bob"}
    Columns = {"c1"}
    Threads = {t1, t2}
    Second = t2
    Routes = {"issue", "disable", "enable", "revoke", "acl", "grant", "demote", "submit", "approve", "deny"}
    Outages = TRUE
    Restarts = TRUE
    MaxTickets = 2
    None = None
INVARIANTS TypeOK AccessSound
PROPERTIES RevocationTakesHold LastHolderCounted DecisionFinal
