SPECIFICATION MCSpec
CONSTANTS
    Calls = {c1, c2, c3}
    Routes = {"query", "stream", "turns"}
    Slots = 2
    Permits = 1
    Spare = c3
    PoolSize = 2
    MaxStages = 1
    Toggles = 1
    Sources <- TwoSources
    Interval = 1
    Budget = 1
    Keepers = {k1, k2}
    Columns = {v1}
    Ttl = 1
    Backoff = 2
    Manual = {m1}
    StartFails = FALSE
INVARIANTS MCTypeOK AdmissionSound WarmSound
PROPERTIES AllGivenBack VocabularySound
CHECK_DEADLOCK FALSE
