SPECIFICATION Spec
CONSTANTS
    Output <- DraftFiles
    Langs = {"en"}
    MaxSchemas = 2
    MaxRuns = 3
    MaxEdits = 0
INVARIANTS ReusedMatchesSchema
CHECK_DEADLOCK FALSE
