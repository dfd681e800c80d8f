SPECIFICATION FairSpec
CONSTANTS
    Engines = {"turn", "cte", "agent", "sql"}
    Chain <- TwoLocalsThenCloud
    Trusted = {"local", "backup"}
    AllowRemote = FALSE
    Candidates <- ThreeSources
    MaxCorrections = 2
    ValueCheck = TRUE
    Filters = {"ring"}
    None = None
INVARIANTS TypeOK BudgetKept PolicyKept ValuesChecked 
PROPERTIES Terminates
