SPECIFICATION Spec
CONSTANTS
    Engines = {"turn"}
    Chain <- JustLocal
    Trusted = {"local"}
    AllowRemote = FALSE
    Candidates <- TwoSources
    MaxCorrections = 1
    ValueCheck = TRUE
    Filters = {"ring"}
    None = None
INVARIANTS PromptsOfOneSource
