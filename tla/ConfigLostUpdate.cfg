SPECIFICATION OneSpec
CONSTANTS
    Admins = {a1, a2}
    First = a1
    Askers = {}
    FileOrder <- TwoFiles
    Schema = "schema.yaml"
    Serialised = FALSE
    Crashes = FALSE
    MaxVersions = 3
    Nobody = Nobody
INVARIANTS NoLostUpdate
