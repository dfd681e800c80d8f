SPECIFICATION MCSpec
CONSTANTS
    Admins = {a1, a2}
    First = a1
    Askers = {q1}
    FileOrder <- TwoFiles
    Schema = "schema.yaml"
    Serialised = FALSE
    Crashes = TRUE
    MaxVersions = 4
    Nobody = Nobody
INVARIANTS TypeOK NoLostUpdate AllowlistKept DiskFollows
PROPERTIES ImplementsLine
