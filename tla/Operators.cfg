SPECIFICATION MCSpec
INVARIANTS MCTypeOK QuestionSound SetupSound SchemaSound GateSound
CHECK_DEADLOCK FALSE
