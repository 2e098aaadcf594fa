SPECIFICATION Spec
CONSTANT Documents <- MCDocuments
INVARIANTS SkippedIsReported DiagnosticsOwned Lossless ModesAgree ErrorsAreReported DefinitionsFound ScannedAreParsed
PROPERTIES BoundariesKept Terminates
CHECK_DEADLOCK FALSE
