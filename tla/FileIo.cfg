SPECIFICATION Spec
CONSTANTS
    Calls <- Reported
    Chunks = 4
    MaxFailures = 2
INVARIANTS Released ErrorReturned
