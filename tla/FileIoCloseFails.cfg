SPECIFICATION Spec
CONSTANTS
    Calls <- LateFailure
    Chunks = 3
    MaxFailures = 1
INVARIANTS SuccessIsWritten
