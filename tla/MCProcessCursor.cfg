\* The same command, polled by a client that keeps next_sequence.
SPECIFICATION Spec
CONSTANTS
    Procs = {p1}
    Stops = {}
    MaxRetained = 1
    MaxBytes = 3
    MaxChunks = 2
    CharBytes <- MCCharBytes
    KeepsNext = TRUE
    MaxWritten <- MCWritten
INVARIANTS
    PersistedCursorSuffices
CHECK_DEADLOCK FALSE
