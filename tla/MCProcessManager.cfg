\* One command that writes three bytes on two streams, and a call that stops it.
SPECIFICATION FairSpec
CONSTANTS
    Procs = {p1}
    Stops = {c1}
    MaxRetained = 1
    MaxBytes = 3
    MaxChunks = 2
    CharBytes <- MCCharBytes
    KeepsNext = FALSE
    MaxWritten <- MCWritten
INVARIANTS
    TypeOK
    OutputAccounting
    CompleteUnlessTold
    NoSurvivors
PROPERTIES
    PlaceGivenBack
CHECK_DEADLOCK FALSE
