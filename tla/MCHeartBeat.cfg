\* The signal may land on the I/O thread or elsewhere; two beats may queue up.
\* The server stops if it dies or if a thread waits for itself.
SPECIFICATION Spec
CONSTANTS
    HandlerThreads = {"io", "other"}
    MaxBeats = 2
INVARIANTS
    TypeOK
PROPERTIES
    FalseTimeoutOnlyByRace
    DeadPeerQuiesces
CHECK_DEADLOCK FALSE
