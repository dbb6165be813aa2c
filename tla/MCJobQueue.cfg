\* Two workers, the event loop, and an idle main thread; a timer signal may
\* interrupt any of them.  A thread that waits for itself stops the server, hence
\* CHECK_DEADLOCK FALSE.
SPECIFICATION Spec
CONSTANTS
    Workers = {w1, w2}
    IOThread = io
    MainThread = main
    SigThreads = {w1, w2, io, main}
    NoThread = none
    MaxJobs = 4
INVARIANTS
    TypeOK
    SerialJobs
    InOrder
    NoLostWakeup
PROPERTIES
    NoPushDuringJob
    ImplementsExecutorSafely
    LiveUnlessSelfDeadlock
CHECK_DEADLOCK FALSE
