----------------------------- MODULE HeartBeat ------------------------------
(***************************************************************************)
(* The heart-beat timer of one session (Common/Timer, Common/HB_Timer) and *)
(* the three threads of control that touch it:                             *)
(*                                                                         *)
(*   - the signal handler, run at every expiry of the POSIX timer, on any  *)
(*     thread: it gives up after more than Threshold missed beats, or else *)
(*     queues a job;                                                       *)
(*   - the worker that runs the job, sendHeartBeat: it sends a packet and  *)
(*     increments m_timeout WITHOUT the timer's mutex, in two memory       *)
(*     accesses;                                                           *)
(*   - the I/O thread, which refreshes the timer (stop, then start) for    *)
(*     each packet of the client, and with the worker may expire the       *)
(*     session, deleting the timer that queued jobs still point to.        *)
(*                                                                         *)
(* That jobs run one at a time and that nothing is queued while one runs   *)
(* comes from JobQueue.tla (SerialJobs, NoPushDuringJob).                  *)
(***************************************************************************)
EXTENDS Naturals

CONSTANTS
    HandlerThreads,     \* where the signal may land: "io" and / or "other"
    MaxBeats            \* bound: heart-beat jobs queued at a time

ASSUME HandlerThreadsAssumption == HandlerThreads \subseteq {"io", "other"}

ASSUME MaxBeatsAssumption == MaxBeats \in Nat \ {0}

Threshold == 3          \* HB_Timer::handler: timeout > 3

\* sendHeartBeat: what m_timeout becomes when the connection is broken.
Broken == 4

\* Bound: m_timeout (32 bits wide in the code) stops counting here.  It is only
\* ever compared with Threshold, so the values above look the same.
MaxTimeout == 5

VARIABLES
    peer,       \* the client: "up", "silent" (no packet any more), "broken"
    state,      \* Timer::m_state
    armed,      \* whether the kernel's timer is set
    timeout,    \* Timer::m_timeout
    owner,      \* who holds Timer::m_mutexForTimer: "free" or "io"
    io,         \* where the I/O thread is in this session's timer
    handler,    \* where the signal handler is
    on,         \* the thread it interrupted
    beats,      \* sendHeartBeat jobs in the job queue
    worker,     \* where the worker is in sendHeartBeat
    loaded,     \* the value its m_timeout++ has read
    gone,       \* the session was expired: the timer is freed memory
    killed,     \* the process was terminated
    missed,     \* history: beats sent since the last refresh
    failed,     \* history: a send failed since the last refresh
    raced       \* history: the last refresh fell inside somebody's
                \*   read-and-act on m_timeout

timerVars == <<state, armed, timeout, owner>>
history == <<missed, failed, raced>>
vars == <<peer, timerVars, io, handler, on, beats, worker, loaded, gone,
          killed, history>>

Init ==
    /\ peer = "up"
    /\ state = "SLEEP"
    /\ armed = FALSE
    /\ timeout = 0
    /\ owner = "free"
    /\ io = "awake"
    /\ handler = "off"
    /\ on = "other"
    /\ beats = 0
    /\ worker = "idle"
    /\ loaded = 0
    /\ gone = FALSE
    /\ killed = FALSE
    /\ missed = 0
    /\ failed = FALSE
    /\ raced = FALSE

\* The I/O thread stands still while a handler runs on it.
IOCanStep == handler = "off" \/ on # "io"

\* Using the freed timer is undefined: the process dies, or nothing shows.
UseFreed == gone /\ killed' \in BOOLEAN

-----------------------------------------------------------------------------
(* Mutants: plausible slips in this code, used to test the properties *)

\* stop() does not disarm the kernel's timer.
IOStop_StaysArmed ==
    /\ io = "stopping"
    /\ IOCanStep
    /\ timeout' = 0
    /\ state' = IF state = "SLEEP" THEN state ELSE "STOP"
    /\ owner' = "free"
    /\ io' = "start"
    /\ missed' = 0
    /\ failed' = FALSE
    /\ raced' = (worker = "store" \/ handler = "stop")
    /\ UNCHANGED <<armed, peer, handler, on, beats, worker, loaded, gone,
                   killed>>

\* stop() does not reset m_timeout.
IOStop_KeepsCount ==
    /\ io = "stopping"
    /\ IOCanStep
    /\ IF state = "SLEEP"
       THEN UNCHANGED <<state, armed>>
       ELSE state' = "STOP" /\ armed' = FALSE
    /\ owner' = "free"
    /\ io' = "start"
    /\ missed' = 0
    /\ failed' = FALSE
    /\ raced' = (worker = "store" \/ handler = "stop")
    /\ UNCHANGED <<timeout, peer, handler, on, beats, worker, loaded, gone,
                   killed>>

\* sendHeartBeat counts failed sends only.
Store_NoIncrement ==
    /\ worker = "store"
    /\ ~gone
    /\ timeout' = loaded
    /\ worker' = "idle"
    /\ missed' = IF missed > Threshold THEN missed ELSE missed + 1
    /\ UNCHANGED <<peer, state, armed, owner, io, handler, on, beats, loaded,
                   gone, killed, failed, raced>>

-----------------------------------------------------------------------------
(* The client and its connection *)

PeerFails ==
    /\ \/ peer = "up" /\ peer' \in {"silent", "broken"}
       \/ peer = "silent" /\ peer' = "broken"
    /\ UNCHANGED <<timerVars, io, handler, on, beats, worker, loaded, gone,
                   killed, history>>

-----------------------------------------------------------------------------
(* The I/O thread *)

\* SessionManager::validate: Session::init (awake), then startTimers (start).
Awake ==
    /\ io = "awake"
    /\ state' = "AWAKEN"
    /\ io' = "start"
    /\ UNCHANGED <<peer, armed, timeout, owner, handler, on, beats, worker,
                   loaded, gone, killed, history>>

\* A packet of the client arrived: SessionManager::refresh finds the timer.
Packet ==
    /\ io = "idle"
    /\ IOCanStep
    /\ peer = "up"
    /\ ~gone
    /\ io' = "stop"
    /\ UNCHANGED <<peer, timerVars, handler, on, beats, worker, loaded, gone,
                   killed, history>>

\* lock_guard on m_mutexForTimer in stop() and in start().
IOLock ==
    /\ io \in {"stop", "start"}
    /\ IOCanStep
    /\ ~gone
    /\ owner = "free"
    /\ owner' = "io"
    /\ io' = IF io = "stop" THEN "stopping" ELSE "starting"
    /\ UNCHANGED <<peer, state, armed, timeout, handler, on, beats, worker,
                   loaded, gone, killed, history>>

\* The body of stop() and its unlock.
IOStop ==
    /\ io = "stopping"
    /\ IOCanStep
    /\ timeout' = 0
    /\ IF state = "SLEEP"
       THEN UNCHANGED <<state, armed>>
       ELSE state' = "STOP" /\ armed' = FALSE
    /\ owner' = "free"
    /\ io' = "start"
    /\ missed' = 0
    /\ failed' = FALSE
    /\ raced' = (worker = "store" \/ handler = "stop")
    /\ UNCHANGED <<peer, handler, on, beats, worker, loaded, gone, killed>>

\* The body of start() and its unlock.  Its guard reads
\* m_state != (TIMER_SLEEP | TIMER_WORKING), that is m_state != TIMER_WORKING.
IOStart ==
    /\ io = "starting"
    /\ IOCanStep
    /\ IF state = "WORKING"
       THEN UNCHANGED <<state, armed>>
       ELSE state' = "WORKING" /\ armed' = TRUE
    /\ owner' = "free"
    /\ io' = "idle"
    /\ UNCHANGED <<peer, timeout, handler, on, beats, worker, loaded, gone,
                   killed, history>>

\* The worker expired the session meanwhile: stop() or start() on a deleted
\* timer (start throws Start_Ex, which nobody catches).
IOUsesFreed ==
    /\ io \in {"stop", "start"}
    /\ IOCanStep
    /\ UseFreed
    /\ io' = "idle"
    /\ UNCHANGED <<peer, timerVars, handler, on, beats, worker, loaded, gone,
                   history>>

\* SessionManager::expired: asleep(), then delete.  By the I/O thread when its
\* read fails, by a worker when its write (processMSG) fails.
Expire ==
    /\ peer = "broken"
    /\ ~gone
    /\ \/ io = "idle" /\ IOCanStep
       \/ worker = "idle"
    /\ owner = "free"
    /\ io # "awake"
    /\ state' = "SLEEP"
    /\ armed' = FALSE
    /\ gone' = TRUE
    /\ UNCHANGED <<peer, timeout, owner, io, handler, on, beats, worker,
                   loaded, killed, history>>

-----------------------------------------------------------------------------
(* HB_Timer::handler, in signal context *)

\* The timer expires.  On the I/O thread the signal may also interrupt
\* epoll_wait: run() prints the Epoll_Ex("EINTR") and nothing else happens.
Fire(t) ==
    /\ armed
    /\ handler = "off"
    /\ beats < MaxBeats
    /\ handler' = "read"
    /\ on' = t
    /\ UNCHANGED <<peer, timerVars, io, beats, worker, loaded, gone, killed,
                   history>>

\* lock(); int timeout = m_timeout; unlock()
HandlerRead ==
    /\ handler = "read"
    /\ ~gone
    /\ owner = "free"
    /\ handler' = IF timeout > Threshold THEN "stop" ELSE "enqueue"
    /\ UNCHANGED <<peer, timerVars, io, on, beats, worker, loaded, gone,
                   killed, history>>

\* pTimer->stop()
HandlerStop ==
    /\ handler = "stop"
    /\ ~gone
    /\ owner = "free"
    /\ timeout' = 0
    /\ IF state = "SLEEP"
       THEN UNCHANGED <<state, armed>>
       ELSE state' = "STOP" /\ armed' = FALSE
    /\ handler' = "off"
    /\ UNCHANGED <<peer, owner, io, on, beats, worker, loaded, gone, killed,
                   history>>

\* JobQueue::enqueue(sendHeartBeat): waits for a running job to end.
HandlerEnqueue ==
    /\ handler = "enqueue"
    /\ worker = "idle"
    /\ beats' = beats + 1
    /\ handler' = "off"
    /\ UNCHANGED <<peer, timerVars, io, on, worker, loaded, gone, killed,
                   history>>

HandlerUsesFreed ==
    /\ handler \in {"read", "stop"}
    /\ UseFreed
    /\ handler' = "off"
    /\ UNCHANGED <<peer, timerVars, io, on, beats, worker, loaded, gone,
                   history>>

-----------------------------------------------------------------------------
(* HB_Timer::sendHeartBeat, on a worker *)

\* send_packet; on Connection_Ex, m_timeout = 4, with no lock.
Send ==
    /\ worker = "idle"
    /\ beats > 0
    /\ ~gone
    /\ beats' = beats - 1
    /\ worker' = "load"
    /\ IF peer = "broken"
       THEN timeout' = Broken /\ failed' = TRUE
       ELSE UNCHANGED <<timeout, failed>>
    /\ UNCHANGED <<peer, state, armed, owner, io, handler, on, loaded, gone,
                   killed, missed, raced>>

\* m_timeout++, the read ...
Load ==
    /\ worker = "load"
    /\ ~gone
    /\ loaded' = timeout
    /\ worker' = "store"
    /\ UNCHANGED <<peer, timerVars, io, handler, on, beats, gone, killed,
                   history>>

\* ... and the write, with no lock either.
Store ==
    /\ worker = "store"
    /\ ~gone
    /\ timeout' = IF loaded < MaxTimeout THEN loaded + 1 ELSE MaxTimeout
    /\ worker' = "idle"
    /\ missed' = IF missed > Threshold THEN missed ELSE missed + 1
    /\ UNCHANGED <<peer, state, armed, owner, io, handler, on, beats, loaded,
                   gone, killed, failed, raced>>

\* The job captured a raw pointer, and the session has been deleted since.
WorkerUsesFreed ==
    /\ \/ worker = "idle" /\ beats > 0 /\ beats' = beats - 1
       \/ worker # "idle" /\ UNCHANGED beats
    /\ UseFreed
    /\ worker' = "idle"
    /\ UNCHANGED <<peer, timerVars, io, handler, on, loaded, gone, history>>

-----------------------------------------------------------------------------
IOSteps == Awake \/ IOLock \/ IOStop \/ IOStart \/ IOUsesFreed

HandlerSteps ==
    HandlerRead \/ HandlerStop \/ HandlerEnqueue \/ HandlerUsesFreed

WorkerSteps == Send \/ Load \/ Store \/ WorkerUsesFreed

Expiry == \E t \in HandlerThreads : Fire(t)

Next ==
    /\ ~killed
    /\ \/ PeerFails
       \/ Packet
       \/ Expire
       \/ Expiry
       \/ IOSteps
       \/ HandlerSteps
       \/ WorkerSteps

SafeSpec == Init /\ [][Next]_vars

\* A set timer expires, and the threads and the handler run.  What the client
\* does, and when the server notices a broken connection, is not assumed.
Fairness ==
    /\ WF_vars(~killed /\ Expiry)
    /\ WF_vars(~killed /\ IOSteps)
    /\ WF_vars(~killed /\ HandlerSteps)
    /\ WF_vars(~killed /\ WorkerSteps)

Spec == SafeSpec /\ Fairness

-----------------------------------------------------------------------------
(* Properties *)

\* Shape of the state; m_state says whether the kernel's timer is set.
TypeOK ==
    /\ peer \in {"up", "silent", "broken"}
    /\ state \in {"SLEEP", "AWAKEN", "WORKING", "STOP"}
    /\ armed = (state = "WORKING")
    /\ timeout \in 0..MaxTimeout
    /\ owner \in {"free", "io"}
    /\ io \in {"awake", "idle", "stop", "stopping", "start", "starting"}
    /\ handler \in {"off", "read", "stop", "enqueue"}
    /\ on \in {"io", "other"}
    /\ beats \in 0..MaxBeats
    /\ worker \in {"idle", "load", "store"}
    /\ loaded \in 0..MaxTimeout
    /\ gone \in BOOLEAN
    /\ killed \in BOOLEAN
    /\ missed \in 0..(Threshold + 1)
    /\ failed \in BOOLEAN
    /\ raced \in BOOLEAN

GivesUp == handler = "stop" /\ handler' = "off" /\ ~gone

\* The handler gives a client up only after four beats without a packet from
\* it, or a failed send - or because a refresh was lost in a race.
FalseTimeoutOnlyByRace ==
    [][GivesUp => missed > Threshold \/ failed \/ raced]_vars

\* The handler interrupted the I/O thread inside stop() or start() of this very
\* timer, and waits for the mutex it holds.
SelfDeadlock ==
    /\ on = "io"
    /\ owner = "io"
    /\ handler \in {"read", "stop"}

Quiet ==
    \/ killed
    \/ SelfDeadlock
    \/ ~armed /\ handler = "off" /\ beats = 0 /\ worker = "idle"

\* A client that stops answering is noticed whatever is lost in the races: its
\* timer stops for good and the beats to it dry up.
DeadPeerQuiesces == peer # "up" ~> []Quiet

\* The timer was stopped because the client timed out.
TimedOut == state = "STOP" /\ io = "idle" /\ peer = "silent"

\* What the comments of the servers say: the handler's timeout means the
\* session is disconnected, and expired sessions are found and processed.
TimedOutSessionExpires == TimedOut ~> gone \/ killed
=============================================================================
