------------------------------ MODULE JobQueue ------------------------------
(***************************************************************************)
(* Common/JobQueue.cpp and Common/ThreadPool.cpp: the process-wide job     *)
(* queue and the pool of workers every server starts.                      *)
(*                                                                         *)
(* Three kinds of code call JobQueue::enqueue: the I/O thread (an event of *)
(* EpollServer was handled) and, in signal context on whatever thread the  *)
(* kernel interrupted, the handlers of HB_Timer and ReplicationTimer.  A   *)
(* worker try_locks the queue's mutex, waits on the condition variable     *)
(* until the queue is not empty, takes a job and RUNS IT WITHOUT RELEASING *)
(* THE MUTEX (the unique_lock lives until the end of the loop body).       *)
(***************************************************************************)
EXTENDS Naturals, Sequences

CONSTANTS
    Workers,        \* the threads of the ThreadPool (POOL_SIZE of them)
    IOThread,       \* the thread of EpollServer::waitEventRoutine
    MainThread,     \* the thread that ran init()
    SigThreads,     \* the threads a timer signal may interrupt
    NoThread,       \* "nobody" as the owner of the mutex
    MaxJobs         \* bound: calls of enqueue in a behaviour

Threads == Workers \cup {IOThread, MainThread}

ASSUME ThreadsAssumption ==
    /\ IOThread \notin Workers
    /\ MainThread \notin Workers
    /\ IOThread # MainThread
    /\ NoThread \notin Threads
    /\ SigThreads \subseteq Threads
    /\ Workers # {}

ASSUME BoundAssumption == MaxJobs \in Nat

\* An activation of enqueue is named by its thread and by what called it.
Callers == {<<IOThread, "event">>} \cup (SigThreads \X {"signal"})

NoJob == 0

VARIABLES
    mutex,          \* JobQueue::m_mutex: the owning thread, or NoThread
    queue,          \* JobQueue::m_queue, jobs numbered in the order of push
    pc,             \* where each worker is in ThreadPool::workerThread
    job,            \* each worker's local `job', kept between iterations
    stage,          \* where each activation of enqueue is
    calls,          \* history: calls of enqueue begun
    pushed,         \* history: jobs pushed
    done            \* history: jobs that returned, in order

vars == <<mutex, queue, pc, job, stage, calls, pushed, done>>

\* A thread's own code stands still while a signal handler runs on it.
Interrupted(t) == t \in SigThreads /\ stage[<<t, "signal">>] # "idle"

CanStep(c) == c[2] = "signal" \/ ~Interrupted(c[1])

Init ==
    /\ mutex = NoThread
    /\ queue = << >>
    /\ pc = [w \in Workers |-> "try"]
    /\ job = [w \in Workers |-> NoJob]
    /\ stage = [c \in Callers |-> "idle"]
    /\ calls = 0
    /\ pushed = 0
    /\ done = << >>

-----------------------------------------------------------------------------
(* Mutants: plausible slips in this code, used to test the properties *)

\* notify_one() forgotten in enqueue.
Push_NoNotify(c) ==
    /\ stage[c] = "push"
    /\ CanStep(c)
    /\ pushed' = pushed + 1
    /\ queue' = Append(queue, pushed + 1)
    /\ mutex' = NoThread
    /\ stage' = [stage EXCEPT ![c] = "idle"]
    /\ UNCHANGED <<pc, job, calls, done>>

\* key.unlock() before job(): what a pool usually does.
Dequeue_ReleaseKey(w) ==
    /\ pc[w] = "check"
    /\ ~Interrupted(w)
    /\ queue # << >>
    /\ job' = [job EXCEPT ![w] = Head(queue)]
    /\ queue' = Tail(queue)
    /\ mutex' = NoThread
    /\ pc' = [pc EXCEPT ![w] = "run"]
    /\ UNCHANGED <<stage, calls, pushed, done>>

\* wait(key) without the predicate: dequeue may find nothing, and job() runs
\* whatever the local variable still holds.
Relock_NoPredicate(w) ==
    /\ pc[w] = "woken"
    /\ ~Interrupted(w)
    /\ mutex = NoThread
    /\ mutex' = w
    /\ pc' = [pc EXCEPT ![w] = "run"]
    /\ IF queue = << >>
       THEN UNCHANGED <<job, queue>>
       ELSE /\ job' = [job EXCEPT ![w] = Head(queue)]
            /\ queue' = Tail(queue)
    /\ UNCHANGED <<stage, calls, pushed, done>>

-----------------------------------------------------------------------------
(* JobQueue::enqueue *)

\* The event loop handled an event, or a timer signal arrives on thread c[1].
Call(c) ==
    /\ stage[c] = "idle"
    /\ CanStep(c)
    /\ calls < MaxJobs
    /\ calls' = calls + 1
    /\ stage' = [stage EXCEPT ![c] = "lock"]
    /\ UNCHANGED <<mutex, queue, pc, job, pushed, done>>

\* m_mutex.lock(): blocks, also when c's own thread is the owner.
Lock(c) ==
    /\ stage[c] = "lock"
    /\ CanStep(c)
    /\ mutex = NoThread
    /\ mutex' = c[1]
    /\ stage' = [stage EXCEPT ![c] = "push"]
    /\ UNCHANGED <<queue, pc, job, calls, pushed, done>>

\* m_queue.push(job); m_mutex.unlock()
Push(c) ==
    /\ stage[c] = "push"
    /\ CanStep(c)
    /\ pushed' = pushed + 1
    /\ queue' = Append(queue, pushed + 1)
    /\ mutex' = NoThread
    /\ stage' = [stage EXCEPT ![c] = "notify"]
    /\ UNCHANGED <<pc, job, calls, done>>

\* m_conditionVar.notify_one(), after the unlock: wakes one waiter, if any.
Notify(c) ==
    /\ stage[c] = "notify"
    /\ CanStep(c)
    /\ stage' = [stage EXCEPT ![c] = "idle"]
    /\ \/ /\ \A w \in Workers : pc[w] # "wait"
          /\ pc' = pc
       \/ \E w \in Workers :
            /\ pc[w] = "wait"
            /\ pc' = [pc EXCEPT ![w] = "woken"]
    /\ UNCHANGED <<mutex, queue, job, calls, pushed, done>>

-----------------------------------------------------------------------------
(* ThreadPool::workerThread *)

\* key.try_lock(); on failure the worker goes round again (a stutter).
TryLock(w) ==
    /\ pc[w] = "try"
    /\ ~Interrupted(w)
    /\ mutex = NoThread
    /\ mutex' = w
    /\ pc' = [pc EXCEPT ![w] = "check"]
    /\ UNCHANGED <<queue, job, stage, calls, pushed, done>>

\* The predicate of wait is false: release the mutex and sleep.
Sleep(w) ==
    /\ pc[w] = "check"
    /\ ~Interrupted(w)
    /\ queue = << >>
    /\ mutex' = NoThread
    /\ pc' = [pc EXCEPT ![w] = "wait"]
    /\ UNCHANGED <<queue, job, stage, calls, pushed, done>>

\* The predicate holds: dequeue(job), then job() begins; the mutex is kept.
Dequeue(w) ==
    /\ pc[w] = "check"
    /\ ~Interrupted(w)
    /\ queue # << >>
    /\ job' = [job EXCEPT ![w] = Head(queue)]
    /\ queue' = Tail(queue)
    /\ pc' = [pc EXCEPT ![w] = "run"]
    /\ UNCHANGED <<mutex, stage, calls, pushed, done>>

\* A wait may return with no notification.
SpuriousWakeup(w) ==
    /\ pc[w] = "wait"
    /\ pc' = [pc EXCEPT ![w] = "woken"]
    /\ UNCHANGED <<mutex, queue, job, stage, calls, pushed, done>>

\* The woken worker gets the mutex back inside wait, and tests the predicate.
Relock(w) ==
    /\ pc[w] = "woken"
    /\ ~Interrupted(w)
    /\ mutex = NoThread
    /\ mutex' = w
    /\ pc' = [pc EXCEPT ![w] = "check"]
    /\ UNCHANGED <<queue, job, stage, calls, pushed, done>>

\* job() returns (an empty function throws bad_function_call, swallowed), and
\* the end of the loop body destroys key.  `job' keeps its value.
Finish(w) ==
    /\ pc[w] = "run"
    /\ ~Interrupted(w)
    /\ done' = IF job[w] = NoJob THEN done ELSE Append(done, job[w])
    /\ mutex' = NoThread
    /\ pc' = [pc EXCEPT ![w] = "try"]
    /\ UNCHANGED <<queue, job, stage, calls, pushed>>

-----------------------------------------------------------------------------
Enqueue(c) == Lock(c) \/ Push(c) \/ Notify(c)

Work(w) == TryLock(w) \/ Sleep(w) \/ Dequeue(w) \/ Relock(w) \/ Finish(w)

Next ==
    \/ \E c \in Callers : Call(c) \/ Enqueue(c)
    \/ \E w \in Workers : Work(w) \/ SpuriousWakeup(w)

SafeSpec == Init /\ [][Next]_vars

\* Threads that can run do run, and jobs return.  A call of enqueue and a
\* spurious wake-up are choices of the environment.
Fairness ==
    /\ \A c \in Callers : WF_vars(Enqueue(c))
    /\ \A w \in Workers : WF_vars(Work(w))

Spec == SafeSpec /\ Fairness

-----------------------------------------------------------------------------
(* Properties *)

Stages == {"idle", "lock", "push", "notify"}

\* Shape of the state; a worker never reaches job() with an empty function.
TypeOK ==
    /\ mutex \in Threads \cup {NoThread}
    /\ queue \in Seq(Nat \ {NoJob})
    /\ pc \in [Workers -> {"try", "check", "wait", "woken", "run"}]
    /\ job \in [Workers -> Nat]
    /\ stage \in [Callers -> Stages]
    /\ calls \in Nat
    /\ pushed \in Nat
    /\ done \in Seq(Nat \ {NoJob})
    /\ \A w \in Workers : pc[w] = "run" => job[w] # NoJob

\* Who is between lock and unlock is the owner, and nobody else is.
LockOwned ==
    /\ \A w \in Workers : pc[w] \in {"check", "run"} => mutex = w
    /\ \A c \in Callers : stage[c] = "push" => mutex = c[1]
    /\ \A c, d \in Callers : stage[c] = "push" /\ stage[d] = "push" => c = d
    /\ \A w \in Workers, c \in Callers :
          pc[w] \in {"check", "run"} => stage[c] # "push"

\* Eight workers, one job at a time: no two jobs overlap, whatever the number
\* of threads, because a job runs under the mutex of the queue.
SerialJobs ==
    \A v, w \in Workers : pc[v] = "run" /\ pc[w] = "run" => v = w

RunningJob ==
    IF mutex \in Workers
    THEN IF pc[mutex] = "run" THEN job[mutex] ELSE NoJob
    ELSE NoJob

Started == Len(done) + (IF RunningJob = NoJob THEN 0 ELSE 1)

\* Jobs run in the order they were pushed, each once: the stale `job' a worker
\* keeps between two iterations is never run again.
InOrder ==
    /\ \A i \in 1..Len(done) : done[i] = i
    /\ RunningJob # NoJob => RunningJob = Len(done) + 1
    /\ \A i \in 1..Len(queue) : queue[i] = Started + i
    /\ pushed = Started + Len(queue)

\* notify_one comes after unlock, so another worker may sleep in between; still
\* no job is left behind: with a job queued, some worker is awake or a
\* notification is on its way.
NoLostWakeup ==
    queue # << >> =>
        \/ \E w \in Workers : pc[w] # "wait"
        \/ \E c \in Callers : stage[c] = "notify"

\* Nothing is enqueued while a job runs: the I/O thread's enqueue (and a
\* timer's) stands still for as long as the job takes.
NoPushDuringJob ==
    [][pushed' # pushed => \A w \in Workers : pc[w] # "run"]_vars

\* The queue and the pool implement the serial executor.
Executor == INSTANCE SerialExecutor WITH
    submitted <- pushed, todo <- queue, running <- RunningJob, done <- done

ImplementsExecutorSafely == Executor!SafeSpec

\* A handler that interrupts the owner of the mutex waits for the very thread
\* it has suspended.
SelfDeadlock ==
    \E t \in SigThreads : mutex = t /\ stage[<<t, "signal">>] = "lock"

\* Wherever the timer signals land, the pool is as live as the executor, and so
\* every job pushed runs and ends, unless a signal lands on the thread that owns
\* the mutex: that is the only way to lose a job.
LiveUnlessSelfDeadlock == []~SelfDeadlock => Executor!Fairness
=============================================================================
