--------------------------- MODULE JobQueueProofs ---------------------------
(***************************************************************************)
(* Proofs about JobQueue.tla, for any number of workers, of signalled      *)
(* threads and of calls.  The inductive invariant is IInv: the types, who  *)
(* owns the mutex (LockOwned), the order of the jobs (InOrder), and that   *)
(* no wake-up is lost (NoLostWakeup).                                      *)
(***************************************************************************)
EXTENDS JobQueue, TLAPS

USE ThreadsAssumption

IInv == TypeOK /\ LockOwned /\ InOrder

-----------------------------------------------------------------------------
\* A caller is a thread of the process with what made it call enqueue.
LEMMA CallerThread ==
    ASSUME NEW c \in Callers
    PROVE  c[1] \in Threads /\ c[1] # NoThread
BY DEF Callers, Threads

\* At most one worker runs a job, since the one that does owns the mutex.
LEMMA OwnedIsSerial == LockOwned => SerialJobs
BY DEF LockOwned, SerialJobs

\* The owner runs its job; any other owner, or none, means no job runs.
LEMMA OwnerRuns ==
    ASSUME TypeOK, LockOwned, NEW w \in Workers, pc[w] = "run"
    PROVE  mutex = w /\ RunningJob = job[w] /\ RunningJob # NoJob
BY DEF TypeOK, LockOwned, RunningJob

\* With no worker running there is no running job.
LEMMA NobodyRuns ==
    ASSUME \A w \in Workers : pc[w] # "run"
    PROVE  RunningJob = NoJob
BY DEF RunningJob

-----------------------------------------------------------------------------
\* The types hold initially and every step keeps them.
LEMMA TypingStep == TypeOK /\ [Next]_vars => TypeOK'
<1> SUFFICES ASSUME TypeOK, [Next]_vars PROVE TypeOK'
  OBVIOUS
<1> USE DEF TypeOK, Stages, NoJob
<1>1. ASSUME NEW c \in Callers, Call(c) PROVE TypeOK'
  BY <1>1 DEF Call
<1>2. ASSUME NEW c \in Callers, Lock(c) PROVE TypeOK'
  BY <1>2, CallerThread DEF Lock
<1>3. ASSUME NEW c \in Callers, Push(c) PROVE TypeOK'
  BY <1>3 DEF Push
<1>4. ASSUME NEW c \in Callers, Notify(c) PROVE TypeOK'
  BY <1>4 DEF Notify
<1>5. ASSUME NEW w \in Workers, TryLock(w) PROVE TypeOK'
  BY <1>5 DEF TryLock, Threads
<1>6. ASSUME NEW w \in Workers, Sleep(w) PROVE TypeOK'
  BY <1>6 DEF Sleep
<1>7. ASSUME NEW w \in Workers, Dequeue(w) PROVE TypeOK'
  BY <1>7 DEF Dequeue
<1>8. ASSUME NEW w \in Workers, SpuriousWakeup(w) PROVE TypeOK'
  BY <1>8 DEF SpuriousWakeup
<1>9. ASSUME NEW w \in Workers, Relock(w) PROVE TypeOK'
  BY <1>9 DEF Relock, Threads
<1>10. ASSUME NEW w \in Workers, Finish(w) PROVE TypeOK'
  BY <1>10 DEF Finish
<1>11. CASE UNCHANGED vars
  BY <1>11 DEF vars
<1>12. QED
  BY <1>1, <1>2, <1>3, <1>4, <1>5, <1>6, <1>7, <1>8, <1>9, <1>10, <1>11
     DEF Next, Enqueue, Work

\* The mutex has one owner, the thread between lock and unlock: every step.
LEMMA LockStep == TypeOK /\ LockOwned /\ [Next]_vars => LockOwned'
<1> SUFFICES ASSUME TypeOK, LockOwned, [Next]_vars PROVE LockOwned'
  OBVIOUS
<1> USE DEF TypeOK, LockOwned
<1>1. ASSUME NEW c \in Callers, Call(c) PROVE LockOwned'
  BY <1>1 DEF Call
<1>2. ASSUME NEW c \in Callers, Lock(c) PROVE LockOwned'
  <2>1. /\ \A w \in Workers : pc[w] \notin {"check", "run"}
        /\ \A d \in Callers : stage[d] # "push"
    BY <1>2, CallerThread DEF Lock, Threads
  <2>2. QED
    BY <1>2, <2>1 DEF Lock
<1>3. ASSUME NEW c \in Callers, Push(c) PROVE LockOwned'
  BY <1>3 DEF Push
<1>4. ASSUME NEW c \in Callers, Notify(c) PROVE LockOwned'
  BY <1>4 DEF Notify
<1>5. ASSUME NEW w \in Workers, TryLock(w) PROVE LockOwned'
  <2>1. /\ \A v \in Workers : pc[v] \notin {"check", "run"}
        /\ \A d \in Callers : stage[d] # "push"
    BY <1>5, CallerThread DEF TryLock, Threads
  <2>2. QED
    BY <1>5, <2>1 DEF TryLock
<1>6. ASSUME NEW w \in Workers, Sleep(w) PROVE LockOwned'
  BY <1>6 DEF Sleep
<1>7. ASSUME NEW w \in Workers, Dequeue(w) PROVE LockOwned'
  BY <1>7 DEF Dequeue
<1>8. ASSUME NEW w \in Workers, SpuriousWakeup(w) PROVE LockOwned'
  BY <1>8 DEF SpuriousWakeup
<1>9. ASSUME NEW w \in Workers, Relock(w) PROVE LockOwned'
  <2>1. /\ \A v \in Workers : pc[v] \notin {"check", "run"}
        /\ \A d \in Callers : stage[d] # "push"
    BY <1>9, CallerThread DEF Relock, Threads
  <2>2. QED
    BY <1>9, <2>1 DEF Relock
<1>10. ASSUME NEW w \in Workers, Finish(w) PROVE LockOwned'
  BY <1>10 DEF Finish
<1>11. CASE UNCHANGED vars
  BY <1>11 DEF vars
<1>12. QED
  BY <1>1, <1>2, <1>3, <1>4, <1>5, <1>6, <1>7, <1>8, <1>9, <1>10, <1>11
     DEF Next, Enqueue, Work

-----------------------------------------------------------------------------
\* A step either leaves the jobs alone or pushes, starts or finishes one.
LEMMA JobsStep ==
    ASSUME TypeOK, LockOwned, TypeOK', LockOwned', [Next]_vars
    PROVE  \/ UNCHANGED <<pushed, queue, RunningJob, done>>
           \/ Executor!Submit
           \/ Executor!Start
           \/ Executor!Finish
<1> USE DEF NoJob, Executor!NoJob
<1>1. ASSUME NEW c \in Callers, Call(c)
      PROVE  UNCHANGED <<pushed, queue, RunningJob, done>>
  BY <1>1 DEF Call, RunningJob, Threads, TypeOK, LockOwned
<1>2. ASSUME NEW c \in Callers, Lock(c)
      PROVE  UNCHANGED <<pushed, queue, RunningJob, done>>
  BY <1>2 DEF Lock, RunningJob, Threads, TypeOK, LockOwned
<1>3. ASSUME NEW c \in Callers, Push(c) PROVE Executor!Submit
  <2>1. RunningJob = NoJob
    BY <1>3, NobodyRuns DEF Push, LockOwned
  <2>2. RunningJob' = RunningJob
    BY <1>3 DEF Push, RunningJob, Threads, TypeOK, LockOwned
  <2>3. QED
    BY <1>3, <2>1, <2>2 DEF Push, Executor!Submit
<1>4. ASSUME NEW c \in Callers, Notify(c)
      PROVE  UNCHANGED <<pushed, queue, RunningJob, done>>
  BY <1>4 DEF Notify, RunningJob, Threads, TypeOK, LockOwned
<1>5. ASSUME NEW w \in Workers, TryLock(w)
      PROVE  UNCHANGED <<pushed, queue, RunningJob, done>>
  BY <1>5 DEF TryLock, RunningJob, Threads, TypeOK, LockOwned
<1>6. ASSUME NEW w \in Workers, Sleep(w)
      PROVE  UNCHANGED <<pushed, queue, RunningJob, done>>
  BY <1>6 DEF Sleep, RunningJob, Threads, TypeOK, LockOwned
<1>7. ASSUME NEW w \in Workers, Dequeue(w) PROVE Executor!Start
  <2>1. pc'[w] = "run"
    BY <1>7 DEF Dequeue, TypeOK
  <2>2. RunningJob = NoJob
    BY <1>7 DEF Dequeue, TypeOK, LockOwned, RunningJob
  <2>3. RunningJob' = Head(queue)
    BY <1>7, <2>1 DEF Dequeue, TypeOK, LockOwned, RunningJob
  <2>4. QED
    BY <1>7, <2>2, <2>3 DEF Dequeue, Executor!Start
<1>8. ASSUME NEW w \in Workers, SpuriousWakeup(w)
      PROVE  UNCHANGED <<pushed, queue, RunningJob, done>>
  BY <1>8 DEF SpuriousWakeup, RunningJob, Threads, TypeOK, LockOwned
<1>9. ASSUME NEW w \in Workers, Relock(w)
      PROVE  UNCHANGED <<pushed, queue, RunningJob, done>>
  BY <1>9 DEF Relock, RunningJob, Threads, TypeOK, LockOwned
<1>10. ASSUME NEW w \in Workers, Finish(w) PROVE Executor!Finish
  <2>1. RunningJob = job[w] /\ RunningJob # NoJob
    BY <1>10, OwnerRuns DEF Finish
  <2>2. RunningJob' = NoJob
    BY <1>10 DEF Finish, RunningJob, Threads
  <2>3. QED
    BY <1>10, <2>1, <2>2 DEF Finish, Executor!Finish
<1>11. CASE UNCHANGED vars
  BY <1>11 DEF vars, RunningJob
<1>12. QED
  BY <1>1, <1>2, <1>3, <1>4, <1>5, <1>6, <1>7, <1>8, <1>9, <1>10, <1>11
     DEF Next, Enqueue, Work

\* Pushing, starting and finishing a job keep the jobs numbered in order.
LEMMA OrderStep ==
    ASSUME TypeOK, LockOwned, TypeOK', LockOwned', InOrder, [Next]_vars
    PROVE  InOrder'
<1> USE DEF TypeOK, InOrder, Started, NoJob, Executor!NoJob
<1>1. CASE UNCHANGED <<pushed, queue, RunningJob, done>>
  BY <1>1
<1>2. CASE Executor!Submit
  <2>1. /\ pushed' = pushed + 1
        /\ queue' = Append(queue, pushed + 1)
        /\ RunningJob' = RunningJob
        /\ done' = done
        /\ Started' = Started
    BY <1>2 DEF Executor!Submit
  <2>2. /\ Len(queue') = Len(queue) + 1
        /\ \A i \in 1..Len(queue') :
              queue'[i] = IF i = Len(queue) + 1 THEN pushed + 1 ELSE queue[i]
    BY <2>1
  <2>3. /\ Len(queue) \in Nat
        /\ Started \in Nat
        /\ pushed = Started + Len(queue)
    OBVIOUS
  <2>4. /\ \A i \in 1..Len(queue') : queue'[i] = Started' + i
        /\ pushed' = Started' + Len(queue')
    <3> HIDE DEF Started, TypeOK
    <3>1. \A i \in 1..Len(queue) : queue[i] = Started + i
      OBVIOUS
    <3> HIDE DEF InOrder
    <3>2. QED
      BY <2>1, <2>2, <2>3, <3>1
  <2>5. QED
    BY <2>1, <2>4
<1>3. CASE Executor!Start
  BY <1>3 DEF Executor!Start
<1>4. CASE Executor!Finish
  BY <1>4 DEF Executor!Finish
<1>5. QED
  BY <1>1, <1>2, <1>3, <1>4, JobsStep

\* A queued job always has a worker awake, or a notification on its way to one.
LEMMA WakeupStep == TypeOK /\ NoLostWakeup /\ [Next]_vars => NoLostWakeup'
<1> SUFFICES ASSUME TypeOK, NoLostWakeup, [Next]_vars PROVE NoLostWakeup'
  OBVIOUS
<1> USE DEF TypeOK, NoLostWakeup
<1>1. ASSUME NEW c \in Callers, Call(c) PROVE NoLostWakeup'
  BY <1>1 DEF Call
<1>2. ASSUME NEW c \in Callers, Lock(c) PROVE NoLostWakeup'
  BY <1>2 DEF Lock
<1>3. ASSUME NEW c \in Callers, Push(c) PROVE NoLostWakeup'
  BY <1>3 DEF Push
<1>4. ASSUME NEW c \in Callers, Notify(c) PROVE NoLostWakeup'
  BY <1>4 DEF Notify
<1>5. ASSUME NEW w \in Workers, TryLock(w) PROVE NoLostWakeup'
  BY <1>5 DEF TryLock
<1>6. ASSUME NEW w \in Workers, Sleep(w) PROVE NoLostWakeup'
  BY <1>6 DEF Sleep
<1>7. ASSUME NEW w \in Workers, Dequeue(w) PROVE NoLostWakeup'
  BY <1>7 DEF Dequeue
<1>8. ASSUME NEW w \in Workers, SpuriousWakeup(w) PROVE NoLostWakeup'
  BY <1>8 DEF SpuriousWakeup
<1>9. ASSUME NEW w \in Workers, Relock(w) PROVE NoLostWakeup'
  BY <1>9 DEF Relock
<1>10. ASSUME NEW w \in Workers, Finish(w) PROVE NoLostWakeup'
  BY <1>10 DEF Finish
<1>11. CASE UNCHANGED vars
  BY <1>11 DEF vars
<1>12. QED
  BY <1>1, <1>2, <1>3, <1>4, <1>5, <1>6, <1>7, <1>8, <1>9, <1>10, <1>11
     DEF Next, Enqueue, Work

-----------------------------------------------------------------------------
LEMMA InitIInv == Init => IInv /\ NoLostWakeup
<1> SUFFICES ASSUME Init PROVE IInv /\ NoLostWakeup
  OBVIOUS
<1>1. TypeOK
  BY DEF Init, TypeOK, Stages, Threads, NoJob
<1>2. LockOwned
  BY DEF Init, LockOwned
<1>3. InOrder
  BY NobodyRuns DEF Init, InOrder, Started, NoJob
<1>4. NoLostWakeup
  BY DEF Init, NoLostWakeup
<1>5. QED
  BY <1>1, <1>2, <1>3, <1>4 DEF IInv

LEMMA IInvStep == IInv /\ [Next]_vars => IInv'
BY TypingStep, LockStep, OrderStep DEF IInv

\* The inductive invariant holds in every reachable state.
THEOREM Invariance == SafeSpec => []IInv
<1>1. Init => IInv
  BY InitIInv
<1>2. QED
  BY <1>1, IInvStep, PTL DEF SafeSpec

\* Type correctness; in particular no worker calls an empty job.
THEOREM TypeCorrect == SafeSpec => []TypeOK
BY Invariance, PTL DEF IInv

\* Between lock and unlock there is one thread, the owner of the mutex.
THEOREM MutexIsOwned == SafeSpec => []LockOwned
BY Invariance, PTL DEF IInv

\* However large the pool, jobs run one at a time.
THEOREM JobsAreSerial == SafeSpec => []SerialJobs
BY Invariance, OwnedIsSerial, PTL DEF IInv

\* Jobs run in the order of their pushes, each exactly once.
THEOREM JobsInOrder == SafeSpec => []InOrder
BY Invariance, PTL DEF IInv

\* A queued job is never left with every worker asleep and no notification due.
THEOREM WakeupNotLost == SafeSpec => []NoLostWakeup
<1>1. Init => NoLostWakeup
  BY InitIInv
<1>2. IInv /\ NoLostWakeup /\ [Next]_vars => NoLostWakeup'
  BY WakeupStep DEF IInv
<1>3. QED
  BY <1>1, <1>2, Invariance, PTL DEF SafeSpec

\* Nothing is pushed while a job runs.
THEOREM PushesWait == SafeSpec => NoPushDuringJob
<1>1. IInv /\ [Next]_vars
        => [pushed' # pushed => \A w \in Workers : pc[w] # "run"]_vars
  <2> SUFFICES ASSUME IInv, [Next]_vars, pushed' # pushed,
                      NEW w \in Workers, pc[w] = "run"
               PROVE  FALSE
    OBVIOUS
  <2>1. \E c \in Callers : Push(c)
    BY DEF Next, Enqueue, Work, Call, Lock, Notify, TryLock, Sleep, Dequeue,
           SpuriousWakeup, Relock, Finish, vars
  <2>2. QED
    BY <2>1 DEF Push, IInv, LockOwned
<1>2. QED
  BY <1>1, Invariance, PTL DEF SafeSpec, NoPushDuringJob

\* Queue and pool implement the serial executor: every step is a submission, the
\* start or the end of a job, or leaves the jobs alone.
THEOREM Implements == SafeSpec => ImplementsExecutorSafely
<1>1. Init => Executor!Init
  BY NobodyRuns DEF Init, Executor!Init, NoJob, Executor!NoJob
<1>2. IInv /\ IInv' /\ [Next]_vars => [Executor!Next]_(Executor!vars)
  BY JobsStep DEF IInv, Executor!Next, Executor!vars
<1>3. QED
  BY <1>1, <1>2, Invariance, PTL
  DEF SafeSpec, ImplementsExecutorSafely, Executor!SafeSpec
=============================================================================
