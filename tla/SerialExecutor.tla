--------------------------- MODULE SerialExecutor ---------------------------
(***************************************************************************)
(* What the servers expect of JobQueue + ThreadPool, with no thread, lock  *)
(* or condition variable in sight: jobs are numbered as they are           *)
(* submitted, one job runs at a time, jobs start in submission order, each *)
(* runs once, and every submitted job eventually finishes.                 *)
(*                                                                         *)
(* JobQueue.tla implements this module; SessionServer.tla relies on it (a  *)
(* single worker, and no submission while a job runs).                     *)
(***************************************************************************)
EXTENDS Naturals, Sequences

VARIABLES
    submitted,      \* how many jobs were submitted so far
    todo,           \* the submitted jobs that have not started
    running,        \* the job being run, or NoJob
    done            \* the finished jobs, in the order they finished

vars == <<submitted, todo, running, done>>

NoJob == 0

Init ==
    /\ submitted = 0
    /\ todo = << >>
    /\ running = NoJob
    /\ done = << >>

\* A job cannot be submitted while another one runs: the pool keeps the
\* queue's mutex for the whole job.
Submit ==
    /\ running = NoJob
    /\ submitted' = submitted + 1
    /\ todo' = Append(todo, submitted + 1)
    /\ UNCHANGED <<running, done>>

Start ==
    /\ running = NoJob
    /\ todo # << >>
    /\ running' = Head(todo)
    /\ todo' = Tail(todo)
    /\ UNCHANGED <<submitted, done>>

Finish ==
    /\ running # NoJob
    /\ running' = NoJob
    /\ done' = Append(done, running)
    /\ UNCHANGED <<submitted, todo>>

Next == Submit \/ Start \/ Finish

SafeSpec == Init /\ [][Next]_vars

Fairness == WF_vars(Start) /\ WF_vars(Finish)

Spec == SafeSpec /\ Fairness

-----------------------------------------------------------------------------
TypeOK ==
    /\ submitted \in Nat
    /\ todo \in Seq(Nat \ {NoJob})
    /\ running \in Nat
    /\ done \in Seq(Nat \ {NoJob})

\* How many jobs have started.
Started == Len(done) + (IF running = NoJob THEN 0 ELSE 1)

\* Jobs finish, run and wait in submission order, none lost, none twice:
\* done, then the running job, then todo spell 1, 2, ..., submitted.
InOrder ==
    /\ \A i \in 1..Len(done) : done[i] = i
    /\ running # NoJob => running = Len(done) + 1
    /\ \A i \in 1..Len(todo) : todo[i] = Started + i
    /\ submitted = Started + Len(todo)
=============================================================================
