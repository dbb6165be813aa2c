--------------------------- MODULE HeartBeatProofs ---------------------------
(***************************************************************************)
(* Proofs about HeartBeat.tla, wherever the signal may land and however    *)
(* many beats may queue up: the types, and that a client is given up only  *)
(* after four beats without a packet, a failed send, or a refresh lost in  *)
(* a race.  The invariant says what m_timeout may count between refreshes  *)
(* (Count), and what the handler has seen of it (Decided).                 *)
(***************************************************************************)
EXTENDS HeartBeat, TLAPS

USE HandlerThreadsAssumption, MaxBeatsAssumption
USE DEF Threshold, Broken, MaxTimeout, timerVars, history

\* A reason to give the client up has been met since the last refresh.
Justified == missed > Threshold \/ failed \/ raced

Count ==
    ~Justified => /\ timeout <= missed
                  /\ worker = "store" => loaded <= missed

Decided == handler = "stop" => Justified

\* The types, apart: the flags, and the rest.
Flags ==
    /\ armed = (state = "WORKING")
    /\ gone \in BOOLEAN
    /\ killed \in BOOLEAN
    /\ failed \in BOOLEAN
    /\ raced \in BOOLEAN

Shape ==
    /\ peer \in {"up", "silent", "broken"}
    /\ state \in {"SLEEP", "AWAKEN", "WORKING", "STOP"}
    /\ timeout \in 0..MaxTimeout
    /\ owner \in {"free", "io"}
    /\ io \in {"awake", "idle", "stop", "stopping", "start", "starting"}
    /\ handler \in {"off", "read", "stop", "enqueue"}
    /\ on \in {"io", "other"}
    /\ beats \in 0..MaxBeats
    /\ worker \in {"idle", "load", "store"}
    /\ loaded \in 0..MaxTimeout
    /\ missed \in 0..(Threshold + 1)

\* The timer sleeps until the session is made; a handler has room for its job.
Places ==
    /\ io = "awake" => state = "SLEEP"
    /\ handler # "off" => beats < MaxBeats

IInv == Flags /\ Shape /\ Places /\ Count /\ Decided

-----------------------------------------------------------------------------
LEMMA InitIInv == Init => IInv
<1> SUFFICES ASSUME Init PROVE IInv
  OBVIOUS
<1>1. Flags
  BY DEF Init, Flags
<1>2. Shape /\ Places /\ Count /\ Decided
  BY DEF Init, Shape, Places, Count, Decided
<1>. QED
  BY <1>1, <1>2 DEF IInv

(* The client and the I/O thread *)

LEMMA LoopStep ==
    ASSUME IInv, PeerFails \/ Awake \/ Packet \/ IOLock \/ IOStart \/ Expire
    PROVE  IInv'
<1>1. Flags'
  <2>1. CASE Awake
    BY <2>1 DEF IInv, Flags, Places, Awake
  <2>2. CASE PeerFails \/ Packet \/ IOLock
    BY <2>2 DEF IInv, Flags, PeerFails, Packet, IOLock
  <2>3. CASE IOStart
    BY <2>3 DEF IInv, Flags, IOStart
  <2>4. CASE Expire
    BY <2>4 DEF IInv, Flags, Expire
  <2>. QED
    BY <2>1, <2>2, <2>3, <2>4
<1>2. Shape' /\ Places'
  BY DEF IInv, Shape, Places, PeerFails, Awake, Packet, IOLock, IOStart, Expire
<1>3. UNCHANGED <<timeout, worker, loaded, handler, history>>
  BY DEF PeerFails, Awake, Packet, IOLock, IOStart, Expire
<1>. QED
  BY <1>1, <1>2, <1>3 DEF IInv, Count, Decided, Justified

\* A refresh starts the count again; if somebody was acting on it, the refresh
\* is raced.
LEMMA StopStep == ASSUME IInv, IOStop PROVE IInv'
<1>1. Flags'
  BY DEF IInv, Flags, IOStop
<1>2. Shape' /\ Places'
  BY DEF IInv, Shape, Places, IOStop
<1>3. worker = "store" \/ handler = "stop" => raced'
  BY DEF IOStop
<1>4. Count' /\ Decided'
  BY <1>3 DEF IInv, Shape, Count, Decided, Justified, IOStop
<1>. QED
  BY <1>1, <1>2, <1>4 DEF IInv

(* The signal handler *)

LEMMA HandlerStep ==
    ASSUME IInv, Expiry \/ HandlerRead \/ HandlerStop \/ HandlerEnqueue
    PROVE  IInv'
<1> USE DEF Expiry, Fire, HandlerRead, HandlerStop, HandlerEnqueue
<1>1. Flags'
  BY DEF IInv, Flags
<1>2. Shape' /\ Places'
  <2>1. CASE Expiry
    BY <2>1 DEF IInv, Shape, Places
  <2>2. CASE HandlerRead \/ HandlerStop
    BY <2>2 DEF IInv, Shape, Places
  <2>3. CASE HandlerEnqueue
    BY <2>3 DEF IInv, Shape, Places
  <2>. QED
    BY <2>1, <2>2, <2>3
<1>3. Count' /\ Decided'
  BY DEF IInv, Shape, Count, Decided, Justified
<1>. QED
  BY <1>1, <1>2, <1>3 DEF IInv

(* The worker *)

LEMMA WorkerStep == ASSUME IInv, Send \/ Load \/ Store PROVE IInv'
<1>1. Flags'
  BY DEF IInv, Flags, Send, Load, Store
<1>2. Shape' /\ Places'
  BY DEF IInv, Shape, Places, Send, Load, Store
<1>3. Count' /\ Decided'
  BY <1>2 DEF IInv, Shape, Count, Decided, Justified, Send, Load, Store
<1>. QED
  BY <1>1, <1>2, <1>3 DEF IInv

\* What the freed timer shows counts for nothing: no step gives a client up
\* after its session is gone.
LEMMA FreedStep ==
    ASSUME IInv, IOUsesFreed \/ HandlerUsesFreed \/ WorkerUsesFreed
    PROVE  IInv'
<1> USE DEF IOUsesFreed, HandlerUsesFreed, WorkerUsesFreed, UseFreed
<1>1. Flags'
  BY DEF IInv, Flags
<1>2. Shape' /\ Places'
  BY DEF IInv, Shape, Places
<1>3. Count' /\ Decided'
  BY DEF IInv, Shape, Count, Decided, Justified
<1>. QED
  BY <1>1, <1>2, <1>3 DEF IInv

LEMMA NextIInv == IInv /\ [Next]_vars => IInv'
<1> SUFFICES ASSUME IInv, [Next]_vars PROVE IInv'
  OBVIOUS
<1>1. CASE PeerFails \/ Packet \/ Expire \/ Awake \/ IOLock \/ IOStart
  BY <1>1, LoopStep
<1>3. CASE IOStop
  BY <1>3, StopStep
<1>4. CASE Expiry \/ HandlerRead \/ HandlerStop \/ HandlerEnqueue
  BY <1>4, HandlerStep
<1>5. CASE Send \/ Load \/ Store
  BY <1>5, WorkerStep
<1>6. CASE IOUsesFreed \/ HandlerUsesFreed \/ WorkerUsesFreed
  BY <1>6, FreedStep
<1>7. CASE UNCHANGED vars
  BY <1>7 DEF IInv, Flags, Shape, Places, Count, Decided, Justified, vars
<1>. QED
  BY <1>1, <1>3, <1>4, <1>5, <1>6, <1>7
     DEF Next, IOSteps, HandlerSteps, WorkerSteps

LEMMA AlwaysIInv == Spec => []IInv
BY InitIInv, NextIInv, PTL DEF Spec, SafeSpec

-----------------------------------------------------------------------------
\* Timer::m_state says whether the kernel's timer is set, whoever stopped or
\* started it last.
THEOREM TypesHold == Spec => []TypeOK
<1>1. IInv => TypeOK
  BY DEF IInv, Flags, Shape, TypeOK
<1>. QED
  BY <1>1, AlwaysIInv, PTL

\* HB_Timer::handler gives a client up only after four beats without a packet,
\* a failed send, or a refresh lost in a race.
THEOREM GivenUpForAReason == Spec => FalseTimeoutOnlyByRace
<1>1. IInv => (GivesUp => missed > Threshold \/ failed \/ raced)
  BY DEF IInv, Decided, Justified, GivesUp
<1>. QED
  BY <1>1, AlwaysIInv, PTL DEF FalseTimeoutOnlyByRace
=============================================================================
