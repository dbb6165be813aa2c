---------------------------- MODULE Replication -----------------------------
(***************************************************************************)
(* The game server keeps the hosts of a room up to date: the objects of    *)
(* GameObjects.tla, and a ReplicationTimer per player whose signal handler *)
(* queues one job for every object of the room.                            *)
(*                                                                         *)
(* Three parts touch this state.  The event loop reads packets and queues  *)
(* their jobs, and gets rid of players whose connection is gone; the       *)
(* worker runs the jobs, of both kinds, one at a time and in their order   *)
(* (SerialExecutor.tla), with the queue's mutex locked; the handler        *)
(* interrupts one of these two threads, or finds it at rest.  A job that   *)
(* sends is built, looks the player up, locks and writes in steps of its   *)
(* own, since the event loop may delete the player between them.           *)
(*                                                                         *)
(* A mutex is modelled where a thread can be stopped while it has it: by   *)
(* the handler, which then waits for the queue's, or by a client that does *)
(* not read.                                                               *)
(*                                                                         *)
(* One room; a join is one step (GameRooms.tla has its parts), and a       *)
(* player joins once.  Replies other than a join's are in Packets.tla.     *)
(* One handler runs at a time: a second timer's waits for its turn.        *)
(* Heart-beats are in HeartBeat.tla; their handler, too, waits for the     *)
(* queue's mutex for ever where it interrupts its owner (JobQueue.tla).    *)
(***************************************************************************)
EXTENDS GameObjects, Sequences, FiniteSets

CONSTANTS
    Players,        \* clients with a session, by the descriptor they have
    Frail,          \* those of them that may go away, or stop reading
    Nobody,
    MaxRequests,    \* bound: packets the players send, all together
    MaxVersion,     \* bound: updates of an object that are told apart
    MaxBacklog      \* bound: unsent jobs of a player when its timer expires

ASSUME PlayersAssumption ==
    /\ Nobody \notin Players
    /\ Frail \subseteq Players
    /\ MaxRequests \in Nat /\ MaxVersion \in Nat /\ MaxBacklog \in Nat
    \* The registry can always create another object.
    /\ IsFiniteSet(Objects) /\ MaxRequests <= Cardinality(Objects)

Threads == {"io", "worker"}

VARIABLES
    version,        \* the data of every object ever created (shared_ptr)
    sessions,       \* the players in the server's session list
    room,           \* the players in the room's session list
    timer,          \* m_pRepTimer: "none", "armed", "asleep", "freed"
    conn,           \* the descriptor: "up", "broken", "closed", or "other":
                    \*   closed and given to a client that just connected
    full,           \* the descriptors whose buffer is full: nobody reads
    handler,        \* the signal handler: whose timer, the objects left, the
                    \*   thread it is on, and mutexes that thread has locked
    jobs,           \* the queue: [kind, to, ref], ref an id or an object
    at, whom,       \* where a thread is, and whose player it deals with
    packet,         \* the worker's packet: [id, obj, version]
    view,           \* history: what each player was last told of an id
    strangers,      \* history: whose descriptor's next owner got an update
    requests,       \* how many packets the players sent
    undefined       \* a freed timer was used: nothing is known from then on

tables == <<objectTable, idTable, nextObjectId, wrapped, version>>
lists == <<sessions, room, timer, conn, full>>
threads == <<at, whom, packet>>
told == <<view, strangers>>
repVars ==
    <<tables, lists, handler, jobs, threads, told, requests, undefined>>

NoHandler == [of |-> Nobody, left |-> {}, on |-> Nobody, held |-> {}]
NoPacket == [id |-> NotFound, obj |-> Nobody, version |-> 0]

RepInit ==
    /\ Init
    /\ version = EmptyTable
    /\ sessions = Players
    /\ room = {}
    /\ timer = [p \in Players |-> "none"]
    /\ conn = [p \in Players |-> "up"]
    /\ full = {}
    /\ handler = NoHandler
    /\ jobs = << >>
    /\ at = [t \in Threads |-> "idle"]
    /\ whom = [t \in Threads |-> Nobody]
    /\ packet = NoPacket
    /\ view = [p \in Players |-> EmptyTable]
    /\ strangers = {}
    /\ requests = 0
    /\ undefined = FALSE

-----------------------------------------------------------------------------
(* Mutexes: "queue", "sessions" and "room" of the job queue and the two     *)
(* session lists, and the player for the one of its timer.                  *)

\* A thread has a mutex where it is, or was interrupted while it had it.  The
\* worker has the queue's all through a job; expired() deletes the session, and
\* waits for whoever writes to it, with the list's.
Holds(t, mutex) ==
    \/ mutex = "queue" /\ t = "worker" /\ at[t] # "idle"
    \/ mutex = "sessions" /\ at[t] = "delete"
    \/ handler.on = t /\ mutex \in handler.held

\* What a thread locks, where it is, before it gets on ...
Needs(t) ==
    CASE at[t] = "leave" -> {"room"}
      [] at[t] \in {"reply", "expire"} -> {"sessions"}
      [] at[t] = "asleep" -> {whom[t]}
      [] OTHER -> {}

\* ... for every packet, heart-beats and those of other clients too, of which it
\* looks the session up, to refresh its timer, and submits a job ...
ForPackets == {"sessions", "queue"}

\* ... and for a job.
ForJobs(kind) == IF kind = "join" THEN {"sessions", "room"} ELSE {"room"}

Gets(t, mutexes) ==
    \A mutex \in mutexes : \A u \in Threads \ {t} : ~Holds(u, mutex)

Runs(t) == handler.on # t /\ Gets(t, Needs(t))

\* The handler waits for a mutex of its own thread, or for the queue's, whose
\* owner waits for one of this thread: both wait for ever.
Deadlocked ==
    \E t \in Threads :
        /\ handler.on = t
        /\ \/ Holds(t, "queue") \/ Holds(t, handler.of)
           \/ \E u \in Threads \ {t} :
                 /\ Holds(u, "queue")
                 /\ at[u] = "blocked" \/ ~Gets(u, Needs(u))

\* The worker holds the mutex of a player's session while it writes, for as long
\* as the player's buffer is full; it is not that of the timer above.
Writing(p) == at["worker"] = "write" /\ whom["worker"] = p

\* send_packet tries again, for ever, while a buffer is full (EAGAIN).
Stalled ==
    at["worker"] \in {"reply", "write"} /\ whom["worker"] \in full

\* The order of a hash table: any, but the same for the same objects.
HashOrder(S) ==
    CHOOSE f \in [1..Cardinality(S) -> S] :
        \A i, j \in DOMAIN f : f[i] = f[j] => i = j

Go(t, place, p) ==
    /\ at' = [at EXCEPT ![t] = place]
    /\ whom' = [whom EXCEPT ![t] = IF place = "idle" THEN Nobody ELSE p]

UsesFreed(p) ==
    /\ timer[p] = "freed"
    /\ undefined' = TRUE
    /\ UNCHANGED <<tables, lists, handler, jobs, threads, told, requests>>

-----------------------------------------------------------------------------
(* Mutants: plausible slips in this code, used to test the properties *)

\* An object keeps its id when it is taken out of the tables.
IdOf_Kept(o) ==
    LET Told == {id \in Ids : \E p \in Players :
                    id \in DOMAIN view[p] /\ view[p][id].obj = o}
    IN IF o \in DOMAIN idTable THEN idTable[o]
       ELSE IF Told = {} THEN NotFound ELSE CHOOSE id \in Told : TRUE

\* The handler queues one object per signal.
HandlerEnqueue_One ==
    /\ handler # NoHandler
    /\ \A t \in Threads :
          ~Holds(t, "queue") /\ ~Holds(t, handler.of)
    /\ LET o == CHOOSE o \in handler.left : TRUE IN
       jobs' = Append(jobs, [kind |-> "send", to |-> handler.of, ref |-> o])
    /\ handler' = NoHandler
    /\ UNCHANGED <<tables, lists, threads, told, requests, undefined>>

\* A failed write is left to the event loop, which may have left it already.
WriteFails_Ignored ==
    /\ at["worker"] = "write"
    /\ conn[whom["worker"]] \in {"broken", "closed"}
    /\ Runs("worker")
    /\ Go("worker", "idle", Nobody)
    /\ UNCHANGED <<tables, lists, handler, jobs, packet, told,
                   requests, undefined>>

\* ~Session does not lock the session's mutex.
CanDestroy_NoLock(p) == p \in Players

\* The creation function hands out one shared object, not a new one.
NewObject_Shared == CHOOSE o \in Objects : TRUE

-----------------------------------------------------------------------------
(* Packets of the players *)

\* createObject: an object that was never in a table.
NewObject == CHOOSE o \in Objects : o \notin DOMAIN version

\* The event loop reads a packet of p and submits its job.
Receive(p, kind, id) ==
    /\ requests < MaxRequests
    /\ conn[p] = "up"
    /\ at["io"] = "idle" /\ Runs("io")
    /\ Gets("io", ForPackets)
    /\ requests' = requests + 1
    /\ jobs' = Append(jobs, [kind |-> kind, to |-> p, ref |-> id])
    /\ UNCHANGED <<tables, lists, handler, threads, told, undefined>>

AsksToJoin(p) ==
    /\ p \notin room
    /\ \A i \in DOMAIN jobs : ~(jobs[i].kind = "join" /\ jobs[i].to = p)
    /\ Receive(p, "join", NotFound)

\* In the room or not, a player tells of an object it knows or of one it made.
Notifies(p) ==
    \/ Receive(p, "create", NotFound)
    \/ \E id \in DOMAIN view[p] :
          Receive(p, "update", id) \/ Receive(p, "destroy", id)

\* The next job is of this kind; the worker takes it and locks what it needs.
Takes(kind) ==
    /\ jobs # << >>
    /\ Head(jobs).kind = kind
    /\ at["worker"] = "idle" /\ Runs("worker")
    /\ Gets("worker", {"queue"} \cup ForJobs(kind))
    /\ jobs' = Tail(jobs)

\* It takes a job and needs a mutex of the event loop, which is interrupted: the
\* handler will not get the queue's.
Blocks ==
    /\ at["worker"] = "idle" /\ Runs("worker")
    /\ jobs # << >>
    /\ Gets("worker", {"queue"})
    /\ handler.on = "io"
    /\ ~Gets("worker", ForJobs(Head(jobs).kind))
    /\ Go("worker", "blocked", Nobody)
    /\ UNCHANGED <<tables, lists, handler, jobs, packet, told, requests,
                   undefined>>

CreateNew ==
    /\ Objects \ DOMAIN version # {}
    /\ Add(NewObject)
    /\ version' = Put(version, NewObject, 0)

\* resJoinGame: a game session and its timer, and an object for the player;
\* the reply tells the player of that object.
Join ==
    /\ Takes("join")
    /\ LET p == Head(jobs).to IN
       /\ p \in sessions
       /\ room' = room \cup {p}
       /\ timer' = [timer EXCEPT ![p] = "armed"]
       /\ CreateNew
       /\ packet' = [id |-> nextObjectId, obj |-> NewObject, version |-> 0]
       /\ Go("worker", "reply", p)
    /\ UNCHANGED <<sessions, conn, full, handler, told, requests, undefined>>

\* The player is gone: the reply is a refusal, which nobody gets.
JoinRefused ==
    /\ Takes("join")
    /\ Head(jobs).to \notin sessions
    /\ UNCHANGED <<tables, lists, handler, threads, told, requests,
                   undefined>>

\* processMSG writes the join's reply; a failure ends in the catch clause of
\* GameServer::processMSG.
Reply ==
    /\ at["worker"] = "reply" /\ Runs("worker")
    /\ ~Stalled
    /\ LET p == whom["worker"] IN
       \/ /\ p \notin sessions
          /\ Go("worker", "idle", p)
          /\ UNCHANGED view
       \/ /\ p \in sessions /\ conn[p] = "up"
          /\ view' = [view EXCEPT ![p] = Put(@, packet.id, packet)]
          /\ Go("worker", "idle", p)
       \/ /\ p \in sessions /\ conn[p] = "other"
          /\ Go("worker", "idle", p)
          /\ UNCHANGED view
       \/ /\ p \in sessions /\ conn[p] \in {"broken", "closed"}
          /\ Go("worker", "leave", p)
          /\ UNCHANGED view
    /\ packet' = NoPacket
    /\ UNCHANGED <<tables, lists, handler, jobs, strangers, requests,
                   undefined>>

\* replicate(), for a player of the room; from anybody else, no step.
HostCreates ==
    /\ Takes("create")
    /\ IF Head(jobs).to \in room THEN CreateNew ELSE UNCHANGED tables
    /\ UNCHANGED <<lists, handler, threads, told, requests, undefined>>

HostUpdates ==
    /\ Takes("update")
    /\ LET id == Head(jobs).ref IN
       \/ /\ Head(jobs).to \in room /\ id \in DOMAIN objectTable
          /\ version' = [version EXCEPT ![objectTable[id]] =
                            IF @ < MaxVersion THEN @ + 1 ELSE @]
          /\ UNCHANGED vars
       \/ /\ Head(jobs).to \in room /\ id \notin DOMAIN objectTable
          /\ CreateNew
       \/ Head(jobs).to \notin room /\ UNCHANGED tables
    /\ UNCHANGED <<lists, handler, threads, told, requests, undefined>>

HostDestroys ==
    /\ Takes("destroy")
    /\ IF Head(jobs).to \in room /\ Head(jobs).ref \in DOMAIN objectTable
       THEN Destroy(Head(jobs).ref) /\ UNCHANGED version
       ELSE UNCHANGED tables
    /\ UNCHANGED <<lists, handler, threads, told, requests, undefined>>

-----------------------------------------------------------------------------
(* ReplicationTimer *)

Backlog(p) ==
    Cardinality({i \in DOMAIN jobs : jobs[i].kind = "send" /\ jobs[i].to = p})

\* What the event loop may have locked when a signal falls on it, besides what
\* it holds where it is: nothing, one of the mutexes it locks there, or in
\* ~GameSession that of the list and the timer's.
MayHold ==
    LET p == whom["io"]
        Locks == IF at["io"] = "idle" THEN ForPackets ELSE Needs("io")
    IN {held \in {{}} \cup {{mutex} : mutex \in Locks} : Gets("io", held)} \cup
       IF /\ at["io"] = "expire" /\ Runs("io")
          /\ p \in sessions /\ timer[p] = "armed"
       THEN {{"sessions", p}} ELSE {}

\* The timer expires: its handler locks the timer's mutex and copies the list of
\* objects, on the event loop's thread, on the worker's in the middle of a job,
\* or on one at rest, which is like the event loop that has nothing locked.
Expires(p) ==
    /\ handler = NoHandler
    /\ timer[p] = "armed"
    /\ Backlog(p) < MaxBacklog
    /\ DOMAIN idTable # {}
    /\ \/ \E held \in MayHold :
             handler' = [of |-> p, left |-> DOMAIN idTable,
                         on |-> "io", held |-> held]
       \/ /\ at["worker"] # "idle"
          /\ handler' = [of |-> p, left |-> DOMAIN idTable,
                         on |-> "worker", held |-> {}]
    /\ UNCHANGED <<tables, lists, jobs, threads, told, requests, undefined>>

\* ... and queues a job for each, with the timer and the object.
HandlerEnqueue ==
    /\ handler # NoHandler
    /\ \A t \in Threads : ~Holds(t, "queue") /\ ~Holds(t, handler.of)
    /\ LET objs == HashOrder(handler.left) IN
       jobs' = jobs \o [i \in DOMAIN objs |->
                   [kind |-> "send", to |-> handler.of, ref |-> objs[i]]]
    /\ handler' = NoHandler
    /\ UNCHANGED <<tables, lists, threads, told, requests, undefined>>

\* getObjectId
IdOf(o) == IF o \in DOMAIN idTable THEN idTable[o] ELSE NotFound

\* sendReplicationReq: the packet, with the id the object has by now, is made;
\* it is dropped when the room's session list does not have the player.
Build ==
    /\ Takes("send")
    /\ LET p == Head(jobs).to
           o == Head(jobs).ref IN
       /\ timer[p] # "freed"
       /\ IF p \in room
          THEN /\ packet' = [id |-> IdOf(o), obj |-> o, version |-> version[o]]
               /\ Go("worker", "lock", p)
          ELSE UNCHANGED threads
    /\ UNCHANGED <<tables, lists, handler, told, requests, undefined>>

BuildUsesFreed ==
    /\ at["worker"] = "idle" /\ Runs("worker")
    /\ jobs # << >>
    /\ Gets("worker", {"queue"})
    /\ Head(jobs).kind = "send"
    /\ UsesFreed(Head(jobs).to)

\* The job goes on with a timer that is gone.
SendUsesFreed ==
    /\ at["worker"] \in {"lock", "asleep"} /\ Runs("worker")
    /\ UsesFreed(whom["worker"])

\* The session it found may be deleted before its mutex is locked.
Lock ==
    /\ at["worker"] = "lock" /\ Runs("worker")
    /\ timer[whom["worker"]] # "freed"
    /\ Go("worker", "write", whom["worker"])
    /\ UNCHANGED <<tables, lists, handler, jobs, packet, told,
                   requests, undefined>>

Write ==
    /\ at["worker"] = "write" /\ Runs("worker")
    /\ ~Stalled
    /\ LET p == whom["worker"] IN
       \/ /\ conn[p] = "up"
          /\ view' = [view EXCEPT ![p] = Put(@, packet.id, packet)]
          /\ UNCHANGED strangers
       \/ /\ conn[p] = "other"
          /\ strangers' = strangers \cup {p}
          /\ UNCHANGED view
    /\ Go("worker", "idle", Nobody)
    /\ packet' = NoPacket
    /\ UNCHANGED <<tables, lists, handler, jobs, requests, undefined>>

\* Connection_Ex: the mutex is released, and the timer put to sleep.
WriteFails ==
    /\ at["worker"] = "write" /\ Runs("worker")
    /\ conn[whom["worker"]] \in {"broken", "closed"}
    /\ Go("worker", "asleep", whom["worker"])
    /\ packet' = NoPacket
    /\ UNCHANGED <<tables, lists, handler, jobs, told, requests,
                   undefined>>

Asleep ==
    /\ at["worker"] = "asleep" /\ Runs("worker")
    /\ timer[whom["worker"]] # "freed"
    /\ timer' = [timer EXCEPT ![whom["worker"]] = "asleep"]
    /\ Go("worker", "idle", whom["worker"])
    /\ UNCHANGED <<tables, sessions, room, conn, full, handler, jobs, packet,
                   told, requests, undefined>>

-----------------------------------------------------------------------------
(* Players that go away *)

\* The player's machine, process or network fails.
Breaks(p) ==
    /\ p \in Frail
    /\ conn[p] = "up"
    /\ conn' = [conn EXCEPT ![p] = "broken"]
    /\ full' = full \ {p}
    /\ UNCHANGED <<tables, sessions, room, timer, handler, jobs, threads,
                   told, requests, undefined>>

\* Who has the descriptor does not read, and some job, a heart-beat's say, fills
\* its buffer; or it reads again.
Fills(p) ==
    /\ at["worker"] = "idle"
    /\ p \in Frail \ full /\ conn[p] \in {"up", "other"}
    /\ full' = full \cup {p}
    /\ UNCHANGED <<tables, sessions, room, timer, conn, handler, jobs, threads,
                   told, requests, undefined>>

Drains(p) ==
    /\ p \in full
    /\ full' = full \ {p}
    /\ UNCHANGED <<tables, sessions, room, timer, conn, handler, jobs, threads,
                   told, requests, undefined>>

\* A step of a thread that gets on to a place and leaves the rest alone.
Moves(t, from, to, p) ==
    /\ at[t] = from /\ Runs(t)
    /\ Go(t, to, p)
    /\ UNCHANGED <<tables, handler, jobs, packet, told, requests,
                   undefined>>

\* EPOLLIN and a failed read: the clean-up of GameServer::handler ...
ReadFails(p) ==
    /\ conn[p] = "broken"
    /\ Moves("io", "idle", "leave", p)
    /\ UNCHANGED lists

\* ... EPOLLHUP and the like: farewell alone.
Hangup(p) ==
    /\ conn[p] = "broken"
    /\ Moves("io", "idle", "idle", p)
    /\ conn' = [conn EXCEPT ![p] = "closed"]
    /\ UNCHANGED <<sessions, room, timer, full>>

LeaveRoom(t) ==
    /\ Moves(t, "leave", "expire", whom[t])
    /\ room' = room \ {whom[t]}
    /\ UNCHANGED <<sessions, timer, conn, full>>

\* expired() takes the session out of the list, and ~GameSession deletes its
\* timer at once, in use or not.
Expire(t) ==
    /\ LET p == whom[t] IN
       /\ Moves(t, "expire", IF p \in sessions THEN "delete" ELSE "close", p)
       /\ sessions' = sessions \ {p}
       /\ timer' = [timer EXCEPT ![p] =
                       IF p \in sessions /\ @ # "none" THEN "freed" ELSE @]
    /\ UNCHANGED <<room, conn, full>>

\* ~Session waits for the session's mutex.
CanDestroy(p) == ~Writing(p)

DestroySession(t) ==
    /\ CanDestroy(whom[t])
    /\ Moves(t, "delete", "close", whom[t])
    /\ UNCHANGED lists

\* farewell()
Close(t) ==
    /\ Moves(t, "close", "idle", whom[t])
    /\ conn' = [conn EXCEPT ![whom[t]] = "closed"]
    /\ full' = full \ {whom[t]}
    /\ UNCHANGED <<sessions, room, timer>>

\* accept() gives the descriptor to another client; its session and its packets
\* are not of this module.
AcceptAnother(p) ==
    /\ conn[p] = "closed"
    /\ Moves("io", "idle", "idle", p)
    /\ conn' = [conn EXCEPT ![p] = "other"]
    /\ UNCHANGED <<sessions, room, timer, full>>

Leaves(t) == LeaveRoom(t) \/ Expire(t) \/ DestroySession(t) \/ Close(t)

WorkerSteps ==
    \/ Blocks \/ Join \/ JoinRefused \/ Reply
    \/ HostCreates \/ HostUpdates \/ HostDestroys
    \/ Build \/ BuildUsesFreed \/ SendUsesFreed \/ Lock \/ Write \/ WriteFails
    \/ Asleep
    \/ Leaves("worker")

LoopSteps == Leaves("io")

Detects(p) == ReadFails(p) \/ Hangup(p)

RepNext ==
    /\ ~undefined
    /\ \/ WorkerSteps
       \/ HandlerEnqueue
       \/ LoopSteps
       \/ \E p \in Players :
             \/ AsksToJoin(p) \/ Notifies(p) \/ Expires(p)
             \/ Breaks(p) \/ Fills(p) \/ Drains(p)
             \/ Detects(p) \/ AcceptAnother(p)

\* Threads run and get the mutexes others release; the loop is told of a broken
\* connection, and gets on between two signals, which are 100 ms apart; signals
\* of one number are delivered in the order they were sent, so every timer has
\* its turn.  No client has to read, nor to read again.
RepFairness ==
    /\ WF_repVars(~undefined /\ WorkerSteps)
    /\ WF_repVars(~undefined /\ HandlerEnqueue)
    /\ SF_repVars(~undefined /\ (LoopSteps \/ \E p \in Frail : Detects(p)))
    /\ \A p \in Players : SF_repVars(~undefined /\ Expires(p))

RepSpec == RepInit /\ [][RepNext]_repVars /\ RepFairness

-----------------------------------------------------------------------------
(* Properties *)

\* A player is told of an object only under the id the object has: ids are
\* given again at once, while jobs for their former owners are queued.
ToldUnderItsId ==
    [][\A p \in Players : \A id \in DOMAIN view'[p] \ {NotFound} :
          \/ id \in DOMAIN view[p] /\ view'[p][id] = view[p][id]
          \/ id \in DOMAIN objectTable
               /\ objectTable[id] = view'[p][id].obj]_repVars

\* A client that never joined is sent updates only when the session of the
\* player who had its descriptor was left in the room (a hang-up): whoever is
\* expired is not written to any more, not even by the job that found it.
StrangersOnlyByHangup ==
    [][\A p \in strangers' \ strangers : p \in sessions]_repVars

\* A player that stays comes to know every object of the room, under its id and
\* in its latest state, once the other players leave the objects alone (they
\* send no more than MaxRequests packets): unless a signal fell where its thread
\* had a mutex, and the threads wait for each other for ever, or a player that
\* does not read, nor goes, keeps the worker and its mutex for ever.
Knows(p, o) ==
    /\ idTable[o] \in DOMAIN view[p]
    /\ view[p][idTable[o]] =
          [id |-> idTable[o], obj |-> o, version |-> version[o]]

PlayersCatchUp ==
    \A p \in Players \ Frail :
        \/ <>[]Stalled
        \/ p \in room ~> \/ \A o \in DOMAIN idTable : Knows(p, o)
                         \/ undefined
                         \/ Deadlocked

\* A player that is gone stops being sent updates, however the server came to
\* know, unless another client took its descriptor; or nobody is sent anything,
\* by the same two ways to wait for ever.
GoneQuiesce ==
    \A p \in Frail :
        \/ <>[]Stalled
        \/ conn[p] \in {"broken", "closed"}
              ~> \/ timer[p] # "armed"
                 \/ DOMAIN idTable = {}
                 \/ conn[p] = "other"
                 \/ undefined
                 \/ Deadlocked
=============================================================================
