# Specifications and proofs for GameServerStudy

TLA+ models of the login, lobby and game servers of this repository, the TLC
configurations that check them, and TLAPS proofs about them. All paths below
are relative to the repository.

    tlc -config MCJobQueue.cfg JobQueue.tla          # one run
    tlapm SessionServerProofs.tla                    # one proof module

`PROJECT.json` lists the components, the runs with the properties of each, the
mutants that show each property can fail, the source lines of every definition,
the findings, the hazards and the theorems.

## 1. The system

Three programs share `src/Common`. A client verifies itself at the login
server, lists and makes rooms at the lobby server, and plays in a room of the
game server. The programs do not talk to each other: they share a Redis store
(users, rooms) and, the first two, a MySQL database.

| component | state it keeps | operations |
|---|---|---|
| Job queue and thread pool (`JobQueue`, `ThreadPool`) | one queue of functions per process, its mutex and condition variable, eight workers each with a local `job` | `enqueue`, `dequeue`, the worker's loop |
| Timer, heart-beat timer (`Timer`, `HB_Timer`) | per session: the POSIX timer, its state, the count of unanswered beats, a mutex | `awake`, `start`, `stop`, `refresh`, `asleep`; the signal handler; the job `sendHeartBeat` |
| Session list (`SessionManager`, `Session`) | a list of sessions, its mutex; a session has a descriptor, user data, perhaps a timer | `newSession`, `validate`, `refresh`, `expired`, `getSessionById`, `addSession`, `deleteSession` |
| Event loop (`EpollServer`) | the listening socket, the epoll instance, one array of notifications | `waitEventNotifications`, `handleEvent`, `farewell` |
| Message handler, queue, processor (`MessageHandler`, `MessageQueue`, `MessageProcessor`) | the queue of received messages, a table of handlers | `acceptHandler`, `inputHandler`, `byeHandler`; `processMSG` |
| Login and lobby servers | none of their own | the event handler with its catch clauses; `verifyUserInfo`, `resEnterRoom`, ... |
| Packets over TCP (`TCP`) | none | `send_packet`, `recv_packet`, both retrying on EAGAIN |
| Game objects, replication from hosts (`GameObjectManager`, `ReplicationManager`, `ObjectCreationRegistry`) | per room: id -> object, object -> id, the next id | `addGameObject`, `removeGameObject`, `replicate` |
| Game server (`GameServer`, `GameMessageHandler`, `RoomManager`, `Room`) | the rooms in memory, each with sessions and objects | join, quit, chat, replication, bye |
| Game session, replication timer (`GameSession`, `ReplicationTimer`) | a 100 ms timer per session, a packet buffer | the handler that queues one job per object |
| Redis store (`UserRedis`, `Redis`, `Parser`) | (in Redis) a hash per user and per room, the list `room_list` | several commands per operation |
| Byte streams (`InputByteStream`, `OutputByteStream`) | a buffer and a cursor per packet | `read`, `reUse`, `flush` |
| Start-up and `quit` (`initDB`, the destructors, `ServerAdaptor`) | none | `cleanAll`, then the threads; on `quit`, `cleanAll` under them |
| MySQL, `SelectIOServer`, logging | | see section 7 |

How they interact. The *I/O thread* waits for notifications and handles each:
it accepts, or reads one packet, or closes. For a packet it appends a message to
the message queue, refreshes the client's timer, and enqueues a `processMSG`
job. A *worker* runs the job: it takes the first message, calls its handler
(which asks MySQL or Redis and waits), looks the session up again and sends the
reply. A *timer signal* interrupts some thread; its handler reads the timer's
count and enqueues a `sendHeartBeat` job, or stops the timer. Both the I/O
thread and the worker expire a session and close its socket when a read or a
write fails. What binds these together is the file descriptor: it is the
session's key, the `sessionId` of every packet header and the target of every
reply, and the kernel gives it out again after a close.

What is hard here, and what makes each component correct:

- **Job queue.** A worker runs its job with the queue's mutex held. So jobs
  never overlap (several handlers rely on it without saying so), but the I/O
  thread and the signal handlers wait in `enqueue` for as long as the job
  takes, and a handler that interrupts the owner of the mutex waits for ever.
  Correct means: jobs run once each, in order, one at a time; no wake-up is
  lost although `notify_one` follows the unlock; every job eventually runs.
- **Heart-beat.** Three threads of control touch the count, one with no lock.
  Correct means: a client is given up only when it missed beats; one that is
  gone is given up; the one given up is expired.
- **Sessions, event loop, messages.** Two threads find, use and delete sessions
  by descriptor, with the list unlocked in between; notifications grow stale
  while earlier ones are handled; a job does not carry its message. Correct
  means: every connected socket has a session; no message is stranded without a
  job; replies reach the asker in order, and nobody else.
- **Game objects.** Two tables and a counter that is set back when an object is
  removed and wraps at 2^32. Correct means: the tables agree, the next id is
  free, a live object keeps its id, and id 0 (`not found`) is not given.
- **Replication.** Every 100 ms a signal handler queues a job per object of the
  room, with raw pointers; objects are destroyed, ids given again and players
  deleted while the jobs wait. Correct means: a player is told of an object
  under its id, comes to know every object in its last state, and is left alone
  once it is gone; short of the two ways in which everybody waits for ever, a
  signal that falls on a thread inside a mutex the handler comes to need, and a
  player that stops reading.
- **Packets.** Both ends of a socket wait inside a packet: the loop for the rest
  of one, the worker for room in a buffer, with the queue's mutex held. Chat is
  one stream sent several times. Correct means: packets arrive whole and in
  order; clients that do their part are served.
- **Restarts.** Redis outlives the servers, and each empties it when it starts
  (the login and the lobby server also when they quit), with two commands, in
  the middle of the requests of the others. Correct would
  mean that what the servers hold in memory and what Redis holds still agree.
- **Rooms and Redis.** Counters and list indexes kept in two places by several
  processes, with no transaction. Correct would mean that the room a server
  holds in memory and the one in Redis count the same members.

`hazards` in `PROJECT.json` gives each of these with its line and the property
that covers it, or the reason why none does yet.

## 2. Modules

| module | what it is |
|---|---|
| `SerialExecutor` | what the servers expect of the job queue: an abstract specification |
| `JobQueue` | the queue and the pool, lock by lock; implements `SerialExecutor` |
| `JobQueueProofs` | its invariants and the refinement, proved |
| `HeartBeat` | one session's timer: I/O thread, signal handler, worker |
| `HeartBeatProofs` | its types, and that a client is given up for a reason, proved |
| `SessionServer` | login and lobby servers: event loop, session list, message queue, worker, clients |
| `SessionServerProofs` | its types, its other invariants, and whose connections are closed, proved |
| `GameObjects` | the tables of game objects under `replicate()` |
| `Replication` | `GameObjects` with the players of a room: their packets, timers, jobs and departures; implements `GameObjects` |
| `ReplicationProofs` | the tables' invariants, that `Replication` implements them, that players are told right and strangers nothing but after a hang-up, proved |
| `PacketChannel` | what the ends of a connection expect of `TCP`: an abstract specification |
| `Packets` | `recv_packet`, `send_packet`, the stream's cursor and the socket buffers; implements `PacketChannel` |
| `PacketsProofs` | that it does, and where garbage comes from, proved |
| `MCPackets` | scripts of three clients, for TLC |
| `GameRooms` | the game server: sessions replaced by a join, the rooms that list them, chat, bye, expiry |
| `MCGameRooms` | its symmetry, for TLC |
| `GameRoomsProofs` | the invariants of `GameRooms`, proved |
| `RoomDirectory` | what clients expect of the lobby's room list: an abstract specification |
| `RoomStore` | rooms in Redis, command by command, under the lobby and the game server |
| `RoomStoreProofs` | its types, its counts, how long the list is, and that one room is a `RoomDirectory`, proved |
| `Restarts` | `RoomStore` with users and with servers that quit, stop and start |
| `MCRestarts` | its symmetry, for TLC |
| `RestartsProofs` | its counting across starts and quits, what one leaves, who keeps its name, and of what the game server dies, proved |

The other modules rest on `JobQueue`: `SerialJobs` is why one worker stands for
eight, `NoPushDuringJob` is why a job is submitted only between jobs.
`Replication` EXTENDS `GameObjects` and `Restarts` EXTENDS `RoomStore`: each
uses the actions of the smaller module as they are, within its own. `GameRooms` takes from `SessionServer` that
messages and jobs match, and leaves stale notifications and reused descriptors
to it.

### JobQueue

State: `mutex` is the owner of `JobQueue::m_mutex`, `queue` the jobs numbered
as pushed, `pc[w]` and `job[w]` a worker's place in `ThreadPool::workerThread`
and its local variable, which the code declares outside the loop; `stage[c]`
where an activation of `enqueue` is. An activation is a pair of a thread and
what called it there, `"event"` or `"signal"`: while a signal handler runs on a
thread, that thread's own code does not step (`Interrupted`). `calls`, `pushed`
and `done` are history.

Actions: `Call`, `Lock`, `Push` (push and unlock), `Notify`; `TryLock`,
`Sleep`, `Dequeue`, `SpuriousWakeup`, `Relock`, `Finish`. The mutex is held
from `Dequeue` to `Finish`, as in the code, where the `unique_lock` lives to
the end of the loop body.

Timer signals are directed to the process and no thread masks them. Linux
prefers the main thread, which sleeps in a loop, but any thread may take one:
`SigThreads` says which, and the run has them all in it.

### HeartBeat

State: `state`, `armed`, `timeout` and `owner` are the timer (`m_state`, whether
the kernel's timer is set, `m_timeout`, the owner of `m_mutexForTimer`); `io`,
`handler` and `worker` are where the three threads of control are, `on` which
thread the signal interrupted, `beats` the queued `sendHeartBeat` jobs, `loaded`
what the unlocked `m_timeout++` has read. `peer` is the client: up, silent, or
broken. `missed`, `failed` and `raced` are history. `gone` says that the session
was deleted; a step that uses it afterwards may do anything visible in the
model, or end the process (`killed`).

The 32-bit `m_timeout` is capped at `MaxTimeout`: above the threshold its value
makes no difference.

### SessionServer

State: the clients' ends (`peer`, `sent`, `read`, `got`), the accept queue
(`backlog`), the descriptors (`sock`, with the connection each stands for, which
the code does not know), `sessions`, `msgQ`, `jobs`, the rest of the last
`epoll_wait` (`batch`), and for each of the two threads its place and locals.

The I/O thread: `Wait` takes up to `MaxEvents` ready descriptors in any order;
`Accept`, `NewSession`, `ValidateFind`, `ValidateInit`, `Welcome`, `Submit` are
`handleEvent` and `acceptHandler`; `Receive` or `ReceiveFails`, `RefreshFind`,
`RefreshTouch`, `Submit` are `inputHandler` and the server's handler; `Hangup`
is the default branch. The worker: `StartJob`, `HandlerFind`, `HandlerUpdate`,
`ReplyFind`, `ReplySend`, `ReplyFails`, `ReplyDropped` are `processMSG`. Both:
`ExpireFind`, `ExpireDelete`, `Farewell` are the catch clauses. A step ends
where a mutex is released or a system call may let the other thread in; a
pointer kept across such a point is kept in `thread[t].ptr`, and its use after
the session was deleted is an `Undefined` step: the process may die.

### GameObjects

State: the two tables as functions from what is in use, `nextObjectId`, and
`wrapped`, history. Actions: `Create`, `Update`, `Destroy`, the three kinds of
notification `replicate()` reads, each with all of `addGameObject` or
`removeGameObject`.

### Replication

One room. State: the tables of `GameObjects` and the `version` of each object;
`sessions`, `room` and `timer` are the server's session list, the room's, and
`m_pRepTimer` of each player (`"none"`, `"armed"`, `"asleep"`, `"freed"`);
`conn` is the player's descriptor, which another client may get (`"other"`), and
`full` are the descriptors whose buffer is full;
`handler` is the signal handler, with the objects it copied, the thread it
interrupted and what that thread had locked just then; `jobs` is the job
queue, packets' jobs and the timers' in one order; `at` and `whom` are where the
loop and the worker are. `view` (what each player was last told of an id) and
`strangers` (whose descriptor's next owner got an update) are history.

Actions: `AsksToJoin` and `Notifies` are the loop reading a packet and
submitting its job; `Join`, `JoinRefused`, `Reply` are `resJoinGame` and its
answer; `HostCreates`, `HostUpdates`, `HostDestroys` are `replicate()`;
`Expires` and `HandlerEnqueue` are the handler;
`Build`, `Lock`, `Write`, `WriteFails`, `Asleep` are `sendReplicationReq`, one
step to each point where the loop may delete the player. `ReadFails`, `Hangup`,
`LeaveRoom`, `Expire`, `DestroySession` and `Close` are how a player goes:
`~GameSession` frees the timer at once, and only then does `~Session` wait for
the session's mutex, which a job that writes holds. `BuildUsesFreed` and
`SendUsesFreed` are the jobs whose timer is gone: they set `undefined`, after
which nothing is known.

Mutexes: the queue's, which the worker has all through a job, the two session
lists', and the timer's. `Holds` says which a thread has, from where it is or
from where it was interrupted; `Needs`, `ForPackets` and `ForJobs` which it
locks to get on, and `Runs` and `Gets` that nobody else has them. A signal falls
on the loop with nothing locked or inside any of the mutexes it locks there
(`MayHold`), on the worker in the middle of a job, or on a thread at rest. The
handler waits for the queue's mutex and the timer's. `Deadlocked` is when it
waits for its own thread, or for a worker that waits for what the interrupted
loop has locked: in `enqueue` (`JobQueue.cpp:18`), in `getSessionById` or
`expired` (`SessionManager.cpp:9,52`), in `~GameSession`. A worker that has taken
a job and can only wait is `"blocked"` (`Blocks`).

A client that may go may also not read: `Fills` and `Drains`. While its buffer is
full, `send_packet` tries again and the worker keeps the queue's mutex
(`Stalled`): it neither writes nor fails. No fairness makes a client read again.

### Packets

A packet is two cells, a header and a body. State: `wrote`, `inbox` and
`header` are the clients; `up` and `down` the socket buffers, of bounded size;
`loop` where `recv_packet` is; `jobs`, `worker` the packet being sent, the
set of clients it still goes to and the cursor of its stream. `Receiver` is the
one whose turn it is, the first of the set in the order of the room's list, where
a client stands once (`Listed` of `GameRoomsProofs` says why). `heard` and
`sentTo` are history. What a client sends is fixed by `Script`, by what the server does with
it: `"request"`, `"chat"`, `"update"` (read to its end), `"unread"` (a
notification whose body `replicate` leaves in the stream).

Actions: `ClientWrites`, `ClientReads`, `Breaks`; `ReadHeader`, `ReadBody`,
`ReadFails`, `Submit` are the event loop; `Process`, `WriteHeader`, `WriteBody`,
`WriteFails` are the worker in `processMSG` and `chatBroadcast`. EAGAIN is a
step that is not enabled: both functions sleep and try again for as long as it
takes. `Logged` is where `writeLOG` leaves the cursor; `Debug.h` defines
`__DEBUG__`, and only thanks to that does the second receiver of a chat packet
get its header.

`PacketChannel` has, for each direction of each connection, the packets sent and
those received. `Packets` is mapped to it by what a client has begun to write
and the server has read, and by `sentTo` and `inbox`.

### GameRooms

State: the clients' side (`peer`, `in`, `sent`, `input`), `conn`, the server's
session list `main`, the sessions that exist (`live`) and those that have the
client's timer (`timed`), `roomList` and `members` (the pointers each room
keeps), `msgQ`, `jobs`, and the two threads. A session object is its client and
the number of joins it comes from, so a pointer stays distinct from its
successor's.

Actions: `Accept`, `Receive`, `ReceiveFails`, `Hangup`, `RefreshFind`,
`RefreshTouch`, `Submit` on the I/O thread; `StartJob`; `JoinFind`, `JoinMove`,
`JoinUnlist`, `JoinFree`, `JoinAdd`, `JoinAccept`, `JoinStart` are
`resJoinGame`; `Seek` and `Chat`, one session per step, are `chatBroadcast`;
`ReplyFind`, `Reply`; and on both threads `LeaveRoom`, `ExpireFind`,
`ExpireDelete`, `Farewell`, the catch clauses. Using a deleted session ends the
process or finds what was there (`Uses`); a session without its timer is a null
pointer to `JoinMove` and `ExpireDelete`.

### RoomStore

State: `hash` and `list` are Redis; `roomList` is the game server's list of
room ids; `lobby` and `game` are where `resMakeRoom` and the join or quit in
progress are, with the room as each has it in a local variable. `made` and
`members` are history. Each action is one Redis command with what precedes it
in the handler. A reply out of range ends the game server (`killed`): `LSET` by
an exception with no handler, `LINDEX` by copying a null string. `Without` is
`LREM` with count 0: every entry with the text goes, and the others keep their
order.

`presentMembers` is a `uint32_t`, and its text is read back by
`Parser::strToInt`, whose stream gives the greatest `int` for a number above
it: `LessOne` is the decrement, which wraps, `Parsed` what is read of its
text. `MaxInt` is 2^31 - 1.

### Restarts

`RoomStore` and, added to it: `server`, which of the three are up, down, or
between the SCAN and the DEL of their start ("scanned") or of their `quit`
("leaving"; "left" after it), with the keys it `scanned`; the `users` with a hash
and the user of each `session` in the lobby; `partial`, the hashes that only have
`presentMembers`. `current`, `since`, `ever`, `orphans` and `torn` are history:
who was verified and is in no reply to SCAN, then or since; who was verified
since each server's SCAN; which rooms were ever made; how many members were in a
room that was deleted; and whether a SCAN found a request in flight or more keys
than a page, or its DEL was still to come when one began.
`wrapped` are the rooms whose count went below zero: the room was made again
under the members of the one that a start had deleted.

Actions: `Verify` (login), `Enter` (lobby); `StartMake`, `LobbyRead`,
`LobbyPush` (a room is made); `StartRequest`, `CountMember`, `DeleteHash`,
`ChangeList` (a join or a quit) are those of `RoomStore` with what they do when
Redis is not what it was: a hash that is gone empties the id that is read back,
HMSET makes a hash of one field, and reading such a hash, or the empty id, ends
the server (`StartFatal`, part of `ReadBack`). `Scan` and `Clean` are a server's
start, `Quit` and `Clean` what the destructor of the login or the lobby server
does when the operator types `quit`: the sessions expire, then comes the same
`cleanAll`, while the event loop and the workers go on and clients may be
verified, enter and make rooms. (`main` of the game server never reads a command:
its `init` joins the workers. So its destructor is not reached.) `Stop` is the
end of a process that serves, quitting or not; one that ends between its SCAN
and its DEL sends no DEL. SCAN returns all keys, or any set of them that makes a
page: `cleanAll` asks once, from cursor 0.

### RoomDirectory

`RoomDirectory` has one variable, what the lobby shows of each room, and steps
`Make`, `Join`, `Quit`. `RoomStore` is mapped to it by `Shown`, the first entry
with the room's id; the steps at which it takes effect are `MakePush`,
`SetEntry` and `QuitRemove`.

## 3. Runs

| run | instance | what it shows |
|---|---|---|
| `jobqueue` | 2 workers, I/O thread, idle main thread, signals on any of them, 4 jobs | types, `SerialJobs`, `InOrder`, `NoLostWakeup`, `NoPushDuringJob`; that the pool implements `SerialExecutor` (`ImplementsExecutorSafely`), with its liveness unless a handler interrupts the owner of the mutex (`LiveUnlessSelfDeadlock`) |
| `heartbeat` | signal on the I/O thread or elsewhere, 2 queued beats | `FalseTimeoutOnlyByRace`: a client is given up after four beats without a packet, a failed send, or a lost refresh; `DeadPeerQuiesces`: one that stops answering stops being sent beats |
| `heartbeat_expiry` | signal elsewhere, 1 beat | **violated**: `TimedOutSessionExpires` |
| `session_server` | 2 clients, 2 descriptors, 1 request each, batches of 2 | `NoStrandedMessage`, `OpenHasSession`, `OrderedReplies`; `NobodyDiesUntilOneLeaves`: no stale pointer matters before a client leaves; `LivePeerClosedForAnother`: a client that stays is cut off only in place of one that left; under fairness, `PacketsProcessed` |
| `replication` | 2 players, one of whom may go or stop reading, 3 objects, 3 packets, ids modulo 5 | `TablesAgree`, `ZeroOnlyAfterWrap`, `StableIds`, across the wrap and under all of the game server; `ToldUnderItsId`, `StrangersOnlyByHangup`; under fairness, `PlayersCatchUp` and `GoneQuiesce`: they hold unless the threads come to wait for each other (`Deadlocked`), for a client that does not read (`Stalled`), or use a freed timer |
| `packets` | 3 clients, one of them unsteady, buffers of one packet | `PacketsArriveWhole` (the refinement), `GarbageOnlyByEcho`; under fairness, `SteadyAreServed` |
| `packets_echo` | the same | **violated**: `OnlyRepliesAndChat` |
| `game_rooms` | 2 clients, 2 rooms, 3 packets in all | `OpenHasSession`, `ListedIsLive`, `OneSession`, `PlayersAreInRoom` |
| `game_rooms_release` | 1 client, 2 rooms, 3 packets | **violated**: `ReleasedIsInNoRoom` |
| `room_store` | 3 rooms, 4 makes, 2 members | `MembersCounted`, `ListingNotLonger`, and `OneRoomDirectory`: as long as there has been one room, what the lobby shows changes as `RoomDirectory` lets it |
| `room_store_two` | 2 rooms | **violated**: `ImplementsDirectory`, by the first join of the older room |
| `restarts` | 2 rooms (symmetric), 1 user, pages of 3 keys, 2 SCANs | `CountsSurviveStarts`, `StartsClean`, `DiesOnlyOfTornStore`: what a start or a quit costs when it meets no request, and that the rest takes one; `VerifiedKeepTheirName`: a verified client enters nameless only if a SCAN saw its hash since, or had when it was verified and its DEL was to come |

`DiesOnlyOfTornStore` speaks of the step at which the game server dies, not of
the states in which it is dead: a later start forgets the members of the rooms
that an earlier one deleted, and so the reason, but leaves the server dead.

Bounds, and why they are enough. Two workers already compete for the mutex, for
the wake-up and for the job; the theorems hold for any number of them. Four
`enqueue` calls let a queue build up behind a running job while a worker
sleeps. Two beats let one be queued while another is being counted. In
`session_server` two clients share the batch, the message queue and the worker,
and with two descriptors the first to be freed is given out again while the
other is in use; one request and the welcome give each client two messages,
which is what order and stranding need. That sessions left over by any number
of earlier owners of a descriptor do no harm to `OpenHasSession` is what the
theorem `SocketsAreTracked` adds. In `game_rooms` the packets are shared: one
client joins, quits and joins another room, or one joins and chats with the
other in its room, and either can vanish at any step of the other's job. Three
rooms let a text removed from `room_list` stand there twice; the fourth make is
of a room made before. Ids modulo 5 with three objects come round in a few
steps, and leave a free id as 2^32 ids do. In `replication` three packets let an
object be made and destroyed, and its id given again, while jobs for it wait; a
timer whose player has a job waiting does not expire again (`MaxBacklog`), which
leaves out longer queues of the same jobs; that the bounds hide nothing of the
safety properties is what `ReplicationProofs` adds. In `packets` a buffer that
holds one packet is full or empty at every point of the next, and the unsteady
client sits first in the room's list, where a broadcast meets it before the
others. In `restarts` two rooms, or one made twice, a user and the list are up to four
keys, more than a page; `MaxInt` (7 and 15) is above any count of members a
room can have, which is all that is asked of 2^31 - 1; two SCANs are
two servers that start or quit with their windows side by side or one in the
other, or one after the other, or one that quits and starts, with requests of
the rest around and between; all three may be down meanwhile. No server stops
once they are spent. Three windows at once, and longer histories, are left to
`RestartsProofs`.

`CHECK_DEADLOCK FALSE` stands where the server really may stop: a thread that
waits for itself, or a process that died of a dangling pointer.

### Fairness

- `JobQueue`: each activation of `enqueue` and each worker is weakly fair:
  threads that can run do run, and jobs return. Calls and spurious wake-ups are
  not fair. Weak fairness of `TryLock` is enough because a worker spins.
- `HeartBeat`: an armed timer expires, the three threads run. When the server
  learns of a broken connection, and whether packets come, is not assumed.
- `SessionServer`: the I/O thread and the worker are weakly fair as long as the
  process lives. Nothing is assumed of clients: they may never send or leave.
- `Replication`: the worker and the handler are weakly fair: they run when
  nothing they wait for is locked. The loop is
  strongly fair, since a signal may interrupt it between any two steps but comes
  every 100 ms; so is each timer, which keeps expiring. A broken connection is
  found out in the end; when a player breaks, sends, reads or stops reading is
  not assumed.
- `Packets`: the two threads are weakly fair, each readable socket has its turn
  (`epoll_wait` with level-triggered notifications), and the clients in `Steady`
  write all of their script and read what comes. Of the others nothing.
- `GameRooms`, `RoomStore`, `Restarts`: safety only, and no fairness.

## 4. Proofs

For every value of the constants that meets the modules' assumptions:

- `JobQueueProofs` - the inductive invariant is `IInv` = types, `LockOwned`,
  `InOrder`. `LockOwned` is what makes the rest inductive: a running worker
  owns the mutex, so no other job runs (`JobsAreSerial`), nothing is pushed
  meanwhile (`PushesWait`), and `running` of the abstract module is well
  defined (`Implements`). `NoLostWakeup` is inductive together with the types.
  The assumptions are that the threads are distinct and there is at least one
  worker.
- `HeartBeatProofs` - what makes `FalseTimeoutOnlyByRace` inductive is `Count`,
  that `m_timeout`, and what an unlocked increment has read of it, are no more
  than the beats sent since the last refresh, until there is a reason to give
  the client up; and `Decided`, that a handler on its way to `stop` has seen
  one. A refresh takes every reason back, so one that falls between the
  handler's reading and its `stop`, or inside an increment, must itself be the
  reason: that is what `raced` is for.
- `SessionServerProofs` - `TypeInv` strengthens `TypeOK` with what types need: a
  thread of the event loop that is not idle works for a client's descriptor,
  and no more packets were read than sent. `NoMessageStranded` is inductive with
  it: an I/O thread that has queued a message still owes the job.
  `SocketsAreTracked` needs `Tracking`: sessions with the same pointer have the
  same descriptor, a thread about to delete a session found it under the
  descriptor it is going to close, and a connection not yet tracked is named by
  no session and no pointer. Without the second part, expiry could delete the
  session of one socket and close another; without the third, a dangling
  pointer could come to mean a new session. (The model names a session by its
  connection, so a dangling pointer never comes alive again; a real allocator
  may give the address out again.) The set of descriptors is assumed finite.
  `RepliesInOrder` needs `Replies`: the message the worker has and those in the
  queue are one sequence (`Pending`), in which a client's requests stand in
  order and after all that anybody was told in answer to that client
  (`InOrder`); and a message whose sender is still connected names its sender's
  descriptor (`Genuine`), so that a reply that goes astray is one to a client
  that is gone, and `Heard` says that such a client does not come back.
  That nobody dies before a client leaves (`DiesOnlyAfterOneLeft`) needs
  `Peace`: until then nothing is closed, so every notification of the batch,
  every queued message and every pointer kept across a lock names a descriptor
  that is open and a session that is listed, and no thread is in a catch clause.
  Whose connection is closed (`LivePeersCloseForOthers`) needs `Expiry`: what the
  loop is about to close is gone, and so is what the worker is about to close,
  if the descriptor still stands for the connection its message came from.
- `ReplicationProofs` - of the tables alone, the invariant adds to `TablesAgree`
  that ids and objects are of their sets, and that before the counter wraps every
  id in use and the next one are not 0. `AdvanceIdFinds` is the lemma on the
  counter. Of the whole, `RInv` is that invariant with
  `Created`, no object is in the tables that was never made, and
  `PacketIsCurrent`, the packet being sent names its object's id of now. With
  it every step of `Replication` is a step of `Create`, `Update` or `Destroy` of
  `GameObjects` or leaves the tables alone (`ImplementsObjects`), so the theorems
  on the tables carry over (`RoomTablesAgree`, `RoomZeroIsNotGiven`,
  `RoomIdsAreStable`). `PlayersToldRight` needs that no table changes between
  the making of a packet and its writing: tables change only in jobs, and the
  job that sends is one. `StrangersAfterHangup` needs `LeaveInv`: a timer is
  freed with its session (`Timers`), so a job that comes to write has found a
  listed player; and if that player is expired while the job writes, the event
  loop did it and is at `~Session`, which waits for the job, so the descriptor
  is given to nobody yet (`Detained`). The assumptions are that a new object can
  always be made and that ids do not run out.
- `PacketsProofs` - the refinement of `PacketChannel` stands on one invariant for
  each direction. `UpInv`: what is in a client's buffer to the server is its
  script, cell by cell, from where the loop is in it, and the loop's half-read
  packet is the next one. `DownInv`: what is in the other buffer is what was sent
  to the client, from where the client is in it, with the half the worker still
  owes; it holds for a client that reads, and garbage is allowed where the
  stream's cursor was not at its start. With them, a step that completes a packet
  is `Deliver`, and one that begins a packet is `Send`, of the abstract channel, and
  every other step leaves it alone (`PacketsImplementChannel`).
  `GarbageIsOnlyEchoed` needs `WorkInv`: the worker is behind the header of what
  it is to send only if the packet was left unread, and then it goes back to its
  sender alone. It is stated for a build with the log compiled in (`Debug`), which
  is the one `Debug.h` makes; without the log a chat packet's second receiver
  gets garbage. The other assumption with weight is that the room's list has
  every client, once.
- `RoomStoreProofs` - the invariant `Counting` says what the request in progress
  has read of its room and not written yet: without it, nothing links the value
  in a handler's local variable to the hash it is about to overwrite. That only
  the game server counts, one job at a time, is what makes it hold; the lobby
  writes a hash only when there is none. `StoreInv` adds what the list needs:
  what a make and a quit know of their rooms (`Making`, `Emptying`), that what
  is listed was made and who has members is in the game server's list (`Lists`),
  and that the list with the entries owed to it is no longer than the hashes are
  many (`Listing`), for which `Emptying` says that `LREM` finds at least the entry
  that `LINDEX` read. `Mirror` says how, while there is one room, its entry
  follows its hash; with it the steps map to `Make`, `Join` and `Quit` of
  `RoomDirectory` (`OneRoomMakesTheDirectory`). `LREM` is a recursive function, and
  `WithoutIs` proves what the proofs need of it: entries of what is left were
  there before, and it is shorter if the text was there.
- `RestartsProofs` - `RInv` adds to a `Counting` of this kind, with the members
  of deleted rooms taken off (`Due`), what a start must not meet: one that has
  its keys and met no request will meet none (`Quiet`), its keys are all there
  are (`Whole`), and a game server that is not up has no members (`Fresh`).
  `Whole` is why the DEL leaves no hash behind, and so why the counts start
  again from nothing. `StartsLeaveNothing` needs `Listed`, that a start with
  its keys has the room list's among them unless it missed some, and `Seen`,
  that a user with a hash is among them or was verified since.
  `NamesOutliveStarts` needs `Remembered`: who is `current` is stored, and in no
  reply whose DEL is to come. `DiesOfStarts` needs `Calm => Tidy`: as long as no
  start or quit met anything, one room was made and no member was left in a
  deleted one, no hash is partial, no entry lacks an id, the room of a request has its hash, and a room
  whose make is over is listed. `Kept` is what holds whatever happens: only rooms
  that were made are named anywhere.
- `GameRoomsProofs` - `SInv` says what sessions a client has at each place of
  its join (`Replacing`; at every other place one, `Single`), and `Older`: what
  a thread is about to delete, and what a room holds, is no session that a join
  is still making. That is why an expiry that races a join cannot delete the new
  session when it meant the old. `Placed` and `Served` say who holds off a
  session's loss while it is on its way to a list, and `Listed` that no list has
  a pointer twice, which is why removing the first occurrence, in the model,
  is `std::list::remove`, in the code. A session is named by its client
  and the joins it comes from, so here too a dangling pointer never comes alive
  again. The assumptions are that `None` is no client and that the number of
  packets is a natural number.

Every safety property that a passing run checks is a theorem. Only model-checked
is every liveness property (`LiveUnlessSelfDeadlock`, `DeadPeerQuiesces`,
`PacketsProcessed`, `PlayersCatchUp`, `GoneQuiesce`, `SteadyAreServed`), since
fairness and `ENABLED` are out of the prover's reach.

## 5. Findings

Each is a counterexample TLC gives for what the repository says of itself.

- `heartbeat_expiry`: after the time-out the handler stops the timer, and
  nothing produces the INTR event under which expired sessions were to be
  processed: the session stays.
- `packets_echo`: `processMSG` takes whatever a handler leaves unread for a
  reply. `replicate` does not read the body of an object it creates, so the
  notification goes back to its sender, its body in the place of the header, and
  the sender is out of step with the stream.
- `room_store_two`: the place of a room in the game server's list stands for
  its place in `room_list` (`GameMessageHandler.cpp:103`). The two lists differ
  as soon as a second room is made or a room empties: entries of other rooms
  are overwritten, and an index out of range ends the game server.
- `game_rooms_release`: a quit leaves the session in the room, so the next join
  deletes a session the first room still lists.

Two more things the models show of the code, of which nothing in the repository
says otherwise. A reset connection goes to the default branch of `handleEvent`,
which closes the descriptor and leaves the session and its running timers:
updates and beats then go to whoever gets the descriptor next
(`StrangersOnlyByHangup` says that this is the only way). And a worker whose
send failed, or a notification that has grown stale in its batch, closes a
number that may be another client's by then (`LivePeerClosedForAnother` says
that there is no other way).

## 6. Limits of the models

- Clients are well behaved: they echo the `sessionId` the welcome gave them and
  send well-formed packets. Outside `Packets`, a packet arrives whole or not at
  all; in it, a header or a body does.
- In `Replication` there is one room and a player joins it once. One handler
  runs at a time, a second timer's waits; heart-beats' are in `HeartBeat` and
  `JobQueue`. The jobs of a host's packet are one step, so no signal falls inside
  them; one that falls on the worker finds it in a job that sends, where the
  handler waits for the queue in any case. The jobs of one signal
  are queued in one step, as no other thread submits meanwhile. No host is told
  of a destruction, since nothing calls `replicateDestroy`. What becomes of a
  signal that is pending when its timer is deleted is left out.
- `Packets` has the game server without joins, quits and beats; the clients are
  in the room from the start. A broadcast to a session that is being deleted is
  in `GameRooms`.
- In `Restarts` a server that stops leaves the record of its request until it
  starts again: nobody was told. No server stops or starts once `MaxScans` SCANs
  were sent. Users and rooms have different names. During a `quit` the destructor
  and the threads use one connection to Redis with no lock, and after its DEL the
  connection and the pool are freed under them: undefined behaviour, of which
  only the orderly outcome is modelled, each command answered to the one that
  sent it and the server serving until the process ends.
- A client connects once; a process that reconnects is another client.
- Out of descriptors (`accept` returns -1, and the handler is called with the
  previous notification or an uninitialized one) is not modelled, nor are the
  descriptors the servers open for MySQL and Redis, which share the numbers.
- `farewell` removes the descriptor from the interest list and closes it in one
  step. The destructor of an expired session locks the session's mutex, and so
  waits for a reply being sent; `ReplySend` is one step, which covers it.
- A timer has one handler activation at a time; a second expiry while the first
  is being handled stays pending in the kernel.
- Heart-beat jobs are absent from `SessionServer`, and the session list from
  `HeartBeat`: `gone` stands for it.
- SIGPIPE is ignored by all programs and sockets are non-blocking: a write to a
  reset connection fails with `Connection_Ex`. Any other exception of a job ends
  the process; in `JobQueue` jobs are assumed to return.
- In `GameRooms` no client leaves before it is accepted (`Accept` connects it),
  and no thread but those of the event loop and of the worker uses the
  sessions. A client that vanishes during its own join may meet a session that
  was moved from or deleted (`JoinMove`, `JoinStart`, `ExpireDelete`): the step
  may set `killed`, and no property excludes it, since nothing in the
  repository promises otherwise.
- In `GameRooms` a client quits a room before it joins another, and the process
  survives a use of freed memory only by finding there what was there before:
  the memory is not given to another object. The catch clauses look up and
  remove in a room in one step. Welcome messages, heart-beats and replication
  jobs are left out.
- In `RoomStore` clients join rooms they were told of, quit only the room they
  are in, and make rooms under ids no room has, nor the request the game
  server is handling; titles hold no separator of the text codec; Redis answers. A disconnection never counts down, in the code as in
  the model, and so is no step.
- `EPOLLRDHUP` is never asked for and the INTR event never produced.

## 7. Not modelled, and the plan

Not to be modelled: MySQL access (an external database behind a synchronous
call), logging but for what it does to a stream, and `SelectIOServer`, which no
program uses.

Next, in this order:

1. `GameRooms` and `RoomStore` composed: one join as the replacement of the
   session and the Redis commands, members in memory against the counter; what
   becomes of a client that leaves in the middle of its join.
2. Shutdown beyond Redis: what `expireAll` and the destructors free under the
   threads that still run.
3. The codec of a room (`Parser`) and of the byte streams, as operators checked
   against a reference on bounded inputs.

Proofs to come: those of the modules above; and, of what there is, that the
longer queues `MaxBacklog` leaves out change nothing for liveness, which takes an
argument of its own.
