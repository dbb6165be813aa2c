----------------------------- MODULE GameRooms ------------------------------
(***************************************************************************)
(* GameServer: how joining a room replaces a client's session, and what    *)
(* the rooms in memory keep of it.                                         *)
(*                                                                         *)
(* A client that connects has a Session.  A join makes a GameSession out   *)
(* of it, deletes it, and gives the new one to the session list and to the *)
(* room.  Meanwhile the I/O thread refreshes, expires and deletes sessions *)
(* it finds by descriptor, and removes them from the first room that has   *)
(* them.  The rooms hold the pointers: a quit leaves the session where it  *)
(* is, and a second join leaves the first room a dangling one.             *)
(*                                                                         *)
(* The event loop is SessionServer.tla's without its batches, and a        *)
(* connection keeps its descriptor, which is named by its client; making   *)
(* the session and queuing the welcome are not repeated.  The counters in  *)
(* Redis are in RoomStore.tla, the heart-beat in HeartBeat.tla, replication*)
(* in GameObjects.tla.  One worker, and jobs submitted between jobs:       *)
(* JobQueue.tla.                                                           *)
(***************************************************************************)
EXTENDS Naturals, Sequences, FiniteSets, SequencesExt

CONSTANTS
    Clients,
    Rooms,
    None,           \* no client, no room, no session
    MaxSends        \* bound: packets clients send

ASSUME NoneAssumption == None \notin Clients \cup Rooms
ASSUME SendsAssumption == MaxSends \in Nat

Threads == {"io", "worker"}

VARIABLES
    peer,       \* the client's side: "off", "open", "fin" (closed), "rst"
    in,         \* the room the client last asked to join, unless it quit
    sent,       \* how many packets clients sent
    input,      \* its packets the server has not read
    conn,       \* its connection: "none", "open", "closed" by the server
    main,       \* GameServer::m_sessionMgr: session objects, oldest first
    live,       \* the session objects that exist
    timed,      \* those that have the client's heart-beat timer
    roomList,   \* GameServer::m_roomList
    members,    \* each room's m_sessionMgr
    msgQ, jobs, \* the message queue; the processMSG jobs
    thread,     \* the two threads: where each is (at), and its locals: the
                \*   client cli (the descriptor), the session obj, the room, and
                \*   the rooms it has yet to visit (rest)
    killed      \* the process was terminated

clients == <<peer, in, sent, input>>
lists == <<main, live, timed, roomList, members>>
queues == <<msgQ, jobs>>
vars == <<clients, conn, lists, queues, thread, killed>>

Message(kind, c, r) == [kind |-> kind, cli |-> c, room |-> r]

\* A session object: its client, and how many joins it comes from.
First(c) == <<c, 0>>
Successor(s) == <<s[1], s[2] + 1>>

Resting ==
    [at |-> "idle", cli |-> None, obj |-> None, room |-> None, rest |-> << >>]

Init ==
    /\ peer = [c \in Clients |-> "off"]
    /\ in = [c \in Clients |-> None]
    /\ sent = 0
    /\ input = [c \in Clients |-> << >>]
    /\ conn = [c \in Clients |-> "none"]
    /\ main = << >>
    /\ live = {}
    /\ timed = {}
    /\ roomList = << >>
    /\ members = [r \in Rooms |-> << >>]
    /\ msgQ = << >>
    /\ jobs = 0
    /\ thread = [t \in Threads |-> Resting]
    /\ killed = FALSE

Go(t, place) ==
    thread' = [thread EXCEPT ![t] = IF place = "idle" THEN Resting
                                    ELSE [@ EXCEPT !.at = place]]

\* Remove from a list by pointer.  No list has a pointer twice: what is added is
\* new.
Without(list, s) == RemoveFirst(list, s)

\* getSessionById: where the client's first session is in a list, or 0.
Where(list, c) ==
    IF \E i \in DOMAIN list : list[i][1] = c
    THEN CHOOSE i \in DOMAIN list :
            list[i][1] = c /\ \A j \in 1..(i - 1) : list[j][1] # c
    ELSE 0

\* A step that uses these sessions.  Using a deleted one is undefined: the
\* process dies, or finds in the memory what was there.
Uses(objects) ==
    killed' \in IF objects \subseteq live THEN {FALSE} ELSE BOOLEAN

\* The lookup compares the descriptors of all sessions up to the one it finds.
UsesLookup(list, c) ==
    LET n == Where(list, c)
    IN  Uses(ToSet(SubSeq(list, 1, IF n = 0 THEN Len(list) ELSE n)))

\* getSessionById on the server's list: keep the pointer and go to `hit', or go
\* to `miss'.  The list's mutex is released before the pointer is used.
Find(t, hit, miss) ==
    LET n == Where(main, thread[t].cli)
    IN  /\ UsesLookup(main, thread[t].cli)
        /\ IF n = 0 THEN Go(t, miss)
           ELSE thread' = [thread EXCEPT ![t].at = hit, ![t].obj = main[n]]

\* Connection_Ex(c), on thread t: the catch clauses start with the rooms.
Fails(t, c) ==
    thread' = [thread EXCEPT ![t] = [Resting EXCEPT !.at = "leave", !.cli = c,
                                                    !.rest = roomList]]

-----------------------------------------------------------------------------
(* Mutants: plausible slips in this code, used to test the properties *)

\* A worker runs processMSG without having been given a job.
StartJob_Unasked ==
    /\ thread["worker"].at = "idle"
    /\ jobs' = jobs - 1
    /\ UNCHANGED <<clients, conn, lists, msgQ, thread, killed>>

\* The old session is not taken off the list.
JoinUnlist_Kept ==
    /\ thread["worker"].at = "unlist"
    /\ Go("worker", "free")
    /\ UNCHANGED <<clients, conn, lists, queues, killed>>

\* The old session is never deleted.
JoinFree_Leak ==
    /\ thread["worker"].at = "free"
    /\ thread' = [thread EXCEPT !["worker"].at = "add",
                                !["worker"].obj = Successor(@)]
    /\ UNCHANGED <<clients, conn, lists, queues, killed>>

\* The room gets the session the join found, not the one it made.
JoinAccept_Old ==
    /\ thread["worker"].at = "accept"
    /\ members' = [members EXCEPT ![thread["worker"].room] =
                      Append(@, First(thread["worker"].cli))]
    /\ Go("worker", "start")
    /\ UNCHANGED <<clients, conn, main, live, timed, roomList, queues, killed>>

\* farewell removes the descriptor from the interest list, and forgets close.
Farewell_NoClose(t) ==
    /\ thread[t].at = "farewell"
    /\ Go(t, "idle")
    /\ UNCHANGED <<clients, conn, lists, queues, killed>>

-----------------------------------------------------------------------------
(* The clients.  They quit a room before they join another. *)

Send(c, m) ==
    /\ peer[c] = "open" /\ conn[c] = "open"
    /\ sent < MaxSends
    /\ sent' = sent + 1
    /\ input' = [input EXCEPT ![c] = Append(@, m)]
    /\ UNCHANGED <<peer, conn, lists, queues, thread, killed>>

SendJoin(c, r) ==
    /\ in[c] = None
    /\ in' = [in EXCEPT ![c] = r]
    /\ Send(c, Message("join", c, r))

SendQuit(c) ==
    /\ in[c] # None
    /\ in' = [in EXCEPT ![c] = None]
    /\ Send(c, Message("quit", c, in[c]))

\* A chat message, or a goodbye.
SendOther(c) ==
    /\ \/ in[c] # None /\ Send(c, Message("chat", c, None))
       \/ Send(c, Message("bye", c, None))
    /\ UNCHANGED in

\* The client closes its end, or its connection is reset.
Leave(c) ==
    /\ \/ peer[c] = "open" /\ peer' = [peer EXCEPT ![c] = "fin"]
       \/ peer[c] \in {"open", "fin"} /\ peer' = [peer EXCEPT ![c] = "rst"]
    /\ UNCHANGED <<in, sent, input, conn, lists, queues, thread, killed>>

-----------------------------------------------------------------------------
(* GameServer::handler, on the I/O thread *)

IOIdle == thread["io"].at = "idle"

\* ACCEPT: acceptHandler makes a session with a timer.  Bound: no client leaves
\* before it is accepted.
Accept(c) ==
    /\ IOIdle
    /\ conn[c] = "none"
    /\ peer' = [peer EXCEPT ![c] = "open"]
    /\ conn' = [conn EXCEPT ![c] = "open"]
    /\ main' = Append(main, First(c))
    /\ live' = live \cup {First(c)}
    /\ timed' = timed \cup {First(c)}
    /\ UNCHANGED <<in, sent, input, roomList, members, queues, thread, killed>>

\* INPUT: inputHandler queues the packet; then refresh.
Receive(c) ==
    /\ IOIdle
    /\ conn[c] = "open" /\ peer[c] # "rst"
    /\ input[c] # << >>
    /\ input' = [input EXCEPT ![c] = Tail(@)]
    /\ msgQ' = Append(msgQ, Head(input[c]))
    /\ thread' = [thread EXCEPT !["io"].at = "refresh", !["io"].cli = c]
    /\ UNCHANGED <<peer, in, sent, conn, lists, jobs, killed>>

\* INPUT: NoData_Ex, or Connection_Ex of a connection reset after its event.
ReceiveFails(c) ==
    /\ IOIdle
    /\ conn[c] = "open"
    /\ peer[c] = "rst" \/ (peer[c] = "fin" /\ input[c] = << >>)
    /\ Fails("io", c)
    /\ UNCHANGED <<clients, conn, lists, queues, killed>>

\* EPOLLHUP or EPOLLERR: farewell, and no more.
Hangup(c) ==
    /\ IOIdle
    /\ conn[c] = "open" /\ peer[c] = "rst"
    /\ conn' = [conn EXCEPT ![c] = "closed"]
    /\ UNCHANGED <<clients, lists, queues, thread, killed>>

RefreshFind ==
    /\ thread["io"].at = "refresh"
    /\ Find("io", "touch", "submit")
    /\ UNCHANGED <<clients, conn, lists, queues>>

\* The timer is refreshed, if the session found has one (by now).
RefreshTouch ==
    /\ thread["io"].at = "touch"
    /\ Uses({thread["io"].obj})
    /\ Go("io", "submit")
    /\ UNCHANGED <<clients, conn, lists, queues>>

\* m_pJobQueue->enqueue(processMSG), which waits for the running job.
Submit ==
    /\ thread["io"].at = "submit"
    /\ thread["worker"].at = "idle"
    /\ jobs' = jobs + 1
    /\ Go("io", "idle")
    /\ UNCHANGED <<clients, conn, lists, msgQ, killed>>

-----------------------------------------------------------------------------
(* MessageProcessor::processMSG, on the worker *)

\* A message is dequeued.  A join, a quit and a chat have their handlers (that
\* of a quit changes only Redis, then the reply is sent); bye throws.
StartJob ==
    /\ thread["worker"].at = "idle"
    /\ jobs > 0 /\ msgQ # << >>
    /\ jobs' = jobs - 1
    /\ msgQ' = Tail(msgQ)
    /\ LET m == Head(msgQ)
           place == CASE m.kind = "join" -> "join" [] m.kind = "quit" -> "reply"
                      [] m.kind = "chat" -> "seek" [] m.kind = "bye"  -> "leave"
       IN  thread' = [thread EXCEPT !["worker"] =
                         [Resting EXCEPT !.at = place, !.cli = m.cli,
                             !.room = m.room,
                             !.rest = IF place \in {"seek", "leave"}
                                      THEN roomList ELSE << >>]]
    /\ UNCHANGED <<clients, conn, lists, killed>>

(* GameMessageHandler::resJoinGame *)

\* A room nobody joined before goes to the front of the list; then
\* getSessionById, or a failure is answered.
JoinFind ==
    /\ thread["worker"].at = "join"
    /\ LET r == thread["worker"].room
       IN  roomList' = IF Contains(roomList, r) THEN roomList
                       ELSE <<r>> \o roomList
    /\ Find("worker", "move", "reply")
    /\ UNCHANGED <<clients, conn, main, live, timed, members, queues>>

\* new GameSession(move(*pOldSession)): the timer changes hands, and a session
\* without one is a null pointer.
JoinMove ==
    /\ thread["worker"].at = "move"
    /\ LET old == thread["worker"].obj
       IN  /\ killed' \in IF old \in live THEN {old \notin timed} ELSE BOOLEAN
           /\ live' = live \cup {Successor(old)}
           /\ timed' = (timed \ {old}) \cup {Successor(old)}
    /\ Go("worker", "unlist")
    /\ UNCHANGED <<clients, conn, main, roomList, members, queues>>

\* deleteSession takes the old one off the list ...
JoinUnlist ==
    /\ thread["worker"].at = "unlist"
    /\ main' = Without(main, thread["worker"].obj)
    /\ Go("worker", "free")
    /\ UNCHANGED <<clients, conn, live, timed, roomList, members, queues,
                   killed>>

\* ... and it is deleted.
JoinFree ==
    /\ thread["worker"].at = "free"
    /\ Uses({thread["worker"].obj})
    /\ live' = live \ {thread["worker"].obj}
    /\ thread' = [thread EXCEPT !["worker"].at = "add",
                                !["worker"].obj = Successor(@)]
    /\ UNCHANGED <<clients, conn, main, timed, roomList, members, queues>>

\* addSession.
JoinAdd ==
    /\ thread["worker"].at = "add"
    /\ main' = Append(main, thread["worker"].obj)
    /\ Go("worker", "accept")
    /\ UNCHANGED <<clients, conn, live, timed, roomList, members, queues,
                   killed>>

\* acceptSession.
JoinAccept ==
    /\ thread["worker"].at = "accept"
    /\ members' = [members EXCEPT ![thread["worker"].room] =
                      Append(@, thread["worker"].obj)]
    /\ Go("worker", "start")
    /\ UNCHANGED <<clients, conn, main, live, timed, roomList, queues, killed>>

\* init and startTimers, through the pointer.
JoinStart ==
    /\ thread["worker"].at = "start"
    /\ Uses({thread["worker"].obj})
    /\ Go("worker", "reply")
    /\ UNCHANGED <<clients, conn, lists, queues>>

(* GameMessageHandler::chatBroadcast *)

\* isPlayer, room by room; nobody's room: nothing is sent.
Seek ==
    /\ thread["worker"].at = "seek"
    /\ LET w == thread["worker"]
           r == Head(w.rest)
       IN  \/ /\ w.rest = << >>
              /\ Go("worker", "idle")
              /\ UNCHANGED killed
           \/ /\ w.rest # << >>
              /\ UsesLookup(members[r], w.cli)
              /\ thread' = [thread EXCEPT !["worker"] =
                    IF Where(members[r], w.cli) = 0
                    THEN [w EXCEPT !.rest = Tail(w.rest)]
                    ELSE [w EXCEPT !.at = "chat", !.room = r,
                                   !.obj = members[r][1]]]
    /\ UNCHANGED <<clients, conn, lists, queues>>

\* What the connection of c makes of a write.
Writable(c) == conn[c] = "open" /\ peer[c] # "rst"

\* A write to a client that closed its end is answered with a reset.
Write(c) == peer' = [peer EXCEPT ![c] = IF @ = "fin" THEN "rst" ELSE @]

\* One session of the room's list, which is not locked: the sender's is passed
\* over, and so is one without a timer (no mutex).  A failure ends the broadcast
\* and makes the receiver's client leave.  The node the loop stands on may have
\* been removed.
Chat ==
    /\ thread["worker"].at = "chat"
    /\ LET w == thread["worker"]
           list == members[w.room]
           next == IF Contains(list, w.obj) THEN SelectInSeq(list,
                          LAMBDA x : x = w.obj) + 1 ELSE Len(list) + 1
           onward == IF next > Len(list) THEN Go("worker", "idle")
                     ELSE thread' = [thread EXCEPT !["worker"].obj = list[next]]
           passed == w.obj[1] = w.cli \/ w.obj \notin timed
       IN  /\ killed' \in IF w.obj \in live /\ Contains(list, w.obj)
                          THEN {FALSE} ELSE BOOLEAN
           /\ \/ passed /\ onward /\ UNCHANGED peer
              \/ ~passed /\ Writable(w.obj[1]) /\ Write(w.obj[1]) /\ onward
              \/ /\ ~passed /\ ~Writable(w.obj[1])
                 /\ Fails("worker", w.obj[1])
                 /\ UNCHANGED peer
    /\ UNCHANGED <<in, sent, input, conn, lists, queues>>

(* The reply to a join or a quit *)

ReplyFind ==
    /\ thread["worker"].at = "reply"
    /\ Find("worker", "send", "idle")
    /\ UNCHANGED <<clients, conn, lists, queues>>

\* send_packet under the session's mutex; without a timer there is none.
Reply ==
    /\ thread["worker"].at = "send"
    /\ LET w == thread["worker"]
       IN  /\ Uses({w.obj})
           /\ \/ w.obj \notin timed /\ Go("worker", "idle") /\ UNCHANGED peer
              \/ /\ w.obj \in timed /\ Writable(w.cli)
                 /\ Write(w.cli) /\ Go("worker", "idle")
              \/ /\ w.obj \in timed /\ ~Writable(w.cli)
                 /\ Fails("worker", w.cli)
                 /\ UNCHANGED peer
    /\ UNCHANGED <<in, sent, input, conn, lists, queues>>

-----------------------------------------------------------------------------
(* The catch clauses of processMSG and of handler *)

\* Room by room: the first that has the client removes its session.
LeaveRoom(t) ==
    /\ thread[t].at = "leave"
    /\ LET r == Head(thread[t].rest)
           n == Where(members[r], thread[t].cli)
       IN  \/ /\ thread[t].rest = << >>
              /\ Go(t, "expire")
              /\ UNCHANGED <<members, killed>>
           \/ /\ thread[t].rest # << >>
              /\ UsesLookup(members[r], thread[t].cli)
              /\ IF n = 0
                 THEN /\ thread' = [thread EXCEPT ![t].rest = Tail(@)]
                      /\ UNCHANGED members
                 ELSE /\ members' = [members EXCEPT ![r] =
                                        Without(@, members[r][n])]
                      /\ Go(t, "expire")
    /\ UNCHANGED <<clients, conn, main, live, timed, roomList, queues>>

\* expired: getSessionById ...
ExpireFind(t) ==
    /\ thread[t].at = "expire"
    /\ Find(t, "delete", "farewell")
    /\ UNCHANGED <<clients, conn, lists, queues>>

\* ... and expireTimers, which needs the timer, remove and delete, by pointer.
ExpireDelete(t) ==
    /\ thread[t].at = "delete"
    /\ LET s == thread[t].obj
       IN  /\ killed' \in IF s \in live THEN {s \notin timed} ELSE BOOLEAN
           /\ main' = Without(main, s)
           /\ live' = live \ {s}
           /\ timed' = timed \ {s}
    /\ Go(t, "farewell")
    /\ UNCHANGED <<clients, conn, roomList, members, queues>>

\* farewell: out of the interest list, and close.
Farewell(t) ==
    /\ thread[t].at = "farewell"
    /\ conn' = [conn EXCEPT ![thread[t].cli] = "closed"]
    /\ Go(t, "idle")
    /\ UNCHANGED <<clients, lists, queues, killed>>

-----------------------------------------------------------------------------
ClientSteps ==
    \E c \in Clients :
        \/ Leave(c) \/ SendQuit(c) \/ SendOther(c)
        \/ \E r \in Rooms : SendJoin(c, r)

Catch(t) == LeaveRoom(t) \/ ExpireFind(t) \/ ExpireDelete(t) \/ Farewell(t)

IOSteps ==
    \/ \E c \in Clients :
          Accept(c) \/ Receive(c) \/ ReceiveFails(c) \/ Hangup(c)
    \/ RefreshFind \/ RefreshTouch \/ Submit
    \/ Catch("io")

WorkerSteps ==
    \/ StartJob
    \/ JoinFind \/ JoinMove \/ JoinUnlist \/ JoinFree \/ JoinAdd \/ JoinAccept
    \/ JoinStart
    \/ Seek \/ Chat \/ ReplyFind \/ Reply
    \/ Catch("worker")

Next == ~killed /\ (ClientSteps \/ IOSteps \/ WorkerSteps)

Spec == Init /\ [][Next]_vars

-----------------------------------------------------------------------------
(* Properties *)

Objects == Clients \X Nat
Messages == [kind : {"join", "quit", "chat", "bye"}, cli : Clients,
             room : Rooms \cup {None}]

IOPlaces ==
    {"idle", "refresh", "touch", "submit", "leave", "expire", "delete",
     "farewell"}
WorkerPlaces ==
    {"idle", "join", "move", "unlist", "free", "add", "accept", "start",
     "seek", "chat", "reply", "send", "leave", "expire", "delete", "farewell"}

\* Shape of the state.
TypeOK ==
    /\ peer \in [Clients -> {"off", "open", "fin", "rst"}]
    /\ in \in [Clients -> Rooms \cup {None}]
    /\ sent \in 0..MaxSends
    /\ input \in [Clients -> Seq(Messages)]
    /\ conn \in [Clients -> {"none", "open", "closed"}]
    /\ main \in Seq(Objects)
    /\ live \subseteq Objects
    /\ timed \subseteq Objects
    /\ roomList \in Seq(Rooms)
    /\ members \in [Rooms -> Seq(Objects)]
    /\ msgQ \in Seq(Messages)
    /\ jobs \in Nat
    /\ thread \in [Threads -> [at : IOPlaces \cup WorkerPlaces,
                               cli : Clients \cup {None},
                               obj : Objects \cup {None},
                               room : Rooms \cup {None},
                               rest : Seq(Rooms)]]
    /\ thread["io"].at \in IOPlaces
    /\ thread["worker"].at \in WorkerPlaces
    /\ killed \in BOOLEAN

Of(c) == {s \in live : s[1] = c}

At(t, places, c) == thread[t].at \in places /\ thread[t].cli = c

\* An open connection has a session in the server's list, where expiry, refresh
\* and replies find it, except while a join replaces it or a thread is about to
\* close the connection.
OpenHasSession ==
    \A c \in Clients : conn[c] = "open" =>
        \/ Where(main, c) # 0
        \/ At("worker", {"free", "add"}, c)
        \/ \E t \in Threads : At(t, {"farewell"}, c)

\* The server's list, unlike the rooms', never holds a deleted session, nor two
\* of one client, whatever a join and an expiry do to it at the same time: a
\* lookup by descriptor is safe and has one answer.
ListedIsLive ==
    /\ ToSet(main) \subseteq live
    /\ \A i, j \in DOMAIN main : main[i][1] = main[j][1] => i = j

\* A join frees the session it replaces: a client has one session, and two only
\* while the old one waits to be freed.
OneSession ==
    \A c \in Clients :
        Cardinality(Of(c)) <= IF At("worker", {"unlist", "free"}, c) THEN 2
                              ELSE 1

\* A listed session that comes from a join is in a room, except while it is on
\* its way in or its client is on the way out: chat and replication reach every
\* player.
PlayersAreInRoom ==
    \A s \in ToSet(main) : s[2] > 0 =>
        \/ \E r \in Rooms : Contains(members[r], s)
        \/ thread["worker"].at = "accept" /\ thread["worker"].obj = s
        \/ \E t \in Threads : At(t, {"leave", "expire", "delete"}, s[1])

\* "Switch from the lobby session to a game session, then release the lobby
\* session": no room has the session that a join deletes.
ReleasedIsInNoRoom ==
    thread["worker"].at = "free" =>
        \A r \in Rooms : ~Contains(members[r], thread["worker"].obj)
=============================================================================
