------------------------------ MODULE Packets -------------------------------
(***************************************************************************)
(* How packets travel between the game server and its clients:             *)
(* TCP::recv_packet on the event loop, TCP::send_packet on the worker, the *)
(* cursor of the stream a packet is in, and the socket buffers, which hold *)
(* so much and no more.                                                    *)
(*                                                                         *)
(* A packet is two cells, a header and a body; a cell is what one read or  *)
(* write moves.  A full or an empty buffer is EAGAIN, which both functions *)
(* meet with usleep and another try: the thread stays where it is.  The    *)
(* worker keeps the mutex of the job queue while it sends (NoPushDuringJob *)
(* of JobQueue.tla), so the loop cannot submit.                            *)
(*                                                                         *)
(* All clients are players of one room.  What a client sends is fixed by   *)
(* Script; a client may stop sending or reading, or break, at any moment.  *)
(* Heart beats, joins and quits are in the other modules.                  *)
(***************************************************************************)
EXTENDS Naturals, Sequences, FiniteSets, SequencesExt

CONSTANTS
    Clients,
    Nobody,
    Steady,         \* clients that write all of Script, and read what comes
    Script,         \* client -> the kinds of the packets it sends, in order
    RoomList,       \* the room's session list: the clients, in some order
    BufferSize,     \* bound: the cells a socket buffer holds
    Debug           \* __DEBUG__ is defined, which Debug.h does

\* What the server does with a packet.  "request": a reply.  "chat": sent to
\* the others of the room.  "update": a notification that is read to its end.
\* "unread": one whose body replicate leaves unread: it creates an object.
Kinds == {"request", "chat", "update", "unread"}

ASSUME PacketsAssumption ==
    /\ Nobody \notin Clients
    /\ Steady \subseteq Clients
    /\ Script \in [Clients -> Seq(Kinds)]
    /\ RoomList \in Seq(Clients) /\ Range(RoomList) = Clients
    /\ \A i, j \in DOMAIN RoomList : RoomList[i] = RoomList[j] => i = j
    /\ BufferSize \in Nat \ {0}
    /\ Debug \in BOOLEAN

VARIABLES
    wrote,          \* how many cells of its script a client has written
    up, down,       \* the socket buffers, from and to each client
    inbox,          \* what each client received: packets
    header,         \* the header a client has read the body of not yet
    broken,         \* the clients whose connection broke
    open,           \* the descriptors the server has open
    loop,           \* the event loop: at, and the client and header it reads
    heard,          \* history: the packets read from each client
    jobs,           \* packets waiting to be processed, in the order submitted
    worker,         \* the worker: at, the packet, the clients left to send to
                    \*   (a set), the cursor of the stream
    sentTo          \* history: the packets whose sending to a client began

clientSide == <<wrote, inbox, header, broken>>
buffers == <<up, down>>
serverSide == <<open, loop, heard, jobs, worker, sentTo>>
vars == <<clientSide, buffers, serverSide>>

\* A packet: the n-th of its client.  A reply carries the packet it answers.
Packet(c, n) == [from |-> c, n |-> n]
NoPacket == Packet(Nobody, 0)
Garbled == Packet(Nobody, 1)    \* a header that is not one, or a wrong body

Packets ==
    UNION {{Packet(c, n) : n \in DOMAIN Script[c]} : c \in Clients}

Kind(m) == Script[m.from][m.n]

Cell(m, part) == [packet |-> m, part |-> part]

\* What a reader makes of a header and the next cell.
Whole(m, cell) == IF cell = Cell(m, "body") THEN m ELSE Garbled

\* The positions of a cursor: at the header, behind it, at the end.
Start == 0
Body == 1
End == 2

IdleLoop == [at |-> "idle", of |-> Nobody, packet |-> NoPacket]
IdleWorker ==
    [at |-> "idle", packet |-> NoPacket, to |-> {}, cursor |-> Start]

Init ==
    /\ wrote = [c \in Clients |-> 0]
    /\ up = [c \in Clients |-> << >>]
    /\ down = [c \in Clients |-> << >>]
    /\ inbox = [c \in Clients |-> << >>]
    /\ header = [c \in Clients |-> NoPacket]
    /\ broken = {}
    /\ open = Clients
    /\ loop = IdleLoop
    /\ heard = [c \in Clients |-> << >>]
    /\ jobs = << >>
    /\ worker = IdleWorker
    /\ sentTo = [c \in Clients |-> << >>]

Full(buffer) == Len(buffer) >= BufferSize

-----------------------------------------------------------------------------
(* The clients *)

\* The next cell of the script: header and body in turn.
ClientWrites(c) ==
    /\ c \notin broken
    /\ wrote[c] < 2 * Len(Script[c])
    /\ ~Full(up[c])
    /\ wrote' = [wrote EXCEPT ![c] = @ + 1]
    /\ LET m == Packet(c, wrote[c] \div 2 + 1) IN
       up' = [up EXCEPT ![c] =
                 Append(@, Cell(m, IF wrote[c] % 2 = 0 THEN "head"
                                                       ELSE "body"))]
    /\ UNCHANGED <<inbox, header, broken, down, serverSide>>

\* A client reads a header, then as much as the header says.  One that was
\* handed garbage knows no more where packets begin, and gives up.
ClientReads(c) ==
    /\ c \notin broken
    /\ down[c] # << >>
    /\ Garbled \notin Range(inbox[c])
    /\ down' = [down EXCEPT ![c] = Tail(@)]
    /\ LET cell == Head(down[c]) IN
       \/ /\ header[c] = NoPacket /\ cell.part = "head"
          /\ header' = [header EXCEPT ![c] = cell.packet]
          /\ UNCHANGED inbox
       \/ /\ header[c] = NoPacket /\ cell.part # "head"
          /\ inbox' = [inbox EXCEPT ![c] = Append(@, Garbled)]
          /\ UNCHANGED header
       \/ /\ header[c] # NoPacket
          /\ inbox' = [inbox EXCEPT ![c] = Append(@, Whole(header[c], cell))]
          /\ header' = [header EXCEPT ![c] = NoPacket]
    /\ UNCHANGED <<wrote, broken, up, serverSide>>

\* A client closes, or is lost; what it wrote may still be read.
Breaks(c) ==
    /\ c \notin Steady \cup broken
    /\ broken' = broken \cup {c}
    /\ UNCHANGED <<wrote, inbox, header, buffers, serverSide>>

-----------------------------------------------------------------------------
(* Mutants: plausible slips in this code, used to test the properties *)

\* EAGAIN in the body ends recv_packet with what there is.
ReadBody_Eagain ==
    /\ loop.at = "body"
    /\ LET c == loop.of
           m == IF up[c] = << >> THEN Garbled ELSE loop.packet IN
       /\ up' = [up EXCEPT ![c] = IF @ = << >> THEN @ ELSE Tail(@)]
       /\ heard' = [heard EXCEPT ![c] = Append(@, m)]
       /\ loop' = [loop EXCEPT !.at = "submit", !.packet = m]
    /\ UNCHANGED <<clientSide, down, open, jobs, worker, sentTo>>

\* Logging leaves the stream where it is.
Logged_NoRewind(cursor) == cursor

\* A read that fails in the middle of a packet is tried again.
ReadFails_Again ==
    /\ loop = IdleLoop
    /\ \E c \in broken \cap open : open' = open \ {c}
    /\ UNCHANGED <<clientSide, buffers, loop, heard, jobs, worker, sentTo>>

-----------------------------------------------------------------------------
(* The event loop: recv_packet *)

\* The socket is readable.
ReadHeader(c) ==
    /\ loop = IdleLoop
    /\ c \in open
    /\ up[c] # << >>
    /\ up' = [up EXCEPT ![c] = Tail(@)]
    /\ loop' = [at |-> "body", of |-> c, packet |-> Head(up[c]).packet]
    /\ UNCHANGED <<clientSide, down, open, heard, jobs, worker, sentTo>>

\* The body: recv_packet does not return before it is there.
ReadBody ==
    /\ loop.at = "body"
    /\ LET c == loop.of IN
       /\ up[c] # << >>
       /\ up' = [up EXCEPT ![c] = Tail(@)]
       /\ LET m == Whole(loop.packet, Head(up[c])) IN
          /\ heard' = [heard EXCEPT ![c] = Append(@, m)]
          /\ loop' = [loop EXCEPT !.at = "submit", !.packet = m]
    /\ UNCHANGED <<clientSide, down, open, jobs, worker, sentTo>>

\* NoData_Ex or Connection_Ex, before the packet or in the middle of it, when
\* the worker may have closed the descriptor already: the clean-up of
\* GameServer::handler, at the end of which is farewell.
ReadFails ==
    /\ \E c \in broken :
          /\ \/ loop.at = "idle" /\ c \in open
             \/ loop.at = "body" /\ loop.of = c
          /\ open' = open \ {c}
    /\ loop' = IdleLoop
    /\ UNCHANGED <<clientSide, buffers, heard, jobs, worker, sentTo>>

\* onRequest, onNotification, onChatMessage and the job: enqueue has to wait
\* for the job that is running.
Submit ==
    /\ loop.at = "submit"
    /\ worker = IdleWorker
    /\ jobs' = Append(jobs, loop.packet)
    /\ loop' = IdleLoop
    /\ UNCHANGED <<clientSide, buffers, open, heard, worker, sentTo>>

-----------------------------------------------------------------------------
(* The worker: processMSG *)

\* The one it is sending to: they have their turns in the order of the room.
Receiver(to) ==
    RoomList[CHOOSE i \in DOMAIN RoomList :
                 /\ RoomList[i] \in to
                 /\ \A j \in 1..(i - 1) : RoomList[j] \notin to]

Sending(m, to, cursor) ==
    IF to = {} THEN IdleWorker
    ELSE [at |-> "head", packet |-> m, to |-> to, cursor |-> cursor]

\* processMSG reads the header, rewinds, and calls the handler; what the
\* handler has not read of the stream, or has put into it, is sent.
Process ==
    /\ worker = IdleWorker
    /\ jobs # << >>
    /\ jobs' = Tail(jobs)
    /\ LET m == Head(jobs) IN
       \/ /\ Kind(m) = "request"
          /\ worker' = Sending(m, {m.from}, Start)
       \/ /\ Kind(m) = "update"
          /\ UNCHANGED worker
       \/ /\ Kind(m) = "chat"
          /\ worker' = Sending(m, open \ {m.from}, Start)
       \* Less than a header is left: out_of_range, caught and forgotten.
       \/ /\ Kind(m) = "unread"
          /\ \/ UNCHANGED worker
             \/ worker' = Sending(m, {m.from}, Body)
    /\ UNCHANGED <<clientSide, buffers, open, loop, heard, sentTo>>

\* A write: it waits while the buffer is full.  What is written to a client that
\* is gone is lost, or fails (WriteFails).
Put(c, cell) ==
    IF c \in broken THEN UNCHANGED down
    ELSE /\ ~Full(down[c])
         /\ down' = [down EXCEPT ![c] = Append(@, cell)]

\* send_packet takes the header from where the cursor is: at the end of the
\* stream read gives nothing, and the header is zeros.
WriteHeader ==
    /\ worker.at = "head"
    /\ LET c == Receiver(worker.to)
           part == CASE worker.cursor = Start -> "head"
                     [] worker.cursor = Body -> "body"
                     [] worker.cursor = End -> "zeros"
       IN
       /\ Put(c, Cell(worker.packet, part))
       /\ sentTo' = [sentTo EXCEPT ![c] =
                        Append(@, IF part = "head" THEN worker.packet
                                                   ELSE Garbled)]
    /\ worker' = [worker EXCEPT !.at = "body"]
    /\ UNCHANGED <<clientSide, up, open, loop, heard, jobs>>

\* writeLOG reads the whole packet for its text, and rewinds the stream; it is
\* compiled in with __DEBUG__.
Logged(cursor) == IF Debug THEN Start ELSE cursor

\* It then rewinds, reads the header for the length, and sends the body.  What
\* is sent is logged, and chatBroadcast goes on with the next of the room.
WriteBody ==
    /\ worker.at = "body"
    /\ LET c == Receiver(worker.to) IN
       /\ Put(c, Cell(worker.packet, "body"))
       /\ worker' = Sending(worker.packet, worker.to \ {c}, Logged(End))
    /\ UNCHANGED <<clientSide, up, open, loop, heard, jobs, sentTo>>

\* Connection_Ex leaves the loop over the room, and ends in the clean-up of
\* GameServer::processMSG.
WriteFails ==
    /\ worker.at \in {"head", "body"}
    /\ Receiver(worker.to) \in broken
    /\ open' = open \ {Receiver(worker.to)}
    /\ worker' = IdleWorker
    /\ UNCHANGED <<clientSide, buffers, loop, heard, jobs, sentTo>>

LoopSteps ==
    \/ \E c \in Clients : ReadHeader(c)
    \/ ReadBody \/ ReadFails \/ Submit

WorkerSteps == Process \/ WriteHeader \/ WriteBody \/ WriteFails

Next ==
    \/ \E c \in Clients : ClientWrites(c) \/ ClientReads(c) \/ Breaks(c)
    \/ LoopSteps
    \/ WorkerSteps

\* The two threads run, each socket that is readable has its turn, and the
\* steady clients do their part.
Fairness ==
    /\ WF_vars(LoopSteps) /\ WF_vars(WorkerSteps)
    /\ \A c \in Clients : SF_vars(ReadHeader(c))
    /\ \A c \in Steady : WF_vars(ClientWrites(c)) /\ WF_vars(ClientReads(c))

Spec == Init /\ [][Next]_vars /\ Fairness

-----------------------------------------------------------------------------
(* Properties *)

\* The two directions of each connection, the packets whose sending began, and
\* those that were received.
Directions == {"up", "down"} \X Clients

Sent ==
    [ch \in Directions |->
        IF ch[1] = "up"
        THEN [i \in 1..((wrote[ch[2]] + 1) \div 2) |-> Packet(ch[2], i)]
        ELSE sentTo[ch[2]]]

Got ==
    [ch \in Directions |->
        IF ch[1] = "up" THEN heard[ch[2]] ELSE inbox[ch[2]]]

Channel == INSTANCE PacketChannel WITH
    Channels <- Directions,
    Messages <- Packets \cup {Garbled},
    sent <- Sent,
    got <- Got

\* What a client sends, the server reads whole, once and in order; what the
\* server sends, the client does; whatever moments the buffers fill or run
\* empty at, and wherever in a packet a connection breaks.
PacketsArriveWhole == Channel!Spec

\* The server sends garbage to nobody but a client whose notification it left
\* unread: the replies, and the chat to each player of the room, have their
\* header first.
Echoed(c) == \E i \in DOMAIN heard[c] : Kind(heard[c][i]) = "unread"

GarbageOnlyByEcho ==
    \A c \in Clients : Garbled \in Range(sentTo[c]) => Echoed(c)

\* "If there is a reply to the request", says processMSG, it is sent: a client
\* is sent nothing for what is no request (its chat is sent to the others).
OnlyRepliesAndChat ==
    \A c \in Clients : \A i \in DOMAIN heard[c] :
        Kind(heard[c][i]) \notin {"request", "chat"}
            => {heard[c][i], Garbled} \cap Range(sentTo[c]) = {}

\* The loop waits for the rest of a packet, or the worker for room in a buffer,
\* and it is a client that is not steady, and connected, they wait for.
Stalled ==
    \/ loop.at = "body" /\ loop.of \notin Steady \cup broken
    \/ worker.at # "idle" /\ Receiver(worker.to) \notin Steady \cup broken

Answered(c, n) ==
    CASE Script[c][n] = "request" -> Packet(c, n) \in Range(inbox[c])
      [] Script[c][n] = "chat" ->
            \A d \in Steady \ {c} : Packet(c, n) \in Range(inbox[d])
      [] OTHER -> Packet(c, n) \in Range(heard[c])

\* Steady clients have everything they send read, their requests answered and
\* their chat brought to the steady players, unless a client that is not steady
\* leaves the whole server waiting for ever, in the middle of a packet of its
\* own or with a full buffer.  One that breaks keeps nobody waiting, but a
\* broadcast ends where it is found out.
SteadyAreServed ==
    \A c \in Steady : \A n \in DOMAIN Script[c] :
        \/ <>Answered(c, n)
        \/ <>[]Stalled
        \/ Script[c][n] = "chat" /\ <>(broken # {})
=============================================================================
