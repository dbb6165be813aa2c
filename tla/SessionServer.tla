--------------------------- MODULE SessionServer ----------------------------
(***************************************************************************)
(* LoginServer and LobbyServer as one machine: EpollServer's event loop    *)
(* (the I/O thread), the session list, the message queue, and the worker   *)
(* that runs processMSG jobs.                                              *)
(*                                                                         *)
(* Everything is keyed by the socket's file descriptor: the session, the   *)
(* session id in each message, the target of a reply, the argument of      *)
(* expired() and farewell().  The kernel hands a closed descriptor out     *)
(* again, so the model keeps, beside each descriptor, which connection it  *)
(* stands for; the code does not know.                                     *)
(*                                                                         *)
(* The pool is one worker here, and a job is submitted only between jobs:  *)
(* SerialJobs and NoPushDuringJob of JobQueue.tla.  Heart-beat jobs are in *)
(* HeartBeat.tla.  A client connects once.                                 *)
(***************************************************************************)
EXTENDS Naturals, Sequences, FiniteSets, SequencesExt, Functions

CONSTANTS
    Clients,
    FDs,            \* descriptors for client sockets (numbers: lowest first)
    NoClient,
    MaxReqs,        \* bound: packets a client sends
    MaxEvents       \* MAX_EVENTS: notifications per epoll_wait

ASSUME ClientsAssumption == NoClient \notin Clients

ASSUME NumbersAssumption ==
    /\ FDs \subseteq Nat \ {0}
    /\ IsFiniteSet(FDs)
    /\ MaxReqs \in Nat
    /\ MaxEvents \in Nat \ {0}

Listen == 0         \* m_listenSocket

Threads == {"io", "worker"}

VARIABLES
    peer,       \* the client's side: "off", "open", "fin" (closed), "rst"
    sent, read, \* packets each client sent; those the server has read
    got,        \* what each client received: pairs <<asker, request>>
    backlog,    \* connections the server has not accepted
    sock,       \* descriptor -> the connection it is open on, or NoClient
    sessions,   \* SessionManager::m_sessionList
    msgQ,       \* MessageQueue: [from, fd, req]; request 0 is the welcome
    jobs,       \* processMSG jobs in the job queue
    batch,      \* what is left of the notifications of the last epoll_wait
    thread,     \* the two threads: where each is (at), and its locals: the
                \*   descriptor fd, the Session* ptr (named by its connection),
                \*   the message msg it dequeued
    killed      \* the process was terminated

net == <<peer, sent, read, got, backlog>>
queues == <<msgQ, jobs, batch>>
vars == <<net, sock, sessions, queues, thread, killed>>

NoMsg == [from |-> NoClient, fd |-> Listen, req |-> 0]

\* Between two events, and between two jobs.
Resting == [at |-> "idle", fd |-> Listen, ptr |-> NoClient, msg |-> NoMsg]

Init ==
    /\ peer = [c \in Clients |-> "off"]
    /\ sent = [c \in Clients |-> 0]
    /\ read = [c \in Clients |-> 0]
    /\ got = [c \in Clients |-> << >>]
    /\ backlog = {}
    /\ sock = [f \in FDs |-> NoClient]
    /\ sessions = << >>
    /\ msgQ = << >>
    /\ jobs = 0
    /\ batch = << >>
    /\ thread = [t \in Threads |-> Resting]
    /\ killed = FALSE

Go(t, place) ==
    thread' = [thread EXCEPT ![t] = IF place = "idle" THEN Resting
                                    ELSE [@ EXCEPT !.at = place]]

Begin(t, place, f) ==
    thread' = [thread EXCEPT ![t] = [Resting EXCEPT !.at = place, !.fd = f]]

Matches(f) == {i \in DOMAIN sessions : sessions[i].fd = f}

\* getSessionById(thread[t].fd): the first session of the list with that
\* descriptor.  Keep the pointer and go to `hit', or go to `miss'.  The list's
\* mutex is released before the pointer is used.
Find(t, hit, miss) ==
    \/ /\ Matches(thread[t].fd) = {}
       /\ Go(t, miss)
    \/ \E i \in Matches(thread[t].fd) :
          /\ \A j \in Matches(thread[t].fd) : i <= j
          /\ thread' = [thread EXCEPT ![t].at = hit, ![t].ptr = sessions[i].id]

Valid(t) == \E s \in ToSet(sessions) : s.id = thread[t].ptr
HasTimer(t) == \E s \in ToSet(sessions) : s.id = thread[t].ptr /\ s.hb

\* Using a deleted session is undefined: the process dies, or nothing shows
\* and the thread goes on.
Undefined(t, next) ==
    /\ ~Valid(t)
    /\ killed' \in BOOLEAN
    /\ Go(t, next)

-----------------------------------------------------------------------------
(* Mutants: plausible slips in this code, used to test the properties *)

\* No new job while one is pending: "it will empty the queue".
Submit_Coalesce ==
    /\ thread["io"].at = "submit"
    /\ thread["worker"].at = "idle"
    /\ jobs' = 1
    /\ Go("io", "idle")
    /\ UNCHANGED <<net, sock, sessions, msgQ, batch, killed>>

\* A worker runs processMSG without having been given a job.
StartJob_Unasked ==
    /\ thread["worker"].at = "idle"
    /\ jobs' = jobs - 1
    /\ UNCHANGED <<net, sock, sessions, msgQ, thread, batch, killed>>

\* The message queue is a stack.
StartJob_Newest ==
    /\ thread["worker"].at = "idle"
    /\ jobs > 0
    /\ jobs' = jobs - 1
    /\ msgQ # << >>
    /\ LET m == msgQ[Len(msgQ)] IN
       /\ msgQ' = SubSeq(msgQ, 1, Len(msgQ) - 1)
       /\ thread' = [thread EXCEPT !["worker"] =
                        [at |-> "reply", fd |-> m.fd, ptr |-> NoClient,
                         msg |-> m]]
    /\ UNCHANGED <<net, sock, sessions, batch, killed>>

\* farewell removes the descriptor from the interest list, and forgets close.
Farewell_NoClose(t) ==
    /\ thread[t].at = "farewell"
    /\ Go(t, "idle")
    /\ UNCHANGED <<net, sock, sessions, queues, killed>>

-----------------------------------------------------------------------------
(* The clients *)

Connect(c) ==
    /\ peer[c] = "off"
    /\ peer' = [peer EXCEPT ![c] = "open"]
    /\ backlog' = backlog \cup {c}
    /\ UNCHANGED <<sent, read, got, sock, sessions, queues, thread, killed>>

Request(c) ==
    /\ peer[c] = "open"
    /\ sent[c] < MaxReqs
    /\ sent' = [sent EXCEPT ![c] = @ + 1]
    /\ UNCHANGED <<peer, read, got, backlog, sock, sessions, queues, thread,
                   killed>>

\* The client closes its end, or its connection is reset.
Leave(c) ==
    /\ \/ peer[c] = "open" /\ peer' = [peer EXCEPT ![c] = "fin"]
       \/ peer[c] \in {"open", "fin"} /\ peer' = [peer EXCEPT ![c] = "rst"]
    /\ UNCHANGED <<sent, read, got, backlog, sock, sessions, queues, thread,
                   killed>>

-----------------------------------------------------------------------------
(* EpollServer: waiting for events *)

Free == {f \in FDs : sock[f] = NoClient}

Readable(c) == sent[c] > read[c] \/ peer[c] = "fin"

\* EPOLLIN, or EPOLLIN with EPOLLERR and EPOLLHUP once the connection is reset
\* (EPOLLRDHUP is not asked for).  Bound: the process does not run out of
\* descriptors, so accept is tried only when one is free.
Ready ==
    (IF backlog # {} /\ Free # {} THEN {[fd |-> Listen, kind |-> "in"]} ELSE {})
    \cup {[fd |-> f, kind |-> "in"] : f \in
            {g \in FDs \ Free : peer[sock[g]] # "rst" /\ Readable(sock[g])}}
    \cup {[fd |-> f, kind |-> "hup"] : f \in
            {g \in FDs \ Free : peer[sock[g]] = "rst"}}

\* epoll_wait: up to MaxEvents notifications, which may be stale when their turn
\* comes.
Wait ==
    /\ thread["io"].at = "idle"
    /\ batch = << >>
    /\ Ready # {}
    /\ LET n == IF Cardinality(Ready) < MaxEvents
                THEN Cardinality(Ready) ELSE MaxEvents
       IN batch' \in Injection(1..n, Ready)
    /\ UNCHANGED <<net, sock, sessions, msgQ, jobs, thread, killed>>

Handling(kind) ==
    /\ thread["io"].at = "idle"
    /\ batch # << >>
    /\ Head(batch).kind = kind

\* handleEvent, a connection request: accept gives the lowest free descriptor.
Accept ==
    /\ Handling("in")
    /\ Head(batch).fd = Listen
    /\ batch' = Tail(batch)
    /\ \E c \in backlog, f \in Free :
          /\ \A g \in Free : f <= g
          /\ backlog' = backlog \ {c}
          /\ sock' = [sock EXCEPT ![f] = c]
          /\ thread' = [thread EXCEPT !["io"] =
                           [Resting EXCEPT !.at = "new", !.fd = f, !.ptr = c]]
    /\ UNCHANGED <<peer, sent, read, got, sessions, msgQ, jobs, killed>>

\* handleEvent, EPOLLHUP, EPOLLERR and default: farewell, and no more.
Hangup ==
    /\ Handling("hup")
    /\ sock' = [sock EXCEPT ![Head(batch).fd] = NoClient]
    /\ batch' = Tail(batch)
    /\ UNCHANGED <<net, sessions, msgQ, jobs, thread, killed>>

-----------------------------------------------------------------------------
(* MessageHandler::acceptHandler *)

NewSession ==
    /\ thread["io"].at = "new"
    /\ sessions' = Append(sessions, [id |-> thread["io"].ptr,
                                     fd |-> thread["io"].fd, hb |-> FALSE])
    /\ Go("io", "validate")
    /\ UNCHANGED <<net, sock, queues, killed>>

\* validate: getSessionById finds the first session, new or left over ...
ValidateFind ==
    /\ thread["io"].at = "validate"
    /\ Find("io", "init", "welcome")
    /\ UNCHANGED <<net, sock, sessions, queues, killed>>

\* ... which gets a heart-beat timer, started.
ValidateInit ==
    /\ thread["io"].at = "init"
    /\ \/ /\ Valid("io")
          /\ sessions' = [i \in DOMAIN sessions |->
                             IF sessions[i].id = thread["io"].ptr
                             THEN [sessions[i] EXCEPT !.hb = TRUE]
                             ELSE sessions[i]]
          /\ Go("io", "welcome")
          /\ UNCHANGED killed
       \/ Undefined("io", "welcome") /\ UNCHANGED sessions
    /\ UNCHANGED <<net, sock, queues>>

\* The welcome message is queued, as if the client had sent it.
Welcome ==
    /\ thread["io"].at = "welcome"
    /\ msgQ' = Append(msgQ, [from |-> sock[thread["io"].fd],
                             fd |-> thread["io"].fd, req |-> 0])
    /\ Go("io", "submit")
    /\ UNCHANGED <<net, sock, sessions, jobs, batch, killed>>

\* m_pJobQueue->enqueue(processMSG), which waits for the running job.
Submit ==
    /\ thread["io"].at = "submit"
    /\ thread["worker"].at = "idle"
    /\ jobs' = jobs + 1
    /\ Go("io", "idle")
    /\ UNCHANGED <<net, sock, sessions, msgQ, batch, killed>>

-----------------------------------------------------------------------------
(* MessageHandler::inputHandler, then SessionManager::refresh *)

Input(f) == Handling("in") /\ Head(batch).fd = f /\ f # Listen

\* recv_packet gets a packet; a heart-beat is dropped, a request is queued.
\* On an open socket with nothing to read it retries until something comes,
\* and the event loop with it: then neither Receive nor ReceiveFails steps.
Receive(f) ==
    /\ Input(f)
    /\ sock[f] # NoClient
    /\ LET c == sock[f] IN
       /\ peer[c] # "rst"
       /\ sent[c] > read[c]
       /\ read' = [read EXCEPT ![c] = @ + 1]
       /\ \/ msgQ' = Append(msgQ, [from |-> c, fd |-> f, req |-> read[c] + 1])
          \/ msgQ' = msgQ
    /\ batch' = Tail(batch)
    /\ Begin("io", "refresh", f)
    /\ UNCHANGED <<peer, sent, got, backlog, sock, sessions, jobs, killed>>

\* A mutant: EAGAIN is an error like any other.
ReceiveFails_Again(f) ==
    /\ Input(f)
    /\ \/ sock[f] = NoClient
       \/ sock[f] # NoClient /\ sent[sock[f]] = read[sock[f]]
    /\ batch' = Tail(batch)
    /\ Begin("io", "expire", f)
    /\ UNCHANGED <<net, sock, sessions, msgQ, jobs, killed>>

\* NoData_Ex, or Connection_Ex (reset, or a descriptor closed meanwhile).
ReceiveFails(f) ==
    /\ Input(f)
    /\ \/ sock[f] = NoClient
       \/ /\ sock[f] # NoClient
          /\ \/ peer[sock[f]] = "rst"
             \/ peer[sock[f]] = "fin" /\ sent[sock[f]] = read[sock[f]]
    /\ batch' = Tail(batch)
    /\ Begin("io", "expire", f)
    /\ UNCHANGED <<net, sock, sessions, msgQ, jobs, killed>>

RefreshFind ==
    /\ thread["io"].at = "refresh"
    /\ Find("io", "touch", "submit")
    /\ UNCHANGED <<net, sock, sessions, queues, killed>>

\* pSession->m_pHBTimer->refresh(): HeartBeat.tla; here, only the pointer.
RefreshTouch ==
    /\ thread["io"].at = "touch"
    /\ \/ Valid("io") /\ Go("io", "submit") /\ UNCHANGED killed
       \/ Undefined("io", "submit")
    /\ UNCHANGED <<net, sock, sessions, queues>>

-----------------------------------------------------------------------------
(* MessageProcessor::processMSG, on the worker *)

\* A job starts and dequeues a message (none: Empty_Ex, and the job is over).
\* Some handlers fetch the session first; a welcome message has no handler.
StartJob ==
    /\ thread["worker"].at = "idle"
    /\ jobs > 0
    /\ jobs' = jobs - 1
    /\ IF msgQ = << >>
       THEN UNCHANGED <<msgQ, thread>>
       ELSE /\ msgQ' = Tail(msgQ)
            /\ \E place \in {"handle", "reply"} :
                  /\ place = "handle" => Head(msgQ).req # 0
                  /\ thread' = [thread EXCEPT !["worker"] =
                                   [at |-> place, fd |-> Head(msgQ).fd,
                                    ptr |-> NoClient, msg |-> Head(msgQ)]]
    /\ UNCHANGED <<net, sock, sessions, batch, killed>>

\* verifyUserInfo, resEnterRoom: getSessionById, then MySQL or Redis is asked.
HandlerFind ==
    /\ thread["worker"].at = "handle"
    /\ Find("worker", "update", "reply")
    /\ UNCHANGED <<net, sock, sessions, queues, killed>>

\* pSession->m_userInfo is written after the round trip.
HandlerUpdate ==
    /\ thread["worker"].at = "update"
    /\ \/ Valid("worker") /\ Go("worker", "reply") /\ UNCHANGED killed
       \/ Undefined("worker", "reply")
    /\ UNCHANGED <<net, sock, sessions, queues>>

\* getSessionById(header.sessionId) for the reply.
ReplyFind ==
    /\ thread["worker"].at = "reply"
    /\ Find("worker", "send", "idle")
    /\ UNCHANGED <<net, sock, sessions, queues, killed>>

\* send_packet to the descriptor, under the session's mutex, if it has one.
ReplySend ==
    /\ thread["worker"].at = "send"
    /\ HasTimer("worker")
    /\ LET c == sock[thread["worker"].fd]
           m == thread["worker"].msg
       IN
       /\ c # NoClient
       /\ peer[c] # "rst"
       /\ got' = [got EXCEPT ![c] = Append(@, <<m.from, m.req>>)]
       /\ peer' = [peer EXCEPT ![c] = IF @ = "fin" THEN "rst" ELSE @]
    /\ Go("worker", "idle")
    /\ UNCHANGED <<sent, read, backlog, sock, sessions, queues, killed>>

\* A mutant: EAGAIN, a client that reads slowly, is an error like any other.
ReplyFails_Again ==
    /\ thread["worker"].at = "send"
    /\ HasTimer("worker")
    /\ Go("worker", "expire")
    /\ UNCHANGED <<net, sock, sessions, queues, killed>>

\* Connection_Ex: the connection was reset, or the descriptor is closed.
ReplyFails ==
    /\ thread["worker"].at = "send"
    /\ HasTimer("worker")
    /\ \/ sock[thread["worker"].fd] = NoClient
       \/ /\ sock[thread["worker"].fd] # NoClient
          /\ peer[sock[thread["worker"].fd]] = "rst"
    /\ Go("worker", "expire")
    /\ UNCHANGED <<net, sock, sessions, queues, killed>>

\* A session without a timer has no mutex: no reply is sent.
ReplyDropped ==
    /\ thread["worker"].at = "send"
    /\ \/ Valid("worker") /\ ~HasTimer("worker") /\ Go("worker", "idle")
          /\ UNCHANGED killed
       \/ Undefined("worker", "idle")
    /\ UNCHANGED <<net, sock, sessions, queues>>

-----------------------------------------------------------------------------
(* The servers' catch clauses: expired(fd), then farewell(fd) *)

\* expired: getSessionById, under the list's mutex ...
ExpireFind(t) ==
    /\ thread[t].at = "expire"
    /\ Find(t, "delete", "farewell")
    /\ UNCHANGED <<net, sock, sessions, queues, killed>>

\* ... and, under it again, asleep, remove and delete, by the pointer found.
\* expireTimers dereferences the timer a session may not have.
ExpireDelete(t) ==
    /\ thread[t].at = "delete"
    /\ \/ \E i \in DOMAIN sessions :
             /\ sessions[i].id = thread[t].ptr
             /\ killed' = ~sessions[i].hb
             /\ sessions' = RemoveAt(sessions, i)
             /\ Go(t, "farewell")
       \/ Undefined(t, "farewell") /\ UNCHANGED sessions
    /\ UNCHANGED <<net, sock, queues>>

\* farewell: out of the interest list, and close.
Farewell(t) ==
    /\ thread[t].at = "farewell"
    /\ sock' = [sock EXCEPT ![thread[t].fd] = NoClient]
    /\ Go(t, "idle")
    /\ UNCHANGED <<net, sessions, queues, killed>>

-----------------------------------------------------------------------------
Expiring(t) == ExpireFind(t) \/ ExpireDelete(t) \/ Farewell(t)

IOSteps ==
    \/ Wait \/ Accept \/ Hangup
    \/ NewSession \/ ValidateFind \/ ValidateInit \/ Welcome \/ Submit
    \/ \E f \in FDs : Receive(f) \/ ReceiveFails(f)
    \/ RefreshFind \/ RefreshTouch
    \/ Expiring("io")

WorkerSteps ==
    \/ StartJob \/ HandlerFind \/ HandlerUpdate
    \/ ReplyFind \/ ReplySend \/ ReplyFails \/ ReplyDropped
    \/ Expiring("worker")

Next ==
    /\ ~killed
    /\ \/ \E c \in Clients : Connect(c) \/ Request(c) \/ Leave(c)
       \/ IOSteps
       \/ WorkerSteps

SafeSpec == Init /\ [][Next]_vars

\* The two threads run; what clients do is not assumed.
Fairness == WF_vars(~killed /\ IOSteps) /\ WF_vars(~killed /\ WorkerSteps)

Spec == SafeSpec /\ Fairness

-----------------------------------------------------------------------------
(* Properties *)

Messages ==
    [from : Clients \cup {NoClient}, fd : FDs \cup {Listen}, req : 0..MaxReqs]

IOPlaces == {"idle", "new", "validate", "init", "welcome", "submit", "refresh",
             "touch", "expire", "delete", "farewell"}

WorkerPlaces == {"idle", "handle", "update", "reply", "send", "expire",
                 "delete", "farewell"}

\* Shape of the state.
TypeOK ==
    /\ peer \in [Clients -> {"off", "open", "fin", "rst"}]
    /\ sent \in [Clients -> 0..MaxReqs]
    /\ read \in [Clients -> 0..MaxReqs]
    /\ got \in [Clients -> Seq((Clients \cup {NoClient}) \X (0..MaxReqs))]
    /\ backlog \subseteq Clients
    /\ sock \in [FDs -> Clients \cup {NoClient}]
    /\ sessions \in Seq([id : Clients, fd : FDs, hb : BOOLEAN])
    /\ msgQ \in Seq(Messages)
    /\ jobs \in Nat
    /\ batch \in Seq([fd : FDs \cup {Listen}, kind : {"in", "hup"}])
    /\ thread \in [Threads -> [at : IOPlaces \cup WorkerPlaces,
                               fd : FDs \cup {Listen},
                               ptr : Clients \cup {NoClient},
                               msg : Messages]]
    /\ thread["io"].at \in IOPlaces
    /\ thread["worker"].at \in WorkerPlaces
    /\ killed \in BOOLEAN

\* A job takes one message, whichever is first, and says nothing when there is
\* none: no message is left in the queue without a job that will come for it.
NoStrandedMessage ==
    Len(msgQ) <= jobs + (IF thread["io"].at \in {"refresh", "touch", "submit"}
                         THEN 1 ELSE 0)

\* A connected socket is tracked by a session, except while a thread is about
\* to make the session or to close the socket: no client can be connected and
\* beyond the reach of heart-beats, replies and expiry.
OpenHasSession ==
    \A f \in FDs : sock[f] # NoClient =>
        \/ \E s \in ToSet(sessions) : s.fd = f
        \/ thread["io"].at = "new" /\ thread["io"].fd = f
        \/ \E t \in Threads : thread[t].at = "farewell" /\ thread[t].fd = f

\* A client gets the answers to its own requests in the order it sent them,
\* each at most once, and another client's only when that one is no longer
\* connected.  (A welcome queued after its socket was closed is nobody's.)
OrderedReplies ==
    \A c \in Clients :
        /\ \A i, j \in 1..Len(got[c]) :
              /\ i < j
              /\ got[c][i][1] = got[c][j][1]
              /\ got[c][i][1] # NoClient
              => got[c][i][2] < got[c][j][2]
        /\ \A i \in 1..Len(got[c]) :
              got[c][i][1] \notin {c, NoClient} =>
                  \A f \in FDs : sock[f] # got[c][i][1]

\* The event loop is inside recv_packet on a connection that sends nothing.
Stalled ==
    /\ thread["io"].at = "idle"
    /\ batch # << >>
    /\ Head(batch).kind = "in"
    /\ Head(batch).fd \in FDs \ Free
    /\ peer[sock[Head(batch).fd]] = "open"
    /\ ~Readable(sock[Head(batch).fd])

Connected(c) == \E f \in FDs : sock[f] = c

\* Once connected, a client's packet is read and what it asked for leaves the
\* message queue - unless the connection is closed first, or the event loop is
\* stuck on a stale notification.
PacketsProcessed ==
    \A c \in Clients :
        Connected(c) /\ read[c] < sent[c] ~>
            \/ read[c] = sent[c] /\ \A m \in ToSet(msgQ) : m.from # c
            \/ ~Connected(c) \/ Stalled \/ killed

\* The threads use sessions by pointers the other one may delete, in the lookups
\* of refresh, of the handlers and of expired() itself, and expireTimers needs a
\* timer: but as long as no client has left, none of this ends the process.
NobodyDiesUntilOneLeaves ==
    killed => \E c \in Clients : peer[c] \in {"fin", "rst"}

\* farewell(fd) closes a number.  The connection of a client that is still there
\* is closed only in place of another one's, which is gone and whose descriptor
\* came back: by a worker that was answering that one, or by the event loop,
\* which had its EPOLLHUP in the batch.
LivePeerClosedForAnother ==
    [][\A f \in FDs :
          sock[f] # NoClient /\ sock'[f] = NoClient /\ peer[sock[f]] = "open"
          => /\ \E c \in Clients \ {sock[f]} : peer[c] \in {"fin", "rst"}
             /\ \/ /\ thread["worker"].at = "farewell"
                   /\ thread["worker"].fd = f
                   /\ thread["worker"].msg.from # sock[f]
                \/ Hangup]_vars
=============================================================================
