------------------------ MODULE SessionServerProofs -------------------------
(***************************************************************************)
(* Proofs about SessionServer.tla: for any number of clients, descriptors, *)
(* requests and notifications per wait.                                    *)
(***************************************************************************)
EXTENDS SessionServer, FiniteSetTheorems, TLAPS

USE ClientsAssumption, NumbersAssumption

Locals ==
    [at : IOPlaces \cup WorkerPlaces,
     fd : FDs \cup {Listen},
     ptr : Clients \cup {NoClient},
     msg : Messages]

Entries == [id : Clients, fd : FDs, hb : BOOLEAN]

Notifications == [fd : FDs \cup {Listen}, kind : {"in", "hup"}]

\* Away from its resting place the I/O thread works for a client's descriptor.
ThreadOK ==
    /\ thread \in [Threads -> Locals]
    /\ thread["io"].at \in IOPlaces
    /\ thread["worker"].at \in WorkerPlaces
    /\ thread["io"].at # "idle" => thread["io"].fd \in FDs
    /\ thread["io"].at = "new" => thread["io"].ptr \in Clients

\* The server has read no more than was sent.
NetOK ==
    /\ peer \in [Clients -> {"off", "open", "fin", "rst"}]
    /\ sent \in [Clients -> 0..MaxReqs]
    /\ read \in [Clients -> 0..MaxReqs]
    /\ \A c \in Clients : read[c] <= sent[c]
    /\ got \in [Clients -> Seq((Clients \cup {NoClient}) \X (0..MaxReqs))]
    /\ backlog \subseteq Clients
    /\ sock \in [FDs -> Clients \cup {NoClient}]
    /\ killed \in BOOLEAN

QueuesOK ==
    /\ sessions \in Seq(Entries)
    /\ msgQ \in Seq(Messages)
    /\ jobs \in Nat
    /\ batch \in Seq(Notifications)

TypeInv == ThreadOK /\ NetOK /\ QueuesOK

-----------------------------------------------------------------------------
(* Lemmas on the operators that move a thread *)

LEMMA RestingType == Resting \in Locals
BY DEF Resting, Locals, IOPlaces, NoMsg, Messages, Listen

\* Moving a thread keeps its locals typed and leaves the other one alone.
LEMMA GoMoves ==
    ASSUME thread \in [Threads -> Locals], NEW t \in Threads,
           NEW place \in IOPlaces \cup WorkerPlaces, Go(t, place)
    PROVE  /\ thread' \in [Threads -> Locals]
           /\ thread'[t].at = place
           /\ place # "idle" => thread'[t] = [thread[t] EXCEPT !.at = place]
           /\ place = "idle" => thread'[t] = Resting
           /\ \A u \in Threads : u # t => thread'[u] = thread[u]
<1>1. CASE place = "idle"
  <2>1. thread' = [thread EXCEPT ![t] = Resting]
    BY <1>1 DEF Go
  <2>2. Resting.at = "idle"
    BY DEF Resting
  <2>3. QED
    BY <1>1, <2>1, <2>2, RestingType
<1>2. CASE place # "idle"
  <2>1. thread' = [thread EXCEPT ![t] = [@ EXCEPT !.at = place]]
    BY <1>2 DEF Go
  <2>2. [thread[t] EXCEPT !.at = place] \in Locals
    BY DEF Locals
  <2>3. [thread[t] EXCEPT !.at = place].at = place
    BY DEF Locals
  <2>4. QED
    BY <1>2, <2>1, <2>2, <2>3
<1>3. QED
  BY <1>1, <1>2

\* Finding a session moves the thread and may set its pointer.
LEMMA FindMoves ==
    ASSUME thread \in [Threads -> Locals], sessions \in Seq(Entries),
           NEW t \in Threads,
           NEW hit \in (IOPlaces \cup WorkerPlaces) \ {"idle"},
           NEW miss \in IOPlaces \cup WorkerPlaces,
           Find(t, hit, miss)
    PROVE  /\ thread' \in [Threads -> Locals]
           /\ thread'[t].at \in {hit, miss}
           /\ thread'[t].at # "idle" => thread'[t].fd = thread[t].fd
           /\ \A u \in Threads : u # t => thread'[u] = thread[u]
           /\ \/ thread'[t].at = miss
              \/ \E i \in DOMAIN sessions :
                    /\ sessions[i].fd = thread[t].fd
                    /\ thread'[t].ptr = sessions[i].id
<1>1. CASE Matches(thread[t].fd) = {} /\ Go(t, miss)
  <2>1. /\ thread' \in [Threads -> Locals]
        /\ thread'[t].at = miss
        /\ miss # "idle" => thread'[t] = [thread[t] EXCEPT !.at = miss]
        /\ \A u \in Threads : u # t => thread'[u] = thread[u]
    BY <1>1, GoMoves
  <2>2. thread[t] \in Locals
    OBVIOUS
  <2>3. miss # "idle" => thread'[t].fd = thread[t].fd
    BY <2>1, <2>2 DEF Locals
  <2>4. QED
    BY <2>1, <2>3
<1>2. ASSUME NEW i \in Matches(thread[t].fd),
             thread' = [thread EXCEPT ![t].at = hit,
                                      ![t].ptr = sessions[i].id]
      PROVE  /\ thread' \in [Threads -> Locals]
             /\ thread'[t].at = hit
             /\ thread'[t].fd = thread[t].fd
             /\ thread'[t].ptr = sessions[i].id
             /\ \A u \in Threads : u # t => thread'[u] = thread[u]
  <2>1. i \in DOMAIN sessions /\ sessions[i].id \in Clients
    <3>1. i \in DOMAIN sessions
      BY DEF Matches
    <3>2. sessions[i] \in Entries
      BY <3>1
    <3>3. QED
      BY <3>1, <3>2 DEF Entries
  <2>2. thread[t] \in Locals
    OBVIOUS
  <2>3. [thread[t] EXCEPT !.at = hit, !.ptr = sessions[i].id] \in Locals
    BY <2>1, <2>2 DEF Locals
  <2>4. thread' = [thread EXCEPT
                     ![t] = [thread[t] EXCEPT !.at = hit,
                                              !.ptr = sessions[i].id]]
    BY <1>2, <2>2 DEF Locals
  <2>5. QED
    BY <2>2, <2>3, <2>4 DEF Locals
<1>3. QED
  BY <1>1, <1>2 DEF Find, Matches

\* Going somewhere on one's own path keeps the threads' locals well formed.
LEMMA GoKeeps ==
    ASSUME ThreadOK, NEW t \in Threads,
           NEW place \in IOPlaces \cup WorkerPlaces, Go(t, place),
           t = "io" => /\ place \in IOPlaces \ {"new"}
                       /\ place # "idle" => thread["io"].at # "idle",
           t = "worker" => place \in WorkerPlaces
    PROVE  ThreadOK'
<1>1. /\ thread' \in [Threads -> Locals]
      /\ thread'[t].at = place
      /\ place # "idle" => thread'[t] = [thread[t] EXCEPT !.at = place]
      /\ \A u \in Threads : u # t => thread'[u] = thread[u]
  BY GoMoves DEF ThreadOK
<1>2. place # "idle" => thread'[t].fd = thread[t].fd
  BY <1>1 DEF ThreadOK, Locals
<1>3. CASE t = "io"
  BY <1>1, <1>2, <1>3 DEF ThreadOK, Threads
<1>4. CASE t = "worker"
  BY <1>1, <1>4 DEF ThreadOK, Threads
<1>5. QED
  BY <1>3, <1>4 DEF Threads

\* And so does looking a session up on the way.
LEMMA FindKeeps ==
    ASSUME ThreadOK, QueuesOK, NEW t \in Threads,
           NEW hit \in (IOPlaces \cup WorkerPlaces) \ {"idle"},
           NEW miss \in IOPlaces \cup WorkerPlaces,
           Find(t, hit, miss),
           t = "io" => /\ thread["io"].at # "idle"
                       /\ {hit, miss} \subseteq IOPlaces \ {"new"},
           t = "worker" => {hit, miss} \subseteq WorkerPlaces
    PROVE  ThreadOK'
<1>1. /\ thread' \in [Threads -> Locals]
      /\ thread'[t].at \in {hit, miss}
      /\ thread'[t].at # "idle" => thread'[t].fd = thread[t].fd
      /\ \A u \in Threads : u # t => thread'[u] = thread[u]
  BY FindMoves DEF ThreadOK, QueuesOK
<1>2. CASE t = "io"
  BY <1>1, <1>2 DEF ThreadOK, Threads
<1>3. CASE t = "worker"
  BY <1>1, <1>3 DEF ThreadOK, Threads
<1>4. QED
  BY <1>2, <1>3 DEF Threads

-----------------------------------------------------------------------------
(* Type correctness *)

\* The threads and their locals.
LEMMA ThreadStep == TypeInv /\ [Next]_vars => ThreadOK'
<1> SUFFICES ASSUME TypeInv, [Next]_vars PROVE ThreadOK'
  OBVIOUS
<1>a. ThreadOK /\ QueuesOK /\ {"io", "worker"} \subseteq Threads
  BY DEF TypeInv, Threads
<1>b. IOPlaces \cup WorkerPlaces
        = {"idle", "new", "validate", "init", "welcome", "submit", "refresh",
           "touch", "handle", "update", "reply", "send", "expire", "delete",
           "farewell"}
  BY DEF IOPlaces, WorkerPlaces
<1>1. CASE UNCHANGED thread
  BY <1>a, <1>1 DEF ThreadOK
<1>2. CASE Accept
  <2>1. PICK c \in backlog, f \in Free :
            thread' = [thread EXCEPT !["io"] =
                         [Resting EXCEPT !.at = "new", !.fd = f, !.ptr = c]]
    BY <1>2 DEF Accept
  <2>2. c \in Clients /\ f \in FDs
    BY DEF TypeInv, NetOK, Free
  <2> DEFINE r == [Resting EXCEPT !.at = "new", !.fd = f, !.ptr = c]
  <2>3. r \in Locals /\ r.at = "new" /\ r.fd = f /\ r.ptr = c
    BY <1>b, <2>2, RestingType DEF Locals
  <2>4. QED
    BY <1>a, <2>1, <2>2, <2>3 DEF ThreadOK, IOPlaces
<1>3. CASE NewSession \/ Welcome \/ Submit \/ ValidateInit \/ RefreshTouch
  BY <1>a, <1>3, GoKeeps
     DEF NewSession, Welcome, Submit, ValidateInit, RefreshTouch, Undefined,
         IOPlaces
<1>4. CASE ValidateFind \/ RefreshFind
  BY <1>a, <1>4, FindKeeps DEF ValidateFind, RefreshFind, IOPlaces
<1>5. ASSUME NEW f \in FDs, Receive(f) \/ ReceiveFails(f) PROVE ThreadOK'
  <2>1. PICK place \in {"refresh", "expire"} : Begin("io", place, f)
    BY <1>5 DEF Receive, ReceiveFails
  <2> DEFINE r == [Resting EXCEPT !.at = place, !.fd = f]
  <2>2. r \in Locals /\ r.at = place /\ r.fd = f
    BY <1>b, RestingType DEF Locals
  <2>3. QED
    BY <1>a, <2>1, <2>2 DEF Begin, ThreadOK, IOPlaces
<1>6. CASE StartJob /\ thread' # thread
  <2>1. PICK place \in {"handle", "reply"} :
            /\ msgQ # << >>
            /\ thread' = [thread EXCEPT !["worker"] =
                            [at |-> place, fd |-> Head(msgQ).fd,
                             ptr |-> NoClient, msg |-> Head(msgQ)]]
    BY <1>6 DEF StartJob
  <2>2. Head(msgQ) \in Messages
    BY <1>a, <2>1 DEF QueuesOK
  <2>3. Head(msgQ).fd \in FDs \cup {Listen}
    BY <2>2 DEF Messages
  <2>4. QED
    BY <1>a, <1>b, <2>1, <2>2, <2>3 DEF ThreadOK, Locals, WorkerPlaces
<1>7. CASE HandlerFind \/ ReplyFind
  BY <1>a, <1>7, FindKeeps DEF HandlerFind, ReplyFind, WorkerPlaces
<1>8. CASE HandlerUpdate \/ ReplySend \/ ReplyFails \/ ReplyDropped
  BY <1>a, <1>8, GoKeeps
     DEF HandlerUpdate, ReplySend, ReplyFails, ReplyDropped, Undefined,
         WorkerPlaces
<1>9. ASSUME NEW t \in Threads, ExpireFind(t) PROVE ThreadOK'
  BY <1>a, <1>9, FindKeeps DEF ExpireFind, IOPlaces, WorkerPlaces
<1>10. ASSUME NEW t \in Threads, ExpireDelete(t) \/ Farewell(t)
       PROVE  ThreadOK'
  BY <1>a, <1>10, GoKeeps
     DEF ExpireDelete, Farewell, Undefined, IOPlaces, WorkerPlaces
<1>11. QED
  BY <1>a, <1>1, <1>2, <1>3, <1>4, <1>5, <1>6, <1>7, <1>8, <1>9, <1>10
     DEF vars, Next, IOSteps, WorkerSteps, Expiring, Connect, Request, Leave,
         Wait, Hangup, StartJob

\* The network: clients' ends, connections and what was received.
LEMMA NetStep == TypeInv /\ [Next]_vars => NetOK'
<1> SUFFICES ASSUME TypeInv, [Next]_vars PROVE NetOK'
  OBVIOUS
<1>a. NetOK /\ ThreadOK
  BY DEF TypeInv
<1>1. CASE UNCHANGED <<net, sock>> /\ killed' \in BOOLEAN
  BY <1>a, <1>1 DEF NetOK, net
<1>2. ASSUME NEW c \in Clients, Connect(c) \/ Request(c) \/ Leave(c)
      PROVE  NetOK'
  <2>1. CASE Connect(c)
    BY <1>a, <2>1 DEF NetOK, Connect
  <2>2. CASE Request(c)
    BY <1>a, <2>2 DEF NetOK, Request
  <2>3. CASE Leave(c)
    BY <1>a, <2>3 DEF NetOK, Leave
  <2>4. QED
    BY <1>2, <2>1, <2>2, <2>3
<1>3. CASE Accept
  BY <1>a, <1>3 DEF NetOK, Accept
<1>4. CASE Hangup
  BY <1>a, <1>4 DEF NetOK, Hangup, net
<1>5. ASSUME NEW f \in FDs, Receive(f) PROVE NetOK'
  <2>1. sock[f] \in Clients
    BY <1>a, <1>5 DEF NetOK, Receive
  <2>2. sent[sock[f]] \in 0..MaxReqs /\ read[sock[f]] \in 0..MaxReqs
    BY <1>a, <2>1 DEF NetOK
  <2>3. read' = [read EXCEPT ![sock[f]] = @ + 1]
        /\ sent[sock[f]] > read[sock[f]]
    BY <1>5 DEF Receive
  <2>4. read' \in [Clients -> 0..MaxReqs]
    BY <1>a, <2>1, <2>2, <2>3 DEF NetOK
  <2>5. \A c \in Clients : read'[c] <= sent[c]
    BY <1>a, <2>1, <2>2, <2>3 DEF NetOK
  <2>6. QED
    BY <1>a, <1>5, <2>4, <2>5 DEF NetOK, Receive
<1>6. CASE ReplySend
  <2>1. thread["worker"].msg \in Messages
    BY <1>a DEF ThreadOK, Threads, Locals
  <2>2. <<thread["worker"].msg.from, thread["worker"].msg.req>>
          \in (Clients \cup {NoClient}) \X (0..MaxReqs)
    BY <2>1 DEF Messages
  <2>3. PICK c : /\ peer' = [peer EXCEPT ![c] = IF @ = "fin" THEN "rst" ELSE @]
                 /\ got' = [got EXCEPT ![c] =
                              Append(@, <<thread["worker"].msg.from,
                                          thread["worker"].msg.req>>)]
    BY <1>6 DEF ReplySend
  <2>4. peer' \in [Clients -> {"off", "open", "fin", "rst"}]
    BY <1>a, <2>3 DEF NetOK
  <2>5. got' \in [Clients -> Seq((Clients \cup {NoClient}) \X (0..MaxReqs))]
    <3> DEFINE Answers == (Clients \cup {NoClient}) \X (0..MaxReqs)
               a == <<thread["worker"].msg.from, thread["worker"].msg.req>>
    <3>1. a \in Answers /\ got \in [Clients -> Seq(Answers)]
      BY <1>a, <2>2 DEF NetOK
    <3>2. got' = [got EXCEPT ![c] = Append(@, a)]
      BY <2>3
    <3> HIDE DEF Answers, a
    <3>3. got' \in [Clients -> Seq(Answers)]
      <4>1. ASSUME NEW d \in Clients PROVE got'[d] \in Seq(Answers)
        <5>1. CASE d = c
          <6>1. got'[d] = Append(got[d], a)
            BY <3>1, <3>2, <5>1
          <6>2. QED
            BY <3>1, <6>1
        <5>2. CASE d # c
          BY <3>1, <3>2, <5>2
        <5>3. QED
          BY <5>1, <5>2
      <4>2. QED
        BY <3>1, <3>2, <4>1
    <3>4. QED
      BY <3>3 DEF Answers
  <2>6. UNCHANGED <<sent, read, backlog, sock, killed>>
    BY <1>6 DEF ReplySend
  <2>7. QED
    BY <1>a, <2>4, <2>5, <2>6 DEF NetOK
<1>7. ASSUME NEW t \in Threads, ExpireDelete(t) PROVE NetOK'
  <2>1. ASSUME NEW i \in DOMAIN sessions PROVE sessions[i].hb \in BOOLEAN
    <3>1. sessions[i] \in Entries
      BY DEF TypeInv, QueuesOK
    <3>2. QED
      BY <3>1 DEF Entries
  <2>2. QED
    BY <1>a, <1>7, <2>1 DEF NetOK, net, ExpireDelete, Undefined
<1>8. ASSUME NEW t \in Threads, Farewell(t) PROVE NetOK'
  BY <1>a, <1>8 DEF NetOK, net, Farewell
<1>9. CASE ValidateInit \/ RefreshTouch \/ HandlerUpdate \/ ReplyDropped
  BY <1>a, <1>1, <1>9
     DEF ValidateInit, RefreshTouch, HandlerUpdate, ReplyDropped, Undefined,
         NetOK
<1>10. CASE UNCHANGED <<net, sock, killed>>
  BY <1>a, <1>1, <1>10 DEF NetOK
<1>11. CASE IOSteps
  BY <1>3, <1>4, <1>5, <1>7, <1>8, <1>9, <1>10, <1>11
     DEF IOSteps, Threads, Expiring, Wait, NewSession, ValidateFind, Welcome,
         Submit, ReceiveFails, RefreshFind, ExpireFind
<1>12. CASE WorkerSteps
  BY <1>6, <1>7, <1>8, <1>9, <1>10, <1>12
     DEF WorkerSteps, Threads, Expiring, StartJob, HandlerFind, ReplyFind,
         ReplyFails, ExpireFind
<1>13. QED
  BY <1>2, <1>10, <1>11, <1>12 DEF vars, Next

\* The kernel reports a finite set of events: epoll_wait returns a list of them.
LEMMA WaitReturnsList ==
    ASSUME NetOK, Wait
    PROVE  batch' \in Seq(Notifications)
<1> DEFINE Kinds == {"in", "hup"}
           Where == FDs \cup {Listen}
           Make == [p \in Where \X Kinds |-> [fd |-> p[1], kind |-> p[2]]]
<1>1. IsFiniteSet(Where) /\ IsFiniteSet(Kinds)
  <2>1. IsFiniteSet({Listen}) /\ IsFiniteSet({"in"}) /\ IsFiniteSet({"hup"})
    BY FS_Singleton
  <2>2. IsFiniteSet({"in"} \cup {"hup"})
    BY <2>1, FS_Union
  <2>3. Kinds = {"in"} \cup {"hup"}
    OBVIOUS
  <2>4. QED
    BY <2>1, <2>2, <2>3, FS_Union
<1>2. IsFiniteSet(Where \X Kinds)
  BY <1>1, FS_Product
<1>3. Make \in Surjection(Where \X Kinds, Notifications)
  <2>1. Make \in [Where \X Kinds -> Notifications]
    BY DEF Notifications
  <2>2. ASSUME NEW n \in Notifications
        PROVE  \E p \in Where \X Kinds : Make[p] = n
    <3>1. <<n.fd, n.kind>> \in Where \X Kinds
      BY DEF Notifications
    <3>2. Make[<<n.fd, n.kind>>] = n
      BY <3>1 DEF Notifications
    <3>3. QED
      BY <3>1, <3>2
  <2>3. QED
    BY <2>1, <2>2 DEF Surjection
<1>4. IsFiniteSet(Notifications)
  BY <1>2, <1>3, FS_Surjection
<1>5. Ready \in SUBSET Notifications
  BY DEF Ready, Free, Notifications
<1>6. Cardinality(Ready) \in Nat
  BY <1>4, <1>5, FS_Subset, FS_CardinalityType
<1>7. PICK n \in Nat : batch' \in [1..n -> Ready]
  BY <1>6 DEF Wait, Injection
<1>8. QED
  BY <1>5, <1>7

\* What waits: sessions, messages, jobs and notifications.
LEMMA QueuesStep == TypeInv /\ [Next]_vars => QueuesOK'
<1> SUFFICES ASSUME TypeInv, [Next]_vars PROVE QueuesOK'
  OBVIOUS
<1>a. QueuesOK /\ ThreadOK /\ NetOK
  BY DEF TypeInv
<1>b. Tail(batch) \in Seq(Notifications) \/ batch = << >>
  BY <1>a DEF QueuesOK
<1>1. CASE UNCHANGED <<sessions, queues>>
  BY <1>a, <1>1 DEF QueuesOK, queues
<1>2. CASE Wait
  BY <1>a, <1>2, WaitReturnsList DEF QueuesOK, Wait
<1>3. CASE Accept \/ Hangup \/ \E f \in FDs : ReceiveFails(f)
  BY <1>a, <1>b, <1>3
     DEF QueuesOK, Accept, Hangup, ReceiveFails, Input, Handling
<1>4. CASE NewSession
  <2>1. [id |-> thread["io"].ptr, fd |-> thread["io"].fd, hb |-> FALSE]
          \in Entries
    BY <1>a, <1>4 DEF NewSession, ThreadOK, Entries
  <2>2. QED
    BY <1>a, <1>4, <2>1 DEF QueuesOK, queues, NewSession
<1>5. CASE ValidateInit
  <2>1. CASE UNCHANGED sessions
    BY <1>1, <1>5, <2>1 DEF ValidateInit
  <2>2. CASE sessions' = [i \in DOMAIN sessions |->
                            IF sessions[i].id = thread["io"].ptr
                            THEN [sessions[i] EXCEPT !.hb = TRUE]
                            ELSE sessions[i]]
    <3>1. ASSUME NEW e \in Entries PROVE [e EXCEPT !.hb = TRUE] \in Entries
      BY DEF Entries
    <3>2. sessions' \in [1..Len(sessions) -> Entries]
      BY <1>a, <2>2, <3>1 DEF QueuesOK
    <3>3. sessions' \in Seq(Entries)
      BY <1>a, <3>2 DEF QueuesOK
    <3>4. QED
      BY <1>a, <1>5, <3>3 DEF QueuesOK, queues, ValidateInit
  <2>3. QED
    BY <1>5, <2>1, <2>2 DEF ValidateInit
<1>6. CASE Welcome
  <2>1. [from |-> sock[thread["io"].fd], fd |-> thread["io"].fd, req |-> 0]
          \in Messages
    <3>1. thread["io"].fd \in FDs
      BY <1>a, <1>6 DEF Welcome, ThreadOK
    <3>2. sock[thread["io"].fd] \in Clients \cup {NoClient}
      BY <1>a, <3>1 DEF NetOK
    <3>3. QED
      BY <3>1, <3>2 DEF Messages
  <2>2. QED
    BY <1>a, <1>6, <2>1 DEF QueuesOK, Welcome
<1>7. CASE Submit
  BY <1>a, <1>7 DEF QueuesOK, Submit
<1>8. ASSUME NEW f \in FDs, Receive(f) PROVE QueuesOK'
  <2>1. sock[f] \in Clients /\ sent[sock[f]] > read[sock[f]]
    BY <1>a, <1>8 DEF NetOK, Receive
  <2>2. read[sock[f]] + 1 \in 0..MaxReqs
    <3>1. sent[sock[f]] \in 0..MaxReqs /\ read[sock[f]] \in 0..MaxReqs
      BY <1>a, <2>1 DEF NetOK
    <3>2. QED
      BY <2>1, <3>1
  <2>3. [from |-> sock[f], fd |-> f, req |-> read[sock[f]] + 1] \in Messages
    BY <2>1, <2>2 DEF Messages
  <2>4. msgQ' \in Seq(Messages)
    <3> DEFINE m == [from |-> sock[f], fd |-> f, req |-> read[sock[f]] + 1]
    <3>1. m \in Messages
      BY <2>3
    <3>2. msgQ' = Append(msgQ, m) \/ msgQ' = msgQ
      BY <1>8 DEF Receive
    <3> HIDE DEF m
    <3>3. QED
      <4>1. msgQ \in Seq(Messages)
        BY <1>a DEF QueuesOK
      <4>2. Append(msgQ, m) \in Seq(Messages)
        BY <3>1, <4>1
      <4>3. QED
        BY <3>2, <4>1, <4>2
  <2>5. QED
    BY <1>a, <1>b, <1>8, <2>4 DEF QueuesOK, Receive, Input, Handling
<1>9. CASE StartJob
  <2>1. jobs' \in Nat
    BY <1>a, <1>9 DEF QueuesOK, StartJob
  <2>2. msgQ' = msgQ \/ (msgQ # << >> /\ msgQ' = Tail(msgQ))
    BY <1>9 DEF StartJob
  <2>3. msgQ' \in Seq(Messages)
    <3>1. msgQ \in Seq(Messages)
      BY <1>a DEF QueuesOK
    <3>2. QED
      BY <2>2, <3>1
  <2>4. QED
    BY <1>a, <1>9, <2>1, <2>3 DEF QueuesOK, StartJob
<1>10. ASSUME NEW t \in Threads, ExpireDelete(t) PROVE QueuesOK'
  <2>1. sessions' \in Seq(Entries)
    <3>1. ASSUME NEW i \in DOMAIN sessions
          PROVE  RemoveAt(sessions, i) \in Seq(Entries)
      <4>1. /\ SubSeq(sessions, 1, i - 1) \in Seq(Entries)
            /\ SubSeq(sessions, i + 1, Len(sessions)) \in Seq(Entries)
        BY <1>a DEF QueuesOK
      <4>2. QED
        BY <4>1 DEF RemoveAt
    <3>2. QED
      BY <1>a, <1>10, <3>1 DEF QueuesOK, ExpireDelete
  <2>2. QED
    BY <1>a, <1>10, <2>1 DEF QueuesOK, queues, ExpireDelete
<1>11. CASE IOSteps
  BY <1>1, <1>2, <1>3, <1>4, <1>5, <1>6, <1>7, <1>8, <1>10, <1>11
     DEF IOSteps, Threads, Expiring, ValidateFind, RefreshFind, RefreshTouch,
         ExpireFind, Farewell
<1>12. CASE WorkerSteps
  BY <1>1, <1>9, <1>10, <1>12
     DEF WorkerSteps, Threads, Expiring, HandlerFind, HandlerUpdate, ReplyFind,
         ReplySend, ReplyFails, ReplyDropped, ExpireFind, Farewell
<1>13. ASSUME NEW c \in Clients, Connect(c) \/ Request(c) \/ Leave(c)
       PROVE  QueuesOK'
  BY <1>1, <1>13 DEF Connect, Request, Leave
<1>14. QED
  BY <1>1, <1>11, <1>12, <1>13 DEF vars, Next

LEMMA InitType == Init => TypeInv
<1> SUFFICES ASSUME Init PROVE TypeInv
  OBVIOUS
<1>1. ThreadOK
  BY RestingType DEF Init, ThreadOK, Threads, IOPlaces, WorkerPlaces, Resting
<1>2. NetOK
  <2>1. 0 \in 0..MaxReqs
    OBVIOUS
  <2>2. got \in [Clients -> Seq((Clients \cup {NoClient}) \X (0..MaxReqs))]
    BY DEF Init
  <2>3. /\ sent \in [Clients -> 0..MaxReqs]
        /\ read \in [Clients -> 0..MaxReqs]
        /\ \A c \in Clients : read[c] <= sent[c]
    BY <2>1 DEF Init
  <2>4. QED
    BY <2>2, <2>3 DEF Init, NetOK
<1>3. QueuesOK
  BY DEF Init, QueuesOK
<1>4. QED
  BY <1>1, <1>2, <1>3 DEF TypeInv

LEMMA NextType == TypeInv /\ [Next]_vars => TypeInv'
BY ThreadStep, NetStep, QueuesStep DEF TypeInv

LEMMA TypeInvIsTypeOK == TypeInv => TypeOK
BY DEF TypeInv, TypeOK, ThreadOK, NetOK, QueuesOK, Locals, Entries,
       Notifications

\* The state keeps its shape, in any interleaving of the two threads.
THEOREM TypeCorrect == SafeSpec => []TypeOK
<1>1. SafeSpec => []TypeInv
  BY InitType, NextType, PTL DEF SafeSpec
<1>2. QED
  BY <1>1, TypeInvIsTypeOK, PTL

-----------------------------------------------------------------------------
(* Messages and jobs *)

\* The I/O thread has still to submit the job for what it has just queued.
Owing == thread["io"].at \in {"refresh", "touch", "submit"}

LEMMA InitStranded == Init => NoStrandedMessage
BY DEF Init, NoStrandedMessage, Resting, Threads

LEMMA NextStranded ==
    TypeInv /\ NoStrandedMessage /\ [Next]_vars => NoStrandedMessage'
<1> SUFFICES ASSUME TypeInv, NoStrandedMessage, [Next]_vars
             PROVE  NoStrandedMessage'
  OBVIOUS
<1>a. /\ thread \in [Threads -> Locals]
      /\ sessions \in Seq(Entries)
      /\ msgQ \in Seq(Messages)
      /\ jobs \in Nat
      /\ {"io", "worker"} \subseteq Threads
  BY DEF TypeInv, ThreadOK, QueuesOK, Threads
<1>b. /\ Owing => Len(msgQ) <= jobs + 1
      /\ ~Owing => Len(msgQ) <= jobs
  BY <1>a DEF NoStrandedMessage, Owing
<1>c. SUFFICES /\ Owing' => Len(msgQ') <= jobs' + 1
               /\ ~Owing' => Len(msgQ') <= jobs'
  <2>1. jobs' \in Nat /\ msgQ' \in Seq(Messages)
    BY QueuesStep DEF QueuesOK
  <2>2. QED
    BY <1>c, <2>1 DEF NoStrandedMessage, Owing
<1>1. CASE UNCHANGED <<msgQ, jobs>> /\ (Owing => Owing')
  BY <1>a, <1>b, <1>1
<1>2. CASE Welcome
  <2>1. ~Owing /\ Owing'
    BY <1>a, <1>2, GoMoves DEF Welcome, Owing, IOPlaces
  <2>2. Len(msgQ') = Len(msgQ) + 1 /\ jobs' = jobs
    BY <1>a, <1>2 DEF Welcome
  <2>3. QED
    BY <1>a, <1>b, <2>1, <2>2
<1>3. ASSUME NEW f \in FDs, Receive(f)
      PROVE  /\ Owing' => Len(msgQ') <= jobs' + 1
             /\ ~Owing' => Len(msgQ') <= jobs'
  <2>1. ~Owing
    BY <1>3 DEF Receive, Input, Handling, Owing
  <2>2. thread'["io"] = [Resting EXCEPT !.at = "refresh", !.fd = f]
    BY <1>a, <1>3 DEF Receive, Begin
  <2>3. Owing'
    BY <2>2 DEF Owing, Resting
  <2>4. Len(msgQ') <= Len(msgQ) + 1 /\ jobs' = jobs
    BY <1>a, <1>3 DEF Receive
  <2>5. QED
    BY <1>a, <1>b, <2>1, <2>3, <2>4
<1>4. CASE Submit
  BY <1>a, <1>b, <1>4 DEF Submit, Owing
<1>5. CASE StartJob
  <2>1. thread'["io"] = thread["io"]
    BY <1>a, <1>5 DEF StartJob
  <2>2. Owing' = Owing
    BY <2>1 DEF Owing
  <2>3. jobs > 0 /\ jobs' = jobs - 1
    BY <1>5 DEF StartJob
  <2>4. \/ msgQ = << >> /\ msgQ' = msgQ
        \/ msgQ # << >> /\ Len(msgQ') = Len(msgQ) - 1
    BY <1>a, <1>5 DEF StartJob
  <2>5. QED
    BY <1>a, <1>b, <2>2, <2>3, <2>4
<1>6. CASE RefreshFind
  <2>1. Owing'
    BY <1>a, <1>6, FindMoves DEF RefreshFind, Owing, IOPlaces
  <2>2. QED
    BY <1>1, <1>6, <2>1 DEF RefreshFind, queues
<1>7. CASE RefreshTouch
  <2>1. Owing'
    BY <1>a, <1>7, GoMoves DEF RefreshTouch, Undefined, Owing, IOPlaces
  <2>2. QED
    BY <1>1, <1>7, <2>1 DEF RefreshTouch, queues
<1>8. CASE /\ UNCHANGED <<msgQ, jobs>>
           /\ thread["io"].at \in IOPlaces \ {"refresh", "touch", "submit"}
  BY <1>1, <1>8 DEF Owing
<1>9. CASE IOSteps
  BY <1>2, <1>3, <1>4, <1>6, <1>7, <1>8, <1>9
     DEF IOSteps, Expiring, Wait, Accept, Hangup, Handling, NewSession,
         ValidateFind, ValidateInit, ReceiveFails, Input, ExpireFind,
         ExpireDelete, Farewell, queues, IOPlaces
<1>10. CASE WorkerSteps /\ ~StartJob
  <2>1. UNCHANGED <<msgQ, jobs>>
    BY <1>10
       DEF WorkerSteps, Expiring, HandlerFind, HandlerUpdate, ReplyFind,
           ReplySend, ReplyFails, ReplyDropped, ExpireFind, ExpireDelete,
           Farewell, queues
  <2>2. thread'["io"] = thread["io"]
    <3>1. CASE HandlerFind \/ ReplyFind \/ ExpireFind("worker")
      BY <1>a, <3>1, FindMoves
         DEF HandlerFind, ReplyFind, ExpireFind, WorkerPlaces
    <3>2. CASE HandlerUpdate \/ ReplySend \/ ReplyFails \/ ReplyDropped
      BY <1>a, <3>2, GoMoves
         DEF HandlerUpdate, ReplySend, ReplyFails, ReplyDropped, Undefined,
             WorkerPlaces
    <3>3. CASE ExpireDelete("worker") \/ Farewell("worker")
      BY <1>a, <3>3, GoMoves DEF ExpireDelete, Farewell, Undefined, WorkerPlaces
    <3>4. QED
      BY <1>10, <3>1, <3>2, <3>3 DEF WorkerSteps, Expiring
  <2>3. QED
    BY <1>1, <2>1, <2>2 DEF Owing
<1>11. CASE UNCHANGED <<msgQ, jobs, thread>>
  BY <1>1, <1>11 DEF Owing
<1>12. QED
  BY <1>5, <1>9, <1>10, <1>11
     DEF Next, Connect, Request, Leave, vars, queues

\* Every message in the queue has a job that will come for it.
THEOREM NoMessageStranded == SafeSpec => []NoStrandedMessage
BY InitType, NextType, InitStranded, NextStranded, PTL DEF SafeSpec

-----------------------------------------------------------------------------
(* Sockets and sessions *)

\* A client the server has not made a session for.
Unmet(c) ==
    \/ peer[c] = "off"
    \/ c \in backlog
    \/ thread["io"].at = "new" /\ thread["io"].ptr = c

\* A pointer stands for one descriptor: the one its session was made for, and
\* the one under which a thread found it in order to delete it.  Pointers of
\* sessions still to be made are nowhere.
Tracking ==
    /\ \A i, j \in DOMAIN sessions :
          sessions[i].id = sessions[j].id => sessions[i].fd = sessions[j].fd
    /\ \A t \in Threads : thread[t].at = "delete" =>
          \A i \in DOMAIN sessions :
             sessions[i].id = thread[t].ptr => sessions[i].fd = thread[t].fd
    /\ \A c \in Clients : Unmet(c) =>
          /\ \A i \in DOMAIN sessions : sessions[i].id # c
          /\ \A t \in Threads : thread[t].at = "delete" => thread[t].ptr # c
    /\ \A c \in backlog : peer[c] # "off"
    /\ thread["io"].at = "new" =>
          /\ peer[thread["io"].ptr] # "off"
          /\ thread["io"].ptr \notin backlog

\* Every session of the next state is one of this state's.
NoneMade ==
    \A j \in DOMAIN sessions' : \E i \in DOMAIN sessions :
        sessions'[j].id = sessions[i].id /\ sessions'[j].fd = sessions[i].fd

\* No thread gets hold of a session to delete, or of a connection to track.
NoneFound ==
    \A t \in Threads :
        thread'[t].at \in {"delete", "new"} => thread'[t] = thread[t]

\* Steps of that kind cannot disturb Tracking, whatever else they do.
LEMMA TrackingKeeps ==
    ASSUME TypeInv, Tracking, backlog' = backlog, NoneMade, NoneFound,
           \A c \in Clients : peer'[c] = "off" <=> peer[c] = "off"
    PROVE  Tracking'
<1>a. "io" \in Threads /\ backlog \subseteq Clients
  BY DEF Threads, TypeInv, NetOK
<1>1. \A i, j \in DOMAIN sessions' :
          sessions'[i].id = sessions'[j].id => sessions'[i].fd = sessions'[j].fd
  BY DEF Tracking, NoneMade
<1>2. \A t \in Threads : thread'[t].at = "delete" =>
          \A i \in DOMAIN sessions' :
             sessions'[i].id = thread'[t].ptr
                => sessions'[i].fd = thread'[t].fd
  BY DEF Tracking, NoneMade, NoneFound
<1>3. ASSUME NEW c \in Clients, Unmet(c)'
      PROVE  /\ \A i \in DOMAIN sessions' : sessions'[i].id # c
             /\ \A t \in Threads :
                   thread'[t].at = "delete" => thread'[t].ptr # c
  <2>1. Unmet(c)
    BY <1>a, <1>3 DEF Unmet, NoneFound
  <2>2. QED
    BY <2>1 DEF Tracking, NoneMade, NoneFound
<1>4. \A c \in backlog' : peer'[c] # "off"
  BY <1>a DEF Tracking
<1>5. thread'["io"].at = "new" =>
          peer'[thread'["io"].ptr] # "off" /\ thread'["io"].ptr \notin backlog'
  BY <1>a DEF Tracking, NoneFound, TypeInv, ThreadOK
<1>6. QED
  BY <1>1, <1>2, <1>3, <1>4, <1>5 DEF Tracking

\* Removing an element leaves all the others, and no new ones.
LEMMA RemovedElements ==
    ASSUME NEW s \in Seq(Entries), NEW i \in DOMAIN s
    PROVE  /\ \A j \in DOMAIN RemoveAt(s, i) :
                 \E k \in DOMAIN s : RemoveAt(s, i)[j] = s[k]
           /\ \A k \in DOMAIN s \ {i} :
                 \E j \in DOMAIN RemoveAt(s, i) : RemoveAt(s, i)[j] = s[k]
<1> DEFINE a == SubSeq(s, 1, i - 1)
           b == SubSeq(s, i + 1, Len(s))
<1>1. /\ a \in Seq(Entries) /\ Len(a) = i - 1
      /\ \A j \in 1..(i - 1) : a[j] = s[j]
  OBVIOUS
<1>2. /\ b \in Seq(Entries) /\ Len(b) = Len(s) - i
      /\ \A j \in 1..(Len(s) - i) : b[j] = s[i + j]
  OBVIOUS
<1>3. RemoveAt(s, i) = a \o b
  BY DEF RemoveAt
<1> HIDE DEF a, b
<1>4. /\ DOMAIN RemoveAt(s, i) = 1..(Len(s) - 1)
      /\ \A j \in 1..(Len(s) - 1) :
            RemoveAt(s, i)[j] = IF j < i THEN s[j] ELSE s[j + 1]
  BY <1>1, <1>2, <1>3
<1>5. \A j \in 1..(Len(s) - 1) : \E k \in DOMAIN s : RemoveAt(s, i)[j] = s[k]
  BY <1>4
<1>6. ASSUME NEW k \in DOMAIN s \ {i}
      PROVE  \E j \in DOMAIN RemoveAt(s, i) : RemoveAt(s, i)[j] = s[k]
  <2>1. CASE k < i
    BY <1>4, <2>1
  <2>2. CASE k > i
    <3>1. k - 1 \in 1..(Len(s) - 1) /\ RemoveAt(s, i)[k - 1] = s[k]
      BY <1>4, <2>2
    <3>2. QED
      BY <1>4, <3>1
  <2>3. QED
    BY <2>1, <2>2
<1>7. QED
  BY <1>4, <1>5, <1>6

\* A thread that goes on its way, but not there.
LEMMA GoFindsNone ==
    ASSUME thread \in [Threads -> Locals], NEW t \in Threads,
           NEW place \in (IOPlaces \cup WorkerPlaces) \ {"delete", "new"},
           Go(t, place)
    PROVE  NoneFound
BY GoMoves DEF NoneFound

\* Nor one that looks a session up for another purpose.
LEMMA FindFindsNone ==
    ASSUME thread \in [Threads -> Locals], sessions \in Seq(Entries),
           NEW t \in Threads,
           NEW hit \in (IOPlaces \cup WorkerPlaces)
                         \ {"idle", "delete", "new"},
           NEW miss \in (IOPlaces \cup WorkerPlaces) \ {"delete", "new"},
           Find(t, hit, miss)
    PROVE  NoneFound
<1>1. /\ thread'[t].at \in {hit, miss}
      /\ \A u \in Threads : u # t => thread'[u] = thread[u]
  BY FindMoves
<1>2. QED
  BY <1>1 DEF NoneFound

LEMMA InitTracking == Init => Tracking
<1> SUFFICES ASSUME Init PROVE Tracking
  OBVIOUS
<1>1. \A t \in Threads : thread[t].at = "idle"
  BY DEF Init, Resting
<1>2. "io" \in Threads /\ DOMAIN sessions = {} /\ backlog = {}
  BY DEF Init, Threads
<1>3. QED
  BY <1>1, <1>2 DEF Tracking

LEMMA NextTracking == TypeInv /\ Tracking /\ [Next]_vars => Tracking'
<1> SUFFICES ASSUME TypeInv, Tracking, [Next]_vars PROVE Tracking'
  OBVIOUS
<1>a. /\ ThreadOK /\ NetOK /\ QueuesOK
      /\ {"io", "worker"} \subseteq Threads
  BY DEF TypeInv, Threads
<1>b. /\ thread \in [Threads -> Locals]
      /\ sessions \in Seq(Entries)
  BY <1>a DEF ThreadOK, QueuesOK
<1>1. CASE UNCHANGED <<peer, backlog, sessions, thread>>
  BY <1>1, TrackingKeeps DEF NoneMade, NoneFound
<1>2. ASSUME NEW c \in Clients, Connect(c) PROVE Tracking'
  BY <1>a, <1>2 DEF Connect, queues, NetOK, ThreadOK, Tracking, Unmet
<1>3. ASSUME NEW c \in Clients, Request(c) \/ Leave(c) PROVE Tracking'
  <2>1. \A d \in Clients : peer'[d] = "off" <=> peer[d] = "off"
    BY <1>a, <1>3 DEF Request, Leave, NetOK
  <2>2. UNCHANGED <<backlog, sessions, thread>>
    BY <1>3 DEF Request, Leave
  <2>3. QED
    BY <2>1, <2>2, TrackingKeeps DEF NoneMade, NoneFound
<1>4. CASE Accept
  <2>1. PICK c \in backlog, f \in Free :
            /\ backlog' = backlog \ {c}
            /\ thread' = [thread EXCEPT !["io"] =
                            [Resting EXCEPT !.at = "new", !.fd = f, !.ptr = c]]
    BY <1>4 DEF Accept
  <2> DEFINE r == [Resting EXCEPT !.at = "new", !.fd = f, !.ptr = c]
  <2>2. r.at = "new" /\ r.ptr = c
    BY DEF Resting
  <2>3. /\ thread'["io"] = r
        /\ \A t \in Threads : t # "io" => thread'[t] = thread[t]
    <3>1. thread' = [thread EXCEPT !["io"] = r]
      BY <2>1
    <3> HIDE DEF r
    <3>2. QED
      BY <1>a, <1>b, <3>1
  <2>4. UNCHANGED <<peer, sessions>>
    BY <1>4 DEF Accept
  <2> HIDE DEF r
  <2>5. ASSUME NEW d \in Clients, Unmet(d)' PROVE Unmet(d)
    BY <2>1, <2>2, <2>3, <2>4, <2>5 DEF Unmet
  <2>6. QED
    BY <1>a, <2>1, <2>2, <2>3, <2>4, <2>5 DEF Tracking
<1>5. CASE NewSession
  <2> DEFINE s == [id |-> thread["io"].ptr, fd |-> thread["io"].fd,
                   hb |-> FALSE]
  <2>1. /\ thread["io"].at = "new"
        /\ sessions' = Append(sessions, s)
        /\ UNCHANGED <<peer, backlog>>
    BY <1>5 DEF NewSession, net
  <2>2. thread'["io"].at = "validate" /\ thread'["worker"] = thread["worker"]
    BY <1>a, <1>b, <1>5, GoMoves DEF NewSession, IOPlaces
  <2>3. s.id = thread["io"].ptr /\ s.fd = thread["io"].fd
    OBVIOUS
  <2> HIDE DEF s
  <2>4. /\ DOMAIN sessions' = DOMAIN sessions \cup {Len(sessions) + 1}
        /\ \A i \in DOMAIN sessions : sessions'[i] = sessions[i]
        /\ sessions'[Len(sessions) + 1] = s
    BY <1>b, <2>1
  <2>5. thread["io"].ptr \in Clients /\ Unmet(thread["io"].ptr)
    BY <1>a, <2>1 DEF ThreadOK, Unmet
  <2>6. /\ \A i \in DOMAIN sessions : sessions[i].id # thread["io"].ptr
        /\ thread["worker"].at = "delete"
              => thread["worker"].ptr # thread["io"].ptr
    BY <1>a, <2>5 DEF Tracking
  <2>7. ASSUME NEW d \in Clients, Unmet(d)'
        PROVE  Unmet(d) /\ d # thread["io"].ptr
    BY <2>1, <2>2, <2>7 DEF Unmet, Tracking
  <2>8. \A t \in Threads : t = "io" \/ t = "worker"
    BY DEF Threads
  <2>9. QED
    BY <2>1, <2>2, <2>3, <2>4, <2>6, <2>7, <2>8 DEF Tracking
<1>6. ASSUME NEW t \in Threads, ExpireFind(t) PROVE Tracking'
  <2>1. /\ thread'[t].at \in {"delete", "farewell"}
        /\ thread'[t].fd = thread[t].fd
        /\ \A u \in Threads : u # t => thread'[u] = thread[u]
        /\ \/ thread'[t].at = "farewell"
           \/ \E i \in DOMAIN sessions :
                 /\ sessions[i].fd = thread[t].fd
                 /\ thread'[t].ptr = sessions[i].id
    BY <1>b, <1>6, FindMoves DEF ExpireFind, IOPlaces, WorkerPlaces
  <2>2. UNCHANGED <<peer, backlog, sessions>>
    BY <1>6 DEF ExpireFind, net
  <2>3. ASSUME NEW d \in Clients, Unmet(d)' PROVE Unmet(d)
    BY <1>a, <2>1, <2>2, <2>3 DEF Unmet
  <2>4. QED
    BY <1>a, <2>1, <2>2, <2>3 DEF Tracking
<1>7. CASE \/ ValidateFind \/ RefreshFind \/ HandlerFind \/ ReplyFind
  <2>1. CASE ValidateFind
    <3>1. Find("io", "init", "welcome")
      BY <2>1 DEF ValidateFind
    <3>2. NoneFound
      BY <1>a, <1>b, <3>1, FindFindsNone DEF IOPlaces
    <3>3. QED
      BY <2>1, <3>2, TrackingKeeps DEF ValidateFind, NoneMade, net
  <2>2. CASE RefreshFind
    <3>1. Find("io", "touch", "submit")
      BY <2>2 DEF RefreshFind
    <3>2. NoneFound
      BY <1>a, <1>b, <3>1, FindFindsNone DEF IOPlaces
    <3>3. QED
      BY <2>2, <3>2, TrackingKeeps DEF RefreshFind, NoneMade, net
  <2>3. CASE HandlerFind
    <3>1. Find("worker", "update", "reply")
      BY <2>3 DEF HandlerFind
    <3>2. NoneFound
      BY <1>a, <1>b, <3>1, FindFindsNone DEF WorkerPlaces
    <3>3. QED
      BY <2>3, <3>2, TrackingKeeps DEF HandlerFind, NoneMade, net
  <2>4. CASE ReplyFind
    <3>1. Find("worker", "send", "idle")
      BY <2>4 DEF ReplyFind
    <3>2. NoneFound
      BY <1>a, <1>b, <3>1, FindFindsNone DEF WorkerPlaces
    <3>3. QED
      BY <2>4, <3>2, TrackingKeeps DEF ReplyFind, NoneMade, net
  <2>5. QED
    BY <1>7, <2>1, <2>2, <2>3, <2>4
<1>8. CASE Hangup \/ Wait
  BY <1>1, <1>8 DEF Hangup, Wait, net
<1>9. CASE Welcome \/ Submit \/ RefreshTouch
  <2>1. NoneFound
    BY <1>a, <1>b, <1>9, GoFindsNone
       DEF Welcome, Submit, RefreshTouch, Undefined, IOPlaces
  <2>2. QED
    BY <1>9, <2>1, TrackingKeeps
       DEF Welcome, Submit, RefreshTouch, NoneMade, net
<1>10. CASE ValidateInit
  <2>1. NoneFound
    BY <1>a, <1>b, <1>10, GoFindsNone
       DEF ValidateInit, Undefined, IOPlaces
  <2>2. NoneMade
    <3>1. CASE UNCHANGED sessions
      BY <3>1 DEF NoneMade
    <3>2. CASE sessions' = [i \in DOMAIN sessions |->
                              IF sessions[i].id = thread["io"].ptr
                              THEN [sessions[i] EXCEPT !.hb = TRUE]
                              ELSE sessions[i]]
      <4>1. \A i \in DOMAIN sessions : sessions[i] \in Entries
        BY <1>b
      <4>2. ASSUME NEW e \in Entries
            PROVE  /\ [e EXCEPT !.hb = TRUE].id = e.id
                   /\ [e EXCEPT !.hb = TRUE].fd = e.fd
        BY DEF Entries
      <4>3. DOMAIN sessions' = DOMAIN sessions
        BY <3>2
      <4>4. \A i \in DOMAIN sessions : /\ sessions'[i].id = sessions[i].id
                                       /\ sessions'[i].fd = sessions[i].fd
        BY <3>2, <4>1, <4>2
      <4>5. QED
        BY <4>3, <4>4 DEF NoneMade
    <3>3. QED
      BY <1>10, <3>1, <3>2 DEF ValidateInit
  <2>3. QED
    BY <1>10, <2>1, <2>2, TrackingKeeps DEF ValidateInit, net
<1>11. ASSUME NEW f \in FDs, Receive(f) \/ ReceiveFails(f) PROVE Tracking'
  <2>1. PICK place \in {"refresh", "expire"} : Begin("io", place, f)
    BY <1>11 DEF Receive, ReceiveFails
  <2> DEFINE r == [Resting EXCEPT !.at = place, !.fd = f]
  <2>2. r.at = place
    BY DEF Resting
  <2>3. thread' = [thread EXCEPT !["io"] = r]
    BY <2>1 DEF Begin
  <2> HIDE DEF r
  <2>4. NoneFound
    BY <1>a, <1>b, <2>2, <2>3 DEF NoneFound
  <2>5. UNCHANGED <<peer, backlog, sessions>>
    BY <1>11 DEF Receive, ReceiveFails, net
  <2>6. QED
    BY <2>4, <2>5, TrackingKeeps DEF NoneMade
<1>12. CASE StartJob
  <2>1. UNCHANGED thread \/ thread'["worker"].at \in {"handle", "reply"}
    BY <1>a, <1>b, <1>12 DEF StartJob
  <2>2. \A t \in Threads : t # "worker" => thread'[t] = thread[t]
    BY <1>a, <1>b, <1>12 DEF StartJob
  <2>3. UNCHANGED <<peer, backlog, sessions>>
    BY <1>12 DEF StartJob, net
  <2>4. QED
    BY <2>1, <2>2, <2>3, TrackingKeeps DEF NoneFound, NoneMade
<1>13. CASE HandlerUpdate \/ ReplyFails \/ ReplyDropped
  <2>1. NoneFound
    BY <1>a, <1>b, <1>13, GoFindsNone
       DEF HandlerUpdate, ReplyFails, ReplyDropped, Undefined, WorkerPlaces
  <2>2. QED
    BY <1>13, <2>1, TrackingKeeps
       DEF HandlerUpdate, ReplyFails, ReplyDropped, NoneMade, net
<1>14. CASE ReplySend
  <2>1. NoneFound
    BY <1>a, <1>b, <1>14, GoFindsNone DEF ReplySend, WorkerPlaces
  <2>2. \A c \in Clients : peer'[c] = "off" <=> peer[c] = "off"
    BY <1>a, <1>14 DEF ReplySend, NetOK
  <2>3. UNCHANGED <<backlog, sessions>>
    BY <1>14 DEF ReplySend
  <2>4. QED
    BY <2>1, <2>2, <2>3, TrackingKeeps DEF NoneMade
<1>15. ASSUME NEW t \in Threads, ExpireDelete(t) \/ Farewell(t)
       PROVE  Tracking'
  <2>1. NoneFound
    BY <1>b, <1>15, GoFindsNone
       DEF ExpireDelete, Farewell, Undefined, IOPlaces
  <2>2. NoneMade
    <3>1. \/ UNCHANGED sessions
          \/ \E i \in DOMAIN sessions : sessions' = RemoveAt(sessions, i)
      BY <1>15 DEF ExpireDelete, Farewell
    <3>2. QED
      BY <1>b, <3>1, RemovedElements DEF NoneMade
  <2>3. QED
    BY <1>15, <2>1, <2>2, TrackingKeeps DEF ExpireDelete, Farewell, net
<1>16. CASE IOSteps
  BY <1>a, <1>4, <1>5, <1>6, <1>7, <1>8, <1>9, <1>10, <1>11, <1>15, <1>16
     DEF IOSteps, Expiring
<1>17. CASE WorkerSteps
  BY <1>a, <1>6, <1>7, <1>12, <1>13, <1>14, <1>15, <1>17
     DEF WorkerSteps, Expiring
<1>18. QED
  BY <1>1, <1>2, <1>3, <1>16, <1>17 DEF Next, vars, net

\* Each thread moves only itself.
LEMMA OtherThreadStays ==
    ASSUME thread \in [Threads -> Locals]
    PROVE  /\ IOSteps => thread'["worker"] = thread["worker"]
           /\ WorkerSteps => thread'["io"] = thread["io"]
<1>a. {"io", "worker"} \subseteq Threads
  BY DEF Threads
<1>1. ASSUME IOSteps PROVE thread'["worker"] = thread["worker"]
  BY <1>a, <1>1
     DEF IOSteps, Wait, Accept, Hangup, NewSession, ValidateFind, ValidateInit,
         Welcome, Submit, Receive, ReceiveFails, RefreshFind, RefreshTouch,
         Expiring, ExpireFind, ExpireDelete, Farewell, Undefined, Go, Find,
         Begin
<1>2. ASSUME WorkerSteps PROVE thread'["io"] = thread["io"]
  BY <1>a, <1>2
     DEF WorkerSteps, StartJob, HandlerFind, HandlerUpdate, ReplyFind,
         ReplySend, ReplyFails, ReplyDropped, Expiring, ExpireFind,
         ExpireDelete, Farewell, Undefined, Go, Find
<1>3. QED
  BY <1>1, <1>2

\* No descriptor loses its last session.
NoneLost ==
    \A i \in DOMAIN sessions : \E j \in DOMAIN sessions' :
        sessions'[j].fd = sessions[i].fd

\* A thread about to make a session, or to close a socket, stays so.
NoneLeft ==
    \A t \in Threads :
        thread[t].at \in {"new", "farewell"} => thread'[t] = thread[t]

LEMMA CoverKeeps ==
    ASSUME OpenHasSession, NoneLost, NoneLeft,
           \A f \in FDs : sock'[f] # NoClient => sock[f] # NoClient
    PROVE  OpenHasSession'
<1>1. SUFFICES ASSUME NEW f \in FDs, sock'[f] # NoClient
               PROVE  \/ \E j \in DOMAIN sessions' : sessions'[j].fd = f
                      \/ thread'["io"].at = "new" /\ thread'["io"].fd = f
                      \/ \E t \in Threads : /\ thread'[t].at = "farewell"
                                            /\ thread'[t].fd = f
  BY <1>1 DEF OpenHasSession, ToSet
<1>2. \/ \E i \in DOMAIN sessions : sessions[i].fd = f
      \/ thread["io"].at = "new" /\ thread["io"].fd = f
      \/ \E t \in Threads : thread[t].at = "farewell" /\ thread[t].fd = f
  BY <1>1 DEF OpenHasSession, ToSet
<1>3. QED
  BY <1>2 DEF NoneLost, NoneLeft, Threads

\* How OpenHasSession speaks of a descriptor.
Tended(f) ==
    \/ \E i \in DOMAIN sessions : sessions[i].fd = f
    \/ thread["io"].at = "new" /\ thread["io"].fd = f
    \/ \E t \in Threads : thread[t].at = "farewell" /\ thread[t].fd = f

LEMMA OpenIsTended ==
    OpenHasSession <=> \A f \in FDs : sock[f] # NoClient => Tended(f)
<1>1. ASSUME NEW f
      PROVE  (\E s \in ToSet(sessions) : s.fd = f)
                <=> \E i \in DOMAIN sessions : sessions[i].fd = f
  BY DEF ToSet
<1>2. QED
  BY <1>1 DEF OpenHasSession, Tended

LEMMA InitOpen == Init => OpenHasSession
BY DEF Init, OpenHasSession

LEMMA NextOpen ==
    TypeInv /\ Tracking /\ OpenHasSession /\ [Next]_vars => OpenHasSession'
<1> SUFFICES ASSUME TypeInv, Tracking, OpenHasSession, [Next]_vars
             PROVE  OpenHasSession'
  OBVIOUS
<1>a. /\ thread \in [Threads -> Locals]
      /\ sessions \in Seq(Entries)
      /\ sock \in [FDs -> Clients \cup {NoClient}]
      /\ {"io", "worker"} \subseteq Threads
  BY DEF TypeInv, ThreadOK, NetOK, QueuesOK, Threads
<1>b. \A f \in FDs : sock[f] # NoClient => Tended(f)
  BY OpenIsTended
<1>1. CASE UNCHANGED <<sock, sessions, thread>>
  BY <1>1, CoverKeeps DEF NoneLost, NoneLeft
<1>2. CASE Hangup
  BY <1>a, <1>2, CoverKeeps DEF Hangup, NoneLost, NoneLeft
<1>3. CASE Accept
  <2>1. PICK c \in backlog, f \in Free :
            /\ sock' = [sock EXCEPT ![f] = c]
            /\ thread' = [thread EXCEPT !["io"] =
                            [Resting EXCEPT !.at = "new", !.fd = f, !.ptr = c]]
    BY <1>3 DEF Accept
  <2> DEFINE r == [Resting EXCEPT !.at = "new", !.fd = f, !.ptr = c]
  <2>2. r.at = "new" /\ r.fd = f
    BY DEF Resting
  <2>3. thread' = [thread EXCEPT !["io"] = r]
    BY <2>1
  <2> HIDE DEF r
  <2>4. /\ thread["io"].at = "idle"
        /\ UNCHANGED sessions
    BY <1>3 DEF Accept, Handling
  <2>5. ASSUME NEW g \in FDs, sock'[g] # NoClient
        PROVE  \/ \E j \in DOMAIN sessions' : sessions'[j].fd = g
               \/ thread'["io"].at = "new" /\ thread'["io"].fd = g
               \/ \E t \in Threads : /\ thread'[t].at = "farewell"
                                     /\ thread'[t].fd = g
    <3>1. CASE g = f
      BY <1>a, <2>2, <2>3, <3>1
    <3>2. CASE g # f
      <4>1. Tended(g)
        BY <1>a, <1>b, <2>1, <2>5, <3>2
      <4>2. \A t \in Threads : t # "io" => thread'[t] = thread[t]
        BY <1>a, <2>3
      <4>3. QED
        BY <2>4, <4>1, <4>2 DEF Tended
    <3>3. QED
      BY <3>1, <3>2
  <2>6. QED
    BY <2>5 DEF OpenHasSession, ToSet
<1>4. CASE NewSession
  <2> DEFINE s == [id |-> thread["io"].ptr, fd |-> thread["io"].fd,
                   hb |-> FALSE]
  <2>1. s.fd = thread["io"].fd /\ sessions' = Append(sessions, s)
    BY <1>4 DEF NewSession
  <2> HIDE DEF s
  <2>2. /\ thread["io"].at = "new" /\ thread'["worker"] = thread["worker"]
        /\ UNCHANGED sock
    BY <1>a, <1>4, GoMoves DEF NewSession, IOPlaces
  <2>3. /\ DOMAIN sessions' = DOMAIN sessions \cup {Len(sessions) + 1}
        /\ \A i \in DOMAIN sessions : sessions'[i] = sessions[i]
        /\ sessions'[Len(sessions) + 1] = s
    BY <1>a, <2>1
  <2>4. ASSUME NEW g \in FDs, sock'[g] # NoClient
        PROVE  \/ \E j \in DOMAIN sessions' : sessions'[j].fd = g
               \/ \E t \in Threads : /\ thread'[t].at = "farewell"
                                     /\ thread'[t].fd = g
    <3>1. Tended(g)
      BY <1>b, <2>2, <2>4
    <3>2. QED
      BY <2>1, <2>2, <2>3, <3>1 DEF Tended, Threads
  <2>5. QED
    BY <2>4 DEF OpenHasSession, ToSet
<1>5. ASSUME NEW t \in Threads, ExpireDelete(t) PROVE OpenHasSession'
  <2>1. /\ thread[t].at = "delete"
        /\ Go(t, "farewell")
        /\ UNCHANGED sock
    BY <1>5 DEF ExpireDelete, Undefined
  <2>2. /\ thread'[t] = [thread[t] EXCEPT !.at = "farewell"]
        /\ \A u \in Threads : u # t => thread'[u] = thread[u]
    BY <1>a, <2>1, GoMoves DEF IOPlaces
  <2>3. thread'[t].at = "farewell" /\ thread'[t].fd = thread[t].fd
    BY <1>a, <2>2 DEF Locals
  <2>4. ASSUME NEW i \in DOMAIN sessions
        PROVE  \/ sessions[i].fd = thread[t].fd
               \/ \E j \in DOMAIN sessions' : sessions'[j].fd = sessions[i].fd
    <3>1. CASE UNCHANGED sessions
      BY <3>1
    <3>2. ASSUME NEW k \in DOMAIN sessions, sessions[k].id = thread[t].ptr,
                 sessions' = RemoveAt(sessions, k)
          PROVE  \/ sessions[i].fd = thread[t].fd
                 \/ \E j \in DOMAIN sessions' :
                       sessions'[j].fd = sessions[i].fd
      <4>1. CASE i = k
        BY <2>1, <3>2, <4>1 DEF Tracking
      <4>2. CASE i # k
        BY <1>a, <3>2, <4>2, RemovedElements
      <4>3. QED
        BY <4>1, <4>2
    <3>3. QED
      BY <1>5, <3>1, <3>2 DEF ExpireDelete
  <2>5. ASSUME NEW g \in FDs, sock'[g] # NoClient
        PROVE  \/ \E j \in DOMAIN sessions' : sessions'[j].fd = g
               \/ thread'["io"].at = "new" /\ thread'["io"].fd = g
               \/ \E u \in Threads : /\ thread'[u].at = "farewell"
                                     /\ thread'[u].fd = g
    <3>1. Tended(g)
      BY <1>b, <2>1, <2>5
    <3>2. CASE \E i \in DOMAIN sessions : sessions[i].fd = g
      BY <2>3, <2>4, <3>2
    <3>3. CASE thread["io"].at = "new" /\ thread["io"].fd = g
      BY <1>a, <2>1, <2>2, <3>3
    <3>4. CASE \E u \in Threads : thread[u].at = "farewell" /\ thread[u].fd = g
      BY <2>1, <2>2, <3>4
    <3>5. QED
      BY <3>1, <3>2, <3>3, <3>4 DEF Tended
  <2>6. QED
    BY <2>5 DEF OpenHasSession, ToSet
<1>6. ASSUME NEW t \in Threads, Farewell(t) PROVE OpenHasSession'
  <2>1. /\ thread[t].at = "farewell"
        /\ Go(t, "idle")
        /\ sock' = [sock EXCEPT ![thread[t].fd] = NoClient]
        /\ UNCHANGED sessions
    BY <1>6 DEF Farewell
  <2>2. \A u \in Threads : u # t => thread'[u] = thread[u]
    BY <1>a, <2>1, GoMoves DEF IOPlaces
  <2>3. ASSUME NEW g \in FDs, sock'[g] # NoClient
        PROVE  \/ \E j \in DOMAIN sessions' : sessions'[j].fd = g
               \/ thread'["io"].at = "new" /\ thread'["io"].fd = g
               \/ \E u \in Threads : /\ thread'[u].at = "farewell"
                                     /\ thread'[u].fd = g
    <3>1. g # thread[t].fd /\ sock'[g] = sock[g]
      BY <1>a, <2>1, <2>3
    <3>2. Tended(g)
      BY <1>b, <2>3, <3>1
    <3>3. QED
      BY <1>a, <2>1, <2>2, <3>1, <3>2 DEF Tended
  <2>4. QED
    BY <2>3 DEF OpenHasSession, ToSet
<1>7. CASE ValidateInit
  <2>1. NoneLost
    <3>1. CASE UNCHANGED sessions
      BY <3>1 DEF NoneLost
    <3>2. CASE sessions' = [i \in DOMAIN sessions |->
                              IF sessions[i].id = thread["io"].ptr
                              THEN [sessions[i] EXCEPT !.hb = TRUE]
                              ELSE sessions[i]]
      <4>1. \A i \in DOMAIN sessions : sessions[i] \in Entries
        BY <1>a
      <4>2. ASSUME NEW e \in Entries PROVE [e EXCEPT !.hb = TRUE].fd = e.fd
        BY DEF Entries
      <4>3. DOMAIN sessions' = DOMAIN sessions
        BY <3>2
      <4>4. \A i \in DOMAIN sessions : sessions'[i].fd = sessions[i].fd
        BY <3>2, <4>1, <4>2
      <4>5. QED
        BY <4>3, <4>4 DEF NoneLost
    <3>3. QED
      BY <1>7, <3>1, <3>2 DEF ValidateInit
  <2>2. thread["io"].at = "init" /\ thread'["worker"] = thread["worker"]
    BY <1>a, <1>7, OtherThreadStays DEF ValidateInit, IOSteps
  <2>3. NoneLeft /\ UNCHANGED sock
    BY <1>7, <2>2 DEF NoneLeft, Threads, ValidateInit
  <2>4. QED
    BY <2>1, <2>3, CoverKeeps
<1>8. CASE /\ IOSteps /\ UNCHANGED <<sock, sessions>>
           /\ thread["io"].at \notin {"new", "farewell"}
  BY <1>a, <1>8, CoverKeeps, OtherThreadStays DEF NoneLost, NoneLeft, Threads
<1>9. CASE /\ WorkerSteps /\ UNCHANGED <<sock, sessions>>
           /\ thread["worker"].at \notin {"new", "farewell"}
  BY <1>a, <1>9, CoverKeeps, OtherThreadStays DEF NoneLost, NoneLeft, Threads
<1>10. CASE IOSteps
  BY <1>a, <1>2, <1>3, <1>4, <1>5, <1>6, <1>7, <1>8, <1>10
     DEF IOSteps, Wait, Handling, ValidateFind, Welcome, Submit, Receive,
         ReceiveFails, Input, RefreshFind, RefreshTouch, Expiring, ExpireFind
<1>11. CASE WorkerSteps
  BY <1>a, <1>5, <1>6, <1>9, <1>11
     DEF WorkerSteps, StartJob, HandlerFind, HandlerUpdate, ReplyFind,
         ReplySend, ReplyFails, ReplyDropped, Expiring, ExpireFind
<1>12. QED
  BY <1>1, <1>10, <1>11 DEF Next, Connect, Request, Leave, vars

\* No connected socket is ever without a session to expire it: expiry deletes
\* the session of the descriptor it goes on to close, and no other.
THEOREM SocketsAreTracked == SafeSpec => []OpenHasSession
BY InitType, NextType, InitTracking, NextTracking, InitOpen, NextOpen, PTL
   DEF SafeSpec

-----------------------------------------------------------------------------
(* Replies: who gets them, and in which order *)

\* The worker has a message it may answer.
Answering == thread["worker"].at \in {"handle", "update", "reply", "send"}

\* The messages still to be answered, oldest first: the worker's, numbered 0,
\* and those in the queue.
Pending(i) == IF i = 0 THEN thread["worker"].msg ELSE msgQ[i]
Waiting == (IF Answering THEN 0 ELSE 1)..Len(msgQ)

\* The I/O thread has accepted a connection and not queued its welcome.
Greeting(a) ==
    /\ thread["io"].at \in {"new", "validate", "init", "welcome"}
    /\ sock[thread["io"].fd] = a

\* The server may have heard request n of client a: it has read that far, and
\* the connection was accepted and welcomed.
Heard(a, n) ==
    /\ a \in Clients
    /\ n <= read[a]
    /\ peer[a] # "off"
    /\ a \notin backlog
    /\ ~Greeting(a)

\* A connection has one descriptor, and is made once.
Sockets ==
    /\ \A f, g \in FDs : sock[f] # NoClient /\ sock[f] = sock[g] => f = g
    /\ \A f \in FDs : sock[f] \notin backlog
    /\ \A f \in FDs : sock[f] # NoClient => peer[sock[f]] # "off"
    /\ \A c \in backlog : peer[c] # "off"

\* A message names a descriptor.  It was heard, and if its sender is still
\* connected, the descriptor is its sender's.
Genuine(m) ==
    /\ m.fd \in FDs
    /\ m.from # NoClient =>
          /\ Heard(m.from, m.req)
          /\ \A g \in FDs : sock[g] = m.from => g = m.fd

\* A reply c got: to a request that was heard, of c or of someone who is gone.
Delivered(c, p) ==
    p[1] # NoClient =>
        /\ Heard(p[1], p[2])
        /\ p[1] # c => \A f \in FDs : sock[f] # p[1]

Before(a, m, b, n) == a # NoClient /\ a = b => m < n

InOrder ==
    /\ \A i, j \in Waiting : i < j =>
          Before(Pending(i).from, Pending(i).req,
                 Pending(j).from, Pending(j).req)
    /\ \A c \in Clients : \A k \in DOMAIN got[c] : \A j \in Waiting :
          Before(got[c][k][1], got[c][k][2], Pending(j).from, Pending(j).req)
    /\ \A c \in Clients : \A k, l \in DOMAIN got[c] : k < l =>
          Before(got[c][k][1], got[c][k][2], got[c][l][1], got[c][l][2])

Replies ==
    /\ Sockets
    /\ Answering => thread["worker"].fd = thread["worker"].msg.fd
    /\ \A i \in Waiting : Genuine(Pending(i))
    /\ \A c \in Clients : \A k \in DOMAIN got[c] : Delivered(c, got[c][k])
    /\ InOrder

LEMMA InitReplies == Init => Replies
<1> SUFFICES ASSUME Init PROVE Replies
  OBVIOUS
<1>1. thread["worker"].at = "idle" /\ thread["io"].at = "idle"
  BY DEF Init, Threads, Resting
<1>2. Waiting = {} /\ \A c \in Clients : DOMAIN got[c] = {}
  BY <1>1 DEF Init, Waiting, Answering
<1>3. Sockets
  BY DEF Init, Sockets
<1>. QED
  BY <1>1, <1>2, <1>3 DEF Replies, InOrder, Answering

\* Replies is what OrderedReplies needs.
LEMMA RepliesAreOrdered == TypeInv /\ Replies => OrderedReplies
<1> SUFFICES ASSUME TypeInv, Replies, NEW c \in Clients
             PROVE  /\ \A i, j \in 1..Len(got[c]) :
                          /\ i < j
                          /\ got[c][i][1] = got[c][j][1]
                          /\ got[c][i][1] # NoClient
                          => got[c][i][2] < got[c][j][2]
                    /\ \A i \in 1..Len(got[c]) :
                          got[c][i][1] \notin {c, NoClient} =>
                              \A f \in FDs : sock[f] # got[c][i][1]
  BY DEF OrderedReplies
<1>1. DOMAIN got[c] = 1..Len(got[c])
  BY DEF TypeInv, NetOK
<1>. QED
  BY <1>1 DEF Replies, InOrder, Before, Delivered

\* A connection opens only out of the backlog; descriptors only close else.
LEMMA NextSocket ==
    ASSUME TypeInv, [Next]_vars
    PROVE  \/ \A f \in FDs : sock'[f] \in {sock[f], NoClient}
           \/ Accept
<1>1. sock \in [FDs -> Clients \cup {NoClient}]
  BY DEF TypeInv, NetOK
<1>2. CASE UNCHANGED sock
  BY <1>2
<1>3. CASE Hangup
  BY <1>1, <1>3 DEF Hangup
<1>4. ASSUME NEW t \in Threads, Farewell(t)
      PROVE  \A f \in FDs : sock'[f] \in {sock[f], NoClient}
  BY <1>1, <1>4 DEF Farewell
<1>. QED
  BY <1>2, <1>3, <1>4
     DEF vars, Next, IOSteps, WorkerSteps, Expiring, Connect, Request, Leave,
         Wait, NewSession, ValidateFind, ValidateInit, Welcome, Submit, Receive,
         ReceiveFails, RefreshFind, RefreshTouch, StartJob, HandlerFind,
         HandlerUpdate, ReplyFind, ReplySend, ReplyFails, ReplyDropped,
         ExpireFind, ExpireDelete, Threads

\* What Accept does to a connection.
LEMMA AcceptOpens ==
    ASSUME TypeInv, Accept
    PROVE  \E c \in backlog, f \in FDs :
              /\ sock[f] = NoClient
              /\ sock' = [sock EXCEPT ![f] = c]
              /\ backlog' = backlog \ {c}
              /\ thread'["io"].fd = f
              /\ thread'["io"].at = "new"
              /\ thread'["worker"] = thread["worker"]
              /\ UNCHANGED <<peer, read, got, msgQ>>
<1>1. PICK c \in backlog, f \in Free :
          /\ backlog' = backlog \ {c}
          /\ sock' = [sock EXCEPT ![f] = c]
          /\ thread' = [thread EXCEPT !["io"] =
                           [Resting EXCEPT !.at = "new", !.fd = f, !.ptr = c]]
  BY DEF Accept
<1>2. thread \in [Threads -> Locals] /\ {"io", "worker"} \subseteq Threads
  BY DEF TypeInv, ThreadOK, Threads
<1>3. f \in FDs /\ sock[f] = NoClient
  BY DEF Free
<1>. QED
  BY <1>1, <1>2, <1>3 DEF Accept, Resting

\* Clients only move forward.
LEMMA NextClient ==
    ASSUME TypeInv, [Next]_vars, NEW c \in Clients, peer[c] # "off"
    PROVE  peer'[c] # "off" /\ (c \in backlog' => c \in backlog)
<1>1. peer \in [Clients -> {"off", "open", "fin", "rst"}]
  BY DEF TypeInv, NetOK
<1>2. CASE UNCHANGED <<peer, backlog>>
  BY <1>2
<1>3. ASSUME NEW d \in Clients, Connect(d) \/ Request(d) \/ Leave(d)
      PROVE  peer'[c] # "off" /\ (c \in backlog' => c \in backlog)
  BY <1>1, <1>3 DEF Connect, Request, Leave
<1>4. CASE Accept
  BY <1>4, AcceptOpens
<1>5. CASE ReplySend
  BY <1>1, <1>5 DEF ReplySend
<1>. QED
  BY <1>2, <1>3, <1>4, <1>5
     DEF vars, net, Next, IOSteps, WorkerSteps, Expiring, Wait, Hangup,
         NewSession, ValidateFind, ValidateInit, Welcome, Submit, Receive,
         ReceiveFails, RefreshFind, RefreshTouch, StartJob, HandlerFind,
         HandlerUpdate, ReplyFind, ReplyFails, ReplyDropped, ExpireFind,
         ExpireDelete, Farewell

LEMMA NextSockets == TypeInv /\ Sockets /\ [Next]_vars => Sockets'
<1> SUFFICES ASSUME TypeInv, Sockets, [Next]_vars PROVE Sockets'
  OBVIOUS
<1>a. /\ sock \in [FDs -> Clients \cup {NoClient}]
      /\ backlog \subseteq Clients
      /\ peer \in [Clients -> {"off", "open", "fin", "rst"}]
  BY DEF TypeInv, NetOK
<1>1. CASE Accept
  BY <1>a, <1>1, AcceptOpens DEF Sockets
<1>2. CASE \A f \in FDs : sock'[f] \in {sock[f], NoClient}
  <2>1. \A f, g \in FDs : sock'[f] # NoClient /\ sock'[f] = sock'[g] => f = g
    BY <1>2 DEF Sockets
  <2>2. ASSUME NEW f \in FDs
        PROVE  /\ sock'[f] \notin backlog'
               /\ sock'[f] # NoClient => peer'[sock'[f]] # "off"
    <3>1. CASE sock'[f] = NoClient
      BY <3>1, NextType DEF TypeInv, NetOK
    <3>2. CASE sock'[f] # NoClient
      <4>1. sock'[f] = sock[f] /\ sock[f] \in Clients
        BY <1>a, <1>2, <3>2
      <4>. QED
        BY <3>2, <4>1, NextClient DEF Sockets
    <3>. QED
      BY <3>1, <3>2
  <2>3. ASSUME NEW c \in backlog' PROVE peer'[c] # "off"
    <3>1. c \in Clients
      BY NextType DEF TypeInv, NetOK
    <3>2. CASE peer[c] # "off"
      BY <3>1, <3>2, NextClient
    <3>3. CASE c \notin backlog
      <4>1. PICK d \in Clients : Connect(d)
        BY <1>a, <3>3
           DEF vars, net, Next, IOSteps, WorkerSteps, Expiring, Request, Leave,
               Wait, Accept, Hangup, NewSession, ValidateFind, ValidateInit,
               Welcome, Submit, Receive, ReceiveFails, RefreshFind,
               RefreshTouch, StartJob, HandlerFind, HandlerUpdate, ReplyFind,
               ReplySend, ReplyFails, ReplyDropped, ExpireFind, ExpireDelete,
               Farewell
      <4>. QED
        BY <1>a, <3>3, <4>1 DEF Connect
    <3>. QED
      BY <3>2, <3>3 DEF Sockets
  <2>. QED
    BY <2>1, <2>2, <2>3 DEF Sockets
<1>. QED
  BY <1>1, <1>2, NextSocket

\* The I/O thread greets a connection from its acceptance on.
LEMMA NextGreeting ==
    ASSUME TypeInv, [Next]_vars,
           thread'["io"].at \in {"new", "validate", "init", "welcome"}
    PROVE  \/ Accept
           \/ /\ thread["io"].at \in {"new", "validate", "init", "welcome"}
              /\ thread'["io"].fd = thread["io"].fd
<1>a. /\ thread \in [Threads -> Locals]
      /\ sessions \in Seq(Entries)
      /\ {"io", "worker"} \subseteq Threads
  BY DEF TypeInv, ThreadOK, QueuesOK, Threads
<1>1. CASE thread'["io"] = thread["io"]
  BY <1>1
<1>2. CASE NewSession \/ ValidateInit
  <2>1. PICK place \in {"validate", "welcome"} : Go("io", place)
    BY <1>2 DEF NewSession, ValidateInit, Undefined
  <2>2. thread'["io"] = [thread["io"] EXCEPT !.at = place]
    BY <1>a, <2>1, GoMoves DEF IOPlaces
  <2>. QED
    BY <1>a, <1>2, <2>2 DEF Locals, NewSession, ValidateInit
<1>3. CASE ValidateFind
  <2>1. thread'["io"].fd = thread["io"].fd
    BY <1>a, <1>3, FindMoves DEF ValidateFind, IOPlaces
  <2>. QED
    BY <1>3, <2>1 DEF ValidateFind
<1>4. CASE Welcome \/ Submit \/ RefreshTouch \/ Farewell("io")
           \/ ExpireDelete("io")
  <2>1. PICK place \in {"submit", "idle", "farewell"} : Go("io", place)
    BY <1>4
       DEF Welcome, Submit, RefreshTouch, Farewell, ExpireDelete, Undefined
  <2>2. thread'["io"].at = place
    BY <1>a, <2>1, GoMoves DEF IOPlaces
  <2>. QED
    BY <2>2
<1>5. CASE RefreshFind \/ ExpireFind("io")
  BY <1>a, <1>5, FindMoves DEF RefreshFind, ExpireFind, IOPlaces
<1>6. ASSUME NEW f \in FDs, Receive(f) \/ ReceiveFails(f) PROVE FALSE
  <2>1. PICK place \in {"refresh", "expire"} :
            thread'["io"] = [Resting EXCEPT !.at = place, !.fd = f]
    BY <1>a, <1>6 DEF Receive, ReceiveFails, Begin
  <2>. QED
    BY <2>1 DEF Resting
<1>7. CASE WorkerSteps
  BY <1>a, <1>1, <1>7, OtherThreadStays
<1>. QED
  BY <1>1, <1>2, <1>3, <1>4, <1>5, <1>6, <1>7
     DEF vars, Next, IOSteps, Expiring, Connect, Request, Leave, Wait, Hangup

\* What was heard stays heard, and its sender does not connect again.
LEMMA HeardStays ==
    ASSUME TypeInv, [Next]_vars, NEW a, NEW n \in Nat, Heard(a, n)
    PROVE  Heard(a, n)' /\ \A f \in FDs : sock'[f] = a => sock[f] = a
<1>a. /\ a \in Clients /\ a # NoClient
      /\ read \in [Clients -> 0..MaxReqs] /\ read' \in [Clients -> 0..MaxReqs]
      /\ sock \in [FDs -> Clients \cup {NoClient}]
  BY NextType DEF TypeInv, NetOK, Heard
<1>1. \A f \in FDs : sock'[f] = a => sock[f] = a
  BY <1>a, NextSocket, AcceptOpens DEF Heard
<1>2. peer'[a] # "off" /\ a \notin backlog'
  BY <1>a, NextClient DEF Heard
<1>3. n <= read'[a]
  <2>1. CASE UNCHANGED read
    BY <2>1 DEF Heard
  <2>2. ASSUME NEW f \in FDs, Receive(f) PROVE n <= read'[a]
    <3>1. sock[f] \in Clients /\ read' = [read EXCEPT ![sock[f]] = @ + 1]
      BY <1>a, <2>2 DEF Receive
    <3>. QED
      BY <1>a, <3>1 DEF Heard
  <2>. QED
    BY <2>1, <2>2
       DEF vars, net, Next, IOSteps, WorkerSteps, Expiring, Connect, Request,
           Leave, Wait, Accept, Hangup, NewSession, ValidateFind, ValidateInit,
           Welcome, Submit, ReceiveFails, RefreshFind, RefreshTouch, StartJob,
           HandlerFind, HandlerUpdate, ReplyFind, ReplySend, ReplyFails,
           ReplyDropped, ExpireFind, ExpireDelete, Farewell
<1>4. ~Greeting(a)'
  <2>1. SUFFICES ASSUME Greeting(a)' PROVE FALSE
    OBVIOUS
  <2>2. thread'["io"].fd \in FDs
    BY <2>1, NextType DEF TypeInv, ThreadOK, Greeting
  <2>3. ~Accept
    <3>1. SUFFICES ASSUME Accept PROVE FALSE
      OBVIOUS
    <3>2. PICK c \in backlog, f \in FDs :
              sock' = [sock EXCEPT ![f] = c] /\ thread'["io"].fd = f
      BY <3>1, AcceptOpens
    <3>. QED
      BY <1>a, <2>1, <3>2 DEF Greeting, Heard
  <2>4. /\ thread["io"].at \in {"new", "validate", "init", "welcome"}
        /\ thread'["io"].fd = thread["io"].fd
    BY <2>1, <2>3, NextGreeting DEF Greeting
  <2>. QED
    BY <1>1, <2>1, <2>2, <2>4 DEF Greeting, Heard
<1>. QED
  BY <1>1, <1>2, <1>3, <1>4 DEF Heard

LEMMA GenuineStays ==
    ASSUME TypeInv, [Next]_vars, NEW m \in Messages, Genuine(m)
    PROVE  Genuine(m)'
<1>1. m.req \in Nat
  BY DEF Messages
<1>. QED
  BY <1>1, HeardStays DEF Genuine

LEMMA DeliveredStays ==
    ASSUME TypeInv, [Next]_vars, NEW c \in Clients,
           NEW p \in (Clients \cup {NoClient}) \X (0..MaxReqs), Delivered(c, p)
    PROVE  Delivered(c, p)'
<1>1. p[2] \in Nat
  OBVIOUS
<1>. QED
  BY <1>1, HeardStays DEF Delivered

\* Between two jobs the worker only moves on with its message, or ends.
LEMMA WorkerMovesOn ==
    ASSUME TypeInv, WorkerSteps, ~StartJob
    PROVE  /\ Answering' => /\ Answering
                            /\ thread'["worker"].msg = thread["worker"].msg
                            /\ thread'["worker"].fd = thread["worker"].fd
           /\ msgQ' = msgQ
           /\ ~ReplySend => got' = got
<1>a. /\ thread \in [Threads -> Locals]
      /\ sessions \in Seq(Entries)
      /\ {"io", "worker"} \subseteq Threads
      /\ thread["worker"] \in Locals
  BY DEF TypeInv, ThreadOK, QueuesOK, Threads
<1>1. msgQ' = msgQ /\ (~ReplySend => got' = got)
  BY DEF WorkerSteps, Expiring, HandlerFind, HandlerUpdate, ReplyFind,
         ReplySend, ReplyFails, ReplyDropped, ExpireFind, ExpireDelete,
         Farewell, queues, net
<1>2. SUFFICES ASSUME Answering'
               PROVE  /\ Answering
                      /\ thread'["worker"].msg = thread["worker"].msg
                      /\ thread'["worker"].fd = thread["worker"].fd
  BY <1>1
<1>3. CASE HandlerFind \/ ReplyFind
  <2>1. /\ thread'["worker"].fd = thread["worker"].fd
        /\ thread'["worker"].msg = thread["worker"].msg
    BY <1>a, <1>2, <1>3
       DEF HandlerFind, ReplyFind, Find, Go, Locals, Answering, Resting
  <2>. QED
    BY <1>3, <2>1 DEF HandlerFind, ReplyFind, Answering
<1>4. CASE HandlerUpdate
  <2>1. Go("worker", "reply") /\ Answering
    BY <1>4 DEF HandlerUpdate, Undefined, Answering
  <2>2. thread'["worker"] = [thread["worker"] EXCEPT !.at = "reply"]
    BY <1>a, <2>1, GoMoves DEF WorkerPlaces
  <2>. QED
    BY <1>a, <2>1, <2>2 DEF Locals
<1>5. CASE ReplySend \/ ReplyFails \/ ReplyDropped \/ Farewell("worker")
           \/ ExpireDelete("worker")
  <2>1. PICK place \in {"idle", "expire", "farewell"} : Go("worker", place)
    BY <1>5
       DEF ReplySend, ReplyFails, ReplyDropped, Farewell, ExpireDelete,
           Undefined
  <2>2. thread'["worker"].at = place
    BY <1>a, <2>1, GoMoves DEF WorkerPlaces
  <2>. QED
    BY <1>2, <2>2 DEF Answering
<1>6. CASE ExpireFind("worker")
  <2>1. thread'["worker"].at \in {"delete", "farewell"}
    BY <1>a, <1>6, FindMoves DEF ExpireFind, WorkerPlaces
  <2>. QED
    BY <1>2, <2>1 DEF Answering
<1>. QED
  BY <1>3, <1>4, <1>5, <1>6 DEF WorkerSteps, Expiring

\* Most steps add no message and deliver no reply: what waits then waited
\* before, in the same order.
NoneAdded ==
    /\ got' = got
    /\ \E d \in {0, 1} : \A j \in Waiting' :
          j + d \in Waiting /\ Pending(j)' = Pending(j + d)

\* A message comes last; nothing its sender was heard to say is newer.
OneAdded(m) ==
    /\ got' = got
    /\ \E last \in Nat :
          /\ Waiting' = Waiting \cup {last}
          /\ \A j \in Waiting : j < last /\ Pending(j)' = Pending(j)
          /\ Pending(last)' = m
    /\ \A n \in Nat : Heard(m.from, n) => n < m.req
    /\ Genuine(m)'

LEMMA OthersAddNone ==
    ASSUME TypeInv, UNCHANGED <<got, msgQ>>,
           Answering' => Answering
                         /\ thread'["worker"].msg = thread["worker"].msg
    PROVE  NoneAdded
<1>1. Len(msgQ) \in Nat
  BY DEF TypeInv, QueuesOK
<1>2. ASSUME NEW j \in Waiting'
      PROVE  j + 0 \in Waiting /\ Pending(j)' = Pending(j + 0)
  BY <1>1, <1>2 DEF Waiting, Pending
<1>. QED
  BY <1>2 DEF NoneAdded

LEMMA StartAddsNone ==
    ASSUME TypeInv, StartJob
    PROVE  /\ NoneAdded
           /\ Answering' => thread'["worker"].fd = thread'["worker"].msg.fd
<1>a. /\ thread \in [Threads -> Locals] /\ "worker" \in Threads
      /\ msgQ \in Seq(Messages) /\ Len(msgQ) \in Nat
      /\ DOMAIN msgQ = 1..Len(msgQ)
  BY DEF TypeInv, ThreadOK, QueuesOK, Threads
<1>b. ~Answering /\ got' = got
  BY DEF StartJob, Answering, net
<1>1. CASE msgQ = << >>
  <2>1. UNCHANGED <<msgQ, thread>>
    BY <1>1 DEF StartJob
  <2>. QED
    BY <1>b, <2>1, OthersAddNone DEF Answering
<1>2. CASE msgQ # << >>
  <2>1. PICK place \in {"handle", "reply"} :
            /\ msgQ' = Tail(msgQ)
            /\ thread' = [thread EXCEPT !["worker"] =
                             [at |-> place, fd |-> Head(msgQ).fd,
                              ptr |-> NoClient, msg |-> Head(msgQ)]]
    BY <1>2 DEF StartJob
  <2>2. /\ thread'["worker"].at = place
        /\ thread'["worker"].msg = msgQ[1]
        /\ thread'["worker"].fd = msgQ[1].fd
    BY <1>a, <1>2, <2>1
  <2>3. /\ Len(msgQ') = Len(msgQ) - 1
        /\ \A j \in 1..Len(msgQ') : msgQ'[j] = msgQ[j + 1]
    BY <1>a, <1>2, <2>1
  <2>4. Waiting' = 0..(Len(msgQ) - 1) /\ Waiting = 1..Len(msgQ)
    BY <1>b, <2>2, <2>3 DEF Waiting, Answering
  <2>5. ASSUME NEW j \in Waiting'
        PROVE  j + 1 \in Waiting /\ Pending(j)' = Pending(j + 1)
    BY <1>a, <2>2, <2>3, <2>4, <2>5 DEF Pending
  <2>. QED
    BY <1>b, <2>2, <2>5 DEF NoneAdded
<1>. QED
  BY <1>1, <1>2

\* Welcome and Receive append a message.
LEMMA AppendAddsOne ==
    ASSUME TypeInv, NEW m \in Messages, msgQ' = Append(msgQ, m),
           UNCHANGED <<got, thread["worker"]>>,
           \A n \in Nat : Heard(m.from, n) => n < m.req, Genuine(m)'
    PROVE  OneAdded(m)
<1>1. /\ msgQ \in Seq(Messages) /\ Len(msgQ) \in Nat
      /\ Len(msgQ') = Len(msgQ) + 1
      /\ msgQ'[Len(msgQ) + 1] = m
      /\ \A j \in 1..Len(msgQ) : msgQ'[j] = msgQ[j]
  BY DEF TypeInv, QueuesOK
<1>2. Answering' = Answering
  BY DEF Answering
<1>3. PICK last \in Nat : last = Len(msgQ) + 1
  BY <1>1
<1>4. Waiting' = Waiting \cup {last}
  BY <1>1, <1>2, <1>3 DEF Waiting
<1>5. \A j \in Waiting : j < last /\ Pending(j)' = Pending(j)
  BY <1>1, <1>3 DEF Waiting, Pending
<1>6. Pending(last)' = m
  BY <1>1, <1>3 DEF Pending
<1>. QED
  BY <1>4, <1>5, <1>6 DEF OneAdded

LEMMA WelcomeAdds ==
    ASSUME TypeInv, Sockets, Welcome
    PROVE  \E m \in Messages : OneAdded(m)
<1>a. /\ thread \in [Threads -> Locals] /\ {"io", "worker"} \subseteq Threads
      /\ sock \in [FDs -> Clients \cup {NoClient}]
      /\ read \in [Clients -> 0..MaxReqs]
      /\ thread["io"].fd \in FDs
  BY DEF TypeInv, ThreadOK, NetOK, Threads, Welcome
<1>1. PICK m \in Messages :
          m = [from |-> sock[thread["io"].fd], fd |-> thread["io"].fd,
               req |-> 0]
  <2>1. 0 \in 0..MaxReqs
    OBVIOUS
  <2>2. sock[thread["io"].fd] \in Clients \cup {NoClient}
    BY <1>a
  <2>. QED
    BY <1>a, <2>1, <2>2 DEF Messages
<1>2. /\ thread'["io"].at = "submit"
      /\ thread'["worker"] = thread["worker"]
      /\ msgQ' = Append(msgQ, m)
      /\ UNCHANGED <<got, peer, read, backlog, sock>>
  BY <1>a, <1>1, GoMoves DEF Welcome, net, IOPlaces
<1>3. \A n \in Nat : Heard(m.from, n) => n < m.req
  BY <1>1 DEF Heard, Greeting, Welcome
<1>4. Genuine(m)'
  <2>1. SUFFICES ASSUME m.from # NoClient
                 PROVE  Heard(m.from, 0)' /\ \A g \in FDs : sock'[g] = m.from
                                                => g = m.fd
    BY <1>a, <1>1, <1>2 DEF Genuine
  <2>2. m.from \in Clients
    BY <1>a, <1>1, <2>1
  <2>3. Heard(m.from, 0)'
    <3>1. m.from = sock[thread["io"].fd]
      BY <1>1
    <3>2. 0 <= read[m.from]
      BY <1>a, <2>2
    <3>3. peer[m.from] # "off" /\ m.from \notin backlog
      BY <1>a, <2>1, <3>1 DEF Sockets
    <3>. QED
      BY <1>2, <2>2, <3>2, <3>3 DEF Heard, Greeting
  <2>. QED
    BY <1>a, <1>1, <1>2, <2>1, <2>3 DEF Sockets
<1>. QED
  BY <1>1, <1>2, <1>3, <1>4, AppendAddsOne

LEMMA ReceiveAdds ==
    ASSUME TypeInv, Sockets, NEW f \in FDs, Receive(f)
    PROVE  NoneAdded \/ \E m \in Messages : OneAdded(m)
<1>a. /\ thread \in [Threads -> Locals] /\ {"io", "worker"} \subseteq Threads
      /\ sock \in [FDs -> Clients \cup {NoClient}]
      /\ read \in [Clients -> 0..MaxReqs] /\ read' \in [Clients -> 0..MaxReqs]
  BY NextType DEF TypeInv, ThreadOK, NetOK, Threads, Next, IOSteps, Receive
<1>1. PICK c \in Clients :
          c = sock[f] /\ read' = [read EXCEPT ![c] = @ + 1]
  BY <1>a DEF Receive
<1>2. /\ thread'["io"].at = "refresh"
      /\ thread'["worker"] = thread["worker"]
      /\ UNCHANGED <<got, peer, backlog, sock>>
  BY <1>a DEF Receive, Begin, Resting
<1>3. PICK m \in Messages : m = [from |-> c, fd |-> f, req |-> read[c] + 1]
  BY <1>a, <1>1 DEF Messages
<1>4. \A n \in Nat : Heard(m.from, n) => n < m.req
  BY <1>a, <1>1, <1>3 DEF Heard
<1>5. Genuine(m)'
  BY <1>a, <1>1, <1>2, <1>3 DEF Genuine, Heard, Greeting, Sockets
<1>6. msgQ' = Append(msgQ, m) \/ msgQ' = msgQ
  BY <1>1, <1>3 DEF Receive
<1>. QED
  BY <1>2, <1>3, <1>4, <1>5, <1>6, AppendAddsOne, OthersAddNone DEF Answering

LEMMA NextAdds ==
    ASSUME TypeInv, Sockets, [Next]_vars
    PROVE  NoneAdded \/ (\E m \in Messages : OneAdded(m)) \/ ReplySend
<1>a. thread \in [Threads -> Locals]
  BY DEF TypeInv, ThreadOK
<1>1. CASE StartJob
  BY <1>1, StartAddsNone
<1>2. CASE WorkerSteps /\ ~StartJob
  BY <1>2, WorkerMovesOn, OthersAddNone
<1>3. CASE Welcome
  BY <1>3, WelcomeAdds
<1>4. ASSUME NEW f \in FDs, Receive(f)
      PROVE  NoneAdded \/ \E m \in Messages : OneAdded(m)
  BY <1>4, ReceiveAdds
<1>5. CASE IOSteps /\ ~Welcome /\ ~\E f \in FDs : Receive(f)
  <2>1. UNCHANGED <<got, msgQ>>
    BY <1>5
       DEF IOSteps, Expiring, Wait, Accept, Hangup, NewSession, ValidateFind,
           ValidateInit, Submit, ReceiveFails, RefreshFind, RefreshTouch,
           ExpireFind, ExpireDelete, Farewell, net, queues
  <2>2. thread'["worker"] = thread["worker"]
    BY <1>a, <1>5, OtherThreadStays
  <2>. QED
    BY <2>1, <2>2, OthersAddNone DEF Answering
<1>6. CASE UNCHANGED <<got, msgQ, thread>>
  BY <1>6, OthersAddNone DEF Answering
<1>. QED
  BY <1>1, <1>2, <1>3, <1>4, <1>5, <1>6
     DEF vars, net, queues, Next, Connect, Request, Leave

\* The worker answers on the descriptor its message names.
LEMMA NextFd ==
    ASSUME TypeInv, [Next]_vars,
           Answering => thread["worker"].fd = thread["worker"].msg.fd
    PROVE  Answering' => thread'["worker"].fd = thread'["worker"].msg.fd
<1>a. thread \in [Threads -> Locals]
  BY DEF TypeInv, ThreadOK
<1>1. CASE StartJob
  BY <1>1, StartAddsNone
<1>2. CASE WorkerSteps /\ ~StartJob
  BY <1>2, WorkerMovesOn
<1>3. CASE IOSteps
  BY <1>a, <1>3, OtherThreadStays DEF Answering
<1>4. CASE UNCHANGED thread
  BY <1>4 DEF Answering
<1>. QED
  BY <1>1, <1>2, <1>3, <1>4 DEF vars, Next, Connect, Request, Leave

\* The messages that wait, and the replies, are of their types.
LEMMA WaitingTypes ==
    ASSUME TypeInv
    PROVE  /\ Waiting \subseteq Nat
           /\ \A j \in Waiting : Pending(j) \in Messages
           /\ \A c \in Clients : \A k \in DOMAIN got[c] :
                 got[c][k] \in (Clients \cup {NoClient}) \X (0..MaxReqs)
<1>a. /\ thread["worker"] \in Locals
      /\ msgQ \in Seq(Messages) /\ Len(msgQ) \in Nat
  BY DEF TypeInv, ThreadOK, QueuesOK, Threads
<1>1. Waiting \subseteq Nat
  BY <1>a DEF Waiting
<1>2. \A j \in Waiting : Pending(j) \in Messages
  BY <1>a DEF Waiting, Pending, Locals
<1>3. ASSUME NEW c \in Clients, NEW k \in DOMAIN got[c]
      PROVE  got[c][k] \in (Clients \cup {NoClient}) \X (0..MaxReqs)
  BY DEF TypeInv, NetOK
<1>. QED
  BY <1>1, <1>2, <1>3

LEMMA NoneAddedKeeps ==
    ASSUME TypeInv, Replies, [Next]_vars, NoneAdded
    PROVE  /\ \A i \in Waiting' : Genuine(Pending(i))'
           /\ \A c \in Clients : \A k \in DOMAIN got'[c] :
                 Delivered(c, got[c][k])'
           /\ InOrder'
<1>1. PICK d \in {0, 1} : \A j \in Waiting' :
          j + d \in Waiting /\ Pending(j)' = Pending(j + d)
  BY DEF NoneAdded
<1>2. got' = got
  BY DEF NoneAdded
<1>3. Waiting' \subseteq Nat
  <2>1. msgQ' \in Seq(Messages)
    BY NextType DEF TypeInv, QueuesOK
  <2>2. Len(msgQ') \in Nat
    BY <2>1
  <2>. QED
    BY <2>2 DEF Waiting
<1>4. ASSUME NEW i \in Waiting' PROVE Genuine(Pending(i))'
  <2>1. PICK m \in Messages : m = Pending(i + d) /\ Genuine(m)
    BY <1>1, WaitingTypes DEF Replies
  <2>2. Genuine(m)'
    BY <2>1, GenuineStays
  <2>3. Pending(i)' = m
    BY <1>1, <2>1
  <2>. QED
    BY <2>2, <2>3 DEF Genuine, Heard, Greeting
<1>5. ASSUME NEW c \in Clients, NEW k \in DOMAIN got'[c]
      PROVE  Delivered(c, got[c][k])'
  <2>1. PICK p \in (Clients \cup {NoClient}) \X (0..MaxReqs) :
            p = got[c][k] /\ Delivered(c, p)
    BY <1>2, WaitingTypes DEF Replies
  <2>2. Delivered(c, p)'
    BY <2>1, DeliveredStays
  <2>. QED
    BY <1>2, <2>1, <2>2 DEF Delivered, Heard, Greeting
<1>6. InOrder'
  <2>1. ASSUME NEW i \in Waiting', NEW j \in Waiting', i < j
        PROVE  Before(Pending(i).from, Pending(i).req,
                      Pending(j).from, Pending(j).req)'
    <3>1. i + d < j + d
      BY <1>3, <2>1
    <3>. QED
      BY <1>1, <2>1, <3>1 DEF Replies, InOrder, Before
  <2>2. \A c \in Clients : \A k \in DOMAIN got'[c] : \A j \in Waiting' :
            Before(got[c][k][1], got[c][k][2], Pending(j).from,
                   Pending(j).req)'
    BY <1>1, <1>2 DEF Replies, InOrder, Before
  <2>. QED
    BY <1>2, <2>1, <2>2 DEF Replies, InOrder, Before
<1>. QED
  BY <1>4, <1>5, <1>6

LEMMA OneAddedKeeps ==
    ASSUME TypeInv, Replies, [Next]_vars, NEW m \in Messages, OneAdded(m)
    PROVE  /\ \A i \in Waiting' : Genuine(Pending(i))'
           /\ \A c \in Clients : \A k \in DOMAIN got'[c] :
                 Delivered(c, got[c][k])'
           /\ InOrder'
<1>1. PICK last \in Nat :
          /\ Waiting' = Waiting \cup {last}
          /\ \A j \in Waiting : j < last /\ Pending(j)' = Pending(j)
          /\ Pending(last)' = m
  BY DEF OneAdded
<1>2. /\ got' = got
      /\ \A n \in Nat : Heard(m.from, n) => n < m.req
      /\ Genuine(m)'
  BY DEF OneAdded
<1>3. Waiting \subseteq Nat
  BY WaitingTypes
<1>4. ASSUME NEW i \in Waiting' PROVE Genuine(Pending(i))'
  <2>1. CASE i = last
    BY <1>1, <1>2, <2>1 DEF Genuine, Heard, Greeting
  <2>2. CASE i \in Waiting
    <3>1. PICK w \in Messages : w = Pending(i) /\ Genuine(w)
      BY <2>2, WaitingTypes DEF Replies
    <3>2. Genuine(w)' /\ Pending(i)' = w
      BY <1>1, <2>2, <3>1, GenuineStays
    <3>. QED
      BY <3>2 DEF Genuine, Heard, Greeting
  <2>. QED
    BY <1>1, <2>1, <2>2
<1>5. ASSUME NEW c \in Clients, NEW k \in DOMAIN got'[c]
      PROVE  Delivered(c, got[c][k])'
  <2>1. PICK p \in (Clients \cup {NoClient}) \X (0..MaxReqs) :
            p = got[c][k] /\ Delivered(c, p)
    BY <1>2, WaitingTypes DEF Replies
  <2>2. Delivered(c, p)'
    BY <2>1, DeliveredStays
  <2>. QED
    BY <1>2, <2>1, <2>2 DEF Delivered, Heard, Greeting
<1>6. ASSUME NEW i \in Waiting
      PROVE  Before(Pending(i).from, Pending(i).req, m.from, m.req)
  <2>1. PICK w \in Messages : w = Pending(i) /\ Genuine(w)
    BY WaitingTypes DEF Replies
  <2>2. w.req \in Nat
    BY DEF Messages
  <2>. QED
    BY <1>2, <2>1, <2>2 DEF Genuine, Before
<1>7. ASSUME NEW c \in Clients, NEW k \in DOMAIN got[c]
      PROVE  Before(got[c][k][1], got[c][k][2], m.from, m.req)
  <2>1. PICK p \in (Clients \cup {NoClient}) \X (0..MaxReqs) :
            p = got[c][k] /\ Delivered(c, p)
    BY <1>2, WaitingTypes DEF Replies
  <2>2. p[2] \in Nat
    OBVIOUS
  <2>. QED
    BY <1>2, <2>1, <2>2 DEF Delivered, Before
<1>8. InOrder'
  <2>1. ASSUME NEW i \in Waiting', NEW j \in Waiting', i < j
        PROVE  Before(Pending(i).from, Pending(i).req,
                      Pending(j).from, Pending(j).req)'
    <3>1. i \in Waiting
      BY <1>1, <1>3, <2>1
    <3>. QED
      BY <1>1, <1>6, <2>1, <3>1 DEF Replies, InOrder, Before
  <2>2. ASSUME NEW c \in Clients, NEW k \in DOMAIN got'[c], NEW j \in Waiting'
        PROVE  Before(got[c][k][1], got[c][k][2], Pending(j).from,
                      Pending(j).req)'
    BY <1>1, <1>2, <1>7, <2>2 DEF Replies, InOrder, Before
  <2>. QED
    BY <1>2, <2>1, <2>2 DEF Replies, InOrder, Before
<1>. QED
  BY <1>4, <1>5, <1>8

\* A reply goes to whoever has the descriptor its message names.
LEMMA SendKeeps ==
    ASSUME TypeInv, Replies, [Next]_vars, ReplySend
    PROVE  /\ \A i \in Waiting' : Genuine(Pending(i))'
           /\ \A c \in Clients : \A k \in DOMAIN got'[c] :
                 Delivered(c, got[c][k])'
           /\ InOrder'
<1>a. /\ thread \in [Threads -> Locals] /\ "worker" \in Threads
      /\ got \in [Clients -> Seq((Clients \cup {NoClient}) \X (0..MaxReqs))]
      /\ sock \in [FDs -> Clients \cup {NoClient}]
      /\ msgQ \in Seq(Messages)
  BY DEF TypeInv, ThreadOK, NetOK, QueuesOK, Threads
<1>b. Answering /\ 0 \in Waiting
  <2>1. Answering /\ Len(msgQ) \in Nat
    BY <1>a DEF ReplySend, Answering
  <2>. QED
    BY <2>1 DEF Waiting
<1>1. PICK m \in Messages : m = thread["worker"].msg
  BY <1>a DEF Locals
<1>2. m = Pending(0) /\ Genuine(m) /\ thread["worker"].fd = m.fd
  BY <1>b, <1>1 DEF Replies, Pending
<1>3. PICK r \in Clients :
          /\ r = sock[m.fd]
          /\ got' = [got EXCEPT ![r] = Append(@, <<m.from, m.req>>)]
  BY <1>a, <1>1, <1>2 DEF ReplySend, Genuine
<1>4. sock' = sock /\ msgQ' = msgQ /\ ~Answering'
  <2>1. thread'["worker"].at = "idle"
    BY <1>a, GoMoves DEF ReplySend, WorkerPlaces
  <2>. QED
    BY <2>1 DEF ReplySend, queues, Answering
<1>5. \A j \in Waiting' : j \in Waiting /\ 0 < j /\ Pending(j)' = Pending(j)
  <2>1. Len(msgQ) \in Nat
    BY <1>a
  <2>. QED
    BY <1>4, <2>1 DEF Waiting, Pending
<1>6. ASSUME NEW i \in Waiting' PROVE Genuine(Pending(i))'
  <2>1. PICK w \in Messages : w = Pending(i) /\ Genuine(w)
    BY <1>5, WaitingTypes DEF Replies
  <2>2. Genuine(w)' /\ Pending(i)' = w
    BY <1>5, <2>1, GenuineStays
  <2>. QED
    BY <2>2 DEF Genuine, Heard, Greeting
<1>7. ASSUME NEW c \in Clients
      PROVE  /\ c # r => got'[c] = got[c]
             /\ c = r =>
                   /\ DOMAIN got'[c] = DOMAIN got[c] \cup {Len(got[c]) + 1}
                   /\ got'[c][Len(got[c]) + 1] = <<m.from, m.req>>
             /\ DOMAIN got[c] = 1..Len(got[c]) /\ Len(got[c]) \in Nat
             /\ \A k \in DOMAIN got[c] : got'[c][k] = got[c][k]
  <2>1. got[c] \in Seq((Clients \cup {NoClient}) \X (0..MaxReqs))
    BY <1>a
  <2>2. DOMAIN got[c] = 1..Len(got[c]) /\ Len(got[c]) \in Nat
    BY <2>1
  <2>3. CASE c # r
    BY <1>a, <1>3, <2>2, <2>3
  <2>4. CASE c = r
    <3>1. got'[c] = Append(got[c], <<m.from, m.req>>)
      BY <1>a, <1>3, <2>4
    <3>2. <<m.from, m.req>> \in (Clients \cup {NoClient}) \X (0..MaxReqs)
      BY DEF Messages
    <3>3. /\ Len(got'[c]) = Len(got[c]) + 1
          /\ DOMAIN got'[c] = 1..(Len(got[c]) + 1)
          /\ \A k \in 1..Len(got[c]) : got'[c][k] = got[c][k]
          /\ got'[c][Len(got[c]) + 1] = <<m.from, m.req>>
      BY <2>1, <3>1, <3>2
    <3>. QED
      BY <2>2, <2>4, <3>3
  <2>. QED
    BY <2>2, <2>3, <2>4
<1>8. ASSUME NEW c \in Clients, NEW k \in DOMAIN got'[c]
      PROVE  Delivered(c, got[c][k])'
  <2>1. CASE k \in DOMAIN got[c]
    <3>1. PICK p \in (Clients \cup {NoClient}) \X (0..MaxReqs) :
              p = got[c][k] /\ Delivered(c, p)
      BY <2>1, WaitingTypes DEF Replies
    <3>2. Delivered(c, p)' /\ got'[c][k] = p
      BY <1>7, <2>1, <3>1, DeliveredStays
    <3>. QED
      BY <3>2 DEF Delivered, Heard, Greeting
  <2>2. CASE k \notin DOMAIN got[c]
    <3>1. PICK p \in (Clients \cup {NoClient}) \X (0..MaxReqs) :
              p = <<m.from, m.req>>
      BY DEF Messages
    <3>2. c = r /\ got'[c][k] = p
      BY <1>7, <2>2, <3>1
    <3>3. Delivered(c, p)
      BY <1>2, <1>3, <3>1, <3>2 DEF Genuine, Delivered
    <3>4. Delivered(c, p)'
      BY <3>3, DeliveredStays
    <3>. QED
      BY <3>2, <3>4 DEF Delivered, Heard, Greeting
  <2>. QED
    BY <2>1, <2>2
<1>9. \A j \in Waiting' : Before(m.from, m.req, Pending(j).from, Pending(j).req)
  BY <1>b, <1>2, <1>5 DEF Replies, InOrder
<1>10. \A c \in Clients : \A k \in DOMAIN got[c] :
          Before(got[c][k][1], got[c][k][2], m.from, m.req)
  BY <1>b, <1>2 DEF Replies, InOrder
<1>11. InOrder'
  <2>1. \A i, j \in Waiting' : i < j =>
            Before(Pending(i).from, Pending(i).req,
                   Pending(j).from, Pending(j).req)'
    BY <1>5 DEF Replies, InOrder, Before
  <2>2. ASSUME NEW c \in Clients, NEW k \in DOMAIN got'[c], NEW j \in Waiting'
        PROVE  Before(got[c][k][1], got[c][k][2], Pending(j).from,
                      Pending(j).req)'
    <3>1. CASE k \in DOMAIN got[c]
      BY <1>5, <1>7, <2>2, <3>1 DEF Replies, InOrder, Before
    <3>2. CASE k \notin DOMAIN got[c]
      BY <1>5, <1>7, <1>9, <2>2, <3>2 DEF Before
    <3>. QED
      BY <3>1, <3>2
  <2>3. ASSUME NEW c \in Clients, NEW k \in DOMAIN got'[c],
               NEW l \in DOMAIN got'[c], k < l
        PROVE  Before(got[c][k][1], got[c][k][2],
                      got[c][l][1], got[c][l][2])'
    <3>1. k \in DOMAIN got[c]
      BY <1>7, <2>3
    <3>2. CASE l \in DOMAIN got[c]
      BY <1>7, <2>3, <3>1, <3>2 DEF Replies, InOrder, Before
    <3>3. CASE l \notin DOMAIN got[c]
      BY <1>7, <1>10, <2>3, <3>1, <3>3 DEF Before
    <3>. QED
      BY <3>2, <3>3
  <2>. QED
    BY <2>1, <2>2, <2>3 DEF InOrder, Before
<1>. QED
  BY <1>6, <1>8, <1>11

LEMMA NextReplies == TypeInv /\ Replies /\ [Next]_vars => Replies'
<1> SUFFICES ASSUME TypeInv, Replies, [Next]_vars PROVE Replies'
  OBVIOUS
<1>1. Sockets'
  BY NextSockets DEF Replies
<1>2. Answering' => thread'["worker"].fd = thread'["worker"].msg.fd
  BY NextFd DEF Replies
<1>3. /\ \A i \in Waiting' : Genuine(Pending(i))'
      /\ \A c \in Clients : \A k \in DOMAIN got'[c] : Delivered(c, got[c][k])'
      /\ InOrder'
  BY NextAdds, NoneAddedKeeps, OneAddedKeeps, SendKeeps DEF Replies
<1>. QED
  BY <1>1, <1>2, <1>3 DEF Replies

\* A client gets the answers to its own requests in the order it sent them, and
\* those of another only when that one is gone, however the descriptors in the
\* headers are given out again between a request and its reply.
THEOREM RepliesInOrder == SafeSpec => []OrderedReplies
BY InitType, NextType, InitReplies, NextReplies, RepliesAreOrdered, PTL
   DEF SafeSpec

-----------------------------------------------------------------------------
(* Expiry: what is closed, and when *)

Gone(c) == peer[c] \in {"fin", "rst"}
Left == \E c \in Clients : Gone(c)

\* A thread in the catch clause of its server.
Closing(t) == thread[t].at \in {"expire", "delete", "farewell"}

\* A thread that cannot go wrong: it expires nobody, and the session it has a
\* pointer to is in the list and its descriptor open.
Safe(t) ==
    /\ ~Closing(t)
    /\ thread[t].at \in {"init", "touch", "update", "send"} => Valid(t)
    /\ thread[t].at \in {"new", "validate", "init", "welcome",
                         "handle", "update", "reply", "send"} =>
           thread[t].fd \in FDs /\ sock[thread[t].fd] # NoClient

\* How it is as long as nobody leaves: nothing is closed, so notifications and
\* messages are never stale.
Peaceful ==
    /\ ~killed
    /\ \A i \in DOMAIN batch :
           /\ batch[i].kind = "in"
           /\ batch[i].fd # Listen => sock[batch[i].fd] # NoClient
    /\ \A i \in DOMAIN msgQ :
           msgQ[i].fd \in FDs /\ sock[msgQ[i].fd] # NoClient
    /\ \A t \in Threads : Safe(t)

Peace == Left \/ Peaceful

\* What the event loop closes is gone, and so is what the worker closes, if it
\* is the connection the worker's message came from.
Expiry ==
    /\ Closing("io") =>
           \E f \in FDs :
               /\ thread["io"].fd = f
               /\ \A c \in Clients : sock[f] = c => Gone(c)
    /\ Closing("worker") =>
           \E f \in FDs, m \in Messages :
               /\ thread["worker"].fd = f
               /\ thread["worker"].msg = m
               /\ Genuine(m)
               /\ m.from # NoClient /\ sock[f] = m.from => Gone(m.from)

LEMMA GoneStays ==
    ASSUME TypeInv, [Next]_vars, NEW c \in Clients, Gone(c)
    PROVE  Gone(c)'
<1>1. peer \in [Clients -> {"off", "open", "fin", "rst"}]
  BY DEF TypeInv, NetOK
<1>2. CASE UNCHANGED peer
  BY <1>2 DEF Gone
<1>3. ASSUME NEW d \in Clients, Connect(d) \/ Request(d) \/ Leave(d)
      PROVE  Gone(c)'
  BY <1>1, <1>3 DEF Connect, Request, Leave, Gone
<1>4. CASE ReplySend
  BY <1>1, <1>4 DEF ReplySend, Gone
<1>. QED
  BY <1>2, <1>3, <1>4
     DEF vars, net, Next, IOSteps, WorkerSteps, Expiring, Wait, Accept, Hangup,
         NewSession, ValidateFind, ValidateInit, Welcome, Submit, Receive,
         ReceiveFails, RefreshFind, RefreshTouch, StartJob, HandlerFind,
         HandlerUpdate, ReplyFind, ReplyFails, ReplyDropped, ExpireFind,
         ExpireDelete, Farewell

\* Epoll_wait reports what is ready.
LEMMA WaitReturnsReady ==
    ASSUME Wait
    PROVE  \A i \in DOMAIN batch' : batch'[i] \in Ready
<1>1. PICK n : batch' \in [1..n -> Ready]
  BY DEF Wait, Injection
<1>. QED
  BY <1>1

\* In peace no descriptor is closed, ...
LEMMA PeaceKeepsSockets ==
    ASSUME TypeInv, Peaceful, [Next]_vars
    PROVE  \A f \in FDs : sock[f] # NoClient => sock'[f] # NoClient
<1>a. /\ sock \in [FDs -> Clients \cup {NoClient}]
      /\ batch \in Seq(Notifications) /\ backlog \subseteq Clients
  BY DEF TypeInv, NetOK, QueuesOK
<1>1. ASSUME Hangup PROVE FALSE
  <2>1. batch # << >> /\ Head(batch) = batch[1] /\ 1 \in DOMAIN batch
    BY <1>a, <1>1 DEF Hangup, Handling
  <2>. QED
    BY <1>1, <2>1 DEF Hangup, Handling, Peaceful
<1>2. ASSUME NEW t \in Threads, Farewell(t) PROVE FALSE
  BY <1>2 DEF Farewell, Peaceful, Safe, Closing
<1>3. CASE Accept
  BY <1>a, <1>3, AcceptOpens
<1>. QED
  BY <1>1, <1>2, <1>3
     DEF vars, Next, IOSteps, WorkerSteps, Expiring, Connect, Request, Leave,
         Wait, NewSession, ValidateFind, ValidateInit, Welcome, Submit, Receive,
         ReceiveFails, RefreshFind, RefreshTouch, StartJob, HandlerFind,
         HandlerUpdate, ReplyFind, ReplySend, ReplyFails, ReplyDropped,
         ExpireFind, ExpireDelete, Threads

\* ... and no session deleted.
LEMMA PeaceKeepsSessions ==
    ASSUME TypeInv, Peaceful, [Next]_vars, NEW t \in Threads, Valid(t),
           thread'[t].ptr = thread[t].ptr
    PROVE  Valid(t)'
<1>a. sessions \in Seq(Entries)
  BY DEF TypeInv, QueuesOK
<1>1. SUFFICES \A i \in DOMAIN sessions : \E j \in DOMAIN sessions' :
                   sessions'[j].id = sessions[i].id
  BY DEF Valid, ToSet
<1>2. CASE UNCHANGED sessions
  BY <1>2
<1>3. CASE NewSession
  <2> DEFINE s == [id |-> thread["io"].ptr, fd |-> thread["io"].fd,
                   hb |-> FALSE]
  <2>1. sessions' = Append(sessions, s)
    BY <1>3 DEF NewSession
  <2> HIDE DEF s
  <2>. QED
    BY <1>a, <2>1
<1>4. CASE ValidateInit
  <2>1. ASSUME sessions' # sessions, NEW i \in DOMAIN sessions
        PROVE  i \in DOMAIN sessions' /\ sessions'[i].id = sessions[i].id
    <3>1. sessions' = [j \in DOMAIN sessions |->
                          IF sessions[j].id = thread["io"].ptr
                          THEN [sessions[j] EXCEPT !.hb = TRUE]
                          ELSE sessions[j]]
      BY <1>4, <2>1 DEF ValidateInit
    <3>2. sessions[i] \in Entries
      BY <1>a
    <3>. QED
      BY <3>1, <3>2 DEF Entries
  <2>. QED
    BY <1>2, <2>1
<1>5. ASSUME NEW u \in Threads, ExpireDelete(u) PROVE FALSE
  BY <1>5 DEF ExpireDelete, Undefined, Peaceful, Safe, Closing
<1>. QED
  BY <1>2, <1>3, <1>4, <1>5
     DEF vars, Next, IOSteps, WorkerSteps, Expiring, Connect, Request, Leave,
         Wait, Accept, Hangup, ValidateFind, Welcome, Submit, Receive,
         ReceiveFails, RefreshFind, RefreshTouch, StartJob, HandlerFind,
         HandlerUpdate, ReplyFind, ReplySend, ReplyFails, ReplyDropped,
         ExpireFind, Farewell, Threads

\* No step of peace kills the process.
LEMMA PeaceKillsNone ==
    ASSUME TypeInv, Peaceful, [Next]_vars
    PROVE  ~killed'
<1>1. {"io", "worker"} \subseteq Threads
  BY DEF Threads
<1>2. CASE UNCHANGED killed
  BY <1>2 DEF Peaceful
<1>3. CASE ValidateInit \/ RefreshTouch \/ HandlerUpdate \/ ReplyDropped
  BY <1>1, <1>3
     DEF ValidateInit, RefreshTouch, HandlerUpdate, ReplyDropped, Undefined,
         Peaceful, Safe
<1>4. ASSUME NEW t \in Threads, ExpireDelete(t) PROVE FALSE
  BY <1>4 DEF ExpireDelete, Undefined, Peaceful, Safe, Closing
<1>. QED
  BY <1>2, <1>3, <1>4
     DEF vars, Next, IOSteps, WorkerSteps, Expiring, Connect, Request, Leave,
         Wait, Accept, Hangup, NewSession, ValidateFind, Welcome, Submit,
         Receive, ReceiveFails, RefreshFind, StartJob, HandlerFind, ReplyFind,
         ReplySend, ReplyFails, ExpireFind, Farewell, Threads

\* Notifications are of open descriptors, and of nothing but input.
LEMMA PeacefulBatch ==
    ASSUME TypeInv, Peaceful, ~Left, [Next]_vars
    PROVE  \A i \in DOMAIN batch' :
               /\ batch'[i].kind = "in"
               /\ batch'[i].fd # Listen => sock'[batch'[i].fd] # NoClient
<1>a. /\ sock \in [FDs -> Clients \cup {NoClient}]
      /\ batch \in Seq(Notifications)
      /\ \A f \in FDs : sock[f] # NoClient => sock'[f] # NoClient
  BY PeaceKeepsSockets DEF TypeInv, NetOK, QueuesOK
<1>1. CASE batch' = batch \/ (batch # << >> /\ batch' = Tail(batch))
  <2>1. ASSUME NEW i \in DOMAIN batch'
        PROVE  \E j \in DOMAIN batch : batch'[i] = batch[j]
    BY <1>a, <1>1
  <2>2. ASSUME NEW j \in DOMAIN batch, batch[j].fd # Listen
        PROVE  sock'[batch[j].fd] # NoClient
    <3>1. batch[j] \in Notifications
      BY <1>a
    <3>2. batch[j].fd \in FDs
      BY <2>2, <3>1 DEF Notifications
    <3>. QED
      BY <1>a, <2>2, <3>2 DEF Peaceful
  <2>3. ASSUME NEW i \in DOMAIN batch'
        PROVE  /\ batch'[i].kind = "in"
               /\ batch'[i].fd # Listen => sock'[batch'[i].fd] # NoClient
    <3>1. PICK j \in DOMAIN batch : batch'[i] = batch[j]
      BY <2>1
    <3>. QED
      BY <2>2, <3>1 DEF Peaceful
  <2>. QED
    BY <2>3
<1>2. CASE Wait
  <2>1. sock' = sock
    BY <1>2 DEF Wait
  <2>2. \A n \in Ready : /\ n.kind = "in"
                         /\ n.fd # Listen => sock[n.fd] # NoClient
    BY <1>a DEF Ready, Free, Left, Gone
  <2>. QED
    BY <1>2, <2>1, <2>2, WaitReturnsReady
<1>. QED
  BY <1>1, <1>2
     DEF vars, queues, Next, IOSteps, WorkerSteps, Expiring, Connect, Request,
         Leave, Accept, Hangup, Handling, Input, NewSession, ValidateFind,
         ValidateInit, Welcome, Submit, Receive, ReceiveFails, RefreshFind,
         RefreshTouch, StartJob, HandlerFind, HandlerUpdate, ReplyFind,
         ReplySend, ReplyFails, ReplyDropped, ExpireFind, ExpireDelete, Farewell

\* Messages are for open descriptors.
LEMMA PeacefulMessages ==
    ASSUME TypeInv, Peaceful, [Next]_vars
    PROVE  \A i \in DOMAIN msgQ' :
               msgQ'[i].fd \in FDs /\ sock'[msgQ'[i].fd] # NoClient
<1>a. /\ msgQ \in Seq(Messages) /\ "io" \in Threads
      /\ \A f \in FDs : sock[f] # NoClient => sock'[f] # NoClient
  BY PeaceKeepsSockets DEF TypeInv, QueuesOK, Threads
<1>1. CASE msgQ' = msgQ \/ (msgQ # << >> /\ msgQ' = Tail(msgQ))
  <2>1. ASSUME NEW i \in DOMAIN msgQ'
        PROVE  \E j \in DOMAIN msgQ : msgQ'[i] = msgQ[j]
    BY <1>a, <1>1
  <2>. QED
    BY <1>a, <2>1 DEF Peaceful
<1>2. ASSUME NEW m, m.fd \in FDs, sock[m.fd] # NoClient,
             msgQ' = Append(msgQ, m)
      PROVE  \A i \in DOMAIN msgQ' :
                 msgQ'[i].fd \in FDs /\ sock'[msgQ'[i].fd] # NoClient
  <2>1. ASSUME NEW i \in DOMAIN msgQ'
        PROVE  msgQ'[i] = m \/ \E j \in DOMAIN msgQ : msgQ'[i] = msgQ[j]
    BY <1>a, <1>2
  <2>. QED
    BY <1>a, <1>2, <2>1 DEF Peaceful
<1>3. CASE Welcome
  BY <1>a, <1>2, <1>3 DEF Welcome, Peaceful, Safe
<1>4. ASSUME NEW f \in FDs, Receive(f)
      PROVE  \A i \in DOMAIN msgQ' :
                 msgQ'[i].fd \in FDs /\ sock'[msgQ'[i].fd] # NoClient
  <2> DEFINE m == [from |-> sock[f], fd |-> f, req |-> read[sock[f]] + 1]
  <2>1. sock[f] # NoClient /\ (msgQ' = Append(msgQ, m) \/ msgQ' = msgQ)
    BY <1>4 DEF Receive
  <2>2. m.fd = f
    OBVIOUS
  <2> HIDE DEF m
  <2>. QED
    BY <1>1, <1>2, <2>1, <2>2
<1>. QED
  BY <1>1, <1>3, <1>4
     DEF vars, queues, Next, IOSteps, WorkerSteps, Expiring, Connect, Request,
         Leave, Wait, Accept, Hangup, NewSession, ValidateFind, ValidateInit,
         Submit, ReceiveFails, RefreshFind, RefreshTouch, StartJob, HandlerFind,
         HandlerUpdate, ReplyFind, ReplySend, ReplyFails, ReplyDropped,
         ExpireFind, ExpireDelete, Farewell

\* A thread that goes on for the same descriptor.
LEMMA GoSafe ==
    ASSUME TypeInv, Peaceful, [Next]_vars, NEW t \in Threads,
           NEW place \in {"idle", "submit", "validate", "welcome", "reply"},
           Go(t, place),
           place \in {"validate", "welcome", "reply"} =>
               thread[t].at \in {"new", "validate", "init", "welcome",
                                 "handle", "update", "reply", "send"}
    PROVE  Safe(t)'
<1>1. /\ thread'[t].at = place
      /\ place # "idle" => thread'[t] = [thread[t] EXCEPT !.at = place]
  BY GoMoves DEF TypeInv, ThreadOK, IOPlaces, WorkerPlaces
<1>2. place # "idle" => thread'[t].fd = thread[t].fd
  BY <1>1 DEF TypeInv, ThreadOK, Locals
<1>. QED
  BY <1>1, <1>2, PeaceKeepsSockets DEF Safe, Closing, Peaceful

\* And one that looks a session up: the list has it.
LEMMA FindSafe ==
    ASSUME TypeInv, Peaceful, [Next]_vars, NEW t \in Threads,
           NEW hit \in {"init", "touch", "update", "send"},
           NEW miss \in {"idle", "submit", "welcome", "reply"},
           Find(t, hit, miss), sessions' = sessions,
           {hit, miss} \cap {"init", "welcome", "update", "reply", "send"} # {}
               => thread[t].at \in {"validate", "handle", "reply"}
    PROVE  Safe(t)'
<1>1. /\ thread'[t].at \in {hit, miss}
      /\ thread'[t].at # "idle" => thread'[t].fd = thread[t].fd
      /\ \/ thread'[t].at = miss
         \/ \E i \in DOMAIN sessions : thread'[t].ptr = sessions[i].id
  BY FindMoves DEF TypeInv, ThreadOK, QueuesOK, IOPlaces, WorkerPlaces
<1>2. thread'[t].at = hit => Valid(t)'
  <2>1. ASSUME NEW i \in DOMAIN sessions, thread'[t].ptr = sessions[i].id
        PROVE  Valid(t)'
    BY <2>1 DEF Valid, ToSet
  <2>. QED
    BY <1>1, <2>1
<1>. QED
  BY <1>1, <1>2, PeaceKeepsSockets DEF Safe, Closing, Peaceful

\* One that stays where it is.
LEMMA StaySafe ==
    ASSUME TypeInv, Peaceful, [Next]_vars, NEW t \in Threads,
           thread'[t] = thread[t]
    PROVE  Safe(t)'
<1>1. Valid(t) => Valid(t)'
  BY PeaceKeepsSessions
<1>. QED
  BY <1>1, PeaceKeepsSockets DEF Safe, Closing, Peaceful

\* The event loop reads from open descriptors only, and finds nobody gone.
LEMMA PeacefulLoop ==
    ASSUME TypeInv, Peaceful, ~Left, [Next]_vars, IOSteps
    PROVE  Safe("io")'
<1>a. /\ "io" \in Threads /\ thread \in [Threads -> Locals]
      /\ Safe("io") /\ sock \in [FDs -> Clients \cup {NoClient}]
      /\ batch \in Seq(Notifications) /\ backlog \subseteq Clients
  BY DEF Threads, TypeInv, ThreadOK, NetOK, QueuesOK, Peaceful
<1>1. CASE Wait \/ Hangup
  BY <1>a, <1>1, StaySafe DEF Wait, Hangup
<1>2. CASE Accept
  <2>1. PICK c \in backlog, f \in FDs :
            /\ sock' = [sock EXCEPT ![f] = c]
            /\ thread'["io"].fd = f
            /\ thread'["io"].at = "new"
    BY <1>2, AcceptOpens
  <2>. QED
    BY <1>a, <2>1 DEF Safe, Closing
<1>3. CASE NewSession \/ ValidateInit \/ Welcome \/ Submit \/ RefreshTouch
  BY <1>a, <1>3, GoSafe
     DEF NewSession, ValidateInit, Welcome, Submit, RefreshTouch, Undefined
<1>4. CASE ValidateFind \/ RefreshFind
  BY <1>a, <1>4, FindSafe DEF ValidateFind, RefreshFind
<1>5. ASSUME NEW f \in FDs, Receive(f) PROVE Safe("io")'
  <2>1. thread'["io"] = [Resting EXCEPT !.at = "refresh", !.fd = f]
    BY <1>a, <1>5 DEF Receive, Begin
  <2>2. thread'["io"].at = "refresh"
    BY <2>1 DEF Resting
  <2>. QED
    BY <2>2 DEF Safe, Closing
<1>6. ASSUME NEW f \in FDs, ReceiveFails(f) PROVE FALSE
  <2>1. batch[1].fd = f /\ f # Listen /\ 1 \in DOMAIN batch
    BY <1>a, <1>6 DEF ReceiveFails, Input, Handling
  <2>2. sock[f] # NoClient
    BY <2>1 DEF Peaceful
  <2>. QED
    BY <1>a, <1>6, <2>2 DEF ReceiveFails, Left, Gone
<1>7. ASSUME Expiring("io") PROVE FALSE
  BY <1>a, <1>7 DEF Expiring, ExpireFind, ExpireDelete, Farewell, Safe, Closing
<1>. QED
  BY <1>1, <1>2, <1>3, <1>4, <1>5, <1>6, <1>7 DEF IOSteps

LEMMA PeacefulWorker ==
    ASSUME TypeInv, Peaceful, ~Left, [Next]_vars, WorkerSteps
    PROVE  Safe("worker")'
<1>a. /\ "worker" \in Threads /\ thread \in [Threads -> Locals]
      /\ Safe("worker") /\ sock \in [FDs -> Clients \cup {NoClient}]
      /\ msgQ \in Seq(Messages)
  BY DEF Threads, TypeInv, ThreadOK, NetOK, QueuesOK, Peaceful
<1>1. CASE StartJob
  <2>1. CASE msgQ = << >>
    BY <1>a, <1>1, <2>1, StaySafe DEF StartJob
  <2>2. CASE msgQ # << >>
    <3>1. PICK place \in {"handle", "reply"} :
              thread' = [thread EXCEPT !["worker"] =
                            [at |-> place, fd |-> Head(msgQ).fd,
                             ptr |-> NoClient, msg |-> Head(msgQ)]]
      BY <1>1, <2>2 DEF StartJob
    <3>2. thread'["worker"].at = place /\ thread'["worker"].fd = Head(msgQ).fd
      BY <1>a, <3>1
    <3>3. Head(msgQ) = msgQ[1] /\ 1 \in DOMAIN msgQ
      BY <1>a, <2>2
    <3>4. sock' = sock
      BY <1>1 DEF StartJob
    <3>. QED
      BY <3>2, <3>3, <3>4 DEF Peaceful, Safe, Closing
  <2>. QED
    BY <2>1, <2>2
<1>2. CASE HandlerFind \/ ReplyFind
  BY <1>a, <1>2, FindSafe DEF HandlerFind, ReplyFind
<1>3. CASE HandlerUpdate \/ ReplySend \/ ReplyDropped
  BY <1>a, <1>3, GoSafe
     DEF HandlerUpdate, ReplySend, ReplyDropped, Undefined
<1>4. ASSUME ReplyFails PROVE FALSE
  BY <1>a, <1>4 DEF ReplyFails, Safe, Left, Gone
<1>5. ASSUME Expiring("worker") PROVE FALSE
  BY <1>a, <1>5 DEF Expiring, ExpireFind, ExpireDelete, Farewell, Safe, Closing
<1>. QED
  BY <1>1, <1>2, <1>3, <1>4, <1>5 DEF WorkerSteps

LEMMA NextPeace == TypeInv /\ Peace /\ [Next]_vars => Peace'
<1> SUFFICES ASSUME TypeInv, Peace, [Next]_vars PROVE Peace'
  OBVIOUS
<1>1. CASE Left
  BY <1>1, GoneStays DEF Left, Peace
<1>2. CASE ~Left
  <2>1. Peaceful
    BY <1>2 DEF Peace
  <2>2. Safe("io")' /\ Safe("worker")'
    <3>1. /\ thread \in [Threads -> Locals]
          /\ {"io", "worker"} \subseteq Threads
      BY DEF TypeInv, ThreadOK, Threads
    <3>2. CASE IOSteps
      BY <1>2, <2>1, <3>1, <3>2, OtherThreadStays, PeacefulLoop, StaySafe
    <3>3. CASE WorkerSteps
      BY <1>2, <2>1, <3>1, <3>3, OtherThreadStays, PeacefulWorker, StaySafe
    <3>4. CASE UNCHANGED thread
      BY <2>1, <3>1, <3>4, StaySafe
    <3>. QED
      BY <3>2, <3>3, <3>4 DEF Next, vars, Connect, Request, Leave
  <2>3. Peaceful'
    BY <1>2, <2>1, <2>2, PeaceKillsNone, PeacefulBatch, PeacefulMessages
       DEF Peaceful, Threads
  <2>. QED
    BY <2>3 DEF Peace
<1>. QED
  BY <1>1, <1>2

LEMMA InitPeace == Init => Peace
<1> SUFFICES ASSUME Init PROVE Peaceful
  BY DEF Peace
<1>1. \A t \in Threads : thread[t].at = "idle"
  BY DEF Init, Resting
<1>. QED
  BY <1>1 DEF Init, Peaceful, Safe, Closing

\* As long as no client has left, no session is used after its deletion, and the
\* process goes on.
THEOREM DiesOnlyAfterOneLeft == SafeSpec => []NobodyDiesUntilOneLeaves
<1>1. Peace => NobodyDiesUntilOneLeaves
  BY DEF Peace, Peaceful, Left, Gone, NobodyDiesUntilOneLeaves
<1>. QED
  BY <1>1, InitType, NextType, InitPeace, NextPeace, PTL DEF SafeSpec

-----------------------------------------------------------------------------
\* Where a thread in the catch clause came from.
LEMMA ClosingLoop ==
    ASSUME TypeInv, [Next]_vars, Closing("io")'
    PROVE  /\ ~Accept
           /\ \/ Closing("io") /\ thread'["io"].fd = thread["io"].fd
              \/ \E f \in FDs : ReceiveFails(f) /\ thread'["io"].fd = f
<1>a. /\ thread \in [Threads -> Locals] /\ sessions \in Seq(Entries)
      /\ {"io", "worker"} \subseteq Threads
  BY DEF TypeInv, ThreadOK, QueuesOK, Threads
<1>1. ~Accept
  BY AcceptOpens DEF Closing
<1>2. CASE thread'["io"] = thread["io"]
  BY <1>1, <1>2 DEF Closing
<1>3. ASSUME NEW place \in {"validate", "welcome", "submit", "idle"},
             Go("io", place)
      PROVE  FALSE
  BY <1>a, <1>3, GoMoves DEF Closing, IOPlaces
<1>4. CASE NewSession \/ ValidateInit \/ Welcome \/ Submit \/ RefreshTouch
           \/ Farewell("io")
  BY <1>3, <1>4
     DEF NewSession, ValidateInit, Welcome, Submit, RefreshTouch, Farewell,
         Undefined
<1>5. ASSUME ValidateFind \/ RefreshFind PROVE FALSE
  <2>1. CASE ValidateFind
    <3>1. thread'["io"].at \in {"init", "welcome"}
      BY <1>a, <2>1, FindMoves DEF ValidateFind, IOPlaces
    <3>. QED
      BY <3>1 DEF Closing
  <2>2. CASE RefreshFind
    <3>1. thread'["io"].at \in {"touch", "submit"}
      BY <1>a, <2>2, FindMoves DEF RefreshFind, IOPlaces
    <3>. QED
      BY <3>1 DEF Closing
  <2>. QED
    BY <1>5, <2>1, <2>2
<1>6. ASSUME NEW f \in FDs, Receive(f) PROVE FALSE
  <2>1. thread'["io"] = [Resting EXCEPT !.at = "refresh", !.fd = f]
    BY <1>a, <1>6 DEF Receive, Begin
  <2>. QED
    BY <2>1 DEF Closing, Resting
<1>7. ASSUME NEW f \in FDs, ReceiveFails(f) PROVE thread'["io"].fd = f
  <2>1. thread'["io"] = [Resting EXCEPT !.at = "expire", !.fd = f]
    BY <1>a, <1>7 DEF ReceiveFails, Begin
  <2>. QED
    BY <2>1 DEF Resting
<1>8. CASE ExpireFind("io")
  <2>1. thread'["io"].fd = thread["io"].fd
    BY <1>a, <1>8, FindMoves DEF ExpireFind, IOPlaces, Closing
  <2>. QED
    BY <1>1, <1>8, <2>1 DEF ExpireFind, Closing
<1>9. CASE ExpireDelete("io")
  <2>1. Go("io", "farewell") /\ Closing("io")
    BY <1>9 DEF ExpireDelete, Undefined, Closing
  <2>2. thread'["io"] = [thread["io"] EXCEPT !.at = "farewell"]
    BY <1>a, <2>1, GoMoves DEF IOPlaces
  <2>. QED
    BY <1>a, <1>1, <2>1, <2>2 DEF Locals
<1>10. CASE WorkerSteps
  BY <1>a, <1>2, <1>10, OtherThreadStays
<1>. QED
  BY <1>1, <1>2, <1>4, <1>5, <1>6, <1>7, <1>8, <1>9, <1>10
     DEF vars, Next, IOSteps, Expiring, Connect, Request, Leave, Wait, Hangup

LEMMA ClosingWorker ==
    ASSUME TypeInv, [Next]_vars, Closing("worker")'
    PROVE  /\ Closing("worker") \/ ReplyFails
           /\ thread'["worker"].fd = thread["worker"].fd
           /\ thread'["worker"].msg = thread["worker"].msg
<1>a. /\ thread \in [Threads -> Locals] /\ sessions \in Seq(Entries)
      /\ {"io", "worker"} \subseteq Threads
  BY DEF TypeInv, ThreadOK, QueuesOK, Threads
<1>1. CASE thread'["worker"] = thread["worker"]
  BY <1>1 DEF Closing
<1>2. ASSUME StartJob, thread' # thread PROVE FALSE
  BY <1>a, <1>2 DEF StartJob, Closing
<1>3. ASSUME HandlerFind \/ ReplyFind PROVE FALSE
  <2>1. CASE HandlerFind
    <3>1. thread'["worker"].at \in {"update", "reply"}
      BY <1>a, <2>1, FindMoves DEF HandlerFind, WorkerPlaces
    <3>. QED
      BY <3>1 DEF Closing
  <2>2. CASE ReplyFind
    <3>1. thread'["worker"].at \in {"send", "idle"}
      BY <1>a, <2>2, FindMoves DEF ReplyFind, WorkerPlaces
    <3>. QED
      BY <3>1 DEF Closing
  <2>. QED
    BY <1>3, <2>1, <2>2
<1>4. ASSUME HandlerUpdate \/ ReplySend \/ ReplyDropped \/ Farewell("worker")
      PROVE  FALSE
  <2>1. PICK place \in {"reply", "idle"} : Go("worker", place)
    BY <1>4 DEF HandlerUpdate, ReplySend, ReplyDropped, Farewell, Undefined
  <2>2. thread'["worker"].at = place
    BY <1>a, <2>1, GoMoves DEF WorkerPlaces
  <2>. QED
    BY <2>2 DEF Closing
<1>5. CASE ReplyFails \/ ExpireDelete("worker")
  <2>1. PICK place \in {"expire", "farewell"} : Go("worker", place)
    BY <1>5 DEF ReplyFails, ExpireDelete, Undefined
  <2>2. thread'["worker"] = [thread["worker"] EXCEPT !.at = place]
    BY <1>a, <2>1, GoMoves DEF WorkerPlaces
  <2>. QED
    BY <1>a, <1>5, <2>2 DEF Locals, ExpireDelete, Closing
<1>6. CASE ExpireFind("worker")
  BY <1>a, <1>6
     DEF ExpireFind, Find, Go, Locals, Closing, Resting
<1>. QED
  BY <1>a, <1>1, <1>2, <1>3, <1>4, <1>5, <1>6, OtherThreadStays
     DEF vars, Next, WorkerSteps, Expiring, Connect, Request, Leave

LEMMA InitExpiry == Init => Expiry
BY DEF Init, Expiry, Closing, Resting, Threads

LEMMA NextExpiry == TypeInv /\ Replies /\ Expiry /\ [Next]_vars => Expiry'
<1> SUFFICES ASSUME TypeInv, Replies, Expiry, [Next]_vars PROVE Expiry'
  OBVIOUS
<1>a. /\ sock \in [FDs -> Clients \cup {NoClient}]
      /\ thread \in [Threads -> Locals] /\ {"io", "worker"} \subseteq Threads
      /\ thread["io"].at # "idle" => thread["io"].fd \in FDs
  BY DEF TypeInv, NetOK, ThreadOK, Threads
<1>1. ASSUME Closing("io")'
      PROVE  \E f \in FDs :
                 /\ thread'["io"].fd = f
                 /\ \A c \in Clients : sock'[f] = c => Gone(c)'
  <2>1. PICK f \in FDs : /\ thread'["io"].fd = f
                         /\ \A c \in Clients : sock[f] = c => Gone(c)
    <3>1. CASE Closing("io") /\ thread'["io"].fd = thread["io"].fd
      BY <3>1 DEF Expiry
    <3>2. CASE \E f \in FDs : ReceiveFails(f) /\ thread'["io"].fd = f
      BY <3>2 DEF ReceiveFails, Gone
    <3>. QED
      BY <1>1, <3>1, <3>2, ClosingLoop
  <2>2. sock'[f] = NoClient \/ sock'[f] = sock[f]
    BY <1>1, ClosingLoop, NextSocket
  <2>. QED
    BY <2>1, <2>2, GoneStays
<1>2. ASSUME Closing("worker")'
      PROVE  \E f \in FDs, m \in Messages :
                 /\ thread'["worker"].fd = f
                 /\ thread'["worker"].msg = m
                 /\ Genuine(m)'
                 /\ m.from # NoClient /\ sock'[f] = m.from => Gone(m.from)'
  <2>1. PICK f \in FDs, m \in Messages :
            /\ thread'["worker"].msg = m /\ thread'["worker"].fd = f
            /\ Genuine(m)
            /\ m.from # NoClient /\ sock[f] = m.from => Gone(m.from)
    <3>1. /\ thread'["worker"].msg = thread["worker"].msg
          /\ thread'["worker"].fd = thread["worker"].fd
          /\ Closing("worker") \/ ReplyFails
          /\ thread["worker"].msg \in Messages
      BY <1>a, <1>2, ClosingWorker DEF Locals
    <3>2. CASE Closing("worker")
      BY <3>1, <3>2 DEF Expiry
    <3>3. CASE ReplyFails
      <4>1. Answering
        BY <3>3 DEF ReplyFails, Answering
      <4>2. 0 \in Waiting
        BY <4>1 DEF Waiting, TypeInv, QueuesOK
      <4>3. Genuine(thread["worker"].msg)
        BY <4>2 DEF Replies, Pending
      <4>4. thread["worker"].fd \in FDs
        BY <4>1, <4>3 DEF Replies, Genuine
      <4>5. PICK f \in FDs, m \in Messages :
                thread["worker"].msg = m /\ thread["worker"].fd = f
        BY <3>1, <4>4
      <4>6. m.from # NoClient /\ sock[f] = m.from => Gone(m.from)
        BY <3>3, <4>5 DEF ReplyFails, Gone
      <4>7. Genuine(m)
        BY <4>3, <4>5
      <4>. QED
        BY <3>1, <4>5, <4>6, <4>7
    <3>. QED
      BY <3>1, <3>2, <3>3
  <2>2. Genuine(m)'
    BY <2>1, GenuineStays
  <2>3. ASSUME m.from # NoClient, sock'[f] = m.from PROVE Gone(m.from)'
    <3>1. Heard(m.from, m.req) /\ m.req \in Nat
      BY <2>1, <2>3 DEF Genuine, Messages
    <3>2. sock[f] = m.from
      BY <2>3, <3>1, HeardStays
    <3>. QED
      BY <2>1, <2>3, <3>1, <3>2, GoneStays DEF Heard
  <2>. QED
    BY <2>1, <2>2, <2>3
<1>. QED
  BY <1>1, <1>2 DEF Expiry

\* A closed descriptor was one of a hang-up, or of a farewell.
LEMMA ClosedBy ==
    ASSUME TypeInv, [Next]_vars, NEW f \in FDs,
           sock[f] # NoClient, sock'[f] = NoClient
    PROVE  \/ Hangup
           \/ \E t \in Threads : Farewell(t) /\ thread[t].fd = f
<1>1. sock \in [FDs -> Clients \cup {NoClient}] /\ backlog \subseteq Clients
  BY DEF TypeInv, NetOK
<1>2. ASSUME Accept PROVE FALSE
  BY <1>1, <1>2, AcceptOpens
<1>3. ASSUME NEW t \in Threads, Farewell(t) PROVE thread[t].fd = f
  BY <1>1, <1>3 DEF Farewell
<1>. QED
  BY <1>2, <1>3
     DEF vars, Next, IOSteps, WorkerSteps, Expiring, Connect, Request, Leave,
         Wait, NewSession, ValidateFind, ValidateInit, Welcome, Submit, Receive,
         ReceiveFails, RefreshFind, RefreshTouch, StartJob, HandlerFind,
         HandlerUpdate, ReplyFind, ReplySend, ReplyFails, ReplyDropped,
         ExpireFind, ExpireDelete, Threads

\* A connection whose client is still there is closed only in place of another
\* one's, which is gone, and never by the catch clause of the event loop.
THEOREM LivePeersCloseForOthers == SafeSpec => LivePeerClosedForAnother
<1>1. ASSUME TypeInv, Peace, Expiry, [Next]_vars, NEW f \in FDs,
             sock[f] # NoClient, sock'[f] = NoClient, peer[sock[f]] = "open"
      PROVE  /\ \E c \in Clients \ {sock[f]} : peer[c] \in {"fin", "rst"}
             /\ \/ /\ thread["worker"].at = "farewell"
                   /\ thread["worker"].fd = f
                   /\ thread["worker"].msg.from # sock[f]
                \/ Hangup
  <2>a. /\ batch \in Seq(Notifications)
        /\ sock[f] \in Clients
    BY <1>1 DEF TypeInv, QueuesOK, NetOK
  <2>b. \A t \in Threads : t = "io" \/ t = "worker"
    BY DEF Threads
  <2>1. Hangup \/ \E t \in Threads : Farewell(t) /\ thread[t].fd = f
    BY <1>1, ClosedBy
  <2>2. ~Peaceful
    <3>1. ASSUME Hangup PROVE ~Peaceful
      <4>1. Head(batch) = batch[1] /\ 1 \in DOMAIN batch
        BY <2>a, <3>1 DEF Hangup, Handling
      <4>. QED
        BY <3>1, <4>1 DEF Hangup, Handling, Peaceful
    <3>. QED
      BY <2>1, <3>1 DEF Farewell, Peaceful, Safe, Closing
  <2>3. \E c \in Clients \ {sock[f]} : peer[c] \in {"fin", "rst"}
    BY <1>1, <2>2 DEF Peace, Left, Gone
  <2>4. ASSUME NEW t \in Threads, Farewell(t), thread[t].fd = f
        PROVE  /\ thread["worker"].at = "farewell"
               /\ thread["worker"].fd = f
               /\ thread["worker"].msg.from # sock[f]
    <3>1. t # "io"
      BY <1>1, <2>a, <2>4 DEF Farewell, Expiry, Closing, Gone
    <3>. QED
      BY <1>1, <2>a, <2>b, <2>4, <3>1 DEF Farewell, Expiry, Closing, Gone
  <2>. QED
    BY <2>1, <2>3, <2>4
<1>2. TypeInv /\ Peace /\ Expiry /\ [Next]_vars
        => [\A f \in FDs :
               sock[f] # NoClient /\ sock'[f] = NoClient
                 /\ peer[sock[f]] = "open"
               => /\ \E c \in Clients \ {sock[f]} : peer[c] \in {"fin", "rst"}
                  /\ \/ /\ thread["worker"].at = "farewell"
                        /\ thread["worker"].fd = f
                        /\ thread["worker"].msg.from # sock[f]
                     \/ Hangup]_vars
  BY <1>1
<1>. QED
  BY <1>2, InitType, NextType, InitReplies, NextReplies, InitPeace, NextPeace,
     InitExpiry, NextExpiry, PTL
  DEF SafeSpec, LivePeerClosedForAnother
=============================================================================
