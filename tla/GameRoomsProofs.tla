--------------------------- MODULE GameRoomsProofs --------------------------
(***************************************************************************)
(* Proofs about GameRooms.tla, for any clients, rooms and number of        *)
(* packets: the invariants of its passing run.  They rest on one, SInv:    *)
(* whoever is spoken of has connected (Known); the lists hold what exists, *)
(* once (Listed); what sessions a client has at each place of its join     *)
(* (Replacing, Single); that a thread about to delete a session, and a     *)
(* room, never have one that a join is still making (Older); and the two   *)
(* that hold off a session's loss (Placed, Served).                        *)
(***************************************************************************)
EXTENDS GameRooms, FiniteSetTheorems, SequenceTheorems, WellFoundedInduction,
        TLAPS

USE NoneAssumption, SendsAssumption

NoneTwice(list) == \A i, j \in DOMAIN list : list[i] = list[j] => i = j

-----------------------------------------------------------------------------
(* Lemmas on lists *)

LEMMA LeastOne ==
    ASSUME NEW S \in SUBSET Nat, S # {}
    PROVE  \E i \in S : \A j \in S : i <= j
<1> DEFINE R == OpToRel(<, Nat)
<1>1. IsWellFoundedOn(R, Nat)
  BY NatLessThanWellFounded
<1>2. PICK i \in S : \A j \in S : ~(<<j, i>> \in R)
  <2> HIDE DEF R
  <2>. QED  BY <1>1, WFMin
<1>3. ASSUME NEW j \in S PROVE i <= j
  <2>1. i \in Nat /\ j \in Nat
    OBVIOUS
  <2>2. ~(j < i)
    BY <1>2, <2>1 DEF OpToRel
  <2>. QED  BY <2>1, <2>2
<1>. QED  BY <1>3

\* What getSessionById finds.
LEMMA WhereIs ==
    ASSUME NEW list \in Seq(Objects), NEW c
    PROVE  /\ Where(list, c) \in 0..Len(list)
           /\ Where(list, c) # 0 => list[Where(list, c)][1] = c
           /\ Where(list, c) = 0 => \A s \in ToSet(list) : s[1] # c
<1> DEFINE I == {i \in 1..Len(list) : list[i][1] = c}
<1>1. CASE I = {}
  BY <1>1 DEF Where, ToSet
<1>2. CASE I # {}
  <2>1. PICK i \in I : \A j \in I : i <= j
    <3>1. I \in SUBSET Nat
      OBVIOUS
    <3> HIDE DEF I
    <3>. QED  BY <1>2, <3>1, LeastOne
  <2>2. \A j \in 1..(i - 1) : list[j][1] # c
    BY <2>1
  <2>3. /\ i \in DOMAIN list /\ list[i][1] = c
        /\ DOMAIN list = 1..Len(list)
    BY <2>1
  <2>4. Where(list, c) = CHOOSE k \in DOMAIN list :
                            list[k][1] = c
                            /\ \A j \in 1..(k - 1) : list[j][1] # c
    BY <2>3 DEF Where
  <2>5. Where(list, c) \in DOMAIN list /\ list[Where(list, c)][1] = c
    BY <2>2, <2>3, <2>4
  <2>. QED  BY <2>3, <2>5
<1>. QED  BY <1>1, <1>2

\* Removing a pointer from a list that has it once.
LEMMA WithoutIs ==
    ASSUME NEW list \in Seq(Objects), NoneTwice(list), NEW s
    PROVE  /\ Without(list, s) \in Seq(Objects)
           /\ ToSet(Without(list, s)) = ToSet(list) \ {s}
           /\ NoneTwice(Without(list, s))
<1>1. CASE \A i \in 1..Len(list) : list[i] # s
  <2>1. Without(list, s) = list
    BY <1>1 DEF Without, RemoveFirst
  <2>2. s \notin ToSet(list)
    BY <1>1 DEF ToSet
  <2>. QED  BY <2>1, <2>2
<1>2. ASSUME NEW k \in 1..Len(list), list[k] = s
      PROVE  /\ Without(list, s) \in Seq(Objects)
             /\ ToSet(Without(list, s)) = ToSet(list) \ {s}
             /\ NoneTwice(Without(list, s))
  <2> DEFINE w == [i \in 1..(Len(list) - 1) |->
                      IF i < k THEN list[i] ELSE list[i + 1]]
  <2>1. {i \in 1..Len(list) : list[i] = s} = {k}
    BY <1>2 DEF NoneTwice
  <2>2. SelectInSeq(list, LAMBDA v : v = s) = k
    BY <2>1 DEF SelectInSeq, Min
  <2>3. Without(list, s) =
            SubSeq(list, 1, k - 1) \o SubSeq(list, k + 1, Len(list))
    BY <1>2, <2>2 DEF Without, RemoveFirst, RemoveAt
  <2>4. Without(list, s) = w
    <3> DEFINE a == SubSeq(list, 1, k - 1)
               b == SubSeq(list, k + 1, Len(list))
    <3>1. /\ a \in Seq(Objects) /\ Len(a) = k - 1
          /\ b \in Seq(Objects) /\ Len(b) = Len(list) - k
          /\ \A i \in 1..(k - 1) : a[i] = list[i]
          /\ \A i \in 1..(Len(list) - k) : b[i] = list[i + k]
      OBVIOUS
    <3>2. Without(list, s) = a \o b
      BY <2>3
    <3> HIDE DEF a, b
    <3>3. a \o b \in Seq(Objects) /\ Len(a \o b) = Len(list) - 1
      BY <3>1
    <3>4. ASSUME NEW i \in 1..(Len(list) - 1) PROVE (a \o b)[i] = w[i]
      <4>1. CASE i < k
        BY <3>1, <4>1
      <4>2. CASE i >= k
        <5>1. (a \o b)[i] = b[i - (k - 1)]
          BY <3>1, <4>2
        <5>2. i - (k - 1) \in 1..(Len(list) - k)
          BY <4>2
        <5>. QED  BY <3>1, <4>2, <5>1, <5>2
      <4>3. i < k \/ i >= k
        OBVIOUS
      <4>. QED  BY <4>1, <4>2, <4>3
    <3>5. w \in Seq(Objects) /\ Len(w) = Len(list) - 1
      OBVIOUS
    <3>6. a \o b = w
      <4> HIDE DEF w
      <4>. QED  BY <3>3, <3>4, <3>5, SeqEqual
    <3>. QED  BY <3>2, <3>6
  <2>5. w \in Seq(Objects) /\ DOMAIN w = 1..(Len(list) - 1)
    OBVIOUS
  <2>6. ToSet(w) = ToSet(list) \ {s}
    <3>1. ASSUME NEW i \in DOMAIN w PROVE w[i] \in ToSet(list) \ {s}
      BY <1>2 DEF ToSet, NoneTwice
    <3>2. ASSUME NEW i \in DOMAIN list, list[i] # s PROVE list[i] \in ToSet(w)
      <4>1. CASE i < k
        BY <1>2, <4>1 DEF ToSet
      <4>2. CASE i > k
        <5>1. i - 1 \in DOMAIN w /\ w[i - 1] = list[i]
          BY <4>2
        <5>. QED  BY <5>1 DEF ToSet
      <4>. QED  BY <1>2, <3>2, <4>1, <4>2
    <3>. QED  BY <3>1, <3>2 DEF ToSet
  <2>7. NoneTwice(w)
    BY <1>2 DEF NoneTwice
  <2>. QED  BY <2>4, <2>5, <2>6, <2>7
<1>. QED  BY <1>1, <1>2

LEMMA AppendIs ==
    ASSUME NEW list \in Seq(Objects), NoneTwice(list), NEW s \in Objects,
           s \notin ToSet(list)
    PROVE  /\ Append(list, s) \in Seq(Objects)
           /\ ToSet(Append(list, s)) = ToSet(list) \cup {s}
           /\ NoneTwice(Append(list, s))
<1>1. Append(list, s) \in Seq(Objects)
      /\ DOMAIN Append(list, s) = DOMAIN list \cup {Len(list) + 1}
  OBVIOUS
<1>2. \A i \in DOMAIN list : Append(list, s)[i] = list[i]
  OBVIOUS
<1>3. Append(list, s)[Len(list) + 1] = s
  OBVIOUS
<1>4. ToSet(Append(list, s)) = ToSet(list) \cup {s}
  BY <1>1, <1>2, <1>3 DEF ToSet
<1>. QED  BY <1>1, <1>2, <1>3, <1>4 DEF NoneTwice, ToSet

\* The place of a session that is in a list (SelectInSeq).
LEMMA PlaceOf ==
    ASSUME NEW list \in Seq(Objects), NEW s, Contains(list, s)
    PROVE  Min({i \in 1..Len(list) : list[i] = s}) \in 1..Len(list)
<1> DEFINE I == {i \in 1..Len(list) : list[i] = s}
<1>1. I \in SUBSET Nat /\ I # {}
  BY DEF Contains
<1>2. \E i \in I : \A j \in I : i <= j
  <2> HIDE DEF I
  <2>. QED  BY <1>1, LeastOne
<1>3. Min(I) \in I
  BY <1>2 DEF Min
<1>. QED  BY <1>3

-----------------------------------------------------------------------------
(* What the two threads hold *)

Locals ==
    [at : IOPlaces \cup WorkerPlaces, cli : Clients \cup {None},
     obj : Objects \cup {None}, room : Rooms \cup {None}, rest : Seq(Rooms)]

Places(t) == IF t = "io" THEN IOPlaces ELSE WorkerPlaces

\* Where a thread has a pointer to a session: of its client, but for a chat.
Holding ==
    {"touch", "move", "unlist", "free", "add", "accept", "start", "chat",
     "send", "delete"}

Joining == {"join", "move", "unlist", "free", "add", "accept"}

Sound(w) ==
    /\ w.at # "idle" => w.cli \in Clients
    /\ w.at \in Holding => w.obj \in Objects
    /\ w.at \in Holding \ {"chat"} => w.obj[1] = w.cli
    /\ w.at \in Joining \cup {"chat"} => w.room \in Rooms

ThreadsSound ==
    /\ thread \in [Threads -> Locals]
    /\ \A t \in Threads : thread[t].at \in Places(t) /\ Sound(thread[t])

\* The client's number is that of its connection, and a join has a room.
Proper(m) == m \in Messages /\ (m.kind = "join" => m.room \in Rooms)

RequestsProper ==
    /\ input \in [Clients -> Seq(Messages)]
    /\ msgQ \in Seq(Messages)
    /\ \A c \in Clients : \A i \in DOMAIN input[c] :
           input[c][i].cli = c /\ Proper(input[c][i])
    /\ \A i \in DOMAIN msgQ : Proper(msgQ[i])

ClientsOK ==
    /\ peer \in [Clients -> {"off", "open", "fin", "rst"}]
    /\ in \in [Clients -> Rooms \cup {None}]
    /\ sent \in 0..MaxSends

ListsOK ==
    /\ conn \in [Clients -> {"none", "open", "closed"}]
    /\ main \in Seq(Objects)
    /\ live \subseteq Objects
    /\ timed \subseteq Objects
    /\ roomList \in Seq(Rooms)
    /\ members \in [Rooms -> Seq(Objects)]

TInv ==
    /\ ThreadsSound /\ RequestsProper /\ ClientsOK /\ ListsOK
    /\ jobs \in Nat /\ killed \in BOOLEAN

LEMMA TInvTypes == TInv => TypeOK
BY DEF TInv, ThreadsSound, RequestsProper, ClientsOK, ListsOK, TypeOK, Locals,
       Places, Threads

LEMMA TInvInit == Init => TInv
<1> SUFFICES ASSUME Init PROVE TInv
    OBVIOUS
<1>1. Resting \in Locals /\ Sound(Resting) /\ Resting.at = "idle"
  BY DEF Resting, Locals, Sound, Holding, Joining, IOPlaces
<1>2. ThreadsSound
  BY <1>1 DEF ThreadsSound, Init, Places, IOPlaces, WorkerPlaces
<1>3. RequestsProper /\ ClientsOK /\ ListsOK
  BY DEF Init, RequestsProper, ClientsOK, ListsOK
<1>. QED  BY <1>2, <1>3 DEF Init, TInv

\* The thread moves, with these locals.
Becomes(t, w) ==
    /\ thread' = [thread EXCEPT ![t] = w]
    /\ w \in Locals
    /\ w.at \in Places(t)
    /\ Sound(w)

LEMMA BecomesSound ==
    ASSUME ThreadsSound, NEW t \in Threads, NEW w, Becomes(t, w)
    PROVE  /\ ThreadsSound'
           /\ thread'[t] = w
           /\ \A u \in Threads : u # t => thread'[u] = thread[u]
BY DEF ThreadsSound, Becomes

\* With the place changed only.
Moved(t, place) ==
    IF place = "idle" THEN Resting ELSE [thread[t] EXCEPT !.at = place]

LEMMA GoBecomes ==
    ASSUME ThreadsSound, NEW t \in Threads, NEW place \in Places(t),
           Go(t, place),
           place # "idle" => thread[t].at # "idle",
           place \in Holding =>
               /\ thread[t].at \in Holding
               /\ thread[t].at = "chat" => place = "chat",
           place \in Joining \cup {"chat"} =>
               thread[t].at \in Joining \cup {"chat"}
    PROVE  Becomes(t, Moved(t, place))
<1>1. thread[t] \in Locals /\ thread[t].at \in Places(t) /\ Sound(thread[t])
  BY DEF ThreadsSound
<1>2. CASE place = "idle"
  BY <1>2 DEF Go, Moved, Becomes, Resting, Locals, Sound, Holding, Joining,
              IOPlaces
<1>3. CASE place # "idle"
  <2>1. Moved(t, place) \in Locals /\ Moved(t, place).at = place
        /\ Moved(t, place).cli = thread[t].cli
        /\ Moved(t, place).obj = thread[t].obj
        /\ Moved(t, place).room = thread[t].room
    BY <1>1, <1>3 DEF Moved, Locals, Places
  <2>2. thread' = [thread EXCEPT ![t] = Moved(t, place)]
    BY <1>3 DEF Go, Moved
  <2>. QED  BY <1>1, <1>3, <2>1, <2>2 DEF Becomes, Sound
<1>. QED  BY <1>2, <1>3

\* With the session found.
Found(t, hit, s) == [thread[t] EXCEPT !.at = hit, !.obj = s]

LEMMA FindBecomes ==
    ASSUME ThreadsSound, ListsOK, NEW t \in Threads,
           NEW hit \in Places(t) \cap (Holding \ {"chat"}),
           NEW miss \in Places(t) \ (Holding \cup Joining),
           Find(t, hit, miss), thread[t].at # "idle",
           hit \in Joining => thread[t].at \in Joining
    PROVE  /\ killed' \in BOOLEAN
           /\ \/ /\ \A s \in ToSet(main) : s[1] # thread[t].cli
                 /\ Becomes(t, Moved(t, miss))
              \/ \E s \in ToSet(main) :
                     s[1] = thread[t].cli /\ Becomes(t, Found(t, hit, s))
<1> DEFINE n == Where(main, thread[t].cli)
<1>1. /\ n \in 0..Len(main)
      /\ n # 0 => main[n][1] = thread[t].cli
      /\ n = 0 => \A s \in ToSet(main) : s[1] # thread[t].cli
  BY WhereIs DEF ListsOK
<1>2. thread[t] \in Locals /\ Sound(thread[t])
  BY DEF ThreadsSound
<1>3. killed' \in BOOLEAN
  BY DEF Find, UsesLookup, Uses
<1>4. CASE n = 0
  <2>1. Go(t, miss)
    BY <1>4 DEF Find
  <2>2. miss # "chat"
    BY DEF Holding
  <2>3. Becomes(t, Moved(t, miss))
    BY <2>1, <2>2, GoBecomes
  <2>. QED  BY <1>1, <1>3, <1>4, <2>3
<1>5. CASE n # 0
  <2>1. main[n] \in Objects /\ main[n] \in ToSet(main)
    BY <1>1, <1>5 DEF ListsOK, ToSet
  <2>2. thread' = [thread EXCEPT ![t] = Found(t, hit, main[n])]
    BY <1>5 DEF Find, Found
  <2>3. /\ Found(t, hit, main[n]) \in Locals
        /\ Found(t, hit, main[n]).at = hit
        /\ Found(t, hit, main[n]).obj = main[n]
        /\ Found(t, hit, main[n]).cli = thread[t].cli
        /\ Found(t, hit, main[n]).room = thread[t].room
    BY <1>2, <2>1 DEF Found, Locals, Places
  <2>4. Becomes(t, Found(t, hit, main[n]))
    BY <1>1, <1>2, <1>5, <2>1, <2>2, <2>3 DEF Becomes, Sound
  <2>. QED  BY <1>1, <1>3, <1>5, <2>1, <2>4
<1>. QED  BY <1>4, <1>5

\* With a client to take leave of.
Failed(c) ==
    [Resting EXCEPT !.at = "leave", !.cli = c, !.rest = roomList]

LEMMA FailsBecomes ==
    ASSUME ListsOK, NEW t \in Threads, NEW c \in Clients, Fails(t, c)
    PROVE  Becomes(t, Failed(c))
<1>1. /\ Failed(c) \in Locals
      /\ Failed(c).at = "leave"
      /\ Failed(c).cli = c
  BY DEF Failed, Locals, Resting, ListsOK, IOPlaces
<1>. QED
  BY <1>1 DEF Becomes, Fails, Failed, Sound, Holding, Joining, Places, IOPlaces,
              WorkerPlaces

-----------------------------------------------------------------------------
(* The types, step by step; and how the thread that takes the step moves *)

LEMMA ProperMessage ==
    ASSUME NEW k \in {"join", "quit", "chat", "bye"}, NEW c \in Clients,
           NEW r \in Rooms \cup {None}, k = "join" => r \in Rooms
    PROVE  Proper(Message(k, c, r)) /\ Message(k, c, r).cli = c
BY DEF Proper, Message, Messages

LEMMA SendTyped ==
    ASSUME TInv, NEW c \in Clients, NEW m, Proper(m), m.cli = c, Send(c, m),
           in' \in [Clients -> Rooms \cup {None}]
    PROVE  TInv'
<1>1. /\ sent' = sent + 1 /\ sent < MaxSends
      /\ input' = [input EXCEPT ![c] = Append(@, m)]
      /\ UNCHANGED <<peer, conn, lists, queues, thread, killed>>
  BY DEF Send
<1>2. ClientsOK'
  BY <1>1 DEF TInv, ClientsOK
<1>3. RequestsProper'
  <2>1. /\ input[c] \in Seq(Messages) /\ m \in Messages
        /\ input' \in [Clients -> Seq(Messages)]
    BY <1>1 DEF TInv, RequestsProper, Proper
  <2>2. ASSUME NEW d \in Clients, NEW i \in DOMAIN input'[d]
        PROVE  input'[d][i].cli = d /\ Proper(input'[d][i])
    <3>1. CASE d # c
      BY <1>1, <2>2, <3>1 DEF TInv, RequestsProper
    <3>2. CASE d = c
      <4>1. input'[d] = Append(input[c], m)
        BY <1>1, <3>2 DEF TInv, RequestsProper
      <4>2. CASE i = Len(input[c]) + 1
        BY <2>1, <3>2, <4>1, <4>2
      <4>3. CASE i # Len(input[c]) + 1
        <5>1. i \in DOMAIN input[c] /\ input'[d][i] = input[c][i]
          BY <2>1, <2>2, <4>1, <4>3
        <5>. QED  BY <3>2, <5>1 DEF TInv, RequestsProper
      <4>. QED  BY <4>2, <4>3
    <3>. QED  BY <3>1, <3>2
  <2>3. UNCHANGED msgQ
    BY <1>1 DEF queues
  <2>. QED  BY <2>1, <2>2, <2>3 DEF TInv, RequestsProper
<1>4. UNCHANGED <<ThreadsSound, ListsOK, jobs, killed>>
  BY <1>1 DEF lists, queues, ThreadsSound, ListsOK, Locals
<1>. QED  BY <1>2, <1>3, <1>4 DEF TInv

LEMMA ClientTyped ==
    ASSUME TInv, ClientSteps
    PROVE  TInv' /\ UNCHANGED <<conn, lists, queues, thread>>
<1>1. ASSUME NEW c \in Clients, Leave(c) PROVE TInv'
  <2>1. /\ peer' \in [Clients -> {"off", "open", "fin", "rst"}]
        /\ UNCHANGED <<in, sent, input, conn, lists, queues, thread, killed>>
    BY <1>1 DEF TInv, ClientsOK, Leave
  <2>. QED  BY <2>1 DEF TInv, ClientsOK, RequestsProper, ThreadsSound, ListsOK,
                        lists, queues
<1>2. ASSUME NEW c \in Clients, SendQuit(c) \/ SendOther(c) PROVE TInv'
  <2>1. in \in [Clients -> Rooms \cup {None}]
    BY DEF TInv, ClientsOK
  <2>2. CASE SendQuit(c)
    <3>1. in[c] \in Rooms \cup {None} /\ in' \in [Clients -> Rooms \cup {None}]
      BY <2>1, <2>2 DEF SendQuit
    <3>. QED  BY <2>2, <3>1, ProperMessage, SendTyped DEF SendQuit
  <2>3. CASE SendOther(c)
    BY <2>1, <2>3, ProperMessage, SendTyped DEF SendOther
  <2>. QED  BY <1>2, <2>2, <2>3
<1>3. ASSUME NEW c \in Clients, NEW r \in Rooms, SendJoin(c, r) PROVE TInv'
  <2>1. in' \in [Clients -> Rooms \cup {None}]
    BY <1>3 DEF TInv, ClientsOK, SendJoin
  <2>. QED  BY <1>3, <2>1, ProperMessage, SendTyped DEF SendJoin
<1>4. UNCHANGED <<conn, lists, queues, thread>>
  BY DEF ClientSteps, Leave, SendQuit, SendOther, SendJoin, Send
<1>. QED  BY <1>1, <1>2, <1>3, <1>4 DEF ClientSteps

\* A step that changes the thread and the lists only.
LEMMA ThreadTyped ==
    ASSUME TInv, NEW t \in Threads, NEW w, Becomes(t, w),
           UNCHANGED <<in, sent, input, msgQ>>, ListsOK',
           peer' \in [Clients -> {"off", "open", "fin", "rst"}],
           jobs' \in Nat, killed' \in BOOLEAN
    PROVE  TInv'
<1>1. ThreadsSound'
  BY BecomesSound DEF TInv
<1>. QED  BY <1>1 DEF TInv, ClientsOK, RequestsProper

LEMMA AcceptTyped ==
    ASSUME TInv, NEW c \in Clients, Accept(c)
    PROVE  TInv'
<1>1. First(c) \in Objects
  BY DEF First, Objects
<1>2. ListsOK'
  BY <1>1 DEF TInv, ListsOK, Accept
<1>3. ClientsOK'
  BY DEF TInv, ClientsOK, Accept
<1>. QED  BY <1>2, <1>3 DEF TInv, ThreadsSound, RequestsProper, Accept, queues

LEMMA ReceiveTyped ==
    ASSUME TInv, NEW c \in Clients, Receive(c)
    PROVE  /\ TInv'
           /\ \E w : Becomes("io", w) /\ w.at = "refresh" /\ w.cli = c
           /\ \E m : m.cli = c /\ msgQ' = Append(msgQ, m)
<1> DEFINE m == Head(input[c])
           w == [thread["io"] EXCEPT !.at = "refresh", !.cli = c]
<1>1. /\ input[c] \in Seq(Messages) /\ input[c] # << >>
      /\ input' = [input EXCEPT ![c] = Tail(@)]
      /\ msgQ \in Seq(Messages) /\ msgQ' = Append(msgQ, m)
      /\ thread' = [thread EXCEPT !["io"] = w]
      /\ UNCHANGED <<peer, in, sent, conn, lists, jobs, killed>>
  <2>1. /\ input \in [Clients -> Seq(Messages)] /\ msgQ \in Seq(Messages)
    BY DEF TInv, RequestsProper
  <2>. QED  BY <2>1 DEF Receive
<1>2. 1 \in DOMAIN input[c] /\ m = input[c][1]
  BY <1>1
<1>3. m.cli = c /\ Proper(m)
  BY <1>2 DEF TInv, RequestsProper
<1>4. Becomes("io", w)
  <2>1. thread["io"] \in Locals
    BY DEF TInv, ThreadsSound, Threads
  <2>2. w \in Locals /\ w.at = "refresh" /\ w.cli = c
    BY <2>1 DEF Locals, IOPlaces
  <2>. QED
    BY <1>1, <2>2 DEF Becomes, Sound, Holding, Joining, Places, IOPlaces
<1>5. ThreadsSound'
  BY <1>4, BecomesSound DEF TInv, Threads
<1>6. RequestsProper'
  <2>1. input' \in [Clients -> Seq(Messages)] /\ msgQ' \in Seq(Messages)
    BY <1>1, <1>3 DEF TInv, RequestsProper, Proper
  <2>2. ASSUME NEW i \in DOMAIN msgQ' PROVE Proper(msgQ'[i])
    <3>1. CASE i = Len(msgQ) + 1
      BY <1>1, <1>3, <3>1
    <3>2. CASE i # Len(msgQ) + 1
      <4>1. i \in DOMAIN msgQ /\ msgQ'[i] = msgQ[i]
        BY <1>1, <1>3, <2>2, <3>2
      <4>. QED  BY <4>1 DEF TInv, RequestsProper
    <3>. QED  BY <3>1, <3>2
  <2>3. ASSUME NEW d \in Clients, NEW i \in DOMAIN input'[d]
        PROVE  input'[d][i].cli = d /\ Proper(input'[d][i])
    <3>1. CASE d # c
      BY <1>1, <2>3, <3>1 DEF TInv, RequestsProper
    <3>2. CASE d = c
      <4>1. input'[d] = Tail(input[c])
        BY <1>1, <3>2 DEF TInv, RequestsProper
      <4>2. i \in 1..(Len(input[c]) - 1)
        <5>1. Len(Tail(input[c])) = Len(input[c]) - 1
              /\ Tail(input[c]) \in Seq(Messages)
          BY <1>1
        <5>. QED  BY <2>3, <4>1, <5>1
      <4>3. i + 1 \in DOMAIN input[c] /\ input'[d][i] = input[c][i + 1]
        <5>1. i + 1 \in DOMAIN input[c]
          BY <1>1, <4>2
        <5>2. Tail(input[c])[i] = input[c][i + 1]
          BY <1>1, <4>2, HeadTailProperties
        <5>. QED  BY <4>1, <5>1, <5>2
      <4>. QED  BY <3>2, <4>3 DEF TInv, RequestsProper
    <3>. QED  BY <3>1, <3>2
  <2>. QED  BY <2>1, <2>2, <2>3 DEF RequestsProper
<1>7. UNCHANGED <<ClientsOK, ListsOK, jobs, killed>>
  BY <1>1 DEF lists, ClientsOK, ListsOK
<1>8. w.at = "refresh" /\ w.cli = c
  BY <1>4 DEF Becomes, Locals, TInv, ThreadsSound, Threads
<1>. QED  BY <1>1, <1>3, <1>4, <1>5, <1>6, <1>7, <1>8 DEF TInv

LEMMA IOTyped ==
    ASSUME TInv, RefreshFind \/ RefreshTouch \/ Submit
    PROVE  /\ TInv' /\ UNCHANGED <<conn, lists, msgQ>>
           /\ thread["io"].at \in {"refresh", "touch", "submit"}
           /\ \E w : /\ Becomes("io", w) /\ w.at \in {"touch", "submit", "idle"}
                     /\ w.at # "idle" => w.cli = thread["io"].cli
<1>1. /\ "io" \in Threads /\ ThreadsSound /\ ListsOK
      /\ thread["io"] \in Locals
  BY DEF TInv, ThreadsSound, Threads
<1>2. UNCHANGED <<clients, conn, lists, msgQ>> /\ killed' \in BOOLEAN
      /\ jobs' \in Nat
  <2>1. ASSUME NEW objects, Uses(objects) PROVE killed' \in BOOLEAN
    BY <2>1 DEF Uses
  <2>2. CASE RefreshFind
    BY <2>1, <2>2 DEF RefreshFind, Find, UsesLookup, queues, TInv
  <2>3. CASE RefreshTouch
    BY <2>1, <2>3 DEF RefreshTouch, queues, TInv
  <2>4. CASE Submit
    BY <2>4 DEF Submit, queues, TInv
  <2>. QED  BY <2>2, <2>3, <2>4
<1>3. thread["io"].at \in {"refresh", "touch", "submit"}
  BY DEF RefreshFind, RefreshTouch, Submit
<1>4. \E w : /\ Becomes("io", w) /\ w.at \in {"touch", "submit", "idle"}
             /\ w.at # "idle" => w.cli = thread["io"].cli
  <2>1. CASE RefreshFind
    <3>1. \/ Becomes("io", Moved("io", "submit"))
          \/ \E s : Becomes("io", Found("io", "touch", s))
      BY <1>1, <2>1, FindBecomes
         DEF RefreshFind, Places, IOPlaces, Holding, Joining
    <3>2. /\ Moved("io", "submit").at = "submit"
          /\ Moved("io", "submit").cli = thread["io"].cli
          /\ \A s : /\ Found("io", "touch", s).at = "touch"
                    /\ Found("io", "touch", s).cli = thread["io"].cli
      BY <1>1 DEF Moved, Found, Locals
    <3>. QED  BY <3>1, <3>2
  <2>2. CASE RefreshTouch
    <3>1. Becomes("io", Moved("io", "submit"))
      BY <1>1, <2>2, GoBecomes
         DEF RefreshTouch, Places, IOPlaces, Holding, Joining
    <3>. QED  BY <1>1, <3>1 DEF Moved, Locals
  <2>3. CASE Submit
    <3>1. Becomes("io", Moved("io", "idle"))
      BY <1>1, <2>3, GoBecomes DEF Submit, Places, IOPlaces, Holding, Joining
    <3>. QED  BY <3>1 DEF Moved, Resting
  <2>. QED  BY <2>1, <2>2, <2>3
<1>5. ListsOK'
  BY <1>1, <1>2 DEF ListsOK, lists
<1>. QED
  BY <1>1, <1>2, <1>3, <1>4, <1>5, ThreadTyped DEF clients, TInv, ClientsOK

LEMMA ReceiveFailsTyped ==
    ASSUME TInv, NEW c \in Clients, ReceiveFails(c)
    PROVE  TInv' /\ Becomes("io", Failed(c))
<1>1. Becomes("io", Failed(c))
  BY FailsBecomes DEF TInv, ReceiveFails, Threads
<1>. QED
  BY <1>1, ThreadTyped DEF TInv, ReceiveFails, clients, lists, queues, ListsOK,
                           ClientsOK, Threads

LEMMA HangupTyped ==
    ASSUME TInv, NEW c \in Clients, Hangup(c)
    PROVE  TInv'
<1>1. ListsOK'
  BY DEF Hangup, TInv, ListsOK, lists
<1>. QED  BY <1>1 DEF Hangup, TInv, ThreadsSound, RequestsProper, ClientsOK,
                      clients, queues

LEMMA StartJobTyped ==
    ASSUME TInv, StartJob
    PROVE  /\ TInv' /\ UNCHANGED <<conn, lists>>
           /\ msgQ # << >> /\ msgQ' = Tail(msgQ)
           /\ thread["worker"].at = "idle"
           /\ \E w : /\ Becomes("worker", w)
                     /\ w.at \in {"join", "reply", "seek", "leave"}
                     /\ w.cli = Head(msgQ).cli
<1> DEFINE m == Head(msgQ)
           place == CASE m.kind = "join" -> "join" [] m.kind = "quit" -> "reply"
                      [] m.kind = "chat" -> "seek" [] m.kind = "bye"  -> "leave"
           w == [Resting EXCEPT !.at = place, !.cli = m.cli, !.room = m.room,
                                !.rest = IF place \in {"seek", "leave"}
                                         THEN roomList ELSE << >>]
<1>1. /\ msgQ \in Seq(Messages) /\ msgQ # << >> /\ msgQ' = Tail(msgQ)
      /\ jobs \in Nat /\ jobs > 0 /\ jobs' = jobs - 1
      /\ thread["worker"].at = "idle"
      /\ thread' = [thread EXCEPT !["worker"] = w]
      /\ UNCHANGED <<clients, conn, lists, killed>>
  BY DEF StartJob, TInv, RequestsProper
<1>2. 1 \in DOMAIN msgQ /\ m = msgQ[1]
  BY <1>1
<1>3. Proper(m)
  BY <1>2 DEF TInv, RequestsProper
<1>4. Becomes("worker", w) /\ w.at \in {"join", "reply", "seek", "leave"}
      /\ w.cli = m.cli
  <2>1. /\ place \in {"join", "reply", "seek", "leave"}
        /\ place = "join" => m.kind = "join"
    BY <1>3 DEF Proper, Messages
  <2>2. m.cli \in Clients /\ m.room \in Rooms \cup {None}
    BY <1>3 DEF Proper, Messages
  <2> HIDE DEF m, place
  <2>3. /\ w.at = place /\ w.cli = m.cli /\ w.obj = None
        /\ w.room = m.room
    BY DEF Resting
  <2>4. w \in Locals
    <3>1. roomList \in Seq(Rooms) /\ << >> \in Seq(Rooms)
      BY DEF TInv, ListsOK
    <3>2. Resting \in Locals
      BY DEF Resting, Locals, IOPlaces
    <3>3. place \in WorkerPlaces
      BY <2>1 DEF WorkerPlaces
    <3>. QED  BY <2>2, <3>1, <3>2, <3>3 DEF Locals
  <2>5. Sound(w)
    BY <1>3, <2>1, <2>2, <2>3 DEF Sound, Holding, Joining, Proper
  <2>. QED
    BY <1>1, <2>1, <2>3, <2>4, <2>5 DEF Becomes, Places, WorkerPlaces
<1>5. ThreadsSound'
  BY <1>4, BecomesSound DEF TInv, Threads
<1>6. RequestsProper'
  <2>1. msgQ' \in Seq(Messages)
    BY <1>1
  <2>2. ASSUME NEW i \in DOMAIN msgQ' PROVE Proper(msgQ'[i])
    <3>1. i \in 1..(Len(msgQ) - 1) /\ msgQ'[i] = msgQ[i + 1]
      BY <1>1, <2>1, <2>2, HeadTailProperties
    <3>2. i + 1 \in DOMAIN msgQ
      BY <1>1, <3>1
    <3>. QED  BY <3>1, <3>2 DEF TInv, RequestsProper
  <2>. QED  BY <1>1, <2>1, <2>2 DEF TInv, RequestsProper, clients
<1>7. UNCHANGED <<ClientsOK, ListsOK>> /\ jobs' \in Nat
  BY <1>1 DEF clients, lists, ClientsOK, ListsOK
<1>. QED  BY <1>1, <1>4, <1>5, <1>6, <1>7 DEF TInv

-----------------------------------------------------------------------------
LEMMA SuccessorIs ==
    ASSUME NEW s \in Objects
    PROVE  /\ Successor(s) \in Objects
           /\ Successor(s)[1] = s[1]
           /\ Successor(s)[2] = s[2] + 1
           /\ s[2] \in Nat
           /\ Successor(s) # s
BY DEF Successor, Objects

LEMMA UsesIs ==
    ASSUME NEW objects, Uses(objects)
    PROVE  killed' \in BOOLEAN
BY DEF Uses

LEMMA JoinFindTyped ==
    ASSUME TInv, JoinFind
    PROVE  /\ TInv' /\ UNCHANGED <<conn, main, live, timed, members, msgQ>>
           /\ thread["worker"].at = "join"
           /\ \/ /\ \A s \in ToSet(main) : s[1] # thread["worker"].cli
                 /\ Becomes("worker", Moved("worker", "reply"))
              \/ \E s \in ToSet(main) :
                     /\ s[1] = thread["worker"].cli
                     /\ Becomes("worker", Found("worker", "move", s))
<1>1. /\ "worker" \in Threads /\ ThreadsSound /\ ListsOK
      /\ thread["worker"].at = "join" /\ Find("worker", "move", "reply")
      /\ UNCHANGED <<clients, conn, main, live, timed, members, queues>>
      /\ thread["worker"].room \in Rooms
  BY DEF JoinFind, TInv, Threads, ThreadsSound, Sound, Joining
<1>2. /\ killed' \in BOOLEAN
      /\ \/ /\ \A s \in ToSet(main) : s[1] # thread["worker"].cli
            /\ Becomes("worker", Moved("worker", "reply"))
         \/ \E s \in ToSet(main) :
                /\ s[1] = thread["worker"].cli
                /\ Becomes("worker", Found("worker", "move", s))
  BY <1>1, FindBecomes DEF Places, WorkerPlaces, Holding, Joining
<1>3. roomList' \in Seq(Rooms)
  <2>1. \/ roomList' = roomList
        \/ roomList' = <<thread["worker"].room>> \o roomList
    BY DEF JoinFind
  <2>2. <<thread["worker"].room>> \in Seq(Rooms) /\ roomList \in Seq(Rooms)
    BY <1>1 DEF ListsOK
  <2>. QED  BY <2>1, <2>2, ConcatProperties
<1>4. ListsOK'
  BY <1>1, <1>3 DEF ListsOK
<1>5. UNCHANGED <<in, sent, input, peer, msgQ, jobs>>
  BY <1>1 DEF clients, queues
<1>6. TInv'
  BY <1>1, <1>2, <1>4, <1>5, ThreadTyped DEF TInv, ClientsOK
<1>. QED  BY <1>1, <1>2, <1>5, <1>6

\* The steps of a join that follow.
Advances(from, to) ==
    /\ thread["worker"].at = from
    /\ Becomes("worker", Moved("worker", to))

LEMMA JoinMoveTyped ==
    ASSUME TInv, JoinMove
    PROVE  /\ TInv' /\ UNCHANGED <<conn, main, members, msgQ>>
           /\ Advances("move", "unlist")
           /\ live' = live \cup {Successor(thread["worker"].obj)}
<1>1. /\ "worker" \in Threads /\ ThreadsSound /\ ListsOK
      /\ thread["worker"].at = "move" /\ thread["worker"].obj \in Objects
  BY DEF JoinMove, TInv, Threads, ThreadsSound, Sound, Holding
<1>2. Becomes("worker", Moved("worker", "unlist"))
  BY <1>1, GoBecomes DEF JoinMove, Places, WorkerPlaces, Holding, Joining
<1>3. Successor(thread["worker"].obj) \in Objects
  BY <1>1, SuccessorIs
<1>4. ListsOK' /\ killed' \in BOOLEAN
  BY <1>1, <1>3 DEF ListsOK, JoinMove
<1>5. TInv'
  BY <1>1, <1>2, <1>4, ThreadTyped
     DEF TInv, ClientsOK, JoinMove, clients, queues
<1>. QED  BY <1>1, <1>2, <1>5 DEF JoinMove, Advances, queues

LEMMA JoinUnlistTyped ==
    ASSUME TInv, NoneTwice(main), JoinUnlist
    PROVE  /\ TInv' /\ UNCHANGED <<conn, live, members, msgQ>>
           /\ Advances("unlist", "free")
           /\ main' = Without(main, thread["worker"].obj)
<1>1. /\ "worker" \in Threads /\ ThreadsSound /\ ListsOK
      /\ thread["worker"].at = "unlist"
  BY DEF JoinUnlist, TInv, Threads
<1>2. Becomes("worker", Moved("worker", "free"))
  BY <1>1, GoBecomes DEF JoinUnlist, Places, WorkerPlaces, Holding, Joining
<1>3. main' \in Seq(Objects)
  BY <1>1, WithoutIs DEF JoinUnlist, ListsOK
<1>4. ListsOK'
  BY <1>1, <1>3 DEF ListsOK, JoinUnlist
<1>5. TInv'
  BY <1>1, <1>2, <1>4, ThreadTyped
     DEF TInv, ClientsOK, JoinUnlist, clients, queues
<1>. QED  BY <1>1, <1>2, <1>5 DEF JoinUnlist, Advances, queues

LEMMA JoinFreeTyped ==
    ASSUME TInv, JoinFree
    PROVE  /\ TInv' /\ UNCHANGED <<conn, main, members, msgQ>>
           /\ thread["worker"].at = "free"
           /\ Becomes("worker",
                  Found("worker", "add", Successor(thread["worker"].obj)))
           /\ live' = live \ {thread["worker"].obj}
<1> DEFINE w == Found("worker", "add", Successor(thread["worker"].obj))
<1>1. /\ "worker" \in Threads /\ ListsOK
      /\ thread["worker"].at = "free" /\ thread["worker"] \in Locals
      /\ Sound(thread["worker"])
  BY DEF JoinFree, TInv, Threads, ThreadsSound
<1>2. /\ thread["worker"].obj \in Objects /\ thread["worker"].room \in Rooms
      /\ thread["worker"].cli \in Clients
      /\ thread["worker"].obj[1] = thread["worker"].cli
  BY <1>1 DEF Sound, Holding, Joining
<1>3. thread' = [thread EXCEPT !["worker"] = w]
  BY DEF JoinFree, Found
<1>4. /\ w \in Locals /\ w.at = "add" /\ w.cli = thread["worker"].cli
      /\ w.obj = Successor(thread["worker"].obj)
      /\ w.room = thread["worker"].room
  BY <1>1, <1>2, SuccessorIs DEF Found, Locals, WorkerPlaces
<1>5. Becomes("worker", w)
  <2>1. Sound(w)
    BY <1>2, <1>4, SuccessorIs DEF Sound
  <2>. QED  BY <1>3, <1>4, <2>1 DEF Becomes, Places, WorkerPlaces
<1>6. ListsOK' /\ killed' \in BOOLEAN
  BY <1>1, UsesIs DEF ListsOK, JoinFree
<1>7. TInv'
  BY <1>1, <1>5, <1>6, ThreadTyped
     DEF TInv, ClientsOK, JoinFree, clients, queues
<1>. QED  BY <1>1, <1>5, <1>7 DEF JoinFree, queues

LEMMA JoinAddTyped ==
    ASSUME TInv, JoinAdd
    PROVE  /\ TInv' /\ UNCHANGED <<conn, live, members, msgQ>>
           /\ Advances("add", "accept")
           /\ thread["worker"].obj \in Objects
           /\ main' = Append(main, thread["worker"].obj)
<1>1. /\ "worker" \in Threads /\ ThreadsSound /\ ListsOK
      /\ thread["worker"].at = "add" /\ thread["worker"].obj \in Objects
  BY DEF JoinAdd, TInv, Threads, ThreadsSound, Sound, Holding
<1>2. Becomes("worker", Moved("worker", "accept"))
  BY <1>1, GoBecomes DEF JoinAdd, Places, WorkerPlaces, Holding, Joining
<1>3. ListsOK'
  BY <1>1 DEF ListsOK, JoinAdd
<1>4. TInv'
  BY <1>1, <1>2, <1>3, ThreadTyped DEF TInv, ClientsOK, JoinAdd, clients, queues
<1>. QED  BY <1>1, <1>2, <1>4 DEF JoinAdd, Advances, queues

LEMMA JoinAcceptTyped ==
    ASSUME TInv, JoinAccept
    PROVE  /\ TInv' /\ UNCHANGED <<conn, main, live, msgQ>>
           /\ Advances("accept", "start")
           /\ thread["worker"].obj \in Objects
           /\ thread["worker"].room \in Rooms
           /\ members' = [members EXCEPT ![thread["worker"].room] =
                             Append(@, thread["worker"].obj)]
<1>1. /\ "worker" \in Threads /\ ThreadsSound /\ ListsOK
      /\ thread["worker"].at = "accept" /\ thread["worker"].obj \in Objects
      /\ thread["worker"].room \in Rooms
  BY DEF JoinAccept, TInv, Threads, ThreadsSound, Sound, Holding, Joining
<1>2. Becomes("worker", Moved("worker", "start"))
  BY <1>1, GoBecomes DEF JoinAccept, Places, WorkerPlaces, Holding, Joining
<1>3. members' \in [Rooms -> Seq(Objects)]
  BY <1>1 DEF ListsOK, JoinAccept
<1>4. ListsOK'
  BY <1>1, <1>3 DEF ListsOK, JoinAccept
<1>5. TInv'
  BY <1>1, <1>2, <1>4, ThreadTyped
     DEF TInv, ClientsOK, JoinAccept, clients, queues
<1>. QED  BY <1>1, <1>2, <1>5 DEF JoinAccept, Advances, queues

InRooms == UNION {ToSet(members[r]) : r \in Rooms}

\* The rest of the worker's steps before it takes leave of a client.
WorkerMoves(w) ==
    /\ Becomes("worker", w)
    /\ thread["worker"].at \in {"start", "seek", "chat", "reply", "send"}
    /\ w.at \in {"idle", "reply", "seek", "chat", "send", "leave"}
    /\ w.at \notin {"idle", "leave"} => w.cli = thread["worker"].cli
    /\ w.at = "leave" => \/ w.cli = thread["worker"].cli
                         \/ /\ thread["worker"].at = "chat"
                            /\ w.cli = thread["worker"].obj[1]
    /\ w.at = "chat" => w.obj \in InRooms

LEMMA SeekTyped ==
    ASSUME TInv, Seek
    PROVE  /\ TInv' /\ UNCHANGED <<conn, lists, msgQ>>
           /\ \E w : WorkerMoves(w)
<1> DEFINE x == thread["worker"]
<1>1. /\ "worker" \in Threads /\ ThreadsSound /\ ListsOK
      /\ x.at = "seek" /\ x \in Locals /\ x.cli \in Clients
  BY DEF Seek, TInv, Threads, ThreadsSound, Sound
<1>2. CASE x.rest = << >>
  <2>1. Go("worker", "idle") /\ killed' \in BOOLEAN
    BY <1>2 DEF Seek, TInv
  <2>2. Becomes("worker", Moved("worker", "idle"))
    BY <1>1, <2>1, GoBecomes DEF Places, WorkerPlaces, Holding, Joining
  <2>3. Moved("worker", "idle").at = "idle"
    BY DEF Moved, Resting
  <2>4. WorkerMoves(Moved("worker", "idle"))
    BY <1>1, <2>2, <2>3 DEF WorkerMoves
  <2>5. TInv'
    BY <1>1, <2>1, <2>2, ThreadTyped
       DEF TInv, ClientsOK, ListsOK, Seek, clients, lists, queues
  <2>. QED  BY <2>4, <2>5 DEF Seek, queues
<1>3. CASE x.rest # << >>
  <2> DEFINE r == Head(x.rest)
             w == IF Where(members[r], x.cli) = 0
                  THEN [x EXCEPT !.rest = Tail(x.rest)]
                  ELSE [x EXCEPT !.at = "chat", !.room = r,
                                 !.obj = members[r][1]]
  <2>1. x.rest \in Seq(Rooms)
    BY <1>1 DEF Locals
  <2>2. r \in Rooms /\ Tail(x.rest) \in Seq(Rooms)
    BY <1>3, <2>1
  <2>3. members[r] \in Seq(Objects)
    BY <1>1, <2>2 DEF ListsOK
  <2>4. thread' = [thread EXCEPT !["worker"] = w] /\ killed' \in BOOLEAN
    BY <1>3, UsesIs DEF Seek, UsesLookup
  <2>5. CASE Where(members[r], x.cli) = 0
    <3>1. w.at = "seek" /\ w.cli = x.cli /\ w \in Locals
      BY <1>1, <2>2, <2>5 DEF Locals
    <3>2. Becomes("worker", w)
      BY <1>1, <2>4, <3>1
         DEF Becomes, Sound, Holding, Joining, Places, WorkerPlaces
    <3>. QED
      BY <1>1, <2>4, <3>1, <3>2, ThreadTyped
         DEF WorkerMoves, TInv, ClientsOK, ListsOK, Seek, clients, lists, queues
  <2>6. CASE Where(members[r], x.cli) # 0
    <3>1. 1 \in DOMAIN members[r]
      BY <2>3, <2>6, WhereIs
    <3>2. members[r][1] \in Objects /\ members[r][1] \in InRooms
      BY <2>2, <2>3, <3>1 DEF InRooms, ToSet
    <3>3. /\ w.at = "chat" /\ w.cli = x.cli /\ w.obj = members[r][1]
          /\ w.room = r /\ w \in Locals
      BY <1>1, <2>2, <2>6, <3>2 DEF Locals, WorkerPlaces
    <3>4. Becomes("worker", w)
      BY <1>1, <2>2, <2>4, <3>2, <3>3
         DEF Becomes, Sound, Holding, Joining, Places, WorkerPlaces
    <3>. QED
      BY <1>1, <2>4, <3>2, <3>3, <3>4, ThreadTyped
         DEF WorkerMoves, TInv, ClientsOK, ListsOK, Seek, clients, lists, queues
  <2>. QED  BY <2>5, <2>6
<1>. QED  BY <1>2, <1>3

LEMMA WriteTyped ==
    ASSUME TInv, NEW c, UNCHANGED peer \/ Write(c)
    PROVE  peer' \in [Clients -> {"off", "open", "fin", "rst"}]
BY DEF TInv, ClientsOK, Write

LEMMA ChatTyped ==
    ASSUME TInv, Chat
    PROVE  /\ TInv' /\ UNCHANGED <<conn, lists, msgQ>>
           /\ \E w : WorkerMoves(w)
<1> DEFINE x == thread["worker"]
           list == members[x.room]
           next == IF Contains(list, x.obj) THEN SelectInSeq(list,
                          LAMBDA y : y = x.obj) + 1 ELSE Len(list) + 1
<1>1. /\ "worker" \in Threads /\ ThreadsSound /\ ListsOK
      /\ x.at = "chat" /\ x \in Locals /\ x.cli \in Clients
      /\ x.obj \in Objects /\ x.room \in Rooms
  BY DEF Chat, TInv, Threads, ThreadsSound, Sound, Holding, Joining
<1>2. /\ UNCHANGED <<in, sent, input, conn, lists, queues>>
      /\ killed' \in BOOLEAN
      /\ \/ next > Len(list) /\ Go("worker", "idle")
         \/ ~(next > Len(list))
            /\ thread' = [thread EXCEPT !["worker"].obj = list[next]]
         \/ Fails("worker", x.obj[1])
      /\ UNCHANGED peer \/ Write(x.obj[1])
  BY DEF Chat
<1>3. peer' \in [Clients -> {"off", "open", "fin", "rst"}]
  BY <1>2, WriteTyped
<1>4. \E w : WorkerMoves(w)
  <2>1. CASE Go("worker", "idle")
    <3>1. Becomes("worker", Moved("worker", "idle"))
      BY <1>1, <2>1, GoBecomes DEF Places, WorkerPlaces, Holding, Joining
    <3>2. Moved("worker", "idle").at = "idle"
      BY DEF Moved, Resting
    <3>. QED  BY <1>1, <3>1, <3>2 DEF WorkerMoves
  <2>2. CASE /\ ~(next > Len(list))
             /\ thread' = [thread EXCEPT !["worker"].obj = list[next]]
    <3>1. list \in Seq(Objects)
      BY <1>1 DEF ListsOK
    <3>2. next \in Nat \ {0}
      <4>1. CASE Contains(list, x.obj)
        <5>1. SelectInSeq(list, LAMBDA y : y = x.obj) \in 1..Len(list)
          <6> DEFINE I == {i \in 1..Len(list) : list[i] = x.obj}
          <6>1. SelectInSeq(list, LAMBDA y : y = x.obj) =
                    IF I # {} THEN Min(I) ELSE 0
            BY DEF SelectInSeq
          <6>2. I # {}
            BY <4>1 DEF Contains
          <6>3. Min(I) \in 1..Len(list)
            BY <3>1, <4>1, PlaceOf
          <6>. QED  BY <6>1, <6>2, <6>3
        <5>. QED  BY <4>1, <5>1
      <4>2. CASE ~Contains(list, x.obj)
        BY <3>1, <4>2
      <4>. QED  BY <4>1, <4>2
    <3> HIDE DEF next
    <3>3. next \in DOMAIN list
      BY <2>2, <3>1, <3>2
    <3>4. list[next] \in Objects /\ list[next] \in InRooms
      BY <1>1, <3>1, <3>3 DEF InRooms, ToSet
    <3> DEFINE w == [x EXCEPT !.obj = list[next]]
    <3>5. /\ w.at = "chat" /\ w.cli = x.cli /\ w.obj = list[next]
          /\ w.room = x.room /\ w \in Locals
      BY <1>1, <3>4 DEF Locals
    <3>6. Becomes("worker", w)
      BY <1>1, <2>2, <3>4, <3>5
         DEF Becomes, Sound, Holding, Joining, Places, WorkerPlaces
    <3>. QED  BY <1>1, <3>4, <3>5, <3>6 DEF WorkerMoves
  <2>3. CASE Fails("worker", x.obj[1])
    <3>1. x.obj[1] \in Clients
      BY <1>1 DEF Objects
    <3>2. Becomes("worker", Failed(x.obj[1]))
      BY <1>1, <2>3, <3>1, FailsBecomes
    <3>3. Failed(x.obj[1]).at = "leave" /\ Failed(x.obj[1]).cli = x.obj[1]
      BY DEF Failed, Resting
    <3>. QED  BY <1>1, <3>2, <3>3 DEF WorkerMoves
  <2>. QED  BY <1>2, <2>1, <2>2, <2>3
<1>. QED
  BY <1>1, <1>2, <1>3, <1>4, ThreadTyped
     DEF WorkerMoves, TInv, ListsOK, lists, queues

LEMMA ReplyTyped ==
    ASSUME TInv, JoinStart \/ ReplyFind \/ Reply
    PROVE  /\ TInv' /\ UNCHANGED <<conn, lists, msgQ>>
           /\ \E w : WorkerMoves(w)
<1> DEFINE x == thread["worker"]
<1>1. /\ "worker" \in Threads /\ ThreadsSound /\ ListsOK /\ x \in Locals
      /\ x.at \in {"start", "reply", "send"} /\ x.cli \in Clients
  BY DEF JoinStart, ReplyFind, Reply, TInv, Threads, ThreadsSound, Sound
<1>2. UNCHANGED <<in, sent, input, conn, lists, queues>>
  BY DEF JoinStart, ReplyFind, Reply, clients
<1>3. killed' \in BOOLEAN
  BY UsesIs DEF JoinStart, ReplyFind, Reply, Find, UsesLookup
<1>4. peer' \in [Clients -> {"off", "open", "fin", "rst"}]
  <2>1. UNCHANGED peer \/ Write(x.cli)
    BY DEF JoinStart, ReplyFind, Reply, clients
  <2>. QED  BY <2>1, WriteTyped
<1>5. /\ Moved("worker", "idle").at = "idle"
      /\ Moved("worker", "reply").at = "reply"
      /\ Moved("worker", "reply").cli = x.cli
      /\ \A s : /\ Found("worker", "send", s).at = "send"
                /\ Found("worker", "send", s).cli = x.cli
      /\ Failed(x.cli).at = "leave" /\ Failed(x.cli).cli = x.cli
  BY <1>1 DEF Moved, Resting, Found, Failed, Locals
<1>6. \E w : WorkerMoves(w)
  <2>1. CASE JoinStart
    <3>1. x.at = "start" /\ Go("worker", "reply")
      BY <2>1 DEF JoinStart
    <3>2. Becomes("worker", Moved("worker", "reply"))
      BY <1>1, <3>1, GoBecomes DEF Places, WorkerPlaces, Holding, Joining
    <3>. QED  BY <1>5, <3>1, <3>2 DEF WorkerMoves
  <2>2. CASE ReplyFind
    <3>1. x.at = "reply" /\ Find("worker", "send", "idle")
      BY <2>2 DEF ReplyFind
    <3>2. \/ Becomes("worker", Moved("worker", "idle"))
          \/ \E s : Becomes("worker", Found("worker", "send", s))
      BY <1>1, <3>1, FindBecomes DEF Places, WorkerPlaces, Holding, Joining
    <3>. QED  BY <1>5, <3>1, <3>2 DEF WorkerMoves
  <2>3. CASE Reply
    <3>1. x.at = "send" /\ (Go("worker", "idle") \/ Fails("worker", x.cli))
      BY <2>3 DEF Reply
    <3>2. \/ Becomes("worker", Moved("worker", "idle"))
          \/ Becomes("worker", Failed(x.cli))
      BY <1>1, <3>1, GoBecomes, FailsBecomes
         DEF Places, WorkerPlaces, Holding, Joining
    <3>. QED  BY <1>5, <3>1, <3>2 DEF WorkerMoves
  <2>. QED  BY <2>1, <2>2, <2>3 DEF JoinStart, ReplyFind, Reply
<1>. QED
  BY <1>1, <1>2, <1>3, <1>4, <1>6, ThreadTyped
     DEF WorkerMoves, TInv, ListsOK, lists, queues

-----------------------------------------------------------------------------
(* The catch clauses *)

LEMMA LeaveRoomTyped ==
    ASSUME TInv, \A r \in Rooms : NoneTwice(members[r]),
           NEW t \in Threads, LeaveRoom(t)
    PROVE  /\ TInv' /\ UNCHANGED <<conn, main, live, msgQ>>
           /\ thread[t].at = "leave"
           /\ \E w : /\ Becomes(t, w) /\ w.at \in {"leave", "expire"}
                     /\ w.cli = thread[t].cli
                     /\ w.at = "leave" => UNCHANGED members
           /\ \/ UNCHANGED members
              \/ \E r \in Rooms : \E s \in Objects :
                     /\ s[1] = thread[t].cli
                     /\ members' = [members EXCEPT ![r] = Without(@, s)]
<1> DEFINE x == thread[t]
           r == Head(x.rest)
           n == Where(members[r], x.cli)
<1>1. /\ ThreadsSound /\ ListsOK /\ x \in Locals /\ Sound(x)
      /\ x.at = "leave" /\ x.at \in Places(t) /\ x.cli \in Clients
  BY DEF LeaveRoom, TInv, ThreadsSound, Sound
<1>2. "expire" \in Places(t)
  BY DEF Places, IOPlaces, WorkerPlaces
<1>3. /\ UNCHANGED <<clients, conn, main, live, timed, roomList, queues>>
      /\ killed' \in BOOLEAN
  BY UsesIs DEF LeaveRoom, UsesLookup, TInv
<1>4. ASSUME Go(t, "expire")
      PROVE  /\ Becomes(t, Moved(t, "expire"))
             /\ Moved(t, "expire").at = "expire"
             /\ Moved(t, "expire").cli = x.cli
  BY <1>1, <1>2, <1>4, GoBecomes DEF Holding, Joining, Moved, Locals
<1>5. CASE x.rest = << >>
  <2>1. Go(t, "expire") /\ UNCHANGED members
    BY <1>5 DEF LeaveRoom
  <2>. QED
    BY <1>1, <1>3, <1>4, <2>1, ThreadTyped
       DEF TInv, ClientsOK, ListsOK, clients, queues
<1>6. CASE x.rest # << >>
  <2>1. x.rest \in Seq(Rooms)
    BY <1>1 DEF Locals
  <2>2. r \in Rooms /\ Tail(x.rest) \in Seq(Rooms)
    BY <1>6, <2>1
  <2>3. members[r] \in Seq(Objects)
    BY <1>1, <2>2 DEF ListsOK
  <2>4. CASE n = 0
    <3> DEFINE w == [x EXCEPT !.rest = Tail(@)]
    <3>1. UNCHANGED members /\ thread' = [thread EXCEPT ![t] = w]
      BY <1>6, <2>4 DEF LeaveRoom
    <3>2. w.at = "leave" /\ w.cli = x.cli /\ w \in Locals
      BY <1>1, <2>2 DEF Locals
    <3>3. Becomes(t, w)
      BY <1>1, <3>1, <3>2 DEF Becomes, Sound, Holding, Joining
    <3>. QED
      BY <1>1, <1>3, <3>1, <3>2, <3>3, ThreadTyped
         DEF TInv, ClientsOK, ListsOK, clients, queues
  <2>5. CASE n # 0
    <3> DEFINE s == members[r][n]
    <3>1. /\ Go(t, "expire")
          /\ members' = [members EXCEPT ![r] = Without(@, s)]
      BY <1>6, <2>5 DEF LeaveRoom
    <3>2. s \in Objects /\ s[1] = x.cli
      BY <2>3, <2>5, WhereIs
    <3>3. members' \in [Rooms -> Seq(Objects)]
      BY <1>1, <2>2, <2>3, <3>1, WithoutIs DEF ListsOK
    <3> HIDE DEF s
    <3>4. ListsOK'
      BY <1>1, <1>3, <3>3 DEF ListsOK
    <3>5. TInv'
      BY <1>3, <1>4, <3>1, <3>4, ThreadTyped
         DEF TInv, ClientsOK, clients, queues
    <3>. QED  BY <1>1, <1>3, <1>4, <2>2, <3>1, <3>2, <3>5 DEF queues
  <2>. QED  BY <2>4, <2>5
<1>. QED  BY <1>5, <1>6

LEMMA ExpireFindTyped ==
    ASSUME TInv, NEW t \in Threads, ExpireFind(t)
    PROVE  /\ TInv' /\ UNCHANGED <<conn, lists, msgQ>>
           /\ thread[t].at = "expire"
           /\ \/ /\ \A s \in ToSet(main) : s[1] # thread[t].cli
                 /\ Becomes(t, Moved(t, "farewell"))
              \/ \E s \in ToSet(main) : /\ s[1] = thread[t].cli
                                        /\ Becomes(t, Found(t, "delete", s))
<1>1. /\ ThreadsSound /\ ListsOK /\ thread[t].at = "expire"
      /\ Find(t, "delete", "farewell")
      /\ UNCHANGED <<clients, conn, lists, queues>>
  BY DEF ExpireFind, TInv
<1>2. /\ killed' \in BOOLEAN
      /\ \/ /\ \A s \in ToSet(main) : s[1] # thread[t].cli
            /\ Becomes(t, Moved(t, "farewell"))
         \/ \E s \in ToSet(main) : /\ s[1] = thread[t].cli
                                   /\ Becomes(t, Found(t, "delete", s))
  BY <1>1, FindBecomes DEF Places, IOPlaces, WorkerPlaces, Holding, Joining
<1>3. TInv'
  BY <1>1, <1>2, ThreadTyped
     DEF TInv, ClientsOK, ListsOK, clients, lists, queues
<1>. QED  BY <1>1, <1>2, <1>3 DEF queues

LEMMA ExpireDeleteTyped ==
    ASSUME TInv, NoneTwice(main), NEW t \in Threads, ExpireDelete(t)
    PROVE  /\ TInv' /\ UNCHANGED <<conn, members, msgQ>>
           /\ thread[t].at = "delete"
           /\ Becomes(t, Moved(t, "farewell"))
           /\ main' = Without(main, thread[t].obj)
           /\ live' = live \ {thread[t].obj}
<1>1. ThreadsSound /\ ListsOK /\ thread[t].at = "delete" /\ Go(t, "farewell")
  BY DEF ExpireDelete, TInv
<1>2. Becomes(t, Moved(t, "farewell"))
  BY <1>1, GoBecomes DEF Places, IOPlaces, WorkerPlaces, Holding, Joining
<1>3. main' \in Seq(Objects)
  BY <1>1, WithoutIs DEF ExpireDelete, ListsOK
<1>4. ListsOK' /\ killed' \in BOOLEAN
  BY <1>1, <1>3 DEF ListsOK, ExpireDelete
<1>5. TInv'
  BY <1>2, <1>4, ThreadTyped DEF TInv, ClientsOK, ExpireDelete, clients, queues
<1>. QED  BY <1>1, <1>2, <1>5 DEF ExpireDelete, queues

LEMMA FarewellTyped ==
    ASSUME TInv, NEW t \in Threads, Farewell(t)
    PROVE  /\ TInv' /\ UNCHANGED <<lists, msgQ>>
           /\ thread[t].at = "farewell" /\ thread[t].cli \in Clients
           /\ Becomes(t, Moved(t, "idle"))
           /\ conn' = [conn EXCEPT ![thread[t].cli] = "closed"]
<1>1. /\ ThreadsSound /\ ListsOK /\ thread[t].at = "farewell" /\ Go(t, "idle")
      /\ thread[t].cli \in Clients
  BY DEF Farewell, TInv, ThreadsSound, Sound
<1>2. Becomes(t, Moved(t, "idle"))
  BY <1>1, GoBecomes DEF Places, IOPlaces, WorkerPlaces, Holding, Joining
<1>3. ListsOK'
  BY <1>1 DEF ListsOK, Farewell, lists
<1>4. TInv'
  BY <1>2, <1>3, ThreadTyped DEF TInv, ClientsOK, Farewell, clients, queues
<1>. QED  BY <1>1, <1>2, <1>4 DEF Farewell, queues

-----------------------------------------------------------------------------
(* The invariant of the sessions *)

\* Whoever is spoken of has connected.
Connected(c) == c \in Clients /\ conn[c] # "none"

Known ==
    /\ \A t \in Threads : thread[t].at # "idle" => Connected(thread[t].cli)
    /\ thread["worker"].at = "chat" => Connected(thread["worker"].obj[1])
    /\ \A s \in live \cup InRooms : Connected(s[1])
    /\ \A i \in DOMAIN msgQ : Connected(msgQ[i].cli)

Listed ==
    /\ ToSet(main) \subseteq live
    /\ \A s, u \in ToSet(main) : s[1] = u[1] => s = u
    /\ NoneTwice(main)
    /\ \A r \in Rooms : NoneTwice(members[r])

\* The client's sessions, at each place of its join.
Replacing ==
    LET w == thread["worker"]
        own(S) == {s \in S : s[1] = w.cli}
    IN  /\ w.at = "move" => own(live) \subseteq {w.obj}
        /\ w.at = "unlist" => own(ToSet(main)) \subseteq {w.obj}
        /\ w.at \in {"unlist", "free"} =>
               /\ own(live) \subseteq {w.obj, Successor(w.obj)}
               /\ Successor(w.obj) \in live
        /\ w.at \in {"free", "add"} => own(ToSet(main)) = {}
        /\ w.at = "add" => own(live) = {w.obj}
        /\ w.at = "accept" => own(ToSet(main)) \subseteq {w.obj}

Single ==
    \A s, u \in live :
        s[1] = u[1] /\ ~At("worker", {"unlist", "free"}, s[1]) => s = u

\* A session of the time before the one that a join is about to list.
Past(s) ==
    /\ \A u \in ToSet(main) : u[1] = s[1] => s[2] <= u[2]
    /\ At("worker", {"move", "unlist", "free"}, s[1]) =>
           s[2] <= thread["worker"].obj[2]
    /\ At("worker", {"add"}, s[1]) => s[2] < thread["worker"].obj[2]

\* What a thread is about to delete, and what the rooms have, is no session that
\* a join is still making.
Older ==
    /\ \A t \in Threads : thread[t].at = "delete" => Past(thread[t].obj)
    /\ \A s \in InRooms :
           /\ Past(s)
           /\ At("worker", {"accept"}, s[1]) => s[2] < thread["worker"].obj[2]

Leaving(s) ==
    \E t \in Threads :
        \/ At(t, {"leave", "expire"}, s[1])
        \/ thread[t].at = "delete" /\ thread[t].obj = s

Placed ==
    \A s \in ToSet(main) : s[2] > 0 =>
        \/ s \in InRooms
        \/ thread["worker"].at = "accept" /\ thread["worker"].obj = s
        \/ Leaving(s)

Served ==
    \A c \in Clients : conn[c] = "open" =>
        \/ \E s \in ToSet(main) : s[1] = c
        \/ At("worker", {"free", "add"}, c)
        \/ \E t \in Threads : At(t, {"farewell"}, c)

SInv ==
    TInv /\ Known /\ Listed /\ Replacing /\ Single /\ Older /\ Placed /\ Served

LEMMA SInvInit == Init => SInv
<1> SUFFICES ASSUME Init PROVE SInv
    OBVIOUS
<1>1. \A t \in Threads : thread[t].at = "idle"
  BY DEF Init, Resting
<1>2. ToSet(main) = {} /\ live = {} /\ InRooms = {}
  BY DEF Init, ToSet, InRooms
<1>3. thread["worker"].at = "idle"
  BY <1>1 DEF Threads
<1>4. NoneTwice(main) /\ \A r \in Rooms : NoneTwice(members[r])
  BY DEF Init, NoneTwice
<1>5. Known
  BY <1>1, <1>2, <1>3 DEF Known, Init
<1>6. Listed /\ Replacing /\ Single /\ Older /\ Placed /\ Served
  BY <1>1, <1>2, <1>3, <1>4
     DEF Listed, Replacing, Single, Older, Placed, Served, Init
<1>. QED  BY <1>5, <1>6, TInvInit DEF SInv

\* What the invariant says of the threads when one of them moves.
LEMMA KnownStep ==
    ASSUME SInv, TInv', NEW t \in Threads, NEW w, Becomes(t, w),
           \A c \in Clients : Connected(c) => Connected(c)',
           w.at # "idle" => Connected(w.cli)',
           w.at = "chat" => Connected(w.obj[1])',
           \A s \in (live' \cup InRooms') \ (live \cup InRooms) :
               Connected(s[1])',
           (\A i \in DOMAIN msgQ : Connected(msgQ[i].cli))'
    PROVE  Known'
<1>1. \A z \in Threads : thread'[z] = IF z = t THEN w ELSE thread[z]
  BY BecomesSound DEF SInv, TInv
<1>2. \A c : c \in Clients /\ conn[c] # "none" => conn'[c] # "none"
  BY DEF Connected
<1>3. (\A z \in Threads : thread[z].at # "idle" => Connected(thread[z].cli))'
  BY <1>1, <1>2 DEF SInv, Known, Connected
<1>4. (thread["worker"].at = "chat" => Connected(thread["worker"].obj[1]))'
  BY <1>1, <1>2 DEF SInv, Known, Connected, Threads
<1>5. \A s \in live' \cup InRooms' : Connected(s[1])'
  BY <1>2 DEF SInv, Known, Connected
<1>. QED  BY <1>3, <1>4, <1>5 DEF Known

\* A step of neither a join nor a leave, to no session.
OtherPlaces == {"idle", "refresh", "touch", "submit", "join", "reply", "send",
                  "seek", "chat", "start"}

LEMMA OtherStep ==
    ASSUME SInv, TInv', Known', NEW t \in Threads, NEW w, Becomes(t, w),
           UNCHANGED <<conn, main, live, members>>,
           thread[t].at \in OtherPlaces,
           w.at \in OtherPlaces \cup {"leave"}
    PROVE  SInv'
<1>1. \A z \in Threads : thread'[z] = IF z = t THEN w ELSE thread[z]
  BY BecomesSound DEF SInv, TInv
<1>2. \/ thread'["worker"] = thread["worker"]
      \/ \A place \in {"move", "unlist", "free", "add", "accept"} :
             thread["worker"].at # place /\ thread'["worker"].at # place
  BY <1>1 DEF OtherPlaces, Threads
<1>3. InRooms' = InRooms
  BY DEF InRooms
<1>4. Listed'
  BY DEF SInv, Listed
<1>5. Replacing'
  BY <1>2 DEF SInv, Replacing
<1>6. Single'
  BY <1>2 DEF SInv, Single, At
<1>7. Older'
  <2>1. ASSUME NEW s, Past(s) PROVE Past(s)'
    BY <1>2, <2>1 DEF Past, At
  <2>2. \A z \in Threads : thread'[z].at = "delete" => thread'[z] = thread[z]
    BY <1>1 DEF OtherPlaces
  <2>3. (\A z \in Threads : thread[z].at = "delete" => Past(thread[z].obj))'
    BY <2>1, <2>2 DEF SInv, Older
  <2>4. \A s \in InRooms' :
            /\ Past(s)'
            /\ At("worker", {"accept"}, s[1])' =>
                   s[2] < thread'["worker"].obj[2]
    BY <1>2, <1>3, <2>1 DEF SInv, Older, At
  <2>. QED  BY <2>3, <2>4 DEF Older
<1>8. Placed'
  <2>1. \A z \in Threads : thread[z].at \in {"leave", "expire", "delete"}
                               => thread'[z] = thread[z]
    BY <1>1 DEF OtherPlaces
  <2>2. ASSUME NEW s, Leaving(s) PROVE Leaving(s)'
    BY <2>1, <2>2 DEF Leaving, At
  <2>. QED  BY <1>2, <1>3, <2>2 DEF SInv, Placed
<1>9. Served'
  <2>1. \A z \in Threads : thread[z].at = "farewell" => thread'[z] = thread[z]
    BY <1>1 DEF OtherPlaces
  <2>. QED  BY <1>2, <2>1 DEF SInv, Served, At
<1>. QED  BY <1>4, <1>5, <1>6, <1>7, <1>8, <1>9 DEF SInv

-----------------------------------------------------------------------------
(* Steps to no session *)

LEMMA ClientStep ==
    ASSUME SInv, ClientSteps
    PROVE  SInv'
<1>1. TInv' /\ UNCHANGED <<conn, main, live, members, msgQ, thread>>
  BY ClientTyped DEF SInv, lists, queues
<1>. QED
  BY <1>1 DEF SInv, Known, Connected, Listed, Replacing, Single, Older, Past,
              Placed, Leaving, Served, At, InRooms

LEMMA ReceiveStep ==
    ASSUME SInv, NEW c \in Clients, Receive(c)
    PROVE  SInv'
<1>1. /\ TInv' /\ TInv
      /\ UNCHANGED <<conn, main, live, members>>
      /\ thread["io"].at = "idle" /\ conn[c] = "open"
  BY ReceiveTyped DEF SInv, Receive, lists, IOIdle
<1>2. PICK w : Becomes("io", w) /\ w.at = "refresh" /\ w.cli = c
  BY <1>1, ReceiveTyped
<1>3. PICK m : m.cli = c /\ msgQ' = Append(msgQ, m)
  BY <1>1, ReceiveTyped
<1>4. (\A i \in DOMAIN msgQ : Connected(msgQ[i].cli))'
  <2>1. msgQ \in Seq(Messages) /\ msgQ' \in Seq(Messages)
    BY <1>1 DEF TInv, RequestsProper
  <2>2. ASSUME NEW i \in DOMAIN msgQ'
        PROVE  msgQ'[i].cli \in Clients /\ conn'[msgQ'[i].cli] # "none"
    <3>1. DOMAIN msgQ' = DOMAIN msgQ \cup {Len(msgQ) + 1}
      BY <1>3, <2>1
    <3>2. CASE i \in DOMAIN msgQ
      <4>1. msgQ'[i] = msgQ[i]
        BY <1>3, <2>1, <3>2
      <4>. QED  BY <1>1, <3>2, <4>1 DEF SInv, Known, Connected
    <3>3. CASE i = Len(msgQ) + 1
      <4>1. msgQ'[i] = m
        BY <1>3, <2>1, <3>3
      <4>. QED  BY <1>1, <1>3, <4>1
    <3>. QED  BY <3>1, <3>2, <3>3
  <2>. QED  BY <2>2 DEF Connected
<1>5. Known'
  BY <1>1, <1>2, <1>4, KnownStep DEF Threads, Connected, InRooms
<1>. QED  BY <1>1, <1>2, <1>5, OtherStep DEF Threads, OtherPlaces

\* The queue is only read.
LEMMA QueueKnown ==
    ASSUME SInv, conn' = conn, msgQ' = msgQ
    PROVE  (\A i \in DOMAIN msgQ : Connected(msgQ[i].cli))'
BY DEF SInv, Known, Connected

LEMMA IOStep ==
    ASSUME SInv, RefreshFind \/ RefreshTouch \/ Submit
    PROVE  SInv'
<1>1. /\ TInv' /\ UNCHANGED <<conn, main, live, members, msgQ>>
      /\ thread["io"].at \in {"refresh", "touch", "submit"}
  BY IOTyped DEF SInv, lists
<1>2. PICK w : /\ Becomes("io", w) /\ w.at \in {"touch", "submit", "idle"}
               /\ w.at # "idle" => w.cli = thread["io"].cli
  BY IOTyped DEF SInv
<1>3. Connected(thread["io"].cli)
  BY <1>1 DEF SInv, Known, Threads
<1>4. Known'
  BY <1>1, <1>2, <1>3, QueueKnown, KnownStep DEF Threads, Connected, InRooms
<1>. QED  BY <1>1, <1>2, <1>4, OtherStep DEF Threads, OtherPlaces

LEMMA ReceiveFailsStep ==
    ASSUME SInv, NEW c \in Clients, ReceiveFails(c)
    PROVE  SInv'
<1>1. /\ TInv' /\ UNCHANGED <<conn, main, live, members, msgQ>>
      /\ thread["io"].at = "idle" /\ conn[c] = "open"
      /\ Becomes("io", Failed(c))
  BY ReceiveFailsTyped DEF SInv, ReceiveFails, IOIdle, lists, queues
<1>2. Failed(c).at = "leave" /\ Failed(c).cli = c
  BY DEF Failed, Resting
<1>3. Known'
  BY <1>1, <1>2, QueueKnown, KnownStep DEF Threads, Connected, InRooms
<1>. QED  BY <1>1, <1>2, <1>3, OtherStep DEF Threads, OtherPlaces

LEMMA StartJobStep ==
    ASSUME SInv, StartJob
    PROVE  SInv'
<1>1. /\ TInv /\ TInv' /\ UNCHANGED <<conn, main, live, members>>
      /\ msgQ # << >> /\ msgQ' = Tail(msgQ) /\ msgQ \in Seq(Messages)
      /\ thread["worker"].at = "idle"
  BY StartJobTyped DEF SInv, lists, TInv, RequestsProper
<1>2. PICK w : /\ Becomes("worker", w)
               /\ w.at \in {"join", "reply", "seek", "leave"}
               /\ w.cli = Head(msgQ).cli
  BY <1>1, StartJobTyped
<1>3. Connected(w.cli)
  <2>1. 1 \in DOMAIN msgQ /\ Head(msgQ) = msgQ[1]
    BY <1>1
  <2>. QED  BY <1>2, <2>1 DEF SInv, Known
<1>4. (\A i \in DOMAIN msgQ : Connected(msgQ[i].cli))'
  <2>1. ASSUME NEW i \in DOMAIN msgQ'
        PROVE  msgQ'[i].cli \in Clients /\ conn'[msgQ'[i].cli] # "none"
    <3>1. i \in 1..(Len(msgQ) - 1) /\ msgQ'[i] = msgQ[i + 1]
      BY <1>1, HeadTailProperties
    <3>2. i + 1 \in DOMAIN msgQ
      BY <1>1, <3>1
    <3>. QED  BY <1>1, <3>1, <3>2 DEF SInv, Known, Connected
  <2>. QED  BY <2>1 DEF Connected
<1>5. Known'
  BY <1>1, <1>2, <1>3, <1>4, KnownStep DEF Threads, Connected, InRooms
<1>. QED  BY <1>1, <1>2, <1>5, OtherStep DEF Threads, OtherPlaces

LEMMA WorkerStep ==
    ASSUME SInv, Seek \/ Chat \/ JoinStart \/ ReplyFind \/ Reply
    PROVE  SInv'
<1>1. /\ TInv' /\ UNCHANGED <<conn, main, live, members, msgQ>>
      /\ \E w : WorkerMoves(w)
  BY SeekTyped, ChatTyped, ReplyTyped DEF SInv, lists
<1>2. PICK w : WorkerMoves(w)
  BY <1>1
<1>3. Connected(thread["worker"].cli)
      /\ (thread["worker"].at = "chat" => Connected(thread["worker"].obj[1]))
  BY <1>2 DEF SInv, Known, Threads, WorkerMoves
<1>4. w.at # "idle" => Connected(w.cli)
  BY <1>2, <1>3 DEF WorkerMoves
<1>5. w.at = "chat" => Connected(w.obj[1])
  BY <1>2 DEF SInv, Known, WorkerMoves
<1>6. Known'
  BY <1>1, <1>2, <1>4, <1>5, QueueKnown, KnownStep
     DEF Threads, Connected, InRooms, WorkerMoves
<1>. QED
  BY <1>1, <1>2, <1>6, OtherStep DEF Threads, OtherPlaces, WorkerMoves

-----------------------------------------------------------------------------
(* Connections *)

LEMMA AcceptStep ==
    ASSUME SInv, NEW c \in Clients, Accept(c)
    PROVE  SInv'
<1> DEFINE f == First(c)
<1>1. /\ TInv /\ TInv' /\ conn[c] = "none"
      /\ conn' = [conn EXCEPT ![c] = "open"]
      /\ main' = Append(main, f) /\ live' = live \cup {f}
      /\ UNCHANGED <<members, msgQ, thread>>
  BY AcceptTyped DEF SInv, Accept, queues
<1>2. f \in Objects /\ f[1] = c /\ f[2] = 0
  BY DEF First, Objects
<1>3. /\ conn \in [Clients -> {"none", "open", "closed"}]
      /\ main \in Seq(Objects)
      /\ NoneTwice(main) /\ ToSet(main) \subseteq live
  BY <1>1 DEF SInv, TInv, ListsOK, Listed
<1>4. \A s \in live \cup InRooms : s[1] # c
  BY <1>1 DEF SInv, Known, Connected
<1> HIDE DEF f
<1>5. ToSet(main') = ToSet(main) \cup {f} /\ NoneTwice(main')
  <2>1. f \notin ToSet(main)
    BY <1>2, <1>3, <1>4
  <2>. QED  BY <1>1, <1>2, <1>3, <2>1, AppendIs
<1>6. \A t \in Threads : thread[t].at # "idle" => thread[t].cli # c
  BY <1>1 DEF SInv, Known, Connected
<1>7. InRooms' = InRooms
  BY <1>1 DEF InRooms
<1>8. Known'
  <2>1. \A d : Connected(d) => Connected(d)'
    BY <1>1, <1>3 DEF Connected
  <2>2. Connected(c)'
    BY <1>1, <1>3 DEF Connected
  <2>3. \A s \in live' \cup InRooms' : Connected(s[1])'
    BY <1>1, <1>2, <1>7, <2>1, <2>2 DEF SInv, Known
  <2>. QED
    BY <1>1, <1>3, <2>3 DEF SInv, Known, Connected
<1>9. Listed'
  BY <1>1, <1>2, <1>3, <1>4, <1>5 DEF SInv, Listed
<1>10. Replacing'
  <2>1. thread["worker"].at # "idle" => thread["worker"].cli # c
    BY <1>6 DEF Threads
  <2>. QED  BY <1>1, <1>2, <1>5, <2>1 DEF SInv, Replacing
<1>11. Single'
  BY <1>1, <1>2, <1>4 DEF SInv, Single, At
<1>12. Older'
  <2>1. ASSUME NEW s, s[1] # c, Past(s) PROVE Past(s)'
    BY <1>1, <1>2, <1>5, <2>1 DEF Past, At
  <2>2. \A t \in Threads : thread[t].at = "delete" => thread[t].obj[1] # c
    BY <1>1, <1>6 DEF TInv, ThreadsSound, Sound, Holding
  <2>3. (\A t \in Threads : thread[t].at = "delete" => Past(thread[t].obj))'
    BY <1>1, <2>1, <2>2 DEF SInv, Older
  <2>. QED  BY <1>1, <1>4, <1>7, <2>1, <2>3 DEF SInv, Older, At
<1>13. Placed'
  BY <1>1, <1>2, <1>5, <1>7 DEF SInv, Placed, Leaving, At
<1>14. Served'
  BY <1>1, <1>2, <1>3, <1>5 DEF SInv, Served, At
<1>. QED
  BY <1>1, <1>8, <1>9, <1>10, <1>11, <1>12, <1>13, <1>14 DEF SInv

LEMMA HangupStep ==
    ASSUME SInv, NEW c \in Clients, Hangup(c)
    PROVE  SInv'
<1>1. /\ TInv' /\ conn' = [conn EXCEPT ![c] = "closed"]
      /\ conn \in [Clients -> {"none", "open", "closed"}]
      /\ UNCHANGED <<main, live, members, msgQ, thread>>
  BY HangupTyped DEF SInv, Hangup, lists, queues, TInv, ListsOK
<1>2. \A d \in Clients : conn'[d] = IF d = c THEN "closed" ELSE conn[d]
  BY <1>1
<1>3. Known'
  BY <1>1, <1>2 DEF SInv, Known, Connected, InRooms
<1>4. Served'
  BY <1>1, <1>2 DEF SInv, Served, At
<1>. QED
  BY <1>1, <1>3, <1>4 DEF SInv, Listed, Replacing, Single, Older, Past, Placed,
                          Leaving, At, InRooms

LEMMA FarewellStep ==
    ASSUME SInv, NEW t \in Threads, Farewell(t)
    PROVE  SInv'
<1> DEFINE c == thread[t].cli
           w == Moved(t, "idle")
<1>1. /\ TInv /\ TInv' /\ UNCHANGED <<main, live, members, msgQ>>
      /\ thread[t].at = "farewell" /\ c \in Clients
      /\ conn' = [conn EXCEPT ![c] = "closed"]
      /\ conn \in [Clients -> {"none", "open", "closed"}]
      /\ Becomes(t, w)
  BY FarewellTyped DEF SInv, lists, TInv, ListsOK
<1>2. \A d \in Clients : conn'[d] = IF d = c THEN "closed" ELSE conn[d]
  BY <1>1
<1>3. w.at = "idle"
  BY DEF Moved, Resting
<1> HIDE DEF w
<1>4. \A z \in Threads : thread'[z] = IF z = t THEN w ELSE thread[z]
  BY <1>1, BecomesSound DEF TInv
<1>5. InRooms' = InRooms
  BY <1>1 DEF InRooms
<1>6. Known'
  <2>1. (\A i \in DOMAIN msgQ : Connected(msgQ[i].cli))'
    BY <1>1, <1>2 DEF SInv, Known, Connected
  <2>. QED  BY <1>1, <1>2, <1>3, <1>5, <2>1, KnownStep DEF Connected
<1>7. \/ thread'["worker"] = thread["worker"]
      \/ thread["worker"].at = "farewell" /\ thread'["worker"].at = "idle"
  BY <1>1, <1>3, <1>4 DEF Threads
<1>8. Listed' /\ Replacing' /\ Single'
  BY <1>1, <1>7 DEF SInv, Listed, Replacing, Single, At
<1>9. Older'
  <2>1. ASSUME NEW s, Past(s) PROVE Past(s)'
    BY <1>1, <1>7, <2>1 DEF Past, At
  <2>2. (\A z \in Threads : thread[z].at = "delete" => Past(thread[z].obj))'
    BY <1>3, <1>4, <2>1 DEF SInv, Older
  <2>. QED  BY <1>1, <1>5, <1>7, <2>1, <2>2 DEF SInv, Older, At
<1>10. Placed'
  <2>1. \A z \in Threads : thread[z].at \in {"leave", "expire", "delete"}
                               => thread'[z] = thread[z]
    BY <1>1, <1>4
  <2>2. ASSUME NEW s, Leaving(s) PROVE Leaving(s)'
    BY <2>1, <2>2 DEF Leaving, At
  <2>. QED  BY <1>1, <1>5, <1>7, <2>2 DEF SInv, Placed
<1>11. Served'
  BY <1>1, <1>2, <1>4, <1>7 DEF SInv, Served, At
<1>. QED  BY <1>1, <1>6, <1>8, <1>9, <1>10, <1>11 DEF SInv

-----------------------------------------------------------------------------
(* A join *)

\* How the worker's step looks to the other conjuncts.
LEMMA WorkerBecomes ==
    ASSUME TInv, NEW w, Becomes("worker", w)
    PROVE  thread'["worker"] = w /\ thread'["io"] = thread["io"]
BY BecomesSound DEF TInv, Threads

LEMMA MovedIs ==
    ASSUME TInv, NEW t \in Threads, NEW place, place # "idle"
    PROVE  /\ Moved(t, place).at = place
           /\ Moved(t, place).cli = thread[t].cli
           /\ Moved(t, place).obj = thread[t].obj
           /\ \A s : /\ Found(t, place, s).at = place
                     /\ Found(t, place, s).cli = thread[t].cli
                     /\ Found(t, place, s).obj = s
<1>1. thread[t] \in Locals
  BY DEF TInv, ThreadsSound
<1>. QED  BY <1>1 DEF Moved, Found, Locals

\* A worker on its way in holds a session of its client's.
LEMMA WorkerHolds ==
    ASSUME SInv, thread["worker"].at \in Holding \ {"chat"}
    PROVE  /\ thread["worker"].obj \in Objects
           /\ thread["worker"].obj[1] = thread["worker"].cli
           /\ Connected(thread["worker"].cli)
BY DEF SInv, TInv, ThreadsSound, Sound, Threads, Known, Holding

LEMMA JoinFindStep ==
    ASSUME SInv, JoinFind
    PROVE  SInv'
<1>1. /\ TInv /\ TInv' /\ UNCHANGED <<conn, main, live, members, msgQ>>
      /\ thread["worker"].at = "join"
  BY JoinFindTyped DEF SInv
<1>2. Connected(thread["worker"].cli)
  BY <1>1 DEF SInv, Known, Threads
<1>3. CASE Becomes("worker", Moved("worker", "reply"))
  <2> DEFINE w == Moved("worker", "reply")
  <2>1. w.at = "reply" /\ w.cli = thread["worker"].cli
    BY <1>1, MovedIs DEF Threads
  <2> HIDE DEF w
  <2>2. Becomes("worker", w)
    BY <1>3 DEF w
  <2>3. Known'
    BY <1>1, <1>2, <2>1, <2>2, QueueKnown, KnownStep
       DEF Threads, Connected, InRooms
  <2>. QED  BY <1>1, <2>1, <2>2, <2>3, OtherStep DEF Threads, OtherPlaces
<1>4. ASSUME NEW s \in ToSet(main), s[1] = thread["worker"].cli,
             Becomes("worker", Found("worker", "move", s))
      PROVE  SInv'
  <2>1. PICK w : /\ Becomes("worker", w) /\ w.at = "move" /\ w.obj = s
                 /\ w.cli = thread["worker"].cli
    BY <1>1, <1>4, MovedIs DEF Threads
  <2>2. thread'["worker"] = w /\ thread'["io"] = thread["io"]
    BY <1>1, <2>1, WorkerBecomes
  <2>3. Known'
    BY <1>1, <1>2, <2>1, QueueKnown, KnownStep DEF Threads, Connected, InRooms
  <2>4. Listed' /\ InRooms' = InRooms
    BY <1>1 DEF SInv, Listed, InRooms
  <2>5. s \in live /\ \A u \in live : u[1] = s[1] => u = s
    BY <1>1 DEF SInv, Listed, Single, At
  <2>6. Replacing'
    BY <1>1, <1>4, <2>1, <2>2, <2>5 DEF Replacing
  <2>7. Single'
    BY <1>1, <2>1, <2>2 DEF SInv, Single, At
  <2>8. Older'
    <3>1. ASSUME NEW x, Past(x) PROVE Past(x)'
      BY <1>1, <1>4, <2>1, <2>2, <3>1 DEF Past, At
    <3>2. (\A z \in Threads : thread[z].at = "delete" => Past(thread[z].obj))'
      BY <2>1, <2>2, <3>1 DEF SInv, Older, Threads
    <3>. QED  BY <2>1, <2>2, <2>4, <3>1, <3>2 DEF SInv, Older, At
  <2>9. Placed'
    BY <1>1, <2>1, <2>2, <2>4 DEF SInv, Placed, Leaving, At, Threads
  <2>10. Served'
    BY <1>1, <2>1, <2>2 DEF SInv, Served, At, Threads
  <2>. QED
    BY <1>1, <2>3, <2>4, <2>6, <2>7, <2>8, <2>9, <2>10 DEF SInv
<1>. QED  BY <1>1, <1>3, <1>4, JoinFindTyped

LEMMA JoinMoveStep ==
    ASSUME SInv, JoinMove
    PROVE  SInv'
<1> DEFINE old == thread["worker"].obj
<1>1. /\ TInv /\ TInv' /\ UNCHANGED <<conn, main, members, msgQ>>
      /\ thread["worker"].at = "move"
      /\ Becomes("worker", Moved("worker", "unlist"))
      /\ live' = live \cup {Successor(old)}
  BY JoinMoveTyped DEF SInv, Advances
<1>2. /\ old \in Objects /\ old[1] = thread["worker"].cli
      /\ Connected(thread["worker"].cli)
      /\ Successor(old)[1] = old[1] /\ Successor(old) # old
  BY <1>1, WorkerHolds, SuccessorIs DEF Holding
<1>3. PICK w : /\ Becomes("worker", w) /\ w.at = "unlist" /\ w.obj = old
               /\ w.cli = thread["worker"].cli
  BY <1>1, MovedIs DEF Threads
<1>4. thread'["worker"] = w /\ thread'["io"] = thread["io"]
  BY <1>1, <1>3, WorkerBecomes
<1> HIDE DEF old
<1>5. InRooms' = InRooms
  BY <1>1 DEF InRooms
<1>6. Known'
  BY <1>1, <1>2, <1>3, <1>5, QueueKnown, KnownStep DEF Threads, Connected
<1>7. Listed'
  BY <1>1 DEF SInv, Listed
<1>8. \A u \in live : u[1] = thread["worker"].cli => u = old
  BY <1>1 DEF SInv, Replacing, old
<1>9. Replacing'
  BY <1>1, <1>2, <1>3, <1>4, <1>8 DEF SInv, Listed, Replacing
<1>10. Single'
  BY <1>1, <1>2, <1>3, <1>4 DEF SInv, Single, At
<1>11. Older'
  <2>1. ASSUME NEW x, Past(x) PROVE Past(x)'
    BY <1>1, <1>3, <1>4, <2>1 DEF Past, At, old
  <2>2. (\A z \in Threads : thread[z].at = "delete" => Past(thread[z].obj))'
    BY <1>3, <1>4, <2>1 DEF SInv, Older, Threads
  <2>. QED  BY <1>3, <1>4, <1>5, <2>1, <2>2 DEF SInv, Older, At
<1>12. Placed'
  BY <1>1, <1>3, <1>4, <1>5 DEF SInv, Placed, Leaving, At, Threads
<1>13. Served'
  BY <1>1, <1>3, <1>4 DEF SInv, Served, At, Threads
<1>. QED
  BY <1>1, <1>6, <1>7, <1>9, <1>10, <1>11, <1>12, <1>13 DEF SInv

LEMMA JoinUnlistStep ==
    ASSUME SInv, JoinUnlist
    PROVE  SInv'
<1> DEFINE old == thread["worker"].obj
<1>1. /\ TInv /\ TInv' /\ UNCHANGED <<conn, live, members, msgQ>>
      /\ thread["worker"].at = "unlist"
      /\ Becomes("worker", Moved("worker", "free"))
      /\ main' = Without(main, old)
  BY JoinUnlistTyped DEF SInv, Advances, Listed
<1>2. /\ old \in Objects /\ old[1] = thread["worker"].cli
      /\ Connected(thread["worker"].cli)
  BY <1>1, WorkerHolds DEF Holding
<1>3. PICK w : /\ Becomes("worker", w) /\ w.at = "free" /\ w.obj = old
               /\ w.cli = thread["worker"].cli
  BY <1>1, MovedIs DEF Threads
<1>4. thread'["worker"] = w /\ thread'["io"] = thread["io"]
  BY <1>1, <1>3, WorkerBecomes
<1>5. InRooms' = InRooms
  BY <1>1 DEF InRooms
<1>6. ToSet(main') = ToSet(main) \ {old} /\ NoneTwice(main')
  BY <1>1, WithoutIs DEF SInv, TInv, ListsOK, Listed
<1> HIDE DEF old
<1>7. Known'
  BY <1>1, <1>2, <1>3, <1>5, QueueKnown, KnownStep DEF Threads, Connected
<1>8. Listed'
  BY <1>1, <1>6 DEF SInv, Listed
<1>9. Replacing'
  BY <1>1, <1>3, <1>4, <1>6 DEF SInv, Replacing, old
<1>10. Single'
  BY <1>1, <1>3, <1>4 DEF SInv, Single, At
<1>11. Older'
  <2>1. ASSUME NEW x, Past(x) PROVE Past(x)'
    BY <1>1, <1>3, <1>4, <1>6, <2>1 DEF Past, At, old
  <2>2. (\A z \in Threads : thread[z].at = "delete" => Past(thread[z].obj))'
    BY <1>3, <1>4, <2>1 DEF SInv, Older, Threads
  <2>. QED  BY <1>3, <1>4, <1>5, <2>1, <2>2 DEF SInv, Older, At
<1>12. Placed'
  BY <1>1, <1>3, <1>4, <1>5, <1>6 DEF SInv, Placed, Leaving, At, Threads
<1>13. Served'
  BY <1>1, <1>2, <1>3, <1>4, <1>6 DEF SInv, Served, At, Threads
<1>. QED
  BY <1>1, <1>7, <1>8, <1>9, <1>10, <1>11, <1>12, <1>13 DEF SInv

LEMMA JoinFreeStep ==
    ASSUME SInv, JoinFree
    PROVE  SInv'
<1> DEFINE old == thread["worker"].obj
           new == Successor(old)
<1>1. /\ TInv /\ TInv' /\ UNCHANGED <<conn, main, members, msgQ>>
      /\ thread["worker"].at = "free"
      /\ Becomes("worker", Found("worker", "add", new))
      /\ live' = live \ {old}
  BY JoinFreeTyped DEF SInv
<1>2. /\ old \in Objects /\ old[1] = thread["worker"].cli
      /\ Connected(thread["worker"].cli)
      /\ new[1] = old[1] /\ new # old /\ old[2] \in Nat /\ new[2] = old[2] + 1
  BY <1>1, WorkerHolds, SuccessorIs DEF Holding
<1>3. PICK w : /\ Becomes("worker", w) /\ w.at = "add" /\ w.obj = new
               /\ w.cli = thread["worker"].cli
  <2> HIDE DEF new
  <2>1. /\ Found("worker", "add", new).at = "add"
        /\ Found("worker", "add", new).obj = new
        /\ Found("worker", "add", new).cli = thread["worker"].cli
    <3>1. thread["worker"] \in Locals
      BY <1>1 DEF TInv, ThreadsSound, Threads
    <3>. QED  BY <3>1 DEF Found, Locals
  <2>. QED  BY <1>1, <2>1
<1>4. thread'["worker"] = w /\ thread'["io"] = thread["io"]
  BY <1>1, <1>3, WorkerBecomes
<1>5. /\ \A u \in live : u[1] = old[1] => u \in {old, new}
      /\ new \in live
      /\ \A u \in ToSet(main) : u[1] # old[1]
  BY <1>1, <1>2 DEF SInv, Replacing
<1>6. InRooms' = InRooms /\ InRooms \subseteq Objects
  BY <1>1 DEF InRooms, ToSet, TInv, ListsOK
<1>7. \A t \in Threads : thread[t].at = "delete" => thread[t].obj \in Objects
  BY <1>1 DEF TInv, ThreadsSound, Sound, Holding
<1> HIDE DEF old, new
<1>8. Known'
  BY <1>1, <1>2, <1>3, <1>6, QueueKnown, KnownStep DEF Threads, Connected
<1>9. Listed'
  BY <1>1, <1>5 DEF SInv, Listed
<1>10. Replacing'
  BY <1>1, <1>2, <1>3, <1>4, <1>5 DEF SInv, Replacing
<1>11. Single'
  BY <1>1, <1>2, <1>3, <1>4, <1>5 DEF SInv, Single, At
<1>12. Older'
  <2>1. ASSUME NEW x \in Objects, Past(x) PROVE Past(x)'
    <3>1. x[2] \in Nat
      BY DEF Objects
    <3>2. x[1] = old[1] => x[2] <= old[2]
      BY <1>1, <1>2, <2>1 DEF Past, At, old
    <3>. QED  BY <1>1, <1>2, <1>3, <1>4, <2>1, <3>1, <3>2 DEF Past, At
  <2>2. (\A z \in Threads : thread[z].at = "delete" => Past(thread[z].obj))'
    BY <1>3, <1>4, <1>7, <2>1 DEF SInv, Older, Threads
  <2>. QED  BY <1>3, <1>4, <1>6, <2>1, <2>2 DEF SInv, Older, At
<1>13. Placed'
  BY <1>1, <1>3, <1>4, <1>6 DEF SInv, Placed, Leaving, At, Threads
<1>14. Served'
  BY <1>1, <1>3, <1>4 DEF SInv, Served, At, Threads
<1>. QED
  BY <1>1, <1>8, <1>9, <1>10, <1>11, <1>12, <1>13, <1>14 DEF SInv

LEMMA JoinAddStep ==
    ASSUME SInv, JoinAdd
    PROVE  SInv'
<1> DEFINE new == thread["worker"].obj
<1>1. /\ TInv /\ TInv' /\ UNCHANGED <<conn, live, members, msgQ>>
      /\ thread["worker"].at = "add"
      /\ Becomes("worker", Moved("worker", "accept"))
      /\ main' = Append(main, new)
  BY JoinAddTyped DEF SInv, Advances
<1>2. /\ new \in Objects /\ new[1] = thread["worker"].cli /\ new[2] \in Nat
      /\ Connected(thread["worker"].cli)
  BY <1>1, WorkerHolds, SuccessorIs DEF Holding
<1>3. PICK w : /\ Becomes("worker", w) /\ w.at = "accept" /\ w.obj = new
               /\ w.cli = thread["worker"].cli
  BY <1>1, MovedIs DEF Threads
<1>4. thread'["worker"] = w /\ thread'["io"] = thread["io"]
  BY <1>1, <1>3, WorkerBecomes
<1>5. /\ new \in live
      /\ \A u \in ToSet(main) : u[1] # new[1]
  BY <1>1, <1>2 DEF SInv, Replacing
<1>6. InRooms' = InRooms /\ InRooms \subseteq Objects
  BY <1>1 DEF InRooms, ToSet, TInv, ListsOK
<1>7. \A t \in Threads : thread[t].at = "delete" => thread[t].obj \in Objects
  BY <1>1 DEF TInv, ThreadsSound, Sound, Holding
<1>8. ToSet(main') = ToSet(main) \cup {new} /\ NoneTwice(main')
  <2>1. new \notin ToSet(main)
    BY <1>5
  <2>. QED  BY <1>1, <1>2, <2>1, AppendIs DEF SInv, TInv, ListsOK, Listed
<1> HIDE DEF new
<1>9. Known'
  BY <1>1, <1>2, <1>3, <1>6, QueueKnown, KnownStep DEF Threads, Connected
<1>10. Listed'
  BY <1>1, <1>5, <1>8 DEF SInv, Listed
<1>11. Replacing'
  BY <1>1, <1>2, <1>3, <1>4, <1>5, <1>8 DEF SInv, Replacing
<1>12. Single'
  BY <1>1, <1>3, <1>4 DEF SInv, Single, At
<1>13. Older'
  <2>1. ASSUME NEW x \in Objects, Past(x) PROVE Past(x)'
    <3>1. x[2] \in Nat
      BY DEF Objects
    <3>2. x[1] = new[1] => x[2] < new[2]
      BY <1>1, <1>2, <2>1 DEF Past, At, new
    <3>. QED  BY <1>1, <1>2, <1>3, <1>4, <1>8, <2>1, <3>1, <3>2 DEF Past, At
  <2>2. (\A z \in Threads : thread[z].at = "delete" => Past(thread[z].obj))'
    BY <1>3, <1>4, <1>7, <2>1 DEF SInv, Older, Threads
  <2>3. \A x \in InRooms : x[1] = new[1] => x[2] < new[2]
    BY <1>1, <1>2 DEF SInv, Older, Past, At, new
  <2>. QED  BY <1>2, <1>3, <1>4, <1>6, <2>1, <2>2, <2>3 DEF SInv, Older, At
<1>14. Placed'
  BY <1>1, <1>3, <1>4, <1>6, <1>8 DEF SInv, Placed, Leaving, At, Threads
<1>15. Served'
  BY <1>1, <1>2, <1>3, <1>4, <1>8 DEF SInv, Served, At, Threads
<1>. QED
  BY <1>1, <1>9, <1>10, <1>11, <1>12, <1>13, <1>14, <1>15 DEF SInv

LEMMA JoinAcceptStep ==
    ASSUME SInv, JoinAccept
    PROVE  SInv'
<1> DEFINE new == thread["worker"].obj
           r == thread["worker"].room
<1>1. /\ TInv /\ TInv' /\ UNCHANGED <<conn, main, live, msgQ>>
      /\ thread["worker"].at = "accept" /\ r \in Rooms
      /\ Becomes("worker", Moved("worker", "start"))
      /\ members' = [members EXCEPT ![r] = Append(@, new)]
  BY JoinAcceptTyped DEF SInv, Advances
<1>2. /\ new \in Objects /\ new[1] = thread["worker"].cli /\ new[2] \in Nat
      /\ Connected(thread["worker"].cli)
  BY <1>1, WorkerHolds, SuccessorIs DEF Holding
<1>3. PICK w : /\ Becomes("worker", w) /\ w.at = "start" /\ w.obj = new
               /\ w.cli = thread["worker"].cli
  BY <1>1, MovedIs DEF Threads
<1>4. thread'["worker"] = w /\ thread'["io"] = thread["io"]
  BY <1>1, <1>3, WorkerBecomes
<1>5. \A u \in ToSet(main) : u[1] = new[1] => u = new
  BY <1>1, <1>2 DEF SInv, Replacing
<1>6. new \notin InRooms
  BY <1>1, <1>2 DEF SInv, Older, At
<1>7. /\ members \in [Rooms -> Seq(Objects)]
      /\ \A q \in Rooms : NoneTwice(members[q])
  BY <1>1 DEF SInv, TInv, ListsOK, Listed
<1> HIDE DEF new, r
<1>8. \A q \in Rooms :
          /\ NoneTwice(members'[q])
          /\ ToSet(members'[q]) = IF q = r THEN ToSet(members[q]) \cup {new}
                                  ELSE ToSet(members[q])
  <2>1. ASSUME NEW q \in Rooms, q # r
        PROVE  members'[q] = members[q]
    BY <1>1, <1>7, <2>1
  <2>2. members'[r] = Append(members[r], new)
    BY <1>1, <1>7
  <2>3. new \notin ToSet(members[r]) /\ members[r] \in Seq(Objects)
    BY <1>1, <1>6, <1>7 DEF InRooms
  <2>4. /\ NoneTwice(members'[r])
        /\ ToSet(members'[r]) = ToSet(members[r]) \cup {new}
    BY <1>1, <1>2, <1>7, <2>2, <2>3, AppendIs
  <2>. QED  BY <1>7, <2>1, <2>4
<1>9. InRooms' = InRooms \cup {new}
  <2>1. ASSUME NEW x \in InRooms' PROVE x \in InRooms \cup {new}
    BY <1>8, <2>1 DEF InRooms
  <2>2. new \in InRooms'
    BY <1>1, <1>8 DEF InRooms
  <2>3. ASSUME NEW x \in InRooms PROVE x \in InRooms'
    BY <1>8, <2>3 DEF InRooms
  <2>. QED  BY <2>1, <2>2, <2>3
<1>10. Known'
  BY <1>1, <1>2, <1>3, <1>9, QueueKnown, KnownStep DEF Threads, Connected
<1>11. Listed'
  BY <1>1, <1>8 DEF SInv, Listed
<1>12. Replacing'
  BY <1>3, <1>4 DEF Replacing
<1>13. Single'
  BY <1>1, <1>3, <1>4 DEF SInv, Single, At
<1>14. Older'
  <2>1. ASSUME NEW x, Past(x) PROVE Past(x)'
    BY <1>1, <1>3, <1>4, <2>1 DEF Past, At
  <2>2. (\A z \in Threads : thread[z].at = "delete" => Past(thread[z].obj))'
    BY <1>3, <1>4, <2>1 DEF SInv, Older, Threads
  <2>3. Past(new)
    BY <1>1, <1>2, <1>5 DEF Past, At
  <2>. QED  BY <1>3, <1>4, <1>9, <2>1, <2>2, <2>3 DEF SInv, Older, At
<1>15. Placed'
  BY <1>1, <1>3, <1>4, <1>9 DEF SInv, Placed, Leaving, At, Threads, new
<1>16. Served'
  BY <1>1, <1>3, <1>4 DEF SInv, Served, At, Threads
<1>. QED
  BY <1>1, <1>10, <1>11, <1>12, <1>13, <1>14, <1>15, <1>16 DEF SInv

-----------------------------------------------------------------------------
(* The catch clauses *)

\* A client is taken out of a room.
LEMMA RoomWithout ==
    ASSUME SInv, NEW r \in Rooms, NEW s \in Objects,
           members' = [members EXCEPT ![r] = Without(@, s)]
    PROVE  /\ \A q \in Rooms : NoneTwice(members'[q])
           /\ InRooms' \subseteq InRooms
           /\ InRooms \ {s} \subseteq InRooms'
<1>1. /\ members \in [Rooms -> Seq(Objects)]
      /\ \A q \in Rooms : NoneTwice(members[q])
  BY DEF SInv, TInv, ListsOK, Listed
<1>2. members'[r] = Without(members[r], s)
      /\ \A q \in Rooms \ {r} : members'[q] = members[q]
  BY <1>1
<1>3. /\ ToSet(members'[r]) = ToSet(members[r]) \ {s}
      /\ NoneTwice(members'[r])
  BY <1>1, <1>2, WithoutIs
<1>4. ASSUME NEW x \in InRooms' PROVE x \in InRooms
  BY <1>2, <1>3, <1>4 DEF InRooms
<1>5. ASSUME NEW x \in InRooms, x # s PROVE x \in InRooms'
  BY <1>2, <1>3, <1>5 DEF InRooms
<1>. QED  BY <1>1, <1>2, <1>3, <1>4, <1>5

\* The step of a thread that is not the worker on its way into a room.
LEMMA CatchBecomes ==
    ASSUME TInv, NEW t \in Threads, NEW w, Becomes(t, w),
           thread[t].at \in {"leave", "expire", "delete"},
           w.at \in {"leave", "expire", "delete", "farewell"}
    PROVE  /\ \A z \in Threads : thread'[z] = IF z = t THEN w ELSE thread[z]
           /\ \/ thread'["worker"] = thread["worker"]
              \/ \A place \in {"move", "unlist", "free", "add", "accept"} :
                     /\ thread["worker"].at # place
                     /\ thread'["worker"].at # place
BY BecomesSound DEF TInv, Threads

LEMMA LeaveRoomStep ==
    ASSUME SInv, NEW t \in Threads, LeaveRoom(t)
    PROVE  SInv'
<1>1. /\ TInv /\ TInv' /\ UNCHANGED <<conn, main, live, msgQ>>
      /\ thread[t].at = "leave"
      /\ \A r \in Rooms : NoneTwice(members[r])
  BY LeaveRoomTyped DEF SInv, Listed
<1>2. PICK w : /\ Becomes(t, w) /\ w.at \in {"leave", "expire"}
               /\ w.cli = thread[t].cli
               /\ w.at = "leave" => UNCHANGED members
  BY <1>1, LeaveRoomTyped
<1>3. Connected(thread[t].cli)
  BY <1>1 DEF SInv, Known
<1>4. /\ \A q \in Rooms : NoneTwice(members'[q])
      /\ InRooms' \subseteq InRooms
      /\ \A x \in InRooms \ InRooms' : x[1] = w.cli
  <2>1. CASE UNCHANGED members
    BY <1>1, <2>1 DEF InRooms
  <2>2. ASSUME NEW r \in Rooms, NEW s \in Objects, s[1] = thread[t].cli,
               members' = [members EXCEPT ![r] = Without(@, s)]
        PROVE  /\ \A q \in Rooms : NoneTwice(members'[q])
               /\ InRooms' \subseteq InRooms
               /\ \A x \in InRooms \ InRooms' : x[1] = w.cli
    BY <1>2, <2>2, RoomWithout
  <2>. QED  BY <1>1, <2>1, <2>2, LeaveRoomTyped
<1>5. /\ \A z \in Threads : thread'[z] = IF z = t THEN w ELSE thread[z]
      /\ \/ thread'["worker"] = thread["worker"]
         \/ \A place \in {"move", "unlist", "free", "add", "accept"} :
                thread["worker"].at # place /\ thread'["worker"].at # place
  BY <1>1, <1>2, CatchBecomes
<1>6. Known'
  BY <1>1, <1>2, <1>3, <1>4, QueueKnown, KnownStep DEF Connected
<1>7. Listed'
  BY <1>1, <1>4 DEF SInv, Listed
<1>8. Replacing'
  BY <1>1, <1>5 DEF SInv, Replacing
<1>9. Single'
  BY <1>1, <1>5 DEF SInv, Single, At
<1>10. Older'
  <2>1. ASSUME NEW x, Past(x) PROVE Past(x)'
    BY <1>1, <1>5, <2>1 DEF Past, At
  <2>2. (\A z \in Threads : thread[z].at = "delete" => Past(thread[z].obj))'
    BY <1>2, <1>5, <2>1 DEF SInv, Older
  <2>. QED  BY <1>4, <1>5, <2>1, <2>2 DEF SInv, Older, At
<1>11. Placed'
  <2>1. ASSUME NEW x, Leaving(x) PROVE Leaving(x)'
    <3>1. PICK z \in Threads : \/ At(z, {"leave", "expire"}, x[1])
                               \/ thread[z].at = "delete" /\ thread[z].obj = x
      BY <2>1 DEF Leaving
    <3>2. \/ At(z, {"leave", "expire"}, x[1])'
          \/ thread'[z].at = "delete" /\ thread'[z].obj = x
      BY <1>1, <1>2, <1>5, <3>1 DEF At
    <3>. QED  BY <3>2 DEF Leaving
  <2>2. ASSUME NEW x \in InRooms, x \notin InRooms' PROVE Leaving(x)'
    <3>1. At(t, {"leave", "expire"}, x[1])'
      BY <1>2, <1>4, <1>5, <2>2 DEF At
    <3>. QED  BY <3>1 DEF Leaving
  <2>. QED  BY <1>1, <1>5, <2>1, <2>2 DEF SInv, Placed
<1>12. Served'
  BY <1>1, <1>5 DEF SInv, Served, At
<1>. QED
  BY <1>1, <1>6, <1>7, <1>8, <1>9, <1>10, <1>11, <1>12 DEF SInv

LEMMA ExpireFindStep ==
    ASSUME SInv, NEW t \in Threads, ExpireFind(t)
    PROVE  SInv'
<1>1. /\ TInv /\ TInv' /\ UNCHANGED <<conn, main, live, members, msgQ>>
      /\ thread[t].at = "expire"
  BY ExpireFindTyped DEF SInv, lists
<1>2. PICK w :
        /\ Becomes(t, w) /\ w.cli = thread[t].cli
        /\ \/ w.at = "farewell" /\ \A s \in ToSet(main) : s[1] # w.cli
           \/ w.at = "delete" /\ w.obj \in ToSet(main) /\ w.obj[1] = w.cli
  <2>1. CASE /\ \A s \in ToSet(main) : s[1] # thread[t].cli
             /\ Becomes(t, Moved(t, "farewell"))
    BY <1>1, <2>1, MovedIs
  <2>2. ASSUME NEW s \in ToSet(main), s[1] = thread[t].cli,
               Becomes(t, Found(t, "delete", s))
        PROVE  \E w : /\ Becomes(t, w) /\ w.cli = thread[t].cli
                      /\ w.at = "delete" /\ w.obj = s
    <3>1. /\ Found(t, "delete", s).at = "delete"
          /\ Found(t, "delete", s).obj = s
          /\ Found(t, "delete", s).cli = thread[t].cli
      BY <1>1 DEF Found, Locals, TInv, ThreadsSound
    <3>. QED  BY <2>2, <3>1
  <2>. QED  BY <1>1, <2>1, <2>2, ExpireFindTyped
<1>3. Connected(thread[t].cli)
  BY <1>1 DEF SInv, Known
<1>4. /\ \A z \in Threads : thread'[z] = IF z = t THEN w ELSE thread[z]
      /\ \/ thread'["worker"] = thread["worker"]
         \/ \A place \in {"move", "unlist", "free", "add", "accept"} :
                thread["worker"].at # place /\ thread'["worker"].at # place
  BY <1>1, <1>2, CatchBecomes
<1>5. InRooms' = InRooms
  BY <1>1 DEF InRooms
<1>6. Known'
  BY <1>1, <1>2, <1>3, <1>5, QueueKnown, KnownStep DEF Connected
<1>7. Listed'
  BY <1>1 DEF SInv, Listed
<1>8. Replacing'
  BY <1>1, <1>4 DEF SInv, Replacing
<1>9. Single'
  BY <1>1, <1>4 DEF SInv, Single, At
<1>10. Older'
  <2>1. ASSUME NEW x, Past(x) PROVE Past(x)'
    BY <1>1, <1>4, <2>1 DEF Past, At
  <2>2. w.at = "delete" => Past(w.obj)
    <3> SUFFICES ASSUME w.at = "delete" PROVE Past(w.obj)
        OBVIOUS
    <3>1. w.obj \in ToSet(main) /\ w.obj \in Objects /\ w.obj \in live
      BY <1>1, <1>2 DEF SInv, Listed, TInv, ListsOK
    <3>2. w.obj[2] \in Nat
      BY <3>1 DEF Objects
    <3>3. \A u \in ToSet(main) : u[1] = w.obj[1] => u = w.obj
      BY <3>1 DEF SInv, Listed
    <3>4. At("worker", {"move", "unlist"}, w.obj[1]) =>
              w.obj = thread["worker"].obj
      BY <3>1 DEF SInv, Replacing, At
    <3>5. ~At("worker", {"free", "add"}, w.obj[1])
      BY <3>1 DEF SInv, Replacing, At
    <3>. QED  BY <3>2, <3>3, <3>4, <3>5 DEF Past, At
  <2>3. (\A z \in Threads : thread[z].at = "delete" => Past(thread[z].obj))'
    BY <1>4, <2>1, <2>2 DEF SInv, Older
  <2>. QED  BY <1>4, <1>5, <2>1, <2>3 DEF SInv, Older, At
<1>11. Placed'
  <2>1. ASSUME NEW x \in ToSet(main), Leaving(x) PROVE Leaving(x)'
    <3>1. PICK z \in Threads : \/ At(z, {"leave", "expire"}, x[1])
                               \/ thread[z].at = "delete" /\ thread[z].obj = x
      BY <2>1 DEF Leaving
    <3>2. CASE z # t
      <4>1. \/ At(z, {"leave", "expire"}, x[1])'
            \/ thread'[z].at = "delete" /\ thread'[z].obj = x
        BY <1>4, <3>1, <3>2 DEF At
      <4>. QED  BY <4>1 DEF Leaving
    <3>3. CASE z = t
      <4>1. x[1] = w.cli
        BY <1>1, <1>2, <3>1, <3>3 DEF At
      <4>2. w.at = "delete" /\ w.obj = x
        BY <1>2, <2>1, <4>1 DEF SInv, Listed
      <4>. QED  BY <1>4, <4>2 DEF Leaving
    <3>. QED  BY <3>2, <3>3
  <2>. QED  BY <1>1, <1>4, <1>5, <2>1 DEF SInv, Placed
<1>12. Served'
  BY <1>1, <1>4 DEF SInv, Served, At
<1>. QED
  BY <1>1, <1>6, <1>7, <1>8, <1>9, <1>10, <1>11, <1>12 DEF SInv

LEMMA ExpireDeleteStep ==
    ASSUME SInv, NEW t \in Threads, ExpireDelete(t)
    PROVE  SInv'
<1> DEFINE s == thread[t].obj
<1>1. /\ TInv /\ TInv' /\ UNCHANGED <<conn, members, msgQ>>
      /\ thread[t].at = "delete"
      /\ Becomes(t, Moved(t, "farewell"))
      /\ main' = Without(main, s)
      /\ live' = live \ {s}
  BY ExpireDeleteTyped DEF SInv, Listed
<1>2. PICK w : Becomes(t, w) /\ w.at = "farewell" /\ w.cli = thread[t].cli
  BY <1>1, MovedIs
<1>3. s \in Objects /\ s[1] = w.cli /\ Connected(w.cli) /\ Past(s)
  BY <1>1, <1>2
     DEF SInv, TInv, ThreadsSound, Sound, Holding, Known, Older
<1>4. /\ \A z \in Threads : thread'[z] = IF z = t THEN w ELSE thread[z]
      /\ \/ thread'["worker"] = thread["worker"]
         \/ \A place \in {"move", "unlist", "free", "add", "accept"} :
                thread["worker"].at # place /\ thread'["worker"].at # place
  BY <1>1, <1>2, CatchBecomes
<1>5. InRooms' = InRooms
  BY <1>1 DEF InRooms
<1>6. ToSet(main') = ToSet(main) \ {s} /\ NoneTwice(main')
  BY <1>1, WithoutIs DEF SInv, TInv, ListsOK, Listed
<1> HIDE DEF s
<1>7. Known'
  BY <1>1, <1>2, <1>3, <1>5, QueueKnown, KnownStep DEF Connected
<1>8. Listed'
  BY <1>1, <1>6 DEF SInv, Listed
<1>9. Replacing'
  <2>1. CASE thread["worker"].at \notin {"unlist", "free", "add"}
    BY <1>1, <1>4, <1>6, <2>1 DEF SInv, Replacing
  <2>2. CASE thread["worker"].at \in {"unlist", "free", "add"}
    <3> DEFINE x == thread["worker"]
               own(S) == {u \in S : u[1] = x.cli}
    <3>1. thread'["worker"] = x
      BY <1>4, <2>2
    <3>2. /\ x.obj \in Objects /\ x.obj[1] = x.cli
          /\ x.obj[2] \in Nat /\ s[2] \in Nat
          /\ Successor(x.obj)[1] = x.cli
          /\ Successor(x.obj)[2] = x.obj[2] + 1
      BY <1>3, <2>2, WorkerHolds, SuccessorIs DEF Holding
    <3>3. x.at \in {"unlist", "free"} => s # Successor(x.obj)
      BY <1>3, <3>2 DEF Past, At
    <3>4. x.at = "add" => s # x.obj
      BY <1>3, <3>2 DEF Past, At
    <3>5. /\ x.at = "unlist" => own(ToSet(main)) \subseteq {x.obj}
          /\ x.at \in {"unlist", "free"} =>
                 /\ own(live) \subseteq {x.obj, Successor(x.obj)}
                 /\ Successor(x.obj) \in live
          /\ x.at \in {"free", "add"} => own(ToSet(main)) = {}
          /\ x.at = "add" => own(live) = {x.obj}
      BY DEF SInv, Replacing
    <3> HIDE DEF x
    <3>6. /\ x.at = "unlist" => own(ToSet(main')) \subseteq {x.obj}
          /\ x.at \in {"unlist", "free"} =>
                 /\ own(live') \subseteq {x.obj, Successor(x.obj)}
                 /\ Successor(x.obj) \in live'
          /\ x.at \in {"free", "add"} => own(ToSet(main')) = {}
          /\ x.at = "add" => own(live') = {x.obj}
      BY <1>1, <1>6, <3>3, <3>4, <3>5
    <3>. QED  BY <2>2, <3>1, <3>6 DEF Replacing, x
  <2>. QED  BY <2>1, <2>2
<1>10. Single'
  BY <1>1, <1>4 DEF SInv, Single, At
<1>11. Older'
  <2>1. ASSUME NEW x, Past(x) PROVE Past(x)'
    BY <1>1, <1>4, <1>6, <2>1 DEF Past, At
  <2>2. (\A z \in Threads : thread[z].at = "delete" => Past(thread[z].obj))'
    BY <1>2, <1>4, <2>1 DEF SInv, Older
  <2>. QED  BY <1>4, <1>5, <2>1, <2>2 DEF SInv, Older, At
<1>12. Placed'
  <2>1. ASSUME NEW x, x # s, Leaving(x) PROVE Leaving(x)'
    <3>1. PICK z \in Threads : \/ At(z, {"leave", "expire"}, x[1])
                               \/ thread[z].at = "delete" /\ thread[z].obj = x
      BY <2>1 DEF Leaving
    <3>2. z # t
      BY <1>1, <2>1, <3>1 DEF At, s
    <3>3. \/ At(z, {"leave", "expire"}, x[1])'
          \/ thread'[z].at = "delete" /\ thread'[z].obj = x
      BY <1>4, <3>1, <3>2 DEF At
    <3>. QED  BY <3>3 DEF Leaving
  <2>. QED  BY <1>4, <1>5, <1>6, <2>1 DEF SInv, Placed
<1>13. Served'
  <2>1. At(t, {"farewell"}, w.cli)'
    BY <1>2, <1>4 DEF At
  <2>. QED  BY <1>1, <1>3, <1>4, <1>6, <2>1 DEF SInv, Served, At
<1>. QED
  BY <1>1, <1>7, <1>8, <1>9, <1>10, <1>11, <1>12, <1>13 DEF SInv

-----------------------------------------------------------------------------
LEMMA SInvStep == SInv /\ [Next]_vars => SInv'
<1> SUFFICES ASSUME SInv, [Next]_vars PROVE SInv'
    OBVIOUS
<1>1. CASE ClientSteps
  BY <1>1, ClientStep
<1>2. CASE IOSteps
  <2>1. ASSUME NEW c \in Clients,
               Accept(c) \/ Receive(c) \/ ReceiveFails(c) \/ Hangup(c)
        PROVE  SInv'
    BY <2>1, AcceptStep, ReceiveStep, ReceiveFailsStep, HangupStep
  <2>2. CASE Catch("io")
    BY <2>2, LeaveRoomStep, ExpireFindStep, ExpireDeleteStep, FarewellStep
       DEF Catch, Threads
  <2>. QED  BY <1>2, <2>1, <2>2, IOStep DEF IOSteps
<1>3. CASE WorkerSteps
  <2>1. CASE Catch("worker")
    BY <2>1, LeaveRoomStep, ExpireFindStep, ExpireDeleteStep, FarewellStep
       DEF Catch, Threads
  <2>. QED
    BY <1>3, <2>1, StartJobStep, JoinFindStep, JoinMoveStep, JoinUnlistStep,
       JoinFreeStep, JoinAddStep, JoinAcceptStep, WorkerStep DEF WorkerSteps
<1>4. CASE UNCHANGED vars
  <2>1. UNCHANGED <<peer, in, sent, input, conn, main, live, timed, roomList,
                    members, msgQ, jobs, thread, killed>>
    BY <1>4 DEF vars, clients, lists, queues
  <2>2. TInv'
    BY <2>1 DEF SInv, TInv, ThreadsSound, RequestsProper, ClientsOK, ListsOK
  <2>. QED
    BY <2>1, <2>2 DEF SInv, Known, Connected, Listed, Replacing, Single, Older,
                      Past, Placed, Leaving, Served, At, InRooms
<1>. QED  BY <1>1, <1>2, <1>3, <1>4 DEF Next

\* The invariant of this module holds in every state.
THEOREM SessionsTracked == Spec => []SInv
BY SInvInit, SInvStep, PTL DEF Spec

\* The state keeps its shape, whatever is found in deleted memory.
THEOREM TypesHold == Spec => []TypeOK
BY SessionsTracked, TInvTypes, PTL DEF SInv

\* An open connection has a session in the server's list, but for the moments a
\* join replaces it or a thread is about to close the connection.
THEOREM OpenAreServed == Spec => []OpenHasSession
<1>1. SInv => OpenHasSession
  <2> SUFFICES ASSUME SInv, NEW c \in Clients, NEW s \in ToSet(main), s[1] = c
               PROVE  Where(main, c) # 0
      BY DEF SInv, Served, OpenHasSession
  <2>. QED  BY WhereIs DEF SInv, TInv, ListsOK
<1>. QED  BY <1>1, SessionsTracked, PTL

\* The server's list has no deleted session and no two of a client.
THEOREM ListIsLive == Spec => []ListedIsLive
<1>1. SInv => ListedIsLive
  BY DEF SInv, Listed, ListedIsLive, NoneTwice, ToSet
<1>. QED  BY <1>1, SessionsTracked, PTL

\* A client has one session, and two only while a join waits to free the old.
THEOREM ClientsHaveOneSession == Spec => []OneSession
<1>1. ASSUME SInv, NEW c \in Clients
      PROVE  Cardinality(Of(c)) <= IF At("worker", {"unlist", "free"}, c) THEN 2
                                   ELSE 1
  <2>1. CASE At("worker", {"unlist", "free"}, c)
    <3> DEFINE s == thread["worker"].obj
    <3>1. Of(c) \subseteq {s, Successor(s)}
      BY <1>1, <2>1 DEF SInv, Replacing, At, Of
    <3> HIDE DEF s
    <3>2. IsFiniteSet({s}) /\ Cardinality({s}) = 1
      BY FS_Singleton
    <3>3. /\ IsFiniteSet({s} \cup {Successor(s)})
          /\ Cardinality({s} \cup {Successor(s)}) <= 2
      BY <3>2, FS_AddElement
    <3>4. Of(c) \subseteq {s} \cup {Successor(s)}
      BY <3>1
    <3>5. /\ Cardinality(Of(c)) <= Cardinality({s} \cup {Successor(s)})
          /\ Cardinality(Of(c)) \in Nat
          /\ Cardinality({s} \cup {Successor(s)}) \in Nat
      BY <3>3, <3>4, FS_Subset, FS_CardinalityType
    <3>. QED  BY <2>1, <3>3, <3>5
  <2>2. CASE ~At("worker", {"unlist", "free"}, c)
    <3>1. \A s, u \in Of(c) : s = u
      BY <1>1, <2>2 DEF SInv, Single, Of
    <3>2. CASE Of(c) = {}
      BY <2>2, <3>2, FS_EmptySet
    <3>3. ASSUME NEW s \in Of(c) PROVE Cardinality(Of(c)) = 1
      <4>1. Of(c) = {s}
        BY <3>1
      <4>. QED  BY <4>1, FS_Singleton
    <3>. QED  BY <2>2, <3>2, <3>3
  <2>. QED  BY <2>1, <2>2
<1>2. SInv => OneSession
  BY <1>1 DEF OneSession
<1>. QED  BY <1>2, SessionsTracked, PTL

\* The game session of a client that is not on the way in or out is in a room.
THEOREM PlayersHaveARoom == Spec => []PlayersAreInRoom
<1>1. ASSUME SInv, NEW s \in ToSet(main), s[2] > 0
      PROVE  \/ \E r \in Rooms : Contains(members[r], s)
             \/ thread["worker"].at = "accept" /\ thread["worker"].obj = s
             \/ \E t \in Threads : At(t, {"leave", "expire", "delete"}, s[1])
  <2>1. ASSUME s \in InRooms PROVE \E r \in Rooms : Contains(members[r], s)
    BY <1>1, <2>1 DEF InRooms, ToSet, Contains, SInv, TInv, ListsOK
  <2>2. ASSUME NEW t \in Threads, thread[t].at = "delete", thread[t].obj = s
        PROVE  At(t, {"delete"}, s[1])
    BY <1>1, <2>2 DEF SInv, TInv, ThreadsSound, Sound, Holding, At
  <2>. QED  BY <1>1, <2>1, <2>2 DEF SInv, Placed, Leaving, At
<1>2. SInv => PlayersAreInRoom
  BY <1>1 DEF PlayersAreInRoom
<1>. QED  BY <1>2, SessionsTracked, PTL
=============================================================================
