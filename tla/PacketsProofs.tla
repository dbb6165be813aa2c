--------------------------- MODULE PacketsProofs ----------------------------
(***************************************************************************)
(* Proofs about Packets.tla, for any clients, scripts and buffers: packets *)
(* arrive whole (PacketsArriveWhole), and garbage is only the echo of what *)
(* was left unread (GarbageOnlyByEcho).                                    *)
(*                                                                         *)
(* The first stands on what is on its way in each direction.  UpInv: what  *)
(* is in a client's buffer is its script from where the loop is in it.     *)
(* DownInv: what is in the other buffer is what was sent from where the    *)
(* client is in it, as long as it reads.  The second on WorkInv, which     *)
(* says when the worker is behind the header of what it is to send.        *)
(***************************************************************************)
EXTENDS Packets, WellFoundedInduction, TLAPS

Cells == [packet : Packets, part : {"head", "body", "zeros"}]

ClientsOK ==
    /\ wrote \in [Clients -> Nat]
    /\ inbox \in [Clients -> Seq(Packets \cup {Garbled})]
    /\ header \in [Clients -> Packets \cup {NoPacket}]
    /\ broken \subseteq Clients

BuffersOK ==
    /\ up \in [Clients -> Seq(Cells)]
    /\ down \in [Clients -> Seq(Cells)]

LoopOK ==
    /\ open \subseteq Clients
    /\ loop \in [at : {"idle", "body", "submit"}, of : Clients \cup {Nobody},
                 packet : Packets \cup {NoPacket}]
    /\ loop.at # "idle" => loop.of \in Clients /\ loop.packet \in Packets
    /\ heard \in [Clients -> Seq(Packets)]

WorkerOK ==
    /\ jobs \in Seq(Packets)
    /\ worker \in [at : {"idle", "head", "body"},
                   packet : Packets \cup {NoPacket}, to : SUBSET Clients,
                   cursor : {Start, Body, End}]
    /\ worker.at # "idle" => worker.packet \in Packets /\ worker.to # {}
    /\ sentTo \in [Clients -> Seq(Packets \cup {Garbled})]

TInv == ClientsOK /\ BuffersOK /\ LoopOK /\ WorkerOK

\* The cell that a client writes after n others.
Written(c, n) ==
    Cell(Packet(c, n \div 2 + 1), IF n % 2 = 0 THEN "head" ELSE "body")

\* What the loop has read of a client's script, in cells.
Taken(c) ==
    IF loop.at = "body" /\ loop.of = c THEN 2 * Len(heard[c]) + 1
    ELSE 2 * Len(heard[c])

\* What is on its way to the loop, as long as the loop reads it.
Coming(c) ==
    /\ Len(up[c]) + Taken(c) = wrote[c]
    /\ \A i \in 1..Len(up[c]) : up[c][i] = Written(c, Taken(c) + i - 1)

UpInv ==
    \A c \in Clients :
        /\ wrote[c] <= 2 * Len(Script[c])
        /\ 2 * Len(heard[c]) <= wrote[c]
        /\ \A i \in 1..Len(heard[c]) : heard[c][i] = Packet(c, i)
        /\ c \in open \/ (loop.at = "body" /\ loop.of = c) => Coming(c)
        /\ loop.at = "body" /\ loop.of = c =>
               loop.packet = Packet(c, Len(heard[c]) + 1)

\* A cell that belongs after n others of the packets in s; garbage is garbage
\* in its header.
Fits(s, n, cell) ==
    LET m == s[n \div 2 + 1] IN
    IF n % 2 = 0
    THEN IF m = Garbled THEN cell.part # "head" ELSE cell = Cell(m, "head")
    ELSE m # Garbled => cell = Cell(m, "body")

\* What a client has read of what it was sent, in cells.
Used(c) ==
    IF header[c] = NoPacket THEN 2 * Len(inbox[c]) ELSE 2 * Len(inbox[c]) + 1

Midway(c) == worker.at = "body" /\ Receiver(worker.to) = c

\* What is on its way to a client, as long as the client reads it.
Going(c) ==
    /\ Len(down[c]) + Used(c) =
           IF Midway(c) THEN 2 * Len(sentTo[c]) - 1 ELSE 2 * Len(sentTo[c])
    /\ \A i \in 1..Len(down[c]) : Fits(sentTo[c], Used(c) + i - 1, down[c][i])
    /\ header[c] # NoPacket => header[c] = sentTo[c][Len(inbox[c]) + 1]
    /\ Midway(c) =>
           sentTo[c][Len(sentTo[c])] \in {Garbled, worker.packet}

Reads(c) == c \notin broken /\ Garbled \notin Range(inbox[c])

DownInv ==
    \A c \in Clients :
        /\ Len(inbox[c]) <= Len(sentTo[c])
        /\ \A i \in 1..Len(inbox[c]) : inbox[c][i] = sentTo[c][i]
        /\ Reads(c) => Going(c)

-----------------------------------------------------------------------------
(* Lemmas *)

LEMMA Halves ==
    ASSUME NEW n \in Nat
    PROVE  /\ (2 * n) \div 2 = n /\ (2 * n) % 2 = 0
           /\ (2 * n + 1) \div 2 = n /\ (2 * n + 1) % 2 = 1
           /\ (2 * n + 2) \div 2 = n + 1
           /\ n \div 2 \in Nat /\ n % 2 \in {0, 1}
           /\ n % 2 = 0 => n = 2 * (n \div 2)
           /\ n % 2 = 1 => n = 2 * (n \div 2) + 1
<1>1. (2 * n) \div 2 = n /\ (2 * n) % 2 = 0
  OBVIOUS
<1>2. (2 * n + 1) \div 2 = n /\ (2 * n + 1) % 2 = 1
  OBVIOUS
<1>3. (2 * n + 2) \div 2 = n + 1
  OBVIOUS
<1>4. n \div 2 \in Nat /\ n % 2 \in {0, 1}
  OBVIOUS
<1>5. n % 2 = 0 => n = 2 * (n \div 2)
  OBVIOUS
<1>6. n % 2 = 1 => n = 2 * (n \div 2) + 1
  OBVIOUS
<1>. QED  BY <1>1, <1>2, <1>3, <1>4, <1>5, <1>6

LEMMA WrittenIs ==
    ASSUME NEW c, NEW n \in Nat
    PROVE  /\ Written(c, 2 * n) = Cell(Packet(c, n + 1), "head")
           /\ Written(c, 2 * n + 1) = Cell(Packet(c, n + 1), "body")
BY Halves DEF Written

LEMMA FitsIs ==
    ASSUME NEW s, NEW n \in Nat, NEW cell
    PROVE  /\ Fits(s, 2 * n, cell) <=>
                  IF s[n + 1] = Garbled THEN cell.part # "head"
                  ELSE cell = Cell(s[n + 1], "head")
           /\ Fits(s, 2 * n + 1, cell) <=>
                  (s[n + 1] # Garbled => cell = Cell(s[n + 1], "body"))
<1>1. /\ (2 * n) \div 2 + 1 = n + 1 /\ (2 * n) % 2 = 0
      /\ (2 * n + 1) \div 2 + 1 = n + 1 /\ (2 * n + 1) % 2 # 0
  BY Halves
<1>2. Fits(s, 2 * n, cell) <=>
          IF s[n + 1] = Garbled THEN cell.part # "head"
          ELSE cell = Cell(s[n + 1], "head")
  BY <1>1 DEF Fits
<1>3. Fits(s, 2 * n + 1, cell) <=>
          (s[n + 1] # Garbled => cell = Cell(s[n + 1], "body"))
  BY <1>1 DEF Fits
<1>. QED  BY <1>2, <1>3

LEMMA PacketsAre ==
    /\ NoPacket \notin Packets /\ Garbled \notin Packets /\ NoPacket # Garbled
    /\ \A c \in Clients : \A n \in 1..Len(Script[c]) : Packet(c, n) \in Packets
    /\ \A m \in Packets :
           /\ m.from \in Clients
           /\ m = Packet(m.from, m.n)
<1>1. ASSUME NEW c \in Clients, NEW n
      PROVE  Packet(c, n) # NoPacket /\ Packet(c, n) # Garbled
  BY PacketsAssumption DEF Packet, NoPacket, Garbled
<1>2. \A c \in Clients : DOMAIN Script[c] = 1..Len(Script[c])
  BY PacketsAssumption
<1>3. ASSUME NEW m \in Packets
      PROVE  \E c \in Clients : \E n \in DOMAIN Script[c] : m = Packet(c, n)
  BY DEF Packets
<1>4. NoPacket # Garbled
  BY DEF NoPacket, Garbled, Packet
<1>5. \A c, n : Packet(c, n).from = c /\ Packet(c, n).n = n
  BY DEF Packet
<1>6. \A c \in Clients : \A n \in 1..Len(Script[c]) : Packet(c, n) \in Packets
  BY <1>2 DEF Packets
<1>. QED  BY <1>1, <1>3, <1>4, <1>5, <1>6

\* The broadcast finds whom to send to as long as there is anybody.
LEMMA ReceiverIs ==
    ASSUME NEW S \in SUBSET Clients, S # {}
    PROVE  Receiver(S) \in S
<1> USE PacketsAssumption
<1> DEFINE I == {i \in DOMAIN RoomList : RoomList[i] \in S}
           R == OpToRel(<, Nat)
<1>1. I \in SUBSET Nat /\ I # {}
  BY DEF Range
<1>2. PICK i \in I : \A j \in I : ~(<<j, i>> \in R)
  <2>1. IsWellFoundedOn(R, Nat)
    BY NatLessThanWellFounded
  <2> HIDE DEF I, R
  <2>. QED  BY <1>1, <2>1, WFMin
<1>3. \A j \in 1..(i - 1) : RoomList[j] \notin S
  <2> SUFFICES ASSUME NEW j \in 1..(i - 1), RoomList[j] \in S PROVE FALSE
      OBVIOUS
  <2>1. j \in I /\ j < i /\ i \in Nat /\ j \in Nat
    OBVIOUS
  <2>. QED  BY <1>2, <2>1 DEF OpToRel
<1>4. i \in DOMAIN RoomList /\ RoomList[i] \in S
  OBVIOUS
<1>. QED  BY <1>3, <1>4 DEF Receiver

-----------------------------------------------------------------------------
(* The two directions do not disturb each other *)

LEMMA UpKeeps ==
    ASSUME UpInv, UNCHANGED <<wrote, up, heard, loop>>, open' \subseteq open
    PROVE  UpInv'
<1> SUFFICES ASSUME NEW c \in Clients PROVE Coming(c) => Coming(c)'
    BY DEF UpInv
<1>1. Taken(c)' = Taken(c)
  BY DEF Taken
<1>. QED  BY <1>1 DEF Coming

\* The worker may go on, if not in the middle of a packet to one who reads.
LEMMA DownKeeps ==
    ASSUME DownInv, UNCHANGED <<down, inbox, header, sentTo>>,
           broken \subseteq broken',
           \A c \in Clients \ broken' :
               /\ Midway(c)' <=> Midway(c)
               /\ Midway(c) => worker'.packet = worker.packet
    PROVE  DownInv'
<1> SUFFICES ASSUME NEW c \in Clients, Reads(c)' PROVE Going(c)'
    BY DEF DownInv
<1>1. Reads(c) /\ c \notin broken'
  BY DEF Reads
<1>2. Going(c)
  BY <1>1 DEF DownInv
<1>3. Used(c)' = Used(c)
  BY DEF Used
<1>. QED  BY <1>1, <1>2, <1>3 DEF Going

-----------------------------------------------------------------------------
(* The clients *)

IInv == TInv /\ UpInv /\ DownInv

LEMMA InitIInv == Init => IInv
<1> SUFFICES ASSUME Init PROVE IInv
    OBVIOUS
<1>1. TInv
  BY DEF Init, TInv, ClientsOK, BuffersOK, LoopOK, WorkerOK, IdleLoop,
         IdleWorker, Start
<1>2. UpInv
  <2> SUFFICES ASSUME NEW c \in Clients
               PROVE  /\ wrote[c] <= 2 * Len(Script[c])
                      /\ Len(heard[c]) = 0 /\ wrote[c] = 0
                      /\ loop.at = "idle"
                      /\ Coming(c)
      BY PacketsAssumption DEF UpInv
  <2>1. Len(Script[c]) \in Nat
    BY PacketsAssumption
  <2>. QED  BY <2>1 DEF Init, Coming, Taken, IdleLoop
<1>3. DownInv
  <2> SUFFICES ASSUME NEW c \in Clients
               PROVE  /\ Len(inbox[c]) = 0 /\ Len(sentTo[c]) = 0
                      /\ Going(c)
      BY DEF DownInv
  <2>. QED  BY DEF Init, Going, Used, Midway, IdleWorker
<1>. QED  BY <1>1, <1>2, <1>3 DEF IInv

LEMMA WritesStep ==
    ASSUME IInv, NEW c \in Clients, ClientWrites(c)
    PROVE  IInv'
<1> DEFINE cell == Written(c, wrote[c])
<1>1. /\ wrote' = [wrote EXCEPT ![c] = wrote[c] + 1]
      /\ up' = [up EXCEPT ![c] = Append(up[c], cell)]
      /\ UNCHANGED <<inbox, header, broken, down, serverSide>>
      /\ wrote[c] < 2 * Len(Script[c])
  BY DEF ClientWrites, Written
<1>2. cell \in Cells
  <2>1. wrote[c] \in Nat /\ Len(Script[c]) \in Nat
    BY PacketsAssumption DEF IInv, TInv, ClientsOK
  <2>2. wrote[c] \div 2 + 1 \in 1..Len(Script[c])
    BY <1>1, <2>1, Halves
  <2>. QED  BY <2>2, PacketsAre DEF Written, Cell, Cells
<1> HIDE DEF cell
<1>3. TInv'
  <2>1. ClientsOK'
    BY <1>1 DEF IInv, TInv, ClientsOK
  <2>2. BuffersOK'
    BY <1>1, <1>2 DEF IInv, TInv, BuffersOK
  <2>3. LoopOK' /\ WorkerOK'
    BY <1>1 DEF IInv, TInv, LoopOK, WorkerOK, serverSide
  <2>. QED  BY <2>1, <2>2, <2>3 DEF TInv
<1>4. UpInv'
  <2> SUFFICES ASSUME NEW d \in Clients
               PROVE  /\ wrote'[d] <= 2 * Len(Script[d])
                      /\ 2 * Len(heard[d]) <= wrote'[d]
                      /\ Coming(d) => Coming(d)'
      BY <1>1 DEF IInv, UpInv, serverSide
  <2>1. Taken(d)' = Taken(d) /\ Taken(d) \in Nat
    <3>1. Len(heard[d]) \in Nat
      BY DEF IInv, TInv, LoopOK
    <3>2. heard' = heard /\ loop' = loop
      BY <1>1 DEF serverSide
    <3>. QED  BY <3>1, <3>2 DEF Taken
  <2>2. CASE d # c
    <3>1. wrote'[d] = wrote[d] /\ up'[d] = up[d]
      BY <1>1, <2>2 DEF IInv, TInv, ClientsOK, BuffersOK
    <3>. QED  BY <2>1, <3>1 DEF IInv, UpInv, Coming
  <2>3. CASE d = c
    <3>1. /\ wrote[c] \in Nat /\ Len(heard[c]) \in Nat
          /\ Len(Script[c]) \in Nat /\ up[c] \in Seq(Cells)
          /\ wrote'[c] = wrote[c] + 1 /\ up'[c] = Append(up[c], cell)
      BY <1>1, PacketsAssumption
      DEF IInv, TInv, ClientsOK, BuffersOK, LoopOK
    <3>2. ASSUME Coming(c) PROVE Coming(c)'
      <4>1. Len(up'[c]) = Len(up[c]) + 1
        BY <1>2, <3>1
      <4>2. ASSUME NEW i \in 1..(Len(up[c]) + 1)
            PROVE  up'[c][i] = Written(c, Taken(c) + i - 1)
        <5>1. CASE i = Len(up[c]) + 1
          <6>1. Taken(c) + i - 1 = wrote[c]
            BY <2>1, <2>3, <3>1, <3>2, <5>1 DEF Coming
          <6>2. up'[c][i] = cell
            BY <3>1, <5>1
          <6>. QED  BY <6>1, <6>2 DEF cell
        <5>2. CASE i \in 1..Len(up[c])
          BY <3>1, <3>2, <5>2, <1>2 DEF Coming
        <5>. QED  BY <5>1, <5>2, <3>1
      <4>3. Len(up'[c]) + Taken(c) = wrote'[c]
        BY <2>1, <2>3, <3>1, <3>2, <4>1 DEF Coming
      <4>. QED  BY <2>1, <2>3, <4>1, <4>2, <4>3 DEF Coming
    <3>. QED  BY <2>3, <3>1, <3>2, <1>1 DEF IInv, UpInv
  <2>. QED  BY <2>2, <2>3
<1>5. DownInv'
  BY <1>1, DownKeeps DEF IInv, serverSide, Midway
<1>. QED  BY <1>3, <1>4, <1>5 DEF IInv

LEMMA BreaksStep ==
    ASSUME IInv, NEW c \in Clients, Breaks(c)
    PROVE  IInv'
<1>1. UNCHANGED <<wrote, inbox, header, buffers, serverSide>>
  BY DEF Breaks
<1>2. TInv'
  BY <1>1 DEF Breaks, IInv, TInv, ClientsOK, BuffersOK, LoopOK, WorkerOK,
              buffers, serverSide
<1>3. UpInv'
  BY <1>1, UpKeeps DEF IInv, buffers, serverSide
<1>4. DownInv'
  BY <1>1, DownKeeps DEF Breaks, IInv, buffers, serverSide, Midway
<1>. QED  BY <1>2, <1>3, <1>4 DEF IInv

LEMMA ReadsStep ==
    ASSUME IInv, NEW c \in Clients, ClientReads(c)
    PROVE  /\ IInv'
           /\ \/ UNCHANGED inbox
              \/ /\ Len(inbox[c]) < Len(sentTo[c])
                 /\ inbox' = [inbox EXCEPT ![c] =
                                 Append(@, sentTo[c][Len(@) + 1])]
<1> DEFINE s == sentTo[c]
           n == Len(inbox[c])
           cell == Head(down[c])
<1>1. /\ down[c] # << >> /\ Reads(c)
      /\ down' = [down EXCEPT ![c] = Tail(down[c])]
      /\ UNCHANGED <<wrote, broken, up, serverSide>>
  BY DEF ClientReads, Reads
<1>2. /\ UNCHANGED <<wrote, broken, up>>
      /\ UNCHANGED <<open, loop, heard, jobs, worker, sentTo>>
  BY <1>1 DEF serverSide
<1>3. /\ down[c] \in Seq(Cells) /\ cell \in Cells
      /\ Tail(down[c]) \in Seq(Cells)
      /\ Len(Tail(down[c])) = Len(down[c]) - 1
      /\ \A i \in 1..(Len(down[c]) - 1) : Tail(down[c])[i] = down[c][i + 1]
      /\ cell = down[c][1] /\ Len(down[c]) \in Nat \ {0}
  BY <1>1 DEF IInv, TInv, BuffersOK
<1>4. /\ inbox[c] \in Seq(Packets \cup {Garbled}) /\ n \in Nat
      /\ header[c] \in Packets \cup {NoPacket}
      /\ s \in Seq(Packets \cup {Garbled}) /\ Len(s) \in Nat
  BY DEF IInv, TInv, ClientsOK, WorkerOK
<1>5. Going(c) /\ n <= Len(s) /\ \A i \in 1..n : inbox[c][i] = s[i]
  BY <1>1 DEF IInv, DownInv
<1>6. Fits(s, Used(c), cell) /\ Used(c) \in Nat
  <2>1. Used(c) \in Nat
    BY <1>4 DEF Used
  <2>2. Fits(s, Used(c) + 1 - 1, down[c][1])
    BY <1>3, <1>5 DEF Going
  <2>. QED  BY <1>3, <2>1, <2>2
<1>7. n < Len(s)
  <2>1. Len(down[c]) + Used(c) <= 2 * Len(s)
    BY <1>4, <1>5 DEF Going
  <2>2. 2 * n <= Used(c)
    BY <1>4 DEF Used
  <2>. QED  BY <1>3, <1>4, <1>6, <2>1, <2>2
<1>8. \/ /\ header[c] = NoPacket /\ inbox' = inbox
         /\ s[n + 1] \in Packets
         /\ header' = [header EXCEPT ![c] = s[n + 1]]
      \/ /\ inbox' = [inbox EXCEPT ![c] = Append(inbox[c], Garbled)]
         /\ s[n + 1] = Garbled /\ header' = header
      \/ /\ header[c] # NoPacket
         /\ inbox' = [inbox EXCEPT ![c] = Append(inbox[c], s[n + 1])]
         /\ s[n + 1] \in Packets
         /\ header' = [header EXCEPT ![c] = NoPacket]
  <2>1. s[n + 1] \in Packets \cup {Garbled}
    BY <1>4, <1>7
  <2>2. CASE header[c] = NoPacket
    <3>1. Used(c) = 2 * n
      BY <1>4, <2>2 DEF Used
    <3>3. IF s[n + 1] = Garbled THEN cell.part # "head"
          ELSE cell = Cell(s[n + 1], "head")
      BY <1>4, <1>6, <3>1, FitsIs
    <3>4. cell.part # "head" => s[n + 1] = Garbled
      BY <3>3 DEF Cell
    <3>5. cell.part = "head" => s[n + 1] \in Packets /\ cell.packet = s[n + 1]
      BY <2>1, <3>3 DEF Cell
    <3>. QED  BY <2>2, <3>4, <3>5 DEF ClientReads
  <2>3. CASE header[c] # NoPacket
    <3>1. Used(c) = 2 * n + 1
      BY <1>4, <2>3 DEF Used
    <3>3. header[c] = s[n + 1]
      BY <1>5, <2>3 DEF Going
    <3>4. s[n + 1] \in Packets /\ s[n + 1] # Garbled
      BY <1>4, <2>3, <3>3, PacketsAre
    <3>5. cell = Cell(header[c], "body")
      <4>1. s[n + 1] # Garbled => cell = Cell(s[n + 1], "body")
        BY <1>4, <1>6, <3>1, FitsIs
      <4>. QED  BY <3>3, <3>4, <4>1
    <3>6. Whole(header[c], cell) = s[n + 1]
      BY <3>3, <3>5 DEF Whole
    <3>. QED  BY <2>3, <3>4, <3>6 DEF ClientReads
  <2>. QED  BY <2>2, <2>3
<1> HIDE DEF s, n, cell
<1>9. TInv'
  <2>1. ClientsOK'
    <3>1. /\ Append(inbox[c], Garbled) \in Seq(Packets \cup {Garbled})
          /\ s[n + 1] \in Packets =>
                 Append(inbox[c], s[n + 1]) \in Seq(Packets \cup {Garbled})
      BY <1>4
    <3>2. inbox' \in [Clients -> Seq(Packets \cup {Garbled})]
      BY <1>8, <3>1 DEF IInv, TInv, ClientsOK
    <3>3. header' \in [Clients -> Packets \cup {NoPacket}]
      BY <1>8 DEF IInv, TInv, ClientsOK
    <3>. QED  BY <1>2, <3>2, <3>3 DEF IInv, TInv, ClientsOK
  <2>2. BuffersOK'
    BY <1>1, <1>2, <1>3 DEF IInv, TInv, BuffersOK
  <2>. QED  BY <1>2, <2>1, <2>2 DEF IInv, TInv, LoopOK, WorkerOK
<1>10. UpInv'
  BY <1>2, UpKeeps DEF IInv
<1>11. DownInv'
  <2> SUFFICES ASSUME NEW d \in Clients
               PROVE  /\ Len(inbox'[d]) <= Len(sentTo[d])
                      /\ \A i \in 1..Len(inbox'[d]) :
                             inbox'[d][i] = sentTo[d][i]
                      /\ Reads(d)' => Going(d)'
      BY <1>2 DEF DownInv
  <2>1. CASE d # c
    <3>1. inbox'[d] = inbox[d] /\ header'[d] = header[d] /\ down'[d] = down[d]
      BY <1>1, <1>8, <2>1 DEF IInv, TInv, ClientsOK, BuffersOK
    <3>2. Used(d)' = Used(d) /\ Midway(d)' = Midway(d) /\ Reads(d)' = Reads(d)
      BY <1>2, <3>1 DEF Used, Midway, Reads
    <3>. QED  BY <1>2, <3>1, <3>2 DEF IInv, DownInv, Going
  <2>2. CASE d = c
    <3>1. down'[c] = Tail(down[c])
      BY <1>1 DEF IInv, TInv, BuffersOK
    <3>2. Midway(c)' = Midway(c)
      BY <1>2 DEF Midway
    <3>3. ASSUME Used(c)' = Used(c) + 1,
                 header'[c] # NoPacket =>
                     header'[c] = s[Len(inbox'[c]) + 1]
          PROVE  Going(c)'
      <4>1. \A i \in 1..Len(down'[c]) :
                Fits(sentTo'[c], Used(c)' + i - 1, down'[c][i])
        BY <1>2, <1>3, <1>5, <1>6, <3>1, <3>3 DEF Going, s
      <4>2. Len(down'[c]) + Used(c)' =
                IF Midway(c)' THEN 2 * Len(sentTo'[c]) - 1
                ELSE 2 * Len(sentTo'[c])
        BY <1>2, <1>3, <1>5, <1>6, <3>1, <3>2, <3>3 DEF Going, s
      <4>3. Midway(c)' =>
                sentTo'[c][Len(sentTo'[c])] \in {Garbled, worker'.packet}
        BY <1>2, <1>5, <3>2 DEF Going, s
      <4>. QED  BY <1>2, <3>3, <4>1, <4>2, <4>3 DEF Going, s
    <3>4. CASE /\ header[c] = NoPacket /\ inbox' = inbox
               /\ s[n + 1] \in Packets
               /\ header' = [header EXCEPT ![c] = s[n + 1]]
      <4>1. header'[c] = s[n + 1] /\ header'[c] # NoPacket
        BY <3>4, PacketsAre DEF IInv, TInv, ClientsOK
      <4>2. Used(c)' = Used(c) + 1
        BY <1>4, <3>4, <4>1 DEF Used, n
      <4>3. Going(c)'
        BY <3>3, <3>4, <4>1, <4>2 DEF n
      <4>. QED  BY <1>5, <2>2, <3>4, <4>3 DEF s, n
    <3>5. CASE /\ inbox' = [inbox EXCEPT ![c] = Append(inbox[c], Garbled)]
               /\ s[n + 1] = Garbled /\ header' = header
      <4>1. inbox'[c] = Append(inbox[c], Garbled)
        BY <3>5 DEF IInv, TInv, ClientsOK
      <4>2. /\ Len(inbox'[c]) = n + 1 /\ inbox'[c][n + 1] = Garbled
            /\ \A i \in 1..n : inbox'[c][i] = inbox[c][i]
            /\ DOMAIN inbox'[c] = 1..(n + 1)
        BY <1>4, <4>1 DEF n
      <4>3. ~Reads(c)'
        BY <1>4, <4>2 DEF Reads, Range
      <4>4. \A i \in 1..(n + 1) : inbox'[c][i] = s[i]
        <5>1. s[n + 1] = Garbled
          BY <3>5
        <5>. QED  BY <1>4, <1>5, <4>2, <5>1
      <4>. QED  BY <1>4, <1>7, <2>2, <4>2, <4>3, <4>4 DEF s
    <3>6. CASE /\ header[c] # NoPacket
               /\ inbox' = [inbox EXCEPT ![c] = Append(inbox[c], s[n + 1])]
               /\ s[n + 1] \in Packets
               /\ header' = [header EXCEPT ![c] = NoPacket]
      <4>1. inbox'[c] = Append(inbox[c], s[n + 1]) /\ header'[c] = NoPacket
        BY <3>6 DEF IInv, TInv, ClientsOK
      <4>2. /\ Len(inbox'[c]) = n + 1 /\ inbox'[c][n + 1] = s[n + 1]
            /\ \A i \in 1..n : inbox'[c][i] = inbox[c][i]
        BY <1>4, <3>6, <4>1 DEF n
      <4>3. Used(c)' = Used(c) + 1
        BY <1>4, <3>6, <4>1, <4>2 DEF Used, n
      <4>4. \A i \in 1..(n + 1) : inbox'[c][i] = s[i]
        BY <1>4, <1>5, <4>2
      <4>. QED  BY <1>4, <1>7, <2>2, <3>3, <4>1, <4>2, <4>3, <4>4 DEF s
    <3>. QED  BY <1>8, <3>4, <3>5, <3>6
  <2>. QED  BY <2>1, <2>2
<1>12. \/ UNCHANGED inbox
       \/ /\ n < Len(s)
          /\ inbox' = [inbox EXCEPT ![c] = Append(inbox[c], s[n + 1])]
  BY <1>7, <1>8
<1>. QED  BY <1>9, <1>10, <1>11, <1>12 DEF IInv, s, n

-----------------------------------------------------------------------------
(* The loop *)

\* What the head of a buffer is.
LEMMA ComingHead ==
    ASSUME IInv, NEW c \in Clients, Coming(c), up[c] # << >>
    PROVE  /\ Head(up[c]) = Written(c, Taken(c)) /\ Head(up[c]) \in Cells
           /\ Tail(up[c]) \in Seq(Cells) /\ Taken(c) \in Nat
           /\ Len(Tail(up[c])) + Taken(c) + 1 = wrote[c]
           /\ \A i \in 1..Len(Tail(up[c])) :
                  Tail(up[c])[i] = Written(c, Taken(c) + 1 + i - 1)
<1>1. up[c] \in Seq(Cells) /\ Len(up[c]) \in Nat \ {0}
  BY DEF IInv, TInv, BuffersOK
<1>2. Taken(c) \in Nat
  <2>1. Len(heard[c]) \in Nat
    BY DEF IInv, TInv, LoopOK
  <2>. QED  BY <2>1 DEF Taken
<1>3. up[c][1] = Written(c, Taken(c))
  <2>1. up[c][1] = Written(c, Taken(c) + 1 - 1)
    BY <1>1 DEF Coming
  <2>2. Taken(c) + 1 - 1 = Taken(c)
    BY <1>2
  <2>. QED  BY <2>1, <2>2
<1>4. /\ Tail(up[c]) \in Seq(Cells) /\ Len(Tail(up[c])) = Len(up[c]) - 1
      /\ \A i \in 1..(Len(up[c]) - 1) : Tail(up[c])[i] = up[c][i + 1]
  BY <1>1
<1>5. wrote[c] = Len(up[c]) + Taken(c)
  BY DEF Coming
<1>6. ASSUME NEW i \in 1..(Len(up[c]) - 1)
      PROVE  Tail(up[c])[i] = Written(c, Taken(c) + 1 + i - 1)
  <2>1. up[c][i + 1] = Written(c, Taken(c) + (i + 1) - 1)
    BY <1>1 DEF Coming
  <2>2. Taken(c) + (i + 1) - 1 = Taken(c) + 1 + i - 1
    BY <1>2
  <2>. QED  BY <1>4, <2>1, <2>2
<1>. QED  BY <1>1, <1>2, <1>3, <1>4, <1>5, <1>6

\* A cell leaves the buffer.
LEMMA ComingGoesOn ==
    ASSUME IInv, NEW c \in Clients, Coming(c), up[c] # << >>,
           up'[c] = Tail(up[c]), wrote' = wrote, Taken(c)' = Taken(c) + 1
    PROVE  Coming(c)'
<1> DEFINE t == Tail(up[c])
<1>1. /\ t \in Seq(Cells) /\ Taken(c) \in Nat
      /\ Len(t) + Taken(c) + 1 = wrote[c]
      /\ \A i \in 1..Len(t) : t[i] = Written(c, Taken(c) + 1 + i - 1)
  <2> HIDE DEF t
  <2>. QED  BY ComingHead DEF t
<1> HIDE DEF t
<1>2. Len(t) \in Nat
  BY <1>1
<1>3. up'[c] = t
  BY DEF t
<1>4. Len(up'[c]) + Taken(c)' = wrote'[c]
  <2>1. \A j, k \in Nat : j + (k + 1) = j + k + 1
    OBVIOUS
  <2>. QED  BY <1>1, <1>2, <1>3, <2>1
<1>5. ASSUME NEW i \in 1..Len(up'[c])
      PROVE  up'[c][i] = Written(c, Taken(c)' + i - 1)
  <2>1. up'[c][i] = Written(c, Taken(c) + 1 + i - 1)
    BY <1>1, <1>3
  <2>2. Taken(c)' + i - 1 = Taken(c) + 1 + i - 1
    OBVIOUS
  <2>. QED  BY <2>1, <2>2
<1>. QED  BY <1>4, <1>5 DEF Coming

LEMMA HeaderStep ==
    ASSUME IInv, NEW c \in Clients, ReadHeader(c)
    PROVE  IInv'
<1> DEFINE n == Len(heard[c])
<1>1. /\ loop.at = "idle" /\ c \in open /\ up[c] # << >>
      /\ up' = [up EXCEPT ![c] = Tail(up[c])]
      /\ loop' = [at |-> "body", of |-> c, packet |-> Head(up[c]).packet]
      /\ UNCHANGED <<wrote, inbox, header, broken>>
      /\ UNCHANGED <<down, open, heard, jobs, worker, sentTo>>
  BY DEF ReadHeader, IdleLoop, clientSide
<1>2. Coming(c) /\ n \in Nat /\ Taken(c) = 2 * n
  BY <1>1 DEF IInv, UpInv, TInv, LoopOK, Taken
<1>3. Head(up[c]).packet = Packet(c, n + 1) /\ Head(up[c]) \in Cells
  <2>1. Head(up[c]) = Written(c, Taken(c)) /\ Head(up[c]) \in Cells
    BY <1>1, <1>2, ComingHead
  <2>2. Written(c, 2 * n) = Cell(Packet(c, n + 1), "head")
    BY <1>2, WrittenIs
  <2>3. Head(up[c]) = Cell(Packet(c, n + 1), "head")
    BY <1>2, <2>1, <2>2
  <2>. QED  BY <2>1, <2>3 DEF Cell
<1>4. TInv'
  <2>1. LoopOK'
    BY <1>1, <1>3 DEF IInv, TInv, LoopOK, Cells
  <2>2. BuffersOK'
    BY <1>1, <1>2, ComingHead DEF IInv, TInv, BuffersOK
  <2>. QED  BY <1>1, <2>1, <2>2 DEF IInv, TInv, ClientsOK, WorkerOK
<1>5. UpInv'
  <2> SUFFICES ASSUME NEW d \in Clients
               PROVE  /\ d \in open \/ d = c => Coming(d)'
                      /\ d = c => loop'.packet = Packet(c, n + 1)
      BY <1>1 DEF IInv, UpInv
  <2>1. CASE d # c
    <3>1. up'[d] = up[d] /\ Taken(d)' = Taken(d)
      BY <1>1, <2>1 DEF IInv, TInv, BuffersOK, Taken
    <3>. QED  BY <1>1, <2>1, <3>1 DEF IInv, UpInv, Coming
  <2>2. CASE d = c
    <3>1. up'[c] = Tail(up[c])
      BY <1>1 DEF IInv, TInv, BuffersOK
    <3>2. Taken(c)' = Taken(c) + 1
      BY <1>1, <1>2 DEF Taken
    <3>3. Coming(c)'
      BY <1>1, <1>2, <3>1, <3>2, ComingGoesOn
    <3>. QED  BY <1>1, <1>3, <2>2, <3>3
  <2>. QED  BY <2>1, <2>2
<1>6. DownInv'
  BY <1>1, DownKeeps DEF IInv, Midway
<1>. QED  BY <1>4, <1>5, <1>6 DEF IInv

LEMMA BodyStep ==
    ASSUME IInv, ReadBody, NEW c \in Clients, loop.of = c
    PROVE  /\ IInv'
           /\ 2 * Len(heard[c]) + 2 <= wrote[c]
           /\ heard' = [heard EXCEPT ![c] =
                           Append(@, Packet(c, Len(@) + 1))]
<1> DEFINE n == Len(heard[c])
           m == Packet(c, n + 1)
<1>1. /\ loop.at = "body" /\ up[c] # << >>
      /\ up' = [up EXCEPT ![c] = Tail(up[c])]
      /\ UNCHANGED <<wrote, inbox, header, broken>>
      /\ UNCHANGED <<down, open, jobs, worker, sentTo>>
  BY DEF ReadBody, clientSide
<1>3. /\ Coming(c) /\ n \in Nat /\ Taken(c) = 2 * n + 1
      /\ loop.packet = m /\ m \in Packets
  BY <1>1 DEF IInv, UpInv, TInv, LoopOK, Taken
<1>4. Head(up[c]) = Cell(m, "body")
  BY <1>1, <1>3, ComingHead, WrittenIs
<1>5. /\ heard' = [heard EXCEPT ![c] = Append(heard[c], m)]
      /\ loop' = [loop EXCEPT !.at = "submit", !.packet = m]
  BY <1>3, <1>4 DEF ReadBody, Whole
<1>6. 2 * n + 2 <= wrote[c]
  <2>1. Len(Tail(up[c])) + Taken(c) + 1 = wrote[c] /\ Len(Tail(up[c])) \in Nat
    <3>1. /\ Tail(up[c]) \in Seq(Cells)
          /\ Len(Tail(up[c])) + Taken(c) + 1 = wrote[c]
      BY <1>1, <1>3, ComingHead
    <3>. QED  BY <3>1
  <2>2. wrote[c] = Len(Tail(up[c])) + (2 * n + 1) + 1
    BY <1>3, <2>1
  <2>3. \A j, k \in Nat : 2 * k + 2 <= j + (2 * k + 1) + 1
    OBVIOUS
  <2>. QED  BY <1>3, <2>1, <2>2, <2>3
<1>7. /\ heard[c] \in Seq(Packets) /\ Append(heard[c], m) \in Seq(Packets)
      /\ Len(Append(heard[c], m)) = n + 1
      /\ \A i \in 1..n : Append(heard[c], m)[i] = heard[c][i]
      /\ Append(heard[c], m)[n + 1] = m
  BY <1>3 DEF IInv, TInv, LoopOK
<1> HIDE DEF m
<1>8. TInv'
  <2>1. LoopOK'
    BY <1>1, <1>3, <1>5, <1>7 DEF IInv, TInv, LoopOK
  <2>2. BuffersOK'
    BY <1>1, <1>3, ComingHead DEF IInv, TInv, BuffersOK
  <2>. QED  BY <1>1, <2>1, <2>2 DEF IInv, TInv, ClientsOK, WorkerOK
<1>9. loop'.at # "body"
  BY <1>5 DEF IInv, TInv, LoopOK
<1>10. UpInv'
  <2> SUFFICES ASSUME NEW d \in Clients
               PROVE  /\ 2 * Len(heard'[d]) <= wrote[d]
                      /\ \A i \in 1..Len(heard'[d]) :
                             heard'[d][i] = Packet(d, i)
                      /\ d \in open => Coming(d)'
      BY <1>1, <1>9 DEF IInv, UpInv
  <2>1. CASE d # c
    <3>1. /\ up'[d] = up[d] /\ heard'[d] = heard[d] /\ Taken(d)' = Taken(d)
      BY <1>1, <1>5, <1>9, <2>1
      DEF IInv, TInv, BuffersOK, LoopOK, Taken
    <3>. QED  BY <1>1, <2>1, <3>1 DEF IInv, UpInv, Coming
  <2>2. CASE d = c
    <3>1. up'[c] = Tail(up[c]) /\ heard'[c] = Append(heard[c], m)
      BY <1>1, <1>5 DEF IInv, TInv, BuffersOK, LoopOK
    <3>2. Taken(c)' = Taken(c) + 1
      <4>1. Len(heard'[c]) = n + 1
        BY <1>7, <3>1
      <4>2. Taken(c)' = 2 * Len(heard'[c])
        BY <1>9 DEF Taken
      <4>. QED  BY <1>3, <4>1, <4>2
    <3>3. Coming(c)'
      BY <1>1, <1>3, <3>1, <3>2, ComingGoesOn
    <3>4. \A i \in 1..(n + 1) : heard'[c][i] = Packet(c, i)
      BY <1>3, <1>7, <3>1 DEF IInv, UpInv, m
    <3>5. Len(heard'[c]) = n + 1 /\ 2 * (n + 1) <= wrote[c]
      BY <1>3, <1>6, <1>7, <3>1
    <3>. QED  BY <2>2, <3>3, <3>4, <3>5
  <2>. QED  BY <2>1, <2>2
<1>11. DownInv'
  BY <1>1, DownKeeps DEF IInv, Midway
<1>. QED  BY <1>5, <1>6, <1>8, <1>10, <1>11 DEF IInv, m

LEMMA FailsStep == ASSUME IInv, ReadFails PROVE IInv'
<1>1. PICK c \in broken :
          /\ \/ loop.at = "idle" /\ c \in open
             \/ loop.at = "body" /\ loop.of = c
          /\ open' = open \ {c}
          /\ loop' = IdleLoop
          /\ UNCHANGED <<clientSide, buffers, heard, jobs, worker, sentTo>>
  BY DEF ReadFails
<1>2. UNCHANGED <<wrote, inbox, header, broken, up, down>>
  BY <1>1 DEF clientSide, buffers
<1>3. TInv'
  BY <1>1, <1>2
  DEF IInv, TInv, ClientsOK, BuffersOK, LoopOK, WorkerOK, IdleLoop
<1>4. UpInv'
  <2> SUFFICES ASSUME NEW d \in Clients, d \in open'
               PROVE  Coming(d)'
      BY <1>1, <1>2 DEF IInv, UpInv, IdleLoop
  <2>1. Coming(d)
    BY <1>1 DEF IInv, UpInv
  <2>2. Taken(d)' = Taken(d)
    BY <1>1 DEF Taken, IdleLoop
  <2>. QED  BY <1>2, <2>1, <2>2 DEF Coming
<1>5. DownInv'
  BY <1>1, <1>2, DownKeeps DEF IInv, Midway
<1>. QED  BY <1>3, <1>4, <1>5 DEF IInv

LEMMA SubmitStep == ASSUME IInv, Submit PROVE IInv'
<1>1. /\ UNCHANGED <<wrote, inbox, header, broken, up, down>>
      /\ UNCHANGED <<open, heard, worker, sentTo>>
      /\ loop.at = "submit" /\ loop' = IdleLoop
      /\ jobs' = Append(jobs, loop.packet)
  BY DEF Submit, clientSide, buffers
<1>2. TInv'
  BY <1>1 DEF IInv, TInv, ClientsOK, BuffersOK, LoopOK, WorkerOK, IdleLoop
<1>3. UpInv'
  <2> SUFFICES ASSUME NEW d \in Clients, d \in open
               PROVE  Coming(d)'
      BY <1>1 DEF IInv, UpInv, IdleLoop
  <2>1. Coming(d)
    BY DEF IInv, UpInv
  <2>2. Taken(d)' = Taken(d)
    BY <1>1 DEF Taken, IdleLoop
  <2>. QED  BY <1>1, <2>1, <2>2 DEF Coming
<1>4. DownInv'
  BY <1>1, DownKeeps DEF IInv, Midway
<1>. QED  BY <1>2, <1>3, <1>4 DEF IInv

-----------------------------------------------------------------------------
(* The worker *)

LEMMA SendingIs ==
    ASSUME NEW m \in Packets, NEW to \in SUBSET Clients,
           NEW cursor \in {Start, Body, End}, worker' = Sending(m, to, cursor),
           WorkerOK, jobs' \in Seq(Packets),
           sentTo' \in [Clients -> Seq(Packets \cup {Garbled})]
    PROVE  WorkerOK' /\ worker'.at # "body"
BY DEF WorkerOK, Sending, IdleWorker, Start

LEMMA ProcessStep == ASSUME IInv, Process PROVE IInv'
<1> DEFINE m == Head(jobs)
<1>1. /\ UNCHANGED <<wrote, inbox, header, broken, up, down>>
      /\ UNCHANGED <<open, loop, heard, sentTo>>
      /\ worker = IdleWorker /\ jobs # << >> /\ jobs' = Tail(jobs)
  BY DEF Process, clientSide, buffers
<1>2. m \in Packets /\ Tail(jobs) \in Seq(Packets) /\ m.from \in Clients
  BY <1>1, PacketsAre DEF IInv, TInv, WorkerOK
<1>3. \/ UNCHANGED worker
      \/ \E to \in SUBSET Clients : \E cursor \in {Start, Body, End} :
             worker' = Sending(m, to, cursor)
  <2>1. open \ {m.from} \in SUBSET Clients /\ {m.from} \in SUBSET Clients
    BY <1>2 DEF IInv, TInv, LoopOK
  <2> HIDE DEF m
  <2>. QED  BY <2>1 DEF Process, m
<1> HIDE DEF m
<1>4. WorkerOK' /\ worker'.at # "body"
  <2>1. CASE UNCHANGED worker
    BY <1>1, <1>2, <2>1 DEF IInv, TInv, WorkerOK, IdleWorker
  <2>2. CASE \E to \in SUBSET Clients : \E cursor \in {Start, Body, End} :
                worker' = Sending(m, to, cursor)
    BY <1>1, <1>2, <2>2, SendingIs DEF IInv, TInv, WorkerOK
  <2>. QED  BY <1>3, <2>1, <2>2
<1>5. TInv'
  BY <1>1, <1>4 DEF IInv, TInv, ClientsOK, BuffersOK, LoopOK
<1>6. UpInv'
  BY <1>1, UpKeeps DEF IInv
<1>7. DownInv'
  BY <1>1, <1>4, DownKeeps DEF IInv, Midway, IdleWorker
<1>. QED  BY <1>5, <1>6, <1>7 DEF IInv

LEMMA WriteFailsStep == ASSUME IInv, WriteFails PROVE IInv'
<1> DEFINE c == Receiver(worker.to)
<1>1. /\ UNCHANGED <<wrote, inbox, header, broken, up, down>>
      /\ UNCHANGED <<loop, heard, jobs, sentTo>>
      /\ c \in broken /\ open' = open \ {c} /\ worker' = IdleWorker
  BY DEF WriteFails, clientSide, buffers
<1> HIDE DEF c
<1>2. TInv'
  BY <1>1
  DEF IInv, TInv, ClientsOK, BuffersOK, LoopOK, WorkerOK, IdleWorker, Start
<1>3. UpInv'
  BY <1>1, UpKeeps DEF IInv
<1>4. \A d \in Clients \ broken' : ~Midway(d) /\ ~Midway(d)'
  BY <1>1 DEF Midway, IdleWorker, c
<1>5. DownInv'
  BY <1>1, <1>4, DownKeeps DEF IInv
<1>. QED  BY <1>2, <1>3, <1>5 DEF IInv

\* What fits still does when more is sent.
LEMMA FitsStays ==
    ASSUME NEW S, NEW s \in Seq(S), NEW x \in S, NEW cell,
           NEW n \in Nat, n < 2 * Len(s), Fits(s, n, cell)
    PROVE  Fits(Append(s, x), n, cell)
<1>1. n \div 2 + 1 \in 1..Len(s)
  <2>1. Len(s) \in Nat
    OBVIOUS
  <2>. QED  BY <2>1, Halves
<1>2. Append(s, x)[n \div 2 + 1] = s[n \div 2 + 1]
  BY <1>1
<1>. QED  BY <1>2 DEF Fits

\* A cell that goes to a client that reads.
LEMMA PutIs ==
    ASSUME IInv, NEW c \in Clients, NEW cell \in Cells, Put(c, cell)
    PROVE  /\ BuffersOK' <=> up' \in [Clients -> Seq(Cells)]
           /\ \A d \in Clients : d # c => down'[d] = down[d]
           /\ c \notin broken =>
                  /\ Len(down[c]) \in Nat
                  /\ Len(down'[c]) = Len(down[c]) + 1
                  /\ down'[c][Len(down[c]) + 1] = cell
                  /\ \A i \in 1..Len(down[c]) : down'[c][i] = down[c][i]
<1>1. /\ down[c] \in Seq(Cells) /\ Append(down[c], cell) \in Seq(Cells)
      /\ Len(Append(down[c], cell)) = Len(down[c]) + 1
      /\ Append(down[c], cell)[Len(down[c]) + 1] = cell
      /\ \A i \in 1..Len(down[c]) : Append(down[c], cell)[i] = down[c][i]
      /\ Len(down[c]) \in Nat
  BY DEF IInv, TInv, BuffersOK
<1>2. CASE c \in broken
  BY <1>2 DEF Put, IInv, TInv, BuffersOK
<1>3. CASE c \notin broken
  <2>1. down' = [down EXCEPT ![c] = Append(down[c], cell)]
    BY <1>3 DEF Put
  <2>2. down' \in [Clients -> Seq(Cells)]
    BY <1>1, <2>1 DEF IInv, TInv, BuffersOK
  <2>3. /\ down'[c] = Append(down[c], cell)
        /\ \A d \in Clients : d # c => down'[d] = down[d]
    BY <2>1 DEF IInv, TInv, BuffersOK
  <2>. QED  BY <1>1, <2>2, <2>3 DEF BuffersOK
<1>. QED  BY <1>2, <1>3

LEMMA WriteHeaderStep ==
    ASSUME IInv, WriteHeader, NEW c \in Clients, c = Receiver(worker.to)
    PROVE  /\ IInv'
           /\ \E x \in Packets \cup {Garbled} :
                  sentTo' = [sentTo EXCEPT ![c] = Append(@, x)]
<1> DEFINE m == worker.packet
           s == sentTo[c]
           part == CASE worker.cursor = Start -> "head"
                     [] worker.cursor = Body -> "body"
                     [] worker.cursor = End -> "zeros"
           x == IF part = "head" THEN m ELSE Garbled
           cell == Cell(m, part)
<1>1. /\ worker.at = "head" /\ Put(c, cell)
      /\ sentTo' = [sentTo EXCEPT ![c] = Append(s, x)]
      /\ worker' = [worker EXCEPT !.at = "body"]
  BY DEF WriteHeader
<1>2. /\ UNCHANGED <<wrote, inbox, header, broken, up>>
      /\ UNCHANGED <<open, loop, heard, jobs>>
  BY DEF WriteHeader, clientSide
<1>3. m \in Packets /\ m # Garbled /\ part \in {"head", "body", "zeros"}
  BY <1>1, PacketsAre DEF IInv, TInv, WorkerOK, Start, Body, End
<1>4. x \in Packets \cup {Garbled} /\ cell \in Cells
  BY <1>3 DEF Cells, Cell
<1>5. IF x = Garbled THEN cell.part # "head" ELSE cell = Cell(x, "head")
  BY <1>3 DEF Cell
<1>6. x \in {Garbled, m}
  OBVIOUS
<1>7. /\ s \in Seq(Packets \cup {Garbled}) /\ Len(s) \in Nat
      /\ Append(s, x) \in Seq(Packets \cup {Garbled})
      /\ Len(Append(s, x)) = Len(s) + 1 /\ Append(s, x)[Len(s) + 1] = x
      /\ \A i \in 1..Len(s) : Append(s, x)[i] = s[i]
  BY <1>4 DEF IInv, TInv, WorkerOK
<1> HIDE DEF x, cell, part
<1>8. /\ sentTo'[c] = Append(s, x)
      /\ \A d \in Clients : d # c => sentTo'[d] = sentTo[d]
  BY <1>1 DEF IInv, TInv, WorkerOK
<1>9. worker' = [at |-> "body", packet |-> m, to |-> worker.to,
                 cursor |-> worker.cursor]
  BY <1>1 DEF IInv, TInv, WorkerOK
<1>10. WorkerOK'
  BY <1>1, <1>2, <1>7, <1>9 DEF IInv, TInv, WorkerOK
<1>11. TInv'
  <2>1. BuffersOK'
    BY <1>1, <1>2, <1>4, PutIs DEF IInv, TInv, BuffersOK
  <2>. QED  BY <1>2, <1>10, <2>1 DEF IInv, TInv, ClientsOK, LoopOK
<1>12. UpInv'
  BY <1>2, UpKeeps DEF IInv
<1>13. DownInv'
  <2> SUFFICES ASSUME NEW d \in Clients
               PROVE  /\ Len(inbox[d]) <= Len(sentTo'[d])
                      /\ \A i \in 1..Len(inbox[d]) :
                             inbox[d][i] = sentTo'[d][i]
                      /\ Reads(d)' => Going(d)'
      BY <1>2 DEF DownInv
  <2>1. Used(d)' = Used(d) /\ Reads(d)' = Reads(d)
    BY <1>2 DEF Used, Reads
  <2>2. CASE d # c
    <3>1. ~Midway(d)' /\ ~Midway(d)
      BY <1>1, <1>9, <2>2 DEF Midway
    <3>2. down'[d] = down[d] /\ sentTo'[d] = sentTo[d]
      BY <1>1, <1>4, <1>8, <2>2, PutIs
    <3>. QED  BY <1>2, <2>1, <3>1, <3>2 DEF IInv, DownInv, Going
  <2>3. CASE d = c
    <3>1. /\ Len(inbox[c]) \in Nat /\ Len(inbox[c]) <= Len(s)
          /\ \A i \in 1..Len(inbox[c]) : inbox[c][i] = s[i]
      BY DEF IInv, TInv, ClientsOK, DownInv
    <3>2. ASSUME Reads(c) PROVE Going(c)'
      <4>1. Midway(c)' /\ ~Midway(c)
        BY <1>1, <1>9 DEF Midway
      <4>2. /\ Going(c) /\ Len(down[c]) + Used(c) = 2 * Len(s)
            /\ c \notin broken
        BY <3>2, <4>1 DEF IInv, DownInv, Going, Reads
      <4>3. /\ Len(down[c]) \in Nat
            /\ Len(down'[c]) = Len(down[c]) + 1
            /\ down'[c][Len(down[c]) + 1] = cell
            /\ \A i \in 1..Len(down[c]) : down'[c][i] = down[c][i]
        BY <1>1, <1>4, <4>2, PutIs
      <4>4. Used(c) \in Nat
        BY <3>1 DEF Used
      <4>5. Len(down'[c]) + Used(c)' = 2 * Len(sentTo'[c]) - 1
        <5>1. Len(sentTo'[c]) = Len(s) + 1 /\ Used(c)' = Used(c)
          BY <1>7, <1>8, <2>1, <2>3
        <5>2. \A j, k, l \in Nat :
                  j + k = 2 * l => (j + 1) + k = 2 * (l + 1) - 1
          OBVIOUS
        <5>3. Len(s) \in Nat /\ Len(down[c]) \in Nat
          BY <1>7, <4>3
        <5>4. (Len(down[c]) + 1) + Used(c) = 2 * (Len(s) + 1) - 1
          <6> HIDE DEF s
          <6>. QED  BY <4>2, <4>4, <5>2, <5>3
        <5>5. Len(down'[c]) = Len(down[c]) + 1
          BY <4>3
        <5>. QED  BY <5>1, <5>4, <5>5
      <4>6. ASSUME NEW i \in 1..Len(down'[c])
            PROVE  Fits(sentTo'[c], Used(c)' + i - 1, down'[c][i])
        <5>1. CASE i = Len(down[c]) + 1
          <6>1. Used(c)' + i - 1 = 2 * Len(s)
            BY <2>1, <2>3, <4>2, <4>3, <4>4, <5>1
          <6>2. Fits(Append(s, x), 2 * Len(s), cell)
            BY <1>5, <1>7, FitsIs
          <6>. QED  BY <1>8, <4>3, <5>1, <6>1, <6>2
        <5>2. CASE i # Len(down[c]) + 1
          <6>1. i \in 1..Len(down[c])
            BY <4>3, <5>2
          <6>2. Fits(s, Used(c) + i - 1, down[c][i])
            BY <4>2, <6>1 DEF Going
          <6>3. Used(c) + i - 1 \in Nat /\ Used(c) + i - 1 < 2 * Len(s)
            BY <4>2, <4>3, <4>4, <6>1
          <6>4. Fits(Append(s, x), Used(c) + i - 1, down[c][i])
            BY <1>4, <1>7, <6>2, <6>3, FitsStays
          <6>. QED  BY <1>8, <2>1, <2>3, <4>3, <6>1, <6>4
        <5>. QED  BY <5>1, <5>2
      <4>7. header[c] # NoPacket =>
                header[c] = sentTo'[c][Len(inbox[c]) + 1]
        <5> SUFFICES ASSUME header[c] # NoPacket
                     PROVE  header[c] = sentTo'[c][Len(inbox[c]) + 1]
            OBVIOUS
        <5>1. header[c] = s[Len(inbox[c]) + 1]
          BY <4>2 DEF Going
        <5>2. Used(c) = 2 * Len(inbox[c]) + 1
          BY DEF Used
        <5>3. \A j, k, l \in Nat :
                  j + (2 * k + 1) = 2 * l => k + 1 \in 1..l
          OBVIOUS
        <5>4. Len(inbox[c]) + 1 \in 1..Len(s)
          BY <1>7, <3>1, <4>2, <4>3, <5>2, <5>3
        <5>. QED  BY <1>7, <1>8, <5>1, <5>4
      <4>8. sentTo'[c][Len(sentTo'[c])] \in {Garbled, worker'.packet}
        BY <1>6, <1>7, <1>8, <1>9
      <4>. QED  BY <1>2, <4>1, <4>5, <4>6, <4>7, <4>8 DEF Going
    <3>3. \A i \in 1..Len(inbox[c]) : inbox[c][i] = sentTo'[c][i]
      BY <1>7, <1>8, <3>1
    <3>4. Len(inbox[c]) <= Len(sentTo'[c])
      BY <1>7, <1>8, <3>1
    <3>. QED  BY <2>1, <2>3, <3>2, <3>3, <3>4
  <2>. QED  BY <2>2, <2>3
<1>. QED  BY <1>1, <1>4, <1>11, <1>12, <1>13 DEF IInv

LEMMA WriteBodyStep ==
    ASSUME IInv, WriteBody, NEW c \in Clients, c = Receiver(worker.to)
    PROVE  IInv'
<1> DEFINE m == worker.packet
           s == sentTo[c]
           cell == Cell(m, "body")
<1>1. /\ worker.at = "body" /\ Put(c, cell)
      /\ worker' = Sending(m, worker.to \ {c}, Logged(End))
  BY DEF WriteBody
<1>2. /\ UNCHANGED <<wrote, inbox, header, broken, up>>
      /\ UNCHANGED <<open, loop, heard, jobs, sentTo>>
  BY DEF WriteBody, clientSide
<1>3. m \in Packets /\ cell \in Cells
  BY <1>1 DEF IInv, TInv, WorkerOK, Cells, Cell
<1>4. WorkerOK' /\ worker'.at # "body"
  <2>1. worker.to \ {c} \in SUBSET Clients /\ Logged(End) \in {Start, Body, End}
    BY DEF IInv, TInv, WorkerOK, Logged
  <2>. QED  BY <1>1, <1>2, <1>3, <2>1, SendingIs DEF IInv, TInv, WorkerOK
<1>5. TInv'
  <2>1. BuffersOK'
    BY <1>1, <1>2, <1>3, PutIs DEF IInv, TInv, BuffersOK
  <2>. QED  BY <1>2, <1>4, <2>1 DEF IInv, TInv, ClientsOK, LoopOK
<1>6. UpInv'
  BY <1>2, UpKeeps DEF IInv
<1> HIDE DEF cell
<1>7. DownInv'
  <2> SUFFICES ASSUME NEW d \in Clients, Reads(d) PROVE Going(d)'
      BY <1>2 DEF IInv, DownInv, Reads
  <2>1. Used(d)' = Used(d) /\ ~Midway(d)'
    BY <1>2, <1>4 DEF Used, Midway
  <2>2. CASE d # c
    <3>1. ~Midway(d) /\ down'[d] = down[d]
      BY <1>1, <1>3, <2>2, PutIs DEF Midway
    <3>. QED  BY <1>2, <2>1, <3>1 DEF IInv, DownInv, Going
  <2>3. CASE d = c
    <3>1. s \in Seq(Packets \cup {Garbled}) /\ Len(s) \in Nat
      BY DEF IInv, TInv, WorkerOK
    <3>2. /\ Going(c) /\ Len(down[c]) + Used(c) = 2 * Len(s) - 1
          /\ s[Len(s)] \in {Garbled, m} /\ c \notin broken
      BY <1>1, <2>3 DEF IInv, DownInv, Going, Reads, Midway
    <3>3. /\ Len(down[c]) \in Nat
          /\ Len(down'[c]) = Len(down[c]) + 1
          /\ down'[c][Len(down[c]) + 1] = cell
          /\ \A i \in 1..Len(down[c]) : down'[c][i] = down[c][i]
      BY <1>1, <1>3, <3>2, PutIs
    <3>4. Used(c) \in Nat
      <4>1. Len(inbox[c]) \in Nat
        BY DEF IInv, TInv, ClientsOK
      <4>. QED  BY <4>1 DEF Used
    <3>5. Len(down'[c]) + Used(c)' = 2 * Len(sentTo'[c])
      <4>1. /\ Len(down'[c]) = Len(down[c]) + 1 /\ Len(down[c]) \in Nat
            /\ Used(c)' = Used(c) /\ sentTo'[c] = s
        BY <1>2, <2>1, <2>3, <3>3
      <4>2. \A j, k, l \in Nat : j + k = 2 * l - 1 => (j + 1) + k = 2 * l
        OBVIOUS
      <4>3. Len(s) \in Nat /\ Len(down[c]) + Used(c) = 2 * Len(s) - 1
        BY <3>1, <3>2
      <4> HIDE DEF s
      <4>4. (Len(down[c]) + 1) + Used(c) = 2 * Len(s)
        BY <3>4, <4>1, <4>2, <4>3
      <4>. QED  BY <4>1, <4>4
    <3>6. ASSUME NEW i \in 1..Len(down'[c])
          PROVE  Fits(sentTo'[c], Used(c)' + i - 1, down'[c][i])
      <4>1. CASE i = Len(down[c]) + 1
        <5>1. Len(s) - 1 \in Nat /\ (Len(s) - 1) + 1 = Len(s)
          BY <3>1, <3>2, <3>3, <3>4
        <5>2. Used(c)' + i - 1 = 2 * (Len(s) - 1) + 1
          BY <2>1, <2>3, <3>1, <3>2, <3>3, <3>4, <4>1
        <5>3. s[Len(s)] # Garbled => cell = Cell(s[Len(s)], "body")
          BY <3>2 DEF cell
        <5>4. Fits(s, 2 * (Len(s) - 1) + 1, cell)
          BY <5>1, <5>3, FitsIs
        <5>. QED  BY <1>2, <3>3, <4>1, <5>2, <5>4
      <4>2. CASE i # Len(down[c]) + 1
        <5>1. i \in 1..Len(down[c])
          BY <3>3, <4>2
        <5>. QED  BY <1>2, <2>1, <2>3, <3>2, <3>3, <5>1 DEF Going
      <4>. QED  BY <4>1, <4>2
    <3>. QED  BY <1>2, <2>1, <2>3, <3>2, <3>5, <3>6 DEF Going
  <2>. QED  BY <2>2, <2>3
<1>. QED  BY <1>5, <1>6, <1>7 DEF IInv

LEMMA NextIInv == IInv /\ [Next]_vars => IInv'
<1> SUFFICES ASSUME IInv, [Next]_vars PROVE IInv'
    OBVIOUS
<1>1. CASE \E c \in Clients : ClientWrites(c) \/ ClientReads(c) \/ Breaks(c)
  BY <1>1, WritesStep, ReadsStep, BreaksStep
<1>2. CASE LoopSteps
  <2>1. ASSUME ReadBody PROVE IInv'
    <3>1. loop.of \in Clients
      BY <2>1 DEF IInv, TInv, LoopOK, ReadBody
    <3>. QED  BY <2>1, <3>1, BodyStep
  <2>. QED  BY <1>2, <2>1, HeaderStep, FailsStep, SubmitStep DEF LoopSteps
<1>3. CASE WorkerSteps
  <2>1. ASSUME worker.at # "idle"
        PROVE  Receiver(worker.to) \in Clients
    <3>1. worker.to \in SUBSET Clients /\ worker.to # {}
      BY <2>1 DEF IInv, TInv, WorkerOK
    <3>. QED  BY <3>1, ReceiverIs
  <2>2. ASSUME WriteHeader PROVE IInv'
    <3>1. worker.at # "idle"
      BY <2>2 DEF WriteHeader
    <3>. QED  BY <2>1, <2>2, <3>1, WriteHeaderStep
  <2>3. ASSUME WriteBody PROVE IInv'
    <3>1. worker.at # "idle"
      BY <2>3 DEF WriteBody
    <3>. QED  BY <2>1, <2>3, <3>1, WriteBodyStep
  <2>. QED  BY <1>3, <2>2, <2>3, ProcessStep, WriteFailsStep DEF WorkerSteps
<1>4. CASE UNCHANGED vars
  <2>1. /\ UNCHANGED <<wrote, inbox, header, broken, up, down>>
        /\ UNCHANGED <<open, loop, heard, jobs, worker, sentTo>>
    BY <1>4 DEF vars, clientSide, buffers, serverSide
  <2>2. TInv'
    BY <2>1 DEF IInv, TInv, ClientsOK, BuffersOK, LoopOK, WorkerOK
  <2>3. UpInv'
    BY <2>1, UpKeeps DEF IInv
  <2>4. DownInv'
    BY <2>1, DownKeeps DEF IInv, Midway
  <2>. QED  BY <2>2, <2>3, <2>4 DEF IInv
<1>. QED  BY <1>1, <1>2, <1>3, <1>4 DEF Next

-----------------------------------------------------------------------------
(* What the channels see of a step *)

LEMMA ChannelsAre ==
    ASSUME NEW c \in Clients
    PROVE  /\ <<"up", c>> \in Directions /\ <<"down", c>> \in Directions
           /\ Sent[<<"up", c>>] =
                  [i \in 1..((wrote[c] + 1) \div 2) |-> Packet(c, i)]
           /\ Sent[<<"down", c>>] = sentTo[c]
           /\ Got[<<"up", c>>] = heard[c]
           /\ Got[<<"down", c>>] = inbox[c]
BY DEF Directions, Sent, Got

LEMMA DirectionIs ==
    ASSUME NEW ch \in Directions
    PROVE  /\ ch[2] \in Clients /\ ch[1] \in {"up", "down"}
           /\ ch = <<ch[1], ch[2]>>
BY DEF Directions

LEMMA OneMore ==
    ASSUME NEW c, NEW n \in Nat
    PROVE  [i \in 1..(n + 1) |-> Packet(c, i)] =
               Append([i \in 1..n |-> Packet(c, i)], Packet(c, n + 1))
<1> DEFINE s == [i \in 1..n |-> Packet(c, i)]
           t == [i \in 1..(n + 1) |-> Packet(c, i)]
           S == {Packet(c, i) : i \in Nat}
<1>1. s \in Seq(S) /\ Len(s) = n /\ t \in Seq(S) /\ Len(t) = n + 1
  <2>1. s \in [1..n -> S] /\ t \in [1..(n + 1) -> S]
    OBVIOUS
  <2> HIDE DEF S
  <2>. QED  BY <2>1
<1>2. \A i \in 1..n : t[i] = s[i]
  OBVIOUS
<1>3. t[n + 1] = Packet(c, n + 1)
  OBVIOUS
<1>4. Packet(c, n + 1) \in S
  OBVIOUS
<1> HIDE DEF s, t, S
<1>5. t = Append(s, Packet(c, n + 1))
  BY <1>1, <1>2, <1>3, <1>4
<1>. QED  BY <1>5 DEF s, t

\* A header is the beginning of a packet, its body is not.
LEMMA WritesIs ==
    ASSUME IInv, NEW c \in Clients, ClientWrites(c)
    PROVE  [Channel!Next]_(Channel!vars)
<1>1. /\ UNCHANGED <<inbox, sentTo, heard>> /\ wrote[c] \in Nat
      /\ wrote' = [wrote EXCEPT ![c] = wrote[c] + 1]
      /\ wrote[c] < 2 * Len(Script[c]) /\ Len(Script[c]) \in Nat
  BY PacketsAssumption
  DEF ClientWrites, serverSide, IInv, TInv, ClientsOK
<1>2. Got' = Got
  BY <1>1 DEF Got
<1>3. \A d \in Clients : d # c => wrote'[d] = wrote[d]
  BY <1>1 DEF IInv, TInv, ClientsOK
<1>4. wrote'[c] = wrote[c] + 1
  BY <1>1 DEF IInv, TInv, ClientsOK
<1>5. ASSUME NEW ch \in Directions, ch # <<"up", c>>
      PROVE  Sent'[ch] = Sent[ch]
  <2>1. CASE ch[1] = "up"
    <3>1. ch[2] # c /\ ch[2] \in Clients
      BY <1>5, <2>1, DirectionIs
    <3>. QED  BY <1>3, <2>1, <3>1 DEF Sent
  <2>2. CASE ch[1] # "up"
    BY <1>1, <2>2 DEF Sent
  <2>. QED  BY <2>1, <2>2
<1> DEFINE n == wrote[c] \div 2
           m == Packet(c, n + 1)
<1>6. n \in Nat /\ wrote[c] % 2 \in {0, 1}
  BY <1>1, Halves
<1>7. CASE wrote[c] % 2 = 0
  <2>1. wrote[c] = 2 * n
    BY <1>1, <1>7, Halves
  <2>2. (wrote[c] + 1) \div 2 = n /\ (wrote'[c] + 1) \div 2 = n + 1
    <3>1. (2 * n + 1) \div 2 = n /\ (2 * n + 2) \div 2 = n + 1
      BY <1>6, Halves
    <3>2. wrote[c] + 1 = 2 * n + 1 /\ wrote'[c] + 1 = 2 * n + 2
      BY <1>4, <1>6, <2>1
    <3>. QED  BY <3>1, <3>2
  <2>3. m \in Packets
    <3>1. n + 1 \in 1..Len(Script[c])
      BY <1>1, <1>6, <2>1
    <3>. QED  BY <3>1, PacketsAre
  <2>4. Sent'[<<"up", c>>] = Append(Sent[<<"up", c>>], m)
    <3>1. Sent[<<"up", c>>] = [i \in 1..n |-> Packet(c, i)]
      BY <2>2, ChannelsAre
    <3>2. Sent'[<<"up", c>>] = [i \in 1..(n + 1) |-> Packet(c, i)]
      BY <2>2 DEF Sent, Directions
    <3>. QED  BY <1>6, <3>1, <3>2, OneMore
  <2>5. Sent' = [Sent EXCEPT ![<<"up", c>>] = Append(@, m)]
    BY <1>5, <2>4 DEF Sent
  <2>6. Channel!Send(<<"up", c>>)
    BY <1>2, <2>3, <2>5 DEF Channel!Send
  <2>. QED  BY <2>6, ChannelsAre DEF Channel!Next
<1>8. CASE wrote[c] % 2 = 1
  <2>1. wrote[c] = 2 * n + 1
    BY <1>1, <1>8, Halves
  <2>2. (wrote[c] + 1) \div 2 = n + 1 /\ (wrote'[c] + 1) \div 2 = n + 1
    <3>1. (2 * n + 2) \div 2 = n + 1 /\ (2 * (n + 1) + 1) \div 2 = n + 1
      BY <1>6, Halves
    <3>2. wrote[c] + 1 = 2 * n + 2 /\ wrote'[c] + 1 = 2 * (n + 1) + 1
      BY <1>4, <1>6, <2>1
    <3>. QED  BY <3>1, <3>2
  <2>3. Sent'[<<"up", c>>] = Sent[<<"up", c>>]
    BY <2>2 DEF Sent, Directions
  <2>4. Sent' = Sent
    BY <1>5, <2>3 DEF Sent
  <2>. QED  BY <1>2, <2>4 DEF Channel!vars
<1>. QED  BY <1>6, <1>7, <1>8

\* The body completes the packet the loop has read the header of.
LEMMA BodyIs ==
    ASSUME IInv, ReadBody, NEW c \in Clients, loop.of = c
    PROVE  [Channel!Next]_(Channel!vars)
<1> DEFINE n == Len(heard[c])
<1>1. /\ UNCHANGED <<wrote, inbox, sentTo>>
      /\ heard \in [Clients -> Seq(Packets)]
      /\ n \in Nat /\ wrote[c] \in Nat
  BY DEF ReadBody, clientSide, IInv, TInv, ClientsOK, LoopOK
<1>2. /\ heard' = [heard EXCEPT ![c] = Append(heard[c], Packet(c, n + 1))]
      /\ 2 * n + 2 <= wrote[c]
  BY BodyStep
<1>3. Sent' = Sent
  BY <1>1 DEF Sent
<1>4. /\ n < Len(Sent[<<"up", c>>])
      /\ Sent[<<"up", c>>][n + 1] = Packet(c, n + 1)
  <2> DEFINE h == (wrote[c] + 1) \div 2
  <2>1. h \in Nat /\ n + 1 <= h
    BY <1>1, <1>2
  <2>2. Sent[<<"up", c>>] = [i \in 1..h |-> Packet(c, i)]
    BY ChannelsAre
  <2> HIDE DEF h
  <2>3. n + 1 \in 1..h
    BY <1>1, <2>1
  <2>. QED  BY <1>1, <2>1, <2>2, <2>3
<1>5. Got' = [Got EXCEPT ![<<"up", c>>] =
                  Append(@, Sent[<<"up", c>>][Len(@) + 1])]
  <2>1. ASSUME NEW ch \in Directions, ch # <<"up", c>>
        PROVE  Got'[ch] = Got[ch]
    <3>1. CASE ch[1] = "up"
      <4>1. ch[2] # c /\ ch[2] \in Clients
        BY <2>1, <3>1, DirectionIs
      <4>. QED  BY <1>1, <1>2, <3>1, <4>1 DEF Got
    <3>2. CASE ch[1] # "up"
      BY <1>1, <3>2 DEF Got
    <3>. QED  BY <3>1, <3>2
  <2>2. Got'[<<"up", c>>] = Append(Got[<<"up", c>>], Packet(c, n + 1))
    BY <1>1, <1>2 DEF Got, Directions
  <2>3. /\ Got[<<"up", c>>] = heard[c] /\ Len(Got[<<"up", c>>]) = n
        /\ <<"up", c>> \in Directions
    BY ChannelsAre
  <2>4. /\ DOMAIN Got' = Directions /\ DOMAIN Got = Directions
        /\ Got' = [ch \in Directions |-> Got'[ch]]
        /\ Got = [ch \in Directions |-> Got[ch]]
    BY DEF Got
  <2>5. Got'[<<"up", c>>] =
            Append(Got[<<"up", c>>],
                   Sent[<<"up", c>>][Len(Got[<<"up", c>>]) + 1])
    BY <1>4, <2>2, <2>3
  <2>. QED  BY <2>1, <2>3, <2>4, <2>5
<1>6. Channel!Deliver(<<"up", c>>)
  BY <1>3, <1>4, <1>5, ChannelsAre DEF Channel!Deliver
<1>. QED  BY <1>6, ChannelsAre DEF Channel!Next

LEMMA ReadsIs ==
    ASSUME IInv, NEW c \in Clients, ClientReads(c)
    PROVE  [Channel!Next]_(Channel!vars)
<1>1. UNCHANGED <<wrote, heard, sentTo>>
  BY DEF ClientReads, serverSide
<1>2. Sent' = Sent
  BY <1>1 DEF Sent
<1>3. CASE UNCHANGED inbox
  <2>1. Got' = Got
    BY <1>1, <1>3 DEF Got
  <2>. QED  BY <1>2, <2>1 DEF Channel!vars
<1>4. CASE /\ Len(inbox[c]) < Len(sentTo[c])
           /\ inbox' = [inbox EXCEPT ![c] =
                           Append(@, sentTo[c][Len(@) + 1])]
  <2>1. ASSUME NEW ch \in Directions, ch # <<"down", c>>
        PROVE  Got'[ch] = Got[ch]
    <3>1. CASE ch[1] # "up"
      <4>1. ch[2] # c /\ ch[2] \in Clients
        BY <2>1, <3>1, DirectionIs
      <4>. QED  BY <1>1, <1>4, <3>1, <4>1
                DEF Got, IInv, TInv, ClientsOK
    <3>2. CASE ch[1] = "up"
      BY <1>1, <3>2 DEF Got
    <3>. QED  BY <3>1, <3>2
  <2>2. Got'[<<"down", c>>] =
            Append(inbox[c], sentTo[c][Len(inbox[c]) + 1])
    BY <1>4 DEF Got, Directions, IInv, TInv, ClientsOK
  <2>3. /\ Got[<<"down", c>>] = inbox[c] /\ Sent[<<"down", c>>] = sentTo[c]
        /\ <<"down", c>> \in Directions
    BY ChannelsAre
  <2>4. Got' = [Got EXCEPT ![<<"down", c>>] =
                    Append(@, Sent[<<"down", c>>][Len(@) + 1])]
    BY <2>1, <2>2, <2>3 DEF Got
  <2>5. Channel!Deliver(<<"down", c>>)
    BY <1>2, <1>4, <2>3, <2>4 DEF Channel!Deliver
  <2>. QED  BY <2>3, <2>5 DEF Channel!Next
<1>. QED  BY <1>3, <1>4, ReadsStep

LEMMA WriteHeaderIs ==
    ASSUME IInv, WriteHeader
    PROVE  [Channel!Next]_(Channel!vars)
<1> DEFINE c == Receiver(worker.to)
<1>1. c \in Clients
  <2>1. worker.to \in SUBSET Clients /\ worker.to # {}
    BY DEF IInv, TInv, WorkerOK, WriteHeader
  <2>. QED  BY <2>1, ReceiverIs
<1>2. UNCHANGED <<wrote, heard, inbox>>
  BY DEF WriteHeader, clientSide
<1>3. PICK x \in Packets \cup {Garbled} :
          sentTo' = [sentTo EXCEPT ![c] = Append(sentTo[c], x)]
  BY <1>1, WriteHeaderStep
<1> HIDE DEF c
<1>4. Got' = Got
  BY <1>2 DEF Got
<1>5. ASSUME NEW ch \in Directions, ch # <<"down", c>>
      PROVE  Sent'[ch] = Sent[ch]
  <2>1. CASE ch[1] # "up"
    <3>1. ch[2] # c /\ ch[2] \in Clients
      BY <1>5, <2>1, DirectionIs
    <3>. QED  BY <1>2, <1>3, <2>1, <3>1 DEF Sent, IInv, TInv, WorkerOK
  <2>2. CASE ch[1] = "up"
    BY <1>2, <2>2 DEF Sent
  <2>. QED  BY <2>1, <2>2
<1>6. Sent'[<<"down", c>>] = Append(sentTo[c], x)
  BY <1>1, <1>3 DEF Sent, Directions, IInv, TInv, WorkerOK
<1>7. Sent[<<"down", c>>] = sentTo[c] /\ <<"down", c>> \in Directions
  BY <1>1, ChannelsAre
<1>8. Sent' = [Sent EXCEPT ![<<"down", c>>] = Append(@, x)]
  BY <1>5, <1>6, <1>7 DEF Sent
<1>9. Channel!Send(<<"down", c>>)
  BY <1>4, <1>8 DEF Channel!Send
<1>. QED  BY <1>7, <1>9 DEF Channel!Next

\* The other steps begin and complete no packet.
LEMMA RestIs ==
    ASSUME UNCHANGED <<wrote, inbox, heard, sentTo>>
    PROVE  UNCHANGED Channel!vars
BY DEF Channel!vars, Sent, Got

\* Each step, in the two directions of each connection, is one of the channel.
LEMMA ChannelStep ==
    ASSUME IInv, [Next]_vars
    PROVE  [Channel!Next]_(Channel!vars)
<1>1. ASSUME NEW c \in Clients, Breaks(c)
      PROVE  UNCHANGED Channel!vars
  BY <1>1, RestIs DEF Breaks, serverSide
<1>2. ASSUME NEW c \in Clients, ReadHeader(c)
      PROVE  UNCHANGED Channel!vars
  BY <1>2, RestIs DEF ReadHeader, clientSide
<1>3. ASSUME ReadBody PROVE [Channel!Next]_(Channel!vars)
  <2>1. loop.of \in Clients
    BY <1>3 DEF IInv, TInv, LoopOK, ReadBody
  <2>. QED  BY <1>3, <2>1, BodyIs
<1>4. ASSUME ReadFails \/ Submit PROVE UNCHANGED Channel!vars
  BY <1>4, RestIs DEF ReadFails, Submit, clientSide
<1>5. ASSUME Process \/ WriteBody \/ WriteFails
      PROVE  UNCHANGED Channel!vars
  BY <1>5, RestIs DEF Process, WriteBody, WriteFails, clientSide
<1>6. ASSUME UNCHANGED vars PROVE UNCHANGED Channel!vars
  BY <1>6, RestIs DEF vars, clientSide, serverSide
<1>. QED  BY <1>1, <1>2, <1>3, <1>4, <1>5, <1>6, WritesIs, ReadsIs,
             WriteHeaderIs
          DEF Next, LoopSteps, WorkerSteps

LEMMA Invariance == Spec => []IInv
<1>1. Init => IInv
  BY InitIInv
<1>2. IInv /\ [Next]_vars => IInv'
  BY NextIInv
<1>. QED  BY <1>1, <1>2, PTL DEF Spec

\* Whatever the buffers hold and wherever a connection breaks: recv_packet reads
\* what a client sends whole, once and in order, and the client what send_packet
\* sends it.
THEOREM PacketsImplementChannel == Spec => PacketsArriveWhole
<1>1. Init => Channel!Init
  BY DEF Init, Channel!Init, Sent, Got, Directions
<1>2. IInv /\ [Next]_vars => [Channel!Next]_(Channel!vars)
  BY ChannelStep
<1>. QED
  BY <1>1, <1>2, Invariance, PTL
  DEF Spec, PacketsArriveWhole, Channel!Spec

-----------------------------------------------------------------------------
(* Where garbage comes from *)

\* The packets the server has read.
Heard ==
    {m \in Packets : \E i \in DOMAIN heard[m.from] : heard[m.from][i] = m}

\* What the server works on was heard, and the worker is behind a header only
\* when it answers, by mistake, the client that a packet is from.
WorkInv ==
    /\ loop.at = "submit" => loop.packet \in Heard
    /\ \A i \in 1..Len(jobs) : jobs[i] \in Heard
    /\ worker.at # "idle" => worker.packet \in Heard
    /\ worker.at # "idle" /\ worker.cursor # Start =>
           /\ Kind(worker.packet) = "unread"
           /\ worker.to = {worker.packet.from}

LEMMA HeardStays ==
    ASSUME IInv, [Next]_vars, NEW c \in Clients
    PROVE  \A i \in DOMAIN heard[c] :
               i \in DOMAIN heard'[c] /\ heard'[c][i] = heard[c][i]
<1>1. heard[c] \in Seq(Packets) /\ DOMAIN heard[c] = 1..Len(heard[c])
  BY DEF IInv, TInv, LoopOK
<1>2. CASE heard' = heard
  BY <1>2
<1>3. CASE ReadBody
  <2>1. PICK m \in Packets : heard' = [heard EXCEPT ![loop.of] = Append(@, m)]
    <3>1. loop.of \in Clients
      BY <1>3 DEF IInv, TInv, LoopOK, ReadBody
    <3>2. /\ heard' = [heard EXCEPT ![loop.of] =
                          Append(@, Packet(loop.of, Len(@) + 1))]
          /\ IInv'
      BY <1>3, <3>1, BodyStep
    <3> DEFINE n == Len(heard[loop.of]) + 1
    <3>3. heard'[loop.of] = Append(heard[loop.of], Packet(loop.of, n))
      BY <3>1, <3>2 DEF IInv, TInv, LoopOK
    <3>4. Append(heard[loop.of], Packet(loop.of, n)) \in Seq(Packets)
      BY <3>1, <3>2, <3>3 DEF IInv, TInv, LoopOK
    <3>5. Packet(loop.of, n) \in Packets
      <4>1. heard[loop.of] \in Seq(Packets)
        BY <3>1 DEF IInv, TInv, LoopOK
      <4> HIDE DEF n
      <4>2. Len(Append(heard[loop.of], Packet(loop.of, n))) =
                Len(heard[loop.of]) + 1
        BY <4>1
      <4>3. Append(heard[loop.of], Packet(loop.of, n))[Len(heard[loop.of]) + 1]
                = Packet(loop.of, n)
        BY <4>1
      <4>4. Len(heard[loop.of]) \in Nat
        BY <4>1
      <4>. QED  BY <3>4, <4>2, <4>3, <4>4
    <3>. QED  BY <3>2, <3>5
  <2>2. CASE loop.of = c
    <3>1. heard'[c] = Append(heard[c], m)
      BY <2>1, <2>2 DEF IInv, TInv, LoopOK
    <3>. QED  BY <1>1, <3>1
  <2>3. CASE loop.of # c
    <3>1. heard'[c] = heard[c]
      BY <2>1, <2>3 DEF IInv, TInv, LoopOK
    <3>. QED  BY <3>1
  <2>. QED  BY <2>2, <2>3
<1>4. ReadBody \/ heard' = heard
  BY DEF Next, ClientWrites, ClientReads, Breaks, LoopSteps, WorkerSteps,
         ReadHeader, ReadFails, Submit, Process, WriteHeader, WriteBody,
         WriteFails, vars, serverSide
<1>. QED  BY <1>2, <1>3, <1>4

LEMMA HeardIsHeard ==
    ASSUME IInv, [Next]_vars, NEW m \in Heard
    PROVE  m \in Heard'
BY PacketsAre, HeardStays DEF Heard

\* Steps that hand the worker nothing leave its part of WorkInv as it is.
LEMMA WorkKeeps ==
    ASSUME IInv, [Next]_vars, WorkInv, UNCHANGED <<worker, sentTo>>,
           jobs' = jobs \/ (jobs' = Tail(jobs) /\ jobs # << >>),
           loop' = loop \/ loop'.at # "submit"
    PROVE  WorkInv'
<1>1. loop'.at = "submit" => loop.packet \in Heard' /\ loop' = loop
  BY HeardIsHeard DEF IInv, TInv, LoopOK, WorkInv
<1>2. /\ jobs \in Seq(Packets)
      /\ worker.at # "idle" => worker.packet \in Packets
  BY DEF IInv, TInv, WorkerOK
<1>3. \A i \in 1..Len(jobs') : jobs'[i] \in Heard'
  <2>1. CASE jobs' = jobs
    BY <1>2, <2>1, HeardIsHeard DEF WorkInv
  <2>2. CASE jobs' = Tail(jobs) /\ jobs # << >>
    <3>1. \A i \in 1..Len(jobs') :
              jobs'[i] = jobs[i + 1] /\ i + 1 \in 1..Len(jobs)
      BY <1>2, <2>2
    <3>. QED  BY <1>2, <3>1, HeardIsHeard DEF WorkInv
  <2>. QED  BY <2>1, <2>2
<1>4. worker.at # "idle" => worker.packet \in Heard'
  BY <1>2, HeardIsHeard DEF WorkInv
<1>. QED  BY <1>1, <1>3, <1>4 DEF WorkInv, Kind

LEMMA ProcessWorks ==
    ASSUME IInv, [Next]_vars, WorkInv, Process
    PROVE  WorkInv'
<1> DEFINE m == Head(jobs)
<1>1. /\ UNCHANGED <<loop, heard, sentTo>>
      /\ worker = IdleWorker /\ jobs # << >> /\ jobs' = Tail(jobs)
  BY DEF Process
<1>2. m \in Heard /\ m.from \in Clients
  <2>1. jobs \in Seq(Packets) /\ m = jobs[1] /\ 1 \in 1..Len(jobs)
    BY <1>1 DEF IInv, TInv, WorkerOK
  <2>2. m \in Heard
    BY <2>1 DEF WorkInv
  <2>. QED  BY <2>2, PacketsAre DEF Heard
<1>3. \/ UNCHANGED worker
      \/ \E to \in SUBSET Clients : worker' = Sending(m, to, Start)
      \/ Kind(m) = "unread" /\ worker' = Sending(m, {m.from}, Body)
  <2>1. open \ {m.from} \in SUBSET Clients /\ {m.from} \in SUBSET Clients
    BY <1>2 DEF IInv, TInv, LoopOK
  <2> HIDE DEF m
  <2>. QED  BY <2>1 DEF Process, m
<1> HIDE DEF m
<1>4. CASE UNCHANGED worker
  BY <1>1, <1>4, WorkKeeps
<1>5. CASE worker' # worker
  <2>1. \/ worker' = IdleWorker
        \/ /\ worker'.at # "idle" /\ worker'.packet = m
           /\ worker'.cursor # Start =>
                  Kind(m) = "unread" /\ worker'.to = {m.from}
    BY <1>3, <1>5 DEF Sending
  <2>2. loop'.at = "submit" => loop'.packet \in Heard'
    BY <1>1, HeardIsHeard DEF WorkInv
  <2>3. \A i \in 1..Len(jobs') : jobs'[i] \in Heard'
    <3>1. jobs \in Seq(Packets)
      BY DEF IInv, TInv, WorkerOK
    <3>2. \A i \in 1..Len(jobs') :
              jobs'[i] = jobs[i + 1] /\ i + 1 \in 1..Len(jobs)
      BY <1>1, <3>1
    <3>. QED  BY <3>2, HeardIsHeard DEF WorkInv
  <2>4. m \in Heard'
    BY <1>2, HeardIsHeard
  <2>. QED  BY <2>1, <2>2, <2>3, <2>4 DEF WorkInv, Kind, IdleWorker
<1>. QED  BY <1>4, <1>5

LEMMA WorkStep ==
    ASSUME IInv, [Next]_vars, WorkInv, Debug
    PROVE  WorkInv'
<1>1. ASSUME NEW c \in Clients, ClientWrites(c) \/ ClientReads(c) \/ Breaks(c)
      PROVE  WorkInv'
  <2>1. UNCHANGED <<loop, jobs, worker, sentTo>>
    BY <1>1 DEF ClientWrites, ClientReads, Breaks, serverSide
  <2>. QED  BY <2>1, WorkKeeps
<1>2. ASSUME (\E c \in Clients : ReadHeader(c)) \/ ReadFails
      PROVE  WorkInv'
  <2>1. UNCHANGED <<jobs, worker, sentTo>> /\ loop'.at # "submit"
    BY <1>2 DEF ReadHeader, ReadFails, IdleLoop
  <2>. QED  BY <2>1, WorkKeeps
<1>3. ASSUME ReadBody PROVE WorkInv'
  <2>1. /\ UNCHANGED <<jobs, worker, sentTo>> /\ loop.of \in Clients
        /\ loop.at = "body"
    BY <1>3 DEF ReadBody, IInv, TInv, LoopOK
  <2> DEFINE c == loop.of
             m == Packet(c, Len(heard[c]) + 1)
  <2>2. /\ heard' = [heard EXCEPT ![c] = Append(heard[c], m)]
        /\ m = loop.packet /\ m \in Packets
    BY <1>3, <2>1, BodyStep DEF IInv, UpInv, TInv, LoopOK
  <2>3. loop'.packet = m
    <3>1. PICK x : /\ heard' = [heard EXCEPT ![c] = Append(@, x)]
                   /\ loop' = [loop EXCEPT !.at = "submit", !.packet = x]
      BY <1>3 DEF ReadBody
    <3>2. heard[c] \in Seq(Packets) /\ heard \in [Clients -> Seq(Packets)]
      BY <2>1 DEF IInv, TInv, LoopOK
    <3> HIDE DEF m
    <3>3. Append(heard[c], x) = Append(heard[c], m)
      BY <2>1, <2>2, <3>1, <3>2
    <3>4. Append(heard[c], x)[Len(heard[c]) + 1] = x
      BY <3>2
    <3>5. Append(heard[c], m)[Len(heard[c]) + 1] = m
      BY <3>2
    <3>6. x = m
      BY <3>3, <3>4, <3>5
    <3>. QED  BY <3>1, <3>6 DEF IInv, TInv, LoopOK
  <2>4. m \in Heard'
    <3>1. heard[c] \in Seq(Packets) /\ heard'[c] = Append(heard[c], m)
      BY <2>1, <2>2 DEF IInv, TInv, LoopOK
    <3>2. m.from = c
      BY DEF Packet
    <3> HIDE DEF m
    <3>3. /\ Len(heard[c]) + 1 \in DOMAIN heard'[c]
          /\ heard'[c][Len(heard[c]) + 1] = m
      BY <3>1
    <3>. QED  BY <2>2, <3>2, <3>3 DEF Heard
  <2>5. /\ \A i \in 1..Len(jobs) : jobs[i] \in Heard'
        /\ worker.at # "idle" => worker.packet \in Heard'
    BY HeardIsHeard DEF WorkInv
  <2> HIDE DEF m
  <2>. QED  BY <2>1, <2>3, <2>4, <2>5 DEF WorkInv, Kind
<1>4. ASSUME Submit PROVE WorkInv'
  <2>1. /\ UNCHANGED <<worker, sentTo>> /\ loop.at = "submit"
        /\ loop' = IdleLoop /\ jobs' = Append(jobs, loop.packet)
    BY <1>4 DEF Submit
  <2>2. jobs \in Seq(Packets) /\ worker = IdleWorker
    BY <1>4 DEF Submit, IInv, TInv, WorkerOK
  <2>3. \A i \in 1..Len(jobs') : jobs'[i] \in Heard
    BY <2>1, <2>2 DEF WorkInv
  <2>4. \A i \in 1..Len(jobs') : jobs'[i] \in Heard'
    BY <2>3, HeardIsHeard
  <2>. QED  BY <2>1, <2>2, <2>4 DEF WorkInv, IdleLoop, IdleWorker
<1>5. ASSUME WriteHeader PROVE WorkInv'
  <2>1. /\ UNCHANGED <<loop, jobs, heard>> /\ worker.at = "head"
        /\ worker' = [worker EXCEPT !.at = "body"]
    BY <1>5 DEF WriteHeader
  <2>2. /\ worker'.packet = worker.packet /\ worker'.to = worker.to
        /\ worker'.cursor = worker.cursor
    BY <2>1 DEF IInv, TInv, WorkerOK
  <2>3. Heard' = Heard
    BY <2>1 DEF Heard
  <2>. QED  BY <2>1, <2>2, <2>3 DEF WorkInv, Kind
<1>6. ASSUME WriteBody \/ WriteFails PROVE WorkInv'
  <2>1. /\ UNCHANGED <<loop, jobs, heard>> /\ worker.at # "idle"
        /\ \/ worker' = IdleWorker
           \/ \E to : worker' = Sending(worker.packet, to, Start)
    BY <1>6 DEF WriteBody, WriteFails, Logged
  <2>2. Heard' = Heard
    BY <2>1 DEF Heard
  <2>3. \/ worker' = IdleWorker
        \/ worker'.packet = worker.packet /\ worker'.cursor = Start
    BY <2>1 DEF Sending
  <2>. QED  BY <2>1, <2>2, <2>3 DEF WorkInv, IdleWorker
<1>7. ASSUME UNCHANGED vars PROVE WorkInv'
  <2>1. UNCHANGED <<loop, jobs, worker, sentTo>>
    BY <1>7 DEF vars, serverSide
  <2>. QED  BY <2>1, WorkKeeps
<1>. QED  BY <1>1, <1>2, <1>3, <1>4, <1>5, <1>6, <1>7, ProcessWorks
          DEF Next, LoopSteps, WorkerSteps

LEMMA EchoStep ==
    ASSUME IInv, [Next]_vars, WorkInv, GarbageOnlyByEcho
    PROVE  GarbageOnlyByEcho'
<1>1. ASSUME NEW c \in Clients, Echoed(c) PROVE Echoed(c)'
  BY <1>1, HeardStays DEF Echoed, Kind
<1>2. CASE UNCHANGED sentTo
  BY <1>1, <1>2 DEF GarbageOnlyByEcho
<1>3. CASE WriteHeader
  <2> DEFINE c == Receiver(worker.to)
             m == worker.packet
  <2>1. /\ worker.at = "head" /\ m \in Packets
        /\ \E x \in Packets \cup {Garbled} :
               /\ sentTo' = [sentTo EXCEPT ![c] = Append(sentTo[c], x)]
               /\ x = Garbled => worker.cursor # Start
    <3>1. m \in Packets /\ m # Garbled /\ worker.at = "head"
      BY <1>3, PacketsAre DEF WriteHeader, IInv, TInv, WorkerOK
    <3> DEFINE part == CASE worker.cursor = Start -> "head"
                         [] worker.cursor = Body -> "body"
                         [] worker.cursor = End -> "zeros"
               x == IF part = "head" THEN m ELSE Garbled
    <3>2. sentTo' = [sentTo EXCEPT ![c] = Append(sentTo[c], x)]
      BY <1>3 DEF WriteHeader
    <3>3. part # "head" => worker.cursor # Start
      BY DEF Start, Body, End
    <3> HIDE DEF part
    <3>4. x \in Packets \cup {Garbled} /\ (x = Garbled => part # "head")
      BY <3>1
    <3> HIDE DEF x
    <3>. QED  BY <3>1, <3>2, <3>3, <3>4
  <2>2. PICK x \in Packets \cup {Garbled} :
            /\ sentTo' = [sentTo EXCEPT ![c] = Append(sentTo[c], x)]
            /\ x = Garbled => worker.cursor # Start
    BY <2>1
  <2>3. worker.to \in SUBSET Clients /\ worker.to # {} /\ c \in worker.to
    BY <2>1, ReceiverIs DEF IInv, TInv, WorkerOK
  <2>4. ASSUME x = Garbled PROVE Echoed(c)
    <3>1. Kind(m) = "unread" /\ m.from = c /\ m \in Heard
      BY <2>1, <2>2, <2>3, <2>4 DEF WorkInv
    <3>. QED  BY <3>1 DEF Echoed, Heard
  <2> HIDE DEF c
  <2> SUFFICES ASSUME NEW d \in Clients, Garbled \in Range(sentTo'[d])
               PROVE  Echoed(d)
      BY <1>1 DEF GarbageOnlyByEcho
  <2>5. CASE d # c
    <3>1. sentTo'[d] = sentTo[d]
      BY <2>2, <2>5 DEF IInv, TInv, WorkerOK
    <3>. QED  BY <3>1 DEF GarbageOnlyByEcho
  <2>6. CASE d = c
    <3>1. /\ sentTo'[c] = Append(sentTo[c], x)
          /\ sentTo[c] \in Seq(Packets \cup {Garbled})
      BY <2>2, <2>6 DEF IInv, TInv, WorkerOK
    <3>2. PICK i \in DOMAIN Append(sentTo[c], x) :
              Append(sentTo[c], x)[i] = Garbled
      BY <2>6, <3>1 DEF Range
    <3>3. CASE i = Len(sentTo[c]) + 1
      <4>1. x = Garbled
        BY <3>1, <3>2, <3>3
      <4>. QED  BY <2>4, <2>6, <4>1
    <3>4. CASE i # Len(sentTo[c]) + 1
      <4>1. i \in DOMAIN sentTo[c] /\ sentTo[c][i] = Garbled
        BY <3>1, <3>2, <3>4
      <4>2. Garbled \in Range(sentTo[c])
        BY <4>1 DEF Range
      <4>. QED  BY <2>6, <4>2 DEF GarbageOnlyByEcho
    <3>. QED  BY <3>3, <3>4
  <2>. QED  BY <2>5, <2>6
<1>4. WriteHeader \/ UNCHANGED sentTo
  BY DEF Next, ClientWrites, ClientReads, Breaks, LoopSteps, WorkerSteps,
         ReadHeader, ReadBody, ReadFails, Submit, Process, WriteBody,
         WriteFails, vars, serverSide
<1>. QED  BY <1>2, <1>3, <1>4

LEMMA InitEcho == Init => WorkInv /\ GarbageOnlyByEcho
BY DEF Init, WorkInv, GarbageOnlyByEcho, Range, IdleLoop, IdleWorker

\* With __DEBUG__, which Debug.h defines, what is sent is logged and its stream
\* rewound: the header of a reply, and of the chat to each player, is one.  The
\* server's only garbage is what it sends back to a client whose notification
\* it left unread.
THEOREM GarbageIsOnlyEchoed == Debug => (Spec => []GarbageOnlyByEcho)
<1> SUFFICES ASSUME Debug PROVE Spec => []GarbageOnlyByEcho
    OBVIOUS
<1>1. Init => WorkInv /\ GarbageOnlyByEcho
  BY InitEcho
<1>2. /\ IInv /\ WorkInv /\ GarbageOnlyByEcho /\ [Next]_vars
      => WorkInv' /\ GarbageOnlyByEcho'
  BY WorkStep, EchoStep
<1>. QED  BY <1>1, <1>2, Invariance, PTL DEF Spec
=============================================================================
