-------------------------- MODULE RoomStoreProofs ---------------------------
(***************************************************************************)
(* Proofs about RoomStore.tla, for any rooms and any bounds: what its      *)
(* passing run checks.  Between two requests the hash counts the members   *)
(* (MembersCounted).  The inductive invariant of that, Counting, says for  *)
(* each place of a request what it has read of the room and not written    *)
(* yet; what happens to room_list plays no part, for no step reads a count *)
(* from it.  StoreInv adds what the list needs: what the two requests have *)
(* read (Making, Emptying), whose entries the lists have (Lists), how many *)
(* entries are owed (Listing) and, while there is one room only, how the   *)
(* entry follows the hash (Mirror).                                        *)
(***************************************************************************)
EXTENDS RoomStore, FiniteSetTheorems, TLAPS

USE RoomsAssumption, BoundsAssumption, WidthAssumption

Counted(r) == IF hash[r] = Absent THEN 0 ELSE hash[r]

Fields ==
    /\ hash \in [Rooms -> Counts \cup {Absent}]
    /\ members \in [Rooms -> Counts]
    /\ game = [at |-> game.at, room |-> game.room, present |-> game.present,
               entry |-> game.entry]
    /\ game.at \in {"idle", "join", "quit", "set", "index", "remove",
                    "delete"}
    /\ game.room \in IF game.at = "idle" THEN {NoRoom} ELSE Rooms

\* What the request in progress knows of its room.
InRequest ==
    LET r == game.room
    IN  /\ game.at = "join" =>
               /\ game.present \in 0..(MaxMembers - 1)
               /\ hash[r] = game.present
               /\ members[r] = game.present + 1
        /\ game.at = "quit" =>
               /\ game.present \in 1..(MaxMembers - 1)
               /\ hash[r] = game.present + 1
               /\ members[r] = game.present
        /\ game.at = "set" =>
               /\ game.present \in Counts
               /\ hash[r] = game.present
               /\ members[r] = game.present
        /\ game.at \in {"index", "remove", "delete"} => members[r] = 0

Elsewhere == \A r \in Rooms : r # game.room => members[r] = Counted(r)

Counting == Fields /\ InRequest /\ Elsewhere

-----------------------------------------------------------------------------
LEMMA CountingInit == Init => Counting
BY SMT DEF Init, Counting, Fields, InRequest, Elsewhere, Counted, Counts,
           Absent, Idle

LEMMA CountingStep == Counting /\ [Next]_vars => Counting'
<1> SUFFICES ASSUME Counting, [Next]_vars PROVE Counting'
    OBVIOUS
<1> USE DEF Counting, Fields, InRequest, Elsewhere, Counted, Counts, Absent
<1>1. CASE \E r \in Rooms : MakeHash(r)
  <2>1. PICK r \in Rooms : MakeHash(r)
    BY <1>1
  <2>2. members[r] = 0
    BY <2>1 DEF MakeHash
  <2>. QED  BY <2>1, <2>2, SMT DEF MakeHash
<1>2. CASE MakeRead \/ MakePush
  BY <1>2, SMT DEF MakeRead, MakePush, redis
<1>3. CASE \E r \in Rooms : JoinRead(r)
  <2>1. PICK r \in Rooms : JoinRead(r)
    BY <1>3
  <2>2. members[r] = hash[r] /\ hash[r] \in 0..(MaxMembers - 1)
    BY <2>1 DEF JoinRead
  <2>3. game' = [at |-> "join", room |-> r, present |-> hash[r],
                 entry |-> NoEntry]
    <3>1. Parsed(hash[r]) = hash[r]
      BY <2>2 DEF Parsed
    <3>. QED  BY <2>1, <3>1 DEF JoinRead, Idle
  <2>4. hash' = hash /\ members' = [members EXCEPT ![r] = hash[r] + 1]
    BY <2>1, <2>2 DEF JoinRead, redis
  <2>5. game.room = NoRoom
    BY <2>1 DEF JoinRead
  <2>6. Fields'
    BY <2>2, <2>3, <2>4, SMT
  <2>7. InRequest'
    BY <2>2, <2>3, <2>4, SMT
  <2>8. Elsewhere'
    BY <2>2, <2>3, <2>4, <2>5, SMT
  <2>. QED  BY <2>6, <2>7, <2>8
<1>4. CASE JoinHash
  <2>1. game' = [at |-> "set", room |-> game.room,
                 present |-> game.present + 1, entry |-> game.entry]
    BY <1>4 DEF JoinHash
  <2>2. /\ hash' = [hash EXCEPT ![game.room] = game.present + 1]
        /\ members' = members
    BY <1>4 DEF JoinHash
  <2>3. game.at = "join" /\ game.room \in Rooms
    BY <1>4 DEF JoinHash
  <2>. QED  BY <2>1, <2>2, <2>3, SMT
<1>5. CASE \E r \in Rooms : QuitRead(r)
  <2>1. PICK r \in Rooms : QuitRead(r)
    BY <1>5
  <2>2. members[r] = hash[r] /\ hash[r] \in 1..MaxMembers
    BY <2>1 DEF QuitRead
  <2>3. game' = [at |-> IF hash[r] = 1 THEN "index" ELSE "quit",
                 room |-> r, present |-> hash[r] - 1, entry |-> NoEntry]
    <3>1. LessOne(Parsed(hash[r])) = hash[r] - 1
      BY <2>2 DEF LessOne, Parsed
    <3>2. hash[r] - 1 = 0 <=> hash[r] = 1
      BY <2>2
    <3>. QED  BY <2>1, <3>1, <3>2 DEF QuitRead, Idle
  <2>4. hash' = hash /\ members' = [members EXCEPT ![r] = hash[r] - 1]
    BY <2>1, <2>2 DEF QuitRead, redis
  <2>5. game.room = NoRoom
    BY <2>1 DEF QuitRead
  <2>6. Fields'
    BY <2>2, <2>3, <2>4, SMT
  <2>7. InRequest'
    BY <2>2, <2>3, <2>4, SMT
  <2>8. Elsewhere'
    BY <2>2, <2>3, <2>4, <2>5, SMT
  <2>. QED  BY <2>6, <2>7, <2>8
<1>6. CASE QuitHash
  BY <1>6, SMT DEF QuitHash
<1>7. CASE QuitIndex \/ QuitRemove
  <2>1. \E at \in {"index", "remove", "delete"} : \E e :
            game' = [at |-> at, room |-> game.room,
                     present |-> game.present, entry |-> e]
    BY <1>7 DEF QuitIndex, QuitRemove
  <2>2. hash' = hash /\ members' = members
    BY <1>7 DEF QuitIndex, QuitRemove, redis
  <2>3. game.at \in {"index", "remove"}
    BY <1>7 DEF QuitIndex, QuitRemove
  <2>. QED  BY <2>1, <2>2, <2>3, SMT
<1>8. CASE QuitDelete
  BY <1>8, SMT DEF QuitDelete, Idle
<1>9. CASE SetEntry
  BY <1>9, SMT DEF SetEntry, Idle
<1>10. CASE UNCHANGED vars
  BY <1>10 DEF vars, redis
<1>. QED
  BY <1>1, <1>2, <1>3, <1>4, <1>5, <1>6, <1>7, <1>8, <1>9, <1>10
  DEF Next, LobbySteps, GameSteps

\* Between two requests a room's hash counts those who joined it and have not
\* quit, however the lobby's commands and the game server's interleave.
THEOREM HashCountsMembers == Spec => []MembersCounted
<1>1. Counting => MembersCounted
  BY DEF Counting, Fields, Elsewhere, Counted, MembersCounted
<1>. QED
  BY <1>1, CountingInit, CountingStep, PTL DEF Spec

-----------------------------------------------------------------------------
(* The list *)

Entries == [id : Rooms, present : Counts]

Hashed == {r \in Rooms : hash[r] # Absent}

\* Entries the list will gain, and rooms it has lost already.
Owed ==
    (IF lobby.at = "idle" THEN 0 ELSE 1) +
    (IF game.at = "delete" THEN 1 ELSE 0)

\* The room a make has not listed yet is empty, and no request has it.
Making ==
    /\ lobby = [at |-> lobby.at, room |-> lobby.room, present |-> 0,
                entry |-> NoEntry]
    /\ lobby.at \in {"idle", "read", "push"}
    /\ lobby.room \in IF lobby.at = "idle" THEN {NoRoom} ELSE Rooms
    /\ lobby.at # "idle" =>
           lobby.room # game.room /\ hash[lobby.room] = 0

\* The room a quit is about to delete had one member, and the entry it is about
\* to remove is there.
Emptying ==
    /\ game.present \in Counts
    /\ game.entry \in {NoEntry} \cup Entries
    /\ game.at \in {"index", "remove", "delete"} => hash[game.room] = 1
    /\ game.at = "remove" => \E i \in DOMAIN list : list[i] = game.entry

\* The game server's list has the rooms with members.
Lists ==
    /\ list \in Seq(Entries)
    /\ roomList \in Seq(Rooms)
    /\ \A r \in Rooms : members[r] > 0 \/ game.room = r =>
           \E i \in DOMAIN roomList : roomList[i] = r
    /\ \A i \in DOMAIN list : list[i].id \in Known

\* LREM removes an entry before DEL removes the hash, and LPUSH adds one after
\* HMSET has made it.
Listing ==
    /\ IsFiniteSet(Hashed)
    /\ Len(list) + Owed <= Cardinality(Hashed)

\* There has been one room only, if any.
One == \A p, q \in Known : p = q

\* The entry of the one room has the count of its hash, or, before LSET, the
\* count that the request has changed in the hash.
Mirror ==
    One => \A r \in Hashed :
        lobby.at = "idle" /\ game.at # "delete" =>
            /\ Len(list) = 1
            /\ list[1].id = r
            /\ IF game.at # "set" THEN list[1].present = hash[r]
               ELSE \/ list[1].present = game.present - 1
                    \/ /\ list[1].present = game.present + 1
                       /\ game.present > 0

-----------------------------------------------------------------------------
LEMMA LeastOne ==
    ASSUME NEW S \in SUBSET Nat, S # {}
    PROVE  \E i \in S : \A j \in S : i <= j
<1> DEFINE R == OpToRel(<, Nat)
<1>1. IsWellFoundedOn(R, Nat)
  BY NatLessThanWellFounded
<1>2. PICK i \in S : \A j \in S : ~(<<j, i>> \in R)
  <2> HIDE DEF R
  <2>. QED  BY <1>1, WFMin
<1>3. ASSUME NEW j \in S PROVE i <= j
  <2>1. i \in Nat /\ j \in Nat
    OBVIOUS
  <2>2. ~(j < i)
    BY <1>2, <2>1 DEF OpToRel
  <2>. QED  BY <2>1, <2>2
<1>. QED  BY <1>3

\* What Without builds.
Keeps(entries, e, k) ==
    k = [n \in 0..Len(entries) |->
            IF n = 0 THEN << >>
            ELSE IF entries[n] = e THEN k[n - 1]
            ELSE Append(k[n - 1], entries[n])]

\* How far the removal has come after n entries.
Upto(entries, e, n, k) ==
    /\ k = [i \in 0..n |-> k[i]]
    /\ k[0] = << >>
    /\ \A i \in 1..n :
           k[i] = IF entries[i] = e THEN k[i - 1]
                  ELSE Append(k[i - 1], entries[i])

\* The removal comes to the end of the list.
LEMMA KeptExists ==
    ASSUME NEW S, NEW entries \in Seq(S), NEW e
    PROVE  \E k : Keeps(entries, e, k)
<1> DEFINE I == {n \in 0..Len(entries) : ~\E k : Upto(entries, e, n, k)}
<1>1. ASSUME I # {} PROVE FALSE
  <2>1. PICK n \in I : \A j \in I : n <= j
    <3>1. I \in SUBSET Nat
      OBVIOUS
    <3> HIDE DEF I
    <3>. QED  BY <1>1, <3>1, LeastOne
  <2>2. CASE n = 0
    <3> DEFINE k == [i \in 0..0 |-> << >>]
    <3>1. Upto(entries, e, 0, k)
      BY DEF Upto
    <3>. QED  BY <2>1, <2>2, <3>1
  <2>3. CASE n # 0
    <3>1. n \in 1..Len(entries) /\ n - 1 \in 0..Len(entries) /\ n - 1 \notin I
      BY <2>1, <2>3
    <3>2. PICK k : Upto(entries, e, n - 1, k)
      BY <3>1
    <3> DEFINE x == IF entries[n] = e THEN k[n - 1]
                    ELSE Append(k[n - 1], entries[n])
               g == [i \in 0..n |-> IF i = n THEN x ELSE k[i]]
    <3> HIDE DEF x
    <3>3. /\ g = [i \in 0..n |-> g[i]]
          /\ g[n] = x
          /\ \A i \in 0..(n - 1) : g[i] = k[i]
      BY <3>1
    <3>4. g[0] = << >>
      BY <3>1, <3>2, <3>3 DEF Upto
    <3>5. ASSUME NEW i \in 1..n
          PROVE  g[i] = IF entries[i] = e THEN g[i - 1]
                        ELSE Append(g[i - 1], entries[i])
      <4>1. g[i - 1] = k[i - 1]
        BY <3>1, <3>3
      <4>2. CASE i = n
        BY <3>3, <4>1, <4>2 DEF x
      <4>3. CASE i # n
        <5>1. i \in 1..(n - 1) /\ g[i] = k[i]
          BY <3>1, <3>3, <4>3
        <5> HIDE DEF g
        <5>. QED  BY <3>2, <4>1, <5>1 DEF Upto
      <4>. QED  BY <4>2, <4>3
    <3> HIDE DEF g
    <3>6. Upto(entries, e, n, g)
      BY <3>3, <3>4, <3>5 DEF Upto
    <3>. QED  BY <2>1, <3>6
  <2>. QED  BY <2>2, <2>3
<1>2. Len(entries) \in 0..Len(entries)
  OBVIOUS
<1>3. PICK k : Upto(entries, e, Len(entries), k)
  BY <1>1, <1>2
<1>4. Keeps(entries, e, k)
  <2> DEFINE F == [n \in 0..Len(entries) |->
            IF n = 0 THEN << >>
            ELSE IF entries[n] = e THEN k[n - 1]
            ELSE Append(k[n - 1], entries[n])]
  <2>1. ASSUME NEW n \in 0..Len(entries) PROVE F[n] = k[n]
    <3>1. CASE n = 0
      BY <1>3, <3>1 DEF Upto
    <3>2. CASE n # 0
      <4>1. F[n] = IF entries[n] = e THEN k[n - 1]
                   ELSE Append(k[n - 1], entries[n])
        BY <3>2
      <4> HIDE DEF F
      <4>2. n \in 1..Len(entries)
        BY <3>2
      <4>. QED  BY <1>3, <4>1, <4>2 DEF Upto
    <3>. QED  BY <3>1, <3>2
  <2>2. F = [n \in 0..Len(entries) |-> F[n]]
    OBVIOUS
  <2> HIDE DEF F
  <2>3. F = k
    BY <1>3, <2>1, <2>2 DEF Upto
  <2>. QED  BY <2>3 DEF F, Keeps
<1>. QED  BY <1>4

\* LREM leaves entries of the list, and fewer of them if it removes one.
LEMMA WithoutIs ==
    ASSUME NEW S, NEW entries \in Seq(S), NEW e
    PROVE  /\ Without(entries, e) \in Seq(S)
           /\ Len(Without(entries, e)) <= Len(entries)
           /\ (\E i \in DOMAIN entries : entries[i] = e) =>
                 Len(Without(entries, e)) < Len(entries)
<1> DEFINE k == CHOOSE k : Keeps(entries, e, k)
<1>1. Without(entries, e) = k[Len(entries)]
  BY DEF Without, Keeps
<1>2. Keeps(entries, e, k)
  BY KeptExists
<1> HIDE DEF k
<1>3. /\ k[0] = << >>
      /\ \A n \in 1..Len(entries) :
            k[n] = IF entries[n] = e THEN k[n - 1]
                   ELSE Append(k[n - 1], entries[n])
  <2> DEFINE F == [n \in 0..Len(entries) |->
                      IF n = 0 THEN << >>
                      ELSE IF entries[n] = e THEN k[n - 1]
                      ELSE Append(k[n - 1], entries[n])]
  <2>1. /\ F[0] = << >>
        /\ \A n \in 1..Len(entries) :
              F[n] = IF entries[n] = e THEN k[n - 1]
                     ELSE Append(k[n - 1], entries[n])
    OBVIOUS
  <2>2. k = F
    BY <1>2 DEF Keeps
  <2> HIDE DEF F
  <2>. QED  BY <2>1, <2>2
<1> DEFINE Fine(n) ==
        /\ k[n] \in Seq(S)
        /\ Len(k[n]) <= n
        /\ (\E i \in 1..n : entries[i] = e) => Len(k[n]) < n
<1>4. ASSUME NEW n \in 1..Len(entries), Fine(n - 1) PROVE Fine(n)
  <2>1. entries[n] \in S /\ n - 1 \in Nat
    OBVIOUS
  <2>2. CASE entries[n] = e
    <3>1. k[n] = k[n - 1]
      BY <1>3, <2>2
    <3>. QED  BY <1>4, <2>1, <3>1
  <2>3. CASE entries[n] # e
    <3>1. k[n] = Append(k[n - 1], entries[n])
      BY <1>3, <2>3
    <3>2. k[n] \in Seq(S) /\ Len(k[n]) = Len(k[n - 1]) + 1
      BY <1>4, <2>1, <3>1
    <3>3. (\E i \in 1..n : entries[i] = e) =>
              \E i \in 1..(n - 1) : entries[i] = e
      BY <2>3
    <3>4. Len(k[n - 1]) \in Nat
      BY <1>4
    <3>. QED  BY <1>4, <2>1, <3>2, <3>3, <3>4
  <2>. QED  BY <2>2, <2>3
<1>5. Fine(0)
  BY <1>3
<1>6. ASSUME NEW n \in 0..Len(entries) PROVE Fine(n)
  <2> DEFINE I == {m \in 0..Len(entries) : ~Fine(m)}
  <2> HIDE DEF Fine
  <2>1. ASSUME I # {} PROVE FALSE
    <3>1. PICK m \in I : \A j \in I : m <= j
      <4>1. I \in SUBSET Nat
        OBVIOUS
      <4> HIDE DEF I
      <4>. QED  BY <2>1, <4>1, LeastOne
    <3>2. m # 0
      BY <1>5, <3>1
    <3>3. m \in 1..Len(entries) /\ m - 1 \in 0..Len(entries) /\ m - 1 \notin I
      BY <3>1, <3>2
    <3>. QED  BY <1>4, <3>1, <3>3
  <2>. QED  BY <2>1
<1>7. Fine(Len(entries))
  BY <1>6
<1>. QED  BY <1>1, <1>7

\* A room the server has in its list has the index of its first place.
LEMMA IndexIs ==
    ASSUME NEW r, roomList \in Seq(Rooms)
    PROVE  /\ Index(r) \in 0..Len(roomList)
           /\ Index(r) < Len(roomList) => roomList[Index(r) + 1] = r
           /\ \A j \in 1..Index(r) : roomList[j] # r
<1> DEFINE I == {i \in 1..Len(roomList) : roomList[i] = r}
           Right(k) == /\ k < Len(roomList) => roomList[k + 1] = r
                       /\ \A j \in 1..k : roomList[j] # r
<1>1. \E k \in 0..Len(roomList) : Right(k)
  <2>1. CASE I = {}
    <3>1. Right(Len(roomList))
      BY <2>1
    <3>. QED  BY <3>1
  <2>2. CASE I # {}
    <3>1. PICK i \in I : \A j \in I : i <= j
      <4>1. I \in SUBSET Nat
        OBVIOUS
      <4> HIDE DEF I
      <4>. QED  BY <2>2, <4>1, LeastOne
    <3>2. i - 1 \in 0..Len(roomList) /\ Right(i - 1)
      BY <3>1
    <3>. QED  BY <3>2
  <2>. QED  BY <2>1, <2>2
<1>2. Index(r) = CHOOSE k \in 0..Len(roomList) : Right(k)
  BY DEF Index
<1> HIDE DEF Right
<1>3. Index(r) \in 0..Len(roomList) /\ Right(Index(r))
  BY <1>1, <1>2
<1>. QED  BY <1>3 DEF Right

-----------------------------------------------------------------------------
LEMMA MakingStep ==
    ASSUME Counting, Making, [Next]_vars
    PROVE  Making'
<1> USE DEF Making
<1>1. CASE \E r \in Rooms : MakeHash(r)
  <2>1. PICK r \in Rooms : MakeHash(r)
    BY <1>1
  <2>2. lobby' = [at |-> "read", room |-> r, present |-> 0, entry |-> NoEntry]
    BY <2>1 DEF MakeHash, Idle
  <2>3. game.room # r /\ UNCHANGED game /\ hash' = [hash EXCEPT ![r] = 0]
    BY <2>1 DEF MakeHash
  <2>4. hash'[r] = 0
    BY <2>3 DEF Counting, Fields
  <2>. QED  BY <2>2, <2>3, <2>4
<1>2. CASE MakeRead
  <2>1. Parsed(0) = 0 /\ lobby.at = "read"
    BY <1>2 DEF Parsed, MakeRead
  <2>2. lobby' = [at |-> "push", room |-> lobby.room, present |-> 0,
                  entry |-> NoEntry]
    <3>1. lobby' = [lobby EXCEPT !.at = "push",
                                 !.present = Parsed(hash[lobby.room])]
      BY <1>2 DEF MakeRead
    <3>2. hash[lobby.room] = 0
      BY <2>1
    <3>3. lobby' = [lobby EXCEPT !.at = "push", !.present = 0]
      BY <2>1, <3>1, <3>2
    <3>4. PICK at, room : lobby = [at |-> at, room |-> room, present |-> 0,
                                   entry |-> NoEntry]
      OBVIOUS
    <3>. QED  BY <3>3, <3>4
  <2>. QED  BY <1>2, <2>1, <2>2 DEF MakeRead, redis
<1>3. CASE MakePush
  BY <1>3 DEF MakePush, Idle
<1>4. CASE \E r \in Rooms : JoinRead(r)
  BY <1>4 DEF JoinRead, Idle, redis
<1>5. CASE \E r \in Rooms : QuitRead(r)
  <2>1. PICK r \in Rooms : QuitRead(r)
    BY <1>5
  <2>2. lobby.at # "idle" => members[lobby.room] = 0
    BY DEF Counting, Elsewhere, Counted, Absent
  <2>3. members[r] > 0 /\ game'.room = r /\ UNCHANGED <<hash, lobby>>
    BY <2>1 DEF QuitRead, Idle, redis
  <2>. QED  BY <2>2, <2>3
<1>6. CASE JoinHash \/ QuitHash
  <2>1. UNCHANGED lobby /\ game'.room = game.room
    BY <1>6 DEF JoinHash, QuitHash, Counting, Fields
  <2>2. \E n : hash' = [hash EXCEPT ![game.room] = n]
    BY <1>6 DEF JoinHash, QuitHash
  <2>. QED  BY <2>1, <2>2 DEF Counting, Fields
<1>7. CASE QuitIndex \/ QuitRemove
  BY <1>7 DEF QuitIndex, QuitRemove, redis, Counting, Fields
<1>8. CASE QuitDelete
  BY <1>8 DEF QuitDelete, Idle, Counting, Fields
<1>9. CASE SetEntry
  BY <1>9 DEF SetEntry, Idle
<1>10. CASE UNCHANGED vars
  BY <1>10 DEF vars, redis
<1>. QED
  BY <1>1, <1>2, <1>3, <1>4, <1>5, <1>6, <1>7, <1>8, <1>9, <1>10
  DEF Next, LobbySteps, GameSteps

LEMMA EmptyingStep ==
    ASSUME Counting, Counting', Making, Emptying, Lists, [Next]_vars
    PROVE  Emptying'
<1> USE DEF Emptying
<1>0. game.at = "idle" => game.room = NoRoom
  BY DEF Counting, Fields
<1>1. CASE \E r \in Rooms : MakeHash(r)
  BY <1>1 DEF MakeHash, Counting, Fields
<1>2. CASE MakeRead
  BY <1>2 DEF MakeRead, redis
<1>3. CASE MakePush
  <2>1. UNCHANGED <<hash, game>> /\ list' = <<Entry(lobby.room, 0)>> \o list
    BY <1>3 DEF MakePush, Making
  <2>2. ASSUME NEW i \in DOMAIN list
        PROVE  i + 1 \in DOMAIN list' /\ list'[i + 1] = list[i]
    BY <2>1 DEF Lists
  <2>. QED  BY <2>1, <2>2
<1>4. CASE \E r \in Rooms : JoinRead(r)
  <2>1. PICK r \in Rooms : JoinRead(r)
    BY <1>4
  <2>2. hash[r] \in Counts
    BY <2>1 DEF JoinRead, Counting, Fields
  <2>3. Parsed(hash[r]) \in Counts
    BY <2>2 DEF Parsed, Counts
  <2>. QED  BY <2>1, <2>3 DEF JoinRead, Idle
<1>5. CASE \E r \in Rooms : QuitRead(r)
  <2>1. PICK r \in Rooms : QuitRead(r)
    BY <1>5
  <2>2. members[r] = hash[r] /\ hash[r] \in 1..MaxMembers
    BY <1>0, <2>1 DEF QuitRead, Counting, Fields, Elsewhere, Counted, Counts
  <2>3. LessOne(Parsed(hash[r])) = hash[r] - 1
    BY <2>2 DEF LessOne, Parsed
  <2>4. game' = [at |-> IF hash[r] - 1 = 0 THEN "index" ELSE "quit",
                 room |-> r, present |-> hash[r] - 1, entry |-> NoEntry]
    BY <2>1, <2>3 DEF QuitRead, Idle
  <2>5. hash[r] - 1 = 0 <=> hash[r] = 1
    BY <2>2
  <2>6. UNCHANGED hash
    BY <2>1 DEF QuitRead, redis
  <2>. QED  BY <2>2, <2>4, <2>5, <2>6 DEF Counts
<1>6. CASE JoinHash \/ QuitHash
  <2>1. game'.at = "set" /\ game'.entry = game.entry
    BY <1>6 DEF JoinHash, QuitHash, Counting, Fields
  <2>2. game'.present \in Counts
    BY <2>1 DEF Counting, InRequest
  <2>. QED  BY <2>1, <2>2
<1>7. CASE QuitIndex
  <2>1. CASE UNCHANGED game
    BY <1>7, <2>1 DEF QuitIndex, redis
  <2>2. CASE ~UNCHANGED game
    <3>1. PICK i : i = Index(game.room) + 1
      OBVIOUS
    <3>2. /\ Index(game.room) < Len(list)
          /\ game.at = "index"
          /\ game' = [game EXCEPT !.at = "remove", !.entry = list[i]]
          /\ UNCHANGED <<hash, list>>
      BY <1>7, <2>2, <3>1 DEF QuitIndex, InRange, redis
    <3>3. i \in DOMAIN list
      BY <3>1, <3>2, IndexIs DEF Lists
    <3>. QED  BY <3>2, <3>3 DEF Counting, Fields, Lists
  <2>. QED  BY <2>1, <2>2
<1>8. CASE QuitRemove
  BY <1>8 DEF QuitRemove, Counting, Fields
<1>9. CASE QuitDelete \/ SetEntry
  <2>1. game' = Idle \/ (game' = game /\ game.at = "set")
    BY <1>9 DEF QuitDelete, SetEntry
  <2>. QED  BY <2>1 DEF Idle, Counts
<1>10. CASE UNCHANGED vars
  BY <1>10 DEF vars, redis
<1>. QED
  BY <1>1, <1>2, <1>3, <1>4, <1>5, <1>6, <1>7, <1>8, <1>9, <1>10
  DEF Next, LobbySteps, GameSteps

\* The room of a join is in the server's list, in front if it was not.
LEMMA JoinLists ==
    ASSUME roomList \in Seq(Rooms), NEW r \in Rooms, JoinRead(r)
    PROVE  /\ roomList' \in Seq(Rooms)
           /\ \A i \in DOMAIN roomList : \E j \in DOMAIN roomList' :
                  roomList'[j] = roomList[i]
           /\ \E j \in DOMAIN roomList' : roomList'[j] = r
<1>0. roomList' = IF Index(r) < Len(roomList) THEN roomList
                  ELSE <<r>> \o roomList
  BY DEF JoinRead
<1>1. CASE Index(r) < Len(roomList)
  <2>1. Index(r) + 1 \in DOMAIN roomList /\ roomList[Index(r) + 1] = r
    BY <1>1, IndexIs
  <2>. QED  BY <1>0, <1>1, <2>1
<1>2. CASE ~(Index(r) < Len(roomList))
  <2>1. roomList' = <<r>> \o roomList
    BY <1>0, <1>2
  <2>2. ASSUME NEW i \in DOMAIN roomList
        PROVE  i + 1 \in DOMAIN roomList' /\ roomList'[i + 1] = roomList[i]
    BY <2>1
  <2>3. 1 \in DOMAIN roomList' /\ roomList'[1] = r
    BY <2>1
  <2>4. roomList' \in Seq(Rooms)
    BY <2>1
  <2>. QED  BY <2>2, <2>3, <2>4
<1>. QED  BY <1>1, <1>2

\* A room that is deleted was joined, and stays in the server's list.
LEMMA KnownGrows ==
    ASSUME Counting, Emptying, Lists, [Next]_vars
    PROVE  Known \subseteq Known'
<1>1. ASSUME NEW i \in DOMAIN roomList PROVE roomList[i] \in Known'
  <2>1. CASE UNCHANGED roomList
    BY <2>1 DEF Known
  <2>2. CASE \E r \in Rooms : JoinRead(r)
    <3>1. PICK j \in DOMAIN roomList' : roomList'[j] = roomList[i]
      BY <2>2, JoinLists DEF Lists
    <3>. QED  BY <3>1 DEF Known
  <2>3. UNCHANGED roomList \/ \E r \in Rooms : JoinRead(r)
    BY DEF Next, LobbySteps, GameSteps, MakeHash, MakeRead, MakePush, JoinHash,
           QuitRead, QuitHash, QuitIndex, QuitRemove, QuitDelete, SetEntry, vars
  <2>. QED  BY <2>1, <2>2, <2>3
<1>2. ASSUME NEW r \in Rooms, hash[r] # Absent PROVE r \in Known'
  <2>1. CASE UNCHANGED hash
    BY <1>2, <2>1 DEF Known
  <2>2. CASE \E q \in Rooms : MakeHash(q)
    BY <1>2, <2>2 DEF MakeHash, Known, Counting, Fields
  <2>3. CASE JoinHash \/ QuitHash
    <3>1. game.present # Absent /\ game.present + 1 # Absent
      BY DEF Emptying, Counts, Absent
    <3>. QED
      BY <1>2, <2>3, <3>1 DEF JoinHash, QuitHash, Known, Counting, Fields
  <2>4. CASE QuitDelete
    <3>1. hash' = [hash EXCEPT ![game.room] = Absent]
      BY <2>4 DEF QuitDelete
    <3>2. CASE r = game.room
      BY <1>1, <3>2 DEF Lists
    <3>3. CASE r # game.room
      BY <1>2, <3>1, <3>3 DEF Known, Counting, Fields
    <3>. QED  BY <3>2, <3>3
  <2>5. \/ UNCHANGED hash \/ \E q \in Rooms : MakeHash(q)
        \/ JoinHash \/ QuitHash \/ QuitDelete
    BY DEF Next, LobbySteps, GameSteps, MakeRead, MakePush, JoinRead,
           QuitRead, QuitIndex, QuitRemove, SetEntry, vars, redis
  <2>. QED  BY <2>1, <2>2, <2>3, <2>4, <2>5
<1>. QED  BY <1>1, <1>2 DEF Known

LEMMA ListsStep ==
    ASSUME Counting, Making, Emptying, Lists, [Next]_vars
    PROVE  Lists'
<1> USE DEF Lists
<1>0. /\ game.at = "idle" => game.room = NoRoom
      /\ \A r \in Rooms : members[r] \in Counts
  BY DEF Counting, Fields
<1>grows. Known \subseteq Known'
  BY KnownGrows
<1>1. CASE \E r \in Rooms : MakeHash(r)
  <2>1. UNCHANGED <<list, roomList, members, game>>
    BY <1>1 DEF MakeHash
  <2>. QED  BY <1>grows, <2>1
<1>2. CASE MakeRead
  BY <1>grows, <1>2 DEF MakeRead, redis
<1>3. CASE MakePush
  <2>1. /\ list' = <<Entry(lobby.room, 0)>> \o list
        /\ lobby.room \in Rooms /\ hash[lobby.room] = 0
        /\ UNCHANGED <<roomList, members, game>>
    BY <1>3 DEF MakePush, Making
  <2>2. lobby.room \in Known
    BY <2>1 DEF Known, Absent
  <2>3. Entry(lobby.room, 0) \in Entries
    BY <2>1 DEF Entry, Entries, Counts
  <2>4. list' \in Seq(Entries)
    BY <2>1, <2>3
  <2>5. ASSUME NEW i \in DOMAIN list' PROVE list'[i].id \in Known
    <3>1. list'[i] = IF i = 1 THEN Entry(lobby.room, 0) ELSE list[i - 1]
      BY <2>1
    <3>2. i # 1 => i - 1 \in DOMAIN list
      BY <2>1
    <3>. QED  BY <2>2, <3>1, <3>2 DEF Entry
  <2>. QED  BY <1>grows, <2>1, <2>4, <2>5
<1>4. CASE \E r \in Rooms : JoinRead(r)
  <2>1. PICK r \in Rooms : JoinRead(r)
    BY <1>4
  <2>2. /\ UNCHANGED list /\ game'.room = r
        /\ \A q \in Rooms : q # r => members'[q] = members[q]
    BY <2>1 DEF JoinRead, redis, Idle, Counting, Fields
  <2>3. ASSUME NEW q \in Rooms, members'[q] > 0 \/ game'.room = q
        PROVE  \E j \in DOMAIN roomList' : roomList'[j] = q
    <3>1. CASE q = r
      BY <2>1, <3>1, JoinLists
    <3>2. CASE q # r
      <4>1. PICK i \in DOMAIN roomList : roomList[i] = q
        BY <2>2, <2>3, <3>2
      <4>. QED  BY <2>1, <4>1, JoinLists
    <3>. QED  BY <3>1, <3>2
  <2>4. roomList' \in Seq(Rooms)
    BY <2>1, JoinLists
  <2>. QED  BY <1>grows, <2>2, <2>3, <2>4
<1>5. CASE \E r \in Rooms : QuitRead(r)
  <2>1. PICK r \in Rooms : QuitRead(r)
    BY <1>5
  <2>2. /\ UNCHANGED <<list, roomList>>
        /\ game'.room = r /\ members[r] > 0
        /\ \A q \in Rooms : q # r => members'[q] = members[q]
    BY <2>1 DEF QuitRead, redis, Idle, Counting, Fields
  <2>. QED  BY <1>grows, <2>2
<1>6. CASE JoinHash \/ QuitHash \/ QuitIndex
  <2>1. UNCHANGED <<list, roomList, members>> /\ game'.room = game.room
    BY <1>6 DEF JoinHash, QuitHash, QuitIndex, redis, Counting, Fields
  <2>. QED  BY <1>grows, <2>1
<1>7. CASE QuitRemove
  <2>1. /\ UNCHANGED <<roomList, members>> /\ game'.room = game.room
        /\ list' = Without(list, game.entry)
    BY <1>7 DEF QuitRemove, Counting, Fields
  <2> DEFINE S == {e \in Entries : e.id \in Known}
  <2>2. list \in Seq(S)
    OBVIOUS
  <2> HIDE DEF S
  <2>3. list' \in Seq(S)
    BY <2>1, <2>2, WithoutIs
  <2>4. list' \in Seq(Entries) /\ \A i \in DOMAIN list' : list'[i].id \in Known
    BY <2>3 DEF S
  <2>. QED  BY <1>grows, <2>1, <2>4
<1>8. CASE QuitDelete
  BY <1>grows, <1>8 DEF QuitDelete, Idle
<1>9. CASE SetEntry
  <2>1. UNCHANGED <<roomList, members>>
    BY <1>9 DEF SetEntry
  <2>2. CASE UNCHANGED list
    <3>1. game' = game \/ game'.room = NoRoom
      BY <1>9 DEF SetEntry, Idle
    <3>. QED  BY <1>grows, <2>1, <2>2, <3>1
  <2>3. CASE ~UNCHANGED list
    <3>1. PICK e : e = Entry(game.room, game.present)
      OBVIOUS
    <3>2. /\ list' = [list EXCEPT ![Index(game.room) + 1] = e]
          /\ game'.room = NoRoom /\ game.room \in Rooms
      BY <1>9, <2>3, <3>1 DEF SetEntry, Idle, Counting, Fields
    <3>3. e \in Entries /\ e.id \in Known
      <4>1. game.room \in Known
        BY <3>2 DEF Known
      <4>. QED  BY <3>1, <3>2, <4>1 DEF Entry, Entries, Emptying
    <3>4. DOMAIN list' = DOMAIN list
          /\ \A i \in DOMAIN list' : list'[i] \in {e, list[i]}
      BY <3>2
    <3>5. list' \in Seq(Entries)
      <4>1. list \in [1..Len(list) -> Entries] /\ Len(list) \in Nat
        OBVIOUS
      <4>2. list' \in [1..Len(list) -> Entries]
        BY <3>2, <3>3, <4>1
      <4>. QED  BY <4>1, <4>2
    <3>6. \A i \in DOMAIN list' : list'[i].id \in Known'
      BY <1>grows, <3>3, <3>4
    <3>7. \A r \in Rooms : members'[r] > 0 \/ game'.room = r =>
              \E i \in DOMAIN roomList' : roomList'[i] = r
      BY <2>1, <3>2
    <3>. QED  BY <2>1, <3>5, <3>6, <3>7
  <2>. QED  BY <2>2, <2>3
<1>10. CASE UNCHANGED vars
  BY <1>grows, <1>10 DEF vars, redis
<1>. QED
  BY <1>1, <1>2, <1>3, <1>4, <1>5, <1>6, <1>7, <1>8, <1>9, <1>10
  DEF Next, LobbySteps, GameSteps

\* What is neither made nor deleted adds no entry but one that is owed.
LEMMA ListingKept ==
    ASSUME Lists, Lists', Listing, Hashed' = Hashed,
           Len(list') + Owed' <= Len(list) + Owed
    PROVE  Listing'
<1>1. Len(list) \in Nat /\ Len(list') \in Nat /\ Owed \in Nat /\ Owed' \in Nat
  BY DEF Lists, Owed
<1>2. Cardinality(Hashed) \in Nat
  BY FS_CardinalityType DEF Listing
<1>. QED  BY <1>1, <1>2 DEF Listing

LEMMA ListingStep ==
    ASSUME Counting, Making, Emptying, Lists, Lists', Listing, [Next]_vars
    PROVE  Listing'
<1>0. /\ game.at = "idle" => game.room = NoRoom
      /\ Len(list) \in Nat
      /\ IsFiniteSet(Hashed) /\ Cardinality(Hashed) \in Nat
  BY FS_CardinalityType DEF Counting, Fields, Lists, Listing
<1>1. CASE \E r \in Rooms : MakeHash(r)
  <2>1. PICK r \in Rooms : MakeHash(r)
    BY <1>1
  <2>2. /\ lobby.at = "idle" /\ lobby'.at = "read"
        /\ UNCHANGED <<list, game>>
        /\ hash' = [hash EXCEPT ![r] = 0] /\ hash[r] = Absent
    BY <2>1 DEF MakeHash, Idle
  <2>3. Hashed' = Hashed \cup {r} /\ r \notin Hashed
    BY <2>2 DEF Hashed, Counting, Fields, Absent
  <2>4. /\ IsFiniteSet(Hashed')
        /\ Cardinality(Hashed') = Cardinality(Hashed) + 1
    BY <1>0, <2>3, FS_AddElement
  <2>5. Owed' = Owed + 1 /\ Owed \in Nat
    BY <2>2 DEF Owed
  <2>. QED  BY <1>0, <2>2, <2>4, <2>5 DEF Listing
<1>2. CASE MakeRead
  <2>1. Owed' = Owed /\ Hashed' = Hashed /\ list' = list
    <3>1. UNCHANGED <<hash, list, game>> /\ lobby.at = "read"
          /\ lobby'.at = "push"
      BY <1>2 DEF MakeRead, redis, Making
    <3>. QED  BY <3>1 DEF Owed, Hashed
  <2>2. Owed \in Nat
    BY DEF Owed
  <2>. QED  BY <1>0, <2>1, <2>2, ListingKept
<1>3. CASE MakePush
  <2>1. /\ list' = <<Entry(lobby.room, lobby.present)>> \o list
        /\ lobby.at = "push" /\ lobby'.at = "idle" /\ UNCHANGED <<hash, game>>
    BY <1>3 DEF MakePush, Idle
  <2>2. Len(list') = Len(list) + 1
    BY <2>1 DEF Lists
  <2>3. Owed = Owed' + 1 /\ Owed' \in Nat /\ Hashed' = Hashed
    BY <2>1 DEF Owed, Hashed
  <2>. QED  BY <1>0, <2>2, <2>3, ListingKept
<1>4. CASE \/ \E r \in Rooms : JoinRead(r) \/ QuitRead(r)
           \/ JoinHash \/ QuitHash \/ QuitIndex
  <2>1. UNCHANGED <<list, lobby>>
    BY <1>4 DEF JoinRead, QuitRead, JoinHash, QuitHash, QuitIndex, redis
  <2>2. game.at # "delete" /\ game'.at # "delete"
    BY <1>4 DEF JoinRead, QuitRead, JoinHash, QuitHash, QuitIndex, Idle,
                Counting, Fields
  <2>3. Hashed' = Hashed
    <3>1. CASE UNCHANGED hash
      BY <3>1 DEF Hashed
    <3>2. CASE ~UNCHANGED hash
      <4>1. JoinHash \/ QuitHash
        BY <1>4, <3>2 DEF JoinRead, QuitRead, QuitIndex, redis
      <4>2. hash[game.room] # Absent /\ game.room \in Rooms
        BY <4>1 DEF JoinHash, QuitHash, Counting, Fields, InRequest, Absent,
                    Counts
      <4>3. game.present # Absent /\ game.present + 1 # Absent
        BY DEF Emptying, Counts, Absent
      <4>4. /\ hash'[game.room] # Absent
            /\ \A q \in Rooms : q # game.room => hash'[q] = hash[q]
        BY <4>1, <4>2, <4>3 DEF JoinHash, QuitHash, Counting, Fields
      <4>. QED  BY <4>2, <4>4 DEF Hashed
    <3>. QED  BY <3>1, <3>2
  <2>4. Owed' = Owed /\ Owed \in Nat
    BY <2>1, <2>2 DEF Owed
  <2>. QED  BY <1>0, <2>1, <2>3, <2>4, ListingKept
<1>5. CASE QuitRemove
  <2>1. /\ list' = Without(list, game.entry)
        /\ game.at = "remove" /\ game'.at = "delete"
        /\ UNCHANGED <<hash, lobby>>
    BY <1>5 DEF QuitRemove, Counting, Fields
  <2>2. Len(list') < Len(list)
    BY <2>1, WithoutIs DEF Emptying, Lists
  <2>3. Len(list') \in Nat
    BY DEF Lists
  <2>4. Owed' = Owed + 1 /\ Owed \in Nat /\ Hashed' = Hashed
    BY <2>1 DEF Owed, Hashed
  <2>5. Len(list') + Owed' <= Len(list) + Owed
    BY <1>0, <2>2, <2>3, <2>4
  <2>. QED  BY <2>4, <2>5, ListingKept
<1>6. CASE QuitDelete
  <2>1. /\ game.at = "delete" /\ game'.at = "idle"
        /\ hash' = [hash EXCEPT ![game.room] = Absent]
        /\ UNCHANGED <<list, lobby>>
    BY <1>6 DEF QuitDelete, Idle
  <2>2. Hashed' = Hashed \ {game.room} /\ game.room \in Hashed
    BY <2>1 DEF Hashed, Emptying, Counting, Fields, Absent
  <2>3. /\ IsFiniteSet(Hashed')
        /\ Cardinality(Hashed') = Cardinality(Hashed) - 1
    BY <1>0, <2>2, FS_RemoveElement
  <2>4. Owed = Owed' + 1 /\ Owed' \in Nat
    BY <2>1 DEF Owed
  <2>. QED  BY <1>0, <2>1, <2>3, <2>4 DEF Listing
<1>7. CASE SetEntry
  <2>1. /\ Len(list') = Len(list) /\ UNCHANGED <<hash, lobby>>
        /\ game.at # "delete" /\ game'.at # "delete"
    BY <1>7 DEF SetEntry, Idle, Lists
  <2>2. Owed' = Owed /\ Owed \in Nat /\ Hashed' = Hashed
    BY <2>1 DEF Owed, Hashed
  <2>. QED  BY <1>0, <2>1, <2>2, ListingKept
<1>8. CASE UNCHANGED vars
  <2>1. Owed' = Owed /\ Owed \in Nat /\ Hashed' = Hashed /\ list' = list
    BY <1>8 DEF Owed, Hashed, vars, redis
  <2>. QED  BY <1>0, <2>1, ListingKept
<1>. QED
  BY <1>1, <1>2, <1>3, <1>4, <1>5, <1>6, <1>7, <1>8
  DEF Next, LobbySteps, GameSteps

-----------------------------------------------------------------------------
(* One room *)

\* Of one room only, the entry is the first in both lists.
LEMMA FirstOfBoth ==
    ASSUME Counting, Lists, One, game.room \in Rooms
    PROVE  Index(game.room) = 0
<1>1. PICK i \in DOMAIN roomList : roomList[i] = game.room
  BY DEF Lists
<1>2. 1 \in DOMAIN roomList
  BY <1>1 DEF Lists
<1>3. roomList[1] = game.room
  BY <1>1, <1>2 DEF One, Known
<1>4. Index(game.room) \in Nat /\ ~(1 \in 1..Index(game.room))
  BY <1>3, IndexIs DEF Lists
<1>. QED  BY <1>4

\* The two servers have no request for the same one room.
LEMMA NoTwoRequests ==
    ASSUME Counting, Making, Lists, One, game.at # "idle"
    PROVE  lobby.at = "idle"
<1>1. game.room \in Known
  BY DEF Counting, Fields, Lists, Known
<1>2. lobby.at # "idle" => lobby.room \in Known
  BY DEF Making, Known, Absent
<1>. QED  BY <1>1, <1>2 DEF One, Making

\* A room that is not listed yet, of one room only, finds an empty list.
LEMMA ListStartsEmpty ==
    ASSUME Making, Lists, Listing, One, lobby.at # "idle"
    PROVE  list = << >>
<1>1. lobby.room \in Hashed
  BY DEF Making, Hashed, Absent
<1>2. Hashed = {lobby.room}
  BY <1>1 DEF One, Hashed, Known
<1>3. Cardinality(Hashed) = 1
  BY <1>2, FS_Singleton
<1>4. Owed \in {1, 2} /\ Len(list) \in Nat
  BY DEF Owed, Lists
<1>5. Len(list) = 0
  BY <1>3, <1>4 DEF Listing
<1>. QED  BY <1>5 DEF Lists

LEMMA MirrorStep ==
    ASSUME Counting, Making, Emptying, Lists, Listing, Mirror, Making',
           [Next]_vars
    PROVE  Mirror'
<1> SUFFICES ASSUME One', NEW r \in Hashed', lobby'.at = "idle",
                    game'.at # "delete"
             PROVE  /\ Len(list') = 1
                    /\ list'[1].id = r
                    /\ IF game'.at # "set" THEN list'[1].present = hash'[r]
                       ELSE \/ list'[1].present = game'.present - 1
                            \/ /\ list'[1].present = game'.present + 1
                               /\ game'.present > 0
    BY DEF Mirror
<1>1. /\ One /\ r \in Rooms /\ hash'[r] # Absent
      /\ \A q \in Known : q = r
      /\ \A q \in Hashed : q = r
  BY KnownGrows DEF One, Known, Hashed
<1>2. game.room \in Rooms => game.room = r
  BY <1>1 DEF Lists, Known
<1>3. game.at # "idle" => game.room = r
  BY <1>2 DEF Counting, Fields
<1>4. ASSUME hash[r] # Absent, lobby.at = "idle", game.at # "delete"
      PROVE  /\ Len(list) = 1
             /\ list[1].id = r
             /\ game.at # "set" => list[1].present = hash[r]
             /\ game.at = "set" =>
                   \/ list[1].present = game.present - 1
                   \/ /\ list[1].present = game.present + 1
                      /\ game.present > 0
  BY <1>1, <1>4 DEF Mirror, Hashed
<1>5. CASE MakePush
  <2>1. /\ list' = <<Entry(lobby.room, 0)>> \o list
        /\ lobby.room \in Rooms /\ hash[lobby.room] = 0
        /\ lobby.at # "idle" /\ UNCHANGED <<hash, game>>
    BY <1>5 DEF MakePush, Making
  <2>2. lobby.room = r
    BY <1>1, <2>1 DEF Hashed, Absent
  <2>3. list = << >>
    BY <1>1, <2>1, ListStartsEmpty
  <2>4. list' = <<Entry(r, 0)>>
    BY <2>1, <2>2, <2>3
  <2>5. game.at = "idle"
    BY <1>1, <2>1, NoTwoRequests
  <2>6. /\ Len(list') = 1 /\ list'[1].id = r /\ list'[1].present = 0
    BY <2>4 DEF Entry
  <2>7. hash'[r] = 0 /\ game'.at # "set"
    BY <2>1, <2>2, <2>5
  <2>. QED  BY <2>6, <2>7
<1>6. CASE \E q \in Rooms : JoinRead(q) \/ QuitRead(q)
  <2>1. UNCHANGED <<hash, list, lobby>> /\ game.at = "idle"
        /\ game'.at \in {"join", "quit", "index"}
    BY <1>6 DEF JoinRead, QuitRead, Idle, redis
  <2>. QED  BY <1>1, <1>4, <2>1
<1>7. CASE JoinHash
  <2>1. /\ game.at = "join" /\ game'.at = "set"
        /\ game'.present = game.present + 1
        /\ UNCHANGED <<list, lobby>>
    BY <1>7 DEF JoinHash, Counting, Fields
  <2>2. hash[r] = game.present /\ game.present \in Nat
    BY <1>3, <2>1 DEF Counting, InRequest
  <2>3. hash[r] # Absent
    BY <2>2 DEF Absent
  <2>. QED  BY <1>4, <2>1, <2>2, <2>3
<1>8. CASE QuitHash
  <2>1. /\ game.at = "quit" /\ game'.at = "set"
        /\ game'.present = game.present
        /\ UNCHANGED <<list, lobby>>
    BY <1>8 DEF QuitHash, Counting, Fields
  <2>2. hash[r] = game.present + 1 /\ game.present \in Nat /\ game.present > 0
    BY <1>3, <2>1 DEF Counting, InRequest
  <2>3. hash[r] # Absent
    BY <2>2 DEF Absent
  <2>. QED  BY <1>4, <2>1, <2>2, <2>3
<1>9. CASE QuitIndex
  <2>1. /\ UNCHANGED <<hash, list, lobby>> /\ game.at = "index"
        /\ game'.at \in {"index", "remove"}
    BY <1>9 DEF QuitIndex, redis, Counting, Fields
  <2>. QED  BY <1>1, <1>4, <2>1
<1>10. CASE QuitDelete
  <2>1. game.room = r /\ hash'[r] = Absent
    BY <1>3, <1>10 DEF QuitDelete, Counting, Fields
  <2>. QED  BY <1>1, <2>1
<1>11. CASE SetEntry
  <2>1. /\ game.at = "set" /\ UNCHANGED <<hash, lobby>>
        /\ game.room = r
    BY <1>3, <1>11 DEF SetEntry
  <2>2. hash[r] = game.present
    BY <2>1 DEF Counting, InRequest
  <2>3. Len(list) = 1
    BY <1>1, <1>4, <2>1
  <2>4. Index(r) = 0
    BY <1>1, <2>1, FirstOfBoth
  <2>5. InRange(Index(r))
    BY <2>3, <2>4 DEF InRange
  <2>6. PICK e : e = Entry(r, game.present)
    OBVIOUS
  <2>7. list' = [list EXCEPT ![1] = e] /\ game'.at = "idle"
    <3>1. Index(r) + 1 = 1
      BY <2>4
    <3>. QED  BY <1>11, <2>1, <2>5, <2>6, <3>1 DEF SetEntry, Idle
  <2>8. Len(list') = 1 /\ list'[1] = e
    BY <2>3, <2>7 DEF Lists
  <2>. QED  BY <2>1, <2>2, <2>6, <2>7, <2>8 DEF Entry
<1>12. CASE UNCHANGED vars
  BY <1>1, <1>4, <1>12 DEF vars, redis
<1>13. CASE \/ \E q \in Rooms : MakeHash(q)
            \/ MakeRead \/ QuitRemove
  BY <1>13 DEF MakeHash, MakeRead, QuitRemove, Idle, Making, Counting, Fields
<1>. QED
  BY <1>5, <1>6, <1>7, <1>8, <1>9, <1>10, <1>11, <1>12, <1>13
  DEF Next, LobbySteps, GameSteps

-----------------------------------------------------------------------------
\* The inductive invariant.
StoreInv ==
    /\ Counting /\ Making /\ Emptying /\ Lists /\ Listing /\ Mirror
    /\ made \in 0..MaxMakes
    /\ killed \in BOOLEAN

LEMMA StoreInit == Init => StoreInv
<1> SUFFICES ASSUME Init PROVE StoreInv
    OBVIOUS
<1>1. Counting
  BY CountingInit
<1>2. Making /\ Emptying
  BY DEF Init, Making, Emptying, Idle, Counts
<1>3. Hashed = {} /\ Known = {}
  BY DEF Init, Hashed, Known
<1>4. Lists
  BY DEF Init, Lists, Idle
<1>5. Listing
  <2>1. Owed = 0 /\ Len(list) = 0
    BY DEF Init, Owed, Idle
  <2>2. IsFiniteSet({}) /\ Cardinality({}) = 0
    BY FS_EmptySet
  <2>. QED  BY <1>3, <2>1, <2>2 DEF Listing
<1>6. Mirror
  BY <1>3 DEF Mirror
<1>7. made \in 0..MaxMakes
  BY DEF Init
<1>8. killed \in BOOLEAN
  BY DEF Init
<1>. QED  BY <1>1, <1>2, <1>4, <1>5, <1>6, <1>7, <1>8 DEF StoreInv

LEMMA StoreStep == StoreInv /\ [Next]_vars => StoreInv'
<1> SUFFICES ASSUME StoreInv, [Next]_vars PROVE StoreInv'
    OBVIOUS
<1> USE DEF StoreInv
<1>1. Counting' /\ Making'
  BY CountingStep, MakingStep
<1>2. Emptying' /\ Lists'
  BY <1>1, EmptyingStep, ListsStep
<1>3. Listing' /\ Mirror'
  BY <1>1, <1>2, ListingStep, MirrorStep
<1>4. \/ made' = made
      \/ made < MaxMakes /\ made' = made + 1
  BY DEF Next, LobbySteps, GameSteps, MakeHash, MakeRead, MakePush, JoinRead,
         JoinHash, QuitRead, QuitHash, QuitIndex, QuitRemove, QuitDelete,
         SetEntry, vars
<1>5. killed' = killed \/ killed' = TRUE
  BY DEF Next, LobbySteps, GameSteps, MakeHash, MakeRead, MakePush, JoinRead,
         JoinHash, QuitRead, QuitHash, QuitIndex, QuitRemove, QuitDelete,
         SetEntry, vars
<1>6. made' \in 0..MaxMakes
  BY <1>4
<1>7. killed' \in BOOLEAN
  BY <1>5
<1>. QED  BY <1>1, <1>2, <1>3, <1>6, <1>7

\* Hashes and entries hold counts that are in range, and no request reads a
\* count or an entry out of it.
THEOREM StoreIsTyped == Spec => []TypeOK
<1>1. StoreInv => TypeOK
  <2> SUFFICES ASSUME StoreInv PROVE TypeOK
      OBVIOUS
  <2>1. lobby \in [at : {"idle", "read", "push"}, room : Rooms \cup {NoRoom},
                   present : Counts, entry : {NoEntry}]
    <3>1. lobby.at \in {"idle", "read", "push"}
          /\ lobby.room \in Rooms \cup {NoRoom} /\ 0 \in Counts
      BY DEF StoreInv, Making, Counts
    <3>2. PICK a, r : lobby = [at |-> a, room |-> r, present |-> 0,
                               entry |-> NoEntry]
      BY DEF StoreInv, Making
    <3>. QED  BY <3>1, <3>2
  <2>2. game \in [at : {"idle", "join", "quit", "set", "index", "remove",
                        "delete"},
                  room : Rooms \cup {NoRoom}, present : Counts,
                  entry : {NoEntry} \cup Entries]
    <3>1. /\ game.at \in {"idle", "join", "quit", "set", "index", "remove",
                          "delete"}
          /\ game.room \in Rooms \cup {NoRoom}
          /\ game.present \in Counts /\ game.entry \in {NoEntry} \cup Entries
      BY DEF StoreInv, Counting, Fields, Emptying
    <3>2. PICK a, r, n, e : game = [at |-> a, room |-> r, present |-> n,
                                    entry |-> e]
      BY DEF StoreInv, Counting, Fields
    <3>. QED  BY <3>1, <3>2
  <2>. QED
    BY <2>1, <2>2 DEF StoreInv, Counting, Fields, Lists, Entries, TypeOK
<1>. QED  BY <1>1, StoreInit, StoreStep, PTL DEF Spec

\* However makes, joins and quits interleave, and whatever entries they put in
\* each other's place, room_list is no longer than there are rooms.
THEOREM ListIsNoLonger == Spec => []ListingNotLonger
<1>1. StoreInv => ListingNotLonger
  <2> SUFFICES ASSUME StoreInv PROVE ListingNotLonger
      OBVIOUS
  <2>1. Len(list) \in Nat /\ Owed \in Nat /\ Cardinality(Hashed) \in Nat
    BY FS_CardinalityType DEF StoreInv, Lists, Listing, Owed
  <2>2. Len(list) <= Cardinality(Hashed)
    BY <2>1 DEF StoreInv, Listing
  <2>. QED  BY <2>2 DEF ListingNotLonger, Hashed
<1>. QED  BY <1>1, StoreInit, StoreStep, PTL DEF Spec

-----------------------------------------------------------------------------
(* What the lobby shows of one room *)

\* What is shown while the list has one entry, or none.
Showing ==
    /\ list = << >> => Shown = [r \in Rooms |-> Absent]
    /\ Len(list) = 1 => Shown = [r \in Rooms |-> IF r = list[1].id
                                               THEN list[1].present
                                               ELSE Absent]

LEMMA ShowingIs == StoreInv => Showing
<1> SUFFICES ASSUME StoreInv, Len(list) = 1
             PROVE  Shown = [r \in Rooms |-> IF r = list[1].id
                                            THEN list[1].present ELSE Absent]
    BY DEF Showing, Shown
<1>0. list \in Seq(Entries)
  BY DEF StoreInv, Lists
<1>1. DOMAIN list = {1} /\ list[1] \in Entries
  BY <1>0
<1>2. Parsed(list[1].present) = list[1].present
  BY <1>1 DEF Parsed, Entries, Counts
<1> DEFINE At(r) == {i \in DOMAIN list : list[i].id = r}
           Said(r) == IF At(r) = {} THEN Absent
                      ELSE Parsed(list[CHOOSE i \in At(r) :
                                  \A j \in At(r) : i <= j].present)
<1>3. ASSUME NEW r \in Rooms
      PROVE  Said(r) = IF r = list[1].id THEN list[1].present ELSE Absent
  <2>1. CASE r = list[1].id
    <3>1. At(r) = {1}
      BY <1>1, <2>1
    <3>2. (CHOOSE i \in {1} : \A j \in {1} : i <= j) = 1
      OBVIOUS
    <3> HIDE DEF At
    <3>3. Said(r) = Parsed(list[1].present)
      BY <3>1, <3>2
    <3>. QED  BY <1>2, <2>1, <3>3
  <2>2. CASE r # list[1].id
    BY <1>1, <2>2
  <2>. QED  BY <2>1, <2>2
<1>4. Shown = [r \in Rooms |-> Said(r)]
  BY DEF Shown
<1> HIDE DEF Said
<1>. QED  BY <1>3, <1>4

\* The two ways to say it.
OneByCount == Cardinality(Known) <= 1 => One

LEMMA OneIsOne == StoreInv => OneByCount
<1> SUFFICES ASSUME StoreInv, Cardinality(Known) <= 1, NEW p \in Known,
                    NEW q \in Known
             PROVE  p = q
    BY DEF One, OneByCount
<1> DEFINE Joined == {roomList[i] : i \in DOMAIN roomList}
<1>1. IsFiniteSet(Joined)
  <2>0. DOMAIN roomList = 1..Len(roomList) /\ Len(roomList) \in Int
    BY DEF StoreInv, Lists
  <2>1. IsFiniteSet(1..Len(roomList)) /\ DOMAIN roomList = 1..Len(roomList)
    BY <2>0, FS_Interval
  <2>2. roomList \in Surjection(1..Len(roomList), Joined)
    BY <2>1 DEF Surjection, StoreInv, Lists
  <2>. QED  BY <2>1, <2>2, FS_Surjection
<1>2. Known = Hashed \cup Joined
  BY DEF Known, Hashed
<1>3. IsFiniteSet(Known)
  BY <1>1, <1>2, FS_Union DEF StoreInv, Listing
<1>4. Cardinality(Known) \in Nat /\ Cardinality(Known) # 0
  BY <1>3, FS_CardinalityType, FS_EmptySet
<1>5. Cardinality(Known) = 1
  BY <1>4
<1>6. PICK r : Known = {r}
  BY <1>3, <1>5, FS_Singleton
<1>. QED  BY <1>6

LEMMA OneDirectoryStep ==
    ASSUME StoreInv, StoreInv', Showing, Showing', [Next]_vars, One'
    PROVE  [Directory!Next]_Shown
<1> USE DEF StoreInv
<1>1. /\ One
      /\ list \in Seq(Entries) /\ list' \in Seq(Entries)
  BY KnownGrows DEF One, Lists
<1>2. CASE UNCHANGED list
  BY <1>2 DEF Shown
<1>3. CASE MakePush
  <2>1. PICK r : r = lobby.room
    OBVIOUS
  <2>2. /\ list' = <<Entry(r, 0)>> \o list /\ r \in Rooms
        /\ lobby.at # "idle"
    BY <1>3, <2>1 DEF MakePush, Making
  <2>3. list = << >> /\ list' = <<Entry(r, 0)>>
    BY <1>1, <2>2, ListStartsEmpty
  <2>4. Shown = [q \in Rooms |-> Absent]
    BY <2>3 DEF Showing
  <2>5. Shown' = [q \in Rooms |-> IF q = r THEN 0 ELSE Absent]
    <3>1. Len(list') = 1 /\ list'[1].id = r /\ list'[1].present = 0
      BY <2>3 DEF Entry
    <3>. QED  BY <3>1 DEF Showing
  <2>6. Directory!Make(r)
    BY <2>2, <2>4, <2>5 DEF Directory!Make, Directory!NotShown, Absent
  <2>. QED  BY <2>2, <2>6 DEF Directory!Next
<1>4. CASE QuitRemove \/ SetEntry
  <2>1. PICK r : r = game.room
    OBVIOUS
  <2>2. r \in Rooms /\ game.at \in {"remove", "set"}
    BY <1>4, <2>1 DEF QuitRemove, SetEntry, Counting, Fields
  <2>3. lobby.at = "idle"
    BY <1>1, <2>2, NoTwoRequests
  <2>4. r \in Hashed
    BY <2>1, <2>2 DEF Hashed, Counting, InRequest, Emptying, Counts, Absent
  <2>5. /\ Len(list) = 1
        /\ list[1].id = r
        /\ game.at = "remove" => list[1].present = hash[r]
        /\ game.at = "set" =>
              \/ list[1].present = game.present - 1
              \/ /\ list[1].present = game.present + 1
                 /\ game.present > 0
    BY <1>1, <2>2, <2>3, <2>4 DEF Mirror
  <2>6. PICK v : v = list[1].present
    OBVIOUS
  <2>7. Shown = [q \in Rooms |-> IF q = r THEN v ELSE Absent]
    BY <2>5, <2>6 DEF Showing
  <2>8. v \in Counts
    <3>1. list[1] \in Entries
      BY <1>1, <2>5
    <3>. QED  BY <2>6, <3>1 DEF Entries
  <2>9. CASE QuitRemove
    <3>1. list' = Without(list, game.entry) /\ game.at = "remove"
      BY <2>9 DEF QuitRemove
    <3>2. Len(list') < 1 /\ Len(list') \in Nat
      BY <1>1, <2>5, <3>1, WithoutIs DEF Emptying
    <3>3. list' = << >>
      BY <1>1, <3>2
    <3>4. Shown' = [q \in Rooms |-> Absent]
      BY <3>3 DEF Showing
    <3>5. v = 1
      BY <2>1, <2>5, <2>6, <3>1 DEF Emptying
    <3>6. Directory!Quit(r)
      BY <2>2, <2>7, <3>4, <3>5
         DEF Directory!Quit, Directory!NotShown, Absent
    <3>. QED  BY <2>2, <3>6 DEF Directory!Next
  <2>10. CASE SetEntry /\ ~UNCHANGED list
    <3>1. PICK n : n = game.present
      OBVIOUS
    <3>2. Index(r) = 0
      BY <1>1, <2>1, <2>2, FirstOfBoth
    <3>3. PICK e : e = Entry(r, n)
      OBVIOUS
    <3>4. list' = [list EXCEPT ![1] = e] /\ game.at = "set"
      <4>1. Index(r) + 1 = 1
        BY <3>2
      <4>. QED  BY <2>1, <2>10, <3>1, <3>3, <4>1 DEF SetEntry
    <3>5. Len(list') = 1 /\ list'[1].id = r /\ list'[1].present = n
      BY <1>1, <2>5, <3>3, <3>4 DEF Entry
    <3>6. Shown' = [q \in Rooms |-> IF q = r THEN n ELSE Absent]
      BY <3>5 DEF Showing
    <3>7. n \in Counts /\ (v = n - 1 \/ (v = n + 1 /\ n > 0))
      BY <2>5, <2>6, <3>1, <3>4 DEF Emptying
    <3>8. CASE v = n - 1
      <4>1. v \in 0..(MaxMembers - 1) /\ n = v + 1
        BY <2>8, <3>7, <3>8 DEF Counts
      <4>2. Directory!Join(r)
        BY <2>2, <2>7, <3>6, <4>1 DEF Directory!Join
      <4>. QED  BY <2>2, <4>2 DEF Directory!Next
    <3>9. CASE v = n + 1 /\ n > 0
      <4>1. v \in 1..MaxMembers /\ n = v - 1 /\ v # 1
        BY <2>8, <3>7, <3>9 DEF Counts
      <4>2. Directory!Quit(r)
        BY <2>2, <2>7, <3>6, <4>1 DEF Directory!Quit
      <4>. QED  BY <2>2, <4>2 DEF Directory!Next
    <3>. QED  BY <3>7, <3>8, <3>9
  <2>. QED  BY <1>2, <1>4, <2>9, <2>10
<1>5. UNCHANGED list \/ MakePush \/ QuitRemove \/ SetEntry
  BY DEF Next, LobbySteps, GameSteps, MakeHash, MakeRead, JoinRead, JoinHash,
         QuitRead, QuitHash, QuitIndex, QuitDelete, vars, redis
<1>. QED  BY <1>2, <1>3, <1>4, <1>5

\* As long as one room only has been known, each step that changes what the
\* lobby shows is a make, a join or a quit of that room.
THEOREM OneRoomMakesTheDirectory == Spec => OneRoomDirectory
<1> DEFINE Inv == StoreInv /\ Showing /\ OneByCount
<1>1. Inv /\ Inv' /\ [Next]_vars =>
          [Cardinality(Known') <= 1 => [Directory!Next]_Shown]_vars
  BY OneDirectoryStep DEF OneByCount
<1>2. StoreInv => Inv
  BY ShowingIs, OneIsOne
<1> HIDE DEF Inv
<1>. QED  BY <1>1, <1>2, StoreInit, StoreStep, PTL DEF Spec, OneRoomDirectory
=============================================================================
