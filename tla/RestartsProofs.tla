--------------------------- MODULE RestartsProofs ---------------------------
(***************************************************************************)
(* Proofs about Restarts.tla, for any rooms, users, page and number of     *)
(* SCANs: all that its run checks.  The invariant of CountsSurviveStarts,  *)
(* RInv, has four parts beside the types: a start or a quit that has its   *)
(* keys, and has met no request, meets none (Quiet) and has them all       *)
(* (Whole); a game server that is not up has no members (Fresh); and what  *)
(* a request has read of its room and not written yet (Balance).           *)
(* StartsClean adds the list (Listed) and the users (Seen).                *)
(* VerifiedKeepTheirName stands on an invariant of its own (Remembered).   *)
(* DiesOnlyOfTornStore needs what the two requests and the list are while  *)
(* nothing has gone wrong (Tidy): what RoomStoreProofs has of them, less   *)
(* what a start may take from a lobby that is down.                        *)
(***************************************************************************)
EXTENDS Restarts, RoomStoreProofs, TLAPS

USE RoomsAssumption, BoundsAssumption, WidthAssumption
USE DEF Serves, Asked

GamePlaces == {"idle", "join", "quit", "set", "index", "remove", "delete"}

Statuses == {"up", "down", "scanned", "leaving", "left"}

Types ==
    /\ hash \in [Rooms -> Nat \cup {Absent}]
    /\ members \in [Rooms -> 0..MaxMembers]
    /\ orphans \in [Rooms -> Nat]
    /\ server \in [Servers -> Statuses]
    /\ server["game"] \notin {"leaving", "left"}
    /\ scanned = [s \in Servers |-> scanned[s]]
    /\ lobby = [at |-> lobby.at, room |-> lobby.room,
                present |-> lobby.present, entry |-> lobby.entry]
    /\ game = [at |-> game.at, room |-> game.room, present |-> game.present,
               entry |-> game.entry]
    /\ game.at \in GamePlaces
    /\ game.room \in IF game.at = "idle" THEN {NoRoom} ELSE Rooms
    /\ game.present \in Nat

Quiet == ~torn /\ Window => ~InFlight

Whole ==
    ~torn => \A s \in Servers, r \in Rooms :
                 Asked(s) /\ hash[r] # Absent => r \in scanned[s]

Fresh ==
    server["game"] # "up" => \A r \in Rooms : members[r] = 0 /\ orphans[r] = 0

\* The members a room's hash should count.
Due(r) == members[r] - orphans[r]

Balance ==
    ~torn /\ GameUp =>
        \A r \in Rooms \ wrapped :
            IF r # game.room THEN Due(r) = Counted(r)
            ELSE /\ game.at = "join" => Due(r) = game.present + 1
                 /\ game.at = "quit" => Due(r) = game.present
                 /\ game.at = "set" => Due(r) = game.present
                                       /\ hash[r] = game.present
                 /\ game.at \in {"index", "remove", "delete"} => Due(r) = 0

RInv == Types /\ Quiet /\ Whole /\ Fresh /\ Balance

-----------------------------------------------------------------------------
LEMMA RInvInit == RestartsInit => RInv
<1> SUFFICES ASSUME RestartsInit PROVE RInv
    OBVIOUS
<1> USE DEF RestartsInit, Init
<1>1. Types
  BY DEF Types, Statuses, GamePlaces, Servers, Idle, Absent
<1>2. \A s \in Servers : server[s] = "up"
  OBVIOUS
<1>3. Quiet /\ Whole /\ Fresh
  BY <1>2 DEF Quiet, Whole, Fresh, Window, Servers
<1>4. Balance
  BY DEF Balance, Counted, Due, Idle
<1>. QED  BY <1>1, <1>3, <1>4 DEF RInv

\* A request that is served meets no SCAN or DEL, or Redis is torn.
LEMMA ServedQuietly ==
    ASSUME RInv, UNCHANGED <<server, scanned>>, torn' \/ (~torn /\ ~Window)
    PROVE  Quiet' /\ Whole'
BY DEF RInv, Quiet, Whole, Window

LEMMA InFlightMeetsNoStart ==
    ASSUME RInv, InFlight
    PROVE  torn \/ ~Window
BY DEF RInv, Quiet

\* A step that changes neither hashes nor members keeps the invariant, unless it
\* begins a request.
LEMMA QuietStep ==
    ASSUME RInv, Types',
           UNCHANGED <<hash, members, orphans, server, scanned, game, torn,
                       wrapped>>,
           InFlight' => InFlight,
           GameUp' => GameUp
    PROVE  RInv'
<1>1. Quiet' /\ Whole' /\ Fresh'
  BY DEF RInv, Quiet, Whole, Fresh, Window
<1>2. Balance'
  BY DEF RInv, Balance, Counted, Due
<1>. QED  BY <1>1, <1>2 DEF RInv

-----------------------------------------------------------------------------
(* The lobby and the login server *)

LEMMA UserStep ==
    ASSUME RInv,
           \/ \E u \in Users : Verify(u)
           \/ \E u \in Users : Enter(u)
    PROVE  RInv'
<1>1. UNCHANGED <<store, starts, orphans, torn, wrapped>>
  BY DEF Verify, Enter
<1>2. Types' /\ (InFlight' => InFlight) /\ (GameUp' => GameUp)
  BY <1>1 DEF RInv, Types, store, starts, InFlight, GameUp, LobbyUp
<1>. QED  BY <1>1, <1>2, QuietStep DEF store, starts

LEMMA MakeStep ==
    ASSUME RInv, NEW r \in Rooms, LobbyUp, StartMake(r)
    PROVE  RInv'
<1>1. /\ hash[r] = Absent /\ game.room # r
      /\ hash' = [hash EXCEPT ![r] = 0]
      /\ lobby' = [at |-> "read", room |-> r, present |-> 0,
                   entry |-> NoEntry]
      /\ torn' = (torn \/ Window)
      /\ UNCHANGED <<members, orphans, server, scanned, game, wrapped, killed>>
  BY DEF StartMake, MakeHash, Idle, starts
<1>2. Types'
  BY <1>1 DEF RInv, Types
<1>3. torn' \/ (~torn /\ ~Window)
  BY <1>1
<1>4. Fresh'
  BY <1>1 DEF RInv, Fresh
<1>5. Balance'
  <2> SUFFICES ASSUME ~torn', GameUp', NEW q \in Rooms \ wrapped'
               PROVE  IF q # game'.room THEN Due(q)' = Counted(q)'
                      ELSE /\ game'.at = "join" => Due(q)' = game'.present + 1
                           /\ game'.at = "quit" => Due(q)' = game'.present
                           /\ game'.at = "set" => Due(q)' = game'.present
                                                 /\ hash'[q] = game'.present
                           /\ game'.at \in {"index", "remove", "delete"}
                                 => Due(q)' = 0
      BY DEF Balance
  <2>1. ~torn /\ GameUp /\ q \notin wrapped
    BY <1>1 DEF GameUp
  <2>2. CASE q = r
    BY <2>1, <2>2, <1>1 DEF RInv, Types, Balance, Counted, Due, Absent
  <2>3. CASE q # r
    BY <2>1, <2>3, <1>1 DEF RInv, Types, Balance, Counted, Due
  <2>. QED  BY <2>2, <2>3
<1>. QED  BY <1>1, <1>2, <1>3, <1>4, <1>5, ServedQuietly DEF RInv

LEMMA LobbyStep ==
    ASSUME RInv, LobbyUp, LobbyRead \/ LobbyPush
    PROVE  RInv'
<1>1. /\ UNCHANGED <<hash, members, orphans, game, torn, wrapped, killed>>
      /\ lobby.at # "idle"
  BY DEF LobbyRead, ReadBack, LobbyPush, MakeRead, MakePush, redis, store,
         starts
<1>2. lobby' = [at |-> lobby'.at, room |-> lobby'.room,
                present |-> lobby'.present, entry |-> lobby'.entry]
  BY DEF RInv, Types, LobbyRead, ReadBack, LobbyPush, MakeRead, MakePush,
         store, Idle
<1>3. \/ UNCHANGED <<server, scanned>>
      \/ /\ server' = [server EXCEPT !["lobby"] = "down"]
         /\ scanned' = [scanned EXCEPT !["lobby"] = {}]
  BY DEF LobbyRead, ReadBack, LobbyPush, MakePush, starts
<1>4. Types'
  BY <1>1, <1>2, <1>3 DEF RInv, Types, Statuses, Servers
<1>5. torn \/ ~Window
  BY <1>1, InFlightMeetsNoStart DEF InFlight
<1>6. Quiet' /\ Whole'
  BY <1>1, <1>3, <1>5 DEF RInv, Types, Quiet, Whole, Window, Servers
<1>7. server'["game"] = server["game"]
  BY <1>3 DEF RInv, Types, Servers
<1>8. Fresh' /\ Balance'
  BY <1>1, <1>7 DEF RInv, Fresh, Balance, Counted, Due, GameUp
<1>. QED  BY <1>4, <1>6, <1>8 DEF RInv

-----------------------------------------------------------------------------
(* The game server *)

\* What the game server does to a room other than the request's.
LEMMA GameStep ==
    ASSUME RInv, GameUp, Types',
           UNCHANGED <<server, scanned, orphans>>,
           torn' \/ (~torn /\ ~Window),
           NEW r \in Rooms,
           game.room \in {NoRoom, r}, game'.room \in {NoRoom, r},
           wrapped \subseteq wrapped' \cup {r},
           \A q \in Rooms \ {r} :
               hash'[q] = hash[q] /\ members'[q] = members[q],
           ~torn /\ GameUp' /\ r \notin wrapped' =>
               IF r # game'.room THEN Due(r)' = Counted(r)'
               ELSE /\ game'.at = "join" => Due(r)' = game'.present + 1
                    /\ game'.at = "quit" => Due(r)' = game'.present
                    /\ game'.at = "set" => Due(r)' = game'.present
                                          /\ hash'[r] = game'.present
                    /\ game'.at \in {"index", "remove", "delete"}
                          => Due(r)' = 0
    PROVE  RInv'
<1>1. Quiet' /\ Whole'
  BY ServedQuietly
<1>2. Fresh'
  BY DEF Fresh, GameUp
<1>3. Balance'
  <2> SUFFICES ASSUME ~torn', GameUp', NEW q \in Rooms \ wrapped', q # r
               PROVE  Due(q)' = Counted(q)' /\ q # game'.room
      BY DEF Balance
  <2>. QED  BY DEF RInv, Balance, Counted, Due
<1>. QED  BY <1>1, <1>2, <1>3 DEF RInv

LEMMA JoinStarts ==
    ASSUME RInv, GameUp, NEW r \in Rooms, StartRequest(r), JoinRead(r)
    PROVE  RInv'
<1>1. /\ game.at = "idle" /\ hash[r] # Absent
      /\ hash[r] \in Nat /\ members[r] \in 0..(MaxMembers - 1)
      /\ members' = [members EXCEPT ![r] = @ + 1]
      /\ game' = [at |-> "join", room |-> r, present |-> Parsed(hash[r]),
                  entry |-> NoEntry]
      /\ UNCHANGED <<hash, lobby, killed, server, scanned, orphans>>
      /\ torn' = (torn \/ Window)
      /\ wrapped' = wrapped
  <2>1. game.room = NoRoom /\ game'.at = "join"
    BY DEF RInv, Types, JoinRead, Idle
  <2>2. ~QuitRead(r)
    BY <2>1 DEF QuitRead, Idle
  <2>3. /\ hash[r] \in Nat \cup {Absent}
        /\ members[r] \in 0..MaxMembers /\ members[r] < MaxMembers
    BY DEF RInv, Types, JoinRead
  <2>4. game' = [at |-> "join", room |-> r, present |-> Parsed(hash[r]),
                 entry |-> NoEntry]
    BY DEF JoinRead, Idle
  <2>5. /\ game.at = "idle" /\ hash[r] # Absent
        /\ members' = [members EXCEPT ![r] = @ + 1]
        /\ UNCHANGED <<hash, lobby, killed>>
    BY DEF JoinRead, redis
  <2>6. /\ UNCHANGED <<server, scanned, orphans, wrapped>>
        /\ torn' = (torn \/ Window)
    BY <2>2 DEF StartRequest, starts
  <2>7. hash[r] \in Nat /\ members[r] \in 0..(MaxMembers - 1)
    BY <2>3, <2>5
  <2>. QED
    BY <2>4, <2>5, <2>6, <2>7
<1>2. Parsed(hash[r]) \in Nat
  BY <1>1 DEF Parsed
<1>3. Types'
  BY <1>1, <1>2 DEF RInv, Types, GamePlaces
<1>4. ASSUME ~torn, r \notin wrapped
      PROVE  Due(r)' = Parsed(hash[r]) + 1
  <2>1. Due(r) = hash[r]
    BY <1>1, <1>4 DEF RInv, Types, Balance, Counted
  <2>2. hash[r] <= MaxMembers
    BY <2>1, <1>1 DEF RInv, Types, Due
  <2>3. Parsed(hash[r]) = hash[r]
    BY <2>2, <1>1 DEF Parsed
  <2>. QED  BY <2>1, <2>3, <1>1 DEF RInv, Types, Due
<1>5. game.room = NoRoom
  BY <1>1 DEF RInv, Types
<1>6. \A q \in Rooms \ {r} : hash'[q] = hash[q] /\ members'[q] = members[q]
  BY <1>1 DEF RInv, Types
<1>. QED  BY <1>1, <1>3, <1>4, <1>5, <1>6, GameStep

LEMMA QuitStarts ==
    ASSUME RInv, GameUp, NEW r \in Rooms, StartRequest(r), QuitRead(r),
           ~JoinRead(r)
    PROVE  RInv'
<1> DEFINE n == LessOne(Parsed(hash[r]))
<1>1. /\ game.at = "idle" /\ hash[r] # Absent
      /\ hash[r] \in Nat /\ members[r] \in 1..MaxMembers
      /\ members' = [members EXCEPT ![r] = @ - 1]
      /\ game' = [at |-> IF n = 0 THEN "index" ELSE "quit", room |-> r,
                  present |-> n, entry |-> NoEntry]
      /\ UNCHANGED <<hash, lobby, killed, server, scanned, orphans>>
      /\ torn' = (torn \/ Window)
      /\ wrapped' = IF hash[r] = 0 THEN wrapped \cup {r} ELSE wrapped
  <2>1. /\ hash[r] \in Nat \cup {Absent}
        /\ members[r] \in 0..MaxMembers /\ members[r] > 0
    BY DEF RInv, Types, QuitRead
  <2>2. game' = [at |-> IF n = 0 THEN "index" ELSE "quit", room |-> r,
                 present |-> n, entry |-> NoEntry]
    BY DEF QuitRead, Idle
  <2>3. /\ game.at = "idle" /\ hash[r] # Absent
        /\ members' = [members EXCEPT ![r] = @ - 1]
        /\ UNCHANGED <<hash, lobby, killed>>
    BY DEF QuitRead, redis
  <2>4. /\ UNCHANGED <<server, scanned, orphans>>
        /\ torn' = (torn \/ Window)
        /\ wrapped' = IF hash[r] = 0 THEN wrapped \cup {r} ELSE wrapped
    BY DEF StartRequest, starts
  <2>5. hash[r] \in Nat /\ members[r] \in 1..MaxMembers
    BY <2>1, <2>3
  <2>. QED
    BY <2>2, <2>3, <2>4, <2>5
<1>2. Parsed(hash[r]) \in Nat /\ n \in Nat
  BY <1>1 DEF Parsed, LessOne
<1>3. Types'
  BY <1>1, <1>2 DEF RInv, Types, GamePlaces
<1>4. ASSUME ~torn, r \notin wrapped'
      PROVE  Due(r)' = n
  <2>1. Due(r) = hash[r] /\ hash[r] > 0
    BY <1>1, <1>4 DEF RInv, Types, Balance, Counted
  <2>2. hash[r] <= MaxMembers
    BY <2>1, <1>1 DEF RInv, Types, Due
  <2>3. n = hash[r] - 1
    BY <2>1, <2>2, <1>1 DEF Parsed, LessOne
  <2>. QED  BY <2>1, <2>3, <1>1 DEF RInv, Types, Due
<1>5. game.room = NoRoom
  BY <1>1 DEF RInv, Types
<1>6. wrapped \subseteq wrapped' \cup {r}
  BY <1>1
<1>7. \A q \in Rooms \ {r} : hash'[q] = hash[q] /\ members'[q] = members[q]
  BY <1>1 DEF RInv, Types
<1>8. game'.at \in {"index", "quit"} /\ game'.room = r /\ game'.present = n
      /\ (game'.at = "index" => n = 0)
  BY <1>1
<1>. QED  BY <1>1, <1>3, <1>4, <1>5, <1>6, <1>7, <1>8, GameStep

LEMMA CountStep ==
    ASSUME RInv, GameUp, CountMember
    PROVE  RInv'
<1> DEFINE n == IF game.at = "join" THEN game.present + 1 ELSE game.present
<1>0. PICK r : r = game.room
  OBVIOUS
<1>1. /\ game.at \in {"join", "quit"}
      /\ hash' = [hash EXCEPT ![r] = n]
      /\ game' = [at |-> "set", room |-> r, present |-> n,
                  entry |-> game.entry]
      /\ UNCHANGED <<members, orphans, lobby, server, scanned, torn, wrapped>>
  BY <1>0 DEF RInv, Types, CountMember, JoinHash, QuitHash, starts
<1>2. r \in Rooms /\ n \in Nat
  BY <1>0, <1>1 DEF RInv, Types
<1>3. Types'
  BY <1>1, <1>2 DEF RInv, Types, GamePlaces
<1>4. torn \/ ~Window
  BY <1>1, InFlightMeetsNoStart DEF InFlight, GameUp
<1>5. ~torn /\ r \notin wrapped => Due(r)' = n /\ hash'[r] = n
  BY <1>0, <1>1, <1>2 DEF RInv, Types, Balance, Due
<1>6. \A q \in Rooms \ {r} : hash'[q] = hash[q] /\ members'[q] = members[q]
  BY <1>1 DEF RInv, Types
<1>. QED  BY <1>0, <1>1, <1>2, <1>3, <1>4, <1>5, <1>6, GameStep

LEMMA DeleteStep ==
    ASSUME RInv, GameUp, DeleteHash
    PROVE  RInv'
<1>0. PICK r : r = game.room
  OBVIOUS
<1>1. /\ game.at = "delete"
      /\ hash' = [hash EXCEPT ![r] = Absent]
      /\ game' = Idle
      /\ UNCHANGED <<members, orphans, lobby, server, scanned, torn, wrapped>>
  BY <1>0 DEF DeleteHash, QuitDelete, starts
<1>2. r \in Rooms
  BY <1>0, <1>1 DEF RInv, Types
<1>3. Types'
  BY <1>1, <1>2 DEF RInv, Types, GamePlaces, Idle
<1>4. torn \/ ~Window
  BY <1>1, InFlightMeetsNoStart DEF InFlight, GameUp
<1>5. ~torn /\ r \notin wrapped => Due(r)' = 0 /\ Counted(r)' = 0
  BY <1>0, <1>1, <1>2 DEF RInv, Types, Balance, Due, Counted
<1>6. game'.room = NoRoom /\ r # NoRoom
  BY <1>1, <1>2 DEF Idle
<1>7. \A q \in Rooms \ {r} : hash'[q] = hash[q] /\ members'[q] = members[q]
  BY <1>1 DEF RInv, Types
<1>. QED  BY <1>0, <1>1, <1>2, <1>3, <1>4, <1>5, <1>6, <1>7, GameStep

LEMMA ListStep ==
    ASSUME RInv, GameUp, ChangeList
    PROVE  RInv'
<1>0. PICK r : r = game.room
  OBVIOUS
<1>1. /\ game.at \in {"index", "remove", "set"}
      /\ UNCHANGED <<hash, members, orphans, lobby, server, scanned, torn,
                     wrapped>>
  BY DEF ChangeList, QuitIndex, QuitRemove, SetEntry, redis, starts
<1>2. r \in Rooms
  BY <1>0, <1>1 DEF RInv, Types
<1>3. \/ /\ game.at \in {"index", "remove"}
         /\ \E at \in {"index", "remove", "delete"} : \E e :
               game' = [at |-> at, room |-> r, present |-> game.present,
                        entry |-> e]
      \/ game.at = "set" /\ (game' = Idle \/ killed')
  BY <1>0 DEF RInv, Types, ChangeList, QuitIndex, QuitRemove, SetEntry
<1>4. game' = game \/ game' = Idle
      \/ \E at \in {"index", "remove", "delete"} : \E e :
               game' = [at |-> at, room |-> r, present |-> game.present,
                        entry |-> e]
  BY <1>0 DEF RInv, Types, ChangeList, QuitIndex, QuitRemove, SetEntry
<1>5. Types'
  BY <1>1, <1>2, <1>4 DEF RInv, Types, GamePlaces, Idle
<1>6. torn \/ ~Window
  BY <1>1, InFlightMeetsNoStart DEF InFlight, GameUp
<1>7. game'.room \in {NoRoom, r}
  BY <1>0, <1>4 DEF Idle
<1>8. ASSUME ~torn, GameUp', r \notin wrapped'
      PROVE  IF r # game'.room THEN Due(r)' = Counted(r)'
             ELSE /\ game'.at = "join" => Due(r)' = game'.present + 1
                  /\ game'.at = "quit" => Due(r)' = game'.present
                  /\ game'.at = "set" => Due(r)' = game'.present
                                        /\ hash'[r] = game'.present
                  /\ game'.at \in {"index", "remove", "delete"}
                        => Due(r)' = 0
  <2>1. CASE game.at \in {"index", "remove"}
    <3>1. Due(r)' = 0
      BY <1>0, <1>1, <1>2, <1>8, <2>1 DEF RInv, Balance, Due
    <3>. QED  BY <1>3, <2>1, <3>1
  <2>2. CASE game.at = "set"
    <3>1. game' = Idle
      BY <1>3, <1>8, <2>2 DEF GameUp
    <3>2. Due(r)' = hash[r] /\ hash[r] = game.present
      BY <1>0, <1>1, <1>2, <1>8, <2>2 DEF RInv, Balance, Due
    <3>. QED  BY <1>1, <1>2, <3>1, <3>2 DEF RInv, Types, Idle, Counted, Absent
  <2>. QED  BY <1>1, <2>1, <2>2
<1>. QED  BY <1>0, <1>1, <1>2, <1>5, <1>6, <1>7, <1>8, GameStep

LEMMA FatalStep ==
    ASSUME RInv, StartFatal
    PROVE  RInv'
<1>1. UNCHANGED <<hash, members, orphans, server, scanned, game, lobby, torn,
                  wrapped>> /\ killed'
  BY DEF StartFatal, redis, starts
<1>2. Types'
  BY <1>1 DEF RInv, Types
<1>. QED  BY <1>1, <1>2, QuietStep DEF InFlight, LobbyUp, GameUp

-----------------------------------------------------------------------------
(* Stops and starts *)

LEMMA StopStep ==
    ASSUME RInv, NEW s \in Servers, Stop(s)
    PROVE  RInv'
<1>1. /\ Serves(s)
      /\ server' = [server EXCEPT ![s] = "down"]
      /\ scanned' = [scanned EXCEPT ![s] = {}]
      /\ UNCHANGED <<hash, lobby, game, torn, wrapped, killed>>
  BY DEF Stop, redis
<1>2. \/ /\ s # "game" /\ UNCHANGED <<members, orphans>>
      \/ /\ s = "game"
         /\ members' = [r \in Rooms |-> 0] /\ orphans' = [r \in Rooms |-> 0]
  BY DEF Stop
<1>3. Types'
  <2>1. /\ members' \in [Rooms -> 0..MaxMembers]
        /\ orphans' \in [Rooms -> Nat]
    BY <1>2 DEF RInv, Types
  <2>2. /\ server' \in [Servers -> Statuses]
        /\ server'["game"] \notin {"leaving", "left"}
        /\ scanned' = [z \in Servers |-> scanned'[z]]
    BY <1>1 DEF RInv, Types, Statuses, Servers
  <2>. QED  BY <1>1, <2>1, <2>2 DEF RInv, Types
<1>4. \A z \in Servers :
          /\ server'[z] = IF z = s THEN "down" ELSE server[z]
          /\ scanned'[z] = IF z = s THEN {} ELSE scanned[z]
  BY <1>1 DEF RInv, Types
<1>5. (Window' => Window) /\ (InFlight' => InFlight)
  BY <1>1, <1>4 DEF Window, InFlight, LobbyUp, GameUp, Servers
<1>6. Quiet' /\ Whole'
  BY <1>1, <1>4, <1>5 DEF RInv, Quiet, Whole
<1>7. Fresh'
  BY <1>2, <1>4 DEF RInv, Fresh, Servers
<1>8. Balance'
  BY <1>1, <1>2, <1>4
     DEF RInv, Balance, Counted, Due, GameUp, Servers
<1>. QED  BY <1>3, <1>6, <1>7, <1>8 DEF RInv

\* A start or a quit, to SCAN's reply.
LEMMA ScanStep ==
    ASSUME RInv, NEW s \in Servers, Scan(s) \/ Quit(s)
    PROVE  RInv'
<1>1. PICK keys \in SUBSET Keys :
          /\ scanned' = [scanned EXCEPT ![s] = keys]
          /\ torn' = (torn \/ InFlight \/ keys # Keys)
  BY DEF Scan, Quit, SendScan
<1>2. /\ \/ server[s] = "down" /\ server' = [server EXCEPT ![s] = "scanned"]
         \/ /\ s # "game" /\ server[s] = "up"
            /\ server' = [server EXCEPT ![s] = "leaving"]
      /\ UNCHANGED <<hash, lobby, game, members, orphans, wrapped, killed>>
  BY DEF Scan, Quit, SendScan, store
<1>3. \A z \in Servers :
          /\ z # s => server'[z] = server[z]
          /\ z = s => \/ server[z] = "down" /\ server'[z] = "scanned"
                      \/ /\ server[z] = "up" /\ server'[z] = "leaving"
                         /\ z # "game"
          /\ scanned'[z] = IF z = s THEN keys ELSE scanned[z]
  BY <1>1, <1>2 DEF RInv, Types
<1>4. Types'
  BY <1>1, <1>2 DEF RInv, Types, Statuses, Servers
<1>5. InFlight' <=> InFlight
  BY <1>2, <1>3 DEF InFlight, LobbyUp, GameUp, Servers
<1>6. Quiet'
  BY <1>1, <1>5 DEF Quiet
<1>7. Whole'
  BY <1>1, <1>2, <1>3 DEF RInv, Whole, Keys
<1>8. Fresh'
  BY <1>2, <1>3 DEF RInv, Fresh, Servers
<1>9. Balance'
  <2>1. ~torn' => ~torn
    BY <1>1
  <2>2. GameUp' => GameUp
    BY <1>2, <1>3 DEF GameUp, Servers
  <2>. QED  BY <1>2, <2>1, <2>2 DEF RInv, Balance, Counted, Due
<1>. QED  BY <1>4, <1>6, <1>7, <1>8, <1>9 DEF RInv

LEMMA CleanStep ==
    ASSUME RInv, NEW s \in Servers, Clean(s)
    PROVE  RInv'
<1>1. /\ Asked(s)
      /\ server' = [server EXCEPT ![s] =
                        IF @ = "scanned" THEN "up" ELSE "left"]
      /\ scanned' = [scanned EXCEPT ![s] = {}]
      /\ hash' = [r \in Rooms |->
                     IF r \in scanned[s] THEN Absent ELSE hash[r]]
      /\ wrapped' = wrapped \ scanned[s]
      /\ orphans' = [r \in Rooms |-> IF r \in scanned[s] THEN members[r]
                                     ELSE orphans[r]]
      /\ UNCHANGED <<members, torn>>
  BY DEF Clean, Serve
<1>2. /\ lobby' = IF s = "lobby" /\ server[s] = "scanned"
                  THEN Idle ELSE lobby
      /\ game' = IF s = "game" THEN Idle ELSE game
      /\ killed' = (killed /\ s # "game")
  BY DEF Clean, Serve
<1>3. \A z \in Servers :
          /\ server'[z] = IF z # s THEN server[z]
                          ELSE IF server[z] = "scanned" THEN "up" ELSE "left"
          /\ scanned'[z] = IF z = s THEN {} ELSE scanned[z]
  BY <1>1 DEF RInv, Types
<1>4. Types'
  <2>1. hash' \in [Rooms -> Nat \cup {Absent}]
    BY <1>1 DEF RInv, Types
  <2>2. orphans' \in [Rooms -> Nat]
    BY <1>1 DEF RInv, Types
  <2>3. /\ server' \in [Servers -> Statuses]
        /\ server'["game"] \notin {"leaving", "left"}
        /\ scanned' = [z \in Servers |-> scanned'[z]]
        /\ members' \in [Rooms -> 0..MaxMembers]
    BY <1>1 DEF RInv, Types, Statuses, Servers
  <2>4. lobby' = [at |-> lobby'.at, room |-> lobby'.room,
                  present |-> lobby'.present, entry |-> lobby'.entry]
    BY <1>2 DEF RInv, Types, Idle
  <2>5. /\ game' = [at |-> game'.at, room |-> game'.room,
                    present |-> game'.present, entry |-> game'.entry]
        /\ game'.at \in GamePlaces
        /\ game'.room \in IF game'.at = "idle" THEN {NoRoom} ELSE Rooms
        /\ game'.present \in Nat
    BY <1>2 DEF RInv, Types, Idle, GamePlaces
  <2>. QED  BY <2>1, <2>2, <2>3, <2>4, <2>5 DEF Types
<1>5. ASSUME ~torn
      PROVE  ~InFlight /\ ~InFlight'
  <2>1. ~InFlight
    BY <1>1, <1>5 DEF RInv, Quiet, Window
  <2>2. LobbyUp' => lobby'.at = "idle"
    BY <2>1, <1>1, <1>2, <1>3 DEF InFlight, LobbyUp, Servers, Idle
  <2>3. GameUp' => game'.at = "idle"
    BY <2>1, <1>2, <1>3 DEF InFlight, GameUp, Servers, Idle
  <2>. QED  BY <2>1, <2>2, <2>3 DEF InFlight
<1>6. ASSUME ~torn
      PROVE  \A r \in Rooms : hash[r] # Absent => r \in scanned[s]
  BY <1>1, <1>6 DEF RInv, Whole
<1>7. Quiet'
  BY <1>1, <1>5 DEF Quiet
<1>8. Whole'
  BY <1>1, <1>6 DEF Whole
<1>9. Fresh'
  BY <1>1, <1>3 DEF RInv, Types, Fresh, Servers
<1>10. Balance'
  <2> SUFFICES ASSUME ~torn', GameUp', NEW r \in Rooms \ wrapped'
               PROVE  Due(r)' = Counted(r)' /\ game'.at = "idle"
                      /\ r # game'.room
      BY DEF Balance
  <2>1. ~torn /\ hash'[r] = Absent
    BY <1>1, <1>6
  <2>2. game'.at = "idle"
    BY <1>1, <1>5, <2>1 DEF InFlight
  <2>3. r # game'.room
    BY <2>2, <1>4 DEF Types
  <2>4. Due(r)' = 0
    <3>1. CASE r \in scanned[s]
      BY <1>1, <3>1 DEF RInv, Types, Due
    <3>2. CASE r \notin scanned[s] /\ s = "game"
      BY <1>1, <3>2 DEF RInv, Types, Fresh, Due
    <3>3. CASE r \notin scanned[s] /\ s # "game"
      <4>1. GameUp /\ game = game'
        BY <1>2, <1>3, <3>3 DEF GameUp, Servers
      <4>2. r \notin wrapped /\ hash[r] = Absent
        BY <1>1, <1>6, <2>1, <3>3
      <4>3. Due(r) = 0
        BY <2>1, <2>3, <4>1, <4>2 DEF RInv, Balance, Counted
      <4>. QED  BY <1>1, <3>3, <4>3 DEF Due
    <3>. QED  BY <3>1, <3>2, <3>3
  <2>. QED  BY <2>1, <2>2, <2>3, <2>4 DEF Counted
<1>. QED  BY <1>4, <1>7, <1>8, <1>9, <1>10 DEF RInv

-----------------------------------------------------------------------------
LEMMA RInvStep == RInv /\ [RestartsNext]_allVars => RInv'
<1> SUFFICES ASSUME RInv, [RestartsNext]_allVars PROVE RInv'
    OBVIOUS
<1>1. CASE LoginServer
  BY <1>1, UserStep DEF LoginServer
<1>2. CASE LobbyServer
  BY <1>2, UserStep, MakeStep, LobbyStep DEF LobbyServer
<1>3. CASE GameServer
  <2>1. ASSUME NEW r \in Rooms, StartRequest(r) PROVE RInv'
    BY <1>3, <2>1, JoinStarts, QuitStarts DEF GameServer, StartRequest
  <2>. QED  BY <1>3, <2>1, FatalStep, CountStep, DeleteStep, ListStep
            DEF GameServer
<1>4. CASE \E s \in Servers : Stop(s) \/ Scan(s) \/ Quit(s) \/ Clean(s)
  BY <1>4, StopStep, ScanStep, CleanStep
<1>5. CASE UNCHANGED allVars
  <2>1. UNCHANGED <<hash, members, orphans, server, scanned, game, lobby,
                    killed, torn, wrapped>>
    BY <1>5 DEF allVars, store, starts
  <2>2. Types'
    BY <2>1 DEF RInv, Types
  <2>. QED  BY <2>1, <2>2, QuietStep DEF InFlight, LobbyUp, GameUp
<1>. QED  BY <1>1, <1>2, <1>3, <1>4, <1>5 DEF RestartsNext

\* Between two requests the hash of a room counts the members it has had since
\* its last deletion, whichever servers quit, stopped and started, unless a
\* SCAN or its DEL met a request halfway, or SCAN a page, or more members quit
\* than joined.
THEOREM CountsOutliveStarts == RestartsSpec => []CountsSurviveStarts
<1>1. RInv => CountsSurviveStarts
  BY DEF RInv, Types, Balance, Counted, Due, CountsSurviveStarts
<1>. QED  BY <1>1, RInvInit, RInvStep, PTL DEF RestartsSpec
-----------------------------------------------------------------------------
(* What a start or a quit leaves *)

\* A start or a quit that has its keys has the list's, if there is a list.
Listed ==
    ~torn /\ list # << >> =>
        \A s \in Servers : Asked(s) => RoomList \in scanned[s]

LEMMA ListedInit == RestartsInit => Listed
BY DEF RestartsInit, Listed, Servers

\* A request changes the list when no server is between SCAN and DEL.
LEMMA ListedByRequests ==
    ASSUME RInv, Listed, LoginServer \/ LobbyServer \/ GameServer
    PROVE  Listed'
<1>1. CASE UNCHANGED <<list, server, scanned>> /\ (torn => torn')
  BY <1>1 DEF Listed
<1>2. CASE InFlight /\ UNCHANGED <<server, scanned, torn>>
  BY <1>2, InFlightMeetsNoStart DEF Listed, Window
<1>3. ASSUME NEW u \in Users, Verify(u) \/ Enter(u) PROVE Listed'
  BY <1>1, <1>3 DEF Verify, Enter, store, redis, starts
<1>4. ASSUME NEW r \in Rooms, StartMake(r) PROVE Listed'
  BY <1>1, <1>4 DEF StartMake, MakeHash, starts
<1>5. ASSUME LobbyRead PROVE Listed'
  <2>1. UNCHANGED <<list, torn>>
    BY <1>5 DEF LobbyRead, ReadBack, MakeRead, redis, store, starts
  <2>2. \/ UNCHANGED <<server, scanned>>
        \/ /\ server' = [server EXCEPT !["lobby"] = "down"]
           /\ scanned' = [scanned EXCEPT !["lobby"] = {}]
    BY <1>5 DEF LobbyRead, ReadBack, starts
  <2>. QED  BY <2>1, <2>2 DEF RInv, Types, Listed, Servers
<1>6. ASSUME LobbyUp, LobbyPush PROVE Listed'
  BY <1>2, <1>6 DEF LobbyPush, MakePush, starts, InFlight
<1>7. ASSUME NEW r \in Rooms, StartRequest(r) PROVE Listed'
  BY <1>1, <1>7 DEF StartRequest, JoinRead, QuitRead, redis, starts
<1>8. ASSUME GameUp, StartFatal PROVE Listed'
  BY <1>1, <1>8 DEF StartFatal, redis, starts
<1>9. ASSUME GameUp, CountMember \/ DeleteHash \/ ChangeList PROVE Listed'
  <2>1. UNCHANGED <<server, scanned, torn>>
    BY <1>9 DEF CountMember, DeleteHash, ChangeList, starts
  <2>2. game.at # "idle"
    BY <1>9 DEF CountMember, DeleteHash, ChangeList, JoinHash, QuitHash,
                QuitDelete, QuitIndex, QuitRemove, SetEntry
  <2>. QED  BY <1>2, <1>9, <2>1, <2>2 DEF InFlight
<1>. QED
  BY <1>3, <1>4, <1>5, <1>6, <1>7, <1>8, <1>9
     DEF LoginServer, LobbyServer, GameServer

LEMMA ListedByStarts ==
    ASSUME RInv, Listed, NEW s \in Servers,
           Stop(s) \/ Scan(s) \/ Quit(s) \/ Clean(s)
    PROVE  Listed'
<1>1. CASE Stop(s)
  BY <1>1 DEF RInv, Types, Listed, Stop, redis
<1>2. CASE Scan(s) \/ Quit(s)
  <2>1. PICK keys \in SUBSET Keys :
            /\ scanned' = [scanned EXCEPT ![s] = keys]
            /\ torn' = (torn \/ InFlight \/ keys # Keys)
    BY <1>2 DEF Scan, Quit, SendScan
  <2>2. /\ \A z \in Servers \ {s} : server'[z] = server[z]
        /\ list' = list
    BY <1>2 DEF Scan, Quit, SendScan, store, RInv, Types
  <2>. QED  BY <2>1, <2>2 DEF RInv, Types, Listed, Keys
<1>3. CASE Clean(s)
  <2>1. /\ server' = [server EXCEPT ![s] =
                          IF @ = "scanned" THEN "up" ELSE "left"]
        /\ scanned' = [scanned EXCEPT ![s] = {}]
        /\ list' = IF RoomList \in scanned[s] THEN << >> ELSE list
        /\ torn' = torn
    BY <1>3 DEF Clean, Serve
  <2>. QED  BY <2>1 DEF RInv, Types, Listed
<1>. QED  BY <1>1, <1>2, <1>3

LEMMA ListedStep == RInv /\ Listed /\ [RestartsNext]_allVars => Listed'
<1>1. ASSUME Listed, UNCHANGED allVars PROVE Listed'
  BY <1>1 DEF allVars, store, starts, Listed
<1>. QED  BY <1>1, ListedByRequests, ListedByStarts DEF RestartsNext

\* A user with a hash is one of the keys of a start or a quit that has them, or
\* was verified since.
Seen ==
    /\ since = [s \in Servers |-> since[s]]
    /\ ~torn => \A s \in Servers :
           Asked(s) => users \subseteq scanned[s] \cup since[s]

LEMMA SeenInit == RestartsInit => Seen
BY DEF RestartsInit, Seen, Servers

LEMMA SeenByRequests ==
    ASSUME RInv, Seen, LoginServer \/ LobbyServer \/ GameServer
    PROVE  Seen'
<1>1. CASE UNCHANGED <<users, server, scanned, since>> /\ (torn => torn')
  BY <1>1 DEF Seen
<1>2. ASSUME NEW u \in Users, Verify(u) PROVE Seen'
  BY <1>2 DEF Verify, Stored, Seen, starts
<1>3. ASSUME NEW u \in Users, Enter(u) PROVE Seen'
  BY <1>1, <1>3 DEF Enter, starts, seen
<1>4. ASSUME LobbyRead PROVE Seen'
  <2>1. UNCHANGED <<users, torn>>
    BY <1>4 DEF LobbyRead
  <2>2. \/ UNCHANGED <<server, scanned, since>>
        \/ /\ server' = [server EXCEPT !["lobby"] = "down"]
           /\ scanned' = [scanned EXCEPT !["lobby"] = {}]
           /\ since' = [since EXCEPT !["lobby"] = {}]
    BY <1>4 DEF LobbyRead, ReadBack, starts
  <2>. QED  BY <2>1, <2>2 DEF RInv, Types, Seen, Servers
<1>5. ASSUME NEW r \in Rooms, StartMake(r) \/ StartRequest(r) PROVE Seen'
  BY <1>1, <1>5 DEF StartMake, StartRequest, starts, clients, seen
<1>6. ASSUME \/ LobbyPush \/ StartFatal
             \/ CountMember \/ DeleteHash \/ ChangeList
      PROVE  Seen'
  BY <1>1, <1>6 DEF LobbyPush, StartFatal, CountMember, DeleteHash, ChangeList,
                    starts, clients, seen
<1>. QED  BY <1>2, <1>3, <1>4, <1>5, <1>6
          DEF LoginServer, LobbyServer, GameServer

LEMMA SeenByStarts ==
    ASSUME RInv, Seen, NEW s \in Servers,
           Stop(s) \/ Scan(s) \/ Quit(s) \/ Clean(s)
    PROVE  Seen'
<1>1. CASE Stop(s)
  BY <1>1 DEF RInv, Types, Seen, Stop
<1>2. CASE Scan(s) \/ Quit(s)
  <2>1. PICK keys \in SUBSET Keys :
            /\ scanned' = [scanned EXCEPT ![s] = keys]
            /\ since' = [since EXCEPT ![s] = {}]
            /\ torn' = (torn \/ InFlight \/ keys # Keys)
    BY <1>2 DEF Scan, Quit, SendScan
  <2>2. /\ \A z \in Servers \ {s} : server'[z] = server[z]
        /\ users' = users
    BY <1>2 DEF Scan, Quit, SendScan, RInv, Types
  <2>. QED  BY <2>1, <2>2 DEF RInv, Types, Seen, Keys
<1>3. CASE Clean(s)
  <2>1. /\ server' = [server EXCEPT ![s] =
                          IF @ = "scanned" THEN "up" ELSE "left"]
        /\ scanned' = [scanned EXCEPT ![s] = {}]
        /\ since' = [since EXCEPT ![s] = {}]
        /\ users' = users \ scanned[s]
        /\ torn' = torn
    BY <1>3 DEF Clean, Serve
  <2>. QED  BY <2>1 DEF RInv, Types, Seen
<1>. QED  BY <1>1, <1>2, <1>3

LEMMA SeenStep == RInv /\ Seen /\ [RestartsNext]_allVars => Seen'
<1>1. ASSUME Seen, UNCHANGED allVars PROVE Seen'
  BY <1>1 DEF allVars, clients, seen, starts, Seen
<1>. QED  BY <1>1, SeenByRequests, SeenByStarts DEF RestartsNext

\* A server that starts to serve, or has cleaned before it ends.
Cleaned(s) ==
    <<server[s], server'[s]>> \in {<<"scanned", "up">>, <<"leaving", "left">>}

\* Only the DEL of its own start or quit does that to a server.
LEMMA OnlyCleanEnds ==
    ASSUME RInv, [RestartsNext]_allVars, NEW s \in Servers, Cleaned(s)
    PROVE  Clean(s)
<1>0. /\ Asked(s) /\ server'[s] \in {"up", "left"}
      /\ server' # server
  BY DEF Cleaned
<1>1. ~LoginServer /\ ~GameServer
  BY <1>0 DEF LoginServer, GameServer, Verify, StartRequest, StartFatal,
              CountMember, DeleteHash, ChangeList, starts
<1>2. ~LobbyServer
  <2>1. ASSUME LobbyServer PROVE server' = [server EXCEPT !["lobby"] = "down"]
    BY <1>0, <2>1 DEF LobbyServer, Enter, StartMake, LobbyRead, ReadBack,
                      LobbyPush, starts
  <2>. QED  BY <1>0, <2>1 DEF RInv, Types, Servers
<1>3. ASSUME NEW z \in Servers, Stop(z) \/ Scan(z) \/ Quit(z) \/ Clean(z)
      PROVE  z = s /\ Clean(s)
  BY <1>0, <1>3 DEF RInv, Types, Stop, Scan, Quit, Clean, Serve
<1>. QED  BY <1>0, <1>1, <1>2, <1>3 DEF RestartsNext, allVars, starts

\* A start or a quit that met no request, and had every key in one page, leaves
\* no room, no listing and no user of before its SCAN.
THEOREM StartsLeaveNothing == RestartsSpec => StartsClean
<1>1. ASSUME RInv, Listed, Seen, [RestartsNext]_allVars, NEW s \in Servers,
             Cleaned(s), ~torn
      PROVE  /\ list' = << >> /\ \A r \in Rooms : hash'[r] = Absent
             /\ users' \subseteq since[s]
  <2>1. Clean(s) /\ Asked(s)
    BY <1>1, OnlyCleanEnds DEF Clean
  <2>2. list = << >> \/ RoomList \in scanned[s]
    BY <1>1, <2>1 DEF Listed
  <2>3. list' = << >>
    BY <2>1, <2>2 DEF Clean
  <2>4. \A r \in Rooms : hash[r] # Absent => r \in scanned[s]
    BY <1>1, <2>1 DEF RInv, Whole
  <2>5. users' = users \ scanned[s] /\ users \subseteq scanned[s] \cup since[s]
    BY <1>1, <2>1 DEF Seen, Clean
  <2>. QED  BY <2>1, <2>3, <2>4, <2>5 DEF Clean
<1>2. RInv /\ Listed /\ Seen /\ [RestartsNext]_allVars =>
        [\A s \in Servers :
            /\ <<server[s], server'[s]>> \in {<<"scanned", "up">>,
                                              <<"leaving", "left">>}
            /\ ~torn
            => /\ list' = << >> /\ \A r \in Rooms : hash'[r] = Absent
               /\ users' \subseteq since[s]]_allVars
  BY <1>1 DEF Cleaned
<1>. QED  BY <1>2, RInvInit, RInvStep, ListedInit, ListedStep, SeenInit,
             SeenStep, PTL
          DEF RestartsSpec, StartsClean

-----------------------------------------------------------------------------
(* Names *)

\* A user that was verified, and that no SCAN has seen since, has a hash, and no
\* DEL to come takes it.
Remembered ==
    /\ current \subseteq users
    /\ users \subseteq Users
    /\ session = [u \in Users |-> session[u]]
    /\ scanned = [s \in Servers |-> scanned[s]]
    /\ \A s \in Servers : current \cap scanned[s] = {}

LEMMA RememberedStep == Remembered /\ [RestartsNext]_allVars => Remembered'
<1> SUFFICES ASSUME Remembered, [RestartsNext]_allVars PROVE Remembered'
    OBVIOUS
<1>1. CASE UNCHANGED <<clients, scanned>>
  BY <1>1 DEF Remembered, clients, seen
<1>2. CASE LoginServer
  BY <1>2 DEF Remembered, LoginServer, Verify, Stored, Doomed, starts
<1>3. CASE LobbyServer
  <2>1. ASSUME NEW u \in Users, Enter(u) PROVE Remembered'
    BY <2>1 DEF Remembered, Enter, seen, starts
  <2>2. ASSUME LobbyRead PROVE Remembered'
    <3>1. /\ session' = session \/ session' = [u \in Users |-> "none"]
          /\ scanned' = scanned \/ scanned' = [scanned EXCEPT !["lobby"] = {}]
      BY <2>2 DEF LobbyRead, ReadBack, starts
    <3>. QED  BY <2>2, <3>1 DEF Remembered, LobbyRead, Servers
  <2>. QED  BY <1>1, <1>3, <2>1, <2>2 DEF LobbyServer, StartMake, LobbyPush,
                                          starts
<1>4. CASE GameServer
  BY <1>1, <1>4 DEF GameServer, StartRequest, StartFatal, CountMember,
                    DeleteHash, ChangeList, starts
<1>5. ASSUME NEW s \in Servers, Stop(s) PROVE Remembered'
  BY <1>5 DEF Remembered, Stop
<1>6. ASSUME NEW s \in Servers, Scan(s) \/ Quit(s) PROVE Remembered'
  <2>1. PICK keys : /\ scanned' = [scanned EXCEPT ![s] = keys]
                    /\ current' = current \ keys
    BY <1>6 DEF Scan, Quit, SendScan
  <2>2. /\ users' = users
        /\ session' = session \/ session' = [u \in Users |-> "none"]
    BY <1>6 DEF Scan, Quit, SendScan
  <2>. QED  BY <2>1, <2>2 DEF Remembered
<1>7. ASSUME NEW s \in Servers, Clean(s) PROVE Remembered'
  BY <1>7 DEF Remembered, Clean, Serve
<1>. QED
  BY <1>1, <1>2, <1>3, <1>4, <1>5, <1>6, <1>7
     DEF RestartsNext, allVars, starts

\* A client that was verified enters under its own id, unless a SCAN of a start
\* or a quit has seen its hash since, or had when it was verified and its DEL
\* had not come.
THEOREM NamesOutliveStarts == RestartsSpec => VerifiedKeepTheirName
<1>1. RestartsInit => Remembered
  BY DEF RestartsInit, Remembered
<1>2. ASSUME Remembered, [RestartsNext]_allVars, NEW u \in current,
             session'[u] # session[u]
      PROVE  session'[u] \in {"own", "none"}
  <2>1. CASE UNCHANGED session
    BY <1>2, <2>1
  <2>2. CASE session' = [v \in Users |-> "none"]
    BY <1>2, <2>2 DEF Remembered
  <2>3. ASSUME NEW v \in Users, Enter(v)
        PROVE  session'[u] \in {"own", "none"}
    BY <1>2, <2>3 DEF Remembered, Enter, Retrieved
  <2>4. UNCHANGED session \/ session' = [v \in Users |-> "none"]
        \/ \E v \in Users : Enter(v)
    <3>1. CASE LoginServer
      BY <3>1 DEF LoginServer, Verify
    <3>2. CASE LobbyServer
      BY <3>2 DEF LobbyServer, StartMake, LobbyRead, ReadBack, LobbyPush,
                  clients, starts
    <3>3. CASE GameServer
      BY <3>3 DEF GameServer, StartRequest, StartFatal, CountMember,
                  DeleteHash, ChangeList, clients
    <3>4. ASSUME NEW s \in Servers, Stop(s) \/ Scan(s) \/ Quit(s) \/ Clean(s)
          PROVE  UNCHANGED session \/ session' = [v \in Users |-> "none"]
      BY <3>4 DEF Stop, Scan, Quit, SendScan, Clean, clients
    <3>. QED
      BY <1>2, <3>1, <3>2, <3>3, <3>4 DEF RestartsNext, allVars, clients
  <2>. QED  BY <2>1, <2>2, <2>3, <2>4
<1>3. Remembered /\ [RestartsNext]_allVars =>
        [\A u \in current :
            session'[u] # session[u] => session'[u] \in {"own", "none"}]_allVars
  BY <1>2
<1>. QED  BY <1>1, <1>3, RememberedStep, PTL
          DEF RestartsSpec, VerifiedKeepTheirName

-----------------------------------------------------------------------------
(* One room, and no start or quit that met anything *)

\* Whatever happens, what is spoken of are rooms that were made.
Kept ==
    /\ ever \subseteq Rooms /\ IsFiniteSet(ever)
    /\ roomList \in Seq(Rooms)
    /\ \A i \in DOMAIN roomList : roomList[i] \in ever
    /\ list \in Seq([id : Rooms \cup {NoRoom}, present : Nat])
    /\ lobby.at \in {"idle", "read", "push"}
    /\ lobby.room \in Rooms \cup {NoRoom}
    /\ lobby.at = "idle" => lobby.room = NoRoom
    /\ lobby.at = "read" => lobby.room \in Rooms
    /\ lobby.present \in Nat
    /\ \A r \in partial : r \in Rooms /\ hash[r] # Absent
    /\ \A r \in Rooms :
           \/ hash[r] # Absent \/ members[r] > 0 \/ orphans[r] > 0
           \/ r \in {game.room, lobby.room}
           => r \in ever

\* Nothing has gone wrong: the alternatives of DiesOnlyOfTornStore do not hold.
Calm ==
    /\ GameUp /\ ~torn
    /\ \A p, q \in ever : p = q
    /\ \A r \in Rooms : orphans[r] = 0

\* No hash is partial, no entry without an id; a room whose request is over is
\* listed.  The hash of a room the lobby is making may be gone if the lobby is.
Tidy ==
    /\ Counting
    /\ partial = {}
    /\ \A i \in DOMAIN list : list[i].id # NoRoom
    /\ game.at # "idle" => hash[game.room] # Absent
    /\ lobby.room \in Rooms =>
           lobby.room # game.room /\ hash[lobby.room] \in {0, Absent}
    /\ LobbyUp /\ lobby.at # "idle" =>
           lobby.room \in Rooms /\ hash[lobby.room] = 0
    /\ \A r \in Rooms :
           hash[r] # Absent /\ r # lobby.room /\ game.at # "delete" =>
               list # << >>

LEMMA KeptInit == RestartsInit => Kept
<1> SUFFICES ASSUME RestartsInit PROVE Kept
    OBVIOUS
<1>1. IsFiniteSet(ever)
  BY FS_EmptySet DEF RestartsInit
<1>. QED  BY <1>1 DEF RestartsInit, Init, Kept, Idle

\* A step that changes no room.
LEMMA KeptSame ==
    ASSUME Kept,
           UNCHANGED <<hash, list, roomList, lobby, ever, partial>>,
           \A r \in Rooms :
               /\ members'[r] > 0 => members[r] > 0
               /\ orphans'[r] > 0 => orphans[r] > 0 \/ members[r] > 0
               /\ game'.room = r => game.room = r \/ hash[r] # Absent
    PROVE  Kept'
BY DEF Kept

LEMMA KeptByUsers ==
    ASSUME Kept, \E u \in Users : Verify(u) \/ Enter(u)
    PROVE  Kept'
<1>1. UNCHANGED store /\ UNCHANGED <<ever, orphans, partial>>
  BY DEF Verify, Enter
<1>. QED  BY <1>1, KeptSame DEF store

LEMMA KeptByLobby ==
    ASSUME RInv, Kept, LobbyUp,
           (\E r \in Rooms : StartMake(r)) \/ LobbyRead \/ LobbyPush
    PROVE  Kept'
<1>1. ASSUME NEW r \in Rooms, StartMake(r) PROVE Kept'
  <2>1. /\ hash' = [hash EXCEPT ![r] = 0] /\ ever' = ever \cup {r}
        /\ lobby' = [at |-> "read", room |-> r, present |-> 0,
                     entry |-> NoEntry]
        /\ UNCHANGED <<list, roomList, game, members, orphans, partial>>
    BY <1>1 DEF StartMake, MakeHash, Idle
  <2>2. IsFiniteSet(ever')
    BY <2>1, FS_AddElement DEF Kept
  <2>3. /\ \A q \in Rooms : q # r => hash'[q] = hash[q]
        /\ hash'[r] # Absent
    BY <2>1 DEF RInv, Types, Absent
  <2>. QED  BY <2>1, <2>2, <2>3 DEF Kept
<1>2. ASSUME LobbyRead PROVE Kept'
  <2>1. UNCHANGED <<hash, list, roomList, game, members, orphans, ever,
                    partial>>
    BY <1>2 DEF LobbyRead, ReadBack, MakeRead, store, redis
  <2>2. \/ UNCHANGED lobby
        \/ lobby' = [Idle EXCEPT !.at = "push"]
        \/ /\ lobby.at = "read" /\ hash[lobby.room] # Absent
           /\ lobby' = [lobby EXCEPT !.at = "push",
                                     !.present = Parsed(hash[lobby.room])]
    BY <1>2 DEF LobbyRead, ReadBack, MakeRead, store
  <2>3. CASE UNCHANGED lobby
    BY <2>1, <2>3 DEF Kept
  <2>4. CASE lobby' = [Idle EXCEPT !.at = "push"]
    <3>1. lobby' = [at |-> "push", room |-> NoRoom, present |-> 0,
                    entry |-> NoEntry]
      BY <2>4 DEF Idle
    <3>. QED  BY <2>1, <3>1 DEF Kept
  <2>5. CASE /\ lobby.at = "read" /\ hash[lobby.room] # Absent
             /\ lobby' = [lobby EXCEPT !.at = "push",
                                       !.present = Parsed(hash[lobby.room])]
    <3>1. PICK n : n = Parsed(hash[lobby.room])
      OBVIOUS
    <3>2. lobby'.at = "push" /\ lobby'.room = lobby.room
          /\ lobby'.present = n
      BY <2>5, <3>1 DEF RInv, Types
    <3>3. n \in Nat
      <4>1. hash[lobby.room] \in Nat
        BY <2>5 DEF RInv, Types, Kept
      <4>. QED  BY <3>1, <4>1 DEF Parsed
    <3>. QED  BY <2>1, <3>2, <3>3 DEF Kept
  <2>. QED  BY <2>2, <2>3, <2>4, <2>5
<1>3. ASSUME LobbyPush PROVE Kept'
  <2>1. PICK e : e = Entry(lobby.room, lobby.present)
    OBVIOUS
  <2>2. /\ list' = <<e>> \o list /\ lobby' = Idle
        /\ UNCHANGED <<hash, roomList, game, members, orphans, ever, partial>>
    BY <1>3, <2>1 DEF LobbyPush, MakePush
  <2>3. e \in [id : Rooms \cup {NoRoom}, present : Nat]
    BY <2>1 DEF Kept, Entry
  <2>4. list' \in Seq([id : Rooms \cup {NoRoom}, present : Nat])
    BY <2>2, <2>3 DEF Kept
  <2>. QED  BY <2>2, <2>4 DEF Kept, Idle
<1>. QED  BY <1>1, <1>2, <1>3

LEMMA KeptByGame ==
    ASSUME RInv, Kept, GameUp, GameServer
    PROVE  Kept'
<1>1. ASSUME NEW r \in Rooms, StartRequest(r) PROVE Kept'
  <2>1. /\ UNCHANGED <<hash, list, lobby, ever, orphans, partial>>
        /\ game'.room = r /\ hash[r] # Absent
        /\ \A q \in Rooms : q # r => members'[q] = members[q]
    BY <1>1 DEF StartRequest, JoinRead, QuitRead, redis, Idle, RInv, Types
  <2>2. /\ roomList' \in Seq(Rooms)
        /\ \A i \in DOMAIN roomList' : roomList'[i] \in ever
    <3>1. roomList' \in {roomList, <<r>> \o roomList}
      BY <1>1 DEF StartRequest, JoinRead, QuitRead
    <3>2. r \in ever
      BY <2>1 DEF Kept
    <3>3. CASE roomList' = <<r>> \o roomList
      <4>1. roomList \in Seq(ever)
        BY DEF Kept
      <4>2. roomList' \in Seq(ever)
        BY <3>2, <3>3, <4>1
      <4>3. ever \subseteq Rooms
        BY DEF Kept
      <4>. QED  BY <4>2, <4>3
    <3>. QED  BY <3>1, <3>3 DEF Kept
  <2>3. \A q \in Rooms : members'[q] > 0 => members[q] > 0 \/ q = r
    BY <2>1
  <2>. QED  BY <2>1, <2>2, <2>3 DEF Kept
<1>2. ASSUME StartFatal PROVE Kept'
  BY <1>2, KeptSame DEF StartFatal, redis
<1>3. ASSUME CountMember \/ DeleteHash PROVE Kept'
  <2>0. game.room \in Rooms
    BY <1>3 DEF CountMember, JoinHash, QuitHash, DeleteHash, QuitDelete,
                RInv, Types
  <2>1. /\ UNCHANGED <<list, roomList, lobby, members, ever, orphans>>
        /\ game'.room \in {game.room, NoRoom} /\ game.room \in Rooms
    <3>1. CASE CountMember
      BY <2>0, <3>1 DEF CountMember, JoinHash, QuitHash, RInv, Types
    <3>2. CASE DeleteHash
      BY <2>0, <3>2 DEF DeleteHash, QuitDelete, Idle
    <3>. QED  BY <1>3, <3>1, <3>2
  <2>2. \A q \in Rooms : q # game.room => hash'[q] = hash[q]
    BY <1>3 DEF CountMember, JoinHash, QuitHash, DeleteHash, QuitDelete,
                RInv, Types
  <2>3. \A q \in partial' : q \in Rooms /\ hash'[q] # Absent
    <3>1. CASE CountMember
      <4>1. hash'[game.room] # Absent
        <5>1. game.present # Absent /\ game.present + 1 # Absent
          BY DEF RInv, Types, Absent
        <5>. QED
          BY <2>0, <3>1, <5>1 DEF CountMember, JoinHash, QuitHash, RInv, Types
      <4>2. partial' \subseteq partial \cup {game.room}
        BY <3>1 DEF CountMember
      <4>. QED  BY <2>0, <2>2, <4>1, <4>2 DEF Kept
    <3>2. CASE DeleteHash
      BY <2>2, <3>2 DEF DeleteHash, Kept
    <3>. QED  BY <1>3, <3>1, <3>2
  <2>. QED  BY <2>1, <2>2, <2>3 DEF Kept
<1>4. ASSUME ChangeList PROVE Kept'
  <2>1. /\ UNCHANGED <<hash, roomList, lobby, members, ever, orphans,
                       partial>>
        /\ game'.room \in {game.room, NoRoom} /\ game.room \in Rooms
    <3>1. game.room \in Rooms
      BY <1>4 DEF ChangeList, QuitIndex, QuitRemove, SetEntry, RInv, Types
    <3>2. UNCHANGED <<hash, roomList, lobby, members, ever, orphans,
                       partial>>
      BY <1>4 DEF ChangeList, QuitIndex, QuitRemove, SetEntry, redis
    <3>3. \/ UNCHANGED game \/ game' = Idle
          \/ \E at, e : game' = [game EXCEPT !.at = at, !.entry = e]
          \/ \E at : game' = [game EXCEPT !.at = at]
      BY <1>4 DEF ChangeList, QuitIndex, QuitRemove, SetEntry
    <3>4. game'.room \in {game.room, NoRoom}
      <4>1. PICK a, q, n, f : game = [at |-> a, room |-> q, present |-> n,
                                      entry |-> f]
        BY DEF RInv, Types
      <4>2. ASSUME NEW at, NEW e, game' = [game EXCEPT !.at = at, !.entry = e]
            PROVE  game'.room = game.room
        BY <4>1, <4>2
      <4>3. ASSUME NEW at, game' = [game EXCEPT !.at = at]
            PROVE  game'.room = game.room
        BY <4>1, <4>3
      <4>4. game' = Idle => game'.room = NoRoom
        BY DEF Idle
      <4>. QED  BY <3>3, <4>2, <4>3, <4>4
    <3>. QED  BY <3>1, <3>2, <3>4
  <2> DEFINE S == [id : Rooms \cup {NoRoom}, present : Nat]
  <2>2. list' \in Seq(S)
    <3>0. list \in Seq(S)
      BY DEF Kept
    <3>1. PICK e : e = Entry(game.room, game.present)
      OBVIOUS
    <3>2. e \in S
      BY <2>1, <3>1 DEF Entry, RInv, Types
    <3> HIDE DEF S
    <3>3. \/ UNCHANGED list \/ list' = Without(list, game.entry)
          \/ list' = [list EXCEPT ![Index(game.room) + 1] = e]
      BY <1>4, <3>1 DEF ChangeList, QuitIndex, QuitRemove, SetEntry, redis
    <3>4. CASE list' = Without(list, game.entry)
      BY <3>0, <3>4, WithoutIs
    <3>5. CASE list' = [list EXCEPT ![Index(game.room) + 1] = e]
      <4>1. list \in [1..Len(list) -> S] /\ Len(list) \in Nat
        BY <3>0
      <4>2. list' \in [1..Len(list) -> S]
        BY <3>2, <3>5, <4>1
      <4>. QED  BY <4>1, <4>2
    <3>. QED  BY <3>0, <3>3, <3>4, <3>5
  <2>. QED  BY <2>1, <2>2 DEF Kept
<1>. QED  BY <1>1, <1>2, <1>3, <1>4 DEF GameServer

LEMMA KeptByStarts ==
    ASSUME RInv, Kept, NEW s \in Servers,
           Stop(s) \/ Scan(s) \/ Quit(s) \/ Clean(s)
    PROVE  Kept'
<1>1. CASE Stop(s)
  <2>1. /\ UNCHANGED <<hash, list, lobby, game, ever, partial>>
        /\ \/ UNCHANGED <<roomList, members, orphans>>
           \/ /\ roomList' = << >> /\ members' = [r \in Rooms |-> 0]
              /\ orphans' = [r \in Rooms |-> 0]
    BY <1>1 DEF Stop, redis
  <2>2. roomList' \in Seq(Rooms) /\ \A i \in DOMAIN roomList' :
                                       roomList'[i] \in ever
    <3>1. CASE roomList' = << >>
      BY <3>1
    <3>2. CASE roomList' = roomList
      BY <3>2 DEF Kept
    <3>. QED  BY <2>1, <3>1, <3>2
  <2>3. \A r \in Rooms : /\ members'[r] > 0 => members[r] > 0
                         /\ orphans'[r] > 0 => orphans[r] > 0
    BY <2>1
  <2>. QED  BY <2>1, <2>2, <2>3 DEF Kept
<1>2. CASE Scan(s) \/ Quit(s)
  <2>1. UNCHANGED store /\ UNCHANGED <<ever, orphans, partial>>
    BY <1>2 DEF Scan, Quit, SendScan
  <2>. QED  BY <2>1, KeptSame DEF store
<1>3. CASE Clean(s)
  <2>1. /\ \A r \in Rooms :
              /\ hash'[r] # Absent => hash[r] # Absent
              /\ orphans'[r] > 0 => orphans[r] > 0 \/ members[r] > 0
        /\ list' \in {<< >>, list} /\ lobby' \in {Idle, lobby}
        /\ game' \in {Idle, game}
        /\ UNCHANGED <<roomList, members, ever>>
    BY <1>3 DEF Clean, Serve
  <2>2. list' \in Seq([id : Rooms \cup {NoRoom}, present : Nat])
    <3>1. CASE list' = << >>
      BY <3>1
    <3>2. CASE list' = list
      BY <3>2 DEF Kept
    <3>. QED  BY <2>1, <3>1, <3>2
  <2>3. lobby'.room \in {lobby.room, NoRoom}
        /\ game'.room \in {game.room, NoRoom}
    BY <2>1 DEF Idle
  <2>4. \A r \in partial' : r \in Rooms /\ hash'[r] # Absent
    BY <1>3 DEF Clean, Kept
  <2>. QED  BY <2>1, <2>2, <2>3, <2>4 DEF Kept, Idle
<1>. QED  BY <1>1, <1>2, <1>3

LEMMA KeptStep == RInv /\ Kept /\ [RestartsNext]_allVars => Kept'
<1>1. ASSUME Kept, UNCHANGED allVars PROVE Kept'
  BY <1>1, KeptSame DEF allVars, store, redis
<1>. QED
  BY <1>1, KeptByUsers, KeptByLobby, KeptByGame, KeptByStarts
     DEF RestartsNext, LoginServer, LobbyServer, GameServer

\* The game server becomes calm by a start.
LEMMA CalmBefore ==
    ASSUME RInv, Kept, [RestartsNext]_allVars, Calm'
    PROVE  Calm \/ \E s \in Servers : Clean(s)
<1>1. CASE LoginServer \/ LobbyServer \/ GameServer
  <2>1. /\ server'["game"] = server["game"] /\ (killed => killed')
        /\ (torn => torn') /\ orphans' = orphans /\ ever \subseteq ever'
    <3>1. CASE LoginServer
      BY <3>1 DEF LoginServer, Verify, store, starts
    <3>2. CASE LobbyServer
      <4>1. ASSUME LobbyRead
            PROVE  /\ server'["game"] = server["game"]
                   /\ UNCHANGED <<killed, torn, orphans, ever>>
        BY <4>1 DEF LobbyRead, ReadBack, MakeRead, store, starts, RInv, Types,
                    Servers
      <4>2. ASSUME NEW r \in Rooms, StartMake(r)
            PROVE  /\ UNCHANGED <<server, killed, orphans>>
                   /\ (torn => torn') /\ ever \subseteq ever'
        BY <4>2 DEF StartMake, MakeHash, starts
      <4>. QED  BY <3>2, <4>1, <4>2
                DEF LobbyServer, Enter, LobbyPush, MakePush, store, starts
    <3>3. CASE GameServer
      <4>1. ASSUME NEW r \in Rooms, StartRequest(r)
            PROVE  /\ UNCHANGED <<server, killed, orphans, ever>>
                   /\ (torn => torn')
        BY <4>1 DEF StartRequest, JoinRead, QuitRead, starts
      <4>2. ASSUME StartFatal \/ CountMember \/ DeleteHash \/ ChangeList
            PROVE  UNCHANGED <<server, orphans, torn, ever>>
        BY <4>2 DEF StartFatal, CountMember, DeleteHash, ChangeList, starts
      <4>. QED  BY <3>3, <4>1, <4>2 DEF GameServer, GameUp
    <3>. QED  BY <1>1, <3>1, <3>2, <3>3
  <2>. QED  BY <2>1 DEF Calm, GameUp
<1>2. ASSUME NEW s \in Servers, Stop(s) PROVE Calm
  <2>1. s # "game"
    BY <1>2 DEF Stop, Calm, GameUp, RInv, Types
  <2>2. /\ server' = [server EXCEPT ![s] = "down"]
        /\ UNCHANGED <<killed, torn, ever, orphans>>
    BY <1>2, <2>1 DEF Stop
  <2>. QED  BY <2>1, <2>2 DEF Calm, GameUp, RInv, Types, Servers
<1>3. ASSUME NEW s \in Servers, Scan(s) \/ Quit(s) PROVE Calm
  <2>1. /\ \/ server' = [server EXCEPT ![s] = "scanned"]
           \/ s # "game" /\ server' = [server EXCEPT ![s] = "leaving"]
        /\ UNCHANGED <<killed, ever, orphans>> /\ (torn => torn')
    BY <1>3 DEF Scan, Quit, SendScan, store
  <2>. QED  BY <2>1 DEF Calm, GameUp, RInv, Types, Servers
<1>4. CASE UNCHANGED allVars
  BY <1>4 DEF allVars, store, starts, Calm, GameUp
<1>. QED  BY <1>1, <1>2, <1>3, <1>4 DEF RestartsNext

\* A start or a quit leaves no room, and whoever was a member is an orphan.
LEMMA CleanTidies ==
    ASSUME RInv, Kept, Listed, Calm => Tidy, NEW s \in Servers, Clean(s),
           Calm', RInv'
    PROVE  Tidy'
<1>1. ~torn /\ Asked(s)
  BY DEF Clean, Calm
<1>2. \A r \in Rooms : hash'[r] = Absent
  BY <1>1 DEF RInv, Whole, Clean
<1>3. list' = << >>
  BY <1>1 DEF Listed, Clean
<1>4. ~InFlight
  BY <1>1 DEF RInv, Quiet, Window
<1>5. /\ game' = IF s = "game" THEN Idle ELSE game
      /\ lobby' = IF s = "lobby" /\ server[s] = "scanned" THEN Idle ELSE lobby
      /\ server' = [server EXCEPT ![s] =
                        IF @ = "scanned" THEN "up" ELSE "left"]
      /\ killed' = (killed /\ s # "game")
      /\ UNCHANGED <<members, ever, torn>>
      /\ partial' = partial \ scanned[s]
      /\ orphans' = [r \in Rooms |-> IF r \in scanned[s] THEN members[r]
                                     ELSE orphans[r]]
  BY DEF Clean, Serve
<1>6. s # "game" => GameUp
  BY <1>5 DEF Calm, GameUp, RInv, Types, Servers
<1>7. game'.at = "idle" /\ game'.room = NoRoom
  <2>1. CASE s = "game"
    BY <1>5, <2>1 DEF Idle
  <2>2. CASE s # "game"
    BY <1>4, <1>5, <1>6, <2>2 DEF InFlight, RInv, Types
  <2>. QED  BY <2>1, <2>2
<1>8. ASSUME NEW r \in Rooms PROVE members[r] = 0
  <2>1. CASE s = "game"
    BY <1>1, <2>1 DEF RInv, Fresh
  <2>2. CASE r \in scanned[s]
    BY <1>5, <2>2 DEF Calm
  <2>3. CASE s # "game" /\ r \notin scanned[s]
    <3>1. hash[r] = Absent /\ orphans[r] = 0
      BY <1>1, <1>5, <2>3 DEF Calm, RInv, Whole
    <3>2. CASE Calm
      <4>1. game = game' /\ r # game.room
        BY <1>5, <1>7, <2>3
      <4>. QED  BY <3>1, <3>2, <4>1 DEF Tidy, Counting, Elsewhere, Counted
    <3>3. CASE ~Calm
      <4>1. PICK q \in Rooms : orphans[q] # 0
        BY <1>1, <1>5, <1>6, <2>3, <3>3 DEF Calm
      <4>2. q \in scanned[s] /\ q \in ever
        BY <1>5, <4>1 DEF Calm, Kept, RInv, Types
      <4>3. members[r] > 0 => r \in ever
        BY DEF Kept
      <4>4. members[r] > 0 => r = q
        BY <1>5, <4>2, <4>3 DEF Calm
      <4>. QED  BY <2>3, <4>2, <4>4 DEF RInv, Types
    <3>. QED  BY <3>2, <3>3
  <2>. QED  BY <2>1, <2>2, <2>3
<1>9. Counting'
  <2>1. Fields'
    <3>1. hash' = [r \in Rooms |-> Absent]
      BY <1>2 DEF Clean
    <3>2. members' \in [Rooms -> Counts]
      BY <1>5 DEF RInv, Types, Counts
    <3>3. game' = [at |-> game'.at, room |-> game'.room,
                   present |-> game'.present, entry |-> game'.entry]
      BY DEF RInv, Types
    <3>. QED  BY <1>7, <3>1, <3>2, <3>3 DEF Fields
  <2>2. InRequest' /\ Elsewhere'
    BY <1>2, <1>5, <1>7, <1>8 DEF InRequest, Elsewhere, Counted
  <2>. QED  BY <2>1, <2>2 DEF Counting
<1>10. partial' = {}
  BY <1>1, <1>5 DEF Kept, RInv, Whole
<1>11. LobbyUp' => lobby'.at = "idle"
  BY <1>1, <1>4, <1>5 DEF LobbyUp, InFlight, Idle, RInv, Types, Servers
<1>. QED  BY <1>2, <1>3, <1>7, <1>9, <1>10, <1>11 DEF Tidy

\* A step that changes no room, and lets no server begin to serve.
LEMMA TidySame ==
    ASSUME Tidy, UNCHANGED <<hash, list, lobby, game, members, partial>>,
           LobbyUp' => LobbyUp
    PROVE  Tidy'
BY DEF Tidy, Counting, Fields, InRequest, Elsewhere, Counted

LEMMA TidyByLobby ==
    ASSUME RInv, Kept, Calm, Calm', Tidy, LobbyServer
    PROVE  Tidy'
<1> USE DEF Tidy
<1>0. LobbyUp /\ ~killed
  BY DEF LobbyServer, Calm, GameUp
<1>1. ASSUME NEW u \in Users, Enter(u) PROVE Tidy'
  <2>1. UNCHANGED <<hash, list, lobby, game, members, partial, server>>
    BY <1>1 DEF Enter, store, redis, starts
  <2>. QED  BY <2>1, TidySame DEF LobbyUp
<1>2. ASSUME NEW r \in Rooms, StartMake(r) PROVE Tidy'
  <2>1. MakeHash(r)
    BY <1>2 DEF StartMake
  <2>2. Counting'
    BY <1>0, <2>1, CountingStep DEF Next, LobbySteps
  <2>3. /\ hash' = [hash EXCEPT ![r] = 0] /\ r # game.room
        /\ lobby' = [at |-> "read", room |-> r, present |-> 0,
                     entry |-> NoEntry]
        /\ lobby.at = "idle"
        /\ UNCHANGED <<list, game, partial>>
    BY <1>2, <2>1 DEF StartMake, MakeHash, Idle
  <2>4. /\ hash'[r] = 0 /\ \A q \in Rooms : q # r => hash'[q] = hash[q]
    BY <2>3 DEF RInv, Types
  <2>5. lobby.room = NoRoom
    BY <2>3 DEF Kept
  <2>6. game.at # "idle" => game.room \in Rooms
    BY DEF RInv, Types
  <2>. QED  BY <2>2, <2>3, <2>4, <2>5, <2>6
<1>3. ASSUME LobbyRead PROVE Tidy'
  <2>1. lobby.at = "read" /\ lobby.room \in Rooms /\ hash[lobby.room] = 0
    BY <1>0, <1>3 DEF LobbyRead
  <2>2. MakeRead /\ UNCHANGED starts /\ UNCHANGED partial
    BY <1>3, <2>1 DEF LobbyRead, ReadBack, Absent
  <2>3. Counting'
    BY <1>0, <2>2, CountingStep DEF Next, LobbySteps
  <2>4. /\ UNCHANGED <<hash, list, game>>
        /\ lobby'.room = lobby.room /\ lobby'.at = "push"
    BY <2>2 DEF MakeRead, redis, RInv, Types
  <2>. QED  BY <2>1, <2>2, <2>3, <2>4
<1>4. ASSUME LobbyPush PROVE Tidy'
  <2>1. MakePush /\ UNCHANGED partial
    BY <1>4 DEF LobbyPush
  <2>2. Counting'
    BY <1>0, <2>1, CountingStep DEF Next, LobbySteps
  <2>3. PICK e : e = Entry(lobby.room, lobby.present)
    OBVIOUS
  <2>4. /\ list' = <<e>> \o list /\ lobby' = Idle /\ lobby.at = "push"
        /\ UNCHANGED <<hash, game>>
    BY <2>1, <2>3 DEF MakePush
  <2>5. e.id # NoRoom
    BY <1>0, <2>3, <2>4 DEF Entry
  <2>6. list' # << >> /\ \A i \in DOMAIN list' : list'[i].id # NoRoom
    <3>1. ASSUME NEW i \in DOMAIN list' PROVE list'[i].id # NoRoom
      <4>1. list'[i] = IF i = 1 THEN e ELSE list[i - 1]
        BY <2>4 DEF Kept
      <4>2. i # 1 => i - 1 \in DOMAIN list
        BY <2>4 DEF Kept
      <4>. QED  BY <2>5, <4>1, <4>2
    <3>2. Len(list') = Len(list) + 1 /\ Len(list) \in Nat
      BY <2>4 DEF Kept
    <3>. QED  BY <3>1, <3>2
  <2>7. lobby'.at = "idle" /\ lobby'.room = NoRoom
    BY <2>4 DEF Idle
  <2>. QED  BY <2>1, <2>2, <2>4, <2>6, <2>7
<1>. QED  BY <1>1, <1>2, <1>3, <1>4 DEF LobbyServer

\* Where the game server looks for the room of its request, there is an entry.
LEMMA InRangeIs ==
    ASSUME RInv, Kept, Calm, Tidy, game.at \in {"set", "index"}
    PROVE  InRange(Index(game.room)) /\ Len(list) \in Nat
<1>1. game.room \in Rooms /\ game.room \in ever
  BY DEF RInv, Types, Kept
<1>2. Index(game.room) \in Nat /\ ~(1 \in 1..Index(game.room))
  <2>1. roomList \in Seq(Rooms)
    BY DEF Kept
  <2>2. /\ Index(game.room) \in 0..Len(roomList)
        /\ \A j \in 1..Index(game.room) : roomList[j] # game.room
    BY <2>1, IndexIs
  <2>3. ASSUME 1 \in 1..Index(game.room) PROVE FALSE
    <3>1. 1 \in DOMAIN roomList
      BY <2>1, <2>2, <2>3
    <3>2. roomList[1] = game.room
      BY <1>1, <3>1 DEF Kept, Calm
    <3>. QED  BY <2>2, <2>3, <3>2
  <2>. QED  BY <2>1, <2>2, <2>3
<1>3. Index(game.room) = 0
  BY <1>2
<1>4. list # << >> /\ Len(list) \in Nat
  BY <1>1 DEF Tidy, Kept
<1>5. Len(list) > 0
  BY <1>4 DEF Kept
<1>. QED  BY <1>3, <1>4, <1>5 DEF InRange

LEMMA TidyByGame ==
    ASSUME RInv, Kept, Calm, Calm', Tidy, GameServer
    PROVE  Tidy'
<1> USE DEF Tidy
<1>0. ~killed /\ ~killed'
  BY DEF Calm, GameUp
<1>1. ASSUME NEW r \in Rooms, StartRequest(r) PROVE Tidy'
  <2>1. (JoinRead(r) \/ QuitRead(r)) /\ UNCHANGED partial
        /\ UNCHANGED server
    BY <1>1 DEF StartRequest, starts
  <2>2. Counting'
    BY <1>0, <2>1, CountingStep DEF Next, GameSteps
  <2>3. /\ UNCHANGED <<hash, list, lobby>> /\ hash[r] # Absent
        /\ game.at = "idle" /\ game'.at \in {"join", "quit", "index"}
        /\ game'.room = r
    BY <2>1 DEF JoinRead, QuitRead, redis, Idle
  <2>4. lobby.room # r
    <3>1. CASE JoinRead(r)
      BY <3>1 DEF JoinRead
    <3>2. CASE QuitRead(r)
      <4>1. members[r] > 0 /\ r # game.room
        BY <2>3, <3>2 DEF QuitRead, RInv, Types
      <4>2. hash[r] # 0
        BY <2>3, <4>1 DEF Counting, Elsewhere, Counted
      <4>. QED  BY <2>3, <4>2
    <3>. QED  BY <2>1, <3>1, <3>2
  <2>. QED  BY <2>1, <2>2, <2>3, <2>4 DEF LobbyUp
<1>2. ~StartFatal
  BY <1>0 DEF StartFatal
<1>3. ASSUME CountMember PROVE Tidy'
  <2>1. JoinHash \/ QuitHash
    BY <1>3 DEF CountMember
  <2>2. Counting'
    BY <1>0, <2>1, CountingStep DEF Next, GameSteps
  <2>3. game.at \in {"join", "quit"} /\ game.room \in Rooms
    BY <2>1 DEF JoinHash, QuitHash, RInv, Types
  <2>4. UNCHANGED <<partial, server, list, lobby>>
    BY <1>3, <2>3 DEF CountMember, JoinHash, QuitHash, starts
  <2>5. game'.at = "set" /\ game'.room = game.room
    BY <2>1 DEF JoinHash, QuitHash, RInv, Types
  <2>6. /\ hash'[game.room] # Absent
        /\ \A q \in Rooms : q # game.room => hash'[q] = hash[q]
    <3>1. game.present # Absent /\ game.present + 1 # Absent
      BY DEF RInv, Types, Absent
    <3>. QED  BY <2>1, <2>3, <3>1 DEF JoinHash, QuitHash, RInv, Types
  <2>7. hash[game.room] # Absent
    BY <2>3
  <2>. QED  BY <2>2, <2>3, <2>4, <2>5, <2>6, <2>7 DEF LobbyUp
<1>4. ASSUME DeleteHash PROVE Tidy'
  <2>1. QuitDelete /\ partial' = {} /\ UNCHANGED server
    BY <1>4 DEF DeleteHash, starts
  <2>2. Counting'
    BY <1>0, <2>1, CountingStep DEF Next, GameSteps
  <2>3. /\ game.at = "delete" /\ game'.at = "idle" /\ game'.room = NoRoom
        /\ hash' = [hash EXCEPT ![game.room] = Absent]
        /\ UNCHANGED <<list, lobby>>
    BY <2>1 DEF QuitDelete, Idle
  <2>4. game.room \in Rooms
    BY <2>3 DEF RInv, Types
  <2>5. \A q \in Rooms : hash'[q] = IF q = game.room THEN Absent ELSE hash[q]
    BY <2>3, <2>4 DEF RInv, Types
  <2>6. \A q \in Rooms : hash'[q] = Absent
    BY <2>4, <2>5 DEF Calm, Kept
  <2>7. ~(LobbyUp /\ lobby.at # "idle")
    BY <2>4 DEF Calm, Kept, Absent
  <2>. QED  BY <2>1, <2>2, <2>3, <2>6, <2>7 DEF LobbyUp
<1>5. ASSUME ChangeList PROVE Tidy'
  <2>1. (QuitIndex \/ QuitRemove \/ SetEntry) /\ UNCHANGED partial
        /\ UNCHANGED server
    BY <1>5 DEF ChangeList, starts
  <2>2. Counting'
    BY <1>0, <2>1, CountingStep DEF Next, GameSteps
  <2>3. UNCHANGED <<hash, lobby>> /\ game.room \in Rooms /\ game.at # "delete"
        /\ game.at # "idle"
    BY <2>1 DEF QuitIndex, QuitRemove, SetEntry, redis, RInv, Types
  <2>4. CASE QuitIndex
    <3>1. UNCHANGED list /\ game'.room = game.room /\ game'.at = "remove"
      BY <1>0, <2>4 DEF QuitIndex, redis, RInv, Types
    <3>. QED  BY <2>1, <2>2, <2>3, <3>1 DEF LobbyUp
  <2>5. CASE QuitRemove
    <3>1. /\ list' = Without(list, game.entry)
          /\ game'.room = game.room /\ game'.at = "delete"
      BY <2>5 DEF QuitRemove, RInv, Types
    <3> DEFINE S == {e \in [id : Rooms \cup {NoRoom}, present : Nat] :
                       e.id # NoRoom}
    <3>2. list \in Seq(S)
      <4> DEFINE T == [id : Rooms \cup {NoRoom}, present : Nat]
      <4>1. list \in Seq(T) /\ \A i \in DOMAIN list : list[i].id # NoRoom
        BY DEF Kept
      <4>2. S = {e \in T : e.id # NoRoom}
        OBVIOUS
      <4> HIDE DEF T, S
      <4>. QED  BY <4>1, <4>2
    <3> HIDE DEF S
    <3>3. list' \in Seq(S)
      BY <3>1, <3>2, WithoutIs
    <3>4. \A i \in DOMAIN list' : list'[i].id # NoRoom
      BY <3>3 DEF S
    <3>. QED  BY <2>1, <2>2, <2>3, <3>1, <3>4 DEF LobbyUp
  <2>6. CASE SetEntry
    <3>1. PICK e : e = Entry(game.room, game.present)
      OBVIOUS
    <3>2. /\ list' = [list EXCEPT ![Index(game.room) + 1] = e]
          /\ game'.room = NoRoom /\ game'.at = "idle"
      BY <1>0, <2>6, <3>1 DEF SetEntry, Idle
    <3>3. /\ DOMAIN list' = DOMAIN list
          /\ \A i \in DOMAIN list' : list'[i] \in {e, list[i]}
      BY <3>2
    <3>4. e.id # NoRoom
      BY <2>3, <3>1 DEF Entry
    <3>5. \A i \in DOMAIN list' : list'[i].id # NoRoom
      BY <3>3, <3>4
    <3>6. list # << >> => list' # << >>
      <4>1. ASSUME list # << >> PROVE 1 \in DOMAIN list
        <5>1. list \in Seq([id : Rooms \cup {NoRoom}, present : Nat])
          BY DEF Kept
        <5>. QED  BY <4>1, <5>1
      <4>2. DOMAIN << >> = {}
        OBVIOUS
      <4>. QED  BY <3>3, <4>1, <4>2
    <3>. QED  BY <2>1, <2>2, <2>3, <3>2, <3>5, <3>6 DEF LobbyUp
  <2>. QED  BY <2>1, <2>4, <2>5, <2>6
<1>. QED  BY <1>1, <1>2, <1>3, <1>4, <1>5 DEF GameServer

LEMMA TidyStep ==
    ASSUME RInv, RInv', Kept, Listed, Calm => Tidy, [RestartsNext]_allVars,
           Calm'
    PROVE  Tidy'
<1>1. ASSUME NEW s \in Servers, Clean(s) PROVE Tidy'
  BY <1>1, CleanTidies
<1>2. ASSUME Calm PROVE Tidy'
  <2>1. Tidy
    BY <1>2
  <2>2. CASE LoginServer
    <3>1. UNCHANGED <<hash, list, lobby, game, members, partial, server>>
      BY <2>2 DEF LoginServer, Verify, store, redis, starts
    <3>. QED  BY <2>1, <3>1, TidySame DEF LobbyUp
  <2>3. ASSUME NEW s \in Servers, Stop(s) PROVE Tidy'
    <3>1. s # "game"
      BY <2>3 DEF Stop, Calm, GameUp, RInv, Types
    <3>2. /\ server' = [server EXCEPT ![s] = "down"]
          /\ UNCHANGED <<hash, list, lobby, game, members, partial>>
      BY <2>3, <3>1 DEF Stop, redis
    <3>3. LobbyUp' => LobbyUp
      BY <3>2 DEF LobbyUp, RInv, Types, Servers
    <3>. QED  BY <2>1, <3>2, <3>3, TidySame
  <2>4. ASSUME NEW s \in Servers, Scan(s) \/ Quit(s) PROVE Tidy'
    <3>1. /\ \/ server' = [server EXCEPT ![s] = "scanned"]
             \/ /\ server[s] = "up"
                /\ server' = [server EXCEPT ![s] = "leaving"]
          /\ UNCHANGED <<hash, list, lobby, game, members, partial>>
      BY <2>4 DEF Scan, Quit, SendScan, store, redis
    <3>2. LobbyUp' => LobbyUp
      BY <3>1 DEF LobbyUp, RInv, Types, Servers
    <3>. QED  BY <2>1, <3>1, <3>2, TidySame
  <2>5. CASE UNCHANGED allVars
    BY <2>1, <2>5, TidySame DEF allVars, store, redis, starts, LobbyUp
  <2>. QED
    BY <1>1, <1>2, <2>1, <2>2, <2>3, <2>4, <2>5, TidyByLobby, TidyByGame
       DEF RestartsNext
<1>. QED  BY <1>1, <1>2, CalmBefore

\* As long as there has been one room only, and no start or quit met a request,
\* a page or a member, the game server finds its room in the list and no request
\* ends it.
THEOREM DiesOfStarts == RestartsSpec => DiesOnlyOfTornStore
<1> DEFINE CalmIsTidy == Calm => Tidy
           Inv == RInv /\ Kept /\ Listed /\ CalmIsTidy
<1>1. RestartsInit => Inv
  <2> SUFFICES ASSUME RestartsInit PROVE Inv
      OBVIOUS
  <2>1. RInv /\ Kept /\ Listed
    BY RInvInit, KeptInit, ListedInit
  <2>2. Counting
    BY CountingInit DEF RestartsInit
  <2>3. Tidy
    BY <2>2 DEF RestartsInit, Init, Idle, Tidy
  <2>. QED  BY <2>1, <2>3
<1>2. Inv /\ [RestartsNext]_allVars => Inv'
  BY RInvStep, KeptStep, ListedStep, TidyStep
<1>3. ASSUME Inv, [RestartsNext]_allVars, killed', ~killed, ~torn,
             Cardinality(ever) <= 1, \A r \in Rooms : ~(orphans[r] > 0)
      PROVE  FALSE
  <2>1. GameServer
    BY <1>3 DEF RestartsNext, LoginServer, Verify, LobbyServer, Enter,
                StartMake, MakeHash, LobbyRead, ReadBack, MakeRead, LobbyPush,
                MakePush, Stop, Scan, Quit, SendScan, Clean, Serve, store,
                allVars
  <2>2. \A p, q \in ever : p = q
    <3>1. IsFiniteSet(ever)
      BY <1>3 DEF Kept
    <3>2. Cardinality(ever) \in Nat
      BY <3>1, FS_CardinalityType
    <3>3. CASE Cardinality(ever) = 0
      BY <3>1, <3>3, FS_EmptySet
    <3>4. CASE Cardinality(ever) = 1
      BY <3>1, <3>4, FS_Singleton
    <3>. QED  BY <1>3, <3>2, <3>3, <3>4
  <2>3. Calm
    BY <1>3, <2>1, <2>2 DEF Calm, GameServer, RInv, Types
  <2>4. Tidy
    BY <1>3, <2>3
  <2>5. ~StartFatal
    BY <2>4 DEF StartFatal, Tidy
  <2>6. QuitIndex \/ SetEntry
    BY <1>3, <2>1, <2>5 DEF GameServer, StartRequest, JoinRead, QuitRead,
       CountMember, JoinHash, QuitHash, DeleteHash, QuitDelete, ChangeList,
       QuitRemove
  <2>7. InRange(Index(game.room))
    BY <1>3, <2>3, <2>4, <2>6, InRangeIs DEF QuitIndex, SetEntry
  <2>. QED  BY <1>3, <2>6, <2>7 DEF QuitIndex, SetEntry
<1>4. Inv /\ [RestartsNext]_allVars =>
          [killed' /\ ~killed =>
              \/ torn
              \/ Cardinality(ever) > 1
              \/ \E r \in Rooms : orphans[r] > 0]_allVars
  <2>1. ASSUME Inv, ~(Cardinality(ever) > 1) PROVE Cardinality(ever) <= 1
    BY <2>1, FS_CardinalityType DEF Kept
  <2>. QED  BY <1>3, <2>1
<1> HIDE DEF Inv
<1>. QED  BY <1>1, <1>2, <1>4, PTL DEF RestartsSpec, DiesOnlyOfTornStore
=============================================================================
