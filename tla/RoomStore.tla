----------------------------- MODULE RoomStore ------------------------------
(***************************************************************************)
(* The rooms in Redis, and the two servers that change them, one command   *)
(* at a time: the lobby server makes rooms (resMakeRoom), the game server  *)
(* counts their members and deletes the ones that empty (resJoinGame,      *)
(* resQuitGame).                                                           *)
(*                                                                         *)
(* Redis has a hash per room, and the list room_list the lobby shows.  The *)
(* game server has its own list of the rooms somebody joined, and uses a   *)
(* room's place in it as the room's place in room_list.                    *)
(*                                                                         *)
(* One lobby server and one game server; each runs one job at a time       *)
(* (SerialJobs of JobQueue.tla).  A room is its id and its member count:   *)
(* capacity and title go with the id.                                      *)
(***************************************************************************)
EXTENDS Integers, Sequences, FiniteSets

CONSTANTS
    Rooms,          \* room ids
    NoRoom,
    MaxMakes,       \* bound: rooms made in a behaviour
    MaxMembers,     \* bound: members of a room
    MaxInt          \* the greatest int: 2^31 - 1

ASSUME RoomsAssumption == NoRoom \notin Rooms

ASSUME BoundsAssumption == MaxMakes \in Nat /\ MaxMembers \in Nat \ {0}

ASSUME WidthAssumption == MaxInt \in Nat /\ MaxMembers <= MaxInt

Absent == -1                    \* no hash has this key

\* presentMembers is a uint32_t, and Redis keeps its text; strToInt makes an int
\* of the text, and the greatest there is of one that is too long.
LessOne(n) == IF n = 0 THEN 2 * MaxInt + 1 ELSE n - 1
Parsed(text) == IF text <= MaxInt THEN text ELSE MaxInt

VARIABLES
    hash,           \* presentMembers in the room's hash, or Absent
    list,           \* room_list, front first: [id, present]
    roomList,       \* GameServer::m_roomList: room ids
    lobby,          \* resMakeRoom: where it is, and its local Room
    game,           \* resJoinGame or resQuitGame: the same, and LINDEX's reply
    made,           \* history: rooms made
    members,        \* history: joins less quits the game server has begun
    killed          \* the game server was terminated

redis == <<hash, list>>
vars == <<redis, roomList, lobby, game, made, members, killed>>

Entry(r, n) == [id |-> r, present |-> n]

NoEntry == Entry(NoRoom, 0)

Idle == [at |-> "idle", room |-> NoRoom, present |-> 0, entry |-> NoEntry]

Init ==
    /\ hash = [r \in Rooms |-> Absent]
    /\ list = << >>
    /\ roomList = << >>
    /\ lobby = Idle
    /\ game = Idle
    /\ made = 0
    /\ members = [r \in Rooms |-> 0]
    /\ killed = FALSE

\* The game server's index of the room: where it is in its list, from 0; the
\* length of the list if it is not there.
Index(r) ==
    CHOOSE i \in 0..Len(roomList) :
        /\ i < Len(roomList) => roomList[i + 1] = r
        /\ \A j \in 1..i : roomList[j] # r

InRange(i) == i < Len(list)

\* LREM with count 0: the list without the entries that have this text.
Without(entries, e) ==
    LET kept[n \in 0..Len(entries)] ==
            IF n = 0 THEN << >>
            ELSE IF entries[n] = e THEN kept[n - 1]
            ELSE Append(kept[n - 1], entries[n])
    IN  kept[Len(entries)]

-----------------------------------------------------------------------------
(* RoomMessageHandler::resMakeRoom *)

\* hmsetNewRoom.  A client makes an empty room, under an id no room has.
MakeHash(r) ==
    /\ lobby.at = "idle"
    /\ hash[r] = Absent
    /\ game.room # r
    /\ made < MaxMakes
    /\ made' = made + 1
    /\ hash' = [hash EXCEPT ![r] = 0]
    /\ lobby' = [Idle EXCEPT !.at = "read", !.room = r]
    /\ UNCHANGED <<list, roomList, game, members, killed>>

\* hmgetRoom: the room is read back.
MakeRead ==
    /\ lobby.at = "read"
    /\ lobby' = [lobby EXCEPT !.at = "push",
                              !.present = Parsed(hash[lobby.room])]
    /\ UNCHANGED <<redis, roomList, game, made, members, killed>>

\* lpushRoomList; then the client is told.
MakePush ==
    /\ lobby.at = "push"
    /\ list' = <<Entry(lobby.room, lobby.present)>> \o list
    /\ lobby' = Idle
    /\ UNCHANGED <<hash, roomList, game, made, members, killed>>

-----------------------------------------------------------------------------
(* Mutants: plausible slips in this code, used to test the properties *)

\* The count is written before it is incremented.
JoinHash_Late ==
    /\ game.at = "join"
    /\ hash' = [hash EXCEPT ![game.room] = game.present]
    /\ game' = [game EXCEPT !.at = "set", !.present = @ + 1]
    /\ UNCHANGED <<list, roomList, lobby, made, members, killed>>

\* The room is pushed anew instead of set.
SetEntry_Push ==
    /\ game.at = "set"
    /\ list' = <<Entry(game.room, game.present)>> \o list
    /\ game' = Idle
    /\ UNCHANGED <<hash, roomList, lobby, made, members, killed>>

-----------------------------------------------------------------------------
(* GameMessageHandler::resJoinGame *)

\* hmgetRoom: no such room is answered with a failure, which changes nothing.
\* A room no one has joined yet is put in front of the server's list.  Clients
\* join rooms they were told of.
JoinRead(r) ==
    /\ game.at = "idle"
    /\ hash[r] # Absent
    /\ lobby.room # r
    /\ members[r] < MaxMembers
    /\ members' = [members EXCEPT ![r] = @ + 1]
    /\ roomList' = IF Index(r) < Len(roomList) THEN roomList
                   ELSE <<r>> \o roomList
    /\ game' = [Idle EXCEPT !.at = "join", !.room = r,
                            !.present = Parsed(hash[r])]
    /\ UNCHANGED <<redis, lobby, made, killed>>

\* presentMembers++, hmsetCommand.
JoinHash ==
    /\ game.at = "join"
    /\ hash' = [hash EXCEPT ![game.room] = game.present + 1]
    /\ game' = [game EXCEPT !.at = "set", !.present = @ + 1]
    /\ UNCHANGED <<list, roomList, lobby, made, members, killed>>

(* GameMessageHandler::resQuitGame *)

\* hmgetRoom, presentMembers--.  Clients quit the room they are in.
QuitRead(r) ==
    /\ game.at = "idle"
    /\ hash[r] # Absent
    /\ members[r] > 0
    /\ members' = [members EXCEPT ![r] = @ - 1]
    /\ LET n == LessOne(Parsed(hash[r])) IN
       game' = [Idle EXCEPT !.at = IF n = 0 THEN "index" ELSE "quit",
                            !.room = r, !.present = n]
    /\ UNCHANGED <<redis, roomList, lobby, made, killed>>

\* Members are left: hmsetCommand.
QuitHash ==
    /\ game.at = "quit"
    /\ hash' = [hash EXCEPT ![game.room] = game.present]
    /\ game' = [game EXCEPT !.at = "set"]
    /\ UNCHANGED <<list, roomList, lobby, made, members, killed>>

\* The room is empty: lindexCommand fetches the text of its entry.  Out of range
\* the reply has no text, and copying it is undefined.
QuitIndex ==
    /\ game.at = "index"
    /\ \/ /\ InRange(Index(game.room))
          /\ game' = [game EXCEPT !.at = "remove",
                                  !.entry = list[Index(game.room) + 1]]
          /\ UNCHANGED killed
       \/ /\ ~InRange(Index(game.room))
          /\ killed' = TRUE
          /\ UNCHANGED game
    /\ UNCHANGED <<redis, roomList, lobby, made, members>>

\* lremCommand with count 0: every entry with that text.
QuitRemove ==
    /\ game.at = "remove"
    /\ list' = Without(list, game.entry)
    /\ game' = [game EXCEPT !.at = "delete"]
    /\ UNCHANGED <<hash, roomList, lobby, made, members, killed>>

\* delCommand.  The server's own list keeps the room.
QuitDelete ==
    /\ game.at = "delete"
    /\ hash' = [hash EXCEPT ![game.room] = Absent]
    /\ game' = Idle
    /\ UNCHANGED <<list, roomList, lobby, made, members, killed>>

\* lsetRoom, of both.  Out of range is an error reply, thrown as a
\* UserRedisException nobody catches.
SetEntry ==
    /\ game.at = "set"
    /\ \/ /\ InRange(Index(game.room))
          /\ list' = [list EXCEPT ![Index(game.room) + 1] =
                         Entry(game.room, game.present)]
          /\ game' = Idle
          /\ UNCHANGED killed
       \/ /\ ~InRange(Index(game.room))
          /\ killed' = TRUE
          /\ UNCHANGED <<list, game>>
    /\ UNCHANGED <<hash, roomList, lobby, made, members>>

-----------------------------------------------------------------------------
LobbySteps == (\E r \in Rooms : MakeHash(r)) \/ MakeRead \/ MakePush

GameSteps ==
    \/ \E r \in Rooms : JoinRead(r) \/ QuitRead(r)
    \/ JoinHash \/ QuitHash \/ QuitIndex \/ QuitRemove \/ QuitDelete
    \/ SetEntry

Next == ~killed /\ (LobbySteps \/ GameSteps)

Spec == Init /\ [][Next]_vars

-----------------------------------------------------------------------------
(* Properties *)

Counts == 0..MaxMembers

TypeOK ==
    /\ hash \in [Rooms -> Counts \cup {Absent}]
    /\ list \in Seq([id : Rooms, present : Counts])
    /\ roomList \in Seq(Rooms)
    /\ lobby \in [at : {"idle", "read", "push"}, room : Rooms \cup {NoRoom},
                  present : Counts, entry : {NoEntry}]
    /\ game \in [at : {"idle", "join", "quit", "set", "index", "remove",
                       "delete"},
                 room : Rooms \cup {NoRoom}, present : Counts,
                 entry : {NoEntry} \cup [id : Rooms, present : Counts]]
    /\ made \in 0..MaxMakes
    /\ members \in [Rooms -> Counts]
    /\ killed \in BOOLEAN

\* Between two requests of the game server, a room's hash counts those who
\* joined it and have not quit, and a room without a hash has no members: the
\* read-modify-writes of join, quit and make lose no update, whatever becomes of
\* room_list.
MembersCounted ==
    game.at = "idle" =>
        \A r \in Rooms : members[r] = IF hash[r] = Absent THEN 0 ELSE hash[r]

\* room_list never has more entries than there are rooms, also when entries were
\* overwritten or removed in each other's place: lobbies do not fill up with
\* rooms that are gone.
ListingNotLonger ==
    Len(list) <= Cardinality({r \in Rooms : hash[r] # Absent})

\* What the lobby shows of a room: the count in its entry, or Absent.
Shown ==
    [r \in Rooms |->
        LET places == {i \in DOMAIN list : list[i].id = r}
        IN  IF places = {} THEN Absent
            ELSE Parsed(list[CHOOSE i \in places :
                                 \A j \in places : i <= j].present)]

Directory == INSTANCE RoomDirectory WITH shown <- Shown

\* The rooms anybody has known.
Known == {r \in Rooms : hash[r] # Absent} \cup
         {roomList[i] : i \in DOMAIN roomList}

\* As long as there has been one room only, what the lobby shows of it changes
\* as makes, joins and quits change it, each in one step, also when it empties
\* and is made again: the commands of a request add up to what clients expect.
OneRoomDirectory ==
    [][Cardinality(Known') <= 1 => [Directory!Next]_Shown]_vars

\* What the lobby shows changes as makes, joins and quits change it, each in one
\* step that concerns its room only (resMakeRoom, resJoinGame, resQuitGame).
ImplementsDirectory == Directory!Spec
=============================================================================
