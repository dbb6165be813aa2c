------------------------------ MODULE Restarts ------------------------------
(***************************************************************************)
(* The three servers and Redis, when servers stop and start again.  Redis  *)
(* outlives them, and every server empties it when it starts (initDB), and *)
(* the login and the lobby server when they are told to quit (destructor): *)
(* the rooms and users of the other servers' clients go with it, at any    *)
(* point of the request another server, or its own worker, is serving.     *)
(*                                                                         *)
(* The rooms are those of RoomStore.tla.  Added are the users: the login   *)
(* server stores those it verified (verifyUserInfo), the lobby server      *)
(* reads them back when they enter (resEnterRoom).                         *)
(***************************************************************************)
EXTENDS RoomStore

CONSTANTS
    Users,
    RoomList,       \* the key room_list
    Page,           \* keys that one SCAN returns at least
    MaxScans        \* bound: no server stops or starts after that many SCANs

ASSUME KeysAssumption ==
    /\ RoomList \notin Rooms \cup Users
    /\ Rooms \cap Users = {}

ASSUME RestartsAssumption == Page \in Nat \ {0} /\ MaxScans \in Nat

Servers == {"login", "lobby", "game"}

VARIABLES
    server,         \* "up", "down", or between and after the SCAN and the DEL
                    \*   of a start ("scanned", "up") or quit ("leaving",
                    \*   "left": its threads serve until the process ends)
    scanned,        \* the keys in SCAN's reply to each server
    partial,        \* hashes that only have presentMembers
    users,          \* users with a hash
    session,        \* the user of each client's session in the lobby
    scans,          \* SCANs that were sent
    current,        \* history: verified, and in no reply to SCAN then or since
    since,          \* history: verified between SCAN and DEL of each server
    ever,           \* history: rooms that were made
    orphans,        \* history: members whose room was deleted under them
    wrapped,        \* history: rooms whose count fell below zero
    torn            \* history: a SCAN and its DEL did not find Redis whole
                    \*   and quiet

store == <<hash, list, roomList, lobby, game, made, members, killed>>
seen == <<current, since>>
clients == <<users, session, seen>>
starts == <<server, scanned, scans>>
allVars == <<store, clients, starts, partial, ever, orphans, wrapped, torn>>

RestartsInit ==
    /\ Init
    /\ server = [s \in Servers |-> "up"]
    /\ scanned = [s \in Servers |-> {}]
    /\ partial = {}
    /\ users = {}
    /\ session = [u \in Users |-> "none"]
    /\ scans = 0
    /\ current = {}
    /\ since = [s \in Servers |-> {}]
    /\ ever = {}
    /\ orphans = [r \in Rooms |-> 0]
    /\ wrapped = {}
    /\ torn = FALSE

Serves(s) == server[s] \in {"up", "leaving", "left"}

LobbyUp == Serves("lobby")

GameUp == server["game"] = "up" /\ ~killed

InFlight == (LobbyUp /\ lobby.at # "idle") \/ (GameUp /\ game.at # "idle")

\* A server has SCAN's reply, and has not sent DEL.
Asked(s) == server[s] \in {"scanned", "leaving"}
Window == \E s \in Servers : Asked(s)

\* What a DEL is about to take.
Doomed == UNION {scanned[s] : s \in Servers}

-----------------------------------------------------------------------------
(* Users *)

\* hmsetUserInfo, and hmgetUserInfo, which empties the id of a user without a
\* hash.
Stored(u) == users \cup {u}
Retrieved(u) == IF u \in users THEN "own" ELSE "nameless"

\* UserDB::verifyUserInfo: MySQL knows the user, hmsetUserInfo stores it.  One
\* MySQL does not know is refused, and nothing changes.
Verify(u) ==
    /\ Serves("login")
    /\ users' = Stored(u)
    /\ current' = IF u \in Doomed THEN current ELSE current \cup {u}
    /\ since' = [s \in Servers |->
                    IF Asked(s) THEN since[s] \cup {u} ELSE since[s]]
    /\ UNCHANGED <<store, starts, session, partial, ever, orphans, wrapped,
                   torn>>

\* RoomMessageHandler::resEnterRoom.  A client without a hash is let in all the
\* same, under the empty id.
Enter(u) ==
    /\ LobbyUp
    /\ lobby.at = "idle"
    /\ session' = [session EXCEPT ![u] = Retrieved(u)]
    /\ UNCHANGED <<store, starts, users, seen, partial, ever, orphans, wrapped,
                   torn>>

-----------------------------------------------------------------------------
(* Rooms: what a start of another server changes for the requests *)

\* hmsetNewRoom of resMakeRoom
StartMake(r) ==
    /\ MakeHash(r)
    /\ ever' = ever \cup {r}
    /\ torn' = (torn \/ Window)
    /\ UNCHANGED <<clients, starts, partial, orphans, wrapped>>

\* hmgetRoom of resMakeRoom.  Without a hash it empties the room's id.  With
\* presentMembers only it pops from an empty list: the server dies.
ReadBack ==
    \/ /\ hash[lobby.room] # Absent
       /\ lobby.room \notin partial
       /\ MakeRead
       /\ UNCHANGED starts
    \/ /\ lobby.at = "read"
       /\ hash[lobby.room] = Absent
       /\ lobby' = [Idle EXCEPT !.at = "push"]
       /\ UNCHANGED <<redis, roomList, game, made, members, killed, starts>>
    \/ /\ lobby.at = "read"
       /\ lobby.room \in partial
       /\ server' = [server EXCEPT !["lobby"] = "down"]
       /\ session' = [u \in Users |-> "none"]
       /\ scanned' = [scanned EXCEPT !["lobby"] = {}]
       /\ since' = [since EXCEPT !["lobby"] = {}]
       /\ UNCHANGED <<store, scans>>

LobbyRead ==
    /\ lobby.at = "read"
    /\ ReadBack
    /\ (server' = server => UNCHANGED <<session, since>>)
    /\ UNCHANGED <<users, current, partial, ever, orphans, wrapped, torn>>

LobbyPush ==
    /\ MakePush
    /\ UNCHANGED <<clients, starts, partial, ever, orphans, wrapped, torn>>

\* hmgetRoom of resJoinGame and resQuitGame
StartRequest(r) ==
    /\ r \notin partial
    /\ \/ JoinRead(r) /\ UNCHANGED wrapped
       \/ /\ QuitRead(r)
          /\ wrapped' = IF hash[r] = 0 THEN wrapped \cup {r} ELSE wrapped
    /\ torn' = (torn \/ Window)
    /\ UNCHANGED <<clients, starts, partial, ever, orphans>>

\* The same, of a hash with presentMembers only, or of the empty id that the
\* lobby shows of a room made without one: the server dies, by a pop from an
\* empty list, or by the assertion of hmgetCommand.
StartFatal ==
    /\ game.at = "idle"
    /\ partial # {} \/ \E i \in DOMAIN list : list[i].id = NoRoom
    /\ killed' = TRUE
    /\ UNCHANGED <<redis, roomList, lobby, game, made, members, clients,
                   starts, partial, ever, orphans, wrapped, torn>>

\* hmsetCommand of presentMembers makes the hash if there is none.
CountMember ==
    /\ JoinHash \/ QuitHash
    /\ partial' = IF hash[game.room] = Absent
                  THEN partial \cup {game.room} ELSE partial
    /\ UNCHANGED <<clients, starts, ever, orphans, wrapped, torn>>

DeleteHash ==
    /\ QuitDelete
    /\ partial' = partial \ {game.room}
    /\ UNCHANGED <<clients, starts, ever, orphans, wrapped, torn>>

ChangeList ==
    /\ QuitIndex \/ QuitRemove \/ SetEntry
    /\ UNCHANGED <<clients, starts, partial, ever, orphans, wrapped, torn>>

-----------------------------------------------------------------------------
(* Stops and starts *)

\* A process ends: killed, by a fault, or after its destructor.  Clients lose
\* their connection, and what it was doing is lost; the record of it stays until
\* the start, for nobody was told.
Stop(s) ==
    /\ Serves(s)
    /\ scans < MaxScans
    /\ server' = [server EXCEPT ![s] = "down"]
    /\ scanned' = [scanned EXCEPT ![s] = {}]
    /\ since' = [since EXCEPT ![s] = {}]
    /\ session' = IF s = "lobby" THEN [u \in Users |-> "none"] ELSE session
    /\ IF s = "game"
       THEN /\ roomList' = << >>
            /\ members' = [r \in Rooms |-> 0]
            /\ orphans' = [r \in Rooms |-> 0]
       ELSE UNCHANGED <<roomList, members, orphans>>
    /\ UNCHANGED <<redis, lobby, game, made, killed, users, current, scans,
                   partial, ever, wrapped, torn>>

Keys ==
    {r \in Rooms : hash[r] # Absent} \cup users \cup
    IF list = << >> THEN {} ELSE {RoomList}

\* cleanAll: SCAN, once and from cursor 0.  Past a page of keys, the reply has
\* some of them.
SendScan(s) ==
    /\ scans < MaxScans
    /\ scans' = scans + 1
    /\ \E keys \in SUBSET Keys :
           /\ keys = Keys \/ Cardinality(keys) >= Page
           /\ scanned' = [scanned EXCEPT ![s] = keys]
           /\ current' = current \ keys
           /\ since' = [since EXCEPT ![s] = {}]
           /\ torn' = (torn \/ InFlight \/ keys # Keys)
    /\ UNCHANGED <<store, users, partial, ever, orphans, wrapped>>

\* initDB of a server that starts ...
Scan(s) ==
    /\ server[s] = "down"
    /\ server' = [server EXCEPT ![s] = "scanned"]
    /\ SendScan(s)
    /\ UNCHANGED session

\* ... and the destructor of one that quits, which has expired its sessions.
\* The game server reads no commands: its main thread joins the workers.
Quit(s) ==
    /\ s # "game"
    /\ server[s] = "up"
    /\ server' = [server EXCEPT ![s] = "leaving"]
    /\ SendScan(s)
    /\ session' = IF s = "lobby" THEN [u \in Users |-> "none"] ELSE session

\* After DEL, a server that starts serves, with nothing of its time before.
Serve(s) ==
    /\ server' = [server EXCEPT ![s] =
                     IF @ = "scanned" THEN "up" ELSE "left"]
    /\ scanned' = [scanned EXCEPT ![s] = {}]
    /\ since' = [since EXCEPT ![s] = {}]
    /\ UNCHANGED scans
    /\ lobby' = IF s = "lobby" /\ server[s] = "scanned" THEN Idle ELSE lobby
    /\ game' = IF s = "game" THEN Idle ELSE game
    /\ killed' = (killed /\ s # "game")

\* Plausible slips: the list of rooms only is deleted, or all there is.
Clean_ListOnly(s) ==
    /\ Asked(s)
    /\ list' = << >>
    /\ Serve(s)
    /\ UNCHANGED <<hash, roomList, made, members, users, session, current,
                   partial, ever, orphans, wrapped, torn>>

Clean_Flush(s) ==
    /\ Asked(s)
    /\ hash' = [r \in Rooms |-> Absent]
    /\ list' = << >>
    /\ partial' = {}
    /\ wrapped' = {}
    /\ users' = {}
    /\ orphans' = members
    /\ Serve(s)
    /\ UNCHANGED <<roomList, made, members, session, current, ever, torn>>

\* cleanAll: DEL of the keys in the reply.
Clean(s) ==
    /\ Asked(s)
    /\ hash' = [r \in Rooms |-> IF r \in scanned[s] THEN Absent ELSE hash[r]]
    /\ list' = IF RoomList \in scanned[s] THEN << >> ELSE list
    /\ partial' = partial \ scanned[s]
    /\ wrapped' = wrapped \ scanned[s]
    /\ users' = users \ scanned[s]
    /\ orphans' = [r \in Rooms |-> IF r \in scanned[s] THEN members[r]
                                   ELSE orphans[r]]
    /\ Serve(s)
    /\ UNCHANGED <<roomList, made, members, session, current, ever, torn>>

-----------------------------------------------------------------------------
LoginServer == \E u \in Users : Verify(u)

LobbyServer ==
    /\ LobbyUp
    /\ \/ \E u \in Users : Enter(u)
       \/ \E r \in Rooms : StartMake(r)
       \/ LobbyRead \/ LobbyPush

GameServer ==
    /\ GameUp
    /\ \/ \E r \in Rooms : StartRequest(r)
       \/ StartFatal \/ CountMember \/ DeleteHash \/ ChangeList

RestartsNext ==
    \/ LoginServer \/ LobbyServer \/ GameServer
    \/ \E s \in Servers : Stop(s) \/ Scan(s) \/ Quit(s) \/ Clean(s)

RestartsSpec == RestartsInit /\ [][RestartsNext]_allVars

-----------------------------------------------------------------------------
(* Properties *)

\* Between two requests of the game server, a room's hash counts the members
\* that joined it since its last deletion, less those that quit: a start or a
\* quit of another server costs the counts of that moment and later ones stay
\* right, until more members of a deleted room quit the one made in its place
\* than joined it: the count wraps, and what is read of it is the greatest int.
\* It holds unless SCAN or DEL met a request halfway, or SCAN more keys than a
\* page.
CountsSurviveStarts ==
    GameUp /\ game.at = "idle" /\ ~torn =>
        \A r \in Rooms \ wrapped :
            members[r] - orphans[r] = IF hash[r] = Absent THEN 0 ELSE hash[r]

\* A start, or a quit, that met no request leaves nothing of the time before its
\* SCAN: no room, no listing, and no user but those verified since.
StartsClean ==
    [][\A s \in Servers :
           /\ <<server[s], server'[s]>> \in {<<"scanned", "up">>,
                                             <<"leaving", "left">>}
           /\ ~torn
           => /\ list' = << >> /\ \A r \in Rooms : hash'[r] = Absent
              /\ users' \subseteq since[s]]_allVars

\* While there has been one room only, the game server dies of what it finds in
\* Redis only if a SCAN or its DEL met a request halfway, or more keys than a
\* page, or members in the room it deleted: one of them may quit between the
\* hash and the listing of the room made in its place, of which the list has no
\* entry to set.
DiesOnlyOfTornStore ==
    [][killed' /\ ~killed =>
           \/ torn
           \/ Cardinality(ever) > 1
           \/ \E r \in Rooms : orphans[r] > 0]_allVars

\* A client that was verified enters under its own id, unless its hash is in the
\* reply to a SCAN of a start or a quit whose DEL had not come when it was
\* verified, or in one since: a server cleans up what it has seen, no more.
VerifiedKeepTheirName ==
    [][\A u \in current :
           session'[u] # session[u] => session'[u] \in {"own", "none"}]_allVars
=============================================================================
