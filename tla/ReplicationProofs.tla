------------------------- MODULE ReplicationProofs --------------------------
(***************************************************************************)
(* Proofs about GameObjects.tla, for any set of objects and any width of   *)
(* the id counter, and about Replication.tla, which it is part of: the     *)
(* worker's jobs are the steps of GameObjects.tla, a packet names an       *)
(* object by the id it has, and nobody is written to once expired.         *)
(***************************************************************************)
EXTENDS Replication, TLAPS

-----------------------------------------------------------------------------
(* The object tables *)

USE IdSpaceAssumption

\* The ids in use and the next one fit the counter.
TypeOK ==
    /\ nextObjectId \in Ids
    /\ DOMAIN objectTable \subseteq Ids
    /\ wrapped \in BOOLEAN

\* Until the counter wraps, ids are at least 1.
Positive ==
    ~wrapped => nextObjectId > 0 /\ \A id \in DOMAIN objectTable : id > 0

IInv == TypeOK /\ TablesAgree /\ Positive

-----------------------------------------------------------------------------
\* Advancing finds an id of the counter's range that is not in use, and one
\* above 0 unless it wraps.
LEMMA AdvanceIdFinds ==
    ASSUME nextObjectId \in Ids, AdvanceId
    PROVE  /\ nextObjectId' \in Ids
           /\ nextObjectId' \notin DOMAIN objectTable'
           /\ wrapped' \in BOOLEAN
           /\ ~wrapped' => ~wrapped /\ nextObjectId' > 0
<1>1. PICK d \in 1..IdSpace :
          /\ nextObjectId' = Wrap(nextObjectId + d)
          /\ nextObjectId' \notin DOMAIN objectTable'
          /\ wrapped' = (wrapped \/ nextObjectId + d >= IdSpace)
  BY DEF AdvanceId
<1>2. nextObjectId' \in Ids
  BY <1>1 DEF Ids, Wrap
<1>3. wrapped' \in BOOLEAN /\ (~wrapped' => ~wrapped)
  BY <1>1
<1>4. ASSUME ~wrapped' PROVE nextObjectId' > 0
  <2>1. nextObjectId + d < IdSpace
    <3>1. ~(nextObjectId + d >= IdSpace)
      BY <1>1, <1>4
    <3>2. QED
      BY <1>1, <3>1 DEF Ids
  <2>2. nextObjectId' = nextObjectId + d
    BY <1>1, <2>1 DEF Ids, Wrap
  <2>3. QED
    BY <2>2 DEF Ids
<1>5. QED
  BY <1>1, <1>2, <1>3, <1>4

\* An addition enters the object in both tables under a fresh id.
LEMMA AddStep ==
    ASSUME IInv, NEW o \in Objects, New(o), Add(o)
    PROVE  IInv'
<1>1. TypeOK'
  BY AdvanceIdFinds DEF IInv, TypeOK, Add, Put
<1>2. TablesAgree'
  BY AdvanceIdFinds DEF IInv, TypeOK, TablesAgree, Add, Put, New
<1>3. Positive'
  BY AdvanceIdFinds DEF IInv, TypeOK, Positive, Add, Put
<1>4. QED
  BY <1>1, <1>2, <1>3 DEF IInv

\* A removal takes the object out of both tables and frees its id.
LEMMA RemoveStep ==
    ASSUME IInv, NEW o \in DOMAIN idTable, Remove(o)
    PROVE  IInv'
<1>1. TypeOK'
  BY DEF IInv, TypeOK, TablesAgree, Remove, Erase, Restrict
<1>2. TablesAgree'
  BY DEF IInv, TablesAgree, Remove, Erase, Restrict
<1>3. Positive'
  BY DEF IInv, TypeOK, TablesAgree, Positive, Remove, Erase, Restrict, Ids
<1>4. QED
  BY <1>1, <1>2, <1>3 DEF IInv

LEMMA InitIInv == Init => IInv
<1> SUFFICES ASSUME Init PROVE IInv
  OBVIOUS
<1>1. DOMAIN objectTable = {} /\ DOMAIN idTable = {}
  BY DEF Init, EmptyTable
<1>2. TypeOK
  <2>1. nextObjectId = 1 /\ wrapped = FALSE
    BY DEF Init
  <2>2. 1 \in 0..(IdSpace - 1)
    OBVIOUS
  <2>3. QED
    BY <1>1, <2>1, <2>2 DEF TypeOK, Ids
<1>3. TablesAgree
  BY <1>1 DEF TablesAgree
<1>4. Positive
  BY <1>1 DEF Init, Positive
<1>5. QED
  BY <1>2, <1>3, <1>4 DEF IInv

LEMMA NextIInv == IInv /\ [Next]_vars => IInv'
<1> SUFFICES ASSUME IInv, [Next]_vars PROVE IInv'
  OBVIOUS
<1>1. CASE Create
  BY <1>1, AddStep DEF Create
<1>2. ASSUME NEW id \in Ids, Update(id) PROVE IInv'
  BY <1>2, AddStep DEF Update, Create
<1>3. ASSUME NEW id \in Ids, Destroy(id) PROVE IInv'
  BY <1>3, RemoveStep DEF Destroy, IInv, TablesAgree
<1>4. CASE UNCHANGED vars
  BY <1>4 DEF vars, IInv, TypeOK, TablesAgree, Positive
<1>5. QED
  BY <1>1, <1>2, <1>3, <1>4 DEF Next

THEOREM Invariance == Spec => []IInv
BY InitIInv, NextIInv, PTL DEF Spec

\* The tables agree and the next id is free, whatever is created and destroyed.
THEOREM TablesAlwaysAgree == Spec => []TablesAgree
BY Invariance, PTL DEF IInv

\* No object gets the id that means "not found" before the counter wraps.
THEOREM ZeroIsNotGiven == Spec => []ZeroOnlyAfterWrap
<1>1. IInv => ZeroOnlyAfterWrap
  BY DEF IInv, Positive, ZeroOnlyAfterWrap, NotFound
<1>2. QED
  BY <1>1, Invariance, PTL

\* A live object keeps its id.
THEOREM IdsAreStable == Spec => StableIds
<1>1. IInv /\ [Next]_vars
        => [\A o \in DOMAIN idTable \cap DOMAIN idTable' :
               idTable'[o] = idTable[o]]_vars
  BY DEF IInv, Next, Create, Update, Destroy, Add, Remove, New, Put, Erase,
         Restrict
<1>2. QED
  BY <1>1, Invariance, PTL DEF Spec, StableIds

-----------------------------------------------------------------------------
(* The jobs of the worker *)

\* Only objects that were created are in the tables.
Created == DOMAIN idTable \subseteq DOMAIN version

\* Nothing changes the tables between the making of a packet and its sending.
PacketIsCurrent ==
    at["worker"] \in {"reply", "lock", "write"} /\ packet.id # NotFound =>
        /\ packet.id \in DOMAIN objectTable
        /\ objectTable[packet.id] = packet.obj

RInv == IInv /\ Created /\ PacketIsCurrent

-----------------------------------------------------------------------------
\* What a job that creates an object does.
LEMMA CreateNewStep ==
    ASSUME RInv, CreateNew
    PROVE  /\ Create
           /\ Created'
           /\ nextObjectId \in DOMAIN objectTable'
           /\ objectTable'[nextObjectId] = NewObject
<1>1. NewObject \in Objects /\ NewObject \notin DOMAIN version
  <2>1. PICK o \in Objects : o \notin DOMAIN version
    BY DEF CreateNew
  <2>2. QED
    BY <2>1 DEF NewObject
<1>2. New(NewObject)
  BY <1>1 DEF RInv, Created, New
<1>3. Create
  BY <1>1, <1>2 DEF Create, CreateNew
<1>4. Created'
  BY DEF RInv, Created, CreateNew, Add, Put
<1>5. QED
  BY <1>3, <1>4 DEF CreateNew, Add, Put

\* The steps that leave tables and packet alone keep the invariant, when the
\* worker is not led to a place where it would send.
LEMMA QuietStep ==
    ASSUME RInv, UNCHANGED <<tables, packet>>,
           at'["worker"] \in {"reply", "lock", "write"}
               => at["worker"] \in {"reply", "lock", "write"}
    PROVE  RInv' /\ UNCHANGED vars
BY DEF RInv, IInv, TypeOK, TablesAgree, Positive, Created, PacketIsCurrent,
       tables, vars

LEMMA GoKeepsIdle ==
    ASSUME NEW t, NEW place, NEW p, Go(t, place, p),
           place \notin {"reply", "lock", "write"}
    PROVE  at'["worker"] \in {"reply", "lock", "write"}
               => at["worker"] \in {"reply", "lock", "write"}
BY DEF Go

LEMMA MovesQuietly ==
    ASSUME RInv, NEW t, NEW from, NEW to, NEW p, Moves(t, from, to, p),
           to \notin {"reply", "lock", "write"}
    PROVE  RInv' /\ UNCHANGED vars
BY GoKeepsIdle, QuietStep DEF Moves

\* A job that changes the tables starts, and ends, with an idle worker.
LEMMA TableStep ==
    ASSUME RInv, Create \/ \E id \in Ids : Destroy(id), Created',
           at["worker"] = "idle", UNCHANGED at
    PROVE  RInv' /\ Next
<1>1. Next
  BY DEF Next
<1>2. IInv'
  BY <1>1, NextIInv DEF RInv
<1>3. QED
  BY <1>1, <1>2 DEF RInv, PacketIsCurrent

-----------------------------------------------------------------------------
LEMMA InitRInv == RepInit => Init /\ RInv
<1> SUFFICES ASSUME RepInit PROVE Init /\ RInv
  OBVIOUS
<1>1. Init /\ IInv
  BY InitIInv DEF RepInit
<1>2. Created
  BY DEF RepInit, Init, Created, EmptyTable
<1>3. PacketIsCurrent
  BY DEF RepInit, PacketIsCurrent, NoPacket
<1>4. QED
  BY <1>1, <1>2, <1>3 DEF RInv

LEMMA JoinStep == ASSUME RInv, Join PROVE RInv' /\ Next
<1>1. CreateNew
  BY DEF Join
<1>2. Create /\ Created'
  BY <1>1, CreateNewStep
<1>3. Next
  BY <1>2 DEF Next
<1>4. IInv'
  BY <1>3, NextIInv DEF RInv
<1>5. PacketIsCurrent'
  <2>1. packet' = [id |-> nextObjectId, obj |-> NewObject, version |-> 0]
    BY DEF Join
  <2>2. QED
    BY <1>1, <2>1, CreateNewStep DEF PacketIsCurrent
<1>6. QED
  BY <1>2, <1>3, <1>4, <1>5 DEF RInv

LEMMA HostStep ==
    ASSUME RInv, HostCreates \/ HostUpdates \/ HostDestroys
    PROVE  RInv' /\ [Next]_vars
<1> USE DEF threads, Takes
<1>1. CASE HostCreates
  <2>1. CASE CreateNew
    BY <1>1, <2>1, CreateNewStep, TableStep DEF HostCreates
  <2>2. CASE UNCHANGED tables
    BY <1>1, <2>2, QuietStep DEF HostCreates
  <2>3. QED
    BY <1>1, <2>1, <2>2 DEF HostCreates
<1>2. CASE HostUpdates
  <2>1. CASE CreateNew
    BY <1>2, <2>1, CreateNewStep, TableStep DEF HostUpdates
  <2>2. CASE UNCHANGED tables
    BY <1>2, <2>2, QuietStep DEF HostUpdates
  <2>3. ASSUME NEW o, UNCHANGED vars,
               version' = [version EXCEPT ![o] =
                              IF @ < MaxVersion THEN @ + 1 ELSE @]
        PROVE  RInv' /\ UNCHANGED vars
    BY <1>2, <2>3 DEF HostUpdates, RInv, IInv, TypeOK, TablesAgree, Positive,
       Created, PacketIsCurrent, vars
  <2>4. QED
    BY <1>2, <2>1, <2>2, <2>3 DEF HostUpdates
<1>3. CASE HostDestroys
  <2>1. CASE UNCHANGED tables
    BY <1>3, <2>1, QuietStep DEF HostDestroys
  <2>2. ASSUME NEW id \in DOMAIN objectTable, Destroy(id), UNCHANGED version
        PROVE  RInv' /\ Next
    <3>1. id \in Ids
      BY DEF RInv, IInv, TypeOK
    <3>2. Created'
      BY <2>2 DEF RInv, Created, Destroy, Remove, Erase, Restrict
    <3>3. QED
      BY <1>3, <2>2, <3>1, <3>2, TableStep DEF HostDestroys
  <2>3. QED
    BY <1>3, <2>1, <2>2 DEF HostDestroys
<1>4. QED
  BY <1>1, <1>2, <1>3

\* The packet is made with the id the tables have.
LEMMA BuildStep == ASSUME RInv, Build PROVE RInv' /\ UNCHANGED vars
<1>1. UNCHANGED tables
  BY DEF Build
<1>2. IInv' /\ Created' /\ UNCHANGED vars
  BY <1>1 DEF RInv, IInv, TypeOK, TablesAgree, Positive, Created, tables, vars
<1>3. PacketIsCurrent'
  <2> DEFINE o == Head(jobs).ref
  <2>1. CASE packet' = [id |-> IdOf(o), obj |-> o, version |-> version[o]]
    BY <1>1, <2>1 DEF PacketIsCurrent, IdOf, tables, RInv, IInv, TablesAgree
  <2>2. CASE UNCHANGED threads
    BY <1>1, <2>2 DEF PacketIsCurrent, tables, threads, RInv
  <2>3. QED
    BY <2>1, <2>2 DEF Build
<1>4. QED
  BY <1>2, <1>3 DEF RInv

LEMMA NextRInv == RInv /\ [RepNext]_repVars => RInv' /\ [Next]_vars
<1> SUFFICES ASSUME RInv, [RepNext]_repVars PROVE RInv' /\ [Next]_vars
  OBVIOUS
<1> USE DEF threads
<1>1. CASE Join
  BY <1>1, JoinStep
<1>2. CASE HostCreates \/ HostUpdates \/ HostDestroys
  BY <1>2, HostStep
<1>3. CASE Build
  BY <1>3, BuildStep
<1>4. CASE JoinRefused \/ BuildUsesFreed \/ SendUsesFreed
  BY <1>4, QuietStep DEF JoinRefused, BuildUsesFreed, SendUsesFreed, UsesFreed
<1>5. CASE Reply \/ Write \/ WriteFails
  <2>1. UNCHANGED tables
    BY <1>5 DEF Reply, Write, WriteFails
  <2>2. packet' = NoPacket
    BY <1>5 DEF Reply, Write, WriteFails
  <2>3. QED
    BY <2>1, <2>2 DEF RInv, IInv, TypeOK, TablesAgree, Positive,
       Created, PacketIsCurrent, NoPacket, tables, vars
<1>6. CASE Lock
  BY <1>6, QuietStep DEF Lock, Go
<1>7. CASE Blocks \/ Asleep
  <2>1. UNCHANGED <<tables, packet>>
    BY <1>7 DEF Blocks, Asleep
  <2>2. at'["worker"] \in {"reply", "lock", "write"}
            => at["worker"] \in {"reply", "lock", "write"}
    BY <1>7, GoKeepsIdle DEF Blocks, Asleep
  <2>3. QED
    BY <2>1, <2>2, QuietStep
<1>8. ASSUME NEW t, Leaves(t)
      PROVE  RInv' /\ [Next]_vars
  <2>1. PICK from, to, p :
            /\ Moves(t, from, to, p)
            /\ to \in {"expire", "delete", "close", "idle"}
    BY <1>8 DEF Leaves, LeaveRoom, Expire, DestroySession, Close
  <2>2. QED
    BY <2>1, MovesQuietly
<1>9. CASE HandlerEnqueue
  BY <1>9, QuietStep DEF HandlerEnqueue
<1>10. ASSUME NEW p \in Players, AsksToJoin(p) \/ Notifies(p)
       PROVE  RInv' /\ [Next]_vars
  BY <1>10, QuietStep DEF AsksToJoin, Notifies, Receive
<1>11. ASSUME NEW p \in Players,
              Expires(p) \/ Breaks(p) \/ Fills(p) \/ Drains(p)
       PROVE  RInv' /\ [Next]_vars
  BY <1>11, QuietStep DEF Expires, Breaks, Fills, Drains
<1>12. ASSUME NEW p \in Players, Detects(p) \/ AcceptAnother(p)
       PROVE  RInv' /\ [Next]_vars
  <2>1. PICK to \in {"leave", "idle"} : Moves("io", "idle", to, p)
    BY <1>12 DEF Detects, ReadFails, Hangup, AcceptAnother
  <2>2. QED
    BY <2>1, MovesQuietly
<1>13. CASE UNCHANGED repVars
  BY <1>13, QuietStep DEF repVars
<1>14. QED
  BY <1>1, <1>2, <1>3, <1>4, <1>5, <1>6, <1>7, <1>8, <1>9, <1>10, <1>11,
     <1>12, <1>13 DEF RepNext, WorkerSteps, LoopSteps

THEOREM RepInvariance == RepSpec => []RInv
BY InitRInv, NextRInv, PTL DEF RepSpec

\* The jobs of the game server take the steps of GameObjects.tla.
THEOREM ImplementsObjects == RepSpec => Spec
BY InitRInv, NextRInv, RepInvariance, PTL DEF RepSpec, Spec

\* The room's tables agree whatever players, timers and the event loop do.
THEOREM RoomTablesAgree == RepSpec => []TablesAgree
BY ImplementsObjects, TablesAlwaysAgree, PTL

\* No object gets id 0 before the counter wraps.
THEOREM RoomZeroIsNotGiven == RepSpec => []ZeroOnlyAfterWrap
BY ImplementsObjects, ZeroIsNotGiven, PTL

\* An object keeps its id.
THEOREM RoomIdsAreStable == RepSpec => StableIds
BY ImplementsObjects, IdsAreStable, PTL

\* Only a reply and a write tell a player anything.
LEMMA OtherStepsTellNothing ==
    ASSUME [RepNext]_repVars, ~Reply, ~Write
    PROVE  UNCHANGED view
<1> USE DEF told
<1>1. CASE WorkerSteps
  <2>1. CASE Join \/ JoinRefused \/ HostCreates \/ HostUpdates \/ HostDestroys
    BY <2>1 DEF Join, JoinRefused, HostCreates, HostUpdates, HostDestroys
  <2>2. CASE \/ Blocks \/ Build \/ BuildUsesFreed \/ SendUsesFreed \/ Lock
             \/ WriteFails \/ Asleep
    BY <2>2 DEF Blocks, Build, BuildUsesFreed, SendUsesFreed, UsesFreed, Lock,
                WriteFails, Asleep
  <2>3. ASSUME NEW t, Leaves(t)
        PROVE  UNCHANGED view
    BY <2>3 DEF Leaves, LeaveRoom, Expire, DestroySession, Close, Moves
  <2>4. QED
    BY <1>1, <2>1, <2>2, <2>3 DEF WorkerSteps
<1>2. CASE LoopSteps
  BY <1>2 DEF LoopSteps, Leaves, LeaveRoom, Expire, DestroySession, Close,
              Moves
<1>3. CASE HandlerEnqueue
  BY <1>3 DEF HandlerEnqueue
<1>4. ASSUME NEW p \in Players, AsksToJoin(p) \/ Notifies(p) \/ Expires(p)
      PROVE  UNCHANGED view
  BY <1>4 DEF AsksToJoin, Notifies, Receive, Expires
<1>5. ASSUME NEW p \in Players,
             \/ Breaks(p) \/ Fills(p) \/ Drains(p)
             \/ Detects(p) \/ AcceptAnother(p)
      PROVE  UNCHANGED view
  BY <1>5 DEF Breaks, Fills, Drains, Detects, ReadFails, Hangup,
              AcceptAnother, Moves
<1>6. QED
  BY <1>1, <1>2, <1>3, <1>4, <1>5 DEF RepNext, repVars

ViewType == DOMAIN view = Players

LEMMA ViewTyped == RepSpec => []ViewType
<1>1. RepInit => ViewType
  BY DEF RepInit, ViewType
<1>2. ViewType /\ [RepNext]_repVars => ViewType'
  BY OtherStepsTellNothing DEF ViewType, Reply, Write
<1>3. QED
  BY <1>1, <1>2, PTL DEF RepSpec

\* A player is told of an object under the id it has, for any number of
\* players, objects and ids.
THEOREM PlayersToldRight == RepSpec => ToldUnderItsId
<1>1. RInv /\ ViewType /\ [RepNext]_repVars
        => [\A p \in Players : \A id \in DOMAIN view'[p] \ {NotFound} :
              \/ id \in DOMAIN view[p] /\ view'[p][id] = view[p][id]
              \/ id \in DOMAIN objectTable
                   /\ objectTable[id] = view'[p][id].obj]_repVars
  <2> SUFFICES ASSUME RInv, ViewType, [RepNext]_repVars,
                      NEW p \in Players,
                      NEW id \in DOMAIN view'[p] \ {NotFound},
                      ~(id \in DOMAIN view[p] /\ view'[p][id] = view[p][id])
               PROVE  /\ id \in DOMAIN objectTable
                      /\ objectTable[id] = view'[p][id].obj
    OBVIOUS
  <2>1. Reply \/ Write
    BY OtherStepsTellNothing
  <2>2. at["worker"] \in {"reply", "lock", "write"}
    BY <2>1 DEF Reply, Write
  <2>3. PICK q : view' = [view EXCEPT ![q] = Put(@, packet.id, packet)]
    BY <2>1 DEF Reply, Write
  <2>4. view'[p] = Put(view[p], packet.id, packet)
    BY <2>3 DEF ViewType
  <2>5. id = packet.id /\ view'[p][id] = packet
    BY <2>4 DEF Put
  <2>6. QED
    BY <2>2, <2>5 DEF RInv, PacketIsCurrent
<1>2. QED
  BY <1>1, RepInvariance, ViewTyped, PTL DEF RepSpec, ToldUnderItsId

-----------------------------------------------------------------------------
(* Who is written to after its player is gone *)

\* Where a thread is while it gets rid of a player.
Departing == {"leave", "expire", "delete", "close"}

\* ... and where the worker is.
Working ==
    Departing \cup {"idle", "blocked", "reply", "lock", "write", "asleep"}

Typed ==
    /\ sessions \subseteq Players /\ room \subseteq Players
    /\ timer \in [Players -> {"none", "armed", "asleep", "freed"}]
    /\ conn \in [Players -> {"up", "broken", "closed", "other"}]
    /\ at \in [Threads -> Working]
    /\ whom \in [Threads -> Players \cup {Nobody}]
    /\ at["io"] \in Departing \cup {"idle"}
    /\ \A t \in Threads :
          at[t] \notin {"idle", "blocked"} => whom[t] \in Players

\* The timer of a player that has one is freed with its session.
Timers ==
    /\ \A p \in room : timer[p] # "none"
    /\ \A p \in Players \ sessions : timer[p] \in {"none", "freed"}
    /\ at["worker"] \in {"lock", "write", "asleep"} =>
           timer[whom["worker"]] # "none"

\* The descriptor of a player the event loop gets rid of is given to nobody
\* yet; and nobody else gets rid of the player that the worker writes to.
Detained ==
    /\ at["io"] \in Departing => conn[whom["io"]] \in {"broken", "closed"}
    /\ at["worker"] = "write" /\ whom["worker"] \notin sessions =>
           at["io"] = "delete" /\ whom["io"] = whom["worker"]

LeaveInv == Typed /\ Timers /\ Detained

LEMMA LeaveInit == RepInit => LeaveInv
BY DEF RepInit, LeaveInv, Typed, Timers, Detained, Departing,
       Working, Threads

LEMMA GoIs ==
    ASSUME Typed, NEW t \in Threads, NEW place, NEW p, Go(t, place, p)
    PROVE  /\ at'[t] = place
           /\ whom'[t] = IF place = "idle" THEN Nobody ELSE p
           /\ \A u \in Threads \ {t} : at'[u] = at[u] /\ whom'[u] = whom[u]
BY DEF Typed, Go

\* A step that moves a thread to a place of its own, with a player.
LEMMA GoTyped ==
    ASSUME Typed, NEW t \in Threads,
           NEW place \in Working, NEW p \in Players, Go(t, place, p),
           t = "io" => place \in Departing \cup {"idle"}
    PROVE  /\ at' \in [Threads -> Working]
           /\ whom' \in [Threads -> Players \cup {Nobody}]
           /\ at'["io"] \in Departing \cup {"idle"}
           /\ \A u \in Threads : at'[u] \notin {"idle", "blocked"} =>
                 whom'[u] \in Players
<1>1. "io" \in Threads
  BY DEF Threads
<1>2. /\ at' \in [Threads -> Working]
      /\ whom' \in [Threads -> Players \cup {Nobody}]
  BY DEF Typed, Go
<1>. QED  BY <1>1, <1>2, GoIs DEF Typed

\* The worker's jobs.
LEMMA JobLeaves ==
    ASSUME LeaveInv, WorkerSteps, \A t \in Threads : ~Leaves(t)
    PROVE  LeaveInv'
<1> USE DEF LeaveInv, Departing, Working
<1>0. "worker" \in Threads /\ "io" \in Threads
  BY DEF Threads
<1>1. CASE Join
  <2>1. PICK p \in sessions :
            /\ room' = room \cup {p}
            /\ timer' = [timer EXCEPT ![p] = "armed"]
            /\ Go("worker", "reply", p)
            /\ UNCHANGED <<sessions, conn>>
            /\ at["worker"] = "idle"
    BY <1>1 DEF Join, Takes
  <2>2. p \in Players
    BY <2>1 DEF Typed
  <2>3. Typed'
    BY <1>0, <2>1, <2>2, GoTyped DEF Typed
  <2>4. /\ at'["worker"] = "reply" /\ at'["io"] = at["io"]
        /\ whom'["io"] = whom["io"]
    BY <1>0, <2>1, GoIs
  <2>. QED  BY <2>1, <2>2, <2>3, <2>4 DEF Typed, Timers, Detained
<1>2. CASE JoinRefused \/ HostCreates \/ HostUpdates \/ HostDestroys
  <2>1. UNCHANGED <<lists, threads>>
    BY <1>2 DEF JoinRefused, HostCreates, HostUpdates, HostDestroys
  <2>. QED  BY <2>1 DEF Typed, Timers, Detained, lists, threads
<1>3. CASE BuildUsesFreed \/ SendUsesFreed
  BY <1>3 DEF BuildUsesFreed, SendUsesFreed, UsesFreed, Typed, Timers,
              Detained, lists, threads
<1>4. CASE Reply
  <2>1. /\ UNCHANGED lists
        /\ \/ Go("worker", "idle", whom["worker"])
           \/ Go("worker", "leave", whom["worker"])
        /\ whom["worker"] \in Players
    BY <1>0, <1>4 DEF Reply, Typed
  <2>2. Typed'
    BY <1>0, <2>1, GoTyped DEF Typed, lists
  <2>3. /\ at'["worker"] \in {"idle", "leave"} /\ at'["io"] = at["io"]
        /\ whom'["io"] = whom["io"]
    BY <1>0, <2>1, GoIs
  <2>. QED  BY <2>1, <2>2, <2>3 DEF Timers, Detained, lists
<1>5. CASE Build
  <2>1. UNCHANGED lists
    BY <1>5 DEF Build
  <2>2. CASE UNCHANGED threads
    BY <2>1, <2>2 DEF Typed, Timers, Detained, lists, threads
  <2>3. CASE ~UNCHANGED threads
    <3>1. PICK p \in room : Go("worker", "lock", p)
      BY <1>5, <2>3 DEF Build
    <3>2. p \in Players /\ timer[p] # "none"
      BY DEF Typed, Timers
    <3>3. Typed'
      BY <1>0, <2>1, <3>1, <3>2, GoTyped DEF Typed, lists
    <3>4. /\ at'["worker"] = "lock" /\ whom'["worker"] = p
          /\ at'["io"] = at["io"] /\ whom'["io"] = whom["io"]
      BY <1>0, <3>1, GoIs
    <3>. QED  BY <2>1, <3>2, <3>3, <3>4 DEF Timers, Detained, lists
  <2>. QED  BY <2>2, <2>3
<1>6. CASE Lock
  <2>1. /\ at["worker"] = "lock" /\ whom["worker"] \in Players
        /\ timer[whom["worker"]] # "freed"
        /\ Go("worker", "write", whom["worker"])
        /\ UNCHANGED lists
    BY <1>0, <1>6 DEF Lock, Typed
  <2>2. whom["worker"] \in sessions
    BY <2>1 DEF Timers
  <2>3. Typed'
    BY <1>0, <2>1, GoTyped DEF Typed, lists
  <2>4. /\ at'["worker"] = "write" /\ whom'["worker"] = whom["worker"]
        /\ at'["io"] = at["io"] /\ whom'["io"] = whom["io"]
    BY <1>0, <2>1, GoIs
  <2>. QED  BY <2>1, <2>2, <2>3, <2>4 DEF Timers, Detained, lists
<1>7. CASE Write
  <2>1. /\ UNCHANGED lists
        /\ Go("worker", "idle", Nobody)
    BY <1>7 DEF Write
  <2>2. /\ at'["worker"] = "idle" /\ at'["io"] = at["io"]
        /\ whom'["io"] = whom["io"]
    BY <1>0, <2>1, GoIs
  <2>3. Typed'
    BY <1>0, <2>1, <2>2 DEF Typed, Go, Threads, lists
  <2>. QED  BY <2>1, <2>2, <2>3 DEF Timers, Detained, lists
<1>8. CASE WriteFails
  <2>1. /\ UNCHANGED lists
        /\ Go("worker", "asleep", whom["worker"])
        /\ whom["worker"] \in Players /\ timer[whom["worker"]] # "none"
    BY <1>0, <1>8 DEF WriteFails, Typed, Timers
  <2>2. Typed'
    BY <1>0, <2>1, GoTyped DEF Typed, lists
  <2>3. /\ at'["worker"] = "asleep" /\ whom'["worker"] = whom["worker"]
        /\ at'["io"] = at["io"] /\ whom'["io"] = whom["io"]
    BY <1>0, <2>1, GoIs
  <2>. QED  BY <2>1, <2>2, <2>3 DEF Timers, Detained, lists
<1>9. CASE Asleep
  <2>1. /\ at["worker"] = "asleep" /\ whom["worker"] \in Players
        /\ timer[whom["worker"]] # "freed"
        /\ timer' = [timer EXCEPT ![whom["worker"]] = "asleep"]
        /\ Go("worker", "idle", whom["worker"])
        /\ UNCHANGED <<sessions, room, conn>>
    BY <1>0, <1>9 DEF Asleep, Typed
  <2>2. whom["worker"] \in sessions
    BY <2>1 DEF Timers
  <2>3. Typed'
    BY <1>0, <2>1, GoTyped DEF Typed
  <2>4. /\ at'["worker"] = "idle" /\ at'["io"] = at["io"]
        /\ whom'["io"] = whom["io"]
    BY <1>0, <2>1, GoIs
  <2>. QED  BY <2>1, <2>2, <2>3, <2>4 DEF Typed, Timers, Detained
<1>10. CASE Blocks
  <2>1. UNCHANGED lists /\ Go("worker", "blocked", Nobody)
    BY <1>10 DEF Blocks
  <2>2. /\ at'["worker"] = "blocked" /\ at'["io"] = at["io"]
        /\ whom'["io"] = whom["io"]
    BY <1>0, <2>1, GoIs
  <2>3. Typed'
    BY <1>0, <2>1, <2>2 DEF Typed, Go, Threads, lists
  <2>. QED  BY <2>1, <2>2, <2>3 DEF Timers, Detained, lists
<1>. QED
  BY <1>0, <1>1, <1>2, <1>3, <1>4, <1>5, <1>6, <1>7, <1>8, <1>9,
     <1>10
  DEF WorkerSteps

\* The ways a player goes.
LEMMA LeavesLeave ==
    ASSUME LeaveInv, NEW t \in Threads, Leaves(t)
    PROVE  LeaveInv'
<1> USE DEF Moves, Working
<1> DEFINE p == whom[t]
<1>0. /\ p \in Players /\ at[t] \in Departing
      /\ "worker" \in Threads /\ "io" \in Threads
  BY DEF LeaveInv, Typed, Leaves, LeaveRoom, Expire, DestroySession, Close,
         Departing, Threads
<1>00. t = "io" \/ t = "worker"
  BY DEF Threads
<1> HIDE DEF p
<1>1. CASE LeaveRoom(t)
  <2>1. /\ room' = room \ {p} /\ Go(t, "expire", p)
        /\ UNCHANGED <<sessions, timer, conn>>
    BY <1>1 DEF LeaveRoom, p
  <2>2. Typed'
    BY <1>0, <2>1, GoTyped DEF LeaveInv, Typed, Departing
  <2>3. at'[t] = "expire" /\ whom'[t] = whom[t]
    BY <2>1, GoIs DEF LeaveInv, p
  <2>4. \A u \in Threads \ {t} : at'[u] = at[u] /\ whom'[u] = whom[u]
    BY <2>1, GoIs DEF LeaveInv
  <2>5. at[t] = "leave"
    BY <1>1 DEF LeaveRoom
  <2>. QED  BY <1>0, <1>00, <2>1, <2>2, <2>3, <2>4, <2>5
            DEF LeaveInv, Timers, Detained, Departing
<1>2. CASE Expire(t)
  <2>1. PICK place \in {"delete", "close"} :
            Go(t, place, p) /\ (place = "delete" <=> p \in sessions)
    BY <1>2 DEF Expire, p
  <2>2. /\ sessions' = sessions \ {p}
        /\ timer' = [timer EXCEPT ![p] =
                        IF p \in sessions /\ @ # "none" THEN "freed" ELSE @]
        /\ UNCHANGED <<room, conn>>
        /\ at[t] = "expire"
    BY <1>2 DEF Expire, p
  <2>3. /\ timer' \in [Players -> {"none", "armed", "asleep", "freed"}]
        /\ \A q \in Players :
              timer'[q] = IF q = p /\ p \in sessions /\ timer[q] # "none"
                          THEN "freed" ELSE timer[q]
    BY <1>0, <2>2 DEF LeaveInv, Typed
  <2>4. Typed'
    BY <1>0, <2>1, <2>2, <2>3, GoTyped DEF LeaveInv, Typed, Departing
  <2>5. at'[t] = place /\ whom'[t] = p
    BY <2>1, GoIs DEF LeaveInv
  <2>6. \A u \in Threads \ {t} : at'[u] = at[u] /\ whom'[u] = whom[u]
    BY <2>1, GoIs DEF LeaveInv
  <2>7. Timers'
    <3>1. \A q \in room' : timer'[q] # "none"
      BY <2>2, <2>3 DEF LeaveInv, Typed, Timers
    <3>2. \A q \in Players \ sessions' : timer'[q] \in {"none", "freed"}
      BY <2>2, <2>3 DEF LeaveInv, Timers
    <3>3. at'["worker"] \in {"lock", "write", "asleep"} =>
              timer'[whom'["worker"]] # "none"
      BY <1>0, <1>00, <2>3, <2>5, <2>6 DEF LeaveInv, Typed, Timers
    <3>. QED  BY <3>1, <3>2, <3>3 DEF Timers
  <2>8. Detained'
    <3>1. at'["io"] \in Departing => conn'[whom'["io"]] \in {"broken", "closed"}
      BY <1>0, <1>00, <2>2, <2>5, <2>6 DEF LeaveInv, Detained, p
    <3>2. ASSUME at'["worker"] = "write", whom'["worker"] \notin sessions'
          PROVE  at'["io"] = "delete" /\ whom'["io"] = whom'["worker"]
      <4>1. /\ t = "io" /\ at["worker"] = "write"
            /\ whom'["worker"] = whom["worker"]
        BY <1>00, <1>0, <2>1, <2>5, <2>6, <3>2
      <4>2. at["io"] = "expire"
        BY <2>2, <4>1
      <4>3. whom["worker"] \in sessions
        BY <4>1, <4>2 DEF LeaveInv, Detained
      <4>4. whom["worker"] = p
        BY <2>2, <3>2, <4>1, <4>3
      <4>. QED  BY <2>1, <2>5, <4>1, <4>3, <4>4
    <3>. QED  BY <3>1, <3>2 DEF Detained
  <2>. QED  BY <2>4, <2>7, <2>8 DEF LeaveInv
<1>3. CASE DestroySession(t)
  <2>1. /\ Go(t, "close", p) /\ UNCHANGED <<lists, packet>>
        /\ at[t] = "delete" /\ ~Writing(p)
    BY <1>3 DEF DestroySession, CanDestroy, p
  <2>2. Typed'
    BY <1>0, <2>1, GoTyped DEF LeaveInv, Typed, Departing, lists
  <2>3. at'[t] = "close" /\ whom'[t] = whom[t]
    BY <2>1, GoIs DEF LeaveInv, p
  <2>4. \A u \in Threads \ {t} : at'[u] = at[u] /\ whom'[u] = whom[u]
    BY <2>1, GoIs DEF LeaveInv
  <2>. QED  BY <1>0, <1>00, <2>1, <2>2, <2>3, <2>4
            DEF LeaveInv, Timers, Detained, Departing, lists, Writing, p
<1>4. CASE Close(t)
  <2>1. /\ Go(t, "idle", p) /\ UNCHANGED <<sessions, room, timer>>
        /\ conn' = [conn EXCEPT ![p] = "closed"]
        /\ at[t] = "close"
    BY <1>4 DEF Close, p
  <2>2. Typed'
    BY <1>0, <2>1, GoTyped DEF LeaveInv, Typed, Departing
  <2>3. at'[t] = "idle"
    BY <2>1, GoIs DEF LeaveInv
  <2>4. \A u \in Threads \ {t} : at'[u] = at[u] /\ whom'[u] = whom[u]
    BY <2>1, GoIs DEF LeaveInv
  <2>. QED  BY <1>0, <1>00, <2>1, <2>2, <2>3, <2>4
            DEF LeaveInv, Typed, Timers, Detained, Departing
<1>. QED  BY <1>1, <1>2, <1>3, <1>4 DEF Leaves

LEMMA LeaveStep == LeaveInv /\ [RepNext]_repVars => LeaveInv'
<1> SUFFICES ASSUME LeaveInv, [RepNext]_repVars PROVE LeaveInv'
    OBVIOUS
<1>0. "worker" \in Threads /\ "io" \in Threads
  BY DEF Threads
<1>1. ASSUME NEW t \in Threads, Leaves(t) PROVE LeaveInv'
  BY <1>1, LeavesLeave
<1>2. CASE WorkerSteps
  BY <1>1, <1>2, JobLeaves
<1>3. CASE LoopSteps
  BY <1>0, <1>1, <1>3 DEF LoopSteps
<1>4. CASE HandlerEnqueue \/ UNCHANGED repVars
  BY <1>4 DEF HandlerEnqueue, repVars, lists, threads,
              LeaveInv, Typed, Timers, Detained
<1>5. ASSUME NEW p \in Players, AsksToJoin(p) \/ Notifies(p) \/ Expires(p)
      PROVE  LeaveInv'
  <2>1. UNCHANGED <<lists, threads>>
    BY <1>5 DEF AsksToJoin, Notifies, Receive, Expires
  <2>. QED  BY <2>1 DEF lists, threads, LeaveInv, Typed, Timers, Detained
<1>6. ASSUME NEW p \in Players, Breaks(p) \/ Fills(p) \/ Drains(p)
      PROVE  LeaveInv'
  <2>1. /\ UNCHANGED <<sessions, room, timer, threads>>
        /\ \/ UNCHANGED conn
           \/ conn[p] = "up" /\ conn' = [conn EXCEPT ![p] = "broken"]
    BY <1>6 DEF Breaks, Fills, Drains
  <2>2. Typed'
    BY <2>1 DEF LeaveInv, Typed, threads
  <2>3. \A q \in Players :
            conn[q] \in {"broken", "closed"} => conn'[q] = conn[q]
    BY <2>1 DEF LeaveInv, Typed
  <2>. QED  BY <1>0, <2>1, <2>2, <2>3
            DEF LeaveInv, Typed, Timers, Detained, Departing, threads
<1>7. ASSUME NEW p \in Players, ReadFails(p) PROVE LeaveInv'
  <2>1. /\ conn[p] = "broken" /\ UNCHANGED lists
        /\ at["io"] = "idle" /\ Go("io", "leave", p)
    BY <1>7 DEF ReadFails, Moves
  <2>2. Typed'
    BY <1>0, <2>1, GoTyped DEF LeaveInv, Typed, Departing, Working, lists
  <2>3. /\ at'["worker"] = at["worker"] /\ whom'["worker"] = whom["worker"]
        /\ at'["io"] = "leave" /\ whom'["io"] = p
    BY <1>0, <2>1, GoIs DEF LeaveInv
  <2>. QED  BY <2>1, <2>2, <2>3
            DEF LeaveInv, Timers, Detained, Departing, lists
<1>8. ASSUME NEW p \in Players, Hangup(p) \/ AcceptAnother(p)
      PROVE  LeaveInv'
  <2>1. /\ at["io"] = "idle" /\ Go("io", "idle", p)
        /\ UNCHANGED <<sessions, room, timer>>
        /\ \E c \in {"closed", "other"} : conn' = [conn EXCEPT ![p] = c]
    BY <1>8 DEF Hangup, AcceptAnother, Moves
  <2>2. Typed'
    BY <1>0, <2>1, GoTyped DEF LeaveInv, Typed, Departing, Working
  <2>3. /\ at'["worker"] = at["worker"] /\ whom'["worker"] = whom["worker"]
        /\ at'["io"] = "idle"
    BY <1>0, <2>1, GoIs DEF LeaveInv
  <2>. QED  BY <2>1, <2>2, <2>3 DEF LeaveInv, Timers, Detained, Departing
<1>. QED  BY <1>2, <1>3, <1>4, <1>5, <1>6, <1>7, <1>8 DEF RepNext, Detects

LEMMA OnlyWriteMeetsStrangers ==
    ASSUME [RepNext]_repVars, ~Write
    PROVE  UNCHANGED strangers
<1> USE DEF told
<1>1. CASE Reply
  BY <1>1 DEF Reply
<1>2. CASE WorkerSteps /\ ~Reply
  <2>1. CASE Join \/ JoinRefused \/ HostCreates \/ HostUpdates \/ HostDestroys
    BY <2>1 DEF Join, JoinRefused, HostCreates, HostUpdates, HostDestroys
  <2>2. CASE \/ Blocks \/ Build \/ BuildUsesFreed \/ SendUsesFreed \/ Lock
             \/ WriteFails \/ Asleep
    BY <2>2 DEF Blocks, Build, BuildUsesFreed, SendUsesFreed, UsesFreed, Lock,
                WriteFails, Asleep
  <2>3. ASSUME NEW t, Leaves(t)
        PROVE  UNCHANGED strangers
    BY <2>3 DEF Leaves, LeaveRoom, Expire, DestroySession, Close, Moves
  <2>. QED  BY <1>2, <2>1, <2>2, <2>3 DEF WorkerSteps
<1>3. CASE LoopSteps
  BY <1>3 DEF LoopSteps, Leaves, LeaveRoom, Expire, DestroySession, Close,
              Moves
<1>4. CASE HandlerEnqueue
  BY <1>4 DEF HandlerEnqueue
<1>5. ASSUME NEW p \in Players, AsksToJoin(p) \/ Notifies(p) \/ Expires(p)
      PROVE  UNCHANGED strangers
  BY <1>5 DEF AsksToJoin, Notifies, Receive, Expires
<1>6. ASSUME NEW p \in Players,
             \/ Breaks(p) \/ Fills(p) \/ Drains(p)
             \/ Detects(p) \/ AcceptAnother(p)
      PROVE  UNCHANGED strangers
  BY <1>6 DEF Breaks, Fills, Drains, Detects, ReadFails, Hangup,
              AcceptAnother, Moves
<1>. QED  BY <1>1, <1>2, <1>3, <1>4, <1>5, <1>6 DEF RepNext, repVars

\* An update reaches a client that never joined only if the session of the
\* player who had its descriptor was left behind, for any number of players,
\* jobs and departures: a player that is expired is not written to any more.
THEOREM StrangersAfterHangup == RepSpec => StrangersOnlyByHangup
<1>1. LeaveInv /\ [RepNext]_repVars
          => [\A p \in strangers' \ strangers : p \in sessions]_repVars
  <2> SUFFICES ASSUME LeaveInv, [RepNext]_repVars,
                      NEW p \in strangers' \ strangers
               PROVE  p \in sessions
      OBVIOUS
  <2>1. Write
    BY OnlyWriteMeetsStrangers
  <2>2. at["worker"] = "write" /\ p = whom["worker"] /\ conn[p] = "other"
    BY <2>1 DEF Write
  <2>. QED  BY <2>2 DEF LeaveInv, Detained, Departing
<1>. QED  BY <1>1, LeaveInit, LeaveStep, PTL
          DEF RepSpec, StrangersOnlyByHangup
=============================================================================
