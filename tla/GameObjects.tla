---------------------------- MODULE GameObjects -----------------------------
(***************************************************************************)
(* Common/GameObjectManager.cpp, driven by ReplicationManager::replicate:  *)
(* the game objects of a room and their ids.  Two tables, id -> object and *)
(* object -> id, and the id to give next.  A client's notification creates *)
(* an object, updates one (an unknown id creates one instead) or destroys  *)
(* one; a destroyed object's id is the next to be given.                   *)
(*                                                                         *)
(* One worker runs replicate at a time (SerialJobs of JobQueue.tla), and   *)
(* the mutex of the manager covers each of the operations below.           *)
(***************************************************************************)
EXTENDS Integers, Functions

CONSTANTS
    Objects,        \* the objects that can be created (shared_ptr values)
    IdSpace         \* how many values m_nextObjectId has: 2^32 in the code

ASSUME IdSpaceAssumption == IdSpace \in Nat /\ IdSpace > 1

Ids == 0..(IdSpace - 1)

NotFound == 0       \* what getObjectId answers for an unknown object

VARIABLES
    objectTable,    \* m_objectTable: a function from the ids in use
    idTable,        \* m_idTable: a function from the objects in use
    nextObjectId,   \* m_nextObjectId
    wrapped         \* history: m_nextObjectId went past its largest value

vars == <<objectTable, idTable, nextObjectId, wrapped>>

EmptyTable == [x \in {} |-> x]

\* A mutant: ids are given from 0.
Init_FromZero ==
    /\ objectTable = EmptyTable
    /\ idTable = EmptyTable
    /\ nextObjectId = 0
    /\ wrapped = FALSE

Init ==
    /\ objectTable = EmptyTable
    /\ idTable = EmptyTable
    /\ nextObjectId = 1
    /\ wrapped = FALSE

Put(table, key, value) ==
    [k \in DOMAIN table \cup {key} |-> IF k = key THEN value ELSE table[k]]

Erase(table, key) == Restrict(table, DOMAIN table \ {key})

\* The object is made by createObject: it is in no table yet.
New(o) == o \notin DOMAIN idTable

\* Arithmetic on m_nextObjectId, for n below 2 * IdSpace.
Wrap(n) == IF n < IdSpace THEN n ELSE n - IdSpace

-----------------------------------------------------------------------------
(* GameObjectManager *)

\* m_nextObjectId++, and again while the id is in use; 32 bits wrap round.  A
\* full table has no such id: the loop would not end, nor does Add step.
AdvanceId ==
    \E d \in 1..IdSpace :
        /\ nextObjectId' = Wrap(nextObjectId + d)
        /\ nextObjectId' \notin DOMAIN objectTable'
        /\ \A e \in 1..(d - 1) :
              Wrap(nextObjectId + e) \in DOMAIN objectTable'
        /\ wrapped' = (wrapped \/ nextObjectId + d >= IdSpace)

Add(o) ==
    /\ objectTable' = Put(objectTable, nextObjectId, o)
    /\ idTable' = Put(idTable, o, nextObjectId)
    /\ AdvanceId

Remove(o) ==
    /\ objectTable' = Erase(objectTable, idTable[o])
    /\ idTable' = Erase(idTable, o)
    /\ nextObjectId' = idTable[o]
    /\ UNCHANGED wrapped

(* ReplicationManager::replicate, one action per kind of notification.      *)
(* A class id with no creation function gives a null object: no step.       *)

Create == \E o \in Objects : New(o) /\ Add(o)

\* UPDATE of a known id reads the object's data and leaves the tables alone.
Update(id) == id \notin DOMAIN objectTable /\ Create

\* DESTROY of an unknown id finds a null object, and does nothing.
Destroy(id) == id \in DOMAIN objectTable /\ Remove(objectTable[id])

Next == Create \/ \E id \in Ids : Update(id) \/ Destroy(id)

Spec == Init /\ [][Next]_vars

-----------------------------------------------------------------------------
(* Properties *)

\* The two tables say the same, and the id to give next is not in use: however
\* ids are freed and given again, addGameObject never overwrites an object.
TablesAgree ==
    /\ \A id \in DOMAIN objectTable :
          /\ objectTable[id] \in DOMAIN idTable
          /\ idTable[objectTable[id]] = id
    /\ \A o \in DOMAIN idTable :
          /\ idTable[o] \in DOMAIN objectTable
          /\ objectTable[idTable[o]] = o
    /\ nextObjectId \notin DOMAIN objectTable

\* Id 0 means "not found" to every caller.  It is given to an object only after
\* the 32-bit counter wrapped, which takes no more than a few live objects and
\* enough of them created and destroyed.
ZeroOnlyAfterWrap == NotFound \in DOMAIN objectTable => wrapped

\* As long as an object lives it keeps its id.
StableIds ==
    [][\A o \in DOMAIN idTable \cap DOMAIN idTable' :
          idTable'[o] = idTable[o]]_vars
=============================================================================
