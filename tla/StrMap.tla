------------------------------- MODULE StrMap -------------------------------
(***************************************************************************)
(* StrMap and StrSet of native/src/strmap.py: hash tables with open         *)
(* addressing and linear probing, the symbol tables of the native compiler. *)
(* One behaviour is the life of one table of either kind.  A slot holds its *)
(* key; the hash kept beside it is the key's.                               *)
(***************************************************************************)
EXTENDS Naturals, FiniteSets

CONSTANTS
  Keys, Values, Null, Absent,
  HashOf,       \* str_hash
  Kinds,        \* subset of {"map", "set"}
  InitialCaps,  \* capacities asked of strmap_new and strset_new
  DefaultCap,   \* the least capacity, 16 in the source
  DeletesFrom,  \* the kinds strmap_delete or strset_delete is called for
  MaxCap        \* bound: the largest capacity a table grows to

ASSUME TableAssumption ==
  /\ HashOf \in [Keys -> Nat]
  /\ Kinds \subseteq {"map", "set"} /\ DeletesFrom \subseteq Kinds
  /\ MaxCap \in Nat /\ InitialCaps \subseteq 0..MaxCap /\ DefaultCap \in 4..MaxCap
  /\ Null \in Values /\ Absent \notin Values

Empty == [state |-> "empty"]
Tombstone == [state |-> "tombstone"]
Full(k, v) == [state |-> "occupied", key |-> k, value |-> v]
Slots == {Empty, Tombstone} \cup [state : {"occupied"}, key : Keys, value : Values]

VARIABLES
  kind,      \* which of the two the table is
  cap, slots, count,
  old, moved,  \* while it grows: the old slots, and how many have been seen
  pc,        \* "idle", or in a call that adds: "grow", "insert"
  op, arg,   \* the last call and its arguments
  reply,     \* its answer
  broken     \* a slot outside the arrays was written

table == <<cap, slots, count>>
growth == <<old, moved>>
mapvars == <<kind, table, growth, pc, op, arg, reply, broken>>

EmptySlots(c) == [i \in 0..(c - 1) |-> Empty]

\* strmap_new and strset_new.
Init ==
  /\ kind \in Kinds
  /\ \E c \in InitialCaps : cap = IF c > DefaultCap THEN c ELSE DefaultCap
  /\ slots = EmptySlots(cap) /\ count = 0
  /\ old = EmptySlots(0) /\ moved = 0
  /\ pc = "idle" /\ op = "new" /\ arg = <<Null, Null>> /\ reply = Null /\ broken = FALSE

-----------------------------------------------------------------------------
(* Probing.                                                                 *)

\* x & y is BitAnd[x][y].
BitAnd[x \in Nat] == [y \in Nat |->
  IF x = 0 THEN 0
  ELSE 2 * BitAnd[x \div 2][y \div 2] + (IF x % 2 = 1 /\ y % 2 = 1 THEN 1 ELSE 0)]

\* The slot looked at in step n of the search for a key with hash h.
ProbeIn(c, h) ==
  LET idx[n \in 0..(c - 1)] == IF n = 0 THEN BitAnd[h][c - 1] ELSE BitAnd[idx[n - 1] + 1][c - 1]
  IN idx

ProbeTable == [c \in 1..MaxCap |-> [k \in Keys |-> ProbeIn(c, HashOf[k])]]

Probe(k, n) == ProbeTable[cap][k][n]
At(k, n) == slots[Probe(k, n)]

Occupied(s) == s.state = "occupied"

\* The search for k gets to step n: it stops at the first empty slot.
Reached(k, n) == \A j \in 0..(n - 1) : At(k, j) # Empty

Hits(k) == {n \in 0..(cap - 1) : Reached(k, n) /\ Occupied(At(k, n)) /\ At(k, n).key = k}

Free(k) == {n \in 0..(cap - 1) : Reached(k, n) /\ ~Occupied(At(k, n))}

First(S, n) == n \in S /\ \A m \in S : n <= m

\* strmap_get, with its answer for a table that is empty.
Lookup(k) ==
  IF count = 0 \/ Hits(k) = {} THEN Null
  ELSE At(k, CHOOSE n \in Hits(k) : First(Hits(k), n)).value

Contains(k) == count > 0 /\ Hits(k) # {}

\* Where a key may go: strset_add takes a member or a slot that is not occupied,
\* whichever comes first, _strmap_find_slot prefers the key's own slot.
Candidates(k) ==
  IF kind = "set" THEN Hits(k) \cup Free(k)
  ELSE IF Hits(k) # {} THEN Hits(k) ELSE Free(k)

-----------------------------------------------------------------------------
(* strmap_set and strset_add.                                               *)

\* Without a candidate the map writes to slot -1 and the set does nothing.
Insert(k, v) ==
  \/ /\ Candidates(k) = {}
     /\ broken' = (broken \/ kind = "map")
     /\ UNCHANGED <<slots, count>>
  \/ \E n \in Candidates(k) :
       /\ First(Candidates(k), n)
       /\ slots' = [slots EXCEPT ![Probe(k, n)] = Full(k, v)]
       /\ count' = IF Occupied(At(k, n)) THEN count ELSE count + 1
       /\ UNCHANGED broken

\* Seeded bug: the table grows when it is full.
OverloadedFull == count >= cap

Overloaded == count * 4 >= cap * 3

Add(k, v) ==
  /\ pc = "idle" /\ ~broken
  /\ kind = "set" => v = Null
  /\ Overloaded => 2 * cap <= MaxCap
  /\ op' = "add" /\ arg' = <<k, v>>
  /\ IF Overloaded
     THEN /\ pc' = "grow" /\ old' = slots /\ moved' = 0
          /\ cap' = 2 * cap /\ slots' = EmptySlots(2 * cap) /\ count' = 0
     ELSE pc' = "insert" /\ UNCHANGED <<table, growth>>
  /\ UNCHANGED <<kind, reply, broken>>

\* Seeded bug: the last old slot is forgotten.
OldSlotsButLast == {i \in DOMAIN old : i + 1 \in DOMAIN old}

OldSlots == DOMAIN old

\* One turn of the loop of _strmap_grow or _strset_grow.
GrowMove ==
  /\ pc = "grow" /\ moved \in OldSlots
  /\ IF Occupied(old[moved]) THEN Insert(old[moved].key, old[moved].value)
     ELSE UNCHANGED <<slots, count, broken>>
  /\ moved' = moved + 1
  /\ UNCHANGED <<kind, cap, old, pc, op, arg, reply>>

GrowEnd ==
  /\ pc = "grow" /\ moved \notin OldSlots
  /\ pc' = "insert" /\ old' = EmptySlots(0) /\ moved' = 0
  /\ UNCHANGED <<kind, table, op, arg, reply, broken>>

AddInsert ==
  /\ pc = "insert"
  /\ Insert(arg[1], arg[2])
  /\ pc' = "idle"
  /\ UNCHANGED <<kind, cap, growth, op, arg, reply>>

-----------------------------------------------------------------------------
(* The other calls.                                                         *)

Get(k) ==
  /\ pc = "idle" /\ ~broken /\ kind = "map"
  /\ op' = "get" /\ arg' = <<k, Null>> /\ reply' = Lookup(k)
  /\ UNCHANGED <<kind, table, growth, pc, broken>>

Has(k) ==
  /\ pc = "idle" /\ ~broken
  /\ op' = "has" /\ arg' = <<k, Null>> /\ reply' = Contains(k)
  /\ UNCHANGED <<kind, table, growth, pc, broken>>

\* Seeded bug: the slot of a deleted key becomes empty.
DeletedSlotEmpty == Empty

DeletedSlot == Tombstone

Delete(k) ==
  /\ pc = "idle" /\ ~broken /\ kind \in DeletesFrom
  /\ op' = "delete" /\ arg' = <<k, Null>> /\ reply' = Contains(k)
  /\ IF Contains(k)
     THEN \E n \in Hits(k) :
            /\ First(Hits(k), n)
            /\ slots' = [slots EXCEPT ![Probe(k, n)] = DeletedSlot]
            /\ count' = count - 1
     ELSE UNCHANGED <<slots, count>>
  /\ UNCHANGED <<kind, cap, growth, pc, broken>>

Next ==
  \/ GrowMove \/ GrowEnd \/ AddInsert
  \/ \E k \in Keys : Get(k) \/ Has(k) \/ Delete(k) \/ \E v \in Values : Add(k, v)

Spec == Init /\ [][Next]_mapvars

-----------------------------------------------------------------------------
(* Properties.                                                              *)

\* A key that is in the table is in one slot, and no deletion or growth has left an
\* empty slot between the key's own slot and that one: every search finds it.
KeysAreFound ==
  \A i \in 0..(cap - 1) : Occupied(slots[i]) =>
    /\ \E n \in Hits(slots[i].key) : Probe(slots[i].key, n) = i
    /\ \A j \in 0..(cap - 1) : Occupied(slots[j]) /\ slots[j].key = slots[i].key => j = i

\* count is the number of keys, there is always room for one more without growing
\* twice, however many tombstones there are, and a search that fails never leads to a
\* write outside the arrays.
RoomForOneMore ==
  /\ count = Cardinality({i \in 0..(cap - 1) : Occupied(slots[i])})
  /\ pc # "idle" => ~Overloaded
  /\ count < cap
  /\ ~broken

\* The keys and values of a table, those that wait to be moved included.
Contents ==
  {slots[i] : i \in 0..(cap - 1)} \cup
  (IF pc = "grow" THEN {old[i] : i \in {j \in OldSlots : j >= moved}} ELSE {})
Stored(k) == {s \in Contents : Occupied(s) /\ s.key = k}

\* The table implements a map: an update replaces, a deletion removes, growing
\* changes nothing, and every answer is the map's.
Map == INSTANCE StringMap WITH
         map <- [k \in Keys |-> IF Stored(k) = {} THEN Absent
                                ELSE (CHOOSE s \in Stored(k) : TRUE).value]
ImplementsMap == Map!Spec
=============================================================================
