---------------------------- MODULE StrMapProofs ----------------------------
(***************************************************************************)
(* Proofs about StrMap, for any keys and hash function.  A key in the table *)
(* is in one slot and every search gets there, in any order of the probes.  *)
(* With capacities that are powers of two there is room for one more key,   *)
(* and the operations of a map are those of StringMap.                      *)
(***************************************************************************)
EXTENDS StrMap, FiniteSetTheorems, TLAPS

\* The types the argument needs, and that nothing is deleted from a set.
SlotsTyped ==
  /\ cap \in Nat
  /\ slots \in [0..(cap - 1) -> Slots]
  /\ \A i \in DOMAIN old : old[i] \in Slots
  /\ pc # "idle" => arg \in Keys \X Values

TInv == SlotsTyped /\ (kind = "set" => \A i \in 0..(cap - 1) : slots[i] # Tombstone)

IInv == TInv /\ KeysAreFound

\* The three kinds of slots can be told apart.
LEMMA SlotKinds ==
  /\ Empty.state = "empty" /\ Tombstone.state = "tombstone"
  /\ ~Occupied(Empty) /\ ~Occupied(Tombstone) /\ Empty # Tombstone
  /\ \A k \in Keys, v \in Values :
       /\ Full(k, v) \in Slots /\ Full(k, v) # Empty /\ Full(k, v) # Tombstone
       /\ Occupied(Full(k, v)) /\ Full(k, v).key = k /\ Full(k, v).value = v
  /\ \A s \in Slots : /\ Occupied(s) => s.key \in Keys /\ s.value \in Values
                      /\ ~Occupied(s) => s \in {Empty, Tombstone}
<1>1. /\ Empty.state = "empty" /\ Tombstone.state = "tombstone"
      /\ ~Occupied(Empty) /\ ~Occupied(Tombstone)
  BY DEF Empty, Tombstone, Occupied
<1>2. ASSUME NEW k \in Keys, NEW v \in Values
      PROVE  /\ Full(k, v) \in Slots
             /\ Full(k, v).state = "occupied" /\ Full(k, v).key = k /\ Full(k, v).value = v
  BY DEF Full, Slots
<1>3. ASSUME NEW s \in Slots
      PROVE  /\ Occupied(s) => s.key \in Keys /\ s.value \in Values
             /\ ~Occupied(s) => s \in {Empty, Tombstone}
  BY <1>1 DEF Slots, Occupied
<1>4. Empty # Tombstone
  BY <1>1
<1>5. ASSUME NEW k \in Keys, NEW v \in Values
      PROVE  Full(k, v) # Empty /\ Full(k, v) # Tombstone /\ Occupied(Full(k, v))
  BY <1>1, <1>2 DEF Occupied
<1> QED
  BY <1>1, <1>2, <1>3, <1>4, <1>5

\* Searches depend on nothing but the slots.
LEMMA SameSearch ==
  ASSUME UNCHANGED <<cap, slots>>
  PROVE  KeysAreFound => KeysAreFound'
<1>1. \A k, n : Probe(k, n)' = Probe(k, n)
  BY DEF Probe
<1>2. \A k, n : At(k, n)' = At(k, n)
  BY <1>1 DEF At
<1>3. \A k, n : Reached(k, n)' <=> Reached(k, n)
  BY <1>2 DEF Reached
<1>4. \A k : Hits(k)' = Hits(k)
  BY <1>2, <1>3 DEF Hits
<1> QED
  BY <1>1, <1>4 DEF KeysAreFound

\* One slot changes and is not empty after it: a key in another slot is still found.
LEMMA OthersStayFound ==
  ASSUME TInv, KeysAreFound, cap' = cap,
         NEW x \in 0..(cap - 1), NEW s, s # Empty, slots' = [slots EXCEPT ![x] = s],
         NEW i \in 0..(cap - 1), i # x, Occupied(slots[i])
  PROVE  (\E n \in Hits(slots[i].key) : Probe(slots[i].key, n) = i)'
<1> DEFINE k == slots[i].key
<1>1. PICK n \in Hits(k) : Probe(k, n) = i
  BY DEF KeysAreFound
<1>2. n \in 0..(cap - 1) /\ Reached(k, n) /\ \A m : Probe(k, m)' = Probe(k, m)
  <2>1. n \in 0..(cap - 1) /\ Reached(k, n)
    BY <1>1 DEF Hits
  <2>2. \A m : Probe(k, m)' = Probe(k, m)
    BY DEF Probe
  <2> QED
    BY <2>1, <2>2
<1>3. ASSUME NEW y, slots[y] # Empty PROVE slots'[y] # Empty
  BY <1>3 DEF TInv, SlotsTyped
<1>4. \A j \in 0..(n - 1) : slots'[Probe(k, j)] # Empty
  BY <1>2, <1>3 DEF Reached, At
<1>5. slots'[i] = slots[i]
  BY DEF TInv, SlotsTyped
<1>6. n \in Hits(k)'
  BY <1>1, <1>2, <1>4, <1>5 DEF Hits, Reached, At
<1> QED
  BY <1>1, <1>2, <1>6

\* Wherever a new key goes, no other slot holds it.
LEMMA CandidateIsOnly ==
  ASSUME TInv, KeysAreFound, NEW k \in Keys, NEW n \in Candidates(k), First(Candidates(k), n),
         Probe(k, n) \in 0..(cap - 1),
         NEW j \in 0..(cap - 1), Occupied(slots[j]), slots[j].key = k
  PROVE  j = Probe(k, n)
<1>1. PICK m \in Hits(k) : Probe(k, m) = j
  BY DEF KeysAreFound
<1>2. CASE n \in Hits(k)
  BY <1>2 DEF Hits, At, KeysAreFound
<1>3. CASE n \notin Hits(k)
  <2>1. kind = "set" /\ n \in Free(k) /\ m \in Candidates(k)
    BY <1>1, <1>3 DEF Candidates
  <2>2. /\ n \in 0..(cap - 1) /\ m \in 0..(cap - 1) /\ n <= m /\ n # m
        /\ Reached(k, m) /\ ~Occupied(At(k, n))
    BY <1>1, <1>3, <2>1 DEF First, Hits, Free
  <2>3. At(k, n) # Empty
    BY <2>2 DEF Reached, TInv, SlotsTyped
  <2>4. At(k, n) \in Slots /\ At(k, n) # Tombstone
    BY <2>1 DEF TInv, SlotsTyped, At
  <2> QED
    BY <2>2, <2>3, <2>4, SlotKinds
<1> QED
  BY <1>2, <1>3

\* Insert, in a table of either kind, keeps what the invariant says of the slots.
LEMMA InsertKeeps ==
  ASSUME TInv, KeysAreFound, NEW k \in Keys, NEW v \in Values, Insert(k, v),
         UNCHANGED <<cap, kind>>
  PROVE  /\ KeysAreFound' /\ slots' \in [0..(cap - 1) -> Slots]
         /\ kind = "set" => \A i \in 0..(cap - 1) : slots'[i] # Tombstone
<1>1. CASE slots' = slots
  BY <1>1, SameSearch DEF TInv, SlotsTyped
<1>2. CASE slots' # slots
  <2>1. PICK n \in Candidates(k) : /\ First(Candidates(k), n)
                                   /\ slots' = [slots EXCEPT ![Probe(k, n)] = Full(k, v)]
    BY <1>2 DEF Insert
  <2> DEFINE x == Probe(k, n)
  <2>2. x \in 0..(cap - 1)
    BY <1>2, <2>1 DEF TInv, SlotsTyped
  <2>3. /\ slots'[x] = Full(k, v)
        /\ \A i \in 0..(cap - 1) : i # x => slots'[i] = slots[i]
    BY <2>1, <2>2 DEF TInv, SlotsTyped
  <2>4. /\ Full(k, v) \in Slots /\ Full(k, v) # Empty /\ Full(k, v) # Tombstone
        /\ Full(k, v).key = k
    BY SlotKinds
  <2>5. /\ slots' \in [0..(cap - 1) -> Slots]
        /\ kind = "set" => \A i \in 0..(cap - 1) : slots'[i] # Tombstone
    BY <2>1, <2>3, <2>4 DEF TInv, SlotsTyped
  <2>6. ASSUME NEW i \in 0..(cap - 1), NEW j \in 0..(cap - 1), Occupied(slots'[i]),
               Occupied(slots'[j]), slots'[j].key = slots'[i].key
        PROVE  j = i
    <3>1. \A y \in 0..(cap - 1) : y # x /\ Occupied(slots[y]) => slots[y].key # k
      BY <2>1, <2>2, CandidateIsOnly
    <3>2. CASE i = x \/ j = x
      BY <2>3, <2>4, <2>6, <3>1, <3>2
    <3>3. CASE i # x /\ j # x
      BY <2>3, <2>6, <3>3 DEF KeysAreFound
    <3> QED
      BY <3>2, <3>3
  <2>7. ASSUME NEW i \in 0..(cap - 1), Occupied(slots'[i])
        PROVE  (\E m \in Hits(slots[i].key) : Probe(slots[i].key, m) = i)'
    <3>1. CASE i # x
      BY <2>1, <2>2, <2>3, <2>4, <2>7, <3>1, OthersStayFound
    <3>2. CASE i = x
      <4>1. n \in 0..(cap - 1) /\ Reached(k, n)
        BY <2>1 DEF Candidates, Hits, Free
      <4>2. \A j \in 0..(n - 1) : slots'[Probe(k, j)] # Empty
        <5>1. \A y : slots[y] # Empty => slots'[y] # Empty
          BY <2>1, <2>4 DEF TInv, SlotsTyped
        <5> QED
          BY <4>1, <5>1 DEF Reached, At
      <4>3. \A m : Probe(k, m)' = Probe(k, m)
        BY DEF Probe
      <4>4. n \in Hits(k)'
        BY <2>3, <2>4, <2>7, <3>2, <4>1, <4>2, <4>3 DEF Hits, Reached, At
      <4> QED
        BY <2>3, <2>4, <3>2, <4>3, <4>4
    <3> QED
      BY <3>1, <3>2
  <2> QED
    BY <2>5, <2>6, <2>7 DEF KeysAreFound
<1> QED
  BY <1>1, <1>2

\* A tombstone in the slot of a key hides no other key.
LEMMA DeleteKeeps ==
  ASSUME TInv, KeysAreFound, NEW k \in Keys, NEW n \in Hits(k),
         slots' = [slots EXCEPT ![Probe(k, n)] = Tombstone], UNCHANGED cap
  PROVE  KeysAreFound' /\ slots' \in [0..(cap - 1) -> Slots]
<1> DEFINE x == Probe(k, n)
<1>1. Tombstone \in Slots /\ ~Occupied(Tombstone) /\ Tombstone # Empty
  BY SlotKinds DEF Slots
<1>2. slots' \in [0..(cap - 1) -> Slots]
  BY <1>1 DEF TInv, SlotsTyped
<1>3. ASSUME NEW i \in 0..(cap - 1), Occupied(slots'[i])
      PROVE  i # x /\ slots'[i] = slots[i]
  BY <1>1, <1>3 DEF TInv, SlotsTyped
<1>4. ASSUME NEW i \in 0..(cap - 1), NEW j \in 0..(cap - 1), Occupied(slots'[i]),
             Occupied(slots'[j]), slots'[j].key = slots'[i].key
      PROVE  j = i
  BY <1>3, <1>4 DEF KeysAreFound
<1>5. ASSUME NEW i \in 0..(cap - 1), Occupied(slots'[i])
      PROVE  (\E m \in Hits(slots[i].key) : Probe(slots[i].key, m) = i)'
  <2>1. i # x /\ slots'[i] = slots[i] /\ Occupied(slots[i])
    BY <1>3, <1>5
  <2>2. CASE x \in 0..(cap - 1)
    BY <1>1, <2>1, <2>2, OthersStayFound
  <2>3. CASE x \notin 0..(cap - 1)
    <3>1. slots' = slots
      BY <2>3 DEF TInv, SlotsTyped
    <3> QED
      BY <1>5, <3>1, SameSearch DEF KeysAreFound
  <2> QED
    BY <2>2, <2>3
<1> QED
  BY <1>2, <1>4, <1>5 DEF KeysAreFound

-----------------------------------------------------------------------------
(* The invariant.                                                           *)

\* Steps that leave the slots alone.
LEMMA SlotsSame ==
  ASSUME IInv, UNCHANGED <<cap, slots, kind>>
  PROVE  /\ KeysAreFound' /\ slots' \in [0..(cap - 1) -> Slots]
         /\ kind = "set" => \A i \in 0..(cap - 1) : slots'[i] # Tombstone
BY SameSearch DEF IInv, TInv, SlotsTyped

LEMMA InitIInv == Init => IInv
<1> SUFFICES ASSUME Init PROVE IInv
  OBVIOUS
<1>1. cap \in Nat /\ \A i \in 0..(cap - 1) : slots[i] = Empty
  BY TableAssumption DEF Init, EmptySlots
<1>2. slots \in [0..(cap - 1) -> Slots] /\ \A i \in DOMAIN old : old[i] \in Slots
  BY TableAssumption DEF Init, EmptySlots, Slots
<1>3. TInv
  BY <1>1, <1>2, SlotKinds DEF Init, TInv, SlotsTyped
<1>4. KeysAreFound
  BY <1>1, SlotKinds DEF KeysAreFound
<1> QED
  BY <1>3, <1>4 DEF IInv

LEMMA NextIInv ==
  ASSUME DeletesFrom \subseteq {"map"}
  PROVE  IInv /\ [Next]_mapvars => IInv'
<1> SUFFICES ASSUME IInv, [Next]_mapvars PROVE IInv'
  OBVIOUS
<1>0. TInv /\ KeysAreFound
  BY DEF IInv
<1>1. CASE GrowMove
  <2>1. \/ UNCHANGED slots
        \/ Insert(old[moved].key, old[moved].value) /\ Occupied(old[moved])
    BY <1>1 DEF GrowMove
  <2>2. UNCHANGED <<cap, kind, old, arg, pc>> /\ old[moved] \in Slots
    BY <1>0, <1>1 DEF GrowMove, OldSlots, TInv, SlotsTyped
  <2>3. /\ KeysAreFound' /\ slots' \in [0..(cap - 1) -> Slots]
        /\ kind = "set" => \A i \in 0..(cap - 1) : slots'[i] # Tombstone
    BY <1>0, <2>1, <2>2, SlotKinds, InsertKeeps, SlotsSame
  <2> QED
    BY <1>0, <2>2, <2>3 DEF IInv, TInv, SlotsTyped
<1>2. CASE GrowEnd
  <2>1. pc # "idle" /\ UNCHANGED <<cap, kind, slots, arg>> /\ DOMAIN old' = {}
    BY <1>2 DEF GrowEnd, table, EmptySlots
  <2> QED
    BY <1>0, <2>1, SlotsSame DEF IInv, TInv, SlotsTyped
<1>3. CASE AddInsert
  <2>1. /\ Insert(arg[1], arg[2]) /\ arg[1] \in Keys /\ arg[2] \in Values
        /\ UNCHANGED <<cap, kind, old>> /\ pc' = "idle"
    BY <1>0, <1>3 DEF AddInsert, growth, TInv, SlotsTyped
  <2> QED
    BY <1>0, <2>1, InsertKeeps DEF IInv, TInv, SlotsTyped
<1>4. ASSUME NEW k \in Keys, NEW v \in Values, Add(k, v) PROVE IInv'
  <2>1. arg' \in Keys \X Values /\ kind' = kind
    BY <1>4 DEF Add
  <2>2. CASE Overloaded
    <3>1. /\ cap' = 2 * cap /\ slots' = EmptySlots(2 * cap) /\ old' = slots
      BY <1>4, <2>2 DEF Add
    <3>2. cap' \in Nat /\ \A i \in 0..(cap' - 1) : slots'[i] = Empty
      BY <1>0, <3>1 DEF TInv, SlotsTyped, EmptySlots
    <3>3. slots' \in [0..(cap' - 1) -> Slots]
      BY <3>1 DEF EmptySlots, Slots
    <3>4. TInv'
      BY <1>0, <2>1, <3>1, <3>2, <3>3, SlotKinds DEF TInv, SlotsTyped
    <3>5. KeysAreFound'
      BY <3>2, SlotKinds DEF KeysAreFound
    <3> QED
      BY <3>4, <3>5 DEF IInv
  <2>3. CASE ~Overloaded
    <3>1. UNCHANGED <<cap, slots, old>>
      BY <1>4, <2>3 DEF Add, table, growth
    <3> QED
      BY <1>0, <2>1, <3>1, SlotsSame DEF IInv, TInv, SlotsTyped
  <2> QED
    BY <2>2, <2>3
<1>5. ASSUME NEW k \in Keys, Delete(k) PROVE IInv'
  <2>1. kind = "map" /\ pc = "idle" /\ UNCHANGED <<kind, cap, old, pc>>
    BY <1>5 DEF Delete, growth
  <2>2. \/ UNCHANGED slots
        \/ \E n \in Hits(k) : slots' = [slots EXCEPT ![Probe(k, n)] = Tombstone]
    BY <1>5 DEF Delete, DeletedSlot
  <2>3. KeysAreFound' /\ slots' \in [0..(cap - 1) -> Slots]
    BY <1>0, <2>1, <2>2, DeleteKeeps, SlotsSame
  <2> QED
    BY <1>0, <2>1, <2>3 DEF IInv, TInv, SlotsTyped
<1>6. CASE UNCHANGED <<kind, cap, slots, old, pc>> /\ (pc = "idle" \/ UNCHANGED arg)
  BY <1>0, <1>6, SlotsSame DEF IInv, TInv, SlotsTyped
<1>7. ASSUME NEW k \in Keys, Get(k) \/ Has(k) PROVE IInv'
  BY <1>6, <1>7 DEF Get, Has, table, growth
<1>8. CASE UNCHANGED mapvars
  BY <1>6, <1>8 DEF mapvars, table, growth
<1> QED
  BY <1>1, <1>2, <1>3, <1>4, <1>5, <1>7, <1>8 DEF Next

\* Every key in a table is found by the search for it and is in one slot only,
\* through updates, deletions from maps and growth, for any hash function and any
\* capacity: strmap_get, strmap_has and strmap_delete never miss a key.
THEOREM KeysAreFoundCorrect ==
  ASSUME DeletesFrom \subseteq {"map"}
  PROVE  Spec => []KeysAreFound
<1>1. IInv /\ [Next]_mapvars => IInv'
  BY NextIInv
<1>2. IInv => KeysAreFound
  BY DEF IInv
<1> QED
  BY InitIInv, <1>1, <1>2, PTL DEF Spec

-----------------------------------------------------------------------------
(* Recursion over the numbers.                                              *)

\* A set of numbers has a least one.
LEMMA LeastNumber ==
  ASSUME NEW T, T \subseteq Nat, T # {} PROVE \E x \in T : \A y \in T : x <= y
<1> DEFINE R == OpToRel(<, Nat)
<1>1. IsWellFoundedOn(R, Nat)
  BY NatLessThanWellFounded
<1>2. \A x, y \in Nat : x < y => <<x, y>> \in R
  BY DEF OpToRel
<1> HIDE DEF R
<1>3. PICK x \in T : \A y \in T : ~(<<y, x>> \in R)
  BY <1>1, WFMin, Zenon
<1>4. ASSUME NEW y \in T PROVE x <= y
  <2>1. x \in Nat /\ y \in Nat
    OBVIOUS
  <2>2. ~(y < x)
    BY <1>2, <1>3, <2>1, Zenon
  <2> QED
    BY <2>1, <2>2
<1> QED
  BY <1>4

\* What the definition of BitAnd makes of x, for f in its place.
Row(f, x) ==
  [y \in Nat |-> IF x = 0 THEN 0
                 ELSE 2 * f[x \div 2][y \div 2] + (IF x % 2 = 1 /\ y % 2 = 1 THEN 1 ELSE 0)]

Solves(n, f) == f = [x \in 0..n |-> Row(f, x)]

LEMMA RowUses ==
  ASSUME NEW f, NEW g, NEW x \in Nat, x # 0 => f[x \div 2] = g[x \div 2] PROVE Row(f, x) = Row(g, x)
<1>1. CASE x = 0
  BY <1>1 DEF Row
<1>2. CASE x # 0
  BY <1>2 DEF Row
<1> QED
  BY <1>1, <1>2

LEMMA Halves ==
  \A x \in Nat : /\ x \div 2 \in Nat /\ (x # 0 => x \div 2 < x)
                 /\ x % 2 \in {0, 1} /\ x = 2 * (x \div 2) + (x % 2)
OBVIOUS

LEMMA SolutionsAgree ==
  ASSUME NEW n \in Nat, NEW m \in Nat, NEW f, NEW g, Solves(n, f), Solves(m, g),
         NEW z \in 0..n, z \in 0..m
  PROVE  f[z] = g[z]
<1> DEFINE T == {x \in Nat : x <= n /\ x <= m /\ f[x] # g[x]}
<1> SUFFICES ASSUME f[z] # g[z] PROVE FALSE
  OBVIOUS
<1>1. z \in T
  OBVIOUS
<1>2. PICK x \in T : \A y \in T : x <= y
  BY <1>1, LeastNumber
<1>3. x \in 0..n /\ x \in 0..m
  OBVIOUS
<1>4. ASSUME x # 0 PROVE f[x \div 2] = g[x \div 2]
  <2>1. x \div 2 \notin T /\ x \div 2 \in Nat /\ x \div 2 <= n /\ x \div 2 <= m
    BY <1>2, <1>3, <1>4, Halves
  <2> QED
    BY <2>1
<1>5. Row(f, x) = Row(g, x)
  BY <1>4, RowUses
<1>6. f[x] = Row(f, x) /\ g[x] = Row(g, x)
  BY <1>3 DEF Solves
<1> QED
  BY <1>5, <1>6

LEMMA SolutionExists ==
  ASSUME NEW n \in Nat PROVE \E f : Solves(n, f)
<1> DEFINE T == {x \in Nat : ~ \E f : Solves(x, f)}
<1> SUFFICES ASSUME T # {} PROVE FALSE
  OBVIOUS
<1>1. PICK x \in T : \A y \in T : x <= y
  BY LeastNumber
<1>2. CASE x = 0
  <2> DEFINE f == [z \in 0..0 |-> Row(0, 0)]
  <2>1. \A z \in 0..0 : Row(f, z) = Row(0, 0)
    BY RowUses
  <2>2. f = [z \in 0..0 |-> Row(f, z)]
    BY <2>1
  <2>3. Solves(0, f)
    BY <2>2 DEF Solves
  <2> QED
    BY <1>2, <2>3
<1>3. CASE x # 0
  <2>1. x - 1 \in Nat /\ x - 1 \notin T
    BY <1>1, <1>3
  <2>2. PICK g : Solves(x - 1, g)
    BY <2>1
  <2> DEFINE f == [z \in 0..x |-> Row(g, z)]
  <2>3. \A z \in 0..(x - 1) : f[z] = g[z]
    BY <2>2 DEF Solves
  <2>4. ASSUME NEW z \in 0..x PROVE Row(f, z) = Row(g, z)
    <3>1. z # 0 => z \div 2 \in 0..(x - 1)
      BY Halves
    <3> QED
      BY <2>3, <3>1, RowUses
  <2>5. f = [z \in 0..x |-> Row(f, z)]
    BY <2>4
  <2>6. Solves(x, f)
    BY <2>5 DEF Solves
  <2> QED
    BY <2>6
<1> QED
  BY <1>2, <1>3

LEMMA BitAndIs ==
  /\ \A y \in Nat : BitAnd[0][y] = 0
  /\ \A x, y \in Nat : x # 0 =>
       BitAnd[x][y] = 2 * BitAnd[x \div 2][y \div 2] + (IF x % 2 = 1 /\ y % 2 = 1 THEN 1 ELSE 0)
<1> DEFINE S(x) == CHOOSE f : Solves(x, f)
           F == [x \in Nat |-> S(x)[x]]
<1>1. \A x \in Nat : Solves(x, S(x))
  BY SolutionExists
<1> HIDE DEF S
<1>2. ASSUME NEW x \in Nat PROVE F[x] = Row(F, x)
  <2>1. S(x)[x] = Row(S(x), x)
    BY <1>1 DEF Solves
  <2>2. ASSUME x # 0 PROVE S(x)[x \div 2] = F[x \div 2]
    <3>1. x \div 2 \in Nat /\ x \div 2 \in 0..x /\ x \div 2 \in 0..(x \div 2)
      BY <2>2, Halves
    <3> QED
      BY <1>1, <3>1, SolutionsAgree
  <2> QED
    BY <2>1, <2>2, RowUses
<1>3. F = [x \in Nat |-> Row(F, x)]
  BY <1>2
<1>4. BitAnd = CHOOSE f : f = [x \in Nat |-> Row(f, x)]
  BY DEF BitAnd, Row
<1>5. BitAnd = [x \in Nat |-> Row(BitAnd, x)]
  BY <1>3, <1>4
<1>6. \A x \in Nat : BitAnd[x] = Row(BitAnd, x)
  BY <1>5
<1>7. ASSUME NEW x \in Nat, NEW y \in Nat
      PROVE  BitAnd[x][y] = IF x = 0 THEN 0
               ELSE 2 * BitAnd[x \div 2][y \div 2] + (IF x % 2 = 1 /\ y % 2 = 1 THEN 1 ELSE 0)
  <2>1. BitAnd[x][y] = Row(BitAnd, x)[y]
    BY <1>6
  <2> QED
    BY <2>1 DEF Row
<1> QED
  BY <1>7

-----------------------------------------------------------------------------
(* The probes.                                                              *)

PowersOfTwo ==
  {c \in Nat : \A S \in SUBSET Nat : 1 \in S /\ (\A x \in S : 2 * x \in S) => c \in S}

\* For a power of two the mask makes every hash an index, leaves an index as it is
\* and wraps the first number that is none around.
Masks(c) ==
  /\ c > 0
  /\ \A x \in Nat : BitAnd[x][c - 1] \in 0..(c - 1) /\ (x < c => BitAnd[x][c - 1] = x)
  /\ BitAnd[c][c - 1] = 0

LEMMA MaskOfOne == Masks(1)
<1> DEFINE T == {x \in Nat : BitAnd[x][0] # 0}
<1>1. T = {}
  <2> SUFFICES ASSUME T # {} PROVE FALSE
    OBVIOUS
  <2>1. PICK x \in T : \A y \in T : x <= y
    BY LeastNumber
  <2>2. x # 0 /\ x \in Nat
    BY BitAndIs
  <2>3. x \div 2 \in Nat /\ x \div 2 < x
    BY <2>2, Halves
  <2>4. x \div 2 \notin T
    BY <2>1, <2>2, <2>3
  <2>5. BitAnd[x][0] = 2 * BitAnd[x \div 2][0 \div 2] + (IF x % 2 = 1 /\ 0 % 2 = 1 THEN 1 ELSE 0)
    BY <2>2, BitAndIs
  <2>6. 0 \div 2 = 0 /\ 0 % 2 = 0
    OBVIOUS
  <2>7. BitAnd[x][0] = 0
    BY <2>3, <2>4, <2>5, <2>6
  <2> QED
    BY <2>7
<1>2. \A x \in Nat : BitAnd[x][0] = 0
  BY <1>1
<1>3. 1 - 1 = 0
  OBVIOUS
<1> QED
  BY <1>2, <1>3 DEF Masks

LEMMA MaskOfDouble ==
  ASSUME NEW c \in Nat, Masks(c) PROVE Masks(2 * c)
<1>1. c > 0 /\ (2 * c - 1) \div 2 = c - 1 /\ (2 * c - 1) % 2 = 1 /\ 2 * c - 1 \in Nat /\ c - 1 \in Nat
  BY DEF Masks
<1>2. ASSUME NEW x \in Nat, x # 0
      PROVE  BitAnd[x][2 * c - 1] = 2 * BitAnd[x \div 2][c - 1] + (x % 2)
  <2>1. BitAnd[x][2 * c - 1] =
          2 * BitAnd[x \div 2][(2 * c - 1) \div 2] + (IF x % 2 = 1 /\ (2 * c - 1) % 2 = 1 THEN 1 ELSE 0)
    BY <1>1, <1>2, BitAndIs
  <2>2. x % 2 \in {0, 1}
    BY Halves
  <2>3. (IF x % 2 = 1 /\ (2 * c - 1) % 2 = 1 THEN 1 ELSE 0) = x % 2
    BY <1>1, <2>2
  <2> QED
    BY <1>1, <2>1, <2>3
<1>3. ASSUME NEW x \in Nat
      PROVE  BitAnd[x][2 * c - 1] \in 0..(2 * c - 1) /\ (x < 2 * c => BitAnd[x][2 * c - 1] = x)
  <2>1. CASE x = 0
    <3>1. BitAnd[x][2 * c - 1] = 0
      BY <1>1, <2>1, BitAndIs
    <3> QED
      BY <1>1, <2>1, <3>1
  <2>2. CASE x # 0
    <3> DEFINE h == x \div 2  b == x % 2  m == BitAnd[h][c - 1]
    <3>1. h \in Nat /\ b \in {0, 1} /\ x = 2 * h + b
      BY Halves
    <3>2. m \in 0..(c - 1) /\ (h < c => m = h)
      BY <3>1 DEF Masks
    <3>3. BitAnd[x][2 * c - 1] = 2 * m + b
      BY <1>2, <2>2
    <3> HIDE DEF h, b, m
    <3> QED
      BY <1>1, <3>1, <3>2, <3>3
  <2> QED
    BY <2>1, <2>2
<1>4. BitAnd[2 * c][2 * c - 1] = 0
  <2>1. 2 * c \in Nat /\ 2 * c # 0 /\ (2 * c) \div 2 = c /\ (2 * c) % 2 = 0
    BY <1>1
  <2>2. BitAnd[2 * c][2 * c - 1] = 2 * BitAnd[c][c - 1] + 0
    BY <1>2, <2>1
  <2> QED
    BY <2>2 DEF Masks
<1> QED
  BY <1>1, <1>3, <1>4 DEF Masks

LEMMA MaskOfPower ==
  ASSUME NEW c \in PowersOfTwo PROVE Masks(c)
<1> DEFINE S == {x \in Nat : Masks(x)}
<1>1. 1 \in S
  BY MaskOfOne
<1>2. \A x \in S : 2 * x \in S
  BY MaskOfDouble
<1>3. c \in S
  BY <1>1, <1>2 DEF PowersOfTwo
<1> QED
  BY <1>3

\* The search for a key looks at every slot.
LEMMA ProbesCover ==
  ASSUME NEW c \in PowersOfTwo, NEW h \in Nat
  PROVE  /\ \A n \in 0..(c - 1) : ProbeIn(c, h)[n] \in 0..(c - 1)
         /\ \A i \in 0..(c - 1) : \E n \in 0..(c - 1) : ProbeIn(c, h)[n] = i
<1>1. Masks(c) /\ c \in Nat /\ c > 0
  BY MaskOfPower DEF PowersOfTwo, Masks
<1> DEFINE s == BitAnd[h][c - 1]
           Probes(f) == [n \in 0..(c - 1) |-> IF n = 0 THEN BitAnd[h][c - 1] ELSE BitAnd[f[n - 1] + 1][c - 1]]
           w(n) == IF s + n < c THEN s + n ELSE s + n - c
           W == [n \in 0..(c - 1) |-> w(n)]
<1>2. s \in 0..(c - 1)
  BY <1>1 DEF Masks
<1>3. \A x \in Nat : (x < c => BitAnd[x][c - 1] = x) /\ (x = c => BitAnd[x][c - 1] = 0)
  BY <1>1 DEF Masks
<1>4. \A n \in 0..(c - 1) : w(n) \in 0..(c - 1)
  <2> HIDE DEF s
  <2> QED BY <1>1, <1>2
<1>5. ASSUME NEW n \in 0..(c - 1), n # 0 PROVE w(n) = BitAnd[w(n - 1) + 1][c - 1]
  <2> HIDE DEF s
  <2>1. n - 1 \in 0..(c - 1) /\ w(n - 1) \in 0..(c - 1)
    BY <1>1, <1>4, <1>5
  <2>2. w(n - 1) + 1 = IF s + n <= c THEN s + n ELSE s + n - c
    BY <1>1, <1>2, <1>5
  <2>3. w(n - 1) + 1 \in Nat
    BY <2>1
  <2>4. CASE w(n - 1) + 1 < c
    <3>1. w(n) = w(n - 1) + 1
      BY <1>1, <1>2, <2>2, <2>4
    <3> QED
      BY <1>3, <2>3, <2>4, <3>1
  <2>5. CASE ~(w(n - 1) + 1 < c)
    <3>1. w(n) = 0 /\ w(n - 1) + 1 = c
      BY <1>1, <1>2, <2>1, <2>2, <2>5
    <3> QED
      BY <1>3, <2>3, <3>1
  <2> QED
    BY <2>4, <2>5
<1>6. W = Probes(W)
  <2>1. w(0) = s
    <3> HIDE DEF s
    <3> QED BY <1>1, <1>2
  <2>2. ASSUME NEW n \in 0..(c - 1)
        PROVE  w(n) = IF n = 0 THEN BitAnd[h][c - 1] ELSE BitAnd[W[n - 1] + 1][c - 1]
    <3>1. CASE n = 0
      BY <2>1, <3>1
    <3>2. CASE n # 0
      <4>1. W[n - 1] = w(n - 1)
        BY <1>1, <3>2
      <4> HIDE DEF W, w
      <4> QED BY <1>5, <3>2, <4>1
    <3> QED
      BY <3>1, <3>2
  <2> HIDE DEF w
  <2> QED
    BY <2>2
<1>7. ProbeIn(c, h) = CHOOSE f : f = Probes(f)
  BY DEF ProbeIn
<1> DEFINE F == ProbeIn(c, h)
<1> HIDE DEF F, W
<1>8. F = Probes(F)
  BY <1>6, <1>7 DEF F
<1>9. \A n \in 0..(c - 1) : F[n] = w(n)
  <2> DEFINE T == {n \in Nat : n <= c - 1 /\ F[n] # w(n)}
  <2> SUFFICES ASSUME T # {} PROVE FALSE
    BY <1>1
  <2>1. PICK n \in T : \A m \in T : n <= m
    BY LeastNumber
  <2>2. n \in 0..(c - 1)
    BY <1>1
  <2>3. F[n] = IF n = 0 THEN s ELSE BitAnd[F[n - 1] + 1][c - 1]
    BY <1>8, <2>2
  <2>4. CASE n = 0
    <3>1. w(0) = s
      <4> HIDE DEF s
      <4> QED BY <1>1, <1>2
    <3> HIDE DEF w, s
    <3> QED
      BY <2>1, <2>3, <2>4, <3>1
  <2>5. CASE n # 0
    <3> HIDE DEF w, s
    <3>1. n - 1 \in Nat /\ n - 1 <= c - 1 /\ n - 1 < n /\ n \in Nat
      BY <1>1, <2>2, <2>5
    <3>2. n - 1 \notin T
      <4> SUFFICES ASSUME n - 1 \in T PROVE FALSE
        OBVIOUS
      <4>1. n <= n - 1
        BY <2>1
      <4> QED
        BY <3>1, <4>1
    <3>3. F[n - 1] = w(n - 1)
      BY <3>1, <3>2
    <3> QED
      BY <1>5, <2>1, <2>2, <2>3, <2>5, <3>3
  <2> QED
    BY <2>4, <2>5
<1>10. ASSUME NEW i \in 0..(c - 1) PROVE \E n \in 0..(c - 1) : w(n) = i
  <2> HIDE DEF s
  <2>1. CASE i >= s
    <3>1. i - s \in 0..(c - 1) /\ w(i - s) = i
      BY <1>1, <1>2, <2>1
    <3> QED
      BY <3>1
  <2>2. CASE i < s
    <3>1. i - s + c \in 0..(c - 1) /\ w(i - s + c) = i
      BY <1>1, <1>2, <2>2
    <3> QED
      BY <3>1
  <2> QED
    BY <1>2, <2>1, <2>2
<1> QED
  <2> HIDE DEF w
  <2> QED BY <1>4, <1>9, <1>10 DEF F

-----------------------------------------------------------------------------
(* There is always room.                                                    *)

OccupiedSlots == {i \in 0..(cap - 1) : Occupied(slots[i])}

CapacityOK == cap \in PowersOfTwo /\ cap \in 4..MaxCap

CountOK == count = Cardinality(OccupiedSlots) /\ count < cap

\* While a table grows it is twice as long as the old one, and holds at most the
\* keys of the old slots seen.
Growing ==
  pc = "grow" => \E n \in Nat :
    cap = 2 * n /\ DOMAIN old = 0..(n - 1) /\ moved \in 0..n /\ count <= moved

RInv ==
  /\ SlotsTyped /\ CapacityOK /\ CountOK /\ Growing /\ ~broken
  /\ pc \in {"idle", "grow", "insert"}
  /\ pc = "insert" => ~Overloaded

\* The probes of a key go through the whole table.
LEMMA ProbeFacts ==
  ASSUME CapacityOK, NEW k \in Keys
  PROVE  /\ \A n \in 0..(cap - 1) : Probe(k, n) \in 0..(cap - 1)
         /\ \A i \in 0..(cap - 1) : \E n \in 0..(cap - 1) : Probe(k, n) = i
<1>1. cap \in 1..MaxCap /\ HashOf[k] \in Nat
  BY TableAssumption DEF CapacityOK
<1>2. \A n : Probe(k, n) = ProbeIn(cap, HashOf[k])[n]
  BY <1>1 DEF Probe, ProbeTable
<1> DEFINE c == cap  h == HashOf[k]
<1>3. c \in PowersOfTwo /\ h \in Nat
  BY <1>1 DEF CapacityOK
<1> HIDE DEF c, h
<1>4. /\ \A n \in 0..(c - 1) : ProbeIn(c, h)[n] \in 0..(c - 1)
      /\ \A i \in 0..(c - 1) : \E n \in 0..(c - 1) : ProbeIn(c, h)[n] = i
  BY <1>3, ProbesCover
<1> QED
  BY <1>2, <1>4 DEF c, h

LEMMA OccupiedFinite ==
  ASSUME cap \in Nat PROVE IsFiniteSet(OccupiedSlots) /\ Cardinality(OccupiedSlots) \in Nat
<1>1. IsFiniteSet(0..(cap - 1))
  BY FS_Interval
<1>2. IsFiniteSet(OccupiedSlots)
  BY <1>1, FS_Subset DEF OccupiedSlots
<1> QED
  BY <1>2, FS_CardinalityType

\* A table with a slot that is not occupied has a place for every key.
LEMMA PlaceForKey ==
  ASSUME SlotsTyped, CapacityOK, CountOK, NEW k \in Keys
  PROVE  Candidates(k) # {} /\ \A n \in Candidates(k) : Probe(k, n) \in 0..(cap - 1)
<1>1. \E i \in 0..(cap - 1) : ~Occupied(slots[i])
  <2> SUFFICES ASSUME OccupiedSlots = 0..(cap - 1) PROVE FALSE
    BY DEF OccupiedSlots
  <2>1. Cardinality(0..(cap - 1)) = cap
    BY FS_Interval DEF CapacityOK
  <2> QED
    BY <2>1 DEF CountOK, CapacityOK
<1>2. PICK i \in 0..(cap - 1) : ~Occupied(slots[i])
  BY <1>1
<1>3. PICK l \in 0..(cap - 1) : Probe(k, l) = i
  BY ProbeFacts
<1> DEFINE T == {n \in 0..(cap - 1) : ~Occupied(At(k, n))}
<1>4. l \in T /\ T \subseteq Nat
  BY <1>2, <1>3 DEF At
<1>5. PICK n \in T : \A m \in T : n <= m
  BY <1>4, LeastNumber
<1>6. \A j \in 0..(n - 1) : Occupied(At(k, j))
  <2> SUFFICES ASSUME NEW j \in 0..(n - 1), ~Occupied(At(k, j)) PROVE FALSE
    OBVIOUS
  <2>1. n \in Nat /\ n <= cap - 1 /\ cap \in Nat
    BY DEF SlotsTyped
  <2>2. j \in 0..(cap - 1) /\ ~(n <= j)
    BY <2>1
  <2> QED
    BY <1>5, <2>2
<1>7. Reached(k, n)
  BY <1>6, SlotKinds DEF Reached
<1>8. n \in Free(k)
  BY <1>7 DEF Free
<1>9. Candidates(k) # {}
  BY <1>8 DEF Candidates
<1>10. Candidates(k) \subseteq 0..(cap - 1)
  BY DEF Candidates, Hits, Free
<1> QED
  BY <1>9, <1>10, ProbeFacts

\* A call of Insert finds a slot in the arrays and counts the key if it is new.
LEMMA InsertPlaces ==
  ASSUME SlotsTyped, CapacityOK, CountOK, NEW k \in Keys, NEW v \in Values, Insert(k, v), cap' = cap
  PROVE  /\ broken' = broken
         /\ slots' \in [0..(cap - 1) -> Slots]
         /\ count' = Cardinality(OccupiedSlots') /\ count' \in {count, count + 1}
         /\ \E n \in Candidates(k) :
              /\ First(Candidates(k), n) /\ Probe(k, n) \in 0..(cap - 1)
              /\ slots' = [slots EXCEPT ![Probe(k, n)] = Full(k, v)]
<1>1. PICK n \in Candidates(k) :
        /\ First(Candidates(k), n) /\ slots' = [slots EXCEPT ![Probe(k, n)] = Full(k, v)]
        /\ count' = IF Occupied(At(k, n)) THEN count ELSE count + 1
        /\ broken' = broken
  BY PlaceForKey DEF Insert
<1> DEFINE x == Probe(k, n)
<1>2. x \in 0..(cap - 1)
  BY PlaceForKey
<1>3. Full(k, v) \in Slots /\ Occupied(Full(k, v))
  BY SlotKinds
<1>4. slots' \in [0..(cap - 1) -> Slots]
  BY <1>1, <1>3 DEF SlotsTyped
<1>5. OccupiedSlots' = OccupiedSlots \cup {x}
  BY <1>1, <1>2, <1>3 DEF OccupiedSlots, SlotsTyped
<1>6. Occupied(At(k, n)) <=> x \in OccupiedSlots
  BY <1>2 DEF OccupiedSlots, At
<1>7. count' = Cardinality(OccupiedSlots')
  BY <1>1, <1>5, <1>6, OccupiedFinite, FS_AddElement DEF CountOK, SlotsTyped
<1> QED
  BY <1>1, <1>2, <1>4, <1>7

LEMMA InitRInv ==
  ASSUME InitialCaps \cup {DefaultCap} \subseteq PowersOfTwo PROVE Init => RInv
<1> SUFFICES ASSUME Init PROVE RInv
  OBVIOUS
<1>1. cap \in InitialCaps \cup {DefaultCap} /\ cap \in 4..MaxCap
  BY TableAssumption DEF Init
<1>2. slots \in [0..(cap - 1) -> Slots] /\ \A i \in 0..(cap - 1) : slots[i] = Empty
  BY DEF Init, EmptySlots, Slots
<1>3. \A i \in DOMAIN old : old[i] \in Slots
  BY DEF Init, EmptySlots, Slots
<1>4. OccupiedSlots = {}
  BY <1>2, SlotKinds DEF OccupiedSlots
<1>5. CountOK
  BY <1>1, <1>4, FS_EmptySet DEF CountOK, Init
<1> QED
  BY <1>1, <1>2, <1>3, <1>5 DEF Init, RInv, SlotsTyped, CapacityOK, Growing

LEMMA DoubleOfPower ==
  ASSUME NEW c \in PowersOfTwo PROVE 2 * c \in PowersOfTwo
BY DEF PowersOfTwo

LEMMA AddRInv ==
  ASSUME RInv, NEW k \in Keys, NEW v \in Values, Add(k, v) PROVE RInv'
<1>1. SlotsTyped /\ CapacityOK /\ CountOK /\ ~broken
  BY DEF RInv
<1>2. arg' \in Keys \X Values /\ broken' = broken
  BY DEF Add
<1>3. CASE Overloaded
  <2>1. /\ cap' = 2 * cap /\ slots' = EmptySlots(2 * cap) /\ old' = slots /\ pc' = "grow"
        /\ count' = 0 /\ moved' = 0 /\ 2 * cap <= MaxCap
    BY <1>3 DEF Add
  <2>2. CapacityOK'
    BY <1>1, <2>1, DoubleOfPower, TableAssumption DEF CapacityOK
  <2>3. slots' \in [0..(cap' - 1) -> Slots] /\ \A i \in 0..(cap' - 1) : slots'[i] = Empty
    BY <2>1 DEF EmptySlots, Slots
  <2>4. OccupiedSlots' = {}
    BY <2>3, SlotKinds DEF OccupiedSlots
  <2>5. CountOK'
    BY <2>1, <2>2, <2>4, FS_EmptySet DEF CountOK, CapacityOK
  <2>6. cap \in Nat /\ DOMAIN old' = 0..(cap - 1) /\ \A i \in DOMAIN old' : old'[i] \in Slots
    BY <1>1, <2>1 DEF SlotsTyped
  <2>7. Growing'
    BY <2>1, <2>6 DEF Growing
  <2>8. SlotsTyped'
    <3>1. cap' \in Nat
      BY <2>2 DEF CapacityOK
    <3>2. slots' \in [0..(cap' - 1) -> Slots]
      BY <2>3
    <3> QED
      BY <1>2, <2>6, <3>1, <3>2 DEF SlotsTyped
  <2> QED
    BY <1>1, <1>2, <2>1, <2>2, <2>5, <2>7, <2>8 DEF RInv
<1>4. CASE ~Overloaded
  <2>1. UNCHANGED <<cap, slots, count, old>> /\ pc' = "insert"
    BY <1>4 DEF Add, table, growth
  <2> QED
    BY <1>1, <1>2, <1>4, <2>1 DEF RInv, SlotsTyped, CapacityOK, CountOK, OccupiedSlots, Growing, Overloaded
<1> QED
  BY <1>3, <1>4

LEMMA DeleteRInv ==
  ASSUME RInv, NEW k \in Keys, Delete(k) PROVE RInv'
<1>1. SlotsTyped /\ CapacityOK /\ CountOK /\ ~broken
  BY DEF RInv
<1>2. pc = "idle" /\ UNCHANGED <<cap, old, pc, broken>>
  BY DEF Delete, growth
<1>3. CASE ~Contains(k)
  BY <1>1, <1>2, <1>3 DEF Delete, RInv, SlotsTyped, CapacityOK, CountOK, OccupiedSlots, Growing
<1>4. CASE Contains(k)
  <2>1. PICK n \in Hits(k) : slots' = [slots EXCEPT ![Probe(k, n)] = Tombstone] /\ count' = count - 1
    BY <1>4 DEF Delete, DeletedSlot
  <2> DEFINE x == Probe(k, n)
  <2>2. x \in 0..(cap - 1) /\ Occupied(slots[x])
    BY <1>1, ProbeFacts DEF Hits, At
  <2>3. Tombstone \in Slots /\ ~Occupied(Tombstone)
    BY SlotKinds DEF Slots
  <2>4. slots' \in [0..(cap - 1) -> Slots] /\ OccupiedSlots' = OccupiedSlots \ {x}
    BY <1>1, <1>2, <2>1, <2>2, <2>3 DEF SlotsTyped, OccupiedSlots
  <2>5. count' = Cardinality(OccupiedSlots')
    <3>1. x \in OccupiedSlots
      BY <2>2 DEF OccupiedSlots
    <3>2. IsFiniteSet(OccupiedSlots)
      BY <1>1, OccupiedFinite DEF SlotsTyped
    <3>3. Cardinality(OccupiedSlots \ {x}) = Cardinality(OccupiedSlots) - 1
      BY <3>1, <3>2, FS_RemoveElement
    <3> QED
      BY <1>1, <2>1, <2>4, <3>3 DEF CountOK
  <2>6. CountOK'
    BY <1>1, <1>2, <2>1, <2>5, OccupiedFinite DEF CountOK, CapacityOK, SlotsTyped
  <2> QED
    BY <1>1, <1>2, <2>4, <2>6 DEF RInv, SlotsTyped, CapacityOK, Growing
<1> QED
  BY <1>3, <1>4

LEMMA NextRInv == RInv /\ [Next]_mapvars => RInv'
<1> SUFFICES ASSUME RInv, [Next]_mapvars PROVE RInv'
  OBVIOUS
<1>0. SlotsTyped /\ CapacityOK /\ CountOK /\ ~broken /\ count \in Nat /\ cap \in Nat
  BY OccupiedFinite DEF RInv, CountOK, SlotsTyped
<1>1. CASE GrowMove
  <2>1. pc = "grow" /\ moved \in DOMAIN old /\ moved' = moved + 1 /\ UNCHANGED <<cap, old, pc, arg>>
    BY <1>1 DEF GrowMove, OldSlots
  <2>2. PICK n \in Nat : cap = 2 * n /\ DOMAIN old = 0..(n - 1) /\ moved \in 0..n /\ count <= moved
    BY <2>1 DEF RInv, Growing
  <2>3. /\ broken' = broken /\ slots' \in [0..(cap - 1) -> Slots]
        /\ count' = Cardinality(OccupiedSlots') /\ count' \in {count, count + 1}
    <3>1. CASE Occupied(old[moved])
      <4>1. Insert(old[moved].key, old[moved].value) /\ old[moved].key \in Keys /\ old[moved].value \in Values
        BY <1>0, <1>1, <2>1, <3>1, SlotKinds DEF GrowMove, SlotsTyped
      <4> QED
        BY <1>0, <2>1, <4>1, InsertPlaces
    <3>2. CASE ~Occupied(old[moved])
      BY <1>0, <1>1, <2>1, <3>2 DEF GrowMove, SlotsTyped, CountOK, OccupiedSlots
    <3> QED
      BY <3>1, <3>2
  <2>4. moved' \in 0..n /\ count' <= moved' /\ count' < cap
    BY <1>0, <2>1, <2>2, <2>3
  <2>5. Growing' /\ CountOK'
    BY <2>1, <2>2, <2>3, <2>4 DEF Growing, CountOK
  <2> QED
    BY <1>0, <2>1, <2>3, <2>5 DEF RInv, SlotsTyped, CapacityOK
<1>2. CASE GrowEnd
  <2>1. pc = "grow" /\ moved \notin DOMAIN old /\ pc' = "insert" /\ DOMAIN old' = {}
        /\ UNCHANGED <<cap, slots, count, arg, broken>>
    BY <1>2 DEF GrowEnd, OldSlots, table, EmptySlots
  <2>2. PICK n \in Nat : cap = 2 * n /\ DOMAIN old = 0..(n - 1) /\ moved \in 0..n /\ count <= moved
    BY <2>1 DEF RInv, Growing
  <2>3. ~Overloaded'
    BY <1>0, <2>1, <2>2 DEF Overloaded, CapacityOK
  <2> QED
    BY <1>0, <2>1, <2>3 DEF RInv, SlotsTyped, CapacityOK, CountOK, OccupiedSlots, Growing
<1>3. CASE AddInsert
  <2>1. /\ pc = "insert" /\ pc' = "idle" /\ UNCHANGED <<cap, old, arg>> /\ ~Overloaded
        /\ Insert(arg[1], arg[2]) /\ arg[1] \in Keys /\ arg[2] \in Values
    BY <1>0, <1>3 DEF AddInsert, growth, RInv, SlotsTyped
  <2>2. /\ broken' = broken /\ slots' \in [0..(cap - 1) -> Slots]
        /\ count' = Cardinality(OccupiedSlots') /\ count' \in {count, count + 1}
    BY <1>0, <2>1, InsertPlaces
  <2>3. count' < cap
    BY <1>0, <2>1, <2>2 DEF Overloaded, CapacityOK
  <2> QED
    BY <1>0, <2>1, <2>2, <2>3 DEF RInv, SlotsTyped, CapacityOK, CountOK, Growing
<1>4. CASE UNCHANGED <<cap, slots, count, old, pc, broken, moved>> /\ (pc = "idle" \/ UNCHANGED arg)
  BY <1>0, <1>4 DEF RInv, SlotsTyped, CapacityOK, CountOK, OccupiedSlots, Growing, Overloaded
<1>5. ASSUME NEW k \in Keys, Get(k) \/ Has(k) PROVE RInv'
  BY <1>4, <1>5 DEF Get, Has, table, growth
<1>6. CASE UNCHANGED mapvars
  BY <1>4, <1>6 DEF mapvars, table, growth
<1> QED
  BY <1>1, <1>2, <1>3, <1>5, <1>6, AddRInv, DeleteRInv DEF Next

\* If the capacities asked for are powers of two, there is room for one more key in
\* every table whatever tombstones it has: a search that fails never leads to a write
\* outside the arrays, a key is never dropped, and count is the number of keys.
THEOREM RoomCorrect ==
  ASSUME InitialCaps \cup {DefaultCap} \subseteq PowersOfTwo
  PROVE  Spec => []RoomForOneMore
<1>1. RInv => RoomForOneMore
  <2> SUFFICES ASSUME RInv PROVE RoomForOneMore
    OBVIOUS
  <2>1. count \in Nat /\ cap \in Nat
    BY OccupiedFinite DEF RInv, CountOK, SlotsTyped
  <2>2. ASSUME pc # "idle" PROVE ~Overloaded
    <3>1. CASE pc = "insert"
      BY <3>1 DEF RInv
    <3>2. CASE pc = "grow"
      <4>1. PICK n \in Nat : cap = 2 * n /\ moved \in 0..n /\ count <= moved
        BY <3>2 DEF RInv, Growing
      <4> QED
        BY <2>1, <4>1 DEF Overloaded, RInv, CapacityOK
    <3> QED
      BY <2>2, <3>1, <3>2 DEF RInv
  <2> QED
    BY <2>2 DEF RInv, RoomForOneMore, CountOK, OccupiedSlots
<1> QED
  BY InitRInv, NextRInv, <1>1, PTL DEF Spec

-----------------------------------------------------------------------------
(* The table implements a map.                                              *)

\* What the slots hold, and what the old slots hold that is still to be moved.
Live == {s \in {slots[i] : i \in 0..(cap - 1)} : Occupied(s)}

Waiting ==
  IF pc = "grow" THEN {s \in {old[i] : i \in {j \in OldSlots : j >= moved}} : Occupied(s)} ELSE {}

\* While a table grows, a key is in one old slot, and the keys in the new slots are
\* those of old slots that have been seen.
GrowthOK ==
  pc = "grow" =>
    /\ \A i, j \in DOMAIN old :
         Occupied(old[i]) /\ Occupied(old[j]) /\ old[i].key = old[j].key => i = j
    /\ \A s \in Live : \E j \in DOMAIN old : j < moved /\ Occupied(old[j]) /\ old[j].key = s.key

MInv == IInv /\ RInv /\ GrowthOK

ValueOf(k) == IF Stored(k) = {} THEN Absent ELSE (CHOOSE s \in Stored(k) : TRUE).value

MapNow == [k \in Keys |-> ValueOf(k)]

LEMMA StoredIs ==
  \A k : Stored(k) = {s \in Live \cup Waiting : s.key = k}
BY DEF Stored, Contents, Live, Waiting

LEMMA LiveTyped ==
  ASSUME MInv
  PROVE  /\ \A s \in Live \cup Waiting : s \in Slots /\ Occupied(s)
         /\ \A s, t \in Live : s.key = t.key => s = t
<1>1. SlotsTyped /\ KeysAreFound
  BY DEF MInv, IInv, TInv
<1>2. \A s \in Live : s \in Slots /\ Occupied(s)
  BY <1>1 DEF Live, SlotsTyped
<1>3. \A s \in Waiting : s \in Slots /\ Occupied(s)
  BY <1>1 DEF Waiting, OldSlots, SlotsTyped
<1>4. \A s, t \in Live : s.key = t.key => s = t
  BY <1>1 DEF Live, KeysAreFound
<1> QED
  BY <1>2, <1>3, <1>4

\* A key has one value.
LEMMA StoredOnce ==
  ASSUME MInv, NEW k, NEW s \in Stored(k) PROVE Stored(k) = {s}
<1> SUFFICES ASSUME NEW t \in Stored(k) PROVE t = s
  OBVIOUS
<1>1. s \in Live \cup Waiting /\ s.key = k /\ t \in Live \cup Waiting /\ t.key = k
  BY StoredIs
<1>2. CASE s \in Live /\ t \in Live
  BY <1>1, <1>2, LiveTyped
<1>3. CASE s \in Waiting \/ t \in Waiting
  <2>1. pc = "grow"
    BY <1>3 DEF Waiting
  <2>2. PICK n \in Nat : DOMAIN old = 0..(n - 1) /\ moved \in 0..n
    BY <2>1 DEF MInv, RInv, Growing
  <2>3. \A u \in Waiting : \E i \in DOMAIN old : u = old[i] /\ i >= moved /\ Occupied(old[i])
    BY <2>1 DEF Waiting, OldSlots
  <2>4. \A u \in Live : \E j \in DOMAIN old : j < moved /\ Occupied(old[j]) /\ old[j].key = u.key
    BY <2>1 DEF MInv, GrowthOK
  <2>5. \A i, j \in DOMAIN old :
          Occupied(old[i]) /\ Occupied(old[j]) /\ old[i].key = old[j].key => i = j
    BY <2>1 DEF MInv, GrowthOK
  <2>6. \A i, j \in DOMAIN old : i < moved /\ j >= moved => i # j
    BY <2>2
  <2> QED
    BY <1>1, <1>3, <2>3, <2>4, <2>5, <2>6
<1> QED
  BY <1>1, <1>2, <1>3

LEMMA ValueOfStored ==
  ASSUME MInv, NEW k, NEW s \in Stored(k) PROVE ValueOf(k) = s.value
<1>1. Stored(k) = {s}
  BY StoredOnce
<1>2. (CHOOSE t \in {s} : TRUE) = s
  OBVIOUS
<1> QED
  BY <1>1, <1>2 DEF ValueOf

\* Insert replaces what the slots hold of the key.
LEMMA InsertStores ==
  ASSUME MInv, NEW k \in Keys, NEW v \in Values, Insert(k, v), cap' = cap
  PROVE  Live' = {s \in Live : s.key # k} \cup {Full(k, v)}
<1>1. TInv /\ SlotsTyped /\ KeysAreFound /\ CapacityOK /\ CountOK
  BY DEF MInv, IInv, TInv, RInv
<1>2. PICK n \in Candidates(k) :
        /\ First(Candidates(k), n) /\ Probe(k, n) \in 0..(cap - 1)
        /\ slots' = [slots EXCEPT ![Probe(k, n)] = Full(k, v)]
  BY <1>1, InsertPlaces
<1>3. PICK x \in 0..(cap - 1) : x = Probe(k, n)
  BY <1>2
<1>4. slots'[x] = Full(k, v) /\ \A i \in 0..(cap - 1) : i # x => slots'[i] = slots[i]
  BY <1>1, <1>2, <1>3 DEF SlotsTyped
<1>5. Occupied(Full(k, v)) /\ Full(k, v).key = k
  BY SlotKinds
<1>6. \A j \in 0..(cap - 1) : Occupied(slots[j]) /\ slots[j].key = k => j = x
  BY <1>1, <1>2, <1>3, CandidateIsOnly
<1>7. CASE Occupied(slots[x])
  <2>1. At(k, n) = slots[x] /\ n \in Hits(k) \cup Free(k)
    BY <1>3 DEF At, Candidates
  <2>2. slots[x].key = k
    BY <1>7, <2>1 DEF Hits, Free
  <2>3. ASSUME NEW s \in Live' PROVE s \in {t \in Live : t.key # k} \cup {Full(k, v)}
    <3>1. PICK i \in 0..(cap - 1) : s = slots'[i] /\ Occupied(s)
      BY <2>3 DEF Live
    <3> QED
      BY <1>4, <1>6, <3>1 DEF Live
  <2>4. ASSUME NEW s \in {t \in Live : t.key # k} \cup {Full(k, v)} PROVE s \in Live'
    <3>1. CASE s = Full(k, v)
      BY <1>4, <1>5, <3>1 DEF Live
    <3>2. CASE s \in Live /\ s.key # k
      <4>1. PICK i \in 0..(cap - 1) : s = slots[i] /\ Occupied(s)
        BY <3>2 DEF Live
      <4>2. i # x
        BY <2>2, <3>2, <4>1
      <4> QED
        BY <1>4, <4>1, <4>2 DEF Live
    <3> QED
      BY <2>4, <3>1, <3>2
  <2> QED
    BY <2>3, <2>4
<1>8. CASE ~Occupied(slots[x])
  <2>1. ASSUME NEW s \in Live' PROVE s \in {t \in Live : t.key # k} \cup {Full(k, v)}
    <3>1. PICK i \in 0..(cap - 1) : s = slots'[i] /\ Occupied(s)
      BY <2>1 DEF Live
    <3> QED
      BY <1>4, <1>6, <3>1 DEF Live
  <2>2. ASSUME NEW s \in {t \in Live : t.key # k} \cup {Full(k, v)} PROVE s \in Live'
    <3>1. CASE s = Full(k, v)
      BY <1>4, <1>5, <3>1 DEF Live
    <3>2. CASE s \in Live
      <4>1. PICK i \in 0..(cap - 1) : s = slots[i] /\ Occupied(s)
        BY <3>2 DEF Live
      <4> QED
        BY <1>4, <1>8, <4>1 DEF Live
    <3> QED
      BY <2>2, <3>1, <3>2
  <2> QED
    BY <2>1, <2>2
<1> QED
  BY <1>7, <1>8

\* The next old key is in no new slot.
LEMMA NextToMove ==
  ASSUME MInv, pc = "grow", moved \in DOMAIN old, Occupied(old[moved])
  PROVE  /\ old[moved].key \in Keys /\ old[moved].value \in Values
         /\ old[moved] = Full(old[moved].key, old[moved].value)
         /\ \A s \in Live : s.key # old[moved].key
<1>1. old[moved] \in Slots
  BY DEF MInv, RInv, SlotsTyped
<1>2. old[moved] \in [state : {"occupied"}, key : Keys, value : Values]
  BY <1>1, SlotKinds DEF Slots
<1>3. PICK n \in Nat : moved \in 0..n
  BY DEF MInv, RInv, Growing
<1>4. \A s \in Live : \E j \in DOMAIN old : j < moved /\ Occupied(old[j]) /\ old[j].key = s.key
  BY DEF MInv, GrowthOK
<1>5. \A j \in DOMAIN old : Occupied(old[j]) /\ old[j].key = old[moved].key => j = moved
  BY DEF MInv, GrowthOK
<1>6. ~(moved < moved)
  BY <1>3
<1> QED
  BY <1>2, <1>4, <1>5, <1>6 DEF Full

\* One turn of the loop moves the key from what waits to what lives.
LEMMA MoveStores ==
  ASSUME MInv, GrowMove
  PROVE  /\ Live' = Live \cup {s \in {old[moved]} : Occupied(s)}
         /\ Live' \cup Waiting' = Live \cup Waiting
<1>1. /\ pc = "grow" /\ pc' = "grow" /\ moved \in DOMAIN old /\ moved' = moved + 1
      /\ old' = old /\ cap' = cap
  BY DEF GrowMove, OldSlots
<1>2. Live' = Live \cup {s \in {old[moved]} : Occupied(s)}
  <2>1. CASE Occupied(old[moved])
    <3>1. PICK k \in Keys, v \in Values : old[moved] = Full(k, v) /\ old[moved].key = k /\ old[moved].value = v
      BY <1>1, <2>1, NextToMove
    <3>2. Insert(k, v) /\ \A s \in Live : s.key # k
      BY <1>1, <2>1, <3>1, NextToMove DEF GrowMove
    <3>3. Live' = {s \in Live : s.key # k} \cup {Full(k, v)}
      BY <1>1, <3>2, InsertStores
    <3> QED
      BY <2>1, <3>1, <3>2, <3>3
  <2>2. CASE ~Occupied(old[moved])
    <3>1. slots' = slots
      BY <2>2 DEF GrowMove
    <3> QED
      BY <1>1, <2>2, <3>1 DEF Live
  <2> QED
    BY <2>1, <2>2
<1>3. Waiting = Waiting' \cup {s \in {old[moved]} : Occupied(s)}
  <2>1. PICK n \in Nat : DOMAIN old = 0..(n - 1) /\ moved \in 0..n
    BY <1>1 DEF MInv, RInv, Growing
  <2>2. {j \in DOMAIN old : j >= moved} = {j \in DOMAIN old : j >= moved + 1} \cup {moved}
    BY <1>1, <2>1
  <2>3. /\ Waiting = {s \in {old[i] : i \in {j \in DOMAIN old : j >= moved}} : Occupied(s)}
        /\ Waiting' = {s \in {old[i] : i \in {j \in DOMAIN old : j >= moved + 1}} : Occupied(s)}
    BY <1>1 DEF Waiting, OldSlots
  <2> QED
    BY <2>2, <2>3
<1> QED
  BY <1>2, <1>3

LEMMA NextGrowthOK ==
  ASSUME MInv, [Next]_mapvars PROVE GrowthOK'
<1>1. CASE GrowMove
  <2>1. /\ pc = "grow" /\ pc' = "grow" /\ moved \in DOMAIN old /\ moved' = moved + 1 /\ old' = old
    BY <1>1 DEF GrowMove, OldSlots
  <2>2. PICK n \in Nat : DOMAIN old = 0..(n - 1) /\ moved \in 0..n
    BY <2>1 DEF MInv, RInv, Growing
  <2>3. \A j \in DOMAIN old : j < moved => j < moved + 1
    BY <2>2
  <2>4. moved < moved + 1
    BY <2>2
  <2>5. GrowthOK
    BY DEF MInv
  <2>6. ASSUME NEW s \in Live'
        PROVE  \E j \in DOMAIN old : j < moved + 1 /\ Occupied(old[j]) /\ old[j].key = s.key
    <3>1. CASE s \in Live
      BY <2>1, <2>3, <2>5, <3>1 DEF GrowthOK
    <3>2. CASE s = old[moved] /\ Occupied(s)
      BY <2>1, <2>4, <3>2
    <3> QED
      BY <1>1, <2>6, <3>1, <3>2, MoveStores
  <2> QED
    BY <2>1, <2>5, <2>6 DEF GrowthOK
<1>2. CASE pc' # "grow"
  BY <1>2 DEF GrowthOK
<1>3. ASSUME NEW k \in Keys, NEW v \in Values, Add(k, v), pc' = "grow" PROVE GrowthOK'
  <2>1. old' = slots /\ cap' = 2 * cap /\ slots' = EmptySlots(2 * cap)
    BY <1>3 DEF Add
  <2>2. SlotsTyped /\ KeysAreFound
    BY DEF MInv, IInv, TInv
  <2>3. DOMAIN slots = 0..(cap - 1)
    BY <2>2 DEF SlotsTyped
  <2>4. \A i \in 0..(cap' - 1) : ~Occupied(slots'[i])
    BY <2>1, SlotKinds DEF EmptySlots
  <2>5. Live' = {}
    BY <2>4 DEF Live
  <2> QED
    BY <2>1, <2>2, <2>3, <2>5 DEF GrowthOK, KeysAreFound
<1>4. CASE UNCHANGED <<cap, slots, old, moved, pc>>
  BY <1>4 DEF GrowthOK, Live, MInv
<1>5. ASSUME NEW k \in Keys, Get(k) \/ Has(k) \/ Delete(k) PROVE GrowthOK'
  BY <1>2, <1>5 DEF Get, Has, Delete
<1>6. CASE UNCHANGED mapvars
  BY <1>4, <1>6 DEF mapvars, table, growth
<1>7. GrowEnd \/ AddInsert => pc' # "grow"
  BY DEF GrowEnd, AddInsert
<1> QED
  BY <1>1, <1>2, <1>3, <1>5, <1>6, <1>7 DEF Next

\* A step that only moves keys about changes no value.
LEMMA SameValues ==
  ASSUME Live' \cup Waiting' = Live \cup Waiting PROVE MapNow' = MapNow
<1>1. \A k : Stored(k) = {s \in Live \cup Waiting : s.key = k}
  BY StoredIs
<1>2. \A k : Stored(k)' = {s \in Live' \cup Waiting' : s.key = k}
  BY DEF Stored, Contents, Live, Waiting
<1>3. \A k : Stored(k)' = Stored(k)
  BY <1>1, <1>2
<1>4. ASSUME NEW k PROVE ValueOf(k)' = ValueOf(k)
  <2>1. Stored(k)' = Stored(k)
    BY <1>3
  <2> QED
    BY <2>1 DEF ValueOf
<1> QED
  BY <1>4 DEF MapNow

\* The parts of the invariant that a call between two steps of others relies on.
LEMMA IdleStored ==
  ASSUME MInv, pc # "grow", NEW k \in Keys
  PROVE  /\ Stored(k) = {s \in Live : s.key = k}
         /\ Contains(k) <=> Stored(k) # {}
         /\ \A n \in Hits(k) : At(k, n) \in Stored(k)
<1>1. Waiting = {}
  BY DEF Waiting
<1>2. Stored(k) = {s \in Live : s.key = k}
  BY <1>1, StoredIs
<1>3. SlotsTyped /\ CapacityOK /\ CountOK /\ KeysAreFound
  BY DEF MInv, RInv, IInv
<1>4. \A n \in Hits(k) : At(k, n) \in Stored(k)
  BY <1>2, <1>3, ProbeFacts DEF Hits, At, Live
<1>5. ASSUME Stored(k) # {} PROVE Hits(k) # {} /\ count > 0
  <2>1. PICK i \in 0..(cap - 1) : Occupied(slots[i]) /\ slots[i].key = k
    BY <1>2, <1>5 DEF Live
  <2>2. Hits(k) # {}
    BY <1>3, <2>1 DEF KeysAreFound
  <2>3. OccupiedSlots # {} /\ IsFiniteSet(OccupiedSlots) /\ count = Cardinality(OccupiedSlots)
        /\ count \in Nat
    BY <1>3, <2>1, OccupiedFinite DEF SlotsTyped, CountOK, OccupiedSlots
  <2>4. count # 0
    BY <2>3, FS_EmptySet
  <2> QED
    BY <2>2, <2>3, <2>4
<1> QED
  BY <1>2, <1>4, <1>5 DEF Contains

\* The first hit of a search that has one.
LEMMA FirstExists ==
  ASSUME NEW S, S \subseteq Nat, S # {} PROVE \E n : First(S, n)
BY LeastNumber DEF First

LEMMA LookupAnswers ==
  ASSUME MInv, pc # "grow", NEW k \in Keys
  PROVE  /\ Lookup(k) = IF ValueOf(k) = Absent THEN Null ELSE ValueOf(k)
         /\ Contains(k) <=> ValueOf(k) # Absent
<1>1. \A s \in Stored(k) : ValueOf(k) = s.value /\ s.value \in Values
  <2> SUFFICES ASSUME NEW s \in Stored(k) PROVE ValueOf(k) = s.value /\ s.value \in Values
    OBVIOUS
  <2>1. s \in Slots /\ Occupied(s)
    BY StoredIs, LiveTyped
  <2> QED
    BY <2>1, ValueOfStored, SlotKinds
<1>2. Absent \notin Values
  BY TableAssumption
<1>3. CASE Stored(k) = {}
  <2>1. ValueOf(k) = Absent /\ ~Contains(k)
    BY <1>3, IdleStored DEF ValueOf
  <2>2. count = 0 \/ Hits(k) = {}
    BY <1>3, IdleStored
  <2> QED
    BY <2>1, <2>2 DEF Lookup
<1>4. CASE Stored(k) # {}
  <2>1. Contains(k) /\ Hits(k) # {} /\ count # 0 /\ ValueOf(k) # Absent
    BY <1>1, <1>2, <1>4, IdleStored DEF Contains
  <2> DEFINE n == CHOOSE m \in Hits(k) : First(Hits(k), m)
  <2>2. Hits(k) \subseteq Nat
    BY DEF Hits
  <2>3. \E m \in Hits(k) : First(Hits(k), m)
    BY <2>1, <2>2, FirstExists DEF First
  <2>4. n \in Hits(k)
    BY <2>3
  <2>5. Lookup(k) = At(k, n).value
    BY <2>1 DEF Lookup
  <2> HIDE DEF n
  <2>6. At(k, n) \in Stored(k)
    BY <2>4, IdleStored
  <2> QED
    BY <1>1, <2>1, <2>5, <2>6
<1> QED
  BY <1>3, <1>4

\* An update gives the key its value and leaves the others theirs.
LEMMA InsertPuts ==
  ASSUME MInv, pc # "grow", pc' # "grow", cap' = cap,
         NEW k \in Keys, NEW v \in Values, Insert(k, v)
  PROVE  MapNow' = [MapNow EXCEPT ![k] = v]
<1>1. Live' = {s \in Live : s.key # k} \cup {Full(k, v)} /\ Waiting = {} /\ Waiting' = {}
  BY InsertStores DEF Waiting
<1>2. Full(k, v).key = k /\ Full(k, v).value = v
  BY SlotKinds
<1>3. \A q : Stored(q) = {s \in Live : s.key = q}
  BY <1>1, StoredIs
<1>4. \A q : Stored(q)' = {s \in Live' : s.key = q}
  BY <1>1 DEF Stored, Contents, Live, Waiting
<1>5. Stored(k)' = {Full(k, v)}
  BY <1>1, <1>2, <1>4
<1>6. ASSUME NEW q \in Keys, q # k PROVE ValueOf(q)' = ValueOf(q)
  <2>1. Stored(q)' = Stored(q)
    BY <1>1, <1>2, <1>3, <1>4, <1>6
  <2> QED
    BY <2>1 DEF ValueOf
<1>7. ValueOf(k)' = v
  <2>1. (CHOOSE t \in {Full(k, v)} : TRUE) = Full(k, v)
    OBVIOUS
  <2> QED
    BY <1>2, <1>5, <2>1 DEF ValueOf
<1> QED
  BY <1>6, <1>7 DEF MapNow

\* A deletion takes the key away and leaves the others their values.
LEMMA DeleteRemoves ==
  ASSUME MInv, NEW k \in Keys, Delete(k)
  PROVE  MapNow' = [MapNow EXCEPT ![k] = Absent]
<1>1. pc = "idle" /\ pc' = "idle" /\ cap' = cap /\ Waiting = {} /\ Waiting' = {}
  BY DEF Delete, Waiting
<1>2. \A q : Stored(q) = {s \in Live : s.key = q}
  BY <1>1, StoredIs
<1>3. \A q : Stored(q)' = {s \in Live' : s.key = q}
  BY <1>1 DEF Stored, Contents, Live, Waiting
<1>4. Live' = {s \in Live : s.key # k}
  <2>1. CASE ~Contains(k)
    <3>1. slots' = slots /\ Stored(k) = {}
      BY <1>1, <2>1, IdleStored DEF Delete
    <3>2. Live' = Live
      BY <1>1, <3>1 DEF Live
    <3> QED
      BY <1>2, <3>1, <3>2
  <2>2. CASE Contains(k)
    <3>1. PICK n \in Hits(k) : slots' = [slots EXCEPT ![Probe(k, n)] = Tombstone]
      BY <2>2 DEF Delete, DeletedSlot
    <3>2. SlotsTyped /\ CapacityOK /\ KeysAreFound
      BY DEF MInv, RInv, IInv
    <3>3. PICK x \in 0..(cap - 1) : x = Probe(k, n)
      BY <3>2, ProbeFacts DEF Hits
    <3>4. Occupied(slots[x]) /\ slots[x].key = k
      BY <3>1, <3>3 DEF Hits, At
    <3>5. \A j \in 0..(cap - 1) : Occupied(slots[j]) /\ slots[j].key = k => j = x
      BY <3>2, <3>4 DEF KeysAreFound
    <3>6. slots'[x] = Tombstone /\ \A i \in 0..(cap - 1) : i # x => slots'[i] = slots[i]
      BY <3>1, <3>2, <3>3 DEF SlotsTyped
    <3>7. ASSUME NEW s \in Live' PROVE s \in Live /\ s.key # k
      <4>1. PICK i \in 0..(cap - 1) : s = slots'[i] /\ Occupied(s)
        BY <1>1, <3>7 DEF Live
      <4>2. i # x
        BY <3>6, <4>1, SlotKinds
      <4> QED
        BY <3>5, <3>6, <4>1, <4>2 DEF Live
    <3>8. ASSUME NEW s \in Live, s.key # k PROVE s \in Live'
      <4>1. PICK i \in 0..(cap - 1) : s = slots[i] /\ Occupied(s)
        BY <3>8 DEF Live
      <4>2. i # x
        BY <3>4, <3>8, <4>1
      <4> QED
        BY <1>1, <3>6, <4>1, <4>2 DEF Live
    <3> QED
      BY <3>7, <3>8
  <2> QED
    BY <2>1, <2>2
<1>5. ASSUME NEW q \in Keys PROVE ValueOf(q)' = IF q = k THEN Absent ELSE ValueOf(q)
  <2>1. CASE q = k
    <3>1. Stored(q)' = {}
      BY <1>3, <1>4, <2>1
    <3> QED
      BY <2>1, <3>1 DEF ValueOf
  <2>2. CASE q # k
    <3>1. Stored(q)' = Stored(q)
      BY <1>2, <1>3, <1>4, <2>2
    <3> QED
      BY <2>2, <3>1 DEF ValueOf
  <2> QED
    BY <2>1, <2>2
<1> QED
  BY <1>5 DEF MapNow

LEMMA InitImplements ==
  ASSUME Init PROVE Map!Init
<1>1. \A i \in 0..(cap - 1) : slots[i] = Empty
  BY DEF Init, EmptySlots
<1>2. Live = {} /\ Waiting = {}
  BY <1>1, SlotKinds DEF Live, Waiting, Init
<1>3. \A k : Stored(k) = {}
  BY <1>2, StoredIs
<1>4. MapNow = [k \in Keys |-> Absent]
  BY <1>3 DEF MapNow, ValueOf
<1> QED
  BY <1>4 DEF Map!Init, MapNow, ValueOf, Init

LEMMA NextImplements ==
  ASSUME MInv, [Next]_mapvars
  PROVE  \/ UNCHANGED <<MapNow, reply>>
         \/ \E k \in Keys :
              \/ reply' = (IF MapNow[k] = Absent THEN Null ELSE MapNow[k]) /\ UNCHANGED MapNow
              \/ reply' = (MapNow[k] # Absent) /\ UNCHANGED MapNow
              \/ reply' = (MapNow[k] # Absent) /\ MapNow' = [MapNow EXCEPT ![k] = Absent]
              \/ \E v \in Values : MapNow' = [MapNow EXCEPT ![k] = v] /\ UNCHANGED reply
<1>0. SlotsTyped
  BY DEF MInv, RInv
<1>1. CASE GrowMove
  <2>1. reply' = reply
    BY <1>1 DEF GrowMove
  <2> QED
    BY <1>1, <2>1, MoveStores, SameValues
<1>2. CASE GrowEnd
  <2>1. reply' = reply /\ pc = "grow" /\ pc' # "grow" /\ moved \notin DOMAIN old /\ UNCHANGED <<cap, slots>>
    BY <1>2 DEF GrowEnd, OldSlots, table
  <2>2. PICK n \in Nat : DOMAIN old = 0..(n - 1) /\ moved \in 0..n
    BY <2>1 DEF MInv, RInv, Growing
  <2>3. {j \in DOMAIN old : j >= moved} = {}
    BY <2>1, <2>2
  <2>4. Waiting = {} /\ Waiting' = {} /\ Live' = Live
    BY <2>1, <2>3 DEF Waiting, OldSlots, Live
  <2> QED
    BY <2>1, <2>4, SameValues
<1>3. CASE AddInsert
  <2>1. pc # "grow" /\ pc' # "grow" /\ cap' = cap /\ reply' = reply
        /\ arg[1] \in Keys /\ arg[2] \in Values /\ Insert(arg[1], arg[2])
    BY <1>0, <1>3 DEF AddInsert, SlotsTyped
  <2> QED
    BY <2>1, InsertPuts
<1>4. ASSUME NEW k \in Keys, NEW v \in Values, Add(k, v) PROVE UNCHANGED <<MapNow, reply>>
  <2>1. reply' = reply /\ pc = "idle"
    BY <1>4 DEF Add
  <2>2. CASE Overloaded
    <3>1. /\ pc' = "grow" /\ old' = slots /\ moved' = 0 /\ cap' = 2 * cap
          /\ slots' = EmptySlots(2 * cap)
      BY <1>4, <2>2 DEF Add
    <3>2. \A i \in 0..(cap' - 1) : ~Occupied(slots'[i])
      BY <3>1, SlotKinds DEF EmptySlots
    <3>3. Live' = {} /\ Waiting = {}
      BY <2>1, <3>2 DEF Live, Waiting
    <3>4. DOMAIN slots = 0..(cap - 1) /\ {j \in 0..(cap - 1) : j >= 0} = 0..(cap - 1)
      BY <1>0 DEF SlotsTyped
    <3>5. Waiting' = {s \in {slots[i] : i \in {j \in DOMAIN slots : j >= 0}} : Occupied(s)}
      BY <3>1 DEF Waiting, OldSlots
    <3>6. Waiting' = Live
      BY <3>4, <3>5 DEF Live
    <3> QED
      BY <2>1, <3>3, <3>6, SameValues
  <2>3. CASE ~Overloaded
    <3>1. UNCHANGED <<cap, slots>> /\ pc' # "grow"
      BY <1>4, <2>3 DEF Add, table
    <3>2. Live' = Live /\ Waiting = {} /\ Waiting' = {}
      BY <2>1, <3>1 DEF Live, Waiting
    <3> QED
      BY <2>1, <3>2, SameValues
  <2> QED
    BY <2>2, <2>3
<1>5. ASSUME UNCHANGED <<cap, slots, old, moved, pc>> PROVE MapNow' = MapNow
  <2>1. Live' = Live /\ Waiting' = Waiting
    BY <1>5 DEF Live, Waiting, OldSlots
  <2> QED
    BY <2>1, SameValues
<1>6. \A k \in Keys : MapNow[k] = ValueOf(k)
  BY DEF MapNow
<1>7. ASSUME NEW k \in Keys, Get(k)
      PROVE  reply' = (IF MapNow[k] = Absent THEN Null ELSE MapNow[k]) /\ UNCHANGED MapNow
  BY <1>5, <1>6, <1>7, LookupAnswers DEF Get, table, growth
<1> DEFINE in(k) == MapNow[k] # Absent
<1>8. ASSUME NEW k \in Keys, pc = "idle" PROVE Contains(k) = in(k)
  <2>1. Contains(k) <=> in(k)
    BY <1>6, <1>8, LookupAnswers
  <2>2. Contains(k) \in BOOLEAN
    BY DEF Contains
  <2> QED
    BY <2>1, <2>2
<1>9. ASSUME NEW k \in Keys, Has(k) PROVE reply' = in(k) /\ UNCHANGED MapNow
  <2>1. UNCHANGED <<cap, slots, old, moved, pc>> /\ pc = "idle" /\ reply' = Contains(k)
    BY <1>9 DEF Has, table, growth
  <2> QED
    BY <1>5, <1>8, <2>1, Zenon
<1>10. ASSUME NEW k \in Keys, Delete(k)
       PROVE  reply' = in(k) /\ MapNow' = [MapNow EXCEPT ![k] = Absent]
  <2>1. pc = "idle" /\ reply' = Contains(k)
    BY <1>10 DEF Delete
  <2> QED
    BY <1>8, <1>10, <2>1, DeleteRemoves, Zenon
<1>11. CASE UNCHANGED mapvars
  BY <1>5, <1>11 DEF mapvars, table, growth
<1> QED
  BY <1>1, <1>2, <1>3, <1>4, <1>7, <1>9, <1>10, <1>11 DEF Next

\* A table of either kind is a map, for any keys, values and hash function and any
\* order of calls: an update replaces the value of its key and of no other, a deletion
\* takes the key away, growing changes nothing although the keys move one by one, and
\* every answer is the map's.  The capacities asked for are powers of two, and nothing
\* is deleted from a set, as in the source.
THEOREM ImplementsMapCorrect ==
  ASSUME DeletesFrom \subseteq {"map"}, InitialCaps \cup {DefaultCap} \subseteq PowersOfTwo
  PROVE  Spec => ImplementsMap
<1>1. Init => MInv /\ Map!Init
  BY InitIInv, InitRInv, InitImplements DEF MInv, GrowthOK, Init
<1>2. MInv /\ [Next]_mapvars => MInv'
  BY NextIInv, NextRInv, NextGrowthOK DEF MInv
<1>3. MInv /\ [Next]_mapvars => [Map!Next]_<<MapNow, reply>>
  BY NextImplements
     DEF Map!Next, Map!Get, Map!Has, Map!Delete, Map!Put, MapNow, ValueOf
<1> QED
  BY <1>1, <1>2, <1>3, PTL DEF Spec, ImplementsMap, Map!Spec, MapNow, ValueOf
=============================================================================
