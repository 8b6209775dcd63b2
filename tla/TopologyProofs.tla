--------------------------- MODULE TopologyProofs ---------------------------
(***************************************************************************)
(* Proofs about Topology, for any number of modules, any facts and call     *)
(* graph, and any pin_together calls.                                       *)
(***************************************************************************)
EXTENDS Topology, SequenceTheorems, FiniteSetTheorems, TLAPS

Categories == {PURE, PROCESS_LOCAL, RESOURCE_OWNER, ABI_ANCHOR}
Cluster    == [modules : SUBSET Modules, reload : Categories]

-----------------------------------------------------------------------------
(* Merging two clusters.                                                    *)

\* Where the k-th cluster after the merge was before it.
OldIndex(k, j) == IF k < j THEN k ELSE k + 1

LEMMA OldIndexBijective ==
  ASSUME NEW n \in Nat, NEW j \in 1..n
  PROVE  /\ \A k \in 1..(n - 1) : OldIndex(k, j) \in (1..n) \ {j}
         /\ \A p \in (1..n) \ {j} : \E k \in 1..(n - 1) : OldIndex(k, j) = p
         /\ \A k, l \in 1..(n - 1) : OldIndex(k, j) = OldIndex(l, j) => k = l
<1>1. ASSUME NEW p \in (1..n) \ {j} PROVE \E k \in 1..(n - 1) : OldIndex(k, j) = p
  <2>1. CASE p < j
    <3>1. p \in 1..(n - 1) /\ OldIndex(p, j) = p
      BY <2>1 DEF OldIndex
    <3>2. QED
      BY <3>1
  <2>2. CASE p > j
    <3>1. p - 1 \in 1..(n - 1) /\ OldIndex(p - 1, j) = p
      BY <2>2 DEF OldIndex
    <3>2. QED
      BY <3>1
  <2>3. QED
    BY <2>1, <2>2
<1>2. \A k \in 1..(n - 1) : OldIndex(k, j) \in (1..n) \ {j}
  BY DEF OldIndex
<1>3. \A k, l \in 1..(n - 1) : OldIndex(k, j) = OldIndex(l, j) => k = l
  BY DEF OldIndex
<1>4. QED
  BY <1>1, <1>2, <1>3

\* What a list of clusters looks like after cluster j went into cluster i.
Merged(i, j, r) ==
  /\ clusters' \in Seq(Cluster)
  /\ Len(clusters') = Len(clusters) - 1
  /\ \A k \in 1..Len(clusters') :
       /\ OldIndex(k, j) \in (1..Len(clusters)) \ {j}
       /\ OldIndex(k, j) = i =>
            clusters'[k] = [modules |-> clusters[i].modules \cup clusters[j].modules, reload |-> r]
       /\ OldIndex(k, j) # i => clusters'[k] = clusters[OldIndex(k, j)]

LEMMA MergeIntoMerges ==
  ASSUME clusters \in Seq(Cluster), NEW i \in 1..Len(clusters), NEW j \in 1..Len(clusters),
         i # j, NEW r \in Categories, clusters' = MergeInto(i, j, r)
  PROVE  Merged(i, j, r)
<1> DEFINE n == Len(clusters)
           merged == [modules |-> clusters[i].modules \cup clusters[j].modules, reload |-> r]
           old(k) == IF k = i THEN merged ELSE clusters[k]
<1>1. n \in Nat /\ i \in 1..n /\ j \in 1..n /\ n - 1 \in Nat
  OBVIOUS
<1>2. \A k \in 1..n : clusters[k] \in Cluster
  OBVIOUS
<1>3. merged \in Cluster
  BY <1>2 DEF Cluster
<1>4. clusters' = [k \in 1..(n - 1) |-> IF k < j THEN old(k) ELSE old(k + 1)]
  BY DEF MergeInto
<1>5. \A k \in 1..n : old(k) \in Cluster /\ (k = i => old(k) = merged) /\ (k # i => old(k) = clusters[k])
  BY <1>2, <1>3
<1> HIDE DEF merged, old, n
<1>6. \A k \in 1..(n - 1) : OldIndex(k, j) \in (1..n) \ {j}
  BY <1>1, OldIndexBijective
<1>7. \A k \in 1..(n - 1) : (IF k < j THEN old(k) ELSE old(k + 1)) = old(OldIndex(k, j))
  BY DEF OldIndex
<1>8. \A k \in 1..(n - 1) : clusters'[k] = old(OldIndex(k, j))
  BY <1>4, <1>7
<1>9. clusters' \in [1..(n - 1) -> Cluster]
  BY <1>4, <1>5, <1>6, <1>7
<1>10. clusters' \in Seq(Cluster) /\ Len(clusters') = n - 1
  BY <1>1, <1>9
<1>11. QED
  BY <1>5, <1>6, <1>8, <1>10 DEF Merged, n, merged

-----------------------------------------------------------------------------
(* The clusters are a partition of the modules, and merging only coarsens it. *)

Together(m, n) == \E i \in 1..Len(clusters) : m \in clusters[i].modules /\ n \in clusters[i].modules

Partition ==
  /\ \A m \in Modules : \E i \in 1..Len(clusters) : m \in clusters[i].modules
  /\ \A m \in Modules : \A i, j \in 1..Len(clusters) :
       m \in clusters[i].modules /\ m \in clusters[j].modules => i = j

LEMMA MergedFacts ==
  ASSUME clusters \in Seq(Cluster), NEW i \in 1..Len(clusters), NEW j \in 1..Len(clusters),
         i # j, NEW r \in Categories, Merged(i, j, r)
  PROVE  /\ \A p \in 1..Len(clusters) : \E k \in 1..Len(clusters') :
              clusters[p].modules \subseteq clusters'[k].modules
         /\ \A k \in 1..Len(clusters') :
              \/ clusters'[k].modules = clusters[OldIndex(k, j)].modules
              \/ /\ OldIndex(k, j) = i
                 /\ clusters'[k].modules = clusters[i].modules \cup clusters[j].modules
<1>1. Len(clusters) \in Nat /\ Len(clusters') = Len(clusters) - 1
  BY DEF Merged
<1>2. ASSUME NEW p \in 1..Len(clusters)
      PROVE  \E k \in 1..Len(clusters') : clusters[p].modules \subseteq clusters'[k].modules
  <2> DEFINE q == IF p = j THEN i ELSE p
  <2>1. /\ q \in (1..Len(clusters)) \ {j}
        /\ q = p \/ (q = i /\ p = j)
    OBVIOUS
  <2> HIDE DEF q
  <2>2. PICK k \in 1..Len(clusters') : OldIndex(k, j) = q
    BY <1>1, <2>1, OldIndexBijective
  <2>3. clusters[p].modules \subseteq clusters'[k].modules
    BY <2>1, <2>2 DEF Merged
  <2>4. QED
    BY <2>3
<1>3. ASSUME NEW k \in 1..Len(clusters')
      PROVE  \/ clusters'[k].modules = clusters[OldIndex(k, j)].modules
             \/ /\ OldIndex(k, j) = i
                /\ clusters'[k].modules = clusters[i].modules \cup clusters[j].modules
  BY DEF Merged
<1>4. QED
  BY <1>2, <1>3

LEMMA MergeKeepsPartition ==
  ASSUME clusters \in Seq(Cluster), NEW i \in 1..Len(clusters), NEW j \in 1..Len(clusters),
         i # j, NEW r \in Categories, Merged(i, j, r), Partition
  PROVE  Partition'
<1>1. \A m \in Modules : \E k \in 1..Len(clusters') : m \in clusters'[k].modules
  BY MergedFacts DEF Partition
<1>2. ASSUME NEW m \in Modules, NEW k \in 1..Len(clusters'), NEW l \in 1..Len(clusters'),
             m \in clusters'[k].modules, m \in clusters'[l].modules
      PROVE  k = l
  <2>1. /\ OldIndex(k, j) \in (1..Len(clusters)) \ {j} /\ OldIndex(l, j) \in (1..Len(clusters)) \ {j}
    BY DEF Merged
  <2>2. /\ m \in clusters[OldIndex(k, j)].modules \/ (OldIndex(k, j) = i /\ m \in clusters[j].modules)
        /\ m \in clusters[OldIndex(l, j)].modules \/ (OldIndex(l, j) = i /\ m \in clusters[j].modules)
    BY <1>2, MergedFacts
  <2>3. OldIndex(k, j) = OldIndex(l, j)
    BY <2>1, <2>2 DEF Partition
  <2>4. Len(clusters) \in Nat /\ Len(clusters') = Len(clusters) - 1
    BY DEF Merged
  <2>5. QED
    BY <2>3, <2>4, OldIndexBijective
<1>3. QED
  BY <1>1, <1>2 DEF Partition

LEMMA MergeCoarsens ==
  ASSUME clusters \in Seq(Cluster), NEW i \in 1..Len(clusters), NEW j \in 1..Len(clusters),
         i # j, NEW r \in Categories, Merged(i, j, r), NEW m, NEW n, Together(m, n)
  PROVE  Together(m, n)'
<1>1. PICK p \in 1..Len(clusters) : m \in clusters[p].modules /\ n \in clusters[p].modules
  BY DEF Together
<1>2. PICK k \in 1..Len(clusters') : clusters[p].modules \subseteq clusters'[k].modules
  BY MergedFacts
<1>3. QED
  BY <1>1, <1>2 DEF Together

LEMMA MergeJoins ==
  ASSUME clusters \in Seq(Cluster), NEW i \in 1..Len(clusters), NEW j \in 1..Len(clusters),
         i # j, NEW r \in Categories, Merged(i, j, r),
         NEW m \in clusters[j].modules, NEW n \in clusters[i].modules
  PROVE  Together(m, n)'
<1>1. Len(clusters) \in Nat /\ Len(clusters') = Len(clusters) - 1
  BY DEF Merged
<1>2. PICK k \in 1..Len(clusters') : OldIndex(k, j) = i
  BY <1>1, OldIndexBijective
<1>3. m \in clusters'[k].modules /\ n \in clusters'[k].modules
  BY <1>2 DEF Merged
<1>4. QED
  BY <1>3 DEF Together

\* ClusterOf finds the cluster of a module.
LEMMA ClusterOfFinds ==
  ASSUME Partition, NEW m \in Modules
  PROVE  /\ ClusterOf(m) \in 1..Len(clusters)
         /\ m \in clusters[ClusterOf(m)].modules
         /\ \A i \in 1..Len(clusters) : m \in clusters[i].modules => i = ClusterOf(m)
<1>1. \E i \in 1..Len(clusters) : m \in clusters[i].modules
  BY DEF Partition
<1>2. ClusterOf(m) \in 1..Len(clusters) /\ m \in clusters[ClusterOf(m)].modules
  BY <1>1 DEF ClusterOf
<1>3. QED
  BY <1>2 DEF Partition

LEMMA TogetherMeansSame ==
  ASSUME Partition, NEW m \in Modules, NEW n \in Modules
  PROVE  Together(m, n) <=> ClusterOf(m) = ClusterOf(n)
BY ClusterOfFinds DEF Together

-----------------------------------------------------------------------------
(* Types.                                                                   *)

TypeOK ==
  /\ pinCalls \in PinChoices /\ mode \in Modes /\ calls \in Seq(Modules \X Names)
  /\ stage \in {"pin", "merge", "override", "edges", "dispatch", "done"}
  /\ done \in Nat /\ merges \in Nat
  /\ pins \in Seq(Names \X Names)
  /\ category \in [Modules -> Categories]
  /\ clusters \in Seq(Cluster)

\* The list of clusters and the module sets only change in these ways.
LEMMA PairOfPin ==
  ASSUME TypeOK, NEW k \in 1..Len(pinCalls)
  PROVE  pinCalls[k] \in Names \X Names
BY TopologyAssumption DEF TypeOK

\* One more pair in the dict: what was there stays, but for the anchor of name.
LEMMA PinTogetherPins ==
  ASSUME TypeOK, PinTogether
  PROVE  LET name == pinCalls[done + 1][2]  anchor == pinCalls[done + 1][1] IN
         /\ done + 1 \in 1..Len(pinCalls) /\ name \in Names /\ anchor \in Names
         /\ pins' \in Seq(Names \X Names)
         /\ \E k \in 1..Len(pins') : pins'[k] = <<name, anchor>>
         /\ \A k \in 1..Len(pins) :
              k \in 1..Len(pins') /\ (pins'[k] = pins[k] \/ (pins[k][1] = name /\ pins'[k] = <<name, anchor>>))
<1> DEFINE name == pinCalls[done + 1][2]  anchor == pinCalls[done + 1][1]  e == <<name, anchor>>
<1>1. /\ done \in Nat /\ done < Len(pinCalls) /\ pinCalls \in Seq(Names \X Names)
      /\ pins \in Seq(Names \X Names)
  BY TopologyAssumption DEF TypeOK, PinTogether
<1>2. done + 1 \in 1..Len(pinCalls)
  BY <1>1
<1>3. pinCalls[done + 1] \in Names \X Names
  BY <1>1, <1>2
<1>4. name \in Names /\ anchor \in Names /\ e \in Names \X Names
  BY <1>3
<1>5. pins' = IF EntryOf(name) = {} THEN Append(pins, e)
              ELSE [i \in 1..Len(pins) |-> IF i \in EntryOf(name) THEN e ELSE pins[i]]
  BY DEF PinTogether
<1> HIDE DEF name, anchor, e
<1>6. CASE EntryOf(name) = {}
  <2>1. pins' = Append(pins, e)
    BY <1>5, <1>6
  <2>2. /\ pins' \in Seq(Names \X Names) /\ Len(pins') = Len(pins) + 1
        /\ pins'[Len(pins) + 1] = e /\ \A k \in 1..Len(pins) : pins'[k] = pins[k]
    BY <1>1, <1>4, <2>1
  <2>3. /\ Len(pins) + 1 \in 1..Len(pins')
        /\ \A k \in 1..Len(pins) : k \in 1..Len(pins')
    BY <1>1, <2>2
  <2>4. QED
    BY <1>2, <1>4, <2>2, <2>3 DEF name, anchor, e
<1>7. CASE EntryOf(name) # {}
  <2>1. pins' = [i \in 1..Len(pins) |-> IF i \in EntryOf(name) THEN e ELSE pins[i]]
    BY <1>5, <1>7
  <2>2. \A i \in 1..Len(pins) : (IF i \in EntryOf(name) THEN e ELSE pins[i]) \in Names \X Names
    BY <1>1, <1>4
  <2>3. pins' \in [1..Len(pins) -> Names \X Names] /\ Len(pins) \in Nat
    BY <1>1, <2>1, <2>2
  <2>4. pins' \in Seq(Names \X Names) /\ Len(pins') = Len(pins)
    BY <2>3
  <2>5. \A i \in 1..Len(pins) : pins'[i] = IF i \in EntryOf(name) THEN e ELSE pins[i]
    BY <2>1
  <2>6. PICK i \in 1..Len(pins) : i \in EntryOf(name)
    BY <1>7 DEF EntryOf
  <2>7. pins'[i] = e
    BY <2>5, <2>6
  <2>8. \A k \in 1..Len(pins) : pins'[k] = pins[k] \/ (pins[k][1] = name /\ pins'[k] = e)
    BY <2>5 DEF EntryOf
  <2>9. QED
    BY <1>2, <1>4, <2>4, <2>7, <2>8 DEF name, anchor, e
<1>8. QED
  BY <1>6, <1>7

\* A merge step merges two clusters that its pair names; the category of the
\* result is that of the more restrictive one.
LEMMA MergeMerges ==
  ASSUME TypeOK, Merge
  PROVE  \E i, j \in 1..Len(clusters) :
           /\ i # j /\ Compatible(clusters[i].reload, clusters[j].reload)
           /\ MoreRestrictive(clusters[i].reload, clusters[j].reload) \in Categories
           /\ Merged(i, j, MoreRestrictive(clusters[i].reload, clusters[j].reload))
<1>1. clusters \in Seq(Cluster) /\ Len(clusters) \in Nat
  BY DEF TypeOK
<1>2. PICK p \in Mergeable :
        clusters' = MergeInto(p[1], p[2], MoreRestrictive(clusters[p[1]].reload, clusters[p[2]].reload))
  BY DEF Merge
<1> DEFINE i == p[1]  j == p[2]  r == MoreRestrictive(clusters[i].reload, clusters[j].reload)
<1>3. /\ i \in 1..Len(clusters) /\ j \in 1..Len(clusters) /\ i < j
      /\ Compatible(clusters[i].reload, clusters[j].reload)
      /\ clusters' = MergeInto(i, j, r)
  BY <1>2 DEF Mergeable
<1> HIDE DEF i, j
<1>4. i # j
  BY <1>1, <1>3
<1>5. clusters[i] \in Cluster /\ clusters[j] \in Cluster
  BY <1>1, <1>3
<1>6. r \in Categories
  BY <1>5 DEF Cluster, MoreRestrictive
<1>7. Merged(i, j, r)
  <2> HIDE DEF r
  <2> QED BY <1>1, <1>3, <1>4, <1>6, MergeIntoMerges
<1>8. QED
  BY <1>3, <1>4, <1>6, <1>7

\* An override step does nothing, or merges the cluster of the pinned function
\* into that of its anchor.
LEMMA OverrideMerges ==
  ASSUME TypeOK, Partition, Override
  PROVE  LET pin == pins[done + 1] IN
         /\ done + 1 \in 1..Len(pins) /\ pin \in Names \X Names
         /\ \/ SkipPair(pin) /\ clusters' = clusters
            \/ /\ ~SkipPair(pin) /\ pin[1] \in Modules /\ pin[2] \in Modules
               /\ ClusterOf(pin[2]) # ClusterOf(pin[1])
               /\ \E r \in Categories : Merged(ClusterOf(pin[2]), ClusterOf(pin[1]), r)
<1> DEFINE pin == pins[done + 1]
<1>1. /\ clusters \in Seq(Cluster) /\ pins \in Seq(Names \X Names) /\ done \in Nat /\ done < Len(pins)
  BY DEF TypeOK, Override
<1>2. done + 1 \in 1..Len(pins) /\ pin \in Names \X Names
  BY <1>1
<1>3. clusters' = IF SkipPair(pin) THEN clusters
                  ELSE MergeInto(ClusterOf(pin[2]), ClusterOf(pin[1]), clusters[ClusterOf(pin[2])].reload)
  BY DEF Override
<1> HIDE DEF pin
<1>4. CASE SkipPair(pin)
  BY <1>2, <1>3, <1>4 DEF pin
<1>5. CASE ~SkipPair(pin)
  <2>1. /\ pin[1] \in Modules /\ pin[2] \in Modules
        /\ ClusterOf(pin[2]) # ClusterOf(pin[1])
    BY <1>2, <1>5 DEF SkipPair, Names
  <2>2. ClusterOf(pin[1]) \in 1..Len(clusters) /\ ClusterOf(pin[2]) \in 1..Len(clusters)
    BY <2>1, ClusterOfFinds
  <2>3. clusters[ClusterOf(pin[2])] \in Cluster
    BY <1>1, <2>2
  <2>4. clusters[ClusterOf(pin[2])].reload \in Categories
    BY <2>3 DEF Cluster
  <2>5. Merged(ClusterOf(pin[2]), ClusterOf(pin[1]), clusters[ClusterOf(pin[2])].reload)
    BY <1>1, <1>3, <1>5, <2>1, <2>2, <2>4, MergeIntoMerges
  <2>6. QED
    BY <1>2, <1>5, <2>1, <2>4, <2>5 DEF pin
<1>6. QED
  BY <1>4, <1>5

LEMMA ClassifyClusters ==
  ASSUME TypeOK, Classify
  PROVE  /\ category' \in [Modules -> Categories] /\ clusters' \in Seq(Cluster)
         /\ Len(clusters') = NumModules
         /\ \A m \in Modules : clusters'[m] = [modules |-> {m}, reload |-> category'[m]]
<1>1. \A m \in Modules : CategoryOf(m) \in Categories
  BY DEF CategoryOf, Categories
<1>2. /\ category' = [m \in Modules |-> CategoryOf(m)]
      /\ clusters' = [m \in Modules |-> [modules |-> {m}, reload |-> CategoryOf(m)]]
  BY DEF Classify
<1>3. clusters' \in [1..NumModules -> Cluster] /\ NumModules \in Nat
  BY <1>1, <1>2, TopologyAssumption DEF Cluster, Modules
<1>4. clusters' \in Seq(Cluster) /\ Len(clusters') = NumModules
  BY <1>3
<1>5. QED
  BY <1>1, <1>2, <1>4

LEMMA InitTypeOK == Init => TypeOK
BY TopologyAssumption DEF Init, TypeOK, Categories

LEMMA NextTypeOK == TypeOK /\ (Clustered => Partition) /\ [Next]_topovars => TypeOK'
<1> SUFFICES ASSUME TypeOK, Clustered => Partition, [Next]_topovars PROVE TypeOK'
  OBVIOUS
<1>1. CASE PinTogether
  <2>1. pins' \in Seq(Names \X Names)
    BY <1>1, PinTogetherPins
  <2>2. QED
    BY <1>1, <2>1 DEF PinTogether, TypeOK, inputs
<1>2. CASE Classify
  BY <1>2, ClassifyClusters DEF Classify, TypeOK, inputs
<1>3. CASE Merge
  <2>1. clusters' \in Seq(Cluster)
    BY <1>3, MergeMerges DEF Merged
  <2>2. QED
    BY <1>3, <2>1 DEF Merge, TypeOK, inputs
<1>4. CASE Override
  <2>1. clusters' \in Seq(Cluster)
    <3>1. Partition
      BY <1>4 DEF Override, Clustered
    <3>2. QED
      BY <1>4, <3>1, OverrideMerges DEF Merged, TypeOK
  <2>2. QED
    BY <1>4, <2>1 DEF Override, TypeOK, inputs
<1>5. CASE MergeEnd \/ OverrideEnd \/ ComputeEdge \/ PlanShared \/ AddDispatch \/ PlanEnd \/ PlanRelease
  <2>1. /\ UNCHANGED <<pinCalls, calls, mode, merges, pins, category, clusters>>
        /\ stage' \in {"override", "edges", "dispatch", "done"}
        /\ done' = done \/ done' = 0 \/ done' = done + 1
    BY <1>5 DEF MergeEnd, OverrideEnd, ComputeEdge, PlanShared, AddDispatch, PlanEnd,
                PlanRelease, TypeOK, inputs
  <2>2. QED
    BY <2>1 DEF TypeOK
<1>6. CASE Done \/ UNCHANGED topovars
  BY <1>6 DEF Done, TypeOK, inputs, topovars
<1>7. QED
  BY <1>1, <1>2, <1>3, <1>4, <1>5, <1>6 DEF Next

-----------------------------------------------------------------------------
(* The invariant.                                                           *)

\* Each merge takes one cluster away.
ClustersLeft ==
  /\ stage = "pin" => merges = 0
  /\ stage = "merge" => Len(clusters) + merges = NumModules

TInv ==
  /\ TypeOK
  /\ Clustered => Partition
  /\ MergeKeepsCategories
  /\ ClustersLeft
  /\ MergeIsComplete

\* The cap of the merge loop never binds.
LEMMA CapNeverBinds ==
  ASSUME TInv, stage = "merge" PROVE merges < 2 * NumModules
<1>1. Partition /\ Len(clusters) + merges = NumModules /\ merges \in Nat /\ NumModules \in Nat \ {0}
  BY TopologyAssumption DEF TInv, Clustered, ClustersLeft, TypeOK
<1>2. 1 \in Modules
  BY <1>1 DEF Modules
<1>3. 1..Len(clusters) # {} /\ Len(clusters) \in Nat
  BY <1>1, <1>2 DEF Partition, TInv, TypeOK
<1>4. QED
  BY <1>1, <1>3

\* Compatible clusters have one restriction between them.
LEMMA MergeRestricts ==
  ASSUME NEW r1 \in Categories, NEW r2 \in Categories, Compatible(r1, r2),
         NEW c \in Categories
  PROVE  (c = r1 \/ c = r2) => (c = MoreRestrictive(r1, r2) \/ c = PURE)
BY DEF Compatible, MoreRestrictive, Priority, Categories,
       PURE, PROCESS_LOCAL, RESOURCE_OWNER, ABI_ANCHOR

LEMMA SameMergeable ==
  ASSUME UNCHANGED <<clusters, calls>> PROVE Mergeable' = Mergeable
<1>1. \A c, d : Weight(c, d)' = Weight(c, d)
  BY DEF Weight
<1>2. QED
  BY <1>1 DEF Mergeable

LEMMA MergeStepKeepsCategories ==
  ASSUME TInv, Merge
  PROVE  MergeKeepsCategories'
<1>1. PICK i, j \in 1..Len(clusters) :
        /\ i # j /\ Compatible(clusters[i].reload, clusters[j].reload)
        /\ MoreRestrictive(clusters[i].reload, clusters[j].reload) \in Categories
        /\ Merged(i, j, MoreRestrictive(clusters[i].reload, clusters[j].reload))
  BY MergeMerges DEF TInv
<1> DEFINE r == MoreRestrictive(clusters[i].reload, clusters[j].reload)
<1>2. /\ category' = category /\ stage = "merge" /\ category \in [Modules -> Categories]
      /\ clusters \in Seq(Cluster)
  BY DEF Merge, TInv, TypeOK
<1>3. \A k \in 1..Len(clusters) : /\ clusters[k].modules \subseteq Modules
                                  /\ clusters[k].reload \in Categories
  <2>1. \A k \in 1..Len(clusters) : clusters[k] \in Cluster
    BY <1>2
  <2>2. QED
    BY <2>1 DEF Cluster
<1>4. \A k \in 1..Len(clusters) : \A m \in clusters[k].modules :
        category[m] = clusters[k].reload \/ category[m] = PURE
  BY <1>2 DEF TInv, MergeKeepsCategories, Clustered
<1>5. \A m \in clusters[i].modules \cup clusters[j].modules :
        category[m] = r \/ category[m] = PURE
  BY <1>1, <1>2, <1>3, <1>4, MergeRestricts
<1>6. Merged(i, j, r)
  BY <1>1
<1> HIDE DEF r
<1>7. ASSUME NEW k \in 1..Len(clusters'), NEW m \in clusters'[k].modules
      PROVE  category'[m] = clusters'[k].reload \/ category'[m] = PURE
  <2>1. CASE OldIndex(k, j) = i
    BY <1>2, <1>5, <1>6, <2>1 DEF Merged
  <2>2. CASE OldIndex(k, j) # i
    <3>1. clusters'[k] = clusters[OldIndex(k, j)] /\ OldIndex(k, j) \in 1..Len(clusters)
      BY <1>6, <2>2 DEF Merged
    <3>2. QED
      BY <1>2, <1>4, <3>1
  <2>3. QED
    BY <2>1, <2>2
<1>8. QED
  BY <1>7 DEF MergeKeepsCategories

LEMMA InitTInv == Init => TInv
BY InitTypeOK DEF Init, TInv, Clustered, MergeKeepsCategories, ClustersLeft, MergeIsComplete

LEMMA NextTInv == TInv /\ [Next]_topovars => TInv'
<1> SUFFICES ASSUME TInv, [Next]_topovars PROVE TInv'
  OBVIOUS
<1>0. TypeOK' /\ TypeOK /\ (Clustered => Partition)
  BY NextTypeOK DEF TInv
<1>1. CASE PinTogether
  BY <1>0, <1>1
     DEF PinTogether, TInv, Clustered, MergeKeepsCategories, ClustersLeft, MergeIsComplete
<1>2. CASE Classify
  <2>1. /\ Len(clusters') = NumModules /\ NumModules \in Nat
        /\ \A m \in Modules : clusters'[m] = [modules |-> {m}, reload |-> category'[m]]
        /\ stage' = "merge" /\ merges' = merges
    BY <1>0, <1>2, ClassifyClusters, TopologyAssumption DEF Classify
  <2>2. Partition'
    BY <2>1 DEF Partition, Modules
  <2>3. MergeKeepsCategories'
    BY <2>1 DEF MergeKeepsCategories, Modules
  <2>4. merges = 0
    BY <1>2 DEF TInv, ClustersLeft, Classify
  <2>5. QED
    BY <1>0, <2>1, <2>2, <2>3, <2>4 DEF TInv, ClustersLeft, MergeIsComplete
<1>3. CASE Merge
  <2>1. PICK i, j \in 1..Len(clusters), r \in Categories : i # j /\ Merged(i, j, r)
    BY <1>0, <1>3, MergeMerges
  <2>2. stage = "merge" /\ stage' = "merge" /\ merges' = merges + 1 /\ Partition
    BY <1>0, <1>3 DEF Merge, Clustered
  <2>3. Partition'
    BY <1>0, <2>1, <2>2, MergeKeepsPartition DEF TypeOK
  <2>4. ClustersLeft'
    BY <1>0, <2>1, <2>2 DEF TInv, ClustersLeft, Merged, TypeOK
  <2>5. QED
    BY <1>0, <1>3, <2>2, <2>3, <2>4, MergeStepKeepsCategories DEF TInv, MergeIsComplete
<1>4. CASE MergeEnd
  <2>1. stage = "merge" /\ stage' = "override" /\ done' = 0 /\ UNCHANGED <<clusters, category, inputs>>
    BY <1>4 DEF MergeEnd
  <2>2. Partition' /\ Mergeable' = Mergeable
    BY <1>0, <2>1, SameMergeable DEF Clustered, Partition, inputs
  <2>3. Mergeable = {}
    BY <1>4, <2>1, CapNeverBinds DEF MergeEnd, MayMerge
  <2>4. MergeKeepsCategories'
    BY <2>1 DEF TInv, MergeKeepsCategories, Clustered
  <2>5. QED
    BY <1>0, <2>1, <2>2, <2>3, <2>4 DEF TInv, ClustersLeft, MergeIsComplete
<1>5. CASE Override
  <2>1. stage = "override" /\ stage' = "override" /\ done' = done + 1 /\ done' # 0 /\ Partition
    BY <1>0, <1>5 DEF Override, Clustered, TypeOK
  <2>2. Partition'
    <3>1. CASE clusters' = clusters
      BY <2>1, <3>1 DEF Partition
    <3>2. CASE clusters' # clusters
      <4>1. PICK i, j \in 1..Len(clusters), r \in Categories : i # j /\ Merged(i, j, r)
        BY <1>0, <1>5, <2>1, <3>2, OverrideMerges, ClusterOfFinds
      <4>2. QED
        BY <1>0, <2>1, <4>1, MergeKeepsPartition DEF TypeOK
    <3>3. QED
      BY <3>1, <3>2
  <2>3. QED
    BY <1>0, <2>1, <2>2
       DEF TInv, MergeKeepsCategories, ClustersLeft, MergeIsComplete
<1>6. CASE OverrideEnd \/ ComputeEdge \/ PlanShared \/ AddDispatch \/ PlanEnd \/ PlanRelease
  <2>1. /\ stage # "pin" /\ stage' \in {"edges", "dispatch", "done"} /\ UNCHANGED clusters
    BY <1>6 DEF OverrideEnd, ComputeEdge, PlanShared, AddDispatch, PlanEnd, PlanRelease
  <2>2. Partition'
    BY <1>0, <2>1 DEF Clustered, Partition
  <2>3. QED
    BY <1>0, <2>1, <2>2 DEF TInv, MergeKeepsCategories, ClustersLeft, MergeIsComplete
<1>8. CASE Done \/ UNCHANGED topovars
  <2>1. UNCHANGED topovars
    BY <1>8 DEF Done
  <2>2. /\ (Clustered => Partition)' /\ MergeKeepsCategories'
    BY <2>1 DEF topovars, TInv, Clustered, Partition, MergeKeepsCategories
  <2>3. ClustersLeft' /\ MergeIsComplete'
    BY <2>1, SameMergeable DEF topovars, inputs, TInv, ClustersLeft, MergeIsComplete
  <2>4. QED
    BY <1>0, <2>2, <2>3 DEF TInv
<1>9. QED
  BY <1>1, <1>2, <1>3, <1>4, <1>5, <1>6, <1>8 DEF Next

\* Every module is in exactly one cluster from the classification on, whatever
\* the merges and the overrides do: no function is lost or linked twice.
THEOREM OneClusterCorrect == Spec => []EveryModuleInOneCluster
<1>1. Init => TInv
  BY InitTInv
<1>2. TInv /\ [Next]_topovars => TInv'
  BY NextTInv
<1>3. TInv => EveryModuleInOneCluster
  <2> SUFFICES ASSUME TInv, Clustered, NEW m \in Modules
               PROVE  Cardinality({i \in 1..Len(clusters) : m \in clusters[i].modules}) = 1
    BY DEF EveryModuleInOneCluster
  <2>1. {i \in 1..Len(clusters) : m \in clusters[i].modules} = {ClusterOf(m)}
    BY ClusterOfFinds DEF TInv
  <2>2. QED
    BY <2>1, FS_Singleton
<1>4. QED
  BY <1>1, <1>2, <1>3, PTL DEF Spec

\* Until the overrides the category of a cluster is that of each of its modules
\* that is not pure: no merge hides a restrictive module in a freer cluster.
THEOREM CategoriesCorrect == Spec => []MergeKeepsCategories
<1>1. TInv => MergeKeepsCategories
  BY DEF TInv
<1>2. QED
  BY InitTInv, NextTInv, <1>1, PTL DEF Spec

\* The merge loop leaves no two compatible clusters that call each other: its cap
\* of 2 * NumModules merges never stops it.
THEOREM MergeCorrect == Spec => []MergeIsComplete
<1>1. TInv => MergeIsComplete
  BY DEF TInv
<1>2. QED
  BY InitTInv, NextTInv, <1>1, PTL DEF Spec

-----------------------------------------------------------------------------
(* The dispatch table.  What the two loops, over the calls and over the edges *)
(* that cross, have done after their first k items.                         *)

LEMMA SameClusterOf ==
  ASSUME UNCHANGED clusters PROVE \A m : ClusterOf(m)' = ClusterOf(m)
BY DEF ClusterOf

EdgesUpTo(k) ==
  /\ edges \in Seq(Modules \X Modules)
  /\ \A i \in 1..k : Crosses(calls[i]) => \E j \in 1..Len(edges) : edges[j] = calls[i]
  /\ \A j \in 1..Len(edges) : Crosses(edges[j]) /\ \E i \in 1..k : calls[i] = edges[j]

EdgesInv ==
  /\ stage \in {"pin", "merge", "override"} => edges = << >>
  /\ stage = "edges" => done <= Len(calls) /\ EdgesUpTo(done)
  /\ stage \in {"dispatch", "done"} => EdgesUpTo(Len(calls))

LEMMA ComputeEdgeAdds ==
  ASSUME TypeOK, EdgesInv, ComputeEdge
  PROVE  EdgesInv'
<1> DEFINE e == calls[done + 1]
<1>1. /\ calls \in Seq(Modules \X Names) /\ done \in Nat /\ done < Len(calls)
      /\ done' = done + 1 /\ stage' = "edges"
      /\ UNCHANGED <<calls, clusters>> /\ EdgesUpTo(done)
      /\ edges' = IF Crosses(e) THEN Append(edges, e) ELSE edges
  BY DEF TypeOK, EdgesInv, ComputeEdge, inputs
<1>2. e \in Modules \X Names /\ done + 1 \in 1..Len(calls)
  BY <1>1
<1>3. \A x : Crosses(x)' = Crosses(x)
  BY <1>1, SameClusterOf DEF Crosses
<1>4. \A i \in 1..(done + 1) : i \in 1..done \/ i = done + 1
  BY <1>1
<1>5. 1..done \subseteq 1..(done + 1) /\ done + 1 \in 1..(done + 1)
  BY <1>1
<1>6. CASE ~Crosses(e)
  <2>1. edges' = edges
    BY <1>1, <1>6
  <2>2. QED
    BY <1>1, <1>2, <1>3, <1>4, <1>5, <1>6, <2>1 DEF EdgesUpTo, EdgesInv
<1>7. CASE Crosses(e)
  <2>1. e \in Modules \X Modules
    BY <1>2, <1>7 DEF Crosses, Names
  <2>2. edges \in Seq(Modules \X Modules)
    BY <1>1 DEF EdgesUpTo
  <2> HIDE DEF e
  <2>3. /\ edges' \in Seq(Modules \X Modules) /\ Len(edges') = Len(edges) + 1
        /\ edges'[Len(edges) + 1] = e
        /\ \A j \in 1..Len(edges) : j \in 1..Len(edges') /\ edges'[j] = edges[j]
        /\ Len(edges) + 1 \in 1..Len(edges')
        /\ \A j \in 1..Len(edges') : j \in 1..Len(edges) \/ j = Len(edges) + 1
    BY <1>1, <1>7, <2>1, <2>2
  <2>4. \A i \in 1..(done + 1) : Crosses(calls[i]) => \E j \in 1..Len(edges') : edges'[j] = calls[i]
    <3> SUFFICES ASSUME NEW i \in 1..(done + 1), Crosses(calls[i])
                 PROVE  \E j \in 1..Len(edges') : edges'[j] = calls[i]
      OBVIOUS
    <3>1. CASE i = done + 1
      BY <2>3, <3>1 DEF e
    <3>2. CASE i \in 1..done
      <4>1. PICK j \in 1..Len(edges) : edges[j] = calls[i]
        BY <1>1, <3>2 DEF EdgesUpTo
      <4>2. QED
        BY <2>3, <4>1
    <3>3. QED
      BY <1>4, <3>1, <3>2
  <2>5. \A j \in 1..Len(edges') : Crosses(edges'[j]) /\ \E i \in 1..(done + 1) : calls[i] = edges'[j]
    BY <1>1, <1>5, <1>7, <2>3 DEF e, EdgesUpTo
  <2>6. QED
    <3>1. /\ edges' \in Seq(Modules \X Modules) /\ calls' = calls /\ done' = done + 1
          /\ done' <= Len(calls') /\ stage' = "edges"
      BY <1>1, <1>2, <2>3
    <3>2. EdgesUpTo(done)'
      BY <1>3, <2>4, <2>5, <3>1 DEF EdgesUpTo
    <3>3. QED
      BY <3>1, <3>2 DEF EdgesInv
<1>8. QED
  BY <1>6, <1>7

\* A list that notes each thing once, with one more thing noted.
LEMMA AppendOnceLists ==
  ASSUME NEW T, NEW s \in Seq(T), NEW x \in T, NEW S, ListsOnce(s, S)
  PROVE  AppendOnce(s, x) \in Seq(T) /\ ListsOnce(AppendOnce(s, x), S \cup {x})
<1>1. CASE \E i \in 1..Len(s) : s[i] = x
  BY <1>1 DEF AppendOnce, ListsOnce
<1>2. CASE ~ \E i \in 1..Len(s) : s[i] = x
  <2> DEFINE t == Append(s, x)
  <2>1. AppendOnce(s, x) = t
    BY <1>2 DEF AppendOnce
  <2>2. /\ t \in Seq(T) /\ Len(t) = Len(s) + 1 /\ t[Len(s) + 1] = x /\ Len(s) \in Nat
        /\ \A j \in 1..Len(s) : t[j] = s[j]
    OBVIOUS
  <2> HIDE DEF t
  <2>3. /\ \A j \in 1..Len(t) : j \in 1..Len(s) \/ j = Len(s) + 1
        /\ \A j \in 1..Len(s) : j \in 1..Len(t)
        /\ Len(s) + 1 \in 1..Len(t)
    BY <2>2
  <2>4. {t[i] : i \in 1..Len(t)} = S \cup {x}
    BY <2>2, <2>3 DEF ListsOnce
  <2>5. \A i, j \in 1..Len(t) : t[i] = t[j] => i = j
    BY <1>2, <2>2, <2>3 DEF ListsOnce
  <2>6. QED
    BY <2>1, <2>2, <2>4, <2>5 DEF ListsOnce
<1>3. QED
  BY <1>1, <1>2

\* The first k of the edges, the clusters that call n among them, and what the
\* table and the libraries hold then.
Seen(k) == {edges[j] : j \in 1..k}

SeenCallers(k, n) == {ClusterOf(e[1]) : e \in {x \in Seen(k) : x[2] = n}}

SeenOut(k, c) == {e \in Seen(k) : ClusterOf(e[1]) = c}

SeenIn(k, c) == {e[2] : e \in {x \in Seen(k) : ClusterOf(x[2]) = c}}

EntryOK(d, k) ==
  /\ d \in [callee : Modules, source : Nat, callers : Seq(Nat)]
  /\ d.source = ClusterOf(d.callee)
  /\ \E e \in Seen(k) : e[2] = d.callee
  /\ ListsOnce(d.callers, SeenCallers(k, d.callee))

EntriesUpTo(t, k) ==
  /\ \A i \in 1..Len(t) : EntryOK(t[i], k)
  /\ \A i, j \in 1..Len(t) : t[i].callee = t[j].callee => i = j
  /\ \A e \in Seen(k) : \E i \in 1..Len(t) : t[i].callee = e[2]

LibrariesUpTo(out, in, k) ==
  /\ out \in [1..Len(clusters) -> Seq(Modules \X Modules)]
  /\ in \in [1..Len(clusters) -> Seq(Modules)]
  /\ \A c \in 1..Len(clusters) : /\ ListsOnce(out[c], SeenOut(k, c))
                                 /\ ListsOnce(in[c], SeenIn(k, c))

Entry == [callee : Modules, source : Nat, callers : Seq(Nat)]

TableUpTo(k) ==
  /\ DOMAIN plan = {"static", "reloadable", "dispatch", "outgoing", "incoming"}
  /\ plan.dispatch \in Seq(Entry)
  /\ EntriesUpTo(plan.dispatch, k)
  /\ LibrariesUpTo(plan.outgoing, plan.incoming, k)

TableInv ==
  /\ stage = "dispatch" => done <= Len(edges) /\ TableUpTo(done)
  /\ stage = "done" /\ mode # "release" => TableUpTo(Len(edges))

LEMMA SeenGrows ==
  ASSUME NEW k \in Nat, NEW e, e = edges[k + 1]
  PROVE  /\ Seen(k + 1) = Seen(k) \cup {e}
         /\ \A n : SeenCallers(k + 1, n) =
                     IF n = e[2] THEN SeenCallers(k, n) \cup {ClusterOf(e[1])} ELSE SeenCallers(k, n)
         /\ \A c : SeenOut(k + 1, c) =
                     IF c = ClusterOf(e[1]) THEN SeenOut(k, c) \cup {e} ELSE SeenOut(k, c)
         /\ \A c : SeenIn(k + 1, c) =
                     IF c = ClusterOf(e[2]) THEN SeenIn(k, c) \cup {e[2]} ELSE SeenIn(k, c)
<1>1. Seen(k + 1) = Seen(k) \cup {e}
  <2>1. 1..(k + 1) = 1..k \cup {k + 1}
    OBVIOUS
  <2>2. QED
    BY <2>1 DEF Seen
<1>2. \A n : SeenCallers(k + 1, n) =
               IF n = e[2] THEN SeenCallers(k, n) \cup {ClusterOf(e[1])} ELSE SeenCallers(k, n)
  BY <1>1 DEF SeenCallers
<1>3. \A c : SeenOut(k + 1, c) =
               IF c = ClusterOf(e[1]) THEN SeenOut(k, c) \cup {e} ELSE SeenOut(k, c)
  BY <1>1 DEF SeenOut
<1>4. \A c : SeenIn(k + 1, c) =
               IF c = ClusterOf(e[2]) THEN SeenIn(k, c) \cup {e[2]} ELSE SeenIn(k, c)
  BY <1>1 DEF SeenIn
<1>5. QED
  BY <1>1, <1>2, <1>3, <1>4

\* One more call: a new entry, or one more caller of the only entry of the callee.
LEMMA WithCallAdds ==
  ASSUME Partition, NEW k \in Nat, edges \in Seq(Modules \X Modules), k < Len(edges),
         NEW e, e = edges[k + 1], plan.dispatch \in Seq(Entry), EntriesUpTo(plan.dispatch, k)
  PROVE  WithCall(e) \in Seq(Entry) /\ EntriesUpTo(WithCall(e), k + 1)
<1> DEFINE t == plan.dispatch  n == e[2]  c == ClusterOf(e[1])
<1>1. e \in Modules \X Modules
  <2>1. k + 1 \in 1..Len(edges)
    OBVIOUS
  <2>2. QED
    BY <2>1
<1>2. n \in Modules /\ c \in Nat /\ ClusterOf(n) \in Nat
  BY <1>1, ClusterOfFinds
<1>3. /\ Seen(k + 1) = Seen(k) \cup {e} /\ e \in Seen(k + 1)
      /\ SeenCallers(k + 1, n) = SeenCallers(k, n) \cup {c}
      /\ \A m : m # n => SeenCallers(k + 1, m) = SeenCallers(k, m)
  <2>0. k \in Nat /\ e = edges[k + 1]
    OBVIOUS
  <2>1. Seen(k + 1) = Seen(k) \cup {e}
    BY <2>0, SeenGrows
  <2>2. \A m : SeenCallers(k + 1, m) =
                 IF m = e[2] THEN SeenCallers(k, m) \cup {ClusterOf(e[1])} ELSE SeenCallers(k, m)
    BY <2>0, SeenGrows
  <2>3. QED
    BY <2>1, <2>2
<1>4. EntriesFor(n) = {i \in 1..Len(t) : t[i].callee = n}
  BY DEF EntriesFor
<1>5. ASSUME NEW d, EntryOK(d, k), d.callee # n PROVE EntryOK(d, k + 1)
  BY <1>3, <1>5 DEF EntryOK
<1>6. /\ t \in Seq(Entry) /\ EntriesUpTo(t, k) /\ Len(t) \in Nat
  OBVIOUS
<1>7. CASE EntriesFor(n) = {}
  <2> DEFINE d == NewEntry(e)  u == Append(t, d)
  <2>1. WithCall(e) = u
    BY <1>7 DEF WithCall
  <2>2. d = [callee |-> n, source |-> ClusterOf(n), callers |-> <<c>>]
    BY DEF NewEntry
  <2>3. <<c>> \in Seq(Nat) /\ Len(<<c>>) = 1 /\ <<c>>[1] = c
    BY <1>2
  <2>4. SeenCallers(k, n) = {}
    <3>1. \A x \in Seen(k) : x[2] # n
      BY <1>4, <1>6, <1>7 DEF EntriesUpTo
    <3>2. QED
      BY <3>1 DEF SeenCallers
  <2>5. ListsOnce(<<c>>, SeenCallers(k + 1, n))
    BY <1>3, <2>3, <2>4 DEF ListsOnce
  <2>6. d \in Entry /\ d.callee = n /\ EntryOK(d, k + 1)
    BY <1>2, <1>3, <2>2, <2>3, <2>5 DEF EntryOK, Entry
  <2> HIDE DEF d, t, n, c
  <2>7. /\ u \in Seq(Entry) /\ Len(u) = Len(t) + 1 /\ u[Len(t) + 1] = d
        /\ \A i \in 1..Len(t) : u[i] = t[i]
    BY <1>6, <2>6
  <2> HIDE DEF u
  <2>8. /\ \A i \in 1..Len(u) : i \in 1..Len(t) \/ i = Len(t) + 1
        /\ \A i \in 1..Len(t) : i \in 1..Len(u)
        /\ Len(t) + 1 \in 1..Len(u)
    BY <1>6, <2>7
  <2>9. \A i \in 1..Len(t) : t[i].callee # n /\ EntryOK(t[i], k)
    BY <1>4, <1>6, <1>7 DEF EntriesUpTo
  <2>10. \A i \in 1..Len(u) : EntryOK(u[i], k + 1)
    BY <1>5, <2>6, <2>7, <2>8, <2>9
  <2>11. \A i, j \in 1..Len(u) : u[i].callee = u[j].callee => i = j
    BY <1>6, <2>6, <2>7, <2>8, <2>9 DEF EntriesUpTo
  <2>12. \A x \in Seen(k + 1) : \E i \in 1..Len(u) : u[i].callee = x[2]
    <3>1. \A x \in Seen(k) : \E i \in 1..Len(t) : t[i].callee = x[2]
      BY <1>6 DEF EntriesUpTo
    <3>2. e[2] = n
      BY DEF n
    <3>3. QED
      BY <1>3, <2>6, <2>7, <2>8, <3>1, <3>2
  <2>13. QED
    BY <2>1, <2>7, <2>10, <2>11, <2>12 DEF EntriesUpTo
<1>8. CASE EntriesFor(n) # {}
  <2>1. PICK f \in 1..Len(t) : t[f].callee = n
    BY <1>4, <1>8
  <2>2. EntriesFor(n) = {f}
    BY <1>4, <1>6, <2>1 DEF EntriesUpTo
  <2> DEFINE d == [t[f] EXCEPT !.callers = AppendOnce(t[f].callers, c)]
             u == [i \in 1..Len(t) |-> IF i = f THEN d ELSE t[i]]
  <2>3. WithCall(e) = u
    <3>1. f \in Int
      BY <1>6
    <3>2. \A i \in 1..Len(t) : (i \in EntriesFor(n) /\ \A j \in EntriesFor(n) : i <= j) <=> i = f
      BY <2>2, <3>1
    <3>3. WithCall(e) = [i \in 1..Len(t) |->
                           IF i \in EntriesFor(n) /\ \A j \in EntriesFor(n) : i <= j
                           THEN [t[i] EXCEPT !.callers = AppendOnce(@, c)] ELSE t[i]]
      BY <1>8 DEF WithCall
    <3>4. QED
      BY <3>2, <3>3
  <2>4. t[f] \in Entry /\ EntryOK(t[f], k)
    BY <1>6, <2>1 DEF EntriesUpTo
  <2>5. t[f].callers \in Seq(Nat) /\ ListsOnce(t[f].callers, SeenCallers(k, n))
    BY <2>1, <2>4 DEF Entry, EntryOK
  <2>6. /\ AppendOnce(t[f].callers, c) \in Seq(Nat)
        /\ ListsOnce(AppendOnce(t[f].callers, c), SeenCallers(k + 1, n))
    <3> DEFINE s == t[f].callers  S == SeenCallers(k, n)
    <3>1. s \in Seq(Nat) /\ ListsOnce(s, S) /\ c \in Nat
      BY <1>2, <2>5
    <3> HIDE DEF c, t, n, s, S
    <3>2. AppendOnce(s, c) \in Seq(Nat) /\ ListsOnce(AppendOnce(s, c), S \cup {c})
      BY <3>1, AppendOnceLists
    <3>3. QED
      BY <1>3, <3>2 DEF s, S
  <2>7. /\ d \in Entry /\ d.callee = n /\ d.source = t[f].source
        /\ d.callers = AppendOnce(t[f].callers, c)
    BY <2>1, <2>4, <2>6 DEF Entry
  <2>8. EntryOK(d, k + 1)
    BY <1>3, <2>1, <2>4, <2>6, <2>7 DEF EntryOK, Entry
  <2> HIDE DEF d, n, c
  <2>9. /\ u \in [1..Len(t) -> Entry] /\ \A i \in 1..Len(t) : u[i] = IF i = f THEN d ELSE t[i]
    BY <1>6, <2>7
  <2> HIDE DEF u, t
  <2>10. u \in Seq(Entry) /\ Len(u) = Len(t)
    <3>1. Len(t) \in Nat /\ u \in [1..Len(t) -> Entry]
      BY <1>6, <2>9
    <3>2. QED
      BY <3>1
  <2>11. \A i \in 1..Len(u) : u[i].callee = t[i].callee
    BY <2>1, <2>7, <2>9, <2>10
  <2>12. \A i \in 1..Len(u) : EntryOK(u[i], k + 1)
    <3>1. ASSUME NEW i \in 1..Len(t), i # f PROVE EntryOK(t[i], k + 1)
      BY <1>5, <1>6, <2>1, <3>1 DEF EntriesUpTo
    <3>2. QED
      BY <2>8, <2>9, <2>10, <3>1
  <2>13. \A i, j \in 1..Len(u) : u[i].callee = u[j].callee => i = j
    BY <1>6, <2>10, <2>11 DEF EntriesUpTo
  <2>14. \A x \in Seen(k + 1) : \E i \in 1..Len(u) : u[i].callee = x[2]
    BY <1>3, <1>6, <2>1, <2>10, <2>11 DEF EntriesUpTo, n
  <2>15. QED
    BY <2>3, <2>10, <2>12, <2>13, <2>14 DEF EntriesUpTo
<1>9. QED
  BY <1>7, <1>8

LEMMA LibrariesAdd ==
  ASSUME Partition, NEW k \in Nat, edges \in Seq(Modules \X Modules), k < Len(edges),
         NEW e, e = edges[k + 1], NEW out, NEW in, LibrariesUpTo(out, in, k)
  PROVE  LibrariesUpTo([out EXCEPT ![ClusterOf(e[1])] = AppendOnce(@, e)],
                       [in EXCEPT ![ClusterOf(e[2])] = AppendOnce(@, e[2])], k + 1)
<1> DEFINE p == ClusterOf(e[1])  q == ClusterOf(e[2])  n == e[2]
           o == [out EXCEPT ![p] = AppendOnce(out[p], e)]
           h == [in EXCEPT ![q] = AppendOnce(in[q], n)]
<1>0. k \in Nat /\ e = edges[k + 1]
  OBVIOUS
<1>1. e \in Modules \X Modules
  <2>1. k + 1 \in 1..Len(edges)
    OBVIOUS
  <2>2. QED
    BY <2>1
<1>2. p \in 1..Len(clusters) /\ q \in 1..Len(clusters) /\ n \in Modules
  BY <1>1, ClusterOfFinds
<1>3. /\ \A c : SeenOut(k + 1, c) = IF c = p THEN SeenOut(k, c) \cup {e} ELSE SeenOut(k, c)
      /\ \A c : SeenIn(k + 1, c) = IF c = q THEN SeenIn(k, c) \cup {n} ELSE SeenIn(k, c)
  <2>1. \A c : SeenOut(k + 1, c) = IF c = ClusterOf(e[1]) THEN SeenOut(k, c) \cup {e} ELSE SeenOut(k, c)
    BY <1>0, SeenGrows
  <2>2. \A c : SeenIn(k + 1, c) = IF c = ClusterOf(e[2]) THEN SeenIn(k, c) \cup {e[2]} ELSE SeenIn(k, c)
    BY <1>0, SeenGrows
  <2>3. QED
    BY <2>1, <2>2
<1>4. /\ out \in [1..Len(clusters) -> Seq(Modules \X Modules)]
      /\ in \in [1..Len(clusters) -> Seq(Modules)]
      /\ \A c \in 1..Len(clusters) : ListsOnce(out[c], SeenOut(k, c)) /\ ListsOnce(in[c], SeenIn(k, c))
  BY DEF LibrariesUpTo
<1> HIDE DEF p, q, n
<1>5. /\ AppendOnce(out[p], e) \in Seq(Modules \X Modules)
      /\ ListsOnce(AppendOnce(out[p], e), SeenOut(k, p) \cup {e})
  <2>1. out[p] \in Seq(Modules \X Modules) /\ ListsOnce(out[p], SeenOut(k, p))
    BY <1>2, <1>4
  <2>2. QED
    BY <1>1, <2>1, AppendOnceLists
<1>6. /\ AppendOnce(in[q], n) \in Seq(Modules)
      /\ ListsOnce(AppendOnce(in[q], n), SeenIn(k, q) \cup {n})
  <2>1. in[q] \in Seq(Modules) /\ ListsOnce(in[q], SeenIn(k, q))
    BY <1>2, <1>4
  <2>2. QED
    BY <1>2, <2>1, AppendOnceLists
<1>7. /\ o \in [1..Len(clusters) -> Seq(Modules \X Modules)]
      /\ \A c \in 1..Len(clusters) : ListsOnce(o[c], SeenOut(k + 1, c))
  BY <1>2, <1>3, <1>4, <1>5
<1>8. /\ h \in [1..Len(clusters) -> Seq(Modules)]
      /\ \A c \in 1..Len(clusters) : ListsOnce(h[c], SeenIn(k + 1, c))
  BY <1>2, <1>3, <1>4, <1>6
<1>9. LibrariesUpTo(o, h, k + 1)
  BY <1>7, <1>8 DEF LibrariesUpTo
<1>10. QED
  BY <1>9 DEF o, h, p, q, n

\* While the clusters and the edges stay, these only depend on their arguments.
LEMMA SameTable ==
  ASSUME UNCHANGED <<clusters, edges>>
  PROVE  /\ \A t, k : EntriesUpTo(t, k)' = EntriesUpTo(t, k)
         /\ \A out, in, k : LibrariesUpTo(out, in, k)' = LibrariesUpTo(out, in, k)
<1>1. /\ \A m : ClusterOf(m)' = ClusterOf(m)
      /\ \A k : Seen(k)' = Seen(k)
  BY SameClusterOf DEF Seen
<1>2. \A k, n : SeenCallers(k, n)' = SeenCallers(k, n)
  BY <1>1 DEF SeenCallers
<1>3. \A k, c : SeenOut(k, c)' = SeenOut(k, c)
  BY <1>1 DEF SeenOut
<1>4. \A k, c : SeenIn(k, c)' = SeenIn(k, c)
  BY <1>1 DEF SeenIn
<1>5. \A d, k : EntryOK(d, k)' = EntryOK(d, k)
  BY <1>1, <1>2 DEF EntryOK
<1>6. \A t, k : EntriesUpTo(t, k)' = EntriesUpTo(t, k)
  BY <1>1, <1>5 DEF EntriesUpTo
<1>7. \A out, in, k : LibrariesUpTo(out, in, k)' = LibrariesUpTo(out, in, k)
  BY <1>3, <1>4 DEF LibrariesUpTo
<1>8. QED
  BY <1>6, <1>7

LEMMA AddDispatchAdds ==
  ASSUME TypeOK, Partition, EdgesInv, TableInv, AddDispatch
  PROVE  TableInv'
<1> DEFINE e == edges[done + 1]
<1>1. /\ edges \in Seq(Modules \X Modules) /\ done \in Nat /\ done < Len(edges)
      /\ done' = done + 1 /\ stage' = "dispatch"
      /\ UNCHANGED <<edges, clusters>> /\ TableUpTo(done)
  BY DEF TypeOK, EdgesInv, EdgesUpTo, TableInv, AddDispatch
<1>2. DOMAIN plan = {"static", "reloadable", "dispatch", "outgoing", "incoming"}
  BY <1>1 DEF TableUpTo
<1>3. plan' = [plan EXCEPT !.dispatch = WithCall(e),
                           !.outgoing[ClusterOf(e[1])] = AppendOnce(@, e),
                           !.incoming[ClusterOf(e[2])] = AppendOnce(@, e[2])]
  BY DEF AddDispatch
<1> HIDE DEF e
<1>4. /\ DOMAIN plan' = DOMAIN plan
      /\ plan'.dispatch = WithCall(e)
      /\ plan'.outgoing = [plan.outgoing EXCEPT ![ClusterOf(e[1])] = AppendOnce(@, e)]
      /\ plan'.incoming = [plan.incoming EXCEPT ![ClusterOf(e[2])] = AppendOnce(@, e[2])]
  BY <1>2, <1>3
<1>5. /\ plan'.dispatch \in Seq(Entry) /\ EntriesUpTo(plan'.dispatch, done + 1)
      /\ LibrariesUpTo(plan'.outgoing, plan'.incoming, done + 1)
  <2>1. /\ e = edges[done + 1] /\ plan.dispatch \in Seq(Entry) /\ EntriesUpTo(plan.dispatch, done)
        /\ LibrariesUpTo(plan.outgoing, plan.incoming, done)
    BY <1>1 DEF e, TableUpTo
  <2>2. WithCall(e) \in Seq(Entry) /\ EntriesUpTo(WithCall(e), done + 1)
    BY <1>1, <2>1, WithCallAdds
  <2>3. LibrariesUpTo([plan.outgoing EXCEPT ![ClusterOf(e[1])] = AppendOnce(@, e)],
                      [plan.incoming EXCEPT ![ClusterOf(e[2])] = AppendOnce(@, e[2])], done + 1)
    BY <1>1, <2>1, LibrariesAdd
  <2>4. QED
    BY <1>4, <2>2, <2>3
<1>6. EntriesUpTo(plan.dispatch, done)' /\ LibrariesUpTo(plan.outgoing, plan.incoming, done)'
  BY <1>1, <1>5, SameTable
<1>10. TableUpTo(done)'
  BY <1>2, <1>4, <1>5, <1>6 DEF TableUpTo
<1>11. QED
  BY <1>1, <1>10 DEF TableInv

LEMMA PlanSharedStarts ==
  ASSUME TypeOK, EdgesInv, PlanShared
  PROVE  TableInv'
<1>1. /\ stage' = "dispatch" /\ done' = 0 /\ UNCHANGED <<edges, clusters>>
      /\ plan' = [static     |-> StaticCluster,
                  reloadable |-> [i \in 1..Len(clusters) |-> i # StaticCluster],
                  dispatch   |-> << >>,
                  outgoing   |-> [i \in 1..Len(clusters) |-> << >>],
                  incoming   |-> [i \in 1..Len(clusters) |-> << >>]]
      /\ edges \in Seq(Modules \X Modules)
  BY DEF PlanShared, EdgesInv, EdgesUpTo
<1>2. /\ DOMAIN plan' = {"static", "reloadable", "dispatch", "outgoing", "incoming"}
      /\ plan'.dispatch = << >>
      /\ plan'.outgoing = [i \in 1..Len(clusters) |-> << >>]
      /\ plan'.incoming = [i \in 1..Len(clusters) |-> << >>]
  BY <1>1
<1>3. 1..0 = {} /\ Len(edges') \in Nat
  BY <1>1
<1>4. Seen(0)' = {}
  BY <1>3 DEF Seen
<1>5. EntriesUpTo(plan.dispatch, 0)'
  BY <1>2, <1>3, <1>4 DEF EntriesUpTo
<1>6. \A c : SeenOut(0, c)' = {} /\ SeenIn(0, c)' = {}
  BY <1>4 DEF SeenOut, SeenIn
<1>7. ListsOnce(<< >>, {})
  BY <1>3 DEF ListsOnce
<1>8. LibrariesUpTo(plan.outgoing, plan.incoming, 0)'
  <2>1. \A T : << >> \in Seq(T)
    OBVIOUS
  <2>2. /\ plan'.outgoing \in [1..Len(clusters') -> Seq(Modules \X Modules)]
        /\ plan'.incoming \in [1..Len(clusters') -> Seq(Modules)]
    BY <1>1, <1>2, <2>1
  <2>3. \A i \in 1..Len(clusters') : plan'.outgoing[i] = << >> /\ plan'.incoming[i] = << >>
    BY <1>1, <1>2
  <2>4. \A c : SeenOut(0, c)' = {} /\ SeenIn(0, c)' = {}
    BY <1>6
  <2>5. \A i \in 1..Len(clusters') : /\ ListsOnce(plan'.outgoing[i], SeenOut(0, i)')
                                     /\ ListsOnce(plan'.incoming[i], SeenIn(0, i)')
    BY <1>7, <2>3, <2>4
  <2>6. QED
    BY <2>2, <2>5 DEF LibrariesUpTo
<1>9. QED
  BY <1>1, <1>2, <1>3, <1>5, <1>8 DEF TableInv, TableUpTo

LEMMA NextDispatch ==
  ASSUME TInv, EdgesInv, TableInv, [Next]_topovars
  PROVE  EdgesInv' /\ TableInv'
<1>0. TypeOK /\ (Clustered => Partition)
  BY DEF TInv
<1>1. CASE PinTogether \/ Classify \/ Merge \/ MergeEnd \/ Override
  BY <1>1 DEF PinTogether, Classify, Merge, MergeEnd, Override, EdgesInv, TableInv
<1>2. CASE OverrideEnd
  <2>1. stage' = "edges" /\ done' = 0 /\ edges' = << >> /\ Len(calls') \in Nat
    BY <1>0, <1>2 DEF OverrideEnd, EdgesInv, TypeOK, inputs
  <2>2. EdgesUpTo(done)'
    BY <2>1 DEF EdgesUpTo
  <2>3. QED
    BY <2>1, <2>2 DEF EdgesInv, TableInv
<1>3. CASE ComputeEdge
  BY <1>0, <1>3, ComputeEdgeAdds DEF ComputeEdge, TableInv
<1>4. ASSUME UNCHANGED <<clusters, calls, edges>>
      PROVE  \A k : EdgesUpTo(k)' = EdgesUpTo(k)
  <2>1. edges' = edges /\ calls' = calls
    BY <1>4
  <2>2. \A m : ClusterOf(m)' = ClusterOf(m)
    BY <1>4, SameClusterOf
  <2>3. \A x : Crosses(x)' = Crosses(x)
    BY <2>2 DEF Crosses
  <2>4. QED
    BY <2>1, <2>3 DEF EdgesUpTo
<1>5. CASE PlanShared
  <2>1. EdgesInv'
    BY <1>4, <1>5 DEF PlanShared, EdgesInv, inputs
  <2>2. QED
    BY <1>0, <1>5, <2>1, PlanSharedStarts
<1>6. CASE AddDispatch
  <2>1. EdgesInv'
    BY <1>4, <1>6 DEF AddDispatch, EdgesInv, inputs
  <2>2. QED
    BY <1>0, <1>6, <2>1, AddDispatchAdds DEF AddDispatch, Clustered
<1>7. ASSUME UNCHANGED <<clusters, edges, plan>>
      PROVE  \A k : TableUpTo(k)' = TableUpTo(k)
  <2>1. /\ \A t, k : EntriesUpTo(t, k)' = EntriesUpTo(t, k)
        /\ \A out, in, k : LibrariesUpTo(out, in, k)' = LibrariesUpTo(out, in, k)
    BY <1>7, SameTable
  <2>2. QED
    BY <1>7, <2>1 DEF TableUpTo
<1>8. CASE PlanEnd
  <2>1. EdgesInv'
    BY <1>4, <1>8 DEF PlanEnd, EdgesInv, inputs
  <2>2. QED
    BY <1>7, <1>8, <2>1 DEF PlanEnd, TableInv, inputs
<1>9. CASE PlanRelease
  <2>1. EdgesInv'
    BY <1>4, <1>9 DEF PlanRelease, EdgesInv, inputs
  <2>2. QED
    BY <1>9, <2>1 DEF PlanRelease, TableInv, inputs
<1>10. CASE Done \/ UNCHANGED topovars
  <2>1. UNCHANGED topovars
    BY <1>10 DEF Done
  <2>2. QED
    BY <1>4, <1>7, <2>1 DEF topovars, inputs, EdgesInv, TableInv
<1>11. QED
  BY <1>1, <1>2, <1>3, <1>5, <1>6, <1>8, <1>9, <1>10 DEF Next

\* The loop's table is the one the calls ask for.
LEMMA TableIsExact ==
  ASSUME TInv, EdgesInv, TableInv, stage = "done", mode # "release"
  PROVE  DispatchIsExact
<1> DEFINE L == Len(edges)
           Callers(n) == {ClusterOf(m) : m \in {k \in Modules : CallsAcross(k, n)}}
<1>1. TableUpTo(L) /\ EdgesUpTo(Len(calls)) /\ Partition /\ calls \in Seq(Modules \X Names)
  BY DEF TableInv, EdgesInv, TInv, TypeOK, Clustered
<1>2. Seen(L) = {e \in Modules \X Modules : CallsAcross(e[1], e[2])}
  <2>1. ASSUME NEW e \in Seen(L) PROVE e \in Modules \X Modules /\ CallsAcross(e[1], e[2])
    <3>1. PICK j \in 1..Len(edges) : edges[j] = e
      BY DEF Seen
    <3>2. /\ edges \in Seq(Modules \X Modules)
          /\ Crosses(edges[j]) /\ \E i \in 1..Len(calls) : calls[i] = edges[j]
      BY <1>1 DEF EdgesUpTo
    <3>0. e \in Modules \X Modules
      BY <3>1, <3>2
    <3>3. e = <<e[1], e[2]>>
      BY <3>0
    <3>4. QED
      BY <3>0, <3>1, <3>2, <3>3 DEF Crosses, CallsAcross
  <2>2. ASSUME NEW m \in Modules, NEW n \in Modules, CallsAcross(m, n) PROVE <<m, n>> \in Seen(L)
    <3>1. PICK i \in 1..Len(calls) : calls[i] = <<m, n>>
      BY <2>2 DEF CallsAcross
    <3>2. n # NoFunction
      BY DEF Modules, NoFunction
    <3>3. Crosses(calls[i])
      BY <2>2, <3>1, <3>2 DEF Crosses, CallsAcross
    <3>4. PICK j \in 1..Len(edges) : edges[j] = calls[i]
      BY <1>1, <3>3 DEF EdgesUpTo
    <3>5. QED
      BY <3>1, <3>4 DEF Seen
  <2>3. ASSUME NEW e \in Modules \X Modules, CallsAcross(e[1], e[2]) PROVE e \in Seen(L)
    <3>1. e = <<e[1], e[2]>> /\ e[1] \in Modules /\ e[2] \in Modules
      OBVIOUS
    <3>2. QED
      BY <2>2, <2>3, <3>1
  <2>4. QED
    BY <2>1, <2>3
<1>3. \A m, n \in Modules : CallsAcross(m, n) <=> <<m, n>> \in Seen(L)
  BY <1>2
<1>4. \A n \in Modules : SeenCallers(L, n) = Callers(n)
  <2> SUFFICES ASSUME NEW n \in Modules PROVE SeenCallers(L, n) = Callers(n)
    OBVIOUS
  <2>1. ASSUME NEW c \in SeenCallers(L, n) PROVE c \in Callers(n)
    <3>1. PICK e \in Seen(L) : e[2] = n /\ c = ClusterOf(e[1])
      BY DEF SeenCallers
    <3>2. e[1] \in Modules /\ CallsAcross(e[1], n)
      BY <1>2, <3>1
    <3>3. QED
      BY <3>1, <3>2
  <2>2. ASSUME NEW m \in Modules, CallsAcross(m, n) PROVE ClusterOf(m) \in SeenCallers(L, n)
    <3> DEFINE e == <<m, n>>
    <3>1. e \in Seen(L) /\ e[1] = m /\ e[2] = n
      BY <1>3, <2>2
    <3> HIDE DEF e
    <3>2. QED
      BY <3>1 DEF SeenCallers
  <2>3. QED
    BY <2>1, <2>2
<1>5. \A c : SeenOut(L, c) = {e \in Modules \X Modules : ClusterOf(e[1]) = c /\ CallsAcross(e[1], e[2])}
  BY <1>2 DEF SeenOut
<1>6. \A c : SeenIn(L, c) = {n \in Modules : ClusterOf(n) = c /\ \E m \in Modules : CallsAcross(m, n)}
  <2> SUFFICES ASSUME NEW c
               PROVE SeenIn(L, c) = {n \in Modules : ClusterOf(n) = c /\ \E m \in Modules : CallsAcross(m, n)}
    OBVIOUS
  <2>1. ASSUME NEW n \in SeenIn(L, c)
        PROVE  n \in Modules /\ ClusterOf(n) = c /\ \E m \in Modules : CallsAcross(m, n)
    <3>1. PICK e \in Seen(L) : e[2] = n /\ ClusterOf(e[2]) = c
      BY DEF SeenIn
    <3>2. e[1] \in Modules /\ n \in Modules /\ CallsAcross(e[1], n)
      BY <1>2, <3>1
    <3>3. QED
      BY <3>1, <3>2
  <2>2. ASSUME NEW n \in Modules, ClusterOf(n) = c, NEW m \in Modules, CallsAcross(m, n)
        PROVE  n \in SeenIn(L, c)
    <3> DEFINE e == <<m, n>>
    <3>1. e \in Seen(L) /\ e[2] = n
      BY <1>3, <2>2
    <3> HIDE DEF e
    <3>2. QED
      BY <2>2, <3>1 DEF SeenIn
  <2>3. QED
    BY <2>1, <2>2
<1>7. ASSUME NEW n \in Modules
      PROVE  /\ Cardinality(EntriesFor(n)) = IF Callers(n) = {} THEN 0 ELSE 1
             /\ \A i \in EntriesFor(n) : /\ plan.dispatch[i].source = ClusterOf(n)
                                         /\ ListsOnce(plan.dispatch[i].callers, Callers(n))
  <2>1. \A i \in EntriesFor(n) : /\ plan.dispatch[i].source = ClusterOf(n)
                                 /\ ListsOnce(plan.dispatch[i].callers, Callers(n))
    <3> HIDE DEF Callers, L
    <3> SUFFICES ASSUME NEW i \in EntriesFor(n)
                 PROVE  /\ plan.dispatch[i].source = ClusterOf(n)
                        /\ ListsOnce(plan.dispatch[i].callers, Callers(n))
      OBVIOUS
    <3>1. i \in 1..Len(plan.dispatch) /\ plan.dispatch[i].callee = n
      BY DEF EntriesFor
    <3>2. EntryOK(plan.dispatch[i], L)
      BY <1>1, <3>1 DEF TableUpTo, EntriesUpTo
    <3>3. QED
      BY <1>4, <3>1, <3>2 DEF EntryOK
  <2>2. CASE EntriesFor(n) = {}
    <3>1. Callers(n) = {}
      <4> HIDE DEF Callers, L
      <4>1. \A e \in Seen(L) : e[2] # n
        BY <1>1, <2>2 DEF EntriesFor, TableUpTo, EntriesUpTo
      <4>2. SeenCallers(L, n) = {}
        BY <4>1 DEF SeenCallers
      <4>3. QED
        BY <1>4, <4>2
    <3>2. QED
      BY <2>1, <2>2, <3>1, FS_EmptySet
  <2>3. CASE EntriesFor(n) # {}
    <3>1. PICK f : f \in EntriesFor(n)
      BY <2>3
    <3>2. f \in 1..Len(plan.dispatch) /\ plan.dispatch[f].callee = n /\ EntriesUpTo(plan.dispatch, L)
      BY <1>1, <3>1 DEF EntriesFor, TableUpTo
    <3>3. EntriesFor(n) = {f}
      BY <3>2 DEF EntriesFor, EntriesUpTo
    <3>4. PICK e \in Seen(L) : e[2] = n
      BY <3>2 DEF EntriesUpTo, EntryOK
    <3>5. SeenCallers(L, n) # {}
      BY <3>4 DEF SeenCallers
    <3>6. Callers(n) # {}
      BY <1>4, <3>5
    <3>7. QED
      BY <2>1, <3>3, <3>6, FS_Singleton
  <2>4. QED
    BY <2>2, <2>3
<1>8. \A c \in 1..Len(clusters) :
        /\ ListsOnce(plan.outgoing[c],
             {e \in Modules \X Modules : ClusterOf(e[1]) = c /\ CallsAcross(e[1], e[2])})
        /\ ListsOnce(plan.incoming[c],
             {n \in Modules : ClusterOf(n) = c /\ \E m \in Modules : CallsAcross(m, n)})
  BY <1>1, <1>5, <1>6 DEF TableUpTo, LibrariesUpTo
<1>9. QED
  BY <1>7, <1>8 DEF DispatchIsExact

\* The loops over the calls and over the edges build a table in which a function has
\* one entry, of its own cluster, exactly when it is called from another one; the
\* entry names each calling cluster once, however the calls are ordered and repeated.
THEOREM DispatchCorrect == Spec => []DispatchIsExact
<1> DEFINE Inv == TInv /\ EdgesInv /\ TableInv
<1>1. Init => Inv
  <2>1. Init => EdgesInv /\ TableInv
    BY DEF Init, EdgesInv, TableInv
  <2>2. QED
    BY <2>1, InitTInv
<1>2. Inv /\ [Next]_topovars => Inv'
  BY NextTInv, NextDispatch
<1>3. Inv => DispatchIsExact
  BY TableIsExact DEF DispatchIsExact
<1>4. QED
  BY <1>1, <1>2, <1>3, PTL DEF Spec

-----------------------------------------------------------------------------
(* pin_together.  The dict keeps one anchor per name, so the pairs must not   *)
(* pin a function to two anchors.                                           *)

SinglePins ==
  \A p \in PinChoices : \A i, j \in 1..Len(p) :
    p[i][2] = p[j][2] /\ p[i][2] # NoFunction => p[i][1] = p[j][1]

\* The i-th call has its entry in the dict.
Recorded(i) ==
  pinCalls[i][2] # NoFunction =>
    \E k \in 1..Len(pins) : pins[k] = <<pinCalls[i][2], pinCalls[i][1]>>

PinsRecorded ==
  /\ stage = "pin" => done <= Len(pinCalls) /\ \A i \in 1..done : Recorded(i)
  /\ stage # "pin" => \A i \in 1..Len(pinCalls) : Recorded(i)

\* The k-th entry of the dict brought its two functions together.
Applied(k) ==
  NoFunction \notin {pins[k][1], pins[k][2]} => Together(pins[k][1], pins[k][2])

PinsApplied ==
  /\ stage = "override" => done <= Len(pins) /\ \A k \in 1..done : Applied(k)
  /\ stage \in {"edges", "dispatch", "done"} => \A k \in 1..Len(pins) : Applied(k)

LEMMA PinTogetherRecords ==
  ASSUME SinglePins, TypeOK, PinsRecorded, PinTogether
  PROVE  PinsRecorded'
<1> DEFINE name == pinCalls[done + 1][2]  anchor == pinCalls[done + 1][1]
<1>1. /\ done + 1 \in 1..Len(pinCalls) /\ \E k \in 1..Len(pins') : pins'[k] = <<name, anchor>>
      /\ \A k \in 1..Len(pins) :
           k \in 1..Len(pins') /\ (pins'[k] = pins[k] \/ (pins[k][1] = name /\ pins'[k] = <<name, anchor>>))
  BY PinTogetherPins
<1>2. /\ stage = "pin" /\ stage' = "pin" /\ done' = done + 1 /\ pinCalls' = pinCalls
      /\ done \in Nat /\ pinCalls \in PinChoices /\ Len(pinCalls) \in Nat
  BY TopologyAssumption DEF PinTogether, TypeOK, inputs
<1>3. \A i \in 1..Len(pinCalls) :
        pinCalls[i][2] = name /\ name # NoFunction => pinCalls[i][1] = anchor
  BY <1>1, <1>2 DEF SinglePins
<1>4. ASSUME NEW i \in 1..done, pinCalls[i][2] # NoFunction
      PROVE  \E k \in 1..Len(pins') : pins'[k] = <<pinCalls[i][2], pinCalls[i][1]>>
  <2>1. i \in 1..Len(pinCalls)
    BY <1>1, <1>2
  <2>2. PICK k \in 1..Len(pins) : pins[k] = <<pinCalls[i][2], pinCalls[i][1]>>
    BY <1>2, <1>4 DEF PinsRecorded, Recorded
  <2>3. pins[k][1] = pinCalls[i][2]
    BY <2>2
  <2>4. pins'[k] = <<pinCalls[i][2], pinCalls[i][1]>> /\ k \in 1..Len(pins')
    <3> HIDE DEF name, anchor
    <3> QED BY <1>1, <1>3, <1>4, <2>1, <2>2, <2>3
  <2>5. QED
    BY <2>4
<1>5. ASSUME NEW i \in 1..done', pinCalls[i][2] # NoFunction
      PROVE  \E k \in 1..Len(pins') : pins'[k] = <<pinCalls[i][2], pinCalls[i][1]>>
  <2>1. CASE i = done + 1
    BY <1>1, <2>1
  <2>2. CASE i # done + 1
    <3>1. i \in 1..done
      BY <1>2, <2>2
    <3>2. QED
      BY <1>4, <1>5, <3>1
  <2>3. QED
    BY <2>1, <2>2
<1>6. done' <= Len(pinCalls')
  BY <1>1, <1>2
<1>7. QED
  BY <1>2, <1>5, <1>6 DEF PinsRecorded, Recorded

LEMMA OverrideApplies ==
  ASSUME TypeOK, Partition, PinsApplied, Override
  PROVE  PinsApplied'
<1> DEFINE pin == pins[done + 1]
<1>1. /\ done + 1 \in 1..Len(pins) /\ pin \in Names \X Names
      /\ \/ SkipPair(pin) /\ clusters' = clusters
         \/ /\ ~SkipPair(pin) /\ pin[1] \in Modules /\ pin[2] \in Modules
            /\ ClusterOf(pin[2]) # ClusterOf(pin[1])
            /\ \E r \in Categories : Merged(ClusterOf(pin[2]), ClusterOf(pin[1]), r)
  BY OverrideMerges
<1>2. /\ stage = "override" /\ stage' = "override" /\ done' = done + 1 /\ pins' = pins
      /\ done \in Nat /\ clusters \in Seq(Cluster)
  BY DEF Override, TypeOK
<1>3. ASSUME NEW m, NEW n, Together(m, n)
      PROVE  Together(m, n)'
  <2>1. CASE clusters' = clusters
    BY <1>3, <2>1 DEF Together
  <2>2. CASE clusters' # clusters
    <3>1. PICK i, j \in 1..Len(clusters), r \in Categories : i # j /\ Merged(i, j, r)
      BY <1>1, <2>2, ClusterOfFinds
    <3>2. QED
      BY <1>2, <1>3, <3>1, MergeCoarsens
  <2>3. QED
    BY <2>1, <2>2
<1>4. ASSUME NEW a, NEW b, a = pin[1], b = pin[2], NoFunction \notin {a, b}
      PROVE  Together(a, b)'
  <2>1. a \in Modules /\ b \in Modules
    BY <1>1, <1>4 DEF Names
  <2> HIDE DEF pin
  <2>2. CASE SkipPair(pin)
    <3>1. Together(a, b)
      BY <1>4, <2>1, <2>2, TogetherMeansSame DEF SkipPair
    <3>2. QED
      BY <1>3, <3>1
  <2>3. CASE ~SkipPair(pin)
    <3>1. PICK r \in Categories : Merged(ClusterOf(b), ClusterOf(a), r)
      BY <1>1, <1>4, <2>3
    <3>2. /\ ClusterOf(a) \in 1..Len(clusters) /\ a \in clusters[ClusterOf(a)].modules
          /\ ClusterOf(b) \in 1..Len(clusters) /\ b \in clusters[ClusterOf(b)].modules
          /\ ClusterOf(b) # ClusterOf(a)
      BY <1>1, <1>4, <2>1, <2>3, ClusterOfFinds
    <3>3. QED
      BY <1>2, <3>1, <3>2, MergeJoins
  <2>4. QED
    BY <2>2, <2>3
<1>5. \A k \in 1..done : Applied(k)
  BY <1>2 DEF PinsApplied
<1>6. ASSUME NEW k \in 1..done'
      PROVE  Applied(k)'
  <2>1. CASE k = done + 1
    <3>1. \A a, b : a = pins[k][1] /\ b = pins[k][2] /\ NoFunction \notin {a, b} => Together(a, b)'
      BY <1>4, <2>1
    <3>2. QED
      BY <1>2, <3>1 DEF Applied
  <2>2. CASE k # done + 1
    <3>1. k \in 1..done
      BY <1>2, <2>2
    <3>2. Applied(k)
      BY <1>5, <3>1
    <3>3. QED
      BY <1>2, <1>3, <3>2 DEF Applied
  <2>3. QED
    BY <2>1, <2>2
<1>7. done' <= Len(pins')
  BY <1>1, <1>2
<1>8. QED
  BY <1>2, <1>6, <1>7 DEF PinsApplied

LEMMA NextPins ==
  ASSUME SinglePins, TInv, PinsRecorded, PinsApplied, [Next]_topovars
  PROVE  PinsRecorded' /\ PinsApplied'
<1>0. TypeOK /\ (Clustered => Partition)
  BY DEF TInv
<1>1. CASE PinTogether
  <2>1. stage' = "pin"
    BY <1>1 DEF PinTogether
  <2>2. PinsRecorded'
    BY <1>0, <1>1, PinTogetherRecords
  <2>3. QED
    BY <2>1, <2>2 DEF PinsApplied
<1>2. CASE Classify
  BY <1>2 DEF Classify, PinsRecorded, PinsApplied, Recorded, inputs
<1>3. CASE Merge
  BY <1>3 DEF Merge, PinsRecorded, PinsApplied, Recorded, inputs
<1>4. CASE MergeEnd
  <2>1. /\ stage = "merge" /\ stage' = "override" /\ done' = 0
        /\ UNCHANGED <<pins, pinCalls>> /\ Len(pins) \in Nat
    BY <1>0, <1>4 DEF MergeEnd, TypeOK, inputs
  <2>2. PinsRecorded'
    BY <2>1 DEF PinsRecorded, Recorded
  <2>3. done' <= Len(pins') /\ 1..done' = {}
    BY <2>1
  <2>4. QED
    BY <2>1, <2>2, <2>3 DEF PinsApplied
<1>5. CASE Override
  <2>1. PinsApplied'
    BY <1>0, <1>5, OverrideApplies DEF Override, Clustered
  <2>2. QED
    BY <1>5, <2>1 DEF Override, PinsRecorded, Recorded, inputs
<1>6. CASE OverrideEnd \/ ComputeEdge \/ PlanShared \/ AddDispatch \/ PlanEnd \/ PlanRelease
  <2>1. /\ UNCHANGED <<pinCalls, pins, clusters>> /\ stage' \in {"edges", "dispatch", "done"}
        /\ (stage = "override" /\ done = Len(pins)) \/ stage \in {"edges", "dispatch"}
    BY <1>6 DEF OverrideEnd, ComputeEdge, PlanShared, AddDispatch, PlanEnd, PlanRelease, inputs
  <2>2. QED
    BY <2>1 DEF PinsRecorded, PinsApplied, Recorded, Applied, Together
<1>7. CASE Done \/ UNCHANGED topovars
  <2>1. UNCHANGED <<pinCalls, pins, clusters, stage, done>>
    BY <1>7 DEF Done, topovars, inputs
  <2>2. QED
    BY <2>1 DEF PinsRecorded, PinsApplied, Recorded, Applied, Together
<1>8. QED
  BY <1>1, <1>2, <1>3, <1>4, <1>5, <1>6, <1>7 DEF Next

\* If no function is pinned to two anchors, every pin_together pair of functions
\* ends in one cluster, whatever the order of the pairs and of the merges.
THEOREM PinsCorrect == ASSUME SinglePins PROVE Spec => []PinsHold
<1> DEFINE Inv == TInv /\ PinsRecorded /\ PinsApplied
<1>1. Init => Inv
  <2>1. Init => PinsRecorded /\ PinsApplied
    <3>1. ASSUME Init PROVE pinCalls \in Seq(Names \X Names)
      BY <3>1, TopologyAssumption DEF Init
    <3>2. QED
      BY <3>1 DEF Init, PinsRecorded, PinsApplied
  <2>2. QED
    BY <2>1, InitTInv
<1>2. Inv /\ [Next]_topovars => Inv'
  BY NextTInv, NextPins
<1>3. Inv => PinsHold
  <2> SUFFICES ASSUME Inv, stage = "done", NEW i \in 1..Len(pinCalls),
                      NoFunction \notin {pinCalls[i][1], pinCalls[i][2]}
               PROVE  ClusterOf(pinCalls[i][1]) = ClusterOf(pinCalls[i][2])
    BY DEF PinsHold
  <2>1. pinCalls[i][1] \in Modules /\ pinCalls[i][2] \in Modules
    BY PairOfPin DEF TInv, Names
  <2>2. PICK k \in 1..Len(pins) : pins[k] = <<pinCalls[i][2], pinCalls[i][1]>>
    BY DEF PinsRecorded, Recorded
  <2>3. Together(pinCalls[i][2], pinCalls[i][1])
    BY <2>2 DEF PinsApplied, Applied
  <2>4. Partition
    BY DEF TInv, Clustered
  <2>5. QED
    BY <2>1, <2>3, <2>4, TogetherMeansSame
<1>4. QED
  BY <1>1, <1>2, <1>3, PTL DEF Spec
=============================================================================
