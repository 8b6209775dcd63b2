------------------------------ MODULE Topology ------------------------------
(***************************************************************************)
(* compiler/topology.py: from facts about the modules of a program to the   *)
(* shared libraries it is built into, and which of them may be hot-swapped.  *)
(* One behaviour is one build: the pin_together calls of the build file,     *)
(* then the steps of analyze() and generate_build_plan() in order.           *)
(*                                                                          *)
(* Modules are numbered in the order they were added.  The clusters of the   *)
(* analyzer always hold whole modules, so a cluster is a set of modules, and *)
(* a module stands for its functions: size of them, one of which the other   *)
(* modules call.                                                            *)
(***************************************************************************)
EXTENDS Naturals, FiniteSetsExt, SequencesExt

CONSTANTS
  NumModules,
  FactChoices,  \* what the compiler may know of a module
  ImportChoices, \* which modules each module imports, names of theirs or whole
  CallChoices,  \* lists of call edges <<caller, callee>>, one per call in the source
  PinChoices,   \* the pin_together calls of the build file
  Modes         \* subset of {"dev", "release", "service"}

Modules == 1..NumModules

\* What a pin_together call or a call edge may name: the function of a module,
\* or something that is no function of the modules analysed.
NoFunction == 0
Names == Modules \cup {NoFunction}

PURE           == "pure"
PROCESS_LOCAL  == "process-local"
RESOURCE_OWNER == "resource-owner"
ABI_ANCHOR     == "abi-anchor"

Acquires == {"file_open", "mutex_new"}   \* _RESOURCE_ACQUIRE
Releases == {"file_close", "mutex_free"} \* _RESOURCE_RELEASE

\* The facts of a module: the resource calls of its function, module-level
\* state, keep_alive(), @export functions, and how many functions it has.
Facts == [acquires : SUBSET Acquires, releases : SUBSET Releases, globals : BOOLEAN,
          keep : BOOLEAN, exports : BOOLEAN, size : Nat \ {0}]

ASSUME TopologyAssumption ==
  /\ NumModules \in Nat \ {0}
  /\ FactChoices \subseteq Facts
  /\ ImportChoices \subseteq [Modules -> SUBSET Modules]
  /\ CallChoices \subseteq Seq(Modules \X Names)
  /\ PinChoices \subseteq Seq(Names \X Names)
  /\ Modes \subseteq {"dev", "release", "service"}

VARIABLES
  facts, imports, calls, pinCalls, mode,  \* the program and the build file
  stage,     \* the next step of the analysis
  done,      \* items handled by that step: pin_together calls, pins, edges
  pins,      \* _overrides_pin: <<function, anchor>> in insertion order
  category,  \* ModuleData.reloadability
  clusters,  \* report.clusters, or the ones being merged: [modules, reload]
  merges,    \* merges done so far
  edges,     \* report.cross_cluster_edges, in the order of the calls
  plan       \* the BuildPlan

inputs == <<facts, imports, calls, pinCalls, mode>>
topovars == <<inputs, stage, done, pins, category, clusters, merges, edges, plan>>

\* dispatch is the list of entries [callee, source, callers]; outgoing and incoming
\* are what each library imports from and exports to the others.
NoPlan == [static |-> 0, reloadable |-> << >>, dispatch |-> << >>,
           outgoing |-> << >>, incoming |-> << >>]

\* A call of another module's function is a call of an imported name.
ImportsCover ==
  \A i \in 1..Len(calls) :
    calls[i][2] \in Modules \ {calls[i][1]} => calls[i][2] \in imports[calls[i][1]]

Init ==
  /\ facts \in [Modules -> FactChoices]
  /\ imports \in ImportChoices
  /\ calls \in CallChoices /\ ImportsCover
  /\ pinCalls \in PinChoices
  /\ mode \in Modes
  /\ stage = "pin" /\ done = 0
  /\ pins = << >> /\ category = [m \in Modules |-> PURE] /\ clusters = << >>
  /\ merges = 0 /\ edges = << >> /\ plan = NoPlan

-----------------------------------------------------------------------------
(* pin_together(anchor, name): the dict entry name -> anchor.               *)

EntryOf(name) == {i \in 1..Len(pins) : pins[i][1] = name}

PinTogether ==
  /\ stage = "pin" /\ done < Len(pinCalls)
  /\ LET anchor == pinCalls[done + 1][1]
         name   == pinCalls[done + 1][2]
     IN pins' = IF EntryOf(name) = {} THEN Append(pins, <<name, anchor>>)
                ELSE [i \in 1..Len(pins) |->
                        IF i \in EntryOf(name) THEN <<name, anchor>> ELSE pins[i]]
  /\ done' = done + 1
  /\ UNCHANGED <<inputs, stage, category, clusters, merges, edges, plan>>

-----------------------------------------------------------------------------
(* Step 1: _classify_modules.                                               *)

\* Some other module imports m or a name of m, whether or not it calls it.
DependedOn(m) == \E n \in Modules \ {m} : m \in imports[n]

\* The release names are never acquire names, so any acquisition counts.
HasResources(f) == f.acquires # {} /\ ~ (f.acquires \subseteq f.releases)

CategoryOf(m) ==
  IF facts[m].keep \/ HasResources(facts[m]) THEN RESOURCE_OWNER
  ELSE IF facts[m].globals THEN PROCESS_LOCAL
  ELSE IF DependedOn(m) /\ facts[m].exports THEN ABI_ANCHOR
  ELSE PURE

Classify ==
  /\ stage = "pin" /\ done = Len(pinCalls)
  /\ category' = [m \in Modules |-> CategoryOf(m)]
  /\ clusters' = [m \in Modules |-> [modules |-> {m}, reload |-> CategoryOf(m)]]
  /\ stage' = "merge"
  /\ UNCHANGED <<inputs, done, pins, merges, edges, plan>>

-----------------------------------------------------------------------------
(* Step 3: _build_clusters.  The two compatible clusters with the heaviest   *)
(* edge between them are merged, the first such pair in the list.           *)

Between(e, c, d) == e[1] \in c.modules /\ e[2] \in d.modules

\* An edge between modules weighs one.
Weight(c, d) ==
  Cardinality({i \in 1..Len(calls) : Between(calls[i], c, d) \/ Between(calls[i], d, c)})

Compatible(r1, r2) == r1 = PURE \/ r2 = PURE \/ r1 = r2

Priority(r) ==
  CASE r = RESOURCE_OWNER -> 3 [] r = ABI_ANCHOR -> 2 [] r = PROCESS_LOCAL -> 1 [] OTHER -> 0

\* Seeded bug: the merged cluster keeps the category of the first one.
MoreRestrictiveFirst(r1, r2) == r1

MoreRestrictive(r1, r2) == IF Priority(r2) > Priority(r1) THEN r2 ELSE r1

Mergeable ==
  {p \in (1..Len(clusters)) \X (1..Len(clusters)) :
     /\ p[1] < p[2]
     /\ Compatible(clusters[p[1]].reload, clusters[p[2]].reload)
     /\ Weight(clusters[p[1]], clusters[p[2]]) > 0}

Before(p, q) == p[1] < q[1] \/ (p[1] = q[1] /\ p[2] <= q[2])

BestPair(p) ==
  LET W(q) == Weight(clusters[q[1]], clusters[q[2]]) IN
  \A q \in Mergeable : W(p) > W(q) \/ (W(p) = W(q) /\ Before(p, q))

\* Seeded bug: cluster j keeps its functions.
MergeAndKeep(i, j, reload) ==
  [clusters EXCEPT ![i].modules = @ \cup clusters[j].modules, ![i].reload = reload]

\* Cluster j goes into cluster i and leaves the list.
MergeInto(i, j, reload) ==
  LET merged == [modules |-> clusters[i].modules \cup clusters[j].modules, reload |-> reload]
      old(k) == IF k = i THEN merged ELSE clusters[k]
  IN [k \in 1..(Len(clusters) - 1) |-> IF k < j THEN old(k) ELSE old(k + 1)]

\* Seeded bug: the loop stops after one merge.
MayMergeOnce == merges < 1 /\ Mergeable # {}

MayMerge == merges < 2 * NumModules /\ Mergeable # {}

Merge ==
  /\ stage = "merge" /\ MayMerge
  /\ \E p \in Mergeable :
       /\ BestPair(p)
       /\ clusters' = MergeInto(p[1], p[2],
                        MoreRestrictive(clusters[p[1]].reload, clusters[p[2]].reload))
  /\ merges' = merges + 1
  /\ UNCHANGED <<inputs, stage, done, pins, category, edges, plan>>

MergeEnd ==
  /\ stage = "merge" /\ ~MayMerge
  /\ stage' = "override" /\ done' = 0
  /\ UNCHANGED <<inputs, pins, category, clusters, merges, edges, plan>>

-----------------------------------------------------------------------------
(* Step 4: _apply_overrides.  The cluster of the function goes into the one  *)
(* of its anchor, whose category stays what it was.                         *)

ClusterOf(m) == CHOOSE i \in 1..Len(clusters) : m \in clusters[i].modules

\* Seeded bug: a pair that cannot be found also hides the next one.
SkipPairNext(pin) ==
  \/ NoFunction \in {pin[1], pin[2]} \/ ClusterOf(pin[1]) = ClusterOf(pin[2])
  \/ \E i \in 1..done : NoFunction \in {pins[i][1], pins[i][2]}

\* A warning for a name that is no function, nothing for two names together.
SkipPair(pin) ==
  NoFunction \in {pin[1], pin[2]} \/ ClusterOf(pin[1]) = ClusterOf(pin[2])

Override ==
  /\ stage = "override" /\ done < Len(pins)
  /\ LET pin == pins[done + 1] IN
       clusters' = IF SkipPair(pin) THEN clusters
                   ELSE LET dst == ClusterOf(pin[2])
                        IN MergeInto(dst, ClusterOf(pin[1]), clusters[dst].reload)
  /\ done' = done + 1
  /\ UNCHANGED <<inputs, stage, pins, category, merges, edges, plan>>

OverrideEnd ==
  /\ stage = "override" /\ done = Len(pins)
  /\ stage' = "edges" /\ done' = 0
  /\ UNCHANGED <<inputs, pins, category, clusters, merges, edges, plan>>

-----------------------------------------------------------------------------
(* Step 5: _compute_cross_cluster_edges.                                    *)

\* A call of something that is no function of the program crosses nothing.
Crosses(e) == e[2] # NoFunction /\ ClusterOf(e[1]) # ClusterOf(e[2])

ComputeEdge ==
  /\ stage = "edges" /\ done < Len(calls)
  /\ edges' = IF Crosses(calls[done + 1]) THEN Append(edges, calls[done + 1]) ELSE edges
  /\ done' = done + 1
  /\ UNCHANGED <<inputs, stage, pins, category, clusters, merges, plan>>

-----------------------------------------------------------------------------
(* generate_build_plan, and the flags generate_reload_init passes to         *)
(* nr_reload_register.                                                      *)

FunctionCount(c) == FoldFunction(+, 0, [m \in c.modules |-> facts[m].size])

Pinned == {RESOURCE_OWNER, ABI_ANCHOR}

\* The first of the largest pinned clusters is linked into the host, 0 if none is.
StaticCluster ==
  LET P == {i \in 1..Len(clusters) : clusters[i].reload \in Pinned}
      Largest(i) == \A j \in P :
        \/ FunctionCount(clusters[i]) > FunctionCount(clusters[j])
        \/ FunctionCount(clusters[i]) = FunctionCount(clusters[j]) /\ i <= j
  IN IF P = {} THEN 0 ELSE CHOOSE i \in P : Largest(i)

\* One library per cluster, and the host's.
PlanShared ==
  /\ stage = "edges" /\ done = Len(calls) /\ mode \in {"dev", "service"}
  /\ plan' = [static     |-> StaticCluster,
              reloadable |-> [i \in 1..Len(clusters) |-> i # StaticCluster],
              dispatch   |-> << >>,
              outgoing   |-> [i \in 1..Len(clusters) |-> << >>],
              incoming   |-> [i \in 1..Len(clusters) |-> << >>]]
  /\ stage' = "dispatch" /\ done' = 0
  /\ UNCHANGED <<inputs, pins, category, clusters, merges, edges>>

AppendOnce(s, x) == IF \E i \in 1..Len(s) : s[i] = x THEN s ELSE Append(s, x)

EntriesFor(callee) == {i \in 1..Len(plan.dispatch) : plan.dispatch[i].callee = callee}

NewEntry(e) == [callee |-> e[2], source |-> ClusterOf(e[2]), callers |-> <<ClusterOf(e[1])>>]

\* Seeded bug: only the first caller of a function is noted.
WithCallOnce(e) ==
  IF EntriesFor(e[2]) = {} THEN Append(plan.dispatch, NewEntry(e)) ELSE plan.dispatch

\* The table with the call e: a new entry for a callee not seen before, else one
\* more caller of its first entry.
WithCall(e) ==
  IF EntriesFor(e[2]) = {} THEN Append(plan.dispatch, NewEntry(e))
  ELSE [i \in 1..Len(plan.dispatch) |->
          IF i \in EntriesFor(e[2]) /\ \A j \in EntriesFor(e[2]) : i <= j
          THEN [plan.dispatch[i] EXCEPT !.callers = AppendOnce(@, ClusterOf(e[1]))]
          ELSE plan.dispatch[i]]

AddDispatch ==
  /\ stage = "dispatch" /\ done < Len(edges)
  /\ LET e == edges[done + 1] IN
       plan' = [plan EXCEPT !.dispatch = WithCall(e),
                            !.outgoing[ClusterOf(e[1])] = AppendOnce(@, e),
                            !.incoming[ClusterOf(e[2])] = AppendOnce(@, e[2])]
  /\ done' = done + 1
  /\ UNCHANGED <<inputs, stage, pins, category, clusters, merges, edges>>

PlanEnd ==
  /\ stage = "dispatch" /\ done = Len(edges)
  /\ stage' = "done"
  /\ UNCHANGED <<inputs, done, pins, category, clusters, merges, edges, plan>>

\* Everything in one static binary: one target, no dispatch table.
PlanRelease ==
  /\ stage = "edges" /\ done = Len(calls) /\ mode = "release"
  /\ plan' = [NoPlan EXCEPT !.static = 1, !.reloadable = <<FALSE>>,
                            !.outgoing = << << >> >>, !.incoming = << << >> >>]
  /\ stage' = "done"
  /\ UNCHANGED <<inputs, done, pins, category, clusters, merges, edges>>

Done == stage = "done" /\ UNCHANGED topovars

Next ==
  \/ PinTogether \/ Classify \/ Merge \/ MergeEnd \/ Override \/ OverrideEnd
  \/ ComputeEdge \/ PlanShared \/ AddDispatch \/ PlanEnd \/ PlanRelease \/ Done

Spec == Init /\ [][Next]_topovars

-----------------------------------------------------------------------------
(* Properties.                                                              *)

Clustered == stage # "pin"

\* Every module is in exactly one cluster, through merges and overrides: no
\* function is lost or linked twice.
EveryModuleInOneCluster ==
  Clustered =>
    \A m \in Modules : Cardinality({i \in 1..Len(clusters) : m \in clusters[i].modules}) = 1

\* The greedy merge never hides a restrictive module in a freer cluster, and
\* never puts two different restrictions together: until the overrides, a
\* cluster's category is that of each of its modules that is not pure.
MergeKeepsCategories ==
  stage = "merge" \/ (stage = "override" /\ done = 0) =>
    \A i \in 1..Len(clusters) : \A m \in clusters[i].modules :
      \/ category[m] = clusters[i].reload
      \/ category[m] = PURE

\* The merge loop runs to the end whatever its cap: no two compatible clusters
\* that call each other are left apart.
MergeIsComplete == stage = "override" /\ done = 0 => Mergeable = {}

\* pin_together: "Force functions/modules into the same cluster.", for every pair
\* of functions the build file names, in whatever order the pairs are merged.
PinsHold ==
  stage = "done" /\ mode # "release" =>
    \A i \in 1..Len(pinCalls) :
      NoFunction \notin {pinCalls[i][1], pinCalls[i][2]} =>
        ClusterOf(pinCalls[i][1]) = ClusterOf(pinCalls[i][2])

CallsAcross(m, n) ==
  ClusterOf(m) # ClusterOf(n) /\ \E i \in 1..Len(calls) : calls[i] = <<m, n>>

\* s lists the members of S, each once.
ListsOnce(s, S) ==
  /\ {s[i] : i \in 1..Len(s)} = S
  /\ \A i, j \in 1..Len(s) : s[i] = s[j] => i = j

\* However often, and from however many clusters, a function is called: if a call
\* leaves its cluster the function has one entry of the dispatch table, which its
\* own cluster registers and which names each calling cluster once; if none does
\* it has no entry.  The libraries' imports and exports are those calls and no more.
DispatchIsExact ==
  stage = "done" /\ mode # "release" =>
    /\ \A n \in Modules :
         LET callers == {ClusterOf(m) : m \in {k \in Modules : CallsAcross(k, n)}} IN
         /\ Cardinality(EntriesFor(n)) = IF callers = {} THEN 0 ELSE 1
         /\ \A i \in EntriesFor(n) : /\ plan.dispatch[i].source = ClusterOf(n)
                                     /\ ListsOnce(plan.dispatch[i].callers, callers)
    /\ \A c \in 1..Len(clusters) :
         /\ ListsOnce(plan.outgoing[c],
              {e \in Modules \X Modules : ClusterOf(e[1]) = c /\ CallsAcross(e[1], e[2])})
         /\ ListsOnce(plan.incoming[c],
              {n \in Modules : ClusterOf(n) = c /\ \E m \in Modules : CallsAcross(m, n)})
===========================================================================
