--------------------------- MODULE ReloadManager ---------------------------
(***************************************************************************)
(* The hot-swap machinery of a topology build: nr_topology_init and the      *)
(* nr_topology_* entry points that compiler/topology.py generates, over      *)
(* NrReloadManager and hotreload_open/sym/close of runtime/nathra_rt.h.      *)
(*                                                                          *)
(* One thread drives the manager; the developer relinks libraries and other  *)
(* threads call functions of the clusters through the dispatch table at any  *)
(* time.  The dynamic loader is external: dlopen of a library that is still  *)
(* mapped returns that mapping, dlclose unmaps when nobody is left.          *)
(***************************************************************************)
EXTENDS Naturals, FiniteSets

CONSTANTS
  NumClusters,  \* the shared_libs of the build plan
  Pinned,       \* plan.pinned_cluster, or None if there is none
  HostLinked,   \* clusters the host executable was linked with (-l): mapped from the start
  Stateful,     \* clusters of category process-local
  Exporting,    \* what a linked library may be: TRUE if dlsym finds its register function
  MaxVersion,   \* bound: how often a library is linked
  MaxGeneration \* bound: how often a library is loaded

None == 0
Clusters == 1..NumClusters

ASSUME ReloadAssumption ==
  /\ NumClusters \in Nat /\ MaxVersion \in Nat /\ MaxGeneration \in Nat \ {0}
  /\ Pinned \in Clusters \cup {None}
  /\ HostLinked \subseteq Clusters \ {Pinned}
  /\ Stateful \subseteq Clusters
  /\ Exporting \subseteq BOOLEAN /\ Exporting # {}

Libs == [version : 1..MaxVersion, exports : Exporting]
NoFile == [version |-> 0]
Mappings == [lib : Libs, at : Nat \ {0}]
NotMapped == [at |-> 0]
Nothing == [at |-> 0]

VARIABLES
  file,        \* what the path of a cluster holds
  versions,    \* how often each library has been linked
  mapped,      \* the mapping of a cluster's library: the library and its address
  refs,        \* the loader's count for that mapping
  mappings,    \* addresses given out
  data,        \* the globals of the mapped library: "initial" or "used"
  count,       \* rm->count
  handle,      \* clusters[id].handle # NULL
  generation,  \* clusters[id].generation
  table,       \* nr_dispatch: the address a cluster's functions were registered at, or None
  pc, op, cur, \* where the manager is: in which call, at which cluster
  failures,    \* of nr_reload_all
  before       \* history: mapping and globals the load in progress started from

loader  == <<file, versions, mapped, refs, mappings>>
manager == <<count, handle, generation>>
reloadvars == <<loader, manager, data, table, pc, op, cur, failures, before>>

Init ==
  /\ file \in [Clusters -> {l \in Libs : l.version = 1}]
  /\ versions = [c \in Clusters |-> 1]
  /\ mapped = [c \in Clusters |->
                 IF c \in HostLinked THEN [lib |-> file[c], at |-> c] ELSE NotMapped]
  /\ refs = [c \in Clusters |-> IF c \in HostLinked THEN 1 ELSE 0]
  /\ mappings = NumClusters
  /\ data = [c \in Clusters |-> "initial"]
  /\ count = 0
  /\ handle = [c \in Clusters |-> FALSE] /\ generation = [c \in Clusters |-> 0]
  /\ table = [c \in Clusters |-> None]
  /\ pc = "register" /\ op = "init" /\ cur = None /\ failures = 0 /\ before = Nothing

-----------------------------------------------------------------------------
(* The developer and the threads of the program.                            *)

\* A library is linked again: ld writes a new file at the path.
Relink(c) ==
  /\ versions[c] < MaxVersion
  /\ versions' = [versions EXCEPT ![c] = @ + 1]
  /\ \E x \in Exporting :
       file' = [file EXCEPT ![c] = [version |-> versions[c] + 1, exports |-> x]]
  /\ UNCHANGED <<mapped, refs, mappings, manager, data, table, pc, op, cur, failures, before>>

\* A link that fails leaves no file.
LinkFails(c) ==
  /\ versions[c] < MaxVersion /\ file[c] # NoFile
  /\ file' = [file EXCEPT ![c] = NoFile]
  /\ UNCHANGED <<versions, mapped, refs, mappings, manager, data, table, pc, op, cur, failures, before>>

Callable(c) == refs[c] > 0 /\ table[c] = mapped[c].at

\* A call through the dispatch table changes the globals of the module.
Use(c) ==
  /\ Callable(c) /\ data[c] = "initial"
  /\ data' = [data EXCEPT ![c] = "used"]
  /\ UNCHANGED <<loader, manager, table, pc, op, cur, failures, before>>

-----------------------------------------------------------------------------
(* nr_reload_load, and the loops that call it.                              *)

Reloadable(c) == c # Pinned

\* The clusters after c that nr_topology_init and nr_reload_all load.
Later(c) == {d \in 1..count : d > c /\ Reloadable(d)}

\* What nr_state_save would look at.
Running(c) == IF handle[c] THEN [at |-> mapped[c].at, data |-> data[c]] ELSE Nothing

\* The call of nr_reload_load(c) begins.
Enter(c) == pc' = "close" /\ cur' = c /\ before' = Running(c)

\* A loop over the clusters S, in order: the first is loaded, or the call returns.
EnterFirst(S) ==
  \/ S = {} /\ pc' = "idle" /\ UNCHANGED <<cur, before>>
  \/ \E d \in S : (\A e \in S : d <= e) /\ Enter(d)

\* It answers: the loop goes on to the next cluster, or its caller returns.
Answer(ok) ==
  /\ failures' = IF op = "all" /\ ~ok THEN failures + 1 ELSE failures
  /\ EnterFirst(IF op = "reload" THEN {} ELSE Later(cur))

\* Seeded bug: the old handle is overwritten without closing it.
LoadCloseForgotten ==
  /\ pc = "close"
  /\ handle' = [handle EXCEPT ![cur] = FALSE] /\ pc' = "open"
  /\ UNCHANGED <<loader, data, count, generation, table, op, cur, failures, before>>

LoadClose ==
  /\ pc = "close"
  /\ IF handle[cur]
     THEN /\ refs' = [refs EXCEPT ![cur] = @ - 1]
          /\ mapped' = IF refs[cur] = 1 THEN [mapped EXCEPT ![cur] = NotMapped] ELSE mapped
          /\ handle' = [handle EXCEPT ![cur] = FALSE]
     ELSE UNCHANGED <<refs, mapped, handle>>
  /\ pc' = "open"
  /\ UNCHANGED <<file, versions, mappings, data, count, generation, table, op, cur, failures, before>>

\* dlopen of a library that is mapped: the same mapping once more.
LoadOpenAgain ==
  /\ pc = "open" /\ refs[cur] > 0
  /\ refs' = [refs EXCEPT ![cur] = @ + 1]
  /\ handle' = [handle EXCEPT ![cur] = TRUE] /\ pc' = "symbol"
  /\ UNCHANGED <<file, versions, mapped, mappings, data, count, generation, table, op, cur,
                 failures, before>>

\* dlopen maps the file at the path; its globals have their initial values.
LoadOpenFile ==
  /\ pc = "open" /\ refs[cur] = 0 /\ file[cur] # NoFile
  /\ mappings' = mappings + 1
  /\ mapped' = [mapped EXCEPT ![cur] = [lib |-> file[cur], at |-> mappings + 1]]
  /\ refs' = [refs EXCEPT ![cur] = 1]
  /\ data' = [data EXCEPT ![cur] = "initial"]
  /\ handle' = [handle EXCEPT ![cur] = TRUE] /\ pc' = "symbol"
  /\ UNCHANGED <<file, versions, count, generation, table, op, cur, failures, before>>

\* dlopen fails: the handle stays NULL and nothing else is changed.
LoadFails ==
  /\ pc = "open" /\ refs[cur] = 0 /\ file[cur] = NoFile
  /\ Answer(FALSE)
  /\ UNCHANGED <<loader, manager, data, table, op>>

\* Seeded bug: only the first load of a cluster registers its functions.
RegistersOnce == mapped[cur].lib.exports /\ generation[cur] = 0

Registers == mapped[cur].lib.exports

\* The library's register function, if dlsym finds it, sets the table's entries.
LoadRegister ==
  /\ pc = "symbol"
  /\ table' = IF Registers THEN [table EXCEPT ![cur] = mapped[cur].at] ELSE table
  /\ generation' = [generation EXCEPT ![cur] = @ + 1]
  /\ Answer(TRUE)
  /\ UNCHANGED <<loader, data, count, handle, op>>

-----------------------------------------------------------------------------
(* The generated entry points.                                              *)

\* nr_topology_init: one nr_reload_register per cluster, room for all of them.
InitRegister ==
  /\ pc = "register" /\ count < NumClusters
  /\ count' = count + 1
  /\ UNCHANGED <<loader, handle, generation, data, table, pc, op, cur, failures, before>>

\* Then the clusters that are not pinned are loaded; the answers are ignored.
InitLoad ==
  /\ pc = "register" /\ count = NumClusters
  /\ EnterFirst(Later(None))
  /\ UNCHANGED <<loader, manager, data, table, op, failures>>

CanStart == pc = "idle" /\ \A c \in Clusters : generation[c] < MaxGeneration

\* Seeded bug: a pinned cluster is loaded like any other.
MayReloadAny(c) == c \in 1..count

MayReload(c) == c \in 1..count /\ Reloadable(c)

\* nr_topology_reload(name): an unknown name and a pinned cluster are refused.
Reload(c) ==
  /\ CanStart /\ op' = "reload"
  /\ IF MayReload(c) THEN Enter(c) ELSE UNCHANGED <<pc, cur, before>>
  /\ UNCHANGED <<loader, manager, data, table, failures>>

NoFailures == 0

\* nr_topology_reload_all.
ReloadAll ==
  /\ CanStart /\ op' = "all" /\ failures' = NoFailures
  /\ EnterFirst(Later(None))
  /\ UNCHANGED <<loader, manager, data, table>>

\* nr_topology_shutdown closes every handle and empties the manager.
Shutdown ==
  /\ pc = "idle" /\ count > 0
  /\ LET closed == {c \in 1..count : handle[c]} IN
       /\ refs' = [c \in Clusters |-> IF c \in closed THEN refs[c] - 1 ELSE refs[c]]
       /\ mapped' = [c \in Clusters |->
                       IF c \in closed /\ refs[c] = 1 THEN NotMapped ELSE mapped[c]]
       /\ handle' = [c \in Clusters |-> FALSE]
  /\ count' = 0 /\ op' = "shutdown"
  /\ UNCHANGED <<file, versions, mappings, generation, data, table, pc, cur, failures, before>>

ManagerStep ==
  \/ InitRegister \/ InitLoad \/ LoadClose \/ LoadOpenAgain \/ LoadOpenFile \/ LoadFails
  \/ LoadRegister \/ ReloadAll \/ Shutdown
  \/ \E c \in Clusters : Reload(c)

\* The program may go on without the manager.
Quiet == pc = "idle" /\ UNCHANGED reloadvars

Next == ManagerStep \/ Quiet \/ \E c \in Clusters : Relink(c) \/ LinkFails(c) \/ Use(c)

Spec == Init /\ [][Next]_reloadvars

-----------------------------------------------------------------------------
(* Properties.                                                              *)

TypeOK ==
  /\ file \in [Clusters -> Libs \cup {NoFile}]
  /\ versions \in [Clusters -> 1..MaxVersion]
  /\ mapped \in [Clusters -> Mappings \cup {NotMapped}]
  /\ \A c \in Clusters : mapped[c].at \in 0..mappings
  /\ refs \in [Clusters -> 0..2] /\ mappings \in Nat
  /\ data \in [Clusters -> {"initial", "used"}]
  /\ count \in 0..NumClusters /\ handle \in [Clusters -> BOOLEAN]
  /\ generation \in [Clusters -> 0..MaxGeneration] /\ table \in [Clusters -> 0..mappings]
  /\ pc \in {"register", "idle", "close", "open", "symbol"}
  /\ op \in {"init", "reload", "all", "shutdown"}
  /\ cur \in Clusters \cup {None} /\ (pc \in {"close", "open", "symbol"} => cur \in 1..count)
  /\ failures \in 0..NumClusters

\* The loader's count of a library is what the manager and the host hold of it,
\* at every step of every load: no load leaks a mapping or closes it twice.
RefsMatchHandles ==
  \A c \in Clusters :
    /\ refs[c] = (IF handle[c] THEN 1 ELSE 0) + (IF c \in HostLinked THEN 1 ELSE 0)
    /\ refs[c] = 0 <=> mapped[c] = NotMapped

\* Between two calls of the manager an entry of the table that points to code
\* that is gone belongs to a cluster whose load failed, or to one whose new
\* library has no register function.
DanglingOnlyAfterFailure ==
  pc = "idle" /\ count > 0 =>
    \A c \in Clusters :
      \/ table[c] = None
      \/ Callable(c)
      \/ ~handle[c]
      \/ ~mapped[c].lib.exports

\* The pinned cluster is linked into the host: no call ever loads a library for
\* it or redirects its functions.
PinnedStaysOut ==
  Pinned # None => generation[Pinned] = 0 /\ ~handle[Pinned] /\ (pc # "register" => cur # Pinned)

\* A load that succeeds runs the library that is at the path, when the host does
\* not hold the cluster's library itself: no earlier load left its mapping behind.
LoadsTheFile ==
  [][pc = "open" /\ pc' = "symbol" /\ cur \notin HostLinked =>
       mapped'[cur].lib = file[cur]]_reloadvars
=============================================================================
