# A TLA+ development for nathra

nathra compiles a typed subset of Python to C. The repository holds the
compiler (`compiler/`, and its rewrite in its own language under `native/`),
the C runtime every compiled program includes (`runtime/nathra_rt.h`), the
build runner and the command line tools (`lib/build.py`, `cli/`). This
directory models the parts in which order, concurrency, failure or the meaning
of a translation decide whether the program is right, checks them with TLC on
small instances and proves the main invariants with TLAPS for every value of
their constants.

Contents: [the system](#the-system), [modules](#modules),
[runs](#runs-bounds-and-what-they-show), [fairness](#fairness),
[proofs](#proofs), [disagreements](#disagreements-with-the-documentation),
[not modelled](#not-modelled), [plan](#plan).

## The system

How the parts interact: the driver (`cli/nathra.py`) or a build file
(`lib/build.py`) runs the compiler on each source; the compiler parses it with
Python's `ast`, analyses it, and prints C that includes the runtime. The native
compiler gets the same tree as bytes and does the same. With `--topology` the
build runner hands what the compilers know to the topology analyzer, whose plan
decides which modules become shared libraries; the generated host program
drives them with the runtime's reload manager. A compiled program's threads
meet in the runtime's channels and pools. The REPL compiles everything typed so
far into a library, loads it and carries the globals over.

| component | state | operations | hard behaviours | what makes it correct | module |
|---|---|---|---|---|---|
| Channel (`nathra_rt.h` 473-590) | ring, head, tail, count, closed; one mutex, two conditions | new, send, recv, recv_val, try_recv_result, drain, has_data, close, free | producers, consumers and a closer in any order; wakeups; close with sleepers | FIFO, nothing lost or twice, nobody asleep beside work, end of stream only when drained, calls return after close | `Channel` |
| Thread pool (592-644) | a channel of tasks, worker threads | new, submit, worker, shutdown | tasks that submit tasks, shutdown against submitters, lifetime of task and pool | a task is run once and freed once; shutdown frees when nobody is inside and comes to its end | `ThreadPool` |
| Topology (`compiler/topology.py`) | module facts, call edges, overrides, clusters | add_module, add_call_edges, pin_together, keep_alive, analyze, generate_build_plan | merging moves modules between clusters; overrides against categories | clusters partition the modules, restrictions survive merges, pins hold, dispatch is exact | `Topology` |
| Reload manager (`nathra_rt.h` 1006-1128, generated init) | clusters: handle, generation, reloadable; dispatch table | register, load, reload, by_name, all, free | failed loads, the loader's reference counts, relinks in between | handles match mappings, no dangling entry without a failure, pinned code is never loaded | `ReloadManager` |
| StrMap, StrSet (`native/src/strmap.py`) | slots, states, hashes, count | set, get, has, delete, grow | tombstones in probe chains | refine a map and a set | `StrMap` |
| Build runner (`lib/build.py`), driver (`cli/nathra.py`) | targets, stamps in the files, the time last seen | exe, lib, run, build_with_topology; build_once, watch | stale outputs, dependencies, failures half way, edits during a build | an output is as new as what it is made of, the last edit is built | `Build` |
| REPL (`cli/snekc.py`) | lists of definitions and evaluations, a library, saved globals | add_input, compile_and_run, rollback, export, import | a failed input, changed types, re-evaluation | a failed input leaves no trace, values persist, every statement runs | `Repl` |
| Compiler analyses (`compiler/compiler.py`) | facts per function and variable | own, escape, leak, inferred types; null, cold, inline, layout | joins of branches, loops, early exits | sound against the paths of the program | `Flow`, `Expressions` |
| Code generation (`codegen_*.py`, `native_codegen_*.py`) | defer stack, scopes, statements ahead | one function per statement and expression | early exits through defers and with blocks, order of arms, what is evaluated twice | C does what the source says, in both compilers | `Flow`, `Control`, `Expressions` |
| Syntax trees as bytes (`ast_serial.py`, `ast_nodes.py`) | byte stream | write node, read node | a writer and two readers, each with its own table of fields | reading inverts writing | `AstSerial` |
| Object graphs as bytes (`_emit_graph_serialization`) | set of objects seen, records | collect, save, load | shared objects, back references, cycles, order of the records | the graph loaded is the one saved | `GraphSerial` |
| Threads, atomics, parallel_for (404-470, 646-690) | none | spawn, join, chunked loop | chunk boundaries, failed creation | the chunks partition the range | |
| Arena, NrWriter/NrReader (920-985, 1130-1260) | buffer, position, error flag | alloc, reset; read/write | growth moves the buffer; truncated input | what is written is read | |
| Lists, strings, dict (89-400) | arrays with count and capacity | append, insert, remove, get, set | growth, boundaries | refine sequences and maps | |

Every hazard of the parts modelled is listed with its line in `PROJECT.json`.

## Modules

| module | what it is |
|---|---|
| `BoundedQueue` | abstract specification: a bounded FIFO queue that can be closed, whose calls take effect at one instant between call and return |
| `Channel` | `NrChannel`, every call step by step over its mutex and condition variables; implements `BoundedQueue` |
| `ThreadPool` | `nr_pool_*` over `Channel` |
| `Topology` | `TopologyAnalyzer` and `generate_build_plan` |
| `ReloadManager` | `NrReloadManager`, the generated entry points, the dynamic loader around them |
| `StringMap` | abstract specification: a map keyed by strings |
| `StrMap` | `StrMap` and `StrSet` of `native/src/strmap.py`; implements `StringMap` |
| `Build` | build runner, driver with its watch loop, imports and stamps of the compiler |
| `Repl` | the interactive shell |
| `Flow` | functions on all their paths: ownership, escape and leak analyses, deferred calls and early exits in C |
| `Control` | loops, matches, with blocks and `@unroll`, in both compilers' C |
| `Expressions` | types, operators, checks and assignments, in both compilers' C |
| `AstSerial` | the binary form of syntax trees, its writer and its two readers |
| `GraphSerial` | the generated `save_X` and `load_X` for graphs of objects |
| `ChannelProofs`, `PoolProofs`, `TopologyProofs`, `ReloadProofs`, `StrMapProofs`, `FlowProofs` | theorems about the module of that name |
| `ToolProofs` | theorems about `Repl` and `Build` |
| `FormatProofs` | theorems about `GraphSerial` and `AstSerial` |
| `MC*` | the constants of the runs |

In every module an operator marked "Seeded bug" is a wrong variant of the
definition that follows it. Nothing uses it; substituting it for that
definition must make the property it is paired with fail (`mutants` in
`PROJECT.json`). `MCTranslation` (`Control`, `Expressions`), `MCFormats` (`AstSerial`,
`GraphSerial`) and `MCTools` (`Build`, `Repl`) check two independent modules in one run: a variable `part` says which of
the two a behaviour belongs to.

### Channel

A thread is a record of `pc` and of the call it is in. A call is cut where the
code can be interleaved: at `nr_mutex_lock` (`Acquire`), at each decision under
the lock (`SendWait`, `SendRefused`, `SendPut`, `RecvWait`, `RecvClosed`,
`RecvTake`, `CloseSet`, `HasData`), at each condition-variable operation
(`Signal`, `Broadcast`, `Sleep`, `SpuriousWakeup`) and at `nr_mutex_unlock`
(`Unlock`). `nr_cond_wait` releases the mutex and sleeps in one step, as POSIX
says; a woken thread competes for the mutex again; a sleeper may wake without a
signal. `nr_cond_signal` wakes any one sleeper of that condition. `count`,
`head`, `tail` and the buffer are the fields of the struct; messages are model
values. `sent` and `received` are history variables: what was put into the ring
and what came out, in order. The Windows branch has the same structure and is
not distinguished.

`LinearizableQueue` says that `Channel` implements `BoundedQueue` under the
mapping `Queue` of `Channel` (`Phase` is where a call is): a call takes effect
when its critical section decides it.

### ThreadPool

Adds to `Channel` the workers, the owner of the pool and other threads that
submits. A task may itself submit a task. Task memory has a state of its own
(`free`, allocated, running, freed), so that use after free and double free are
visible; the pool's memory is `freed` by the last step of `nr_pool_shutdown`.
`pthread_create` does not fail in the model.

### Topology

One behaviour is one build: the pins of the build file, then `_classify_modules`,
one step per merge of `_build_clusters`, one step per entry of
`_apply_overrides`, per call of `_compute_cross_cluster_edges` (`ComputeEdge`) and
per edge of the dispatch loop of `generate_build_plan` (`AddDispatch`, with the skip
of what is no function, the entry of a callee seen before, the callers and the
libraries' imports and exports noted once).
The analyzer's clusters hold whole modules, so a cluster is a set of modules
with a category; a module stands for its functions, of which the others call
one. The program is a list of call edges, one per call, in the order of the source,
with repetitions, and what each module imports, which decides the category of
`abi-anchor` whether or not anything is called. A cross-module edge weighs one.
Modules without functions drop out of the analysis in the code and are not in
the model. A pin may name something that is no function (the code warns and
goes on). The heap-violation warnings and the ABI hash change no decision of
the plan and are left out.

### ReloadManager

`InitRegister` and `InitLoad` are the body of the generated `nr_topology_init`;
`Reload`, `ReloadAll` and `Shutdown` the other generated entry points. A call of
`nr_reload_load` is three steps (close, open, register), because links of the
developer (`Relink`, `LinkFails`) and calls of other threads (`Use`) may fall
between them. The dynamic loader is external: it keeps a count per library,
gives the same mapping out while the count is positive and maps the file
otherwise. `HostLinked` are the clusters the host executable holds from the
start, as `build_with_topology` passes `-l` for them; a linker that drops
unneeded libraries makes the set smaller, so the run has one cluster of each
kind. `before` is a history variable.

### StrMap

One behaviour is the life of one table, a map or a set (`kind`). A slot is empty,
a tombstone, or holds a key with its value; hashes are a parameter (`HashOf`) and
the probe sequence is computed with the code's own `& (cap - 1)`. The two kinds
differ in where a new key goes (`Candidates`): `_strmap_find_slot` looks for the key
to the end of the chain before it settles for a tombstone, `strset_add` does not.
Growing is one step per old slot, as each is a call of the adding function; between
calls nobody sees a table that is half moved. Slot -1, which `_strmap_find_slot`
answers when it finds nothing, sets `broken`. `strset_delete` has no caller in the
compiler and is only enabled for the kinds in `DeletesFrom`.

### Build

A source is a time of modification and whether it compiles; a C file is the source
it was made from, its stamp, the names in it and when it was written; a program is
the C files it was linked from. `Edit` may happen between builds, and during builds
for the tools in `EditedBuilds`. `stack` holds the calls of `compile_file` and
`compile_dependency` that wait for each other, so that the order in which files are
written, the set of compiled files and a failure half way are those of the code.
`compile_dependency` writes what its first importer asks for (`Generated`). `Link`
is the end of `_link_exe`, `_link_static` and of `build_once`, `LinkClusters` that of
`build_with_topology`, with any partition of the target's sources; the host is linked
from the pinned cluster, or from the first source when nothing is pinned (`Host`).
`Needed` is what the main module imports, directly or not: the modules in every set
that contains it and is closed under imports. Times are even
numbers: the stamp of a C file is rounded down by the driver and comes out just
below the time it was made from (`Stamps`).

### Repl

Inputs have identities; what one says is its kind, what it names and whether it
compiles. One input is read (`AddStruct`, `AddFunction`, `AddGlobal`, `AddStatement`),
compiled with everything before it (`CompileFails` with its rollback,
`CompileSucceeds`), loaded with the values of the globals carried over (`Load`) and its
evaluation called (`CallEval`). A variable's type is a C type ctypes has, by its size, one it does not
have (`Opaque`), or a struct, whose layout may change when it is defined again
(`Layout`). Export and import pass over the opaque ones. A variable that was narrower in
the old library is read over its end (`Garbage`). Input that does not parse changes
nothing. A struct in a struct counts as its layout.

### Flow

Functions in three kinds: with an `own` parameter, with a local list, and with
deferred calls only. A body is the list of its lines, with a line where an arm or a
block ends (`Proper` says how they fit together). The code's walks over the tree are
walks over the lines: what a walk knows in front of a line is computed from what it
knew in front of earlier ones, so that the end of an `if` joins the ends of its two
arms, and a list of these (`own`, `leak`, `defers`) grows by one line per step.
`phase` says which walk is under way: `_own_analyze` for owned parameters,
`_check_leaks_func` for locals that are consumed, then `compile_stmt` with its
`defer_stack`. Then the C runs, taking every branch either way and every loop up to
`MaxLoops` times; an exit writes its deferred calls into `calls`, which are made one
by one. A body of a `with` is not looked at by `_own_analyze` (`"skipped"`), what
follows an exit in its arm is not looked at by `_check_leaks_func` (`out`), and an arm
that only raises becomes a function of its own (`Split`). A returned value is kept
before the calls written at the exit (`returnuse`); the elements of a tuple are read
after them (`returntuple`, `Leave`). `faults`, `due` and `done`
are history variables. Assignments that move an owned value, rebinding, and locals on
the stack (`alloca`), method calls on the value, `match`, and tuples with arrays in them (which are kept first,
like other values) are left out. `Flow` is about the
Python compiler: the native one writes a `defer` as a comment and frees nothing by
itself.

### Control

`Run` is the meaning of statements, of the source and of C: the sequence of events
and how the statements are left. `PyFunction` and `NatCode` are the two compilers. A
behaviour chooses a program and a compiler, compiles, and runs. A `range` of the source
evaluates its bounds and step once; the loop of C (`For`) looks at stop and step again in
every turn, has the comparison that the text of the step asks for, and counts in the
variable that the body sees. Both are in terms of a variable `v` (`Signed`) or of numbers.
The two properties compare with the run of the source: events, how it ends, and the value
of `v`. They name, in `Steady`, `Plain`, `Unrollable`, `PythonKnows` and `NativeKnows`, what the
compilers are known to get wrong (see the disagreements), and hold for everything else.
The run contains every case that is named: without any one of these conditions TLC finds
a property violated. The loop variable after its loop (undeclared in C), and lists that
grow in a loop over them, are left out.

### Expressions

`Eval` is the meaning of expressions, of the source and of C: a value, the functions
called on the way, and whether C defines it. `Infer` and `TryInfer` are the
compilers' types, `Compile` what they write: checks that go ahead of the statement,
and an expression. Texts that C would parse differently than they were put together
(a chain of comparisons has no parentheses of its own) are kept as texts (`Infix`).
Numbers are counted in quarters, so that real and integer division differ; the word
is `MaxInt`. A pointer is null if it is 0, a text too; to compare the null text by
`nr_str_eq` is undefined, and so is to join it. `declared` says how the pointer `p` came
about and what is assigned to it anywhere in its function; `NullAnalyze` is the one pass of
`_null_analyze` over that, and `NullCheck` writes a check, none, or refuses the program by its
result, whatever the value at the place of the expression is (the narrowing inside
`if p is not None` is left out; the native compiler has no such analysis and writes
every check). C's refusal of a program is a type of its own, `Rejected`. Both
compilers are one definition with a flag, as the native one follows the Python one
branch by branch; where they differ the flag is asked.

### AstSerial and GraphSerial

`AstSerial` writes one tree, chosen while it is written, as a sequence of
<<width, value>> pairs. A reader's state is the fields it still expects, its place in
the stream and what it has read; one `Step` takes one field and puts the fields of a
node or the items of a list first (`Contents`). Which fields a tag has, each reader
knows from a table of its own, `PythonReads` and `NativeReads`. A reader that takes
fields in another order or width than the writer loses step. `Deserialize` is a
recursive function over the number of steps. The number of a comparison's operators is
a u8, so that `serialize` refuses one of more than `MaxCount`. `GraphSerial` saves the objects a root
reaches and loads the file: the recursion of `_collect_graph_X` is an explicit
stack, `seen` the `NrPtrSet`, `file` the indices written. `Walk` are the fields the
collection follows; the back references are written and read like them, from the same
table, which holds only the records read so far (`Restored`).

## Runs, bounds and what they show

| run | shows | bounds and why they are enough |
|---|---|---|
| `channel` | FIFO, no lost wakeup, end of stream, refinement of the queue | two producers, two consumers, a closer, two slots, four messages: the ring wraps, both conditions have two sleepers at once, a signal has a choice |
| `channel_live` | after a close every call returns; with a consumer that keeps receiving, every message is delivered | two producers, one consumer, one slot, so that senders and the receiver both sleep |
| `pool` | ownership of tasks, the pool is freed when quiescent, accepted tasks run, a shutdown ends even with every worker asleep in submit, submitted tasks run unless every worker is | two workers, an owner that submits, two tasks that submit three more, one slot: the owner and the workers sleep on the full queue |
| `topology` | partition, categories, completeness of merging, pins, dispatch | three modules, six kinds of them, eight lists of calls (a cycle, one function called by two modules, repeated calls, calls both ways, inside a module and out of the program), imports with and without a call, five lists of pins: all conflicts of categories, ties of weights, second calls and second callers occur; a fourth module adds no new kind of step |
| `reload` | counts, dangling entries, pinned cluster, freshness | three clusters (pinned, host-linked, free), two links and three loads each: a load, a reload, a failed reload and a recovery all fit |
| `strmap` | searches find every key, room for one more, refinement of a map | least capacity 4 instead of 16 so that four keys fill and grow the table; two keys share a slot, one follows them, one wraps around; both kinds |
| `flow` | ownership and leak analyses against all paths; automatic frees and deferred calls at every exit | three plain statements, or two of which one may be compound, or an arm or block of two with a statement after it, or two compound statements inside each other; a deferred free before or after; two turns of loops. So every pair of statements meets in, before and after a branch, and two exits meet in one. 1.4 million states |
| `translation` | both compilers' loops, matches and withs against the source; values, order of calls, faults and inferred types, with and without checks | `Control`: every statement kind with every kind of body, and an inner `if`, `match`, `with` or loop in a loop; up to three cases, of numbers, texts and names; ranges of 0 to 6 turns with steps 1, 2, -1, -2, `v` and `-v` for `v` in -1 to 2 (so steps that go against their text, and zero), stops in `v`, bodies that change `v` or the loop variable; a zip whose second source is shorter, equal or longer; factors 2 and 3, with every kind of exit in the body. `Expressions`: two operators deep over 25 leaves of every type; four settings with a null pointer, a null text, a zero divisor, the least word and an index out of bounds; a pointer that is a parameter, a global or a local variable and is assigned None, an allocation, another value or one of several targets; a word of -8 to 7. 646 thousand states |
| `formats` | both readers read every tree; a loaded graph is the saved one, except for back references that lead forward in the file, and is saved unless followed pointers make a cycle | trees of three inner nodes with lists of up to two, lines up to the limit of their field, an integer and a number of operators that do not fit: every node kind with every kind of field next to every other. All graphs that one of three objects reaches by two followed pointers and a back reference each: shared objects, cycles of followed pointers, which end in a full stack, and back references up the tree, down it, to the object itself and to one that is not collected. The root is fixed, the graphs with another are the same renamed. 1.7 million states |
| `tools` | a build that succeeds is current, the last edit is built, globals keep values, a failed statement leaves no trace | sessions of four inputs over a struct, a function, a global, two sizes and a type ctypes does not have; five targets over three modules, one imported twice, with edits until time 6, during builds for the watch loop. 386 thousand states |
| `raise_aborts` (violation) | a `raise` in a cold branch aborts | two statements |
| `build_stale` (violation) | an edit of an import is not built | one edit |

Deadlock is checked in every run but `translation`: an expression whose parts do not
fit together is not compiled, and one that was run is done.

The state spaces of `flow`, `translation` and `formats` are wide and shallow:
they enumerate programs and data up to a size rather than interleavings. Three of
the conditions in their properties name what is known to be wrong, so that the run
stays a check of all the rest; each is one of the disagreements below.

## Fairness

`Channel` and `ThreadPool` state weak fairness for every step of a thread that
is inside a call: the operating system runs every runnable thread. Taking the
mutex has strong fairness, since the mutex is free again and again but not
always: POSIX promises no order, and a thread that never gets a mutex that is
freed infinitely often is excluded by every scheduler in use. There is no
fairness for starting a call, for spurious wakeups or for closing.
`channel_live` adds consumers that call `recv` or `drain` again and again until
the close (a consumer loop; strong fairness, since the channel may be open and
the consumer busy in `has_data` in between), and the pool adds that its workers
go on, which is their code, and that a shutdown once begun does. `Build` has weak
fairness of `Building`: the watch loop polls for ever and a build is not left half
way; there is none for edits. The other modules have no liveness properties: each of
their behaviours is one computation that ends.

## Proofs

A theorem holds for any constants that satisfy the assumption of its module, so for
any number of threads, modules, clusters, keys, inputs and objects; what it assumes
beyond that is said below and stands in its `ASSUME`. Each is proved from one
inductive invariant, which is the conjunction of the named parts given here; TLC
checked the invariants on the runs' constants before they were proved. There is one
lemma per action, and the refinements and action properties are proved step by step
from the same invariants.

`ChannelProofs`, from `ThreadsAssumption` (finitely many threads), `CapAssumption` and
`CallsAssumption`:

- `TypeCorrect`: `TypeOK` (no run checks it: it is proved), by which the ring never holds
  more than its capacity, is inductive together with what a thread holds at each `pc` (`SendersCarry`).
- `FifoCorrect`: `received` followed by the ring's contents is `sent`. The
  property is not inductive as it stands, because nothing in it says where the
  next element goes; the strengthening adds that the tail is `count` slots after
  the head modulo the capacity (`TailAfterContents`). Lemmas on wrapped indices
  carry the arithmetic.
- `EndOfStreamCorrect`: a `recv` that answers 0 has seen a closed, empty ring, and
  no later send succeeds (`EInv`).
- `MutualExclusion`: exactly the holder of the mutex is between `nr_mutex_lock` and
  `nr_mutex_unlock` (`Mutex`), and the wait sets are the sleeping threads, receivers on
  one condition and senders on the other (`Sleepers`).
- `NoLostWakeupCorrect`: `NoLostWakeup` is inductive on top of these. It counts: while
  a receiver sleeps, the elements in the ring are at most the receivers awake and the
  signals about to be sent (`Takers`), and the same for senders and free slots
  (`Givers`). A step of the test moves one element and one thread, so that the two
  sides of the inequality move together; `CountThreads` and its neighbours are the
  facts on cardinalities.
- `Linearizable`: every step of the channel is a step of `BoundedQueue` or a stutter
  under the mapping `Queue`. It needs `FifoDelivery` (the abstract queue is the ring's
  contents) and `Mutex` (nobody else changes the ring between the test and its effect).

`PoolProofs`, from these and `RolesAssumption` (the workers receive, the owner closes
and is no submitter and no worker): `TaskOwnershipCorrect`, `QuiescentCorrect` and
`AcceptedTasksCorrect`. Every step of the pool is a step of its channel or leaves the
channel alone (`PoolStepIsChannelStep`), so the channel's invariants carry over. The
pool adds that no task is offered or stored twice (`SentOnce`), that each task taken
out of the ring and not yet run is in the hands of exactly one worker, also between
the return of `nr_channel_recv` and the call of the task (`TaskCustody`), that a worker
that leaves has seen the end of the stream (`LeaveAtEnd`), and who is idle at each
stage of the shutdown (`ShutdownOrder`). A task that was accepted is then run when all
workers have left: the ring is empty, and nobody holds it.

`TopologyProofs`, from `TopologyAssumption`: `OneClusterCorrect`, `CategoriesCorrect`,
`MergeCorrect`, `DispatchCorrect`. The lemmas on `MergeInto` say that removing a
cluster from the list is a bijection of the others (`OldIndexBijective`), hence that
a merge keeps a partition and only ever brings modules together (`MergedFacts`). The
invariant adds that the number of clusters and of merges is that of the modules
(`ClustersLeft`): the merge loop ends long before its cap, twice the number of
modules, so the cap never stops a merge (`MergeCorrect`). `PinsCorrect`
assumes `SinglePins`, that no function is pinned to two anchors, because the second
replaces the first in the dict (see the disagreements); it adds that every pin has its
entry (`PinsRecorded`) and that an entry handled has brought its clusters together
(`PinsApplied`), which later merges cannot undo. `DispatchCorrect` rests on two loop
invariants: after k calls the edges are the crossing ones among them (`EdgesInv`), and
after k edges the table and the libraries' lists are those of the edges seen
(`TableInv`: one entry per callee, each caller once); `WithCallAdds` and
`LibrariesAdd` are the step of the second loop, `TableIsExact` says what the complete
table means for the calls.

`ReloadProofs`, from `ReloadAssumption`: `ReloadTypeCorrect`, `RefsCorrect`,
`PinnedCorrect` from one inductive invariant `IInv`. It adds to the three
properties that `dlopen` is called with a NULL handle only (`OpenWhenClosed`; else
the count could be off by one), that only registered clusters have handles
(`HandlesRegistered`; else `Shutdown` would leave a mapping), and how far a loop
has come (`LoopInv`; it bounds the failure count). `DanglingCorrect` adds
`EntryInv`: at every step all entries but that of the library just opened are
sound, which needs `RefsMatchHandles` at the step that registers. `FileLoaded` is the
action property `LoadsTheFile`: with `OpenWhenClosed` and `RefsMatchHandles` the
loader's count of a library the host does not hold is 0 when `dlopen` is called, so
the answer is a new mapping of the file.

`StrMapProofs`, from `TableAssumption`:

- `KeysAreFoundCorrect`, if nothing is deleted from a set: `KeysAreFound` is inductive
  together with the types of the slots and that a set has no tombstones (else
  `strset_add` could add a member twice). Nothing is assumed of the probe sequence, so
  it holds for capacities that are no power of two as well: what is in the table is
  found, though it may not get in (see the disagreements).
- `RoomCorrect`, for capacities that are powers of two: then `x & (cap - 1)` is an
  index, every index is reached by a probe of every key (`ProbeFacts`), and a table
  below its load has a slot to end the search. While it grows, no more keys are in the
  new slots than old slots were seen (`Growing`). `PowersOfTwo` are the numbers in
  every set that contains 1 and the double of each of its members, which gives an
  induction the prover can follow. The compiler's own tables made by `strset_new(2 *
  n)` and `strmap_new(4 * n)` do not satisfy the assumption.
- `ImplementsMapCorrect`, under both assumptions: each step of the table is a step of
  `StringMap` or a stutter, under the mapping that looks a key up among the slots and
  the old slots still to be moved. `GrowthOK` says that a key is never in both.

`ToolProofs`, for `Build`: `BuildCorrect`, from `BuildAssumption` (finitely many modules, imports among
them, targets with sources). The invariant relates times: what is compiled was read
since the start (`CompiledOK`), and so was what it imports, which is either compiled or
the next file on the stack (`StackOK`); a source that has been looked at is in the list
of C files to link (`SourcesOK`); a stamp that is not older than a source was taken of
that source (`StampsOK`), and a program that is not older than a C file was linked from
it (`OutputOK`), whatever builds failed in between. The theorem assumes that no source
changes while the *runner* builds: `compile_file` takes the stamp after it has read the
file, so an edit in between would be taken for built. Edits during builds of the driver
and of `build_with_topology`, which look at no stamps, are allowed. Imports may have
cycles in the theorem: such a build never ends, in the model as in the compiler.

`ToolProofs`, for `Repl`, from `ReplAssumption`, for sessions of any length: `StatementUndone`,
`NothingSkipped`, `EvaluationExists` and `ValuesKept`. The invariant says that the
counter is the length of the list of evaluations (else the rollback would take the
wrong one off and the call would miss), that all evaluations but the last have been
called, and that a statement that waits to be compiled is the last, with the rest of
the source as it was before (`PendingIsLast`). The last two are what makes one rollback
rule, which does not look at the input that failed, harmless for statements.
`ValuesKept` adds what libraries and saved values are (`LibTyped`). It speaks of the
globals whose type ctypes has and whose layout stays.
`NoStatementSkipped` and `EvalExists` hold in no run of their own: they are proved.

`FormatProofs`, for `GraphSerial`, from `GraphAssumption`: the set of objects seen is in post-order along
the fields that `_collect_graph_X` follows (`PostOrder`), because each call on the stack
was made from the field the call below is at, and the fields before are done
(`CallChain`). So a record's index is known when a record that points to it is read:
`RestoredCorrect`, for any graph, any fields and any depth of the stack, says that
pointers that are followed lead where they led, and a back reference does unless its
object was not collected or comes later in the file, where it is what `malloc` left; the
property names these two cases instead of leaving the field out (see the disagreements).
`LoadedGraphCorrect` adds what is not saved: with a finite number of objects and a stack
deeper than that, a full stack holds two calls for one object (`FullStackRepeats`, by the
pigeonhole theorem), so only a cycle of followed pointers fills it.

`FormatProofs`, for `AstSerial`, from `AstAssumption` (`MaxLen` and `MaxCount` are
natural numbers) and `LengthsFit` (the length of a list fits its i32): both readers
get every tree that is written, of any size and depth, to the last byte
(`NativeReadsTreeCorrect`, `PythonReadsTreeCorrect`). The property is about the whole
run of a reader over a finished stream, so the invariant is about the streams that
are not finished (`SerialInv`): a reader of what is written so far comes without error
to the end of it, has seen `tree`, and expects the fields of `todo`. It rests on four
groups of lemmas:

- `ReadsLike`: for each tag, each reader's row is the writer's row, field by field.
  `TagsRead` and `OperatorsRead`: the numbers of tags and operators are read as what
  they were written for.
- `FieldRead` and the lemmas for each kind of field: a reader with the primitives of
  the field before it takes just these.
- `SameStep`: a step that succeeded is the same when more has been written. With it
  the run so far, a finite list of states (`Run`, `ComesTo`), stays a run when the
  writer goes on.
- `RunEnds`: every field takes a primitive, so a run is shorter than its stream, and
  `Deserialize` ends where the run ends. The two are compared by the least place
  where they differ.

`FlowProofs`, from `FlowAssumption` (the bodies are lines that a parser makes: every arm
and block is closed, one inside another), for functions of any length, nested to any
depth, and any number of turns. A tree would need an induction over trees; lines need
none, because the walks keep what they know of every line and the C only ever goes to
a line whose knowledge is tied to that of the line it comes from.

- `MadeAsWalked`: what a walk keeps of each line follows from what it keeps of the lines
  before (`OwnOK`, `LeakOK`, `DefersOK` in `Made`), and the C stays within its lines
  (`Place`). Of `defer_stack` it also says that the call the compiler adds by itself
  is the first and no other frees the value (`FreesLast`), and that a compound
  statement with no defer in it leaves the stack as it was (`NoneInside`), which is
  what an arm that is not taken needs.
- `OwnershipChecked`: whenever the C is in front of a line that `_own_analyze` takes
  to have `x` alive, `x` is live, and nothing has happened to it (`OwnRun`). Where two
  arms meet the walk keeps the worse of the two, so that "alive" holds for both.
- `LeaksFound`, `FaultsFound`: what is live or freed on the path taken is so for
  `_check_leaks_func` in front of the line the C is at, which it does not take for left
  (`LeakRun`); so each exit and each call has said what was wrong with this path.
  Loops are excluded, as the code looks at their bodies once and drops the result.
- `FreedAtEveryExit`: the value is live until an exit is taken, and is freed by the last
  of the calls written there (`ItselfRun`); what is read after the calls are the elements
  of a returned tuple and nothing else. Loops and blocks are included.
- `DeferredInReverse`: the calls met on the way are those on the stack of the line, and
  at an exit the calls made followed by those to make are those met, reversed
  (`DeferRun`). A deferred call in an arm or block is excluded: the compiler's stack
  has it also on the paths that do not go there.

Only model-checked:

- Liveness: `CallsReturnAfterClose`, `EverythingDelivered`, `ShutdownCompletes`,
  `SubmittedTasksRun`, `LastEditBuilt`. Fairness is out of the prover's reach.
- `Control` and `Expressions`: `PythonRunsAsWritten`, `NativeRunsAsWritten`,
  `ValueAsWritten`, `FaultsStop`, `InferredTypeHolds`. They are about recursive
  operators over trees, which the prover does not expand, and would need an induction
  over the trees. Where the recursion is
  over numbers only (`BitAnd`, the powers of two, the greatest of the times, the steps of a reader) the
  proofs argue with the least number that is a counterexample, which needs no
  induction rule.


## Disagreements with the documentation

Two are runs that TLC must find violated; `PROJECT.json` quotes the line.

- `raise_aborts`: a branch of which all statements raise is split off into a helper
  that returns void, where `raise` is written as `abort()`; the documentation says it
  returns an error.
- `build_stale`: the stamp is compared with the time of the source alone; the
  documentation says it covers what is imported.

The others were met while modelling. The models follow the code, and the properties
either exclude the case by name or do not speak of it.

Runtime and tools:

- The comment at `nathra_rt.h:560` says `try_recv` answers 0 when the channel is
  empty; it calls the blocking `recv`.
- The pool's shutdown "waits for all tasks" (docs/language.md:918): a task that a task
  submits after the close is dropped and leaks. Tasks that submit to a full queue can
  leave all workers asleep until a shutdown.
- Only one resource-owner cluster is pinned (topology.py:948, docs/topology.md:83);
  others are registered as swappable.
- The host's own link keeps an old library mapped (build.py:502), so a reload goes on
  with the old code (docs/topology.md:44); no state is migrated (docs/topology.md:77);
  no layout hash is compared; a failed reload leaves the dispatch table dangling;
  `generate_reload_init` leaves the dispatch entries of the pinned cluster NULL; the
  generated register functions are `static inline`, so `dlsym` does not find them
  unless the library defines its own.
- `_apply_overrides` moves a cluster into its anchor's without a look at the
  categories, so a module under `keep_alive` that is pinned together with a pure one
  ends in a swappable cluster; a second `pin_together` for the same function replaces
  the first; acquiring and releasing calls are compared by names that are never equal.
- `strset_new(2 * n)` makes tables whose capacity is no power of two, in which
  `strset_add` drops keys; dead code elimination and reordering
  (`native_compile_file.py:851-893`) rely on them.
- `compile_dependency` generates what the first importer asks for, and a second
  importer's names are missing; `util.c` may be linked twice; a failed link skips what
  comes after; the watch loop looks at one file.
- In the shell, a failed definition or declaration stays and the last evaluation is
  undone in its place, although the comment says "undo the last input"
  (snekc.py:284); an input that adds no evaluation runs the latest one again; a global
  declared wider is read over its end. A global whose C type is not in `_CTYPE_MAP` (a
  text, a list, a dict, a pointer, a struct with such a field) is neither
  exported nor imported (snekc.py:322-324, 339-341), so it is back at zero after every
  input, although variables "persist between evaluations" (docs/language.md:1007).
  Building the layout of a struct in a struct raises when the inner one has such a field.
- A `backref` up the tree, which is what it is for (docs/language.md:761), is always to an
  object later in the file, because the owner is collected after what it owns
  (compiler.py:3077-3094). It is read while `objs` is filled in that order, so it is
  loaded as what `malloc` left there (compiler.py:3136-3146): the comment "will be set
  in second pass" is about a pass that does not exist, and the documentation says "all
  objects are allocated and pointer references are reconstructed" (docs/language.md:759).
  One to an object that nothing else leads to is loaded as NULL.
- A cycle of pointers that are no back references makes `_collect_graph_X` call itself
  until the C stack is full, because an object is added after its children.
- `save_X(NULL)` is loaded as the element before the first; pointers in arrays of structs,
  and in structs nested two deep, are not collected. A negative line number or a dict with `**` does
  not survive the syntax tree's format, a text is cut at a NUL.

Compilers:

- `with`: the Python compiler writes the body once per item, calls an unnamed item
  `_ctx` without declaring it, and skips the cleanup when the body is left early; so
  does the native one, which also drops openers it does not know.
- `match`: `break` leaves the `switch` and not the loop; arms that only raise are moved
  behind others they overlap with; a guard binds to the last alternative; the native
  compiler ignores guards of values.
- `for` over a `range`: the direction is read off the text of the step (a minus or none,
  codegen_stmts.py:2160, native_codegen_stmt.py:711), so a step variable that is negative
  makes no turn; stop and step are evaluated again in every turn, and a body that changes
  the loop variable changes the loop.
- `zip` goes by the length of its first source, as documented (docs/language.md:345), and
  reads past the end of a shorter one behind it (codegen_stmts.py:2124,
  native_codegen_stmt.py:629).
- `match` on texts: the Python compiler compares with a character constant
  (`repr`, codegen_stmts.py:2364) or switches on a pointer; the native one switches on
  a pointer, or compares addresses if a case has a guard. `case 1 as w` is
  taken for a wildcard by both; the native `switch` does not declare captured names; a
  native arm that always fits becomes an `else` before other arms.
- `@unroll` adjusts an index `[i]` only, in a statement of its own (docs/language.md:614
  says the loop variable is adjusted); a `break` ends the unrolled loop and the loop over
  what remains still runs (codegen_stmts.py:2305), and a `continue` skips the copies that
  were to follow it.
- Chained comparisons have no parentheses and evaluate the operand in the middle twice;
  comparing a struct pointer passes the address of the pointer.
- `--safe`: an integer times a real is computed by the integer helper; checks are
  written ahead of the whole statement, so `i < 3 and a[i] > 0` stops the program and
  an index is evaluated twice; unary minus, and `//=` in the native compiler, are
  unchecked; `%` misses the least integer by -1.
- `s == None` on a text is written as `nr_str_eq(s, NULL)` (codegen_exprs.py:291-310,
  native_codegen_expr.py), which reads through the null pointer (nathra_rt.h:196), and
  so is `s == t` when one of the two is None, although `None` "is valid anywhere a pointer is
  expected" (docs/language.md:244); `s is None` and `None == s` are right.
- `--safe` and null pointers, in the Python compiler: a check is only written for a pointer
  in the state "unknown". Globals, and local variables whose first value is neither None
  nor an allocation (as in the example of docs/optimizations.md:162), have no state and get
  no check, although "every `ptr[T]` variable" is tracked (docs/optimizations.md:157). The
  analysis has no order of statements (compiler.py:557-653): a parameter that is assigned an
  allocation in one branch counts as never null in the others; one that is assigned None
  somewhere makes every use of it an error.
- Arithmetic on `f32` is typed as integer; the Python compiler strips every star of a
  pointer type.
- The ownership analysis looks at a loop's body once and not into `with` and `match`. It
  refuses every `return x` of an owned `x`: the return is a move, and then found to be a
  use of what was moved, although the hint of C012 (compiler.py:830) advises it.
- A deferred free is a use like any other to the ownership analysis: a function that
  defers to free its owned value is refused as one that does not free it, although the
  hint of that very error and the example at docs/language.md:519 do so, and one that
  then gives the value away is accepted.
- A `raise` that returns an error returns without the deferred calls (codegen_stmts.py:1941),
  though these run "even on early return" (docs/language.md:498), so a value the compiler
  frees by itself leaks there.
- `return list_len(xs), 1`: for a tuple without arrays the deferred calls and automatic
  frees are written first and the elements evaluated behind them
  (codegen_stmts.py:1727-1734), so they read, or return, a freed value; the escape
  analysis does not take a value inside a returned tuple for returned. The documentation
  says of automatic frees that "it just works" (docs/language.md:511).
- The native compiler writes `defer(call)` as a comment (native_codegen_stmt.py:73-82), so
  the call is never made.
- A `defer` in a branch is written out at every exit below it in the text, also on paths
  that did not come through the branch.
- The native compiler writes no loop over a list.

## Not modelled

- Lists, strings, the dict, the arena and the reader and writer of the runtime are
  sequential containers with tests of their own; they come first if the project grows.
- `nr_parallel_for` and the atomics: the chunks are arithmetic, the atomics compiler
  builtins.
- File and path helpers only call the operating system; generated C is output.
- Of the compilers: calls, structs and methods, lambdas, comprehensions, generics,
  specialised copies, printing, SIMD pragmas, C headers and layout; the null, cold and
  inline analyses except where `Flow` needs cold branches; the order of the phases of
  `compile_file`; the native driver and its dead code elimination.
- Of the build runner: `deps`, test targets, platform-keyed C modules; of the driver,
  its options and the native multi-file path.

## Plan

1. Done: channel, pool, topology, reload manager, string map.
2. Done: build and shell, statements, expressions, the two file formats.
3. Next models: `ParallelFor` (the chunks partition the range); the null and cold
   analyses as fixpoints; calls and structs in `Expressions`; the arena and the dict.
4. Done: every property of the channel, the pool, the topology, the reload manager,
   the table, the shell, the two file formats and the compiler's path analyses that is
   not about liveness, and that a build is current, proved for all constants.
5. Next proofs: the step counts that liveness rests on (a shutdown's remaining work as
   an invariant bound), `FifoDelivery` for the pool's tasks.
