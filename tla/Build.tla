-------------------------------- MODULE Build --------------------------------
(***************************************************************************)
(* How sources become a program: the build runner with its incremental      *)
(* stamps (lib/build.py), the command line driver and its watch loop         *)
(* (cli/nathra.py), and what both call, compile_file and compile_dependency  *)
(* of compiler/compiler.py.  A source is a time of modification and whether  *)
(* it compiles; a C file is what it was made from.  An editor changes the    *)
(* sources, and one target is built over and over.                           *)
(***************************************************************************)
EXTENDS Naturals, Sequences, FiniteSets, SequencesExt, FiniteSetsExt

CONSTANTS
  Modules, Main,
  Imports,   \* the imports of each module, in order; there are no cycles
  Uses,      \* the names each module takes from each module it imports
  Names,     \* what a module defines
  Targets,   \* the targets to choose from: records [kind, sources]
  Tools,     \* subset of {"runner", "watch", "topology"}
  Unset,     \* Python's None
  EditedBuilds,  \* the tools whose builds run while sources change
  MaxTime    \* bound: the clock

\* Modules import and use what there is, and a target has sources.
ASSUME BuildAssumption ==
  /\ IsFiniteSet(Modules) /\ Main \in Modules
  /\ Imports \in [Modules -> Seq(Modules)]
  /\ Uses \in [Modules -> [Modules -> SUBSET Names]]
  /\ \A t \in Targets : t.sources \in Seq(Modules) /\ t.sources # <<>>

VARIABLES
  tool, target,   \* fixed by BuildInit
  clock, src,     \* src[m]: [at, ok]
  cfile,          \* the C file of each module: Unset or [from, stamp, names, written]
  output,         \* the program or library: Unset or [parts, written]
  step,             \* "idle", "sources", "compile" or "link"
  todo,           \* sources of the target still to look at
  stack,          \* compile_file within compile_dependency within compile_file ...
  compiled,       \* Compiler.compiled_files
  cfiles,         \* the C files to link
  recompiled,     \* any_recompiled of _compile_sources
  lastSeen,       \* last_mtime of the watch loop
  outcome, start  \* history: how the last build ended, and the sources it started from

buildvars == <<tool, target, clock, src, cfile, output, step, todo, stack, compiled, cfiles, recompiled,
          lastSeen, outcome, start>>

\* Times are even, so that a stamp can be just below the time it was made from.
Times == {t \in 0..MaxTime : t % 2 = 0}

BuildInit ==
  /\ tool \in Tools /\ target \in Targets
  /\ tool = "topology" => target.kind = "exe"
  /\ tool = "watch" => target = [kind |-> "exe", sources |-> <<Main>>]
  /\ clock = 2 /\ src = [m \in Modules |-> [at |-> 2, ok |-> TRUE]] /\ start = src
  /\ cfile = [m \in Modules |-> Unset] /\ output = Unset
  /\ step = "idle" /\ todo = <<>> /\ stack = <<>> /\ compiled = {} /\ cfiles = <<>>
  /\ recompiled = FALSE /\ lastSeen = 0 /\ outcome = "none"

Edit(m) ==
  /\ clock < MaxTime /\ (step = "idle" \/ tool \in EditedBuilds)
  /\ clock' = clock + 2
  /\ \E ok \in BOOLEAN : src' = [src EXCEPT ![m] = [at |-> clock', ok |-> ok]]
  /\ UNCHANGED <<tool, target, cfile, output, step, todo, stack, compiled, cfiles, recompiled,
                 lastSeen, outcome, start>>

-----------------------------------------------------------------------------
(* Starting a build.                                                        *)

\* compile_file opens the file; used is the names the importer takes, or Unset for all.
Opened(m, used) == [mod |-> m, from |-> src[m], used |-> used, next |-> 1]

Begin ==
  /\ compiled' = {} /\ cfiles' = <<>> /\ recompiled' = FALSE
  /\ outcome' = "building" /\ start' = src
  /\ UNCHANGED <<tool, target, clock, src, cfile, output>>

\* BuildRunner.run for its one target, and build_with_topology.
StartRunner ==
  /\ tool # "watch" /\ step = "idle"
  /\ step' = "sources" /\ todo' = target.sources
  /\ UNCHANGED <<stack, lastSeen>> /\ Begin

\* Seeded bug: only a first look starts a build.
ChangeSeenOnce == lastSeen = 0 /\ lastSeen' = src[Main].at

\* The watch loop looks at one file.
ChangeSeen == src[Main].at # lastSeen /\ lastSeen' = src[Main].at

\* One turn of the watch loop, and build_once.
StartWatched ==
  /\ tool = "watch" /\ step = "idle" /\ ChangeSeen
  /\ step' = "compile" /\ stack' = <<Opened(Main, Unset)>> /\ todo' = <<>> /\ Begin

-----------------------------------------------------------------------------
(* _compile_sources.                                                        *)

\* A C file added to the list when it is there and not in the list yet.
WithDeps(files) ==
  files \o SetToSeq({m \in compiled : cfile[m] # Unset} \ ToSet(files))

\* Seeded bug: a C file that exists is taken for current.
UpToDateIfThere(m) == cfile[m] # Unset

UpToDate(m) == cfile[m] # Unset /\ cfile[m].stamp >= src[m].at

SkipSource ==
  /\ tool = "runner" /\ step = "sources" /\ todo # <<>> /\ UpToDate(Head(todo))
  /\ cfiles' = WithDeps(Append(cfiles, Head(todo))) /\ todo' = Tail(todo)
  /\ UNCHANGED <<tool, target, clock, src, cfile, output, step, stack, compiled, recompiled,
                 lastSeen, outcome, start>>

CompileSource ==
  /\ step = "sources" /\ todo # <<>> /\ (tool = "runner" => ~UpToDate(Head(todo)))
  /\ step' = "compile" /\ stack' = <<Opened(Head(todo), Unset)>>
  /\ UNCHANGED <<tool, target, clock, src, cfile, output, todo, compiled, cfiles, recompiled,
                 lastSeen, outcome, start>>

SourcesDone ==
  /\ step = "sources" /\ todo = <<>> /\ step' = "link"
  /\ UNCHANGED <<tool, target, clock, src, cfile, output, todo, stack, compiled, cfiles,
                 recompiled, lastSeen, outcome, start>>

-----------------------------------------------------------------------------
(* compile_file.                                                            *)

Top == Last(stack)
Importing == step = "compile" /\ Top.next <= Len(Imports[Top.mod])
Dep == Imports[Top.mod][Top.next]

\* compile_import_from: a module is compiled for its first importer.
ImportDependency ==
  /\ Importing
  /\ LET past == Append(Front(stack), [Top EXCEPT !.next = @ + 1])
     IN stack' = IF Dep \in compiled THEN past ELSE Append(past, Opened(Dep, Uses[Top.mod][Dep]))
  /\ UNCHANGED <<tool, target, clock, src, cfile, output, step, todo, compiled, cfiles, recompiled,
                 lastSeen, outcome, start>>

EndBuild(how) == step' = "idle" /\ outcome' = how /\ stack' = <<>>

CompileError ==
  /\ step = "compile" /\ ~Importing /\ ~Top.from.ok
  /\ EndBuild("failed")
  /\ UNCHANGED <<tool, target, clock, src, cfile, output, todo, compiled, cfiles, recompiled,
                 lastSeen, start>>

\* The newest of the sources read, as they are when the C file is ready; six digits
\* of it are kept.
Newest == Max({src[m].at : m \in compiled \cup {Top.mod}})
Stamps == {Newest, Newest - 1}

\* Functions the importer does not take are not generated.
Generated(stamp) ==
  [from |-> Top.from, stamp |-> stamp, names |-> IF Top.used = Unset THEN Names ELSE Top.used,
   written |-> clock]

\* The C file of a dependency, of a source of the target, or of build_once's source,
\* which links everything it compiled.
WriteFile ==
  /\ step = "compile" /\ ~Importing /\ Top.from.ok
  /\ \E stamp \in Stamps : cfile' = [cfile EXCEPT ![Top.mod] = Generated(stamp)]
  /\ stack' = Front(stack)
  /\ IF Len(stack) > 1
     THEN compiled' = compiled \cup {Top.mod} /\ UNCHANGED <<step, todo, cfiles, recompiled>>
     ELSE /\ UNCHANGED compiled /\ recompiled' = TRUE
          /\ cfiles' = Append(cfiles, Top.mod) \o SetToSeq({m \in compiled : m \notin ToSet(Append(cfiles, Top.mod))})
          /\ IF tool = "watch" THEN step' = "link" /\ UNCHANGED todo
             ELSE step' = "sources" /\ todo' = Tail(todo)
  /\ UNCHANGED <<tool, target, clock, src, output, lastSeen, outcome, start>>

-----------------------------------------------------------------------------
(* Linking.                                                                 *)

\* Definitions met twice, and names nobody defines.
Twice == \E i, j \in 1..Len(cfiles) : i # j /\ cfiles[i] = cfiles[j]
Undefined(files) == \E m \in files, d \in Modules :
  d \in ToSet(Imports[m]) /\ ~(d \in files /\ Uses[m][d] \subseteq cfile[d].names)
LinkFails == CASE target.kind = "exe"    -> Twice \/ Undefined(ToSet(cfiles))
               [] target.kind = "shared" -> Twice
               [] OTHER                  -> FALSE

\* _link_exe; libraries are always linked, and so is what build_once made.
OutputCurrent ==
  /\ tool = "runner" /\ target.kind = "exe" /\ ~recompiled /\ output # Unset
  /\ \A m \in ToSet(cfiles) : cfile[m].written <= output.written

Parts(files) == [m \in files |-> [from |-> cfile[m].from, names |-> cfile[m].names]]

\* A linker run for these C files, or none when the output is current.
Linked(files, fails) ==
  /\ IF fails THEN EndBuild("failed") /\ UNCHANGED output
     ELSE EndBuild("ok") /\ output' = [parts |-> Parts(files), written |-> clock]
  /\ UNCHANGED <<tool, target, clock, src, cfile, todo, compiled, cfiles, recompiled, lastSeen, start>>

Link == step = "link" /\ tool # "topology" /\ ~OutputCurrent /\ Linked(ToSet(cfiles), LinkFails)

SkipLink ==
  /\ step = "link" /\ OutputCurrent /\ EndBuild("ok")
  /\ UNCHANGED <<tool, target, clock, src, cfile, output, todo, compiled, cfiles, recompiled, lastSeen, start>>

\* What the host is linked from: the pinned cluster, or the first source if there is none.
Host(cluster, pinned) ==
  IF pinned = 0 THEN {Head(target.sources)} ELSE {m \in DOMAIN cluster : cluster[m] = pinned}

\* build_with_topology links a library for every other cluster and the host with them;
\* in release mode one program of all C files.  Only the target's sources are in clusters.
LinkClusters ==
  /\ step = "link" /\ tool = "topology"
  /\ \/ Linked(ToSet(cfiles), Undefined(ToSet(cfiles)))
     \/ \E cluster \in [ToSet(target.sources) -> 1..Len(target.sources)] :
        \E pinned \in {0} \cup {cluster[m] : m \in DOMAIN cluster} :
          LET files == {m \in DOMAIN cluster : cluster[m] # pinned} \cup Host(cluster, pinned)
          IN Linked(files, Undefined(files))

Editing == \E m \in Modules : Edit(m)
\* The watch loop finds nothing new, or no time is left.
Poll == tool = "watch" /\ step = "idle" /\ src[Main].at = lastSeen /\ UNCHANGED buildvars

Building == StartRunner \/ StartWatched \/ SkipSource \/ CompileSource \/ SourcesDone
            \/ ImportDependency \/ CompileError \/ WriteFile \/ Link \/ SkipLink \/ LinkClusters

BuildNext == Editing \/ Building \/ Poll

BuildSpec == BuildInit /\ [][BuildNext]_buildvars

\* The watch loop polls for ever, and a build is not left half way.
Fairness == WF_buildvars(Building)

-----------------------------------------------------------------------------
(* Properties.                                                              *)

\* What a program has of a module is what the module was when the build started, or newer.
Built(m) == m \in DOMAIN output.parts /\ output.parts[m].from.at >= start[m].at

\* A build that succeeds has every source of the target as it was at the start, skipped
\* compilations, skipped links and clusters included (docs/language.md:1023).
SourcesAreCurrent ==
  outcome = "ok" /\ tool # "watch" => \A m \in ToSet(target.sources) : Built(m)

\* The main module and what it imports, directly or not.
Needed == {m \in Modules : \A S \in SUBSET Modules :
             Main \in S /\ (\A i \in S : ToSet(Imports[i]) \subseteq S) => m \in S}

\* What the driver builds is current throughout, dependencies included, whenever the C
\* files and the program were written before (nathra.py:272-276).
DriverBuildsEverything ==
  outcome = "ok" /\ tool = "watch" => \A m \in Needed : Built(m)

\* Every source of the target, and with the driver every module.
BuildIsCurrent == SourcesAreCurrent /\ DriverBuildsEverything

\* The last edit of the watched source is built in the end, also one made while a build
\* runs (nathra.py:384-393, "Watch source file and rebuild on change").
LastEditBuilt ==
  <>[](tool = "watch" => /\ lastSeen = src[Main].at /\ outcome \in {"ok", "failed"}
                         /\ outcome = "ok" => output.parts[Main].from = src[Main])

\* A build that succeeds has everything the program is made of as it was at the start:
\* the stamp includes "the max mtime of all transitively imported modules"
\* (docs/language.md:1023).
ImportsAreCurrent ==
  outcome = "ok" /\ tool = "runner" => \A m \in DOMAIN output.parts : Built(m)
=============================================================================
