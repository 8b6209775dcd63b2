---------------------------- MODULE ReloadProofs ----------------------------
(***************************************************************************)
(* Theorems of ReloadManager, for any number of clusters, any pinned and any *)
(* host-linked clusters: the loader's counts match the manager's handles at  *)
(* every step of every load, and the pinned cluster is never loaded.         *)
(***************************************************************************)
EXTENDS ReloadManager, TLAPS

Loading == pc \in {"close", "open", "symbol"}

\* dlopen is only called with the handle closed.
OpenWhenClosed == pc = "open" => ~handle[cur]

\* The loop has loaded the clusters before cur, and counted at most those.
LoopInv ==
  /\ Loading => \A c \in Clusters : c >= cur => generation[c] < MaxGeneration
  /\ Loading /\ op = "all" => failures < cur
  /\ pc = "register" => \A c \in Clusters : generation[c] = 0
  /\ pc = "register" => failures = 0 /\ cur = None

\* Only a cluster the manager knows has a handle.
HandlesRegistered == \A c \in Clusters : handle[c] => c \in 1..count

IInv ==
  /\ TypeOK /\ RefsMatchHandles /\ PinnedStaysOut
  /\ OpenWhenClosed /\ LoopInv /\ HandlesRegistered

\* The initial states satisfy the invariant.
LEMMA InitIInv == Init => IInv
  BY ReloadAssumption
     DEF Init, IInv, TypeOK, RefsMatchHandles, PinnedStaysOut, OpenWhenClosed, LoopInv, Loading,
         HandlesRegistered, Mappings,
         Clusters, None, Libs, NoFile, NotMapped, Nothing

\* Entering a loop over swappable clusters keeps what the invariant says of cur.
LEMMA EnterFirstCur ==
  ASSUME NEW S, S \subseteq {d \in 1..count : Reloadable(d)}, EnterFirst(S)
  PROVE  \/ pc' = "idle" /\ cur' = cur
         \/ pc' = "close" /\ cur' \in S /\ cur' \in 1..count /\ cur' # Pinned
  BY DEF EnterFirst, Enter, Reloadable

\* The types of what a load changes.
LEMMA LoadTypes ==
  ASSUME TypeOK
  PROVE  /\ refs \in [Clusters -> 0..2] /\ handle \in [Clusters -> BOOLEAN]
         /\ mapped \in [Clusters -> Mappings \cup {NotMapped}]
         /\ mappings \in Nat
         /\ pc \in {"close", "open", "symbol"} => cur \in Clusters
  BY ReloadAssumption DEF TypeOK, Clusters

\* The types of what the loops change.
LEMMA LoopTypes ==
  ASSUME TypeOK
  PROVE  /\ NumClusters \in Nat /\ MaxGeneration \in Nat /\ count \in 0..NumClusters
         /\ cur \in Clusters \cup {None} /\ failures \in 0..NumClusters
         /\ generation \in [Clusters -> 0..MaxGeneration]
         /\ pc \in {"close", "open", "symbol"} => cur \in 1..count
  BY ReloadAssumption DEF TypeOK

\* An address that was given out is not the address of an unmapped library.
LEMMA NewMapping ==
  ASSUME TypeOK, NEW c \in Clusters, file[c] # NoFile
  PROVE  /\ [lib |-> file[c], at |-> mappings + 1] \in Mappings
         /\ [lib |-> file[c], at |-> mappings + 1] # NotMapped
<1>1. file[c] \in Libs /\ mappings + 1 \in Nat \ {0}
  BY DEF TypeOK
<1>2. [lib |-> file[c], at |-> mappings + 1] \in Mappings
  BY <1>1 DEF Mappings
<1>3. [lib |-> file[c], at |-> mappings + 1].at # NotMapped.at
  BY <1>1 DEF NotMapped
<1> QED
  BY <1>2, <1>3

\* The loader's counts through dlclose.
LEMMA CloseRefs ==
  ASSUME TypeOK, RefsMatchHandles, LoadClose
  PROVE  RefsMatchHandles' /\ refs' \in [Clusters -> 0..2]
<1>1. cur \in Clusters
  BY LoadTypes DEF LoadClose
<1>2. CASE handle[cur]
  <2>1. /\ refs' = [refs EXCEPT ![cur] = @ - 1]
        /\ mapped' = IF refs[cur] = 1 THEN [mapped EXCEPT ![cur] = NotMapped] ELSE mapped
        /\ handle' = [handle EXCEPT ![cur] = FALSE]
    BY <1>2 DEF LoadClose
  <2>2. RefsMatchHandles'
    BY <1>1, <1>2, <2>1, LoadTypes DEF RefsMatchHandles
  <2>3. refs[cur] \in 1..2
    BY <1>1, <1>2, LoadTypes DEF RefsMatchHandles
  <2> QED
    BY <1>1, <2>1, <2>2, <2>3, LoadTypes
<1>3. CASE ~handle[cur]
  BY <1>3, LoadTypes DEF LoadClose, RefsMatchHandles
<1> QED
  BY <1>2, <1>3

\* The loader's counts through a dlopen that succeeds.
LEMMA OpenRefs ==
  ASSUME TypeOK, RefsMatchHandles, OpenWhenClosed, LoadOpenAgain \/ LoadOpenFile
  PROVE  RefsMatchHandles' /\ refs' \in [Clusters -> 0..2]
<1>1. cur \in Clusters /\ ~handle[cur]
  BY LoadTypes DEF LoadOpenAgain, LoadOpenFile, OpenWhenClosed
<1>2. refs[cur] = IF cur \in HostLinked THEN 1 ELSE 0
  BY <1>1 DEF RefsMatchHandles
<1>3. CASE LoadOpenAgain
  <2>1. /\ refs' = [refs EXCEPT ![cur] = @ + 1] /\ handle' = [handle EXCEPT ![cur] = TRUE]
        /\ mapped' = mapped /\ refs[cur] > 0
    BY <1>3 DEF LoadOpenAgain
  <2>2. refs' \in [Clusters -> 0..2]
    BY <1>1, <1>2, <2>1, LoadTypes
  <2> QED
    BY <1>1, <1>2, <2>1, <2>2, LoadTypes DEF RefsMatchHandles
<1>4. CASE LoadOpenFile
  <2>1. PICK m : /\ m # NotMapped /\ mapped' = [mapped EXCEPT ![cur] = m]
                 /\ refs' = [refs EXCEPT ![cur] = 1] /\ handle' = [handle EXCEPT ![cur] = TRUE]
                 /\ refs[cur] = 0
    BY <1>1, <1>4, NewMapping DEF LoadOpenFile
  <2>2. refs' \in [Clusters -> 0..2]
    BY <1>1, <2>1, LoadTypes
  <2> QED
    BY <1>1, <1>2, <2>1, <2>2, LoadTypes DEF RefsMatchHandles
<1> QED
  BY <1>3, <1>4

\* The loader's counts when the manager is freed.
LEMMA ShutdownRefs ==
  ASSUME TypeOK, RefsMatchHandles, HandlesRegistered, Shutdown
  PROVE  RefsMatchHandles' /\ refs' \in [Clusters -> 0..2]
<1>1. /\ refs' = [c \in Clusters |-> IF handle[c] THEN refs[c] - 1 ELSE refs[c]]
      /\ mapped' = [c \in Clusters |-> IF handle[c] /\ refs[c] = 1 THEN NotMapped ELSE mapped[c]]
      /\ handle' = [c \in Clusters |-> FALSE]
  BY DEF Shutdown, HandlesRegistered
<1>2. ASSUME NEW c \in Clusters
      PROVE  /\ refs'[c] = IF c \in HostLinked THEN 1 ELSE 0
             /\ refs'[c] = 0 <=> mapped'[c] = NotMapped
             /\ ~handle'[c]
  BY <1>1, <1>2, LoadTypes DEF RefsMatchHandles
<1>3. RefsMatchHandles'
  BY <1>2 DEF RefsMatchHandles
<1>4. refs' = [c \in Clusters |-> IF c \in HostLinked THEN 1 ELSE 0]
  BY <1>1, <1>2
<1> QED
  BY <1>3, <1>4

\* Steps that leave the manager and the mappings alone.
LEMMA OutsideStep ==
  ASSUME IInv, UNCHANGED <<mapped, refs, mappings, manager, table, pc, op, cur, failures>>,
         versions' \in [Clusters -> 1..MaxVersion],
         file' \in [Clusters -> Libs \cup {NoFile}],
         data' \in [Clusters -> {"initial", "used"}]
  PROVE  IInv'
<1>1. TypeOK'
  BY DEF IInv, TypeOK, manager
<1>2. RefsMatchHandles' /\ PinnedStaysOut'
  BY DEF IInv, RefsMatchHandles, PinnedStaysOut, manager
<1>3. OpenWhenClosed' /\ HandlesRegistered'
  BY DEF IInv, OpenWhenClosed, HandlesRegistered, manager
<1>4. LoopInv'
  BY DEF IInv, LoopInv, Loading, manager
<1> QED
  BY <1>1, <1>2, <1>3, <1>4 DEF IInv

\* Every step preserves it.
LEMMA NextIInv == IInv /\ [Next]_reloadvars => IInv'
<1> SUFFICES ASSUME IInv, [Next]_reloadvars PROVE IInv'
  OBVIOUS
<1> USE ReloadAssumption DEF None
<1>0. TypeOK /\ RefsMatchHandles /\ PinnedStaysOut /\ OpenWhenClosed /\ LoopInv /\ HandlesRegistered
  BY DEF IInv
<1>1. CASE InitRegister
  <2>1. TypeOK' /\ RefsMatchHandles'
    BY <1>0, <1>1 DEF InitRegister, loader, TypeOK, RefsMatchHandles, Clusters
  <2>2. PinnedStaysOut' /\ OpenWhenClosed' /\ HandlesRegistered'
    BY <1>0, <1>1
       DEF InitRegister, loader, TypeOK, PinnedStaysOut, OpenWhenClosed, HandlesRegistered, Clusters
  <2>3. LoopInv'
    BY <1>0, <1>1 DEF InitRegister, LoopInv, Loading
  <2> QED
    BY <2>1, <2>2, <2>3 DEF IInv
<1>2. CASE InitLoad
  <2>1. \/ pc' = "idle" /\ cur' = cur
        \/ pc' = "close" /\ cur' \in 1..count /\ cur' # Pinned
    BY <1>2, EnterFirstCur DEF InitLoad, Later
  <2>2. RefsMatchHandles' /\ refs' \in [Clusters -> 0..2]
    BY <1>0, <1>2, <2>1, LoadTypes DEF InitLoad, loader, manager, RefsMatchHandles
  <2>3. mapped' \in [Clusters -> Mappings \cup {NotMapped}]
    BY <1>0, <1>2, <2>1, LoadTypes DEF InitLoad, loader, manager
  <2>4. TypeOK'
    BY <1>0, <1>2, <2>1, <2>2, <2>3
       DEF InitLoad, loader, manager, TypeOK, LoopInv, Loading, Clusters
  <2>5. PinnedStaysOut'
    BY <1>0, <1>2, <2>1 DEF InitLoad, loader, manager, TypeOK, PinnedStaysOut, LoopInv, Clusters
  <2>6. OpenWhenClosed' /\ HandlesRegistered'
    BY <1>0, <1>2, <2>1
       DEF InitLoad, loader, manager, TypeOK, OpenWhenClosed, HandlesRegistered, Clusters
  <2>7. LoopInv'
    BY <1>0, <1>2, <2>1 DEF InitLoad, loader, manager, TypeOK, LoopInv, Loading, Clusters
  <2> QED
    BY <2>2, <2>4, <2>5, <2>6, <2>7 DEF IInv
<1>3. CASE LoadClose
  <2>1. RefsMatchHandles' /\ refs' \in [Clusters -> 0..2]
    BY <1>0, <1>3, CloseRefs
  <2>2. mapped' \in [Clusters -> Mappings \cup {NotMapped}]
    BY <1>0, <1>3, LoadTypes DEF LoadClose, NotMapped
  <2>3. TypeOK'
    <3>1. \A c \in Clusters : mapped'[c].at \in 0..mappings'
      BY <1>0, <1>3, LoadTypes DEF LoadClose, NotMapped, TypeOK
    <3>2. handle' \in [Clusters -> BOOLEAN]
      BY <1>0, <1>3, LoadTypes DEF LoadClose
    <3> QED
      BY <1>0, <1>3, <2>1, <2>2, <3>1, <3>2 DEF LoadClose, TypeOK
  <2>4. PinnedStaysOut'
    BY <1>0, <1>3 DEF LoadClose, NotMapped, TypeOK, PinnedStaysOut, LoopInv, Clusters
  <2>5. OpenWhenClosed' /\ HandlesRegistered'
    BY <1>0, <1>3, LoadTypes DEF LoadClose, OpenWhenClosed, HandlesRegistered
  <2>6. LoopInv'
    BY <1>0, <1>3 DEF LoadClose, NotMapped, TypeOK, LoopInv, Loading, Clusters
  <2> QED
    BY <2>1, <2>3, <2>4, <2>5, <2>6 DEF IInv
<1>4. CASE LoadOpenAgain
  <2>1. RefsMatchHandles' /\ refs' \in [Clusters -> 0..2]
    BY <1>0, <1>4, OpenRefs
  <2>2. mapped' \in [Clusters -> Mappings \cup {NotMapped}]
    BY <1>0, <1>4, LoadTypes DEF LoadOpenAgain
  <2>3. TypeOK'
    BY <1>0, <1>4, <2>1, <2>2 DEF LoadOpenAgain, TypeOK, LoopInv, Loading, Clusters
  <2>4. PinnedStaysOut'
    BY <1>0, <1>4 DEF LoadOpenAgain, TypeOK, PinnedStaysOut, LoopInv, Clusters
  <2>5. OpenWhenClosed' /\ HandlesRegistered'
    BY <1>0, <1>4 DEF LoadOpenAgain, TypeOK, OpenWhenClosed, HandlesRegistered, Clusters
  <2>6. LoopInv'
    BY <1>0, <1>4 DEF LoadOpenAgain, TypeOK, LoopInv, Loading, Clusters
  <2> QED
    BY <2>1, <2>3, <2>4, <2>5, <2>6 DEF IInv
<1>5. CASE LoadOpenFile
  <2>1. RefsMatchHandles' /\ refs' \in [Clusters -> 0..2]
    BY <1>0, <1>5, OpenRefs
  <2>2. mapped' \in [Clusters -> Mappings \cup {NotMapped}]
    BY <1>0, <1>5, LoadTypes, NewMapping DEF LoadOpenFile
  <2>3. TypeOK'
    <3>1. \A c \in Clusters : mapped'[c].at \in 0..mappings'
      BY <1>0, <1>5, LoadTypes DEF LoadOpenFile, TypeOK
    <3>2. /\ handle' \in [Clusters -> BOOLEAN] /\ data' \in [Clusters -> {"initial", "used"}]
          /\ mappings' \in Nat /\ table \in [Clusters -> 0..mappings']
      BY <1>0, <1>5, LoadTypes DEF LoadOpenFile, TypeOK
    <3> QED
      BY <1>0, <1>5, <2>1, <2>2, <3>1, <3>2 DEF LoadOpenFile, TypeOK
  <2>4. PinnedStaysOut'
    BY <1>0, <1>5 DEF LoadOpenFile, TypeOK, PinnedStaysOut, LoopInv, Clusters
  <2>5. OpenWhenClosed' /\ HandlesRegistered'
    BY <1>0, <1>5 DEF LoadOpenFile, TypeOK, OpenWhenClosed, HandlesRegistered, Clusters
  <2>6. LoopInv'
    BY <1>0, <1>5 DEF LoadOpenFile, TypeOK, LoopInv, Loading, Clusters
  <2> QED
    BY <2>1, <2>3, <2>4, <2>5, <2>6 DEF IInv
<1>6. CASE LoadFails
  <2>1. \/ pc' = "idle" /\ cur' = cur
        \/ pc' = "close" /\ op # "reload" /\ cur' > cur /\ cur' \in 1..count /\ cur' # Pinned
    BY <1>6, EnterFirstCur DEF LoadFails, Answer, Later, TypeOK
  <2>2. RefsMatchHandles' /\ refs' \in [Clusters -> 0..2]
    BY <1>0, <1>6, <2>1, LoadTypes DEF LoadFails, Answer, loader, manager, RefsMatchHandles
  <2>3. mapped' \in [Clusters -> Mappings \cup {NotMapped}]
    BY <1>0, <1>6, <2>1, LoadTypes DEF LoadFails, Answer, loader, manager
  <2>4. TypeOK'
    <3>1. failures' \in 0..NumClusters
      BY <1>0, <1>6, LoopTypes DEF LoadFails, Answer, LoopInv, Loading
    <3>2. /\ cur' \in Clusters \cup {None} /\ (pc' = "close" => cur' \in 1..count)
          /\ pc' \in {"idle", "close"}
      BY <1>0, <2>1, LoopTypes DEF Clusters
    <3> QED
      BY <1>0, <1>6, <2>2, <2>3, <3>1, <3>2 DEF LoadFails, loader, manager, TypeOK
  <2>5. PinnedStaysOut'
    BY <1>0, <1>6, <2>1
       DEF LoadFails, Answer, loader, manager, TypeOK, PinnedStaysOut, LoopInv, Clusters
  <2>6. OpenWhenClosed' /\ HandlesRegistered'
    BY <1>0, <1>6, <2>1
       DEF LoadFails, Answer, loader, manager, TypeOK, OpenWhenClosed, HandlesRegistered,
           Clusters
  <2>7. LoopInv'
    <3>1. op = "all" => failures' <= cur
      BY <1>0, <1>6, LoopTypes DEF LoadFails, Answer, LoopInv, Loading
    <3>2. op' = op /\ (\A c \in Clusters : c > cur => generation'[c] < MaxGeneration)
      BY <1>0, <1>6, LoopTypes DEF LoadFails, manager, LoopInv, Loading, Clusters
    <3>3. pc' = "close" => \A c \in Clusters : c >= cur' => c > cur
      BY <1>0, <2>1, LoopTypes DEF Clusters
    <3>4. pc' = "close" /\ op = "all" => failures' < cur'
      BY <1>0, <1>6, <2>1, <3>1, LoopTypes DEF LoadFails, Answer
    <3> QED
      BY <2>1, <3>2, <3>3, <3>4 DEF LoopInv, Loading
  <2> QED
    BY <2>2, <2>4, <2>5, <2>6, <2>7 DEF IInv
<1>7. CASE LoadRegister
  <2>1. \/ pc' = "idle" /\ cur' = cur
        \/ pc' = "close" /\ op # "reload" /\ cur' > cur /\ cur' \in 1..count /\ cur' # Pinned
    BY <1>7, EnterFirstCur DEF LoadRegister, Answer, Later, TypeOK
  <2>2. RefsMatchHandles' /\ refs' \in [Clusters -> 0..2]
    BY <1>0, <1>7, <2>1, LoadTypes DEF LoadRegister, Answer, loader, RefsMatchHandles
  <2>3. mapped' \in [Clusters -> Mappings \cup {NotMapped}]
    BY <1>0, <1>7, <2>1, LoadTypes DEF LoadRegister, Answer, loader
  <2>4. TypeOK'
    <3>1. failures' \in 0..NumClusters
      BY <1>0, <1>7, LoopTypes DEF LoadRegister, Answer, LoopInv, Loading
    <3>2. /\ cur' \in Clusters \cup {None} /\ (pc' = "close" => cur' \in 1..count)
          /\ pc' \in {"idle", "close"}
      BY <1>0, <2>1, LoopTypes DEF Clusters
    <3>3. generation' \in [Clusters -> 0..MaxGeneration]
      <4>1. cur \in Clusters /\ cur >= cur /\ Loading
        BY <1>0, <1>7, LoopTypes DEF LoadRegister, Loading, Clusters
      <4>2. generation[cur] < MaxGeneration
        BY <1>0, <4>1 DEF LoopInv
      <4>3. generation' = [generation EXCEPT ![cur] = generation[cur] + 1]
        BY <1>7 DEF LoadRegister
      <4> QED
        BY <1>0, <4>1, <4>2, <4>3, LoopTypes
    <3>4. table' \in [Clusters -> 0..mappings]
      BY <1>0, <1>7, LoadTypes DEF LoadRegister, TypeOK
    <3> QED
      BY <1>0, <1>7, <2>2, <2>3, <3>1, <3>2, <3>3, <3>4 DEF LoadRegister, loader, TypeOK
  <2>5. PinnedStaysOut'
    BY <1>0, <1>7, <2>1
       DEF LoadRegister, Answer, loader, TypeOK, PinnedStaysOut, LoopInv, Clusters
  <2>6. OpenWhenClosed' /\ HandlesRegistered'
    BY <1>0, <1>7, <2>1
       DEF LoadRegister, Answer, loader, TypeOK, OpenWhenClosed, HandlesRegistered, Clusters
  <2>7. LoopInv'
    <3>1. op = "all" => failures' <= cur
      BY <1>0, <1>7, LoopTypes DEF LoadRegister, Answer, LoopInv, Loading
    <3>2. op' = op /\ (\A c \in Clusters : c > cur => generation'[c] < MaxGeneration)
      BY <1>0, <1>7, LoopTypes DEF LoadRegister, manager, LoopInv, Loading, Clusters
    <3>3. pc' = "close" => \A c \in Clusters : c >= cur' => c > cur
      BY <1>0, <2>1, LoopTypes DEF Clusters
    <3>4. pc' = "close" /\ op = "all" => failures' < cur'
      BY <1>0, <1>7, <2>1, <3>1, LoopTypes DEF LoadRegister, Answer
    <3> QED
      BY <2>1, <3>2, <3>3, <3>4 DEF LoopInv, Loading
  <2> QED
    BY <2>2, <2>4, <2>5, <2>6, <2>7 DEF IInv
<1>8. CASE ReloadAll
  <2>1. \/ pc' = "idle" /\ cur' = cur
        \/ pc' = "close" /\ cur' \in 1..count /\ cur' # Pinned
    BY <1>8, EnterFirstCur DEF ReloadAll, Later
  <2>2. RefsMatchHandles' /\ refs' \in [Clusters -> 0..2]
    BY <1>0, <1>8, <2>1, LoadTypes
       DEF ReloadAll, CanStart, NoFailures, loader, manager, RefsMatchHandles
  <2>3. mapped' \in [Clusters -> Mappings \cup {NotMapped}]
    BY <1>0, <1>8, <2>1, LoadTypes DEF ReloadAll, CanStart, NoFailures, loader, manager
  <2>4. TypeOK'
    <3>1. failures' \in 0..NumClusters
      BY <1>8 DEF ReloadAll, NoFailures
    <3>2. /\ cur' \in Clusters \cup {None} /\ (pc' = "close" => cur' \in 1..count)
          /\ pc' \in {"idle", "close"}
      BY <1>0, <2>1, LoopTypes DEF Clusters
    <3> QED
      BY <1>0, <1>8, <2>2, <2>3, <3>1, <3>2 DEF ReloadAll, loader, manager, TypeOK
  <2>5. PinnedStaysOut'
    BY <1>0, <1>8, <2>1
       DEF ReloadAll, CanStart, NoFailures, loader, manager, TypeOK, PinnedStaysOut, LoopInv,
           Clusters
  <2>6. OpenWhenClosed' /\ HandlesRegistered'
    BY <1>0, <1>8, <2>1
       DEF ReloadAll, CanStart, NoFailures, loader, manager, TypeOK, OpenWhenClosed,
           HandlesRegistered, Clusters
  <2>7. LoopInv'
    <3>1. failures' = 0 /\ (\A c \in Clusters : generation'[c] < MaxGeneration)
      BY <1>8 DEF ReloadAll, CanStart, NoFailures, manager
    <3>2. pc' = "close" => 0 < cur'
      BY <1>0, <2>1, LoopTypes
    <3> QED
      BY <2>1, <3>1, <3>2 DEF LoopInv, Loading
  <2> QED
    BY <2>2, <2>4, <2>5, <2>6, <2>7 DEF IInv
<1>9. CASE Shutdown
  <2>1. RefsMatchHandles' /\ refs' \in [Clusters -> 0..2]
    BY <1>0, <1>9, ShutdownRefs
  <2>2. mapped' \in [Clusters -> Mappings \cup {NotMapped}]
    BY <1>0, <1>9, LoadTypes DEF Shutdown, NotMapped
  <2>3. TypeOK'
    <3>1. \A c \in Clusters : mapped'[c].at \in 0..mappings'
      BY <1>0, <1>9, LoadTypes DEF Shutdown, NotMapped, TypeOK
    <3>2. handle' \in [Clusters -> BOOLEAN]
      BY <1>9 DEF Shutdown
    <3> QED
      BY <1>0, <1>9, <2>1, <2>2, <3>1, <3>2, LoopTypes DEF Shutdown, TypeOK
  <2>4. PinnedStaysOut'
    BY <1>0, <1>9 DEF Shutdown, NotMapped, TypeOK, PinnedStaysOut, LoopInv, Clusters
  <2>5. OpenWhenClosed' /\ HandlesRegistered'
    BY <1>0, <1>9 DEF Shutdown, NotMapped, TypeOK, OpenWhenClosed, HandlesRegistered, Clusters
  <2>6. LoopInv'
    BY <1>0, <1>9 DEF Shutdown, NotMapped, TypeOK, LoopInv, Loading, Clusters
  <2> QED
    BY <2>1, <2>3, <2>4, <2>5, <2>6 DEF IInv
<1>10. ASSUME NEW c \in Clusters, Reload(c) PROVE IInv'
  BY <1>0, <1>10
     DEF Reload, MayReload, Reloadable, CanStart, Enter, loader, manager, IInv, TypeOK,
         RefsMatchHandles, PinnedStaysOut,
               OpenWhenClosed, LoopInv, HandlesRegistered, Loading, Clusters
<1>11. ASSUME NEW c \in Clusters, Relink(c) PROVE IInv'
  <2>1. versions' \in [Clusters -> 1..MaxVersion]
    BY <1>0, <1>11 DEF Relink, TypeOK
  <2>2. file' \in [Clusters -> Libs \cup {NoFile}]
    BY <1>0, <1>11 DEF Relink, TypeOK, Libs
  <2>3. data' \in [Clusters -> {"initial", "used"}]
    BY <1>0, <1>11 DEF Relink, TypeOK
  <2> QED
    BY <1>0, <1>11, <2>1, <2>2, <2>3, OutsideStep DEF Relink
<1>12. ASSUME NEW c \in Clusters, LinkFails(c) PROVE IInv'
  <2>1. /\ versions' \in [Clusters -> 1..MaxVersion]
        /\ file' \in [Clusters -> Libs \cup {NoFile}]
        /\ data' \in [Clusters -> {"initial", "used"}]
    BY <1>0, <1>12 DEF LinkFails, TypeOK
  <2> QED
    BY <1>0, <1>12, <2>1, OutsideStep DEF LinkFails
<1>13. ASSUME NEW c \in Clusters, Use(c) PROVE IInv'
  <2>1. /\ versions' \in [Clusters -> 1..MaxVersion]
        /\ file' \in [Clusters -> Libs \cup {NoFile}]
        /\ data' \in [Clusters -> {"initial", "used"}]
    BY <1>0, <1>13 DEF Use, loader, TypeOK
  <2> QED
    BY <1>0, <1>13, <2>1, OutsideStep DEF Use, loader
<1>14. CASE UNCHANGED reloadvars
  <2>1. /\ versions' \in [Clusters -> 1..MaxVersion]
        /\ file' \in [Clusters -> Libs \cup {NoFile}]
        /\ data' \in [Clusters -> {"initial", "used"}]
    BY <1>0, <1>14 DEF reloadvars, loader, TypeOK
  <2> QED
    BY <1>0, <1>14, <2>1, OutsideStep DEF reloadvars, loader
<1> QED
  BY <1>1, <1>2, <1>3, <1>4, <1>5, <1>6, <1>7, <1>8, <1>9, <1>10, <1>11, <1>12, <1>13, <1>14
     DEF Next, ManagerStep, Quiet

\* The invariant holds in every reachable state.
LEMMA IInvCorrect == Spec => []IInv
  BY InitIInv, NextIInv, PTL DEF Spec

\* Every variable of the reload manager stays in its range.
THEOREM ReloadTypeCorrect == Spec => []TypeOK
<1>1. IInv => TypeOK
  BY DEF IInv
<1> QED
  BY <1>1, IInvCorrect, PTL

\* nr_reload_load never leaks a mapping or closes one twice: the loader's count
\* is what the manager and the host hold.
THEOREM RefsCorrect == Spec => []RefsMatchHandles
<1>1. IInv => RefsMatchHandles
  BY DEF IInv
<1> QED
  BY <1>1, IInvCorrect, PTL

\* nr_topology_init, nr_topology_reload and nr_topology_reload_all never load the
\* pinned cluster.
THEOREM PinnedCorrect == Spec => []PinnedStaysOut
<1>1. IInv => PinnedStaysOut
  BY DEF IInv
<1> QED
  BY <1>1, IInvCorrect, PTL

\* What the table's entry for c is worth: nothing to call, a call that works, or a
\* cluster without a library or without a register function.
Entry(c) == table[c] = None \/ Callable(c) \/ ~handle[c] \/ ~mapped[c].lib.exports

\* Only the library just opened may have an entry that is not yet its own.
EntryInv == \A c \in Clusters : (pc = "symbol" /\ c = cur) \/ Entry(c)

\* A step that leaves the table, the handles and the loader alone and is not the end of
\* a registration.
LEMMA EntriesSame ==
  ASSUME EntryInv, UNCHANGED <<table, handle, refs, mapped>>, pc # "symbol"
  PROVE  EntryInv'
  BY DEF EntryInv, Entry, Callable

\* Closing or opening the library of cur does not touch another cluster.
LEMMA OthersSame ==
  ASSUME EntryInv, pc # "symbol", NEW c \in Clusters, table' = table,
         handle'[c] = handle[c], refs'[c] = refs[c], mapped'[c] = mapped[c]
  PROVE  Entry(c)'
  BY DEF EntryInv, Entry, Callable

\* Every step keeps the entries.
LEMMA NextEntryInv == IInv /\ EntryInv /\ [Next]_reloadvars => EntryInv'
<1> SUFFICES ASSUME IInv, EntryInv, [Next]_reloadvars PROVE EntryInv'
  OBVIOUS
<1>0. /\ refs \in [Clusters -> 0..2] /\ handle \in [Clusters -> BOOLEAN]
      /\ mapped \in [Clusters -> Mappings \cup {NotMapped}]
      /\ pc \in {"close", "open", "symbol"} => cur \in Clusters
  BY LoadTypes DEF IInv
<1>1. CASE LoadClose
  <2>1. pc = "close" /\ table' = table /\ cur' = cur /\ cur \in Clusters
    BY <1>0, <1>1 DEF LoadClose
  <2>2. ~handle'[cur]
    BY <1>0, <1>1, <2>1 DEF LoadClose
  <2>3. ASSUME NEW c \in Clusters, c # cur
        PROVE  handle'[c] = handle[c] /\ refs'[c] = refs[c] /\ mapped'[c] = mapped[c]
    BY <1>0, <1>1, <2>1, <2>3 DEF LoadClose
  <2>4. ASSUME NEW c \in Clusters PROVE Entry(c)'
    <3>1. CASE c = cur
      BY <2>2, <3>1 DEF Entry
    <3>2. CASE c # cur
      BY <2>1, <2>3, <3>2, OthersSame
    <3> QED
      BY <3>1, <3>2
  <2> QED
    BY <2>4 DEF EntryInv
<1>2. CASE LoadOpenAgain \/ LoadOpenFile
  <2>1. pc = "open" /\ pc' = "symbol" /\ table' = table /\ cur' = cur /\ cur \in Clusters
    BY <1>0, <1>2 DEF LoadOpenAgain, LoadOpenFile
  <2>2. ASSUME NEW c \in Clusters, c # cur
        PROVE  handle'[c] = handle[c] /\ refs'[c] = refs[c] /\ mapped'[c] = mapped[c]
    BY <1>0, <1>2, <2>1, <2>2 DEF LoadOpenAgain, LoadOpenFile
  <2>3. ASSUME NEW c \in Clusters, c # cur PROVE Entry(c)'
    BY <2>1, <2>2, <2>3, OthersSame
  <2> QED
    BY <2>1, <2>3 DEF EntryInv
<1>3. CASE LoadRegister
  <2>1. pc = "symbol" /\ cur \in Clusters /\ UNCHANGED <<handle, refs, mapped>>
        /\ table' = IF mapped[cur].lib.exports THEN [table EXCEPT ![cur] = mapped[cur].at] ELSE table
    BY <1>0, <1>3 DEF LoadRegister, Registers, loader
  <2>2. table \in [Clusters -> Nat]
    BY ReloadAssumption DEF IInv, TypeOK, None
  <2>3. ASSUME NEW c \in Clusters, c = cur PROVE Entry(c)'
    <3>1. CASE handle[c] /\ mapped[c].lib.exports
      <4>1. table'[c] = mapped[c].at
        BY <2>1, <2>2, <2>3, <3>1
      <4>2. refs[c] > 0
        BY <1>0, <3>1 DEF IInv, RefsMatchHandles
      <4> QED
        BY <2>1, <4>1, <4>2 DEF Entry, Callable
    <3>2. CASE ~(handle[c] /\ mapped[c].lib.exports)
      BY <2>1, <3>2 DEF Entry
    <3> QED
      BY <3>1, <3>2
  <2>4. ASSUME NEW c \in Clusters, c # cur PROVE Entry(c)'
    <3>1. table'[c] = table[c]
      BY <2>1, <2>2, <2>4
    <3>2. Entry(c)
      BY <2>4 DEF EntryInv
    <3> QED
      BY <2>1, <3>1, <3>2 DEF Entry, Callable
  <2> QED
    BY <2>3, <2>4 DEF EntryInv
<1>4. CASE Shutdown
  <2>1. \A c \in Clusters : ~handle'[c]
    BY <1>4 DEF Shutdown
  <2> QED
    BY <2>1 DEF EntryInv, Entry
<1>5. CASE LoadFails
  BY <1>5, EntriesSame DEF LoadFails, loader, manager
<1>6. CASE InitRegister
  BY <1>6, EntriesSame DEF InitRegister, loader
<1>7. CASE InitLoad
  BY <1>7, EntriesSame DEF InitLoad, loader, manager
<1>8. CASE ReloadAll
  BY <1>8, EntriesSame DEF ReloadAll, CanStart, loader, manager
<1>9. ASSUME NEW c \in Clusters, Reload(c) PROVE EntryInv'
  BY <1>9, EntriesSame DEF Reload, CanStart, loader, manager
<1>10. ASSUME UNCHANGED <<table, handle, refs, mapped, pc, cur>> PROVE EntryInv'
  BY <1>10 DEF EntryInv, Entry, Callable
<1>11. ASSUME NEW c \in Clusters, Relink(c) \/ LinkFails(c) \/ Use(c) PROVE EntryInv'
  BY <1>10, <1>11 DEF Relink, LinkFails, Use, loader, manager
<1>12. CASE UNCHANGED reloadvars
  BY <1>10, <1>12 DEF reloadvars, loader, manager
<1> QED
  BY <1>1, <1>2, <1>3, <1>4, <1>5, <1>6, <1>7, <1>8, <1>9, <1>11, <1>12 DEF Next, ManagerStep, Quiet

\* Between two calls, an entry of the dispatch table that leads to code that is gone is
\* that of a cluster whose load failed or whose new library has no register function:
\* a swap that succeeds never leaves one (nr_reload_load), whatever the loader does.
THEOREM DanglingCorrect == Spec => []DanglingOnlyAfterFailure
<1>1. Init => EntryInv
  BY DEF Init, EntryInv, Entry
<1>2. EntryInv => DanglingOnlyAfterFailure
  BY DEF EntryInv, Entry, DanglingOnlyAfterFailure
<1> QED
  BY <1>1, <1>2, NextEntryInv, IInvCorrect, PTL DEF Spec

\* The step that opens a library is that of dlopen: of the mapping that is left, or of the
\* file.
LEMMA OpenStep ==
  ASSUME IInv, Next, pc = "open", pc' = "symbol"
  PROVE  LoadOpenAgain \/ LoadOpenFile
<1>1. ~LoadFails
  BY DEF LoadFails, Answer, EnterFirst, Enter
<1>2. ~InitRegister /\ ~InitLoad /\ ~LoadClose /\ ~LoadRegister /\ ~ReloadAll /\ ~Shutdown
  BY DEF InitRegister, InitLoad, LoadClose, LoadRegister, ReloadAll, CanStart, Shutdown
<1>3. \A c \in Clusters : ~Reload(c) /\ ~Relink(c) /\ ~LinkFails(c) /\ ~Use(c)
  BY DEF Reload, CanStart, Relink, LinkFails, Use
<1>4. ~Quiet
  BY DEF Quiet
<1> QED
  BY <1>1, <1>2, <1>3, <1>4 DEF Next, ManagerStep

\* A load that succeeds runs the library that is at the path: nr_reload_load has closed
\* the handle before it calls hotreload_open, nobody but the host holds a library, so
\* dlopen cannot answer with an old mapping, for any number of clusters and loads.
THEOREM FileLoaded == Spec => LoadsTheFile
<1>1. ASSUME IInv, [Next]_reloadvars
      PROVE  [pc = "open" /\ pc' = "symbol" /\ cur \notin HostLinked =>
                mapped'[cur].lib = file[cur]]_reloadvars
  <2> SUFFICES ASSUME Next, pc = "open", pc' = "symbol", cur \notin HostLinked
               PROVE  mapped'[cur].lib = file[cur]
    BY <1>1
  <2>1. cur \in Clusters /\ ~handle[cur] /\ refs[cur] = 0
    <3>1. cur \in Clusters
      BY <1>1, LoadTypes DEF IInv
    <3>2. ~handle[cur]
      BY <1>1 DEF IInv, OpenWhenClosed
    <3> QED
      BY <1>1, <3>1, <3>2 DEF IInv, RefsMatchHandles
  <2>2. LoadOpenFile
    BY <1>1, <2>1, OpenStep DEF LoadOpenAgain
  <2> QED
    BY <1>1, <2>1, <2>2 DEF LoadOpenFile, IInv, TypeOK
<1> QED
  BY <1>1, IInvCorrect, PTL DEF Spec, LoadsTheFile
=============================================================================
