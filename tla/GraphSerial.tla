----------------------------- MODULE GraphSerial -----------------------------
(***************************************************************************)
(* save_X and load_X, which the compiler emits for a @serializable struct   *)
(* with pointers (compiler/compiler.py, _emit_graph_serialization), over    *)
(* NrPtrSet of runtime/nathra_rt.h.  One behaviour saves the objects that a *)
(* root reaches and loads the file.  All objects are of one struct; of its  *)
(* fields only the pointers to @serializable structs are kept.              *)
(***************************************************************************)
EXTENDS Naturals, Sequences

CONSTANTS
  Objects, Null,
  Garbage,   \* what malloc leaves in an element of objs that is not set yet
  Slots,     \* the pointer fields of the struct
  Walk,      \* those that _collect_graph_X follows, in the order of the fields: not the back
             \* references, nor pointers in arrays of structs
  MaxStack   \* bound: calls of _collect_graph_X the stack has room for

ASSUME GraphAssumption ==
  /\ Null \notin Objects /\ Garbage \notin Nat /\ Null \notin Nat /\ Null # Garbage
  /\ Walk \in Seq(Slots) /\ MaxStack \in Nat

VARIABLES
  graph, root,  \* the objects' pointers, and the object save_X is called with
  phase,        \* "collect", "load", "done" or "overflow": the stack ran out
  stack,        \* calls of _collect_graph_X: the object and the place in Walk
  seen,         \* NrPtrSet, in the order of its indices
  file,         \* per record and slot the index written, 0 for the source's -1
  loaded        \* per object allocated by load_X, its pointers

vars == <<graph, root, phase, stack, seen, file, loaded>>

Call == [obj : Objects, at : Nat \ {0}]

Init ==
  /\ graph \in [Objects -> [Slots -> Objects \cup {Null}]] /\ root \in Objects
  /\ phase = "collect" /\ stack = << [obj |-> root, at |-> 1] >>
  /\ seen = <<>> /\ file = <<>> /\ loaded = <<>>

\* nr_ptrset_find, with 0 for -1: pointers are added once.
InSeen(o) == \E i \in 1..Len(seen) : seen[i] = o
Index(o) == IF InSeen(o) THEN CHOOSE i \in 1..Len(seen) : seen[i] = o ELSE 0

Top == stack[Len(stack)]
Rest == SubSeq(stack, 1, Len(stack) - 1)
Child == graph[Top.obj][Walk[Top.at]]

\* A pointer that is null, or to an object collected already: go to the next.
Skip ==
  /\ phase = "collect" /\ stack # <<>> /\ Top.at <= Len(Walk)
  /\ Child = Null \/ InSeen(Child)
  /\ stack' = Append(Rest, [Top EXCEPT !.at = @ + 1])
  /\ UNCHANGED <<graph, root, phase, seen, file, loaded>>

\* The children come before the object itself is added.
Descend ==
  /\ phase = "collect" /\ stack # <<>> /\ Top.at <= Len(Walk)
  /\ Child # Null /\ ~InSeen(Child)
  /\ IF Len(stack) < MaxStack
     THEN /\ stack' = Append(Append(Rest, [Top EXCEPT !.at = @ + 1]), [obj |-> Child, at |-> 1])
          /\ UNCHANGED phase
     ELSE phase' = "overflow" /\ UNCHANGED stack
  /\ UNCHANGED <<graph, root, seen, file, loaded>>

\* nr_ptrset_add.
Added(o) == IF InSeen(o) THEN seen ELSE Append(seen, o)

Collect ==
  /\ phase = "collect" /\ stack # <<>> /\ Top.at > Len(Walk)
  /\ seen' = Added(Top.obj) /\ stack' = Rest
  /\ UNCHANGED <<graph, root, phase, file, loaded>>

\* _serialize_graph_X of object i.
Record(i) == [s \in Slots |-> IF graph[seen[i]][s] = Null THEN 0 ELSE Index(graph[seen[i]][s])]

Save ==
  /\ phase = "collect" /\ stack = <<>>
  /\ file' = [i \in 1..Len(seen) |-> Record(i)] /\ phase' = "load"
  /\ UNCHANGED <<graph, root, stack, seen, loaded>>

\* Seeded bug: a record is read before its own object is put in objs.
RestoredFirst(i) == [s \in Slots |-> IF file[i][s] = 0 THEN Null
                                     ELSE IF file[i][s] < i THEN file[i][s] ELSE Garbage]

\* _deserialize_graph_X of record i, while objs holds records 1..i, for a back reference too.
Restored(i) == [s \in Slots |-> IF file[i][s] = 0 THEN Null
                                ELSE IF file[i][s] <= i THEN file[i][s] ELSE Garbage]

Load ==
  /\ phase = "load" /\ Len(loaded) < Len(file)
  /\ loaded' = Append(loaded, Restored(Len(loaded) + 1))
  /\ UNCHANGED <<graph, root, phase, stack, seen, file>>

Loaded ==
  /\ phase = "load" /\ Len(loaded) = Len(file)
  /\ phase' = "done" /\ UNCHANGED <<graph, root, stack, seen, file, loaded>>

Stop == phase \in {"done", "overflow"} /\ UNCHANGED vars

Next == Skip \/ Descend \/ Collect \/ Save \/ Load \/ Loaded \/ Stop

Spec == Init /\ [][Next]_vars

-----------------------------------------------------------------------------
(* Properties.                                                              *)

Followed == {Walk[a] : a \in 1..Len(Walk)}

\* Pointer s of object i is what it was.
Exact(i, s) == \/ graph[seen[i]][s] = Null /\ loaded[i][s] = Null
               \/ loaded[i][s] \in 1..Len(seen) /\ seen[loaded[i][s]] = graph[seen[i]][s]

\* Every object that was collected is there once, the root last.
EachOnce ==
  /\ seen # <<>> /\ seen[Len(seen)] = root
  /\ Len(loaded) = Len(seen)
  /\ \A i, j \in 1..Len(seen) : seen[i] = seen[j] => i = j

\* A pointer that is followed leads where it led, which is an object before its own.
FollowedRestored ==
  \A i \in 1..Len(seen), s \in Followed : Exact(i, s) /\ (loaded[i][s] = Null \/ loaded[i][s] < i)

\* So does a back reference to an object that comes no later in the file than its own, or to
\* itself.  One to an object that no followed pointer leads to is null, and one to an object
\* that comes later is what was in the table.
BackReferencesRestored ==
  \A i \in 1..Len(seen), s \in Slots \ Followed :
    \/ Exact(i, s)
    \/ ~InSeen(graph[seen[i]][s]) /\ loaded[i][s] = Null
    \/ loaded[i][s] = Garbage /\ \E j \in (i + 1)..Len(seen) : seen[j] = graph[seen[i]][s]

\* The collection has come back to an object that it is still about.
ComesBack == \E i, j \in 1..Len(stack) : i < j /\ stack[i].obj = stack[j].obj

\* What is loaded is the graph that was saved, shared objects shared and leaves first
\* (docs/language.md:759): objects, the pointers between them, and back references as far
\* as they lead back in the file.  Only a cycle of pointers that are followed, which back
\* references are there to break (docs/language.md:761), keeps a graph from being saved.
LoadedGraphIsSaved ==
  /\ phase = "done" => EachOnce /\ FollowedRestored /\ BackReferencesRestored
  /\ phase = "overflow" => ComesBack

=============================================================================
