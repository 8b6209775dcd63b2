-------------------------------- MODULE Repl --------------------------------
(***************************************************************************)
(* The interactive shell, cli/snekc.py: what the user has typed so far, the *)
(* library compiled from all of it, and the values of the globals, which    *)
(* are carried from each library to the next.  Inputs have identities; what *)
(* one says is its kind, what it names and whether it compiles.             *)
(***************************************************************************)
EXTENDS Naturals, Sequences, FiniteSets, Functions, SequencesExt

CONSTANTS
  Structs, Functions,  \* their names
  Globals,      \* names of variables
  Widths,       \* the C types of _CTYPE_MAP, and structs of their kind, by size
  Opaque,       \* a C type _resolve_ctype does not know: str, list, dict, pointers
  None,
  Garbage,      \* bytes past the end of a variable, read as part of it
  MaxInputs     \* bound: inputs of a session

ASSUME ReplAssumption ==
  /\ Widths \subseteq Nat /\ None \notin Nat /\ Garbage \notin Nat /\ MaxInputs \in Nat
  /\ Opaque \notin Nat /\ None # Opaque /\ Structs \cap (Widths \cup {Opaque}) = {}
  /\ None \notin [size : Widths, value : (0..MaxInputs) \cup {Garbage}]

VARIABLES
  pc,       \* "prompt", "compile", "load" or "call"
  source,   \* ReplState: .structs, .functions, .globals, .evals, with their inputs
  counter,  \* ReplState.eval_counter
  lib,      \* the library loaded: None or [globals, evals, mem]
  saved,    \* ReplState.global_values: [size, value] or None
  inputs,   \* inputs so far
  before,   \* history: the source when the last input was read
  kind,     \* history: the kind of the last input
  ran       \* history: evaluations called, in order

vars == <<pc, source, counter, lib, saved, inputs, before, kind, ran>>

\* A part of the source: the input it came from and whether it compiles.  A struct
\* has the layout of its fields, opaque if one of them is; a variable may be of it.
Layouts == Widths \cup {Opaque}

Part == [id : 1..MaxInputs, ok : BOOLEAN]
Struct == [id : 1..MaxInputs, ok : BOOLEAN, layout : Layouts]
Variable == [id : 1..MaxInputs, ok : BOOLEAN, type : Layouts \cup Structs]
Statement == [id : 1..MaxInputs, ok : BOOLEAN, sets : Globals \cup {None}]

Init ==
  /\ pc = "prompt" /\ counter = 0 /\ lib = None /\ inputs = 0 /\ kind = "none" /\ ran = <<>>
  /\ source = [structs |-> [d \in Structs |-> None], functions |-> [f \in Functions |-> None],
               globals |-> [g \in Globals |-> None], evals |-> <<>>]
  /\ before = source /\ saved = [g \in Globals |-> None]

-----------------------------------------------------------------------------
(* add_input.  What does not parse, and an empty line, change nothing.      *)

Read(k, s, n) ==
  /\ pc = "prompt" /\ inputs < MaxInputs
  /\ inputs' = inputs + 1 /\ kind' = k /\ before' = source
  /\ source' = s /\ counter' = n
  \* compile_and_run returns at once while there is nothing to compile
  /\ pc' = IF /\ n = 0
               /\ \A d \in Structs : s.structs[d] = None
               /\ \A f \in Functions : s.functions[f] = None
            THEN "prompt" ELSE "compile"
  /\ UNCHANGED <<lib, saved, ran>>

AddStruct ==
  \E d \in Structs, l \in Layouts, ok \in BOOLEAN :
    Read("struct", [source EXCEPT !.structs[d] = [id |-> inputs + 1, ok |-> ok, layout |-> l]], counter)

AddFunction ==
  \E f \in Functions, ok \in BOOLEAN :
    Read("function", [source EXCEPT !.functions[f] = [id |-> inputs + 1, ok |-> ok]], counter)

AddGlobal ==
  \E g \in Globals, t \in Layouts \cup Structs, ok, value \in BOOLEAN :
    LET declared == [source EXCEPT !.globals[g] = [id |-> inputs + 1, ok |-> ok, type |-> t]]
    IN IF value
       THEN \E valueOk \in BOOLEAN :
              Read("global", [declared EXCEPT !.evals = Append(@, [id |-> inputs + 1, ok |-> valueOk, sets |-> g])],
                   counter + 1)
       ELSE Read("global", declared, counter)

AddStatement ==
  \E g \in Globals \cup {None}, ok \in BOOLEAN :
    Read("statement", [source EXCEPT !.evals = Append(@, [id |-> inputs + 1, ok |-> ok, sets |-> g])], counter + 1)

-----------------------------------------------------------------------------
(* compile_and_run.                                                         *)

\* Seeded bug: only the counter goes back.
RollbackCounter == source

\* _rollback: the last evaluation goes, whatever the input was.
Rollback == [source EXCEPT !.evals = IF counter > 0 THEN Front(@) ELSE @]

Declared == {g \in Globals : source.globals[g] # None}

\* A variable of a struct needs the struct.
Resolved ==
  \A g \in Declared : source.globals[g].type \in Structs => source.structs[source.globals[g].type] # None

\* generate_mpy puts every part in one file: one that is bad fails them all.
Compiles ==
  /\ \A d \in Structs : source.structs[d] # None => source.structs[d].ok
  /\ \A f \in Functions : source.functions[f] # None => source.functions[f].ok
  /\ Resolved /\ \A g \in Declared : source.globals[g].ok
  /\ \A i \in 1..Len(source.evals) : source.evals[i].ok

CompileFails ==
  /\ pc = "compile" /\ ~Compiles
  /\ pc' = "prompt" /\ source' = Rollback /\ counter' = IF counter > 0 THEN counter - 1 ELSE 0
  /\ UNCHANGED <<lib, saved, inputs, before, kind, ran>>

CompileSucceeds ==
  /\ pc = "compile" /\ Compiles /\ pc' = "load"
  /\ UNCHANGED <<source, counter, lib, saved, inputs, before, kind, ran>>

\* _resolve_ctype: a struct may have been redefined since the variable was declared.
Layout(g) ==
  LET t == source.globals[g].type IN IF t \in Structs THEN source.structs[t].layout ELSE t

\* Reading a variable of layout l as one of layout w leads past its end.
Overruns(w, l) == l = Opaque \/ w > l

\* _export_state: with the types the globals have now, from the library there is.  It
\* passes over what has no ctypes type, and reads over the end of what was narrower.
Exported == [g \in Globals |->
  IF g \notin Declared \/ lib = None THEN saved[g]
  ELSE IF lib.globals[g] = None \/ Layout(g) = Opaque THEN saved[g]
  ELSE [size |-> Layout(g), value |-> IF Overruns(Layout(g), lib.globals[g]) THEN Garbage ELSE lib.mem[g]]]

\* Seeded bug: the values are not copied into the new library.
NotImported(values) == [g \in Globals |-> 0]

\* _import_state into the library just loaded, whose variables are zero; what has no
\* ctypes type stays so.
Import(values) ==
  [g \in Globals |-> IF g \in Declared /\ values[g] # None /\ Layout(g) # Opaque THEN values[g].value ELSE 0]

\* The latest evaluation is called if there is one, also for an input that added none.
Load ==
  /\ pc = "load" /\ pc' = IF counter > 0 THEN "call" ELSE "prompt"
  /\ saved' = Exported
  /\ lib' = [globals |-> [g \in Globals |-> IF g \in Declared THEN Layout(g) ELSE None],
             evals |-> source.evals, mem |-> Import(saved')]
  /\ UNCHANGED <<source, counter, inputs, before, kind, ran>>

\* A statement sets its global to a value of its own.  What eval_N leaves is saved.
CallEval ==
  /\ pc = "call" /\ pc' = "prompt"
  /\ IF counter <= Len(lib.evals)
     THEN LET s == lib.evals[counter]
          IN /\ lib' = IF s.sets \in Declared THEN [lib EXCEPT !.mem[s.sets] = s.id] ELSE lib
             /\ ran' = Append(ran, s.id)
     ELSE UNCHANGED <<lib, ran>>  \* RuntimeError: no such symbol
  /\ saved' = [g \in Globals |-> IF g \in Declared /\ Layout(g) # Opaque
                                THEN [size |-> Layout(g), value |-> lib'.mem[g]] ELSE saved[g]]
  /\ UNCHANGED <<source, counter, inputs, before, kind>>

Stop == pc = "prompt" /\ inputs = MaxInputs /\ UNCHANGED vars

Next == AddStruct \/ AddFunction \/ AddGlobal \/ AddStatement \/ CompileFails \/ CompileSucceeds
        \/ Load \/ CallEval \/ Stop

Spec == Init /\ [][Next]_vars

-----------------------------------------------------------------------------
(* Properties.                                                              *)

Ran == {ran[i] : i \in 1..Len(ran)}

\* The evaluation called after a load is one of the library (snekc.py:268-273): the counter
\* follows the list through every rollback.
EvalExists == pc = "call" => counter = Len(lib.evals) /\ counter > 0

\* A statement that is still in the source has been called (snekc.py:266-276): only the
\* latest evaluation is, and rollbacks and definitions come in between.
NoStatementSkipped == pc = "prompt" => \A i \in 1..Len(source.evals) : source.evals[i].id \in Ran

\* Variables keep their values from one library to the next (docs/language.md:1007,
\* "persist between evaluations") if they keep their layout and ctypes has a type for
\* them, also over failed inputs and redefined structs; a str, a list or a pointer is
\* back at zero after every input.
ValuesPersist ==
  [][pc = "load" /\ lib # None =>
       \A g \in Globals : lib.globals[g] \in Widths /\ lib.globals[g] = lib'.globals[g] =>
         lib'.mem[g] = lib.mem[g]]_vars

\* A failed statement leaves the source as it was, whatever failed before it
\* (snekc.py:284).
FailedStatementUndone == [][pc = "compile" /\ pc' = "prompt" /\ kind = "statement" => source' = before]_vars

=============================================================================
