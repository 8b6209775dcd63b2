----------------------------- MODULE ToolProofs -----------------------------
(***************************************************************************)
(* Theorems about the tools of cli.  Repl, for any names, types and length   *)
(* of a session: the counter of evaluations follows the list of them through *)
(* every failure, every statement still in the source has been called, a     *)
(* statement that fails leaves no trace, and the variables keep their        *)
(* values.  Build, for any modules, imports and targets: a build that        *)
(* succeeds has the sources as they were when it began, or newer.            *)
(***************************************************************************)
EXTENDS Repl, Build, FiniteSetTheorems, WellFoundedInduction, TLAPS

(***************************************************************************)
(* The shell.                                                               *)
(***************************************************************************)

SourceStates == [structs : [Structs -> Struct \cup {None}], functions : [Functions -> Part \cup {None}],
            globals : [Globals -> Variable \cup {None}],
            evals : Seq(Statement)]

SourceTyped == source \in SourceStates /\ before \in SourceStates /\ inputs \in 0..MaxInputs /\ ran \in Seq(1..MaxInputs)

Phase == pc \in {"prompt", "compile", "load", "call"}

\* eval_counter and eval_bodies grow and shrink together.
Counted == counter = Len(source.evals)

\* The library called is made from the source as it is.
LibraryIsSource == pc = "call" => lib.evals = source.evals /\ counter > 0

\* All evaluations but the last have been called.
OthersCalled == \A i \in 1..(Len(source.evals) - 1) : source.evals[i].id \in Ran

\* A statement that waits to be compiled is the last evaluation of the source.
PendingIsLast ==
  pc = "compile" /\ kind = "statement" =>
    \E s \in Statement : source = [before EXCEPT !.evals = Append(before.evals, s)]

IInv == SourceTyped /\ Phase /\ Counted /\ LibraryIsSource /\ OthersCalled /\ NoStatementSkipped /\ PendingIsLast

\* The initial states satisfy the invariant.
LEMMA InitIInv == Init => IInv
<1> SUFFICES ASSUME Init PROVE IInv
  OBVIOUS
<1>1. SourceTyped
  BY ReplAssumption DEF Init, SourceTyped, SourceStates
<1>2. source.evals = <<>> /\ counter = 0 /\ pc = "prompt"
  BY DEF Init
<1> QED
  BY <1>1, <1>2 DEF IInv, Phase, Counted, LibraryIsSource, OthersCalled, NoStatementSkipped, PendingIsLast

\* Appending to a list and dropping the last of the list again.
LEMMA AppendFacts ==
  ASSUME NEW S, NEW e \in Seq(S), NEW s \in S
  PROVE  /\ Append(e, s) \in Seq(S) /\ Len(Append(e, s)) = Len(e) + 1
         /\ \A i \in 1..Len(e) : Append(e, s)[i] = e[i]
         /\ Front(Append(e, s)) = e
  BY DEF Front

\* What is left of a list without its last item.
LEMMA FrontFacts ==
  ASSUME NEW S, NEW e \in Seq(S), Len(e) > 0
  PROVE  /\ Front(e) \in Seq(S) /\ Len(Front(e)) = Len(e) - 1
         /\ \A i \in 1..(Len(e) - 1) : Front(e)[i] = e[i]
<1>1. 1 \in Nat /\ Len(e) - 1 \in 0..Len(e) /\ Front(e) = SubSeq(e, 1, Len(e) - 1)
  BY DEF Front
<1>2. \A i \in 1..(Len(e) - 1) : i \in 1..Len(e) /\ e[i] \in S
  OBVIOUS
<1>3. Front(e) = [i \in 1..(Len(e) - 1) |-> e[i]]
  BY <1>1
<1>4. Len(e) - 1 \in Nat /\ Front(e) \in [1..(Len(e) - 1) -> S]
  BY <1>2, <1>3
<1>5. Front(e) \in Seq(S) /\ Len(Front(e)) = Len(e) - 1
  BY <1>4
<1> QED
  BY <1>3, <1>5

\* One more evaluation in a source.
LEMMA AppendSource ==
  ASSUME NEW made \in SourceStates, NEW new \in Statement
  PROVE  /\ [made EXCEPT !.evals = Append(made.evals, new)] \in SourceStates
         /\ [made EXCEPT !.evals = Append(made.evals, new)].evals = Append(made.evals, new)
<1>1. Append(made.evals, new) \in Seq(Statement)
  BY AppendFacts DEF SourceStates
<1>2. made = [structs |-> made.structs, functions |-> made.functions, globals |-> made.globals,
              evals |-> made.evals]
  BY DEF SourceStates
<1> QED
  BY <1>1, <1>2 DEF SourceStates

\* An input that adds no evaluation keeps the invariant.
LEMMA ReadDefinition ==
  ASSUME IInv, NEW s \in SourceStates, s.evals = source.evals, NEW k, k # "statement", Read(k, s, counter)
  PROVE  IInv'
<1>1. pc = "prompt" /\ source' = s /\ before' = source /\ counter' = counter /\ ran' = ran
      /\ inputs < MaxInputs /\ inputs' = inputs + 1 /\ kind' = k /\ pc' \in {"prompt", "compile"}
  BY DEF Read
<1>2. SourceTyped'
  BY <1>1, ReplAssumption DEF IInv, SourceTyped
<1>3. Ran' = Ran
  BY <1>1 DEF Ran
<1>4. \A i \in 1..Len(source.evals) : source.evals[i].id \in Ran
  BY <1>1 DEF IInv, NoStatementSkipped
<1>5. OthersCalled' /\ NoStatementSkipped'
  BY <1>1, <1>3, <1>4 DEF OthersCalled, NoStatementSkipped, IInv, SourceTyped, SourceStates
<1> QED
  BY <1>1, <1>2, <1>5 DEF IInv, Phase, Counted, LibraryIsSource, PendingIsLast

\* An input that adds an evaluation keeps it.
LEMMA ReadEvaluation ==
  ASSUME IInv, NEW s \in SourceStates, NEW new \in Statement, s.evals = Append(source.evals, new),
         NEW k, Read(k, s, counter + 1),
         k = "statement" => s = [source EXCEPT !.evals = Append(source.evals, new)]
  PROVE  IInv'
<1>1. pc = "prompt" /\ source' = s /\ before' = source /\ counter' = counter + 1 /\ ran' = ran
      /\ inputs < MaxInputs /\ inputs' = inputs + 1 /\ kind' = k
  BY DEF Read
<1>2. source.evals \in Seq(Statement) /\ counter = Len(source.evals)
  BY DEF IInv, SourceTyped, SourceStates, Counted
<1>3. pc' = "compile"
  BY <1>2, counter + 1 # 0 DEF Read
<1>4. SourceTyped'
  BY <1>1, ReplAssumption DEF IInv, SourceTyped
<1>5. Ran' = Ran
  BY <1>1 DEF Ran
<1>6. /\ Len(s.evals) = Len(source.evals) + 1
      /\ \A i \in 1..Len(source.evals) : s.evals[i] = source.evals[i]
  BY <1>2, AppendFacts
<1>7. \A i \in 1..Len(source.evals) : source.evals[i].id \in Ran
  BY <1>1 DEF IInv, NoStatementSkipped
<1>8. OthersCalled'
  <2> SUFFICES ASSUME NEW i \in 1..(Len(s.evals) - 1) PROVE s.evals[i].id \in Ran
    BY <1>1, <1>5 DEF OthersCalled
  <2>1. i \in 1..Len(source.evals)
    BY <1>2, <1>6
  <2> QED
    BY <2>1, <1>6, <1>7
<1>9. Counted'
  BY <1>1, <1>2, <1>6 DEF Counted
<1>10. PendingIsLast'
  BY <1>1 DEF PendingIsLast
<1> QED
  BY <1>3, <1>4, <1>8, <1>9, <1>10 DEF IInv, Phase, LibraryIsSource, NoStatementSkipped

\* Every step keeps the invariant.
LEMMA NextIInv == IInv /\ [Next]_vars => IInv'
<1> SUFFICES ASSUME IInv, [Next]_vars PROVE IInv'
  OBVIOUS
<1> USE ReplAssumption
<1>0. /\ source \in SourceStates /\ source.evals \in Seq(Statement) /\ inputs \in 0..MaxInputs
      /\ counter = Len(source.evals) /\ Len(source.evals) \in Nat
  BY DEF IInv, SourceTyped, SourceStates, Counted
<1>1. CASE AddStruct
  <2>1. PICK d \in Structs, l \in Layouts, ok \in BOOLEAN :
          Read("struct", [source EXCEPT !.structs[d] = [id |-> inputs + 1, ok |-> ok, layout |-> l]], counter)
    BY <1>1 DEF AddStruct
  <2>2. inputs + 1 \in 1..MaxInputs
    BY <2>1, <1>0 DEF Read
  <2> DEFINE s == [source EXCEPT !.structs[d] = [id |-> inputs + 1, ok |-> ok, layout |-> l]]
  <2>3. s \in SourceStates /\ s.evals = source.evals
    BY <1>0, <2>2 DEF SourceStates, Struct
  <2> QED
    BY <2>1, <2>3, ReadDefinition
<1>9. CASE AddFunction
  <2>1. PICK f \in Functions, ok \in BOOLEAN :
          Read("function", [source EXCEPT !.functions[f] = [id |-> inputs + 1, ok |-> ok]], counter)
    BY <1>9 DEF AddFunction
  <2>2. inputs + 1 \in 1..MaxInputs
    BY <2>1, <1>0 DEF Read
  <2> DEFINE s == [source EXCEPT !.functions[f] = [id |-> inputs + 1, ok |-> ok]]
  <2>3. s \in SourceStates /\ s.evals = source.evals
    BY <1>0, <2>2 DEF SourceStates, Part
  <2> QED
    BY <2>1, <2>3, ReadDefinition
<1>2. CASE AddGlobal
  <2>1. PICK g \in Globals, t \in Layouts \cup Structs, ok \in BOOLEAN, value \in BOOLEAN :
          LET declared == [source EXCEPT !.globals[g] = [id |-> inputs + 1, ok |-> ok, type |-> t]]
          IN IF value
             THEN \E valueOk \in BOOLEAN :
                    Read("global", [declared EXCEPT !.evals = Append(@, [id |-> inputs + 1, ok |-> valueOk, sets |-> g])],
                         counter + 1)
             ELSE Read("global", declared, counter)
    BY <1>2 DEF AddGlobal
  <2>2. inputs + 1 \in 1..MaxInputs
    <3>1. inputs < MaxInputs
      <4>1. CASE value
        BY <2>1, <4>1 DEF Read
      <4>2. CASE ~value
        BY <2>1, <4>2 DEF Read
      <4> QED
        BY <4>1, <4>2
    <3> QED
      BY <3>1, <1>0
  <2> DEFINE declared == [source EXCEPT !.globals[g] = [id |-> inputs + 1, ok |-> ok, type |-> t]]
  <2>3. declared \in SourceStates /\ declared.evals = source.evals
    BY <1>0, <2>2 DEF SourceStates, Variable
  <2>4. CASE ~value
    BY <2>1, <2>3, <2>4, ReadDefinition
  <2>5. CASE value
    <3>1. PICK valueOk \in BOOLEAN :
            Read("global", [declared EXCEPT !.evals = Append(@, [id |-> inputs + 1, ok |-> valueOk, sets |-> g])],
                 counter + 1)
      BY <2>1, <2>5
    <3> DEFINE new == [id |-> inputs + 1, ok |-> valueOk, sets |-> g]
               s == [declared EXCEPT !.evals = Append(declared.evals, new)]
    <3>2. new \in Statement
      BY <2>2 DEF Statement
    <3>3. s \in SourceStates /\ s.evals = Append(source.evals, new)
      <4> HIDE DEF declared, new
      <4> QED
        BY <2>3, <3>2, AppendSource
    <3> QED
      BY <3>1, <3>2, <3>3, ReadEvaluation
  <2> QED
    BY <2>4, <2>5
<1>3. CASE AddStatement
  <2>1. PICK g \in Globals \cup {None}, ok \in BOOLEAN :
          Read("statement", [source EXCEPT !.evals = Append(@, [id |-> inputs + 1, ok |-> ok, sets |-> g])], counter + 1)
    BY <1>3 DEF AddStatement
  <2>2. inputs + 1 \in 1..MaxInputs
    BY <2>1, <1>0 DEF Read
  <2> DEFINE new == [id |-> inputs + 1, ok |-> ok, sets |-> g]
             s == [source EXCEPT !.evals = Append(source.evals, new)]
  <2>3. new \in Statement
    BY <2>2 DEF Statement
  <2>4. s \in SourceStates /\ s.evals = Append(source.evals, new)
    <3> HIDE DEF new
    <3> QED
      BY <1>0, <2>3, AppendSource
  <2> QED
    BY <2>1, <2>3, <2>4, ReadEvaluation
<1>4. CASE CompileFails
  <2>1. pc = "compile" /\ pc' = "prompt" /\ inputs' = inputs /\ before' = before /\ ran' = ran /\ Ran' = Ran
    BY <1>4 DEF CompileFails, Ran
  <2>2. CASE counter = 0
    <3>1. source' = source /\ counter' = 0
      BY <1>0, <1>4, <2>2 DEF CompileFails, Rollback, SourceStates
    <3>2. SourceTyped' /\ Counted' /\ OthersCalled'
      BY <1>0, <2>1, <2>2, <3>1 DEF IInv, SourceTyped, Counted, OthersCalled
    <3>3. NoStatementSkipped'
      <4>1. Len(source'.evals) = 0
        BY <1>0, <2>2, <3>1
      <4>2. \A i \in 1..Len(source'.evals) : FALSE
        BY <4>1
      <4> QED
        BY <4>2 DEF NoStatementSkipped
    <3> QED
      BY <2>1, <3>2, <3>3 DEF IInv, Phase, LibraryIsSource, PendingIsLast
  <2>3. CASE counter > 0
    <3>1. source' = [source EXCEPT !.evals = Front(source.evals)] /\ counter' = counter - 1
      BY <1>4, <2>3 DEF CompileFails, Rollback
    <3>2. /\ Front(source.evals) \in Seq(Statement) /\ Len(Front(source.evals)) = Len(source.evals) - 1
          /\ \A i \in 1..(Len(source.evals) - 1) : Front(source.evals)[i] = source.evals[i]
      BY <1>0, <2>3, FrontFacts
    <3>3. source' \in SourceStates /\ source'.evals = Front(source.evals)
      BY <1>0, <3>1, <3>2 DEF SourceStates
    <3>4. \A i \in 1..Len(source'.evals) : source'.evals[i].id \in Ran
      BY <3>2, <3>3 DEF IInv, OthersCalled
    <3>5. OthersCalled' /\ NoStatementSkipped'
      BY <1>0, <2>1, <3>2, <3>3, <3>4 DEF OthersCalled, NoStatementSkipped
    <3>6. Counted'
      BY <1>0, <3>1, <3>2, <3>3 DEF Counted
    <3>7. SourceTyped'
      BY <2>1, <3>3 DEF IInv, SourceTyped
    <3> QED
      BY <2>1, <3>5, <3>6, <3>7 DEF IInv, Phase, LibraryIsSource, PendingIsLast
  <2> QED
    BY <1>0, <2>2, <2>3
<1>5. CASE CompileSucceeds
  <2>1. pc = "compile" /\ pc' = "load" /\ UNCHANGED <<source, counter, inputs, before, ran>> /\ Ran' = Ran
    BY <1>5 DEF CompileSucceeds, Ran
  <2> QED
    BY <2>1
    DEF IInv, SourceTyped, Phase, Counted, LibraryIsSource, OthersCalled, NoStatementSkipped, PendingIsLast
<1>6. CASE Load
  <2>1. /\ pc' = IF counter > 0 THEN "call" ELSE "prompt"
        /\ lib'.evals = source.evals
        /\ UNCHANGED <<source, counter, inputs, before, ran>> /\ Ran' = Ran
    BY <1>6 DEF Load, Ran
  <2>2. OthersCalled' /\ Counted' /\ SourceTyped'
    BY <2>1 DEF IInv, OthersCalled, Counted, SourceTyped
  <2>3. NoStatementSkipped' /\ LibraryIsSource' /\ Phase' /\ PendingIsLast'
    BY <1>0, <2>1 DEF NoStatementSkipped, LibraryIsSource, Phase, PendingIsLast
  <2> QED
    BY <2>2, <2>3 DEF IInv
<1>7. CASE CallEval
  <2>1. pc = "call" /\ pc' = "prompt" /\ UNCHANGED <<source, counter, inputs, before>>
    BY <1>7 DEF CallEval
  <2>2. lib.evals = source.evals /\ counter > 0
    BY <2>1 DEF IInv, LibraryIsSource
  <2> DEFINE last == source.evals[Len(source.evals)]
  <2>3. ran' = Append(ran, last.id)
    BY <1>0, <1>7, <2>2 DEF CallEval
  <2>4. last \in Statement /\ last.id \in 1..MaxInputs
    <3>1. Len(source.evals) \in 1..Len(source.evals)
      BY <1>0, <2>2
    <3>2. last \in Statement
      BY <1>0, <3>1
    <3> QED
      BY <3>2 DEF Statement
  <2>5. ran \in Seq(1..MaxInputs)
    BY DEF IInv, SourceTyped
  <2>6. /\ ran' \in Seq(1..MaxInputs) /\ Len(ran') = Len(ran) + 1 /\ ran'[Len(ran) + 1] = last.id
        /\ \A i \in 1..Len(ran) : ran'[i] = ran[i]
    BY <2>3, <2>4, <2>5
  <2>7. Ran \subseteq Ran' /\ last.id \in Ran'
    <3>1. Len(ran) \in Nat /\ Len(ran) + 1 \in 1..Len(ran') /\ 1..Len(ran) \subseteq 1..Len(ran')
      BY <2>5, <2>6
    <3>2. last.id \in Ran'
      BY <2>6, <3>1, Zenon DEF Ran
    <3>3. Ran \subseteq Ran'
      BY <2>6, <3>1, Zenon DEF Ran
    <3> QED
      BY <3>2, <3>3
  <2>8. \A i \in 1..Len(source.evals) : source.evals[i].id \in Ran'
    <3> SUFFICES ASSUME NEW i \in 1..Len(source.evals) PROVE source.evals[i].id \in Ran'
      OBVIOUS
    <3>1. CASE i = Len(source.evals)
      BY <2>7, <3>1
    <3>2. CASE i # Len(source.evals)
      <4>1. i \in 1..(Len(source.evals) - 1)
        BY <1>0, <3>2
      <4> QED
        BY <2>7, <4>1 DEF IInv, OthersCalled
    <3> QED
      BY <3>1, <3>2
  <2>9. OthersCalled' /\ NoStatementSkipped'
    BY <1>0, <2>1, <2>8 DEF OthersCalled, NoStatementSkipped
  <2>10. SourceTyped' /\ Counted'
    BY <1>0, <2>1, <2>6 DEF IInv, SourceTyped, Counted
  <2> QED
    BY <2>1, <2>9, <2>10 DEF IInv, Phase, LibraryIsSource, PendingIsLast
<1>8. CASE Stop \/ UNCHANGED vars
  <2>1. UNCHANGED vars
    BY <1>8 DEF Stop
  <2> QED
    BY <2>1
    DEF vars, Ran, IInv, SourceTyped, Phase, Counted, LibraryIsSource, OthersCalled, NoStatementSkipped, PendingIsLast
<1> QED
  BY <1>1, <1>2, <1>3, <1>4, <1>5, <1>6, <1>7, <1>8, <1>9 DEF Next

\* The invariant holds in every state.
LEMMA Invariant == Spec => []IInv
  BY InitIInv, NextIInv, PTL DEF Spec

\* The evaluation that compile_and_run calls after a load is one of the library
\* (snekc.py:268-273), in a session of any length with any failures.
THEOREM EvaluationExists == Spec => []EvalExists
<1>1. IInv => EvalExists
  BY DEF IInv, Counted, LibraryIsSource, EvalExists
<1> QED
  BY <1>1, Invariant, PTL

\* At the prompt, every statement and initial value still in the source has been
\* called: compile_and_run calls the last one only (snekc.py:266-276), and _rollback may
\* drop one that is not the failed input, but leaves none behind that was not called.
THEOREM NothingSkipped == Spec => []NoStatementSkipped
<1>1. IInv => NoStatementSkipped
  BY DEF IInv
<1> QED
  BY <1>1, Invariant, PTL

\* _rollback (snekc.py:283-287) takes a statement that does not compile out of the source
\* and leaves all else as it was, after any session.
THEOREM StatementUndone == Spec => FailedStatementUndone
<1> DEFINE Undone == pc = "compile" /\ pc' = "prompt" /\ kind = "statement" => source' = before
<1>1. IInv /\ [Next]_vars => [Undone]_vars
  <2> SUFFICES ASSUME IInv, Next, pc = "compile", pc' = "prompt", kind = "statement" PROVE source' = before
    OBVIOUS
  <2>1. CompileFails
    BY DEF Next, AddStruct, AddFunction, AddGlobal, AddStatement, Read, CompileSucceeds, Load, CallEval, Stop
  <2>2. before \in SourceStates /\ before.evals \in Seq(Statement) /\ source.evals \in Seq(Statement) /\ counter = Len(source.evals)
    BY DEF IInv, SourceTyped, SourceStates, Counted
  <2>3. PICK s \in Statement : source = [before EXCEPT !.evals = Append(before.evals, s)]
    BY DEF IInv, PendingIsLast
  <2>4. source.evals = Append(before.evals, s)
    BY <2>2, <2>3 DEF SourceStates
  <2>5. counter > 0 /\ Front(source.evals) = before.evals
    BY <2>2, <2>4, AppendFacts
  <2>6. source' = [source EXCEPT !.evals = before.evals]
    BY <2>1, <2>5 DEF CompileFails, Rollback
  <2> QED
    BY <2>2, <2>3, <2>6 DEF SourceStates
<1> QED
  BY <1>1, Invariant, PTL DEF Spec, FailedStatementUndone

-----------------------------------------------------------------------------
(* The values of the variables.                                             *)

\* What a variable may hold: zero, the value of a statement, or garbage.
Held == (0..MaxInputs) \cup {Garbage}

Libraries == [globals : [Globals -> Layouts \cup {None}], evals : Seq(Statement), mem : [Globals -> Held]]

Values == [size : Widths, value : Held]

\* A library is only made of a source in which the structs of the variables are known.
LibTyped ==
  /\ lib \in Libraries \cup {None} /\ saved \in [Globals -> Values \cup {None}]
  /\ pc = "call" => lib \in Libraries
  /\ pc \in {"load", "call"} => Resolved

\* What _resolve_ctype makes of a variable.
LEMMA LayoutTyped ==
  ASSUME IInv, Resolved, NEW g \in Declared PROVE Layout(g) \in Layouts /\ g \in Globals
<1>1. source.globals[g] \in Variable /\ g \in Globals /\ source.structs \in [Structs -> Struct \cup {None}]
  BY DEF IInv, SourceTyped, SourceStates, Declared
<1>2. CASE source.globals[g].type \in Structs
  <2>1. source.structs[source.globals[g].type] \in Struct
    BY <1>1, <1>2 DEF Resolved
  <2> QED
    BY <1>1, <1>2, <2>1 DEF Struct, Layout
<1>3. CASE source.globals[g].type \notin Structs
  BY <1>1, <1>3 DEF Variable, Layout
<1> QED
  BY <1>2, <1>3

\* What is exported from a library is typed, and is the value of every variable that
\* keeps its layout.
LEMMA ExportedTyped ==
  ASSUME IInv, LibTyped, Resolved
  PROVE  /\ Exported \in [Globals -> Values \cup {None}]
         /\ \A g \in Declared : lib \in Libraries /\ lib # None /\ lib.globals[g] \in Widths /\ lib.globals[g] = Layout(g) =>
              Exported[g] = [size |-> Layout(g), value |-> lib.mem[g]]
<1>1. ASSUME NEW g \in Declared, lib \in Libraries, Layout(g) # Opaque
      PROVE  [size |-> Layout(g), value |-> IF Overruns(Layout(g), lib.globals[g]) THEN Garbage ELSE lib.mem[g]] \in Values
  <2>1. lib.mem[g] \in Held /\ Layout(g) \in Widths
    BY <1>1, LayoutTyped DEF Libraries, Layouts
  <2>2. (IF Overruns(Layout(g), lib.globals[g]) THEN Garbage ELSE lib.mem[g]) \in Held
    BY <2>1 DEF Held
  <2> QED
    BY <2>1, <2>2 DEF Values
<1>2. ASSUME NEW g \in Globals PROVE Exported[g] \in Values \cup {None}
  <2>1. CASE g \notin Declared \/ lib = None
    BY <2>1 DEF Exported, LibTyped
  <2>2. CASE g \in Declared /\ lib # None
    <3>1. lib \in Libraries
      BY <2>2 DEF LibTyped
    <3>2. CASE lib.globals[g] = None \/ Layout(g) = Opaque
      BY <2>2, <3>2 DEF Exported, LibTyped
    <3>3. CASE ~(lib.globals[g] = None \/ Layout(g) = Opaque)
      BY <1>1, <2>2, <3>1, <3>3 DEF Exported
    <3> QED
      BY <3>2, <3>3
  <2> QED
    BY <2>1, <2>2
<1>3. ASSUME NEW g \in Declared, lib \in Libraries, lib # None, lib.globals[g] \in Widths, lib.globals[g] = Layout(g)
      PROVE  Exported[g] = [size |-> Layout(g), value |-> lib.mem[g]]
  <2>1. g \in Globals /\ Layout(g) # Opaque /\ lib.globals[g] # None /\ Layout(g) \in Nat
    BY <1>3, LayoutTyped, ReplAssumption
  <2>2. ~Overruns(Layout(g), Layout(g))
    BY <2>1 DEF Overruns
  <2>3. ~Overruns(Layout(g), lib.globals[g])
    BY <1>3, <2>2
  <2> QED
    BY <1>3, <2>1, <2>3 DEF Exported
<1>4. Exported = [g \in Globals |-> Exported[g]]
  BY DEF Exported
<1> QED
  BY <1>2, <1>3, <1>4

LEMMA NextLibTyped == IInv /\ LibTyped /\ [Next]_vars => LibTyped'
<1> SUFFICES ASSUME IInv, LibTyped, [Next]_vars PROVE LibTyped'
  OBVIOUS
<1>1. CASE Load
  <2>0. Resolved /\ Resolved'
    BY <1>1 DEF Load, LibTyped, Resolved, Declared
  <2>1. saved' = Exported /\ saved' \in [Globals -> Values \cup {None}]
    BY <1>1, <2>0, ExportedTyped DEF Load
  <2>2. \A g \in Globals : Import(saved')[g] \in Held
    BY <2>1, ReplAssumption DEF Import, Values, Held
  <2>3. Import(saved') \in [Globals -> Held]
    BY <2>2 DEF Import
  <2>4. [g \in Globals |-> IF g \in Declared THEN Layout(g) ELSE None] \in [Globals -> Layouts \cup {None}]
    BY <2>0, LayoutTyped
  <2>5. source.evals \in Seq(Statement)
    BY DEF IInv, SourceTyped, SourceStates
  <2>6. lib' \in Libraries
    BY <1>1, <2>3, <2>4, <2>5 DEF Load, Libraries
  <2> QED
    BY <2>0, <2>1, <2>6 DEF LibTyped
<1>2. CASE CallEval
  <2>0. Resolved /\ Resolved'
    BY <1>2 DEF CallEval, LibTyped, Resolved, Declared
  <2>1. pc = "call" /\ pc' = "prompt" /\ lib \in Libraries
    BY <1>2 DEF CallEval, LibTyped
  <2>2. lib' \in Libraries
    <3>1. CASE counter <= Len(lib.evals)
      <4>1. lib.evals = source.evals /\ counter = Len(source.evals) /\ counter > 0 /\ source.evals \in Seq(Statement)
        BY <2>1 DEF IInv, LibraryIsSource, Counted, SourceTyped, SourceStates
      <4> DEFINE s == lib.evals[counter]
      <4>2. s \in Statement
        BY <4>1
      <4>3. s.id \in Held
        BY <4>2, ReplAssumption DEF Statement, Held
      <4>4. lib' = IF s.sets \in Declared THEN [lib EXCEPT !.mem[s.sets] = s.id] ELSE lib
        BY <1>2, <3>1 DEF CallEval
      <4> QED
        BY <2>1, <4>3, <4>4 DEF Libraries
    <3>2. CASE ~(counter <= Len(lib.evals))
      BY <1>2, <2>1, <3>2 DEF CallEval
    <3> QED
      BY <3>1, <3>2
  <2>3. saved' \in [Globals -> Values \cup {None}]
    <3>1. \A g \in Declared : Layout(g) # Opaque => [size |-> Layout(g), value |-> lib'.mem[g]] \in Values
      BY <2>0, <2>2, LayoutTyped DEF Values, Libraries, Layouts
    <3> QED
      BY <1>2, <3>1 DEF CallEval, LibTyped
  <2> QED
    BY <2>0, <2>1, <2>2, <2>3 DEF LibTyped
<1>3. CASE UNCHANGED <<lib, saved>> /\ (pc' \notin {"load", "call"} \/ (pc' = pc /\ UNCHANGED source))
  BY <1>3 DEF LibTyped, Resolved, Declared
<1>7. CASE CompileSucceeds
  BY <1>7 DEF CompileSucceeds, Compiles, LibTyped, Resolved, Declared
<1>4. ASSUME NEW k, NEW s, NEW n, Read(k, s, n) PROVE LibTyped'
  BY <1>3, <1>4 DEF Read
<1>5. CASE AddStruct \/ AddFunction \/ AddGlobal \/ AddStatement
  BY <1>4, <1>5 DEF AddStruct, AddFunction, AddGlobal, AddStatement
<1>6. CASE CompileFails \/ Stop \/ UNCHANGED vars
  BY <1>3, <1>6 DEF CompileFails, Stop, vars
<1> QED
  BY <1>1, <1>2, <1>5, <1>6, <1>7 DEF Next

\* _export_state and _import_state (snekc.py:319-346) carry every variable that has a
\* ctypes type and keeps its layout from one library to the next, whatever failed or
\* was redefined before.
THEOREM ValuesKept == Spec => ValuesPersist
<1> DEFINE Kept == pc = "load" /\ lib # None =>
                     \A g \in Globals : lib.globals[g] \in Widths /\ lib.globals[g] = lib'.globals[g] =>
                       lib'.mem[g] = lib.mem[g]
<1>1. Init => LibTyped
  BY DEF Init, LibTyped
<1>2. IInv /\ LibTyped /\ [Next]_vars => [Kept]_vars
  <2> SUFFICES ASSUME IInv, LibTyped, Next, pc = "load", lib # None, NEW g \in Globals,
                      lib.globals[g] \in Widths, lib.globals[g] = lib'.globals[g]
               PROVE  lib'.mem[g] = lib.mem[g]
    OBVIOUS
  <2>1. Load
    BY DEF Next, AddStruct, AddFunction, AddGlobal, AddStatement, Read, CompileFails, CompileSucceeds, CallEval, Stop
  <2>2. /\ saved' = Exported /\ lib'.mem = Import(saved')
        /\ lib'.globals[g] = IF g \in Declared THEN Layout(g) ELSE None
    BY <2>1 DEF Load
  <2>3. /\ g \in Declared /\ lib.globals[g] = Layout(g) /\ lib \in Libraries
        /\ Layout(g) \in Widths /\ Layout(g) # Opaque /\ Resolved
    BY <2>2, ReplAssumption DEF LibTyped
  <2>4. saved'[g] = [size |-> Layout(g), value |-> lib.mem[g]]
    BY <2>2, <2>3, ExportedTyped
  <2>5. saved'[g] # None
    <3>1. saved'[g] \in Values
      BY <2>3, <2>4 DEF Libraries, Values
    <3> QED
      BY <3>1, ReplAssumption DEF Values, Held
  <2> QED
    BY <2>2, <2>3, <2>4, <2>5 DEF Import
<1> QED
  BY <1>1, <1>2, NextLibTyped, Invariant, PTL DEF Spec, ValuesPersist

(***************************************************************************)
(* Builds.                                                                  *)
(***************************************************************************)

Sources == [at : Nat, ok : BOOLEAN]
Frames == [mod : Modules, from : Sources, used : {Unset} \cup SUBSET Names, next : Nat \ {0}]
CFiles == [from : Sources, stamp : Int, names : {Names} \cup SUBSET Names, written : Nat]

Typed ==
  /\ tool \in Tools /\ target \in Targets
  /\ clock \in Nat /\ src \in [Modules -> Sources] /\ start \in [Modules -> Sources]
  /\ step \in {"idle", "sources", "compile", "link"}
  /\ todo \in Seq(Modules) /\ cfiles \in Seq(Modules) /\ compiled \in SUBSET Modules
  /\ stack \in Seq(Frames) /\ cfile \in [Modules -> {Unset} \cup CFiles]

\* Time goes on.
Clocked ==
  /\ \A m \in Modules : src[m].at <= clock /\ start[m].at <= src[m].at

\* The C file of m is there and made from the source as it was at the start, or later.
Fresh(m) == cfile[m] \in CFiles /\ cfile[m].from.at >= start[m].at

\* What waits for each other: files opened since the start, each up to the import that
\* is on top of it, with the imports before it compiled.
StackOK ==
  /\ step = "compile" <=> stack # <<>>
  /\ \A k \in 1..Len(stack) :
       /\ stack[k].from.at >= start[stack[k].mod].at /\ stack[k].from.at <= src[stack[k].mod].at
       /\ \A j \in 1..Len(Imports[stack[k].mod]) : j < stack[k].next =>
            \/ Imports[stack[k].mod][j] \in compiled
            \/ k < Len(stack) /\ Imports[stack[k].mod][j] = stack[k + 1].mod

\* What is compiled is fresh, and so is what it imports.
CompiledOK ==
  \A m \in compiled : Fresh(m) /\ \A j \in 1..Len(Imports[m]) : Imports[m][j] \in compiled

\* A source that has been looked at will be linked, with a C file that is fresh.
SourcesOK ==
  tool # "watch" /\ step # "idle" =>
    /\ \A m \in ToSet(target.sources) : m \in ToSet(todo) \/ (m \in ToSet(cfiles) /\ Fresh(m))
    /\ step = "compile" => todo # <<>> /\ stack[1].mod = Head(todo)
    /\ step = "link" => todo = <<>>

\* The watched source, and what it made the compiler compile.
WatchOK ==
  tool = "watch" =>
    /\ step # "sources"
    /\ step = "compile" => stack[1].mod = Main
    /\ step = "link" => /\ Fresh(Main) /\ compiled \cup {Main} \subseteq ToSet(cfiles)
                      /\ \A j \in 1..Len(Imports[Main]) : Imports[Main][j] \in compiled

\* A C file with the stamp of its source, or a later one, was made from it.
StampsOK ==
  \A m \in Modules : cfile[m] # Unset =>
    /\ cfile[m].stamp <= clock
    /\ cfile[m].stamp >= src[m].at => cfile[m].from.at >= src[m].at

\* A program that is not older than the C file of a source was linked from it.
OutputOK ==
  output # Unset =>
    /\ output.written \in Nat /\ output.written <= clock
    /\ \A m \in ToSet(target.sources) :
         /\ m \in DOMAIN output.parts /\ output.parts[m].from.at \in Nat
         /\ cfile[m].written <= output.written => output.parts[m].from.at >= cfile[m].from.at
         /\ output.written = clock => output.parts[m].from.at >= src[m].at

\* No source changes during a build of the runner, and nothing it relies on is stale.
RunnerOK ==
  tool = "runner" => /\ step # "idle" => start = src
                     /\ StampsOK /\ OutputOK

BInv ==
  /\ Typed /\ Clocked /\ StackOK /\ CompiledOK
  /\ SourcesOK /\ WatchOK /\ RunnerOK /\ BuildIsCurrent

-----------------------------------------------------------------------------
(* Sequences.                                                               *)

\* A finite set is listed without loss.
LEMMA Listing ==
  ASSUME NEW S, IsFiniteSet(S)
  PROVE  SetToSeq(S) \in Seq(S) /\ ToSet(SetToSeq(S)) = S
<1> DEFINE n == Cardinality(S)
<1>1. n \in Nat /\ ExistsBijection(1..n, S)
  BY FS_CardinalityType
<1>2. PICK g : g \in Bijection(1..n, S)
  BY <1>1 DEF ExistsBijection
<1>3. g \in [1..n -> S] /\ IsInjective(g)
  BY <1>2 DEF Bijection, Injection, Surjection, IsInjective
<1> DEFINE f == SetToSeq(S)
<1>4. f \in [1..n -> S] /\ IsInjective(f)
  BY <1>3 DEF SetToSeq
<1> HIDE DEF f
<1>5. f \in Injection(1..n, S)
  BY <1>4 DEF Injection, IsInjective
<1>6. Cardinality(1..n) = n
  BY <1>1, FS_Interval
<1> HIDE DEF n
<1>7. f \in Surjection(1..n, S)
  BY <1>5, <1>6, FS_Injection DEF n
<1>8. \A x \in S : \E i \in 1..n : f[i] = x
  BY <1>7 DEF Surjection
<1>9. f \in Seq(S) /\ ToSet(f) = S
  BY <1>1, <1>4, <1>8 DEF ToSet
<1> QED
  BY <1>9 DEF f

LEMMA Members ==
  ASSUME NEW S, NEW s \in Seq(S)
  PROVE  /\ ToSet(s) \subseteq S
         /\ \A x : x \in ToSet(s) <=> \E i \in 1..Len(s) : x = s[i]
BY DEF ToSet

LEMMA Concatenated ==
  ASSUME NEW S, NEW s \in Seq(S), NEW t \in Seq(S)
  PROVE  s \o t \in Seq(S) /\ ToSet(s \o t) = ToSet(s) \cup ToSet(t)
<1>1. s \o t \in Seq(S) /\ Len(s \o t) = Len(s) + Len(t)
  OBVIOUS
<1>2. \A i \in 1..Len(s) : (s \o t)[i] = s[i] /\ i \in 1..Len(s \o t)
  BY <1>1
<1>3. \A i \in 1..Len(t) : (s \o t)[Len(s) + i] = t[i] /\ Len(s) + i \in 1..Len(s \o t)
  BY <1>1
<1>4. \A i \in 1..Len(s \o t) : i \in 1..Len(s) \/ (i - Len(s) \in 1..Len(t) /\ i = Len(s) + (i - Len(s)))
  BY <1>1
<1>5. ASSUME NEW x \in ToSet(s \o t) PROVE x \in ToSet(s) \cup ToSet(t)
  <2>1. PICK i \in 1..Len(s \o t) : x = (s \o t)[i]
    BY <1>1, Members
  <2>2. CASE i \in 1..Len(s)
    BY <1>2, <2>1, <2>2, Members
  <2>3. CASE i - Len(s) \in 1..Len(t) /\ i = Len(s) + (i - Len(s))
    <3>1. x = t[i - Len(s)]
      BY <1>3, <2>1, <2>3
    <3> QED
      BY <2>3, <3>1, Members
  <2> QED
    BY <1>4, <2>2, <2>3
<1>6. ASSUME NEW x \in ToSet(s) PROVE x \in ToSet(s \o t)
  <2>1. PICK i \in 1..Len(s) : x = s[i]
    BY Members
  <2> QED
    BY <1>1, <1>2, <2>1, Members
<1>7. ASSUME NEW x \in ToSet(t) PROVE x \in ToSet(s \o t)
  <2>1. PICK i \in 1..Len(t) : x = t[i]
    BY Members
  <2> QED
    BY <1>1, <1>3, <2>1, Members
<1> QED
  BY <1>1, <1>5, <1>6, <1>7

LEMMA Appended ==
  ASSUME NEW S, NEW s \in Seq(S), NEW x \in S
  PROVE  /\ Append(s, x) \in Seq(S) /\ ToSet(Append(s, x)) = ToSet(s) \cup {x}
         /\ Len(Append(s, x)) = Len(s) + 1 /\ Append(s, x)[Len(s) + 1] = x
         /\ \A k \in 1..Len(s) : Append(s, x)[k] = s[k]
<1>1. /\ Append(s, x) \in Seq(S)
      /\ Len(Append(s, x)) = Len(s) + 1 /\ Append(s, x)[Len(s) + 1] = x
      /\ \A k \in 1..Len(s) : Append(s, x)[k] = s[k]
  OBVIOUS
<1>2. 1..(Len(s) + 1) = 1..Len(s) \cup {Len(s) + 1}
  OBVIOUS
<1> QED
  BY <1>1, <1>2 DEF ToSet

LEMMA HeadAndTail ==
  ASSUME NEW S, NEW s \in Seq(S), s # <<>>
  PROVE  Head(s) \in S /\ Tail(s) \in Seq(S) /\ ToSet(s) = {Head(s)} \cup ToSet(Tail(s))
<1>1. /\ Head(s) = s[1] /\ Head(s) \in S /\ Tail(s) \in Seq(S)
      /\ Len(Tail(s)) = Len(s) - 1 /\ Len(s) \in Nat /\ Len(s) > 0
  OBVIOUS
<1>2. \A i \in 1..Len(Tail(s)) : Tail(s)[i] = s[i + 1] /\ i + 1 \in 1..Len(s)
  BY <1>1
<1>3. \A i \in 1..Len(s) : i = 1 \/ (i - 1 \in 1..Len(Tail(s)) /\ i = (i - 1) + 1)
  BY <1>1
<1> DEFINE t == Tail(s)
<1>4. t \in Seq(S) /\ \A x : x \in ToSet(t) <=> \E i \in 1..Len(t) : x = t[i]
  <2>1. t \in Seq(S)
    BY <1>1
  <2> HIDE DEF t
  <2> QED
    BY <2>1, Members
<1>5. \A x : x \in ToSet(s) => x = Head(s) \/ x \in ToSet(t)
  <2> SUFFICES ASSUME NEW x \in ToSet(s), x # Head(s) PROVE \E i \in 1..Len(t) : x = t[i]
    BY <1>4
  <2>1. PICK i \in 1..Len(s) : x = s[i]
    BY Members
  <2>2. i - 1 \in 1..Len(t) /\ i = (i - 1) + 1
    BY <1>1, <1>3, <2>1
  <2>3. t[i - 1] = s[i]
    BY <1>2, <2>2
  <2> QED
    BY <2>1, <2>2, <2>3
<1>6. \A x : x \in ToSet(t) => x \in ToSet(s)
  <2> SUFFICES ASSUME NEW i \in 1..Len(t) PROVE t[i] \in ToSet(s)
    BY <1>4
  <2>1. t[i] = s[i + 1] /\ i + 1 \in 1..Len(s)
    BY <1>2
  <2> QED
    BY <2>1, Members
<1>7. Head(s) \in ToSet(s)
  <2>1. 1 \in 1..Len(s)
    BY <1>1
  <2> QED
    BY <1>1, <2>1, Members
<1> QED
  BY <1>1, <1>5, <1>6, <1>7

LEMMA FrontAndLast ==
  ASSUME NEW S, NEW s \in Seq(S), s # <<>>
  PROVE  /\ Last(s) = s[Len(s)] /\ Last(s) \in S /\ Len(s) \in Nat \ {0}
         /\ Front(s) \in Seq(S) /\ Len(Front(s)) = Len(s) - 1
         /\ \A k \in 1..(Len(s) - 1) : Front(s)[k] = s[k]
<1>1. Len(s) \in Nat \ {0}
  OBVIOUS
<1>2. Last(s) = s[Len(s)] /\ Last(s) \in S
  BY <1>1 DEF Last
<1>3. Front(s) = SubSeq(s, 1, Len(s) - 1)
  BY DEF Front
<1>4. Front(s) \in Seq(S) /\ Len(Front(s)) = Len(s) - 1
  <2>1. 1 \in Nat /\ Len(s) - 1 \in 0..Len(s)
    BY <1>1
  <2>2. Front(s) = [i \in 1..(Len(s) - 1) |-> s[i]]
    BY <1>1, <1>3, <2>1
  <2>3. Len(s) - 1 \in Nat /\ Front(s) \in [1..(Len(s) - 1) -> S]
    BY <1>1, <2>2
  <2> QED
    BY <2>3
<1>5. \A k \in 1..(Len(s) - 1) : Front(s)[k] = s[k]
  BY <1>1, <1>3
<1> QED
  BY <1>1, <1>2, <1>4, <1>5

\* The greatest of some numbers that have a bound.
LEMMA Greatest ==
  ASSUME NEW S \in SUBSET Nat, S # {}, NEW b \in Nat, \A x \in S : x <= b
  PROVE  Max(S) \in S
<1> DEFINE T == {y \in Nat : \E x \in S : y = b - x}
<1>1. T \subseteq Nat /\ T # {}
  <2>1. PICK x \in S : x \in Nat /\ x <= b
    OBVIOUS
  <2>2. b - x \in Nat
    BY <2>1
  <2>3. b - x \in T
    BY <2>2
  <2> QED
    BY <2>3
<1>2. PICK y \in T : \A z \in T : y <= z
  <2> DEFINE R == OpToRel(<, Nat)
  <2>1. IsWellFoundedOn(R, Nat)
    BY NatLessThanWellFounded
  <2>2. \A p, q \in Nat : p < q => <<p, q>> \in R
    BY DEF OpToRel
  <2> HIDE DEF R, T
  <2>3. PICK y \in T : \A z \in T : ~(<<z, y>> \in R)
    BY <1>1, <2>1, WFMin, Zenon
  <2>4. ASSUME NEW z \in T PROVE y <= z
    <3>1. y \in Nat /\ z \in Nat
      BY <1>1
    <3>2. ~(z < y)
      BY <2>2, <2>3, <3>1, Zenon
    <3> QED
      BY <3>1, <3>2
  <2> QED
    BY <2>4
<1>3. PICK x \in S : y = b - x
  OBVIOUS
<1>4. ASSUME NEW z \in S PROVE x >= z
  <2>1. b - z \in T /\ z \in Nat /\ x \in Nat
    OBVIOUS
  <2>2. y <= b - z
    BY <1>2, <2>1
  <2> QED
    BY <1>3, <2>1, <2>2
<1>5. \E m \in S : \A z \in S : m >= z
  BY <1>4
<1> QED
  BY <1>5 DEF Max

-----------------------------------------------------------------------------
(* The steps.                                                               *)

LEMMA InitBInv ==
  BuildInit => BInv
<1> SUFFICES ASSUME BuildInit PROVE BInv
  OBVIOUS
<1>1. Typed
  BY DEF BuildInit, Typed, Sources, Frames
<1>2. Clocked
  BY DEF BuildInit, Clocked
<1>3. StackOK /\ CompiledOK /\ SourcesOK /\ WatchOK
  BY DEF BuildInit, StackOK, CompiledOK, SourcesOK, WatchOK
<1>4. RunnerOK
  BY DEF BuildInit, RunnerOK, StampsOK, OutputOK
<1>5. BuildIsCurrent
  BY DEF BuildInit, BuildIsCurrent, SourcesAreCurrent, DriverBuildsEverything
<1> QED
  BY <1>1, <1>2, <1>3, <1>4, <1>5 DEF BInv

\* A step that leaves the result of the last build alone, and what it was built from.
LEMMA SameResult ==
  ASSUME BuildIsCurrent, UNCHANGED <<tool, target, output, start>>, outcome' \in {outcome, "building", "failed"}
  PROVE  BuildIsCurrent'
BY DEF BuildIsCurrent, SourcesAreCurrent, DriverBuildsEverything, Built, Needed

LEMMA EditKeeps ==
  ASSUME BInv, "runner" \notin EditedBuilds, NEW m \in Modules, Edit(m) PROVE BInv'
<1>1. PICK ok \in BOOLEAN : src' = [src EXCEPT ![m] = [at |-> clock', ok |-> ok]]
  BY DEF Edit
<1>2. /\ clock' = clock + 2 /\ (step = "idle" \/ tool # "runner")
      /\ UNCHANGED <<tool, target, cfile, output, step, todo, stack, compiled, cfiles, recompiled,
                     lastSeen, outcome, start>>
  BY DEF Edit
<1>3. Typed /\ Clocked
  BY DEF BInv
<1>4. [at |-> clock', ok |-> ok] \in Sources /\ clock' \in Nat
  BY <1>2, <1>3 DEF Typed, Sources
<1>5. Typed'
  BY <1>1, <1>2, <1>3, <1>4 DEF Typed
<1>6. \A n \in Modules : src'[n] = IF n = m THEN [at |-> clock', ok |-> ok] ELSE src[n]
  BY <1>1, <1>3 DEF Typed
<1>7. \A n \in Modules : src'[n].at = (IF n = m THEN clock + 2 ELSE src[n].at) /\ src[n].at \in Nat /\ start[n].at \in Nat
  BY <1>2, <1>3, <1>6 DEF Typed, Sources
<1>8. Clocked'
  BY SMTT(30), <1>2, <1>3, <1>7 DEF Clocked, Typed
<1>9. ASSUME tool = "runner" PROVE StampsOK' /\ OutputOK'
  <2>1. StampsOK /\ OutputOK
    BY <1>9 DEF BInv, RunnerOK
  <2>2. \A n \in Modules : cfile[n] # Unset => cfile[n].stamp \in Int /\ cfile[n].from.at \in Nat
    BY <1>3 DEF Typed, CFiles, Sources
  <2>3. StampsOK'
    BY <1>2, <1>3, <1>7, <2>1, <2>2 DEF StampsOK, Typed
  <2>4. OutputOK'
    BY <1>2, <1>3, <2>1 DEF OutputOK, Typed
  <2> QED
    BY <2>3, <2>4
<1>10. RunnerOK'
  BY <1>2, <1>9 DEF RunnerOK
<1>11. CompiledOK' /\ SourcesOK' /\ WatchOK'
  BY <1>2 DEF BInv, CompiledOK, SourcesOK, WatchOK, Fresh
<1>12. StackOK'
  <2>1. ASSUME NEW k \in 1..Len(stack) PROVE stack[k].from.at <= src'[stack[k].mod].at
    <3>1. stack[k] \in Frames
      BY <1>3 DEF Typed
    <3>2. stack[k].mod \in Modules /\ stack[k].from.at \in Nat /\ stack[k].from.at <= src[stack[k].mod].at
      BY <3>1 DEF Frames, Sources, BInv, StackOK
    <3>3. src[stack[k].mod].at <= clock /\ clock \in Nat
      BY <1>3, <3>2 DEF Typed, Clocked
    <3> QED
      BY <1>7, <3>2, <3>3
  <2> QED
    BY <1>2, <2>1 DEF BInv, StackOK
<1>13. BuildIsCurrent'
  BY <1>2, SameResult DEF BInv
<1> QED
  BY <1>5, <1>8, <1>10, <1>11, <1>12, <1>13 DEF BInv

\* A build that begins has the sources as they are, and nothing compiled.
LEMMA BeginKeeps ==
  ASSUME BInv, step = "idle", Begin
  PROVE  /\ Clocked' /\ CompiledOK' /\ BuildIsCurrent' /\ RunnerOK'
         /\ cfiles' = <<>> /\ start' = src /\ compiled' = {}
         /\ UNCHANGED <<tool, target, clock, src, cfile, output>>
<1>1. /\ cfiles' = <<>> /\ start' = src /\ compiled' = {} /\ outcome' = "building"
      /\ UNCHANGED <<tool, target, clock, src, cfile, output>>
  BY DEF Begin
<1>2. Clocked'
  BY <1>1 DEF BInv, Clocked, Typed, Sources
<1>3. BuildIsCurrent'
  BY <1>1 DEF BuildIsCurrent, SourcesAreCurrent, DriverBuildsEverything
<1>4. RunnerOK'
  BY <1>1 DEF BInv, RunnerOK, StampsOK, OutputOK
<1> QED
  BY <1>1, <1>2, <1>3, <1>4 DEF CompiledOK

LEMMA StartRunnerKeeps ==
  ASSUME BInv, StartRunner PROVE BInv'
<1>1. tool # "watch" /\ step = "idle" /\ step' = "sources" /\ todo' = target.sources /\ stack' = stack
  BY DEF StartRunner
<1>2. /\ Clocked' /\ CompiledOK' /\ BuildIsCurrent' /\ RunnerOK'
      /\ cfiles' = <<>> /\ start' = src /\ compiled' = {}
      /\ UNCHANGED <<tool, target, clock, src, cfile, output>>
  BY <1>1, BeginKeeps DEF StartRunner
<1>3. stack = <<>>
  BY <1>1 DEF BInv, StackOK
<1>4. Typed'
  BY <1>1, <1>2, BuildAssumption DEF BInv, Typed
<1>5. StackOK' /\ SourcesOK' /\ WatchOK'
  BY <1>1, <1>2, <1>3 DEF StackOK, SourcesOK, WatchOK
<1> QED
  BY <1>2, <1>4, <1>5 DEF BInv

LEMMA OpenedFrame ==
  ASSUME BInv, NEW m \in Modules, NEW used \in {Unset} \cup SUBSET Names
  PROVE  /\ Opened(m, used) \in Frames /\ Opened(m, used).mod = m /\ Opened(m, used).next = 1
         /\ Opened(m, used).from = src[m]
         /\ Opened(m, used).from.at >= start[m].at /\ Opened(m, used).from.at <= src[m].at
BY DEF BInv, Typed, Clocked, Opened, Frames, Sources

\* The first file is opened.
LEMMA StartsStack ==
  ASSUME BInv, NEW m \in Modules,
         step' = "compile", stack' = <<Opened(m, Unset)>>, start' \in {start, src}, src' = src
  PROVE  StackOK' /\ stack' \in Seq(Frames) /\ stack'[1].mod = m
<1> DEFINE f == Opened(m, Unset)
<1>1. f \in Frames /\ f.mod = m /\ f.next = 1 /\ f.from = src[m] /\ src[m].at \in Nat
      /\ f.from.at >= start[m].at
  BY OpenedFrame DEF BInv, Typed, Sources
<1> HIDE DEF f
<1>2. f.from.at >= start'[m].at /\ f.from.at <= src'[m].at
  BY <1>1
<1>3. stack' = <<f>>
  BY DEF f
<1>4. Len(stack') = 1 /\ stack'[1] = f /\ stack' # <<>> /\ stack' \in Seq(Frames)
  BY <1>1, <1>3
<1>5. \A k \in 1..Len(stack') : k = 1
  BY <1>4
<1>6. \A j \in 1..Len(Imports[m]) : ~(j < 1)
  OBVIOUS
<1> QED
  BY <1>1, <1>2, <1>4, <1>5, <1>6 DEF StackOK

LEMMA StartWatchedKeeps ==
  ASSUME BInv, StartWatched PROVE BInv'
<1>1. tool = "watch" /\ step = "idle" /\ step' = "compile" /\ todo' = <<>> /\ stack' = <<Opened(Main, Unset)>>
  BY DEF StartWatched
<1>2. /\ Clocked' /\ CompiledOK' /\ BuildIsCurrent' /\ RunnerOK'
      /\ cfiles' = <<>> /\ start' = src /\ compiled' = {}
      /\ UNCHANGED <<tool, target, clock, src, cfile, output>>
  BY <1>1, BeginKeeps DEF StartWatched
<1>3. StackOK' /\ stack' \in Seq(Frames) /\ stack'[1].mod = Main
  BY <1>1, <1>2, StartsStack, BuildAssumption
<1>4. Typed'
  BY <1>1, <1>2, <1>3 DEF BInv, Typed
<1>5. SourcesOK' /\ WatchOK'
  BY <1>1, <1>2, <1>3 DEF SourcesOK, WatchOK
<1> QED
  BY <1>2, <1>3, <1>4, <1>5 DEF BInv

\* What is compiled and not listed yet is added to a list.
LEMMA WithDepsAdds ==
  ASSUME BInv, NEW files \in Seq(Modules)
  PROVE  WithDeps(files) \in Seq(Modules) /\ ToSet(files) \subseteq ToSet(WithDeps(files))
<1> DEFINE S == {m \in compiled : cfile[m] # Unset} \ ToSet(files)
<1>1. S \subseteq Modules /\ IsFiniteSet(S)
  BY FS_Subset, BuildAssumption DEF BInv, Typed
<1>2. SetToSeq(S) \in Seq(S)
  BY <1>1, Listing
<1>3. SetToSeq(S) \in Seq(Modules)
  BY <1>1, <1>2
<1>4. WithDeps(files) = files \o SetToSeq(S)
  BY DEF WithDeps
<1> HIDE DEF S
<1> QED
  BY <1>3, <1>4, Concatenated

LEMMA SkipSourceKeeps ==
  ASSUME BInv, SkipSource PROVE BInv'
<1> DEFINE m == Head(todo)
<1>1. /\ tool = "runner" /\ step = "sources" /\ todo # <<>> /\ UpToDate(m)
      /\ cfiles' = WithDeps(Append(cfiles, m)) /\ todo' = Tail(todo)
      /\ UNCHANGED <<tool, target, clock, src, cfile, output, step, stack, compiled, recompiled,
                     lastSeen, outcome, start>>
  BY DEF SkipSource
<1>2. Typed /\ todo \in Seq(Modules) /\ cfiles \in Seq(Modules)
  BY DEF BInv, Typed
<1>3. m \in Modules /\ Tail(todo) \in Seq(Modules) /\ ToSet(todo) = {m} \cup ToSet(Tail(todo))
  BY <1>1, <1>2, HeadAndTail
<1>4. Fresh(m)
  <2>1. cfile[m] # Unset /\ cfile[m].stamp >= src[m].at
    BY <1>1 DEF UpToDate
  <2>2. cfile[m] \in CFiles /\ cfile[m].from.at \in Nat /\ src[m].at \in Nat /\ start[m].at \in Nat
    BY <1>2, <1>3, <2>1 DEF Typed, CFiles, Sources
  <2>3. cfile[m].from.at >= src[m].at /\ start[m].at <= src[m].at
    BY <1>1, <1>3, <2>1 DEF BInv, RunnerOK, StampsOK, Clocked
  <2> QED
    BY <2>2, <2>3 DEF Fresh
<1> HIDE DEF m
<1>5. Append(cfiles, m) \in Seq(Modules) /\ ToSet(Append(cfiles, m)) = ToSet(cfiles) \cup {m}
  BY <1>2, <1>3, Appended
<1>6. cfiles' \in Seq(Modules) /\ ToSet(cfiles) \cup {m} \subseteq ToSet(cfiles')
  BY <1>1, <1>5, WithDepsAdds
<1>7. Typed'
  BY <1>1, <1>2, <1>3, <1>6 DEF Typed
<1>8. SourcesOK'
  <2>1. \A n \in Modules : Fresh(n) => Fresh(n)'
    BY <1>1 DEF Fresh
  <2>2. ToSet(target.sources) \subseteq Modules
    BY Members, BuildAssumption DEF BInv, Typed
  <2> QED
    BY <1>1, <1>3, <1>4, <1>6, <2>1, <2>2 DEF BInv, SourcesOK
<1>9. Clocked' /\ StackOK' /\ CompiledOK' /\ WatchOK' /\ RunnerOK'
  BY <1>1 DEF BInv, Clocked, StackOK, CompiledOK, WatchOK, RunnerOK, StampsOK, OutputOK, Fresh
<1>10. BuildIsCurrent'
  BY <1>1, SameResult DEF BInv
<1> QED
  BY <1>7, <1>8, <1>9, <1>10 DEF BInv

LEMMA CompileSourceKeeps ==
  ASSUME BInv, CompileSource PROVE BInv'
<1> DEFINE m == Head(todo)
<1>1. /\ step = "sources" /\ todo # <<>> /\ step' = "compile" /\ stack' = <<Opened(m, Unset)>>
      /\ UNCHANGED <<tool, target, clock, src, cfile, output, todo, compiled, cfiles, recompiled,
                     lastSeen, outcome, start>>
  BY DEF CompileSource
<1>2. Typed /\ m \in Modules /\ tool # "watch"
  BY <1>1, HeadAndTail DEF BInv, Typed, WatchOK
<1>3. StackOK' /\ stack' \in Seq(Frames) /\ stack'[1].mod = m
  <2> HIDE DEF m
  <2> QED BY <1>1, <1>2, StartsStack
<1>4. Typed'
  BY <1>1, <1>2, <1>3 DEF Typed
<1>5. SourcesOK' /\ WatchOK'
  BY <1>1, <1>2, <1>3 DEF BInv, SourcesOK, WatchOK, Fresh
<1>6. Clocked' /\ CompiledOK' /\ RunnerOK'
  BY <1>1 DEF BInv, Clocked, CompiledOK, RunnerOK, StampsOK, OutputOK, Fresh
<1>7. BuildIsCurrent'
  BY <1>1, SameResult DEF BInv
<1> QED
  BY <1>3, <1>4, <1>5, <1>6, <1>7 DEF BInv

LEMMA SourcesDoneKeeps ==
  ASSUME BInv, SourcesDone PROVE BInv'
<1>1. /\ step = "sources" /\ todo = <<>> /\ step' = "link"
      /\ UNCHANGED <<tool, target, clock, src, cfile, output, todo, stack, compiled, cfiles,
                     recompiled, lastSeen, outcome, start>>
  BY DEF SourcesDone
<1>2. Typed' /\ Clocked' /\ StackOK' /\ CompiledOK'
  BY <1>1 DEF BInv, Typed, Clocked, StackOK, CompiledOK, Fresh
<1>4. SourcesOK' /\ WatchOK'
  BY <1>1 DEF BInv, SourcesOK, WatchOK, Fresh
<1>5. RunnerOK'
  BY <1>1 DEF BInv, RunnerOK, StampsOK, OutputOK
<1>3. BuildIsCurrent'
  BY <1>1, SameResult DEF BInv
<1> QED
  BY <1>2, <1>3, <1>4, <1>5 DEF BInv

\* The file on top, which has opened its imports so far.
LEMMA TopFrame ==
  ASSUME BInv, stack # <<>>
  PROVE  /\ Len(stack) \in Nat \ {0} /\ stack[Len(stack)] = Top /\ Top \in Frames /\ Top.mod \in Modules
         /\ Top.next \in Nat \ {0} /\ Top.from \in Sources
         /\ Top.from.at >= start[Top.mod].at /\ Top.from.at <= src[Top.mod].at
         /\ \A j \in 1..Len(Imports[Top.mod]) : j < Top.next => Imports[Top.mod][j] \in compiled
<1>1. stack \in Seq(Frames)
  BY DEF BInv, Typed
<1>2. Len(stack) \in Nat \ {0} /\ stack[Len(stack)] = Top /\ Top \in Frames
  BY <1>1, FrontAndLast DEF Top
<1>3. Top.mod \in Modules /\ Top.next \in Nat \ {0} /\ Top.from \in Sources
  BY <1>2 DEF Frames
<1> DEFINE n == Len(stack)
<1>4. n \in 1..Len(stack) /\ ~(n < Len(stack))
  BY <1>2
<1> QED
  BY <1>2, <1>3, <1>4 DEF BInv, StackOK

LEMMA ImportDependencyKeeps ==
  ASSUME BInv, ImportDependency PROVE BInv'
<1>1. /\ step = "compile" /\ Top.next <= Len(Imports[Top.mod])
      /\ UNCHANGED <<tool, target, clock, src, cfile, output, step, todo, compiled, cfiles, recompiled,
                     lastSeen, outcome, start>>
  BY DEF ImportDependency, Importing
<1>2. stack # <<>> /\ stack \in Seq(Frames)
  BY <1>1 DEF BInv, StackOK, Typed
<1> DEFINE n == Len(stack)
           top == [Top EXCEPT !.next = @ + 1]
           past == Append(Front(stack), top)
           dep == Opened(Dep, Uses[Top.mod][Dep])
<1>3. /\ n \in Nat \ {0} /\ stack[n] = Top /\ Top \in Frames /\ Top.mod \in Modules
      /\ Top.next \in Nat \ {0}
      /\ Top.from.at >= start[Top.mod].at /\ Top.from.at <= src[Top.mod].at
      /\ \A j \in 1..Len(Imports[Top.mod]) : j < Top.next => Imports[Top.mod][j] \in compiled
  BY <1>2, TopFrame
<1>4. top \in Frames /\ top.mod = Top.mod /\ top.from = Top.from /\ top.next = Top.next + 1
  BY <1>3 DEF Frames
<1>5. Dep = Imports[Top.mod][Top.next] /\ Dep \in Modules /\ Uses[Top.mod][Dep] \in SUBSET Names
  <2>1. Imports[Top.mod] \in Seq(Modules) /\ Top.next \in 1..Len(Imports[Top.mod])
    BY <1>1, <1>3, BuildAssumption
  <2>2. Dep \in Modules
    BY <2>1 DEF Dep
  <2> QED
    BY <1>3, <2>2, BuildAssumption DEF Dep
<1>6. dep \in Frames /\ dep.mod = Dep /\ dep.next = 1 /\ dep.from.at >= start[Dep].at /\ dep.from.at <= src[Dep].at
  BY ZenonT(30), <1>5, OpenedFrame
<1>7. Front(stack) \in Seq(Frames) /\ Len(Front(stack)) = n - 1 /\ \A k \in 1..(n - 1) : Front(stack)[k] = stack[k]
  BY <1>2, FrontAndLast
<1>8. stack' = IF Dep \in compiled THEN past ELSE Append(past, dep)
  BY DEF ImportDependency
<1> HIDE DEF top, dep
<1>9. past \in Seq(Frames) /\ Len(past) = n /\ past[n] = top /\ \A k \in 1..(n - 1) : past[k] = stack[k]
  <2> DEFINE front == Front(stack)
  <2>1. front \in Seq(Frames) /\ Len(front) = n - 1
    BY <1>7
  <2> HIDE DEF front
  <2>2. /\ Append(front, top) \in Seq(Frames)
        /\ Len(Append(front, top)) = Len(front) + 1 /\ Append(front, top)[Len(front) + 1] = top
        /\ \A k \in 1..Len(front) : Append(front, top)[k] = front[k]
    BY <1>4, <2>1, Appended
  <2>3. Len(front) + 1 = n
    BY <1>3, <2>1
  <2>4. past = Append(front, top)
    BY DEF front
  <2>5. \A k \in 1..(n - 1) : front[k] = stack[k]
    BY <1>7 DEF front
  <2> HIDE DEF past, n
  <2> QED
    BY <2>1, <2>2, <2>3, <2>4, <2>5
<1> HIDE DEF past
<1>10. ASSUME NEW k \in 1..n, NEW j \in 1..Len(Imports[past[k].mod]), j < past[k].next
       PROVE  \/ Imports[past[k].mod][j] \in compiled
              \/ k < n /\ Imports[past[k].mod][j] = past[k + 1].mod
              \/ k = n /\ Imports[past[k].mod][j] = Dep
  <2>1. CASE k = n
    <3>1. past[k] = top
      BY <1>9, <2>1
    <3>2. j < Top.next + 1 /\ j \in Nat
      BY <1>4, <1>10, <3>1
    <3>3. j < Top.next \/ j = Top.next
      BY <1>3, <3>2
    <3> QED
      BY <1>3, <1>4, <1>5, <2>1, <3>1, <3>3
  <2>2. CASE k # n
    <3>1. k \in 1..(n - 1) /\ k < n /\ past[k] = stack[k] /\ k + 1 \in 1..n
      BY <1>3, <1>9, <2>2
    <3>2. past[k + 1].mod = stack[k + 1].mod
      <4>1. CASE k + 1 = n
        BY <1>3, <1>4, <1>9, <4>1
      <4>2. CASE k + 1 # n
        <5>1. k + 1 \in 1..(n - 1)
          BY <1>3, <3>1, <4>2
        <5> QED
          BY <1>9, <5>1
      <4> QED
        BY <4>1, <4>2
    <3>3. \/ Imports[stack[k].mod][j] \in compiled
          \/ k < Len(stack) /\ Imports[stack[k].mod][j] = stack[k + 1].mod
      BY <1>10, <3>1 DEF BInv, StackOK
    <3> QED
      BY <3>1, <3>2, <3>3
  <2> QED
    BY <2>1, <2>2
<1>11. \A k \in 1..n : past[k].from.at >= start[past[k].mod].at /\ past[k].from.at <= src[past[k].mod].at
  <2>1. \A k \in 1..(n - 1) : /\ stack[k].from.at >= start[stack[k].mod].at
                              /\ stack[k].from.at <= src[stack[k].mod].at
    BY <1>3 DEF BInv, StackOK
  <2>2. \A k \in 1..n : k \in 1..(n - 1) \/ k = n
    BY <1>3
  <2> QED
    BY <1>3, <1>4, <1>9, <2>1, <2>2
<1>12. past[1].mod = stack[1].mod
  <2>1. CASE n = 1
    BY <1>3, <1>4, <1>9, <2>1
  <2>2. CASE n # 1
    <3>1. n \in Nat \ {0}
      BY <1>3
    <3> HIDE DEF n
    <3>2. 1 \in 1..(n - 1)
      BY <2>2, <3>1
    <3> QED
      BY <1>9, <3>2
  <2> QED
    BY <2>1, <2>2
<1>13. StackOK' /\ stack' \in Seq(Frames) /\ stack'[1].mod = stack[1].mod
  <2>1. CASE Dep \in compiled
    <3>1. stack' = past /\ past # <<>>
      BY <1>3, <1>8, <1>9, <2>1
    <3> QED
      BY <1>1, <1>9, <1>10, <1>11, <1>12, <2>1, <3>1 DEF StackOK
  <2>2. CASE Dep \notin compiled
    <3>1. stack' = Append(past, dep)
      BY <1>8, <2>2
    <3>2. /\ stack' \in Seq(Frames) /\ Len(stack') = n + 1 /\ stack'[n + 1] = dep
          /\ \A k \in 1..n : stack'[k] = past[k]
      BY <1>6, <1>9, <3>1, Appended
    <3>3. stack'[1].mod = stack[1].mod /\ stack' # <<>>
      BY <1>3, <1>12, <3>2
    <3>4. ASSUME NEW k \in 1..(n + 1)
          PROVE  /\ stack'[k].from.at >= start[stack'[k].mod].at /\ stack'[k].from.at <= src[stack'[k].mod].at
                 /\ \A j \in 1..Len(Imports[stack'[k].mod]) : j < stack'[k].next =>
                      \/ Imports[stack'[k].mod][j] \in compiled
                      \/ k < n + 1 /\ Imports[stack'[k].mod][j] = stack'[k + 1].mod
      <4>1. CASE k = n + 1
        <5>1. stack'[k] = dep
          BY <3>2, <4>1
        <5>2. \A j \in 1..Len(Imports[dep.mod]) : ~(j < 1)
          OBVIOUS
        <5> QED
          BY <1>6, <5>1, <5>2
      <4>2. CASE k # n + 1
        <5>1. k \in 1..n /\ k < n + 1 /\ stack'[k] = past[k]
          BY <1>3, <3>2, <4>2
        <5>2. stack'[k + 1].mod = IF k = n THEN Dep ELSE past[k + 1].mod
          <6>1. CASE k = n
            BY <1>6, <3>2, <6>1
          <6>2. CASE k # n
            <7>1. k + 1 \in 1..n
              BY <1>3, <5>1, <6>2
            <7> QED
              BY <3>2, <6>2, <7>1
          <6> QED
            BY <6>1, <6>2
        <5>3. k < n => k # n
          BY <1>3, <5>1
        <5> QED
          BY <1>10, <1>11, <5>1, <5>2, <5>3
      <4> QED
        BY <4>1, <4>2
    <3> QED
      BY <1>1, <3>2, <3>3, <3>4 DEF StackOK
  <2> QED
    BY <2>1, <2>2
<1>14. Typed' /\ Clocked' /\ CompiledOK' /\ RunnerOK'
  BY <1>1, <1>13 DEF BInv, Typed, Clocked, CompiledOK, RunnerOK, StampsOK, OutputOK, Fresh
<1>15. SourcesOK' /\ WatchOK'
  BY <1>1, <1>13 DEF BInv, SourcesOK, WatchOK, Fresh
<1>16. BuildIsCurrent'
  BY <1>1, SameResult DEF BInv
<1> QED
  BY <1>13, <1>14, <1>15, <1>16 DEF BInv

\* What the invariant says of the files, when a build ends without a change of them.
LEMMA BuildEnds ==
  ASSUME Typed, Clocked, CompiledOK, RunnerOK, step' = "idle", stack' = <<>>,
         UNCHANGED <<tool, target, clock, src, cfile, output, todo, compiled, cfiles, start>>
  PROVE  Typed' /\ Clocked' /\ StackOK' /\ CompiledOK' /\ SourcesOK' /\ WatchOK' /\ RunnerOK'
<1>1. Typed' /\ Clocked'
  BY DEF Typed, Clocked
<1>2. StackOK'
  BY DEF StackOK
<1>3. CompiledOK'
  BY DEF CompiledOK, Fresh
<1>4. SourcesOK' /\ WatchOK'
  BY DEF SourcesOK, WatchOK
<1>5. RunnerOK'
  BY DEF RunnerOK, StampsOK, OutputOK
<1> QED
  BY <1>1, <1>2, <1>3, <1>4, <1>5

\* A build that stops without a program.
LEMMA FailureKeeps ==
  ASSUME BInv, EndBuild("failed"),
         UNCHANGED <<tool, target, clock, src, cfile, output, todo, compiled, cfiles, start>>
  PROVE  BInv'
<1>1. step' = "idle" /\ stack' = <<>> /\ outcome' = "failed"
  BY DEF EndBuild
<1>2. Typed' /\ Clocked' /\ StackOK' /\ CompiledOK' /\ SourcesOK' /\ WatchOK' /\ RunnerOK'
  BY <1>1, BuildEnds DEF BInv
<1>3. BuildIsCurrent'
  BY <1>1, SameResult DEF BInv
<1> QED
  BY <1>2, <1>3 DEF BInv

\* The C file of the file on top, as it was opened.
LEMMA WrittenFile ==
  ASSUME BInv, stack # <<>>, NEW stamp \in Stamps
  PROVE  /\ Generated(stamp) \in CFiles /\ Generated(stamp).from = Top.from
         /\ Generated(stamp).written = clock
         /\ Generated(stamp).stamp \in Int /\ Generated(stamp).stamp <= clock
<1>1. Top \in Frames /\ Top.mod \in Modules
  BY TopFrame
<1>2. Typed /\ clock \in Nat
  BY DEF BInv, Typed
<1> DEFINE S == {src[m].at : m \in compiled \cup {Top.mod}}
<1>3. S \in SUBSET Nat /\ S # {} /\ \A x \in S : x <= clock
  BY <1>1, <1>2 DEF BInv, Typed, Clocked, Sources
<1>4. Newest = Max(S)
  BY DEF Newest
<1> HIDE DEF S
<1>5. Newest \in Nat /\ Newest <= clock
  BY <1>2, <1>3, <1>4, Greatest
<1>6. stamp \in Int /\ stamp <= clock
  BY <1>2, <1>5 DEF Stamps
<1>7. (IF Top.used = Unset THEN Names ELSE Top.used) \in {Names} \cup SUBSET Names
  BY <1>1 DEF Frames
<1>8. Top.from \in Sources
  BY <1>1 DEF Frames
<1> QED
  BY <1>2, <1>6, <1>7, <1>8 DEF Generated, CFiles

LEMMA WriteFileKeeps ==
  ASSUME BInv, WriteFile PROVE BInv'
<1>1. /\ step = "compile" /\ ~(Top.next <= Len(Imports[Top.mod])) /\ stack' = Front(stack)
      /\ UNCHANGED <<tool, target, clock, src, output, lastSeen, outcome, start>>
  BY DEF WriteFile, Importing
<1>2. stack # <<>> /\ stack \in Seq(Frames) /\ Typed
  BY <1>1 DEF BInv, StackOK, Typed
<1>3. PICK new : /\ new \in CFiles /\ new.from = Top.from /\ new.written = clock
                 /\ new.stamp \in Int /\ new.stamp <= clock
                 /\ cfile' = [cfile EXCEPT ![Top.mod] = new]
  BY <1>2, WrittenFile DEF WriteFile
<1>4. PICK n \in Nat \ {0} : n = Len(stack)
  BY <1>2, TopFrame
<1>5. PICK m \in Modules : m = Top.mod
  BY <1>2, TopFrame
<1>6. /\ stack[n] = Top /\ Top.from \in Sources
      /\ Top.from.at >= start[m].at /\ Top.from.at <= src[m].at /\ Top.from.at \in Nat
      /\ \A j \in 1..Len(Imports[m]) : Imports[m][j] \in compiled
  <2>1. Imports[m] \in Seq(Modules) /\ Top.next \in Nat
    BY <1>2, TopFrame, BuildAssumption
  <2>2. \A j \in 1..Len(Imports[m]) : j < Top.next
    BY <1>1, <1>5, <2>1
  <2> QED
    BY <1>2, <1>4, <1>5, <2>2, TopFrame DEF Sources
<1>7. stack' \in Seq(Frames) /\ Len(stack') = n - 1 /\ \A k \in 1..(n - 1) : stack'[k] = stack[k]
  BY <1>1, <1>2, <1>4, FrontAndLast
<1>8. cfile'[m] = new /\ cfile' \in [Modules -> {Unset} \cup CFiles] /\ \A x \in Modules : x # m => cfile'[x] = cfile[x]
  BY <1>2, <1>3, <1>5 DEF Typed
<1>9. Fresh(m)' /\ \A x \in Modules : Fresh(x) => Fresh(x)'
  BY <1>1, <1>3, <1>6, <1>8 DEF Fresh
<1>10. Clocked' /\ BuildIsCurrent'
  BY <1>1, SameResult DEF BInv, Clocked
<1>11. RunnerOK'
  <2> SUFFICES ASSUME tool = "runner" PROVE (StampsOK /\ OutputOK /\ start = src)'
    BY <1>1 DEF RunnerOK
  <2>1. StampsOK /\ OutputOK /\ start = src
    BY <1>1 DEF BInv, RunnerOK
  <2>2. StampsOK'
    <3>1. new.from.at >= src[m].at
      BY <1>3, <1>6, <2>1
    <3> QED
      BY <1>1, <1>3, <1>8, <2>1, <3>1 DEF StampsOK
  <2>3. OutputOK'
    <3> SUFFICES ASSUME output # Unset
                 PROVE  /\ output.written \in Nat /\ output.written <= clock
                        /\ \A x \in ToSet(target.sources) :
                             /\ x \in DOMAIN output.parts /\ output.parts[x].from.at \in Nat
                             /\ cfile'[x].written <= output.written => output.parts[x].from.at >= cfile'[x].from.at
                             /\ output.written = clock => output.parts[x].from.at >= src[x].at
      BY <1>1 DEF OutputOK
    <3>1. output.written \in Nat /\ output.written <= clock /\ clock \in Nat
      BY <1>2, <2>1 DEF OutputOK, Typed
    <3>2. ToSet(target.sources) \subseteq Modules
      BY <1>2, Members, BuildAssumption DEF Typed
    <3>3. ASSUME NEW x \in ToSet(target.sources)
          PROVE  /\ x \in DOMAIN output.parts /\ output.parts[x].from.at \in Nat
                 /\ cfile'[x].written <= output.written => output.parts[x].from.at >= cfile'[x].from.at
                 /\ output.written = clock => output.parts[x].from.at >= src[x].at
      <4>1. /\ x \in DOMAIN output.parts /\ output.parts[x].from.at \in Nat
            /\ cfile[x].written <= output.written => output.parts[x].from.at >= cfile[x].from.at
            /\ output.written = clock => output.parts[x].from.at >= src[x].at
        BY <2>1 DEF OutputOK
      <4>2. CASE x # m
        BY <1>8, <3>2, <4>1, <4>2
      <4>3. CASE x = m
        <5>1. cfile'[x].written = clock /\ cfile'[x].from = Top.from
          BY <1>3, <1>8, <4>3
        <5>2. cfile'[x].written <= output.written => output.written = clock
          BY <3>1, <5>1
        <5>3. Top.from.at <= src[x].at
          BY <1>6, <4>3
        <5>4. src[x].at \in Nat
          BY <1>2, <4>3 DEF Typed, Sources
        <5>5. output.parts[x].from.at >= src[x].at => output.parts[x].from.at >= Top.from.at
          BY <1>6, <4>1, <5>3, <5>4
        <5> QED
          BY <4>1, <5>1, <5>2, <5>5
      <4> QED
        BY <4>2, <4>3
    <3> QED
      BY <3>1, <3>3
  <2> QED
    BY <1>1, <2>1, <2>2, <2>3
<1>12. compiled' = (IF n > 1 THEN compiled \cup {m} ELSE compiled) /\ compiled \subseteq Modules
  BY <1>2, <1>4, <1>5 DEF WriteFile, Typed
<1>13. CompiledOK'
  <2> SUFFICES ASSUME NEW x \in compiled'
               PROVE  Fresh(x)' /\ \A j \in 1..Len(Imports[x]) : Imports[x][j] \in compiled'
    BY DEF CompiledOK
  <2>1. CASE x \in compiled
    BY <1>9, <1>12, <2>1 DEF BInv, CompiledOK
  <2>2. CASE x = m
    BY <1>6, <1>9, <1>12, <2>2
  <2> QED
    BY <1>12, <2>1, <2>2
<1>14. CASE n > 1
  <2>1. UNCHANGED <<step, todo, cfiles>>
    BY <1>4, <1>14 DEF WriteFile
  <2>2. 1 \in 1..(n - 1) /\ n - 1 \in 1..n /\ Len(stack') # 0
    BY <1>7, <1>14
  <2>3. stack' # <<>> /\ stack'[1] = stack[1]
    BY <1>7, <2>2
  <2>4. ASSUME NEW k \in 1..(n - 1)
        PROVE  /\ stack[k].from.at >= start[stack[k].mod].at /\ stack[k].from.at <= src[stack[k].mod].at
               /\ \A j \in 1..Len(Imports[stack[k].mod]) : j < stack[k].next =>
                    \/ Imports[stack[k].mod][j] \in compiled'
                    \/ k < n - 1 /\ Imports[stack[k].mod][j] = stack[k + 1].mod
    <3>1. k \in 1..Len(stack) /\ k < n /\ (k < n - 1 \/ k + 1 = n)
      BY <1>4
    <3>2. k + 1 = n => stack[k + 1].mod \in compiled'
      BY <1>5, <1>6, <1>12, <1>14
    <3> QED
      BY <1>4, <1>12, <3>1, <3>2 DEF BInv, StackOK
  <2>5. \A k \in 1..(n - 1) : k < n - 1 => k + 1 \in 1..(n - 1)
    BY <1>4
  <2>6. StackOK'
    <3>1. step' = "compile" /\ stack' # <<>>
      BY <1>1, <2>1, <2>3
    <3>2. ASSUME NEW k \in 1..Len(stack')
          PROVE  /\ stack'[k].from.at >= start'[stack'[k].mod].at
                 /\ stack'[k].from.at <= src'[stack'[k].mod].at
                 /\ \A j \in 1..Len(Imports[stack'[k].mod]) : j < stack'[k].next =>
                      \/ Imports[stack'[k].mod][j] \in compiled'
                      \/ k < Len(stack') /\ Imports[stack'[k].mod][j] = stack'[k + 1].mod
      <4>1. k \in 1..(n - 1) /\ Len(stack') = n - 1 /\ stack'[k] = stack[k] /\ start' = start /\ src' = src
        BY <1>1, <1>7
      <4>2. k < n - 1 => stack'[k + 1] = stack[k + 1]
        BY <1>7, <2>5, <4>1
      <4> QED
        BY <2>4, <4>1, <4>2
    <3> QED
      BY <3>1, <3>2 DEF StackOK
  <2>7. Typed'
    BY <1>1, <1>2, <1>5, <1>7, <1>8, <1>12, <2>1 DEF Typed
  <2>8. ToSet(target.sources) \subseteq Modules
    BY <1>2, Members, BuildAssumption DEF Typed
  <2>9. SourcesOK' /\ WatchOK'
    BY <1>1, <1>9, <2>1, <2>3, <2>8 DEF BInv, SourcesOK, WatchOK
  <2> QED
    BY <1>10, <1>11, <1>13, <2>6, <2>7, <2>9 DEF BInv
<1>15. CASE n = 1
  <2>1. /\ cfiles' = Append(cfiles, m) \o SetToSeq({x \in compiled : x \notin ToSet(Append(cfiles, m))})
        /\ IF tool = "watch" THEN step' = "link" /\ todo' = todo ELSE step' = "sources" /\ todo' = Tail(todo)
    BY <1>4, <1>5, <1>15 DEF WriteFile
  <2>2. stack[1].mod = m /\ stack' = <<>>
    BY <1>5, <1>6, <1>7, <1>15
  <2>3. cfiles' \in Seq(Modules) /\ ToSet(cfiles) \cup {m} \cup compiled \subseteq ToSet(cfiles')
    <3> DEFINE files == Append(cfiles, m)
               S == {x \in compiled : x \notin ToSet(files)}
    <3>1. cfiles \in Seq(Modules)
      BY <1>2 DEF Typed
    <3>2. files \in Seq(Modules) /\ ToSet(files) = ToSet(cfiles) \cup {m}
      BY <3>1, Appended
    <3>3. S \subseteq Modules /\ IsFiniteSet(S) /\ compiled \subseteq S \cup ToSet(files)
      BY <1>12, FS_Subset, BuildAssumption
    <3>4. SetToSeq(S) \in Seq(S) /\ ToSet(SetToSeq(S)) = S
      BY <3>3, Listing
    <3>5. cfiles' = files \o SetToSeq(S)
      BY <2>1
    <3> HIDE DEF files, S
    <3>6. SetToSeq(S) \in Seq(Modules)
      BY <3>3, <3>4
    <3>7. cfiles' \in Seq(Modules) /\ ToSet(cfiles') = ToSet(files) \cup S
      BY <3>2, <3>4, <3>5, <3>6, Concatenated
    <3> QED
      BY <3>2, <3>3, <3>7
  <2>4. StackOK'
    BY <2>1, <2>2 DEF StackOK
  <2>5. tool # "watch" => todo # <<>> /\ m = Head(todo)
    BY <1>1, <2>2 DEF BInv, SourcesOK
  <2>6. tool # "watch" => todo' \in Seq(Modules) /\ ToSet(todo) = {m} \cup ToSet(todo')
    <3>1. todo \in Seq(Modules)
      BY <1>2 DEF Typed
    <3>2. todo # <<>> => Tail(todo) \in Seq(Modules) /\ ToSet(todo) = {Head(todo)} \cup ToSet(Tail(todo))
      BY <3>1, HeadAndTail
    <3> QED
      BY <2>1, <2>5, <3>2
  <2>7. Typed'
    BY <1>1, <1>2, <1>7, <1>8, <1>12, <1>15, <2>1, <2>3, <2>6 DEF Typed
  <2>8. ToSet(target.sources) \subseteq Modules
    BY <1>2, Members, BuildAssumption DEF Typed
  <2>9. SourcesOK'
    BY <1>1, <1>9, <2>1, <2>3, <2>5, <2>6, <2>8 DEF BInv, SourcesOK
  <2>10. tool = "watch" => m = Main
    BY <1>1, <2>2 DEF BInv, WatchOK
  <2>11. WatchOK'
    BY <1>1, <1>6, <1>9, <1>12, <1>15, <2>1, <2>3, <2>10 DEF WatchOK
  <2> QED
    BY <1>10, <1>11, <1>13, <2>4, <2>7, <2>9, <2>11 DEF BInv
<1>16. n > 1 \/ n = 1
  OBVIOUS
<1> QED
  BY <1>14, <1>15, <1>16

\* The driver has compiled everything that is needed.
LEMMA NeededCompiled ==
  ASSUME BInv, step = "link", tool = "watch"
  PROVE  Needed \subseteq compiled \cup {Main} /\ \A m \in compiled \cup {Main} : Fresh(m)
<1> DEFINE S == compiled \cup {Main}
<1>1. S \in SUBSET Modules /\ Main \in S
  BY BuildAssumption DEF BInv, Typed
<1>2. ASSUME NEW i \in S PROVE ToSet(Imports[i]) \subseteq S
  <2>1. Imports[i] \in Seq(Modules)
    BY <1>1, BuildAssumption
  <2>2. \A j \in 1..Len(Imports[i]) : Imports[i][j] \in compiled
    BY DEF BInv, CompiledOK, WatchOK
  <2> QED
    BY <2>1, <2>2, Members
<1>3. Needed \subseteq S
  BY <1>1, <1>2 DEF Needed
<1>4. \A m \in S : Fresh(m)
  BY DEF BInv, CompiledOK, WatchOK
<1> QED
  BY <1>3, <1>4

\* A program linked from files that are fresh, all sources of the target among them, and
\* with the driver all that is needed.
LEMMA LinkedKeeps ==
  ASSUME BInv, step = "link", NEW files, NEW fails, Linked(files, fails),
         tool # "watch" => ToSet(target.sources) \subseteq files,
         tool = "watch" => Needed \subseteq files
  PROVE  BInv'
<1>1. UNCHANGED <<tool, target, clock, src, cfile, todo, compiled, cfiles, recompiled, lastSeen, start>>
  BY DEF Linked
<1>2. CASE fails
  BY <1>1, <1>2, FailureKeeps DEF Linked
<1>3. CASE ~fails
  <2>1. /\ step' = "idle" /\ stack' = <<>> /\ outcome' = "ok"
        /\ output' = [parts |-> Parts(files), written |-> clock]
    BY <1>3 DEF Linked, EndBuild
  <2>2. Typed /\ todo = todo'
    BY <1>1 DEF BInv
  <2>3. Typed' /\ Clocked' /\ StackOK' /\ CompiledOK' /\ SourcesOK' /\ WatchOK'
    BY <1>1, <2>1 DEF BInv, Typed, Clocked, StackOK, CompiledOK, SourcesOK, WatchOK, Fresh
  <2>4. ToSet(target.sources) \subseteq Modules
    BY <2>2, Members, BuildAssumption DEF Typed
  <2>5. tool # "watch" => \A m \in ToSet(target.sources) : Fresh(m)
    <3>1. ToSet(<<>>) = {}
      BY DEF ToSet
    <3> QED
      BY <3>1 DEF BInv, SourcesOK
  <2>6. tool = "watch" => \A m \in Needed : Fresh(m)
    BY NeededCompiled
  <2>7. \A m \in files : m \in DOMAIN output'.parts /\ output'.parts[m].from = cfile[m].from
    BY <2>1 DEF Parts
  <2>8. \A m \in Modules : Fresh(m) => cfile[m].from.at \in Nat /\ cfile[m].from.at >= start[m].at
    BY DEF Fresh, CFiles, Sources
  <2>9. BuildIsCurrent'
    <3>1. Needed \subseteq Modules
      BY DEF Needed
    <3> QED
      BY <1>1, <2>4, <2>5, <2>6, <2>7, <2>8, <3>1
         DEF BuildIsCurrent, SourcesAreCurrent, DriverBuildsEverything, Built, Needed
  <2>10. ASSUME tool = "runner" PROVE StampsOK' /\ OutputOK'
    <3>1. start = src /\ StampsOK
      BY <2>10 DEF BInv, RunnerOK
    <3>2. StampsOK'
      BY <1>1, <3>1 DEF StampsOK
    <3>3. output'.written = clock /\ clock \in Nat
      BY <2>1, <2>2 DEF Typed
    <3>4. OutputOK'
      BY <1>1, <2>4, <2>5, <2>7, <2>8, <2>10, <3>1, <3>3 DEF OutputOK
    <3> QED
      BY <3>2, <3>4
  <2>11. RunnerOK'
    BY <1>1, <2>1, <2>10 DEF RunnerOK
  <2> QED
    BY <2>3, <2>9, <2>11 DEF BInv
<1> QED
  BY <1>2, <1>3

\* What a C file list for the linker has in it.
LEMMA ListedFiles ==
  ASSUME BInv, step = "link"
  PROVE  /\ tool # "watch" => ToSet(target.sources) \subseteq ToSet(cfiles)
         /\ tool = "watch" => Needed \subseteq ToSet(cfiles)
<1>1. ToSet(<<>>) = {}
  BY DEF ToSet
<1>2. tool # "watch" => ToSet(target.sources) \subseteq ToSet(cfiles)
  BY <1>1 DEF BInv, SourcesOK
<1>3. tool = "watch" => Needed \subseteq ToSet(cfiles)
  BY NeededCompiled DEF BInv, WatchOK
<1> QED
  BY <1>2, <1>3

LEMMA LinkClustersKeeps ==
  ASSUME BInv, LinkClusters PROVE BInv'
<1>1. step = "link" /\ tool = "topology"
  BY DEF LinkClusters
<1>2. CASE Linked(ToSet(cfiles), Undefined(ToSet(cfiles)))
  BY <1>1, <1>2, ListedFiles, LinkedKeeps
<1>3. CASE ~Linked(ToSet(cfiles), Undefined(ToSet(cfiles)))
  <2> DEFINE Files(c, p) == {m \in DOMAIN c : c[m] # p} \cup Host(c, p)
  <2>1. PICK cluster \in [ToSet(target.sources) -> 1..Len(target.sources)] :
          \E p \in {0} \cup {cluster[m] : m \in DOMAIN cluster} :
            Linked(Files(cluster, p), Undefined(Files(cluster, p)))
    BY <1>3 DEF LinkClusters
  <2>2. PICK pinned : Linked(Files(cluster, pinned), Undefined(Files(cluster, pinned)))
    BY <2>1
  <2> DEFINE files == Files(cluster, pinned)
  <2>3. ASSUME NEW m \in ToSet(target.sources) PROVE m \in files
    <3>1. cluster[m] # 0
      BY <2>1
    <3>2. m \in DOMAIN cluster
      BY <2>1
    <3> QED
      BY <3>1, <3>2 DEF Host
  <2>4. Linked(files, Undefined(files))
    BY <2>2
  <2> HIDE DEF files
  <2> QED
    BY <1>1, <2>3, <2>4, LinkedKeeps
<1> QED
  BY <1>2, <1>3

\* The linker is not run: the program is not older than the C files.
LEMMA SkipLinkKeeps ==
  ASSUME BInv, SkipLink PROVE BInv'
<1>1. /\ step = "link" /\ tool = "runner" /\ output # Unset
      /\ \A m \in ToSet(cfiles) : cfile[m].written <= output.written
      /\ step' = "idle" /\ stack' = <<>> /\ outcome' = "ok"
      /\ UNCHANGED <<tool, target, clock, src, cfile, output, todo, compiled, cfiles, recompiled, lastSeen, start>>
  BY DEF SkipLink, OutputCurrent, EndBuild
<1>2. Typed' /\ Clocked' /\ StackOK' /\ CompiledOK' /\ SourcesOK' /\ WatchOK' /\ RunnerOK'
  BY <1>1, BuildEnds DEF BInv
<1>3. ToSet(target.sources) \subseteq ToSet(cfiles) /\ ToSet(target.sources) \subseteq Modules
  BY <1>1, ListedFiles, Members, BuildAssumption DEF BInv, Typed
<1>4. ASSUME NEW m \in ToSet(target.sources)
      PROVE  m \in DOMAIN output.parts /\ output.parts[m].from.at >= start[m].at
  <2>1. ToSet(<<>>) = {}
    BY DEF ToSet
  <2>2. Fresh(m)
    BY <1>1, <2>1 DEF BInv, SourcesOK
  <2>3. cfile[m].from.at \in Nat /\ cfile[m].from.at >= start[m].at /\ start[m].at \in Nat
    BY <1>3, <2>2 DEF Fresh, CFiles, Sources, BInv, Typed
  <2>4. /\ m \in DOMAIN output.parts /\ output.parts[m].from.at \in Nat
        /\ output.parts[m].from.at >= cfile[m].from.at
    BY <1>1, <1>3 DEF BInv, RunnerOK, OutputOK
  <2> QED
    BY <2>3, <2>4
<1>5. BuildIsCurrent'
  BY <1>1, <1>4 DEF BuildIsCurrent, SourcesAreCurrent, DriverBuildsEverything, Built
<1> QED
  BY <1>2, <1>5 DEF BInv

LEMMA NextBInv ==
  ASSUME "runner" \notin EditedBuilds
  PROVE  BInv /\ [BuildNext]_buildvars => BInv'
<1> SUFFICES ASSUME BInv, [BuildNext]_buildvars PROVE BInv'
  OBVIOUS
<1>1. CASE Editing
  BY <1>1, EditKeeps DEF Editing
<1>2. CASE StartRunner \/ StartWatched \/ SkipSource \/ CompileSource \/ SourcesDone
  BY <1>2, StartRunnerKeeps, StartWatchedKeeps, SkipSourceKeeps, CompileSourceKeeps,
     SourcesDoneKeeps
<1>3. CASE ImportDependency \/ WriteFile \/ SkipLink \/ LinkClusters
  BY <1>3, ImportDependencyKeeps, WriteFileKeeps, SkipLinkKeeps, LinkClustersKeeps
<1>4. CASE CompileError
  BY <1>4, FailureKeeps DEF CompileError
<1>5. CASE Link
  BY <1>5, ListedFiles, LinkedKeeps DEF Link
<1>6. CASE UNCHANGED buildvars
  BY <1>6, SameResult
     DEF buildvars, BInv, Typed, Clocked, StackOK, CompiledOK, SourcesOK, WatchOK, RunnerOK, StampsOK,
         OutputOK, Fresh
<1> QED
  BY <1>1, <1>2, <1>3, <1>4, <1>5, <1>6 DEF BuildNext, Building, Poll

\* A build that succeeds has every source of its target as it was when the build began,
\* or newer, and with the driver everything the program imports: whatever is skipped
\* because of a stamp (BuildRunner._compile_sources), because a module is compiled
\* already (compile_import_from) or because the program is newer than its C files
\* (_link_exe), and whatever failed in the builds before.  The sources may change during
\* a build of the driver or of build_with_topology, not of the runner: the stamp it
\* relies on is taken after the file was read.
THEOREM BuildCorrect ==
  ASSUME "runner" \notin EditedBuilds
  PROVE  BuildSpec => []BuildIsCurrent
<1>1. BInv => BuildIsCurrent
  BY DEF BInv
<1> QED
  BY InitBInv, NextBInv, <1>1, PTL DEF BuildSpec
=============================================================================
