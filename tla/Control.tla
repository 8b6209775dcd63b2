------------------------------ MODULE Control ------------------------------
(***************************************************************************)
(* Statements that direct control, as two compilers write them in C: the     *)
(* Python one (compiler/codegen_stmts.py) and the one written in the         *)
(* language itself (native/src/native_codegen_stmt.py).  The meaning of a    *)
(* list of statements is the sequence of events of a run and how the run     *)
(* leaves the list.  The C that is made is run by the same operator, so that *)
(* what was written and what is run can be compared.                         *)
(***************************************************************************)
EXTENDS Integers, Sequences, FiniteSets, SequencesExt

CONSTANTS
  Programs,  \* [body, unroll]: a function, and 0 or the factor of its @unroll
  Subjects,  \* values of the variable v, which is tested and matched
  MaxTurns   \* bound: turns of a C loop, which a wrong condition would not end

VARIABLES
  program, subject,
  compiler,  \* "none" before the program is compiled
  written,   \* the C
  outcome    \* the run of the C, NotRunYet before it

controlvars == <<program, subject, compiler, written, outcome>>

-----------------------------------------------------------------------------
(* Statements.  A test compares a variable with a value; a condition is a    *)
(* set of sets of tests, a disjunction of conjunctions.  The variables are   *)
(* v, the variable i of the loops, its copy u, and the name w of a capture.  *)

Op(o) == [op |-> o]
Do(a) == [op |-> "do", act |-> a]            \* anything with an effect
See == [op |-> "see", var |-> "i"]           \* an expression with the loop variable in it
Store(var) == [op |-> "store", var |-> var]  \* the loop variable is an index: a[i] = ...
Add(var, k) == [op |-> "add", var |-> var, value |-> k]  \* var += k
Is(name, value) == [name |-> name, value |-> value]
IfElse(cond, body, orelse) == [op |-> "if", cond |-> cond, body |-> body, orelse |-> orelse]

Met(t, env) == env[t.name] = t.value
Holds(cond, env) == \E alt \in cond : \A t \in alt : Met(t, env)

\* What is written for a number: a literal, or v with a sign or a factor.
Literal(k) == [name |-> "literal", value |-> k]
Signed(k) == [name |-> "v", value |-> k]
Amount(e, env) == IF e.name = "v" THEN e.value * env.v ELSE e.value

\* The items of range(start, stop, step), whose arguments are evaluated once.
Quotient(a, b) == IF a >= 0 THEN a \div b ELSE -((-a) \div b)
RangeItems(start, stop, step) ==
  LET n == IF step > 0 THEN (stop - start + step - 1) \div step ELSE (start - stop - step - 1) \div (-step)
  IN [k \in 1..n |-> start + (k - 1) * step]

\* An array, a list or a dict: slots of which a dict does not use all.  Item k is k.
Used(slots) == SelectSeq([k \in 1..Len(slots) |-> k - 1], LAMBDA k : slots[k + 1])

\* A case has a set of values (empty for _ and for a name), may bind what it fits to w (a
\* name, or "1 as w"), and has a set of tests as its guard.  The first one that fits:
Named(c) == c.values = {}
Bound(c, env) == IF c.binds THEN [env EXCEPT !.w = env.v] ELSE env
FirstFit(cases, env) ==
  SelectInSeq(cases, LAMBDA c : (Named(c) \/ env.v \in c.values) /\ \A t \in c.guard : Met(t, Bound(c, env)))

RECURSIVE AllOf(_)
\* Every statement, the nested ones too.
AllOf(body) ==
  UNION {{s} \cup CASE s.op = "if"    -> AllOf(s.body) \cup AllOf(s.orelse)
                    [] s.op = "match" -> UNION {AllOf(s.cases[k].body) : k \in DOMAIN s.cases}
                    [] s.op \in {"range", "each", "with"} -> AllOf(s.body)
                    [] OTHER          -> {}
           : s \in ToSet(body)}
Has(body, ops) == \E s \in AllOf(body) : s.op \in ops
Cases(s) == ToSet(s.cases)

-----------------------------------------------------------------------------
(* A run of statements, of the source ("range", "each", "with", "match") and *)
(* of C ("loop", "bind", "copy", "switch", "enter", "clean", "read").        *)

Out(events, how, env) == [out |-> events, how |-> how, env |-> env]
Event(e, env) == Out(<<e>>, "next", env)

RECURSIVE Run(_, _), Turns(_, _, _), Spins(_, _, _)
Step(s, env) ==
  CASE s.op = "do"               -> Event(s.act, env)
    [] s.op \in {"see", "store"} -> Event(<<s.op, env[s.var]>>, env)
    [] s.op \in {"enter", "clean"} -> Event(<<s.op, s.name>>, env)
    [] s.op = "add"   -> Out(<<>>, "next", [env EXCEPT ![s.var] = @ + s.value])
    [] s.op = "bind"  -> Out(<<>>, "next", [env EXCEPT !.w = env.v])
    [] s.op = "read"  -> IF env.i < s.length THEN Out(<<>>, "next", env) ELSE Event("overrun", env)
    [] s.op = "if"    -> Run(IF Holds(s.cond, env) THEN s.body ELSE s.orelse, env)
    [] s.op = "range" ->  \* no range has a step of zero
         IF Amount(s.step, env) = 0 THEN Out(<<>>, "raise", env)
         ELSE Turns(s.body, RangeItems(Amount(s.start, env), Amount(s.stop, env), Amount(s.step, env)), env)
    [] s.op = "each"  -> Turns(s.body, Used(s.slots), env)
    [] s.op = "loop"  ->  \* the variable of the loop is its own
         LET start == Amount(s.start, env)
             first == start + (IF s.rest = 0 THEN 0 ELSE s.rest * Quotient(Amount(s.stop, env) - start, s.rest))
             r == Spins(s, [env EXCEPT !.i = first], 0)
         IN [r EXCEPT !.env.i = env.i]
    [] s.op = "copy"  -> Run(s.body, [env EXCEPT !.u = env.i + s.offset])
    [] s.op \in {"match", "switch"} ->
         LET n == FirstFit(s.cases, env)
             r == Run(s.cases[n].body, IF s.op = "match" THEN Bound(s.cases[n], env) ELSE env)
         IN IF n = 0 THEN Out(<<>>, "next", env)
            ELSE IF s.op = "switch" /\ r.how = "break" THEN [r EXCEPT !.how = "next"] ELSE r
    [] s.op = "with"  ->  \* whatever way the body is left
         LET r == Run(s.body, env)
             cleaned == SelectSeq(s.items, LAMBDA x : x.opener # "other")
         IN [r EXCEPT !.out = [k \in DOMAIN s.items |-> <<"enter", s.items[k].name>>] \o @
                              \o Reverse([k \in DOMAIN cleaned |-> <<"clean", cleaned[k].name>>])]
    [] OTHER -> Out(<<>>, s.op, env)  \* break, continue, return, raise
Run(body, env) ==
  IF body = <<>> THEN Out(<<>>, "next", env)
  ELSE LET r == Step(Head(body), env)
           rest == Run(Tail(body), r.env)
       IN IF r.how = "next" THEN [rest EXCEPT !.out = r.out \o @] ELSE r

\* One turn for each item, until one leaves the loop.
Turns(body, items, env) ==
  IF items = <<>> THEN Out(<<>>, "next", env)
  ELSE LET r == Run(body, [env EXCEPT !.i = Head(items)])
           rest == Turns(body, Tail(items), r.env)
       IN CASE r.how \in {"next", "continue"} -> [rest EXCEPT !.out = r.out \o @]
            [] r.how = "break" -> [r EXCEPT !.how = "next"]
            [] OTHER           -> r

\* for (...; i + ahead < stop; i += step), or with >: the C looks at the variables of stop
\* and step in every turn, and i is the variable of the source or one of its own.
Goes(s, env) ==
  IF s.less THEN env.i + s.ahead < Amount(s.stop, env) ELSE env.i + s.ahead > Amount(s.stop, env)
Spins(s, env, turns) ==
  IF turns = MaxTurns \/ ~Goes(s, env) THEN Out(<<>>, "next", env)
  ELSE LET r == Run(s.body, env)
           rest == Spins(s, [r.env EXCEPT !.i = (IF s.hidden THEN env.i ELSE @) + Amount(s.step, r.env)], turns + 1)
       IN CASE r.how \in {"next", "continue"} -> [rest EXCEPT !.out = r.out \o @]
            [] r.how = "break" -> [r EXCEPT !.how = "next"]
            [] OTHER           -> r

-----------------------------------------------------------------------------
(* What both compilers do.                                                   *)

\* With a rest, the loop begins where loops of that many items each have ended.
For(start, less, stop, step, ahead, rest, body) ==
  <<[op |-> "loop", start |-> start, less |-> less, stop |-> stop, step |-> step, ahead |-> ahead,
     rest |-> rest, hidden |-> FALSE, body |-> body]>>
Count(n, hidden, body) ==
  <<[For(Literal(0), TRUE, Literal(n), Literal(1), 0, 0, body)[1] EXCEPT !.hidden = hidden]>>
Enter(x) == <<[op |-> "enter", name |-> x.name]>>
Clean(x) == <<[op |-> "clean", name |-> x.name]>>
NoProgram == <<[op |-> "rejected"]>>  \* the C compiler takes no such program

\* Seeded bug: a loop that goes down is not noticed.
RangeLoopUp(s, body) == For(s.start, TRUE, s.stop, s.step, 0, 0, body)

\* The sign of the step is read off its text, a minus or none.
RangeLoop(s, body) == For(s.start, s.step.value >= 0, s.stop, s.step, 0, 0, body)

\* All slots of the first source are visited, those of a dict are skipped if they are not
\* in use; of the others of a zip the same element is read.
SlotLoop(s, body) ==
  LET unused == {k \in DOMAIN s.slots : ~s.slots[k]}
      skip == IfElse({{Is("i", k - 1)} : k \in unused}, <<Op("continue")>>, <<>>)
  IN Count(Len(s.slots), s.form # "enumerate",
           (CASE s.form = "items" -> <<skip>>
              [] s.form = "zip"   -> <<[op |-> "read", length |-> s.shortest]>>
              [] OTHER            -> <<>>) \o body)

\* Any pattern but values is taken for one that always fits.
Wild(c) == Named(c) \/ c.binds
Taken(c) == IF Wild(c) THEN [c EXCEPT !.values = {}] ELSE c

\* No two labels are the same, nor are there two defaults, and texts have no labels.
Switch(text, cases) ==
  IF \/ text
     \/ \E j, k \in DOMAIN cases :
          j < k /\ (cases[j].values \cap cases[k].values # {} \/ (Named(cases[j]) /\ Named(cases[k])))
  THEN NoProgram
  ELSE <<[op |-> "switch", cases |-> SelectSeq(cases, LAMBDA c : ~Named(c)) \o SelectSeq(cases, Named)]>>

\* if ... else if ... else, from conditions and bodies.  Nothing follows an else.  The
\* names of captures are declared in front.
IfChain(cases, arms) ==
  IF \E k \in DOMAIN arms : k < Len(arms) /\ arms[k].cond = {{}} THEN NoProgram
  ELSE (IF \E c \in ToSet(cases) : c.binds THEN <<Op("bind")>> ELSE <<>>)
       \o FoldRight(LAMBDA a, orelse : <<IfElse(a.cond, a.body, orelse)>>, arms, <<>>)

Values(c) == {{Is("v", x)} : x \in c.values}

-----------------------------------------------------------------------------
(* The Python compiler.                                                      *)

RECURSIVE PyCode(_)

\* for (i = start; i + factor - 1 < stop; i += factor) with a block per offset, and the
\* loop over what remains.  In a block only an index is replaced, and only in a statement
\* of its own.
Unrolled(s, factor) ==
  LET Block(offset) == [op |-> "copy", offset |-> offset,
                        body |-> FlattenSeq([k \in DOMAIN s.body |->
                                   IF s.body[k].op = "store" THEN <<Store("u")>> ELSE PyCode(<<s.body[k]>>)])]
  IN For(s.start, TRUE, s.stop, Literal(factor), factor - 1, 0, [k \in 1..factor |-> Block(k - 1)])
     \o For(s.start, TRUE, s.stop, Literal(1), 0, factor, PyCode(s.body))

\* _compile_match_ifelse: arms that only raise go last, before the ones that always fit.
\* A guard is written after the alternatives, where it binds to the last.
PyArms(cases) ==
  LET Unconditional(c) == Wild(c) /\ c.guard = {}
      ColdArm(c) == c.body = <<Op("raise")>>
      sorted == SelectSeq(cases, LAMBDA c : ~Unconditional(c) /\ ~ColdArm(c))
                \o SelectSeq(cases, LAMBDA c : ~Unconditional(c) /\ ColdArm(c))
                \o SelectSeq(cases, Unconditional)
      last(c) == CHOOSE x \in c.values : \A y \in c.values : y <= x
      Cond(c) == IF Wild(c) THEN {c.guard}
                 ELSE {{Is("v", x)} : x \in c.values \ {last(c)}} \cup {{Is("v", last(c))} \cup c.guard}
      arms == [k \in DOMAIN sorted |-> [cond |-> Cond(sorted[k]), body |-> sorted[k].body]]
  IN IfChain(cases, IF arms[1].cond = {{}} THEN <<arms[1]>> ELSE arms)

\* A text is compared with a character constant, which is no text.
PyMatch(s) ==
  LET made == [k \in DOMAIN s.cases |-> [s.cases[k] EXCEPT !.body = PyCode(@)]]
  IN IF \A c \in Cases(s) : c.guard = {} /\ ~c.binds /\ (s.text => Named(c)) THEN Switch(s.text, made)
     ELSE IF s.text /\ \E c \in Cases(s) : ~Wild(c) THEN NoProgram
     ELSE PyArms(made)

\* compile_with: the body is written for each item, and an arena ends the statement.  What
\* is closed without a name is called _ctx, which is not declared.
RECURSIVE PyWith(_, _)
PyWith(items, body) ==
  IF items = <<>> THEN <<>>
  ELSE LET x == Head(items)
       IN Enter(x) \o PyCode(body) \o (IF x.opener = "other" THEN <<>> ELSE IF x.bound THEN Clean(x) ELSE NoProgram)
          \o (IF x.opener = "scope" THEN <<>> ELSE PyWith(Tail(items), body))

\* Any other expression is a comment in C.
PyEach(s, body) == IF s.over = "other" THEN <<>> ELSE SlotLoop(s, body)

PyStatement(s) ==
  CASE s.op = "if"    -> <<IfElse(s.cond, PyCode(s.body), PyCode(s.orelse))>>
    [] s.op = "range" -> RangeLoop(s, PyCode(s.body))
    [] s.op = "each"  -> PyEach(s, PyCode(s.body))
    [] s.op = "match" -> PyMatch(s)
    [] s.op = "with"  -> PyWith(s.items, s.body)
    [] OTHER          -> <<s>>
PyCode(body) == FlattenSeq([k \in DOMAIN body |-> PyStatement(body[k])])

\* @unroll: the loops that are statements of the function itself.
PyFunction(p) ==
  FlattenSeq([k \in DOMAIN p.body |->
    IF p.unroll > 0 /\ p.body[k].op = "range" /\ p.body[k].args < 3
    THEN Unrolled(p.body[k], p.unroll) ELSE PyStatement(p.body[k])])

-----------------------------------------------------------------------------
(* The native compiler.                                                      *)

RECURSIVE NatCode(_)

\* The guard of a pattern that is a value is not looked at.  A text is compared by its
\* address, which is never that of a literal.  A switch declares no names.
NatMatch(s) ==
  LET made == [k \in DOMAIN s.cases |-> [s.cases[k] EXCEPT !.body = NatCode(@)]]
      Cond(c) == IF Wild(c) THEN {c.guard} ELSE IF s.text THEN {} ELSE Values(c)
      undeclared == \E c \in Cases(s) : \E t \in AllOf(c.body) : t.op = "see" /\ t.var = "w"
  IN IF \A c \in Cases(s) : c.guard = {}
     THEN IF undeclared THEN NoProgram ELSE Switch(s.text, [k \in DOMAIN made |-> Taken(made[k])])
     ELSE IfChain(made, [k \in DOMAIN made |-> [cond |-> Cond(made[k]), body |-> made[k].body]])

\* Seeded bug: what was opened first is closed first.
NatWithInOrder(items, body) ==
  LET cleaned == SelectSeq(items, LAMBDA x : x.opener # "other")
  IN FlattenSeq([k \in DOMAIN items |-> Enter(items[k])]) \o NatCode(body)
     \o FlattenSeq([k \in DOMAIN cleaned |-> Clean(cleaned[k])])

\* _infer_cleanup does not know _init; an arena is only known if it is alone; what has
\* no name is not closed.
NatWith(items, body) ==
  LET Closed(x) == x.bound /\ x.opener \in {"open", "_open", "_new", "_create"} \cup (IF Len(items) = 1 THEN {"scope"} ELSE {})
      cleaned == SelectSeq(items, Closed)
  IN FlattenSeq([k \in DOMAIN items |-> Enter(items[k])]) \o NatCode(body)
     \o FlattenSeq(Reverse([k \in DOMAIN cleaned |-> Clean(cleaned[k])]))

NatRange(s, body) == RangeLoop(s, body)

\* Lists are not known.
NatEach(s, body) == IF s.over \in {"array", "dict"} THEN SlotLoop(s, body) ELSE <<>>

NatStatement(s) ==
  CASE s.op = "if"    -> <<IfElse(s.cond, NatCode(s.body), NatCode(s.orelse))>>
    [] s.op = "range" -> NatRange(s, NatCode(s.body))
    [] s.op = "each"  -> NatEach(s, NatCode(s.body))
    [] s.op = "match" -> NatMatch(s)
    [] s.op = "with"  -> NatWith(s.items, s.body)
    [] OTHER          -> <<s>>
NatCode(body) == FlattenSeq([k \in DOMAIN body |-> NatStatement(body[k])])

-----------------------------------------------------------------------------
(* A program is compiled by one of the compilers and run.                    *)

NotRunYet == [out |-> <<>>, how |-> "not run", v |-> 0]
Outcome(body) ==
  LET r == Run(body, [v |-> subject, i |-> -1, u |-> -1, w |-> -1]) IN [out |-> r.out, how |-> r.how, v |-> r.env.v]

ControlInit ==
  /\ program \in Programs /\ subject \in Subjects
  /\ compiler = "none" /\ written = <<>> /\ outcome = NotRunYet

CompilePython ==
  /\ compiler = "none" /\ compiler' = "python" /\ written' = PyFunction(program)
  /\ UNCHANGED <<program, subject, outcome>>

CompileNative ==
  /\ compiler = "none" /\ compiler' = "native" /\ written' = NatCode(program.body)
  /\ UNCHANGED <<program, subject, outcome>>

RunProgram ==
  /\ compiler # "none" /\ outcome = NotRunYet /\ outcome' = Outcome(written)
  /\ UNCHANGED <<program, subject, compiler, written>>

ControlNext == CompilePython \/ CompileNative \/ RunProgram \/ (outcome # NotRunYet /\ UNCHANGED controlvars)

ControlSpec == ControlInit /\ [][ControlNext]_controlvars

-----------------------------------------------------------------------------
(* Properties.                                                               *)

Changed(body) == {s.var : s \in {t \in AllOf(body) : t.op = "add"}}

\* A step that goes where its text says, nothing that the C reads again in a loop changed by
\* the body, nor the variable that counts.
Steady(s) ==
  /\ s.op = "range" =>
       /\ Amount(s.step, [v |-> subject]) # 0 /\ (Amount(s.step, [v |-> subject]) < 0 <=> s.step.value < 0)
       /\ Changed(s.body) \cap {s.stop.name, "i"} = {}
       /\ s.step.name = "v" => "v" \notin Changed(program.body)
  /\ s.op = "each" /\ s.form = "enumerate" => "i" \notin Changed(s.body)

\* What neither compiler gets right: a loop that is not steady or is over anything but an
\* array, a list or a dict; a zip whose first source is not the shortest; a break in an arm
\* of a switch or a value in two of its arms, "1 as w", texts as values; a with that is left
\* before its end or has an item without a name.
Plain(s) ==
  /\ Steady(s)
  /\ s.op = "each"  => s.over # "other" /\ (s.form = "zip" => Len(s.slots) <= s.shortest)
  /\ s.op = "match" =>
       /\ \/ \E c \in Cases(s) : c.guard # {}
          \/ /\ ~s.text /\ \A c \in Cases(s) : ~Has(c.body, {"break"})
             /\ \A j, k \in DOMAIN s.cases : j # k => s.cases[j].values \cap s.cases[k].values = {}
       /\ \A c \in Cases(s) : s.text \/ c.binds => Named(c)
  /\ s.op = "with"  => ~Has(s.body, {"break", "continue", "return", "raise"}) /\ \A k \in DOMAIN s.items : s.items[k].bound

\* Two cases that some value fits.
Overlap(c, d) == Named(c) \/ Named(d) \/ c.values \cap d.values # {}
Cold(c) == c.body = <<Op("raise")>>

\* And what the Python compiler does not: more than one item in a with, a case that only
\* raises before one that it overlaps, a guard of alternatives.
PythonKnows(s) ==
  /\ Plain(s)
  /\ s.op = "with"  => Len(s.items) = 1
  /\ s.op = "match" =>
       /\ \A j, k \in DOMAIN s.cases :
            j < k /\ Cold(s.cases[j]) /\ ~Cold(s.cases[k]) /\ ~(Named(s.cases[k]) /\ s.cases[k].guard = {})
              => ~Overlap(s.cases[j], s.cases[k])
       /\ \A c \in Cases(s) : c.guard # {} => Cardinality(c.values) < 2

\* In a loop that is unrolled: statements with the variable as an index, others without it,
\* and exits from the function; a break goes on with the loop over what remains, and a
\* continue with the next turn of the C.
Unrollable(p) ==
  p.unroll > 0 =>
    \A s \in ToSet(p.body) : s.op = "range" => \A t \in ToSet(s.body) : t.op \in {"do", "store", "return", "raise"}

\* C made by the Python compiler does what the program says, whatever loops, matches
\* and withs are nested (compile_for, _emit_unrolled_for, compile_match, compile_with of
\* compiler/codegen_stmts.py), apart from the cases named above.
PythonRunsAsWritten ==
  compiler = "python" /\ outcome # NotRunYet /\ Unrollable(program) /\ (\A s \in AllOf(program.body) : PythonKnows(s)) =>
    outcome = Outcome(program.body)

\* What the native compiler does not know, of native_codegen_stmt.py: guards of values, names
\* bound in a match without guards, lists, openers called _init, an arena among other items.
NativeKnows(s) ==
  /\ Plain(s)
  /\ s.op = "match" => /\ \A c \in Cases(s) : c.guard # {} => Named(c)
                       /\ (\A c \in Cases(s) : c.guard = {}) => \A c \in Cases(s) : ~c.binds
  /\ s.op = "each"  => s.over # "list"
  /\ s.op = "with"  => \A k \in DOMAIN s.items :
                         s.items[k].opener # "_init" /\ (s.items[k].opener = "scope" => Len(s.items) = 1)

\* The same for C made by the native compiler, which is to replace the Python one.
NativeRunsAsWritten ==
  compiler = "native" /\ outcome # NotRunYet /\ (\A s \in AllOf(program.body) : NativeKnows(s)) =>
    outcome = Outcome(program.body)

=============================================================================
