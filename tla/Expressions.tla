---------------------------- MODULE Expressions ----------------------------
(***************************************************************************)
(* Expressions, as two compilers type them and write them in C: the Python   *)
(* one (compiler/codegen_exprs.py, and infer_type of compiler/compiler.py)   *)
(* and the one written in the language itself (native_codegen_expr.py,       *)
(* native_infer.py).  The C that is made is evaluated by the operator that   *)
(* gives the source its meaning: a value, the functions called on the way,   *)
(* and whether C defines it.  Numbers are counted in quarters.               *)
(***************************************************************************)
EXTENDS Integers, Sequences, SequencesExt, FiniteSetsExt

CONSTANTS
  Sources,   \* expressions, and assignments n += ...
  Settings,  \* values of the variables: [name -> number]
  Pointers,  \* how the pointer p may be declared and assigned: [own, assigned]
  MaxInt     \* the greatest integer, -MaxInt - 1 being the least

VARIABLES
  source, setting,
  declared, \* of p
  mode,  \* [native, safe, state]: the compiler, whether it writes safety checks, and what it
         \* takes p for; <<>> before
  code,  \* the checks written ahead of the statement, the expression, the type a new variable gets
  result \* the value of the expression and of the variable, NotRun before

vars == <<source, setting, declared, mode, code, result>>

-----------------------------------------------------------------------------
(* Types: a base and stars.                                                  *)

T(base, stars) == [base |-> base, stars |-> stars]
Int64 == T("int64_t", 0)      CInt == T("int", 0)
Double == T("double", 0)    Float == T("float", 0)
Short == T("int16_t", 0)
Str == T("NrStr", 1)       Chars == T("char", 1)   \* "..." as such is a char* in C
Vec == T("Vec", 0)          Null == T("void", 1)
Unknown == T("", 0)         Rejected == T("error", 0)  \* by the C compiler

TypeTable == [int |-> Int64, float |-> Double, bool |-> CInt, f32 |-> Float, i16 |-> Short, str |-> Str]
MapType(a) ==
  LET inner == IF a.name \in DOMAIN TypeTable THEN TypeTable[a.name] ELSE T(a.name, 0)
  IN T(inner.base, inner.stars + a.ptrs)
Annotated(name, ptrs) == [name |-> name, ptrs |-> ptrs]

Names ==
  [n |-> MapType(Annotated("int", 0)), i |-> MapType(Annotated("int", 0)),
   b |-> MapType(Annotated("bool", 0)), x |-> MapType(Annotated("float", 0)),
   f |-> MapType(Annotated("f32", 0)), h |-> MapType(Annotated("i16", 0)), s |-> MapType(Annotated("str", 0)),
   p |-> MapType(Annotated("int", 1)), q |-> MapType(Annotated("int", 2)),
   v |-> MapType(Annotated("Vec", 0)), w |-> MapType(Annotated("Vec", 1)),
   a |-> T("int64_t", 1)]  \* array[int, 2]
Arrays == {"a"}

\* A function of the program, a builtin, and a C function the compiler knows nothing of.
Functions == [count |-> Int64, half |-> Double, sqrt |-> Double, outside |-> Double]
OwnFunctions == {"count", "half"}
Methods == [add |-> Vec, eq |-> CInt, neg |-> Vec]  \* Vec___add__, ...
OverloadOf(o) == CASE o = "+" -> "add" [] o = "==" -> "eq" [] OTHER -> "none"

Floating(t) == t \in {Double, Float}
Numeric(t) == Floating(t) \/ t \in {Int64, CInt, Short}
IsText(t) == t \in {Str, Chars}

-----------------------------------------------------------------------------
(* Values.                                                                   *)

Value(t, n) == [t |-> t, n |-> n, calls |-> <<>>, bad |-> ""]
Truth(b) == Value(CInt, IF b THEN 4 ELSE 0)

\* s itself, of which TLC computes each element once.
Listed(s) == SubSeq(s, 1, Len(s))

\* The least of some positions, 0 if there are none.
First(positions) == IF positions = {} THEN 0 ELSE Min(positions)

\* v, for which run is evaluated in turn and all must be accepted.
Made(v, all, run) ==
  LET stop == First({k \in DOMAIN run : run[k].bad # ""})
      done == IF stop = 0 THEN run ELSE SubSeq(run, 1, stop)
  IN [v EXCEPT !.t = IF \E k \in DOMAIN all : all[k].t = Rejected THEN Rejected ELSE @,
               !.calls = FlattenSeq([k \in DOMAIN done |-> done[k].calls]) \o (IF stop = 0 THEN @ ELSE <<>>),
               !.bad = IF stop = 0 THEN @ ELSE run[stop].bad]

Trunc(x, y) == LET Abs(z) == IF z < 0 THEN -z ELSE z
                   d == Abs(x) \div Abs(y)
               IN IF (x < 0) = (y < 0) THEN d ELSE -d
MinInt == -MaxInt - 1
InWord(n) == MinInt <= n \div 4 /\ n \div 4 <= MaxInt

\* As a number of type t.
Stored(t, v) ==
  IF Numeric(t) /\ Numeric(v.t) THEN [v EXCEPT !.t = t, !.n = IF Floating(t) THEN @ ELSE 4 * Trunc(@, 4)]
  ELSE IF t = v.t \/ (v.t = Null /\ t.stars > 0) THEN [v EXCEPT !.t = t] ELSE [v EXCEPT !.t = Rejected]

Fault(v, what) == [v EXCEPT !.bad = what]
Refused == Value(Rejected, 0)

\* Of two numbers.
Arith(o, l, r) ==
  LET real == Floating(l.t) \/ Floating(r.t)
      n == CASE o = "+" -> l.n + r.n
             [] o = "-" -> l.n - r.n
             [] o = "*" -> (l.n * r.n) \div 4
             [] r.n = 0 -> 0
             [] o \in {"/", "//"} -> IF real THEN Trunc(4 * l.n, r.n) ELSE 4 * Trunc(l.n, r.n)
             [] OTHER -> l.n - r.n * Trunc(l.n, r.n)
      v == Value(IF real THEN Double ELSE Int64, n)
      overflow == ~InWord(n) \/ (o = "%" /\ l.n = 4 * MinInt /\ r.n = -4)
  IN IF ~Numeric(l.t) \/ ~Numeric(r.t) \/ (o = "%" /\ real) THEN Refused
     ELSE IF ~real /\ (overflow \/ (o \in {"/", "//", "%"} /\ r.n = 0)) THEN Fault(v, "undefined") ELSE v

\* A pointer is null if it is 0, a text too.
IsNull(v) == v.t.stars > 0 /\ v.n = 0
Compared(o, l, r) == CASE o \in {"==", "is"} -> l.n = r.n [] o = "!=" -> l.n # r.n [] o = "<" -> l.n < r.n
Alike(o, l, r) == \/ Numeric(l.t) /\ Numeric(r.t)
                  \/ /\ o \in {"==", "!=", "is"} /\ l.t.stars > 0 /\ r.t.stars > 0
                     /\ Null \in {l.t, r.t} \/ (l.t = r.t /\ ~IsText(l.t))

\* What pointers lead to: p to 1, q to 2, a to 3 and 4, w to 5.
Memory == <<Value(Int64, 8), Value(T("int64_t", 1), 1), Value(Int64, 4), Value(Int64, 12), Value(Vec, 8)>>
At(ptr, k, size) ==
  IF ptr.t.stars = 0 \/ IsText(ptr.t) THEN Refused
  ELSE IF ptr.n \notin 1..5 \/ k \notin 0..(size - 1) THEN Fault(Value(T(ptr.t.base, ptr.t.stars - 1), 0), "undefined")
  ELSE Memory[ptr.n + k]
Returned(name) == [Value(Functions[name], CASE name = "count" -> 4 [] name = "outside" -> 6 [] OTHER -> 2)
                   EXCEPT !.calls = <<name>>]
Method(name, self, arg) ==
  IF self.t # Vec \/ arg.t # Vec THEN Refused
  ELSE CASE name = "add" -> Value(Vec, self.n + arg.n)
         [] name = "eq"  -> Truth(self.n = arg.n)
         [] name = "neg" -> Value(Vec, -self.n)

-----------------------------------------------------------------------------
(* Evaluation of the source ("bin", "cmp", "member") and of C ("arith",      *)
(* "safe", "test", "concat", "same", "method", "dot", "arrow", "temp").      *)

Lvalues == {"name", "deref", "index", "dot", "arrow"}

\* The pairs of neighbours that a chain of comparisons tests, each expression evaluated once.
Chain(ops, vs) ==
  LET k == First({j \in DOMAIN ops : ~Compared(ops[j], vs[j], vs[j + 1])})
      alike == \A j \in DOMAIN ops : Alike(ops[j], vs[j], vs[j + 1])
  IN IF alike THEN Made(Truth(k = 0), vs, IF k = 0 THEN vs ELSE SubSeq(vs, 1, k + 1)) ELSE Refused

\* && and ||: up to the value that settles it.
Junction(vs, settles) ==
  LET k == First({j \in DOMAIN vs : vs[j].bad # "" \/ (vs[j].n # 0) = settles})
  IN Made(Truth(IF k = 0 THEN ~settles ELSE settles), vs, IF k = 0 THEN vs ELSE SubSeq(vs, 1, k))

IsChain(e) == e.op = "cmp" /\ Len(e.ops) > 1

SourceBin(o, l, r, pointed) ==
  CASE o = "+" /\ IsText(l.t) /\ IsText(r.t) ->
         IF IsNull(l) \/ IsNull(r) THEN Fault(Value(Str, 0), "undefined") ELSE Value(Str, l.n + r.n)
    [] o = "+" /\ Vec \in {l.t, pointed.t}   -> Method("add", pointed, r)
    [] OTHER -> Arith(o, l, r)

\* A comparison of one pair: with None, of texts, of structs, or as in C.
SourceCompare(o, l, r, pointed) ==
  CASE Null \in {l.t, r.t} -> IF Alike(o, l, r) THEN Truth(Compared(o, l, r)) ELSE Refused
    [] o = "is" -> Refused
    [] IsText(l.t) /\ IsText(r.t) /\ o \in {"==", "!="} -> Truth(Compared(o, l, r))
    [] o = "==" /\ pointed.t = Vec -> Method("eq", pointed, r)
    [] Alike(o, l, r) -> Truth(Compared(o, l, r))
    [] OTHER -> Refused

Conditional(test, then, orelse) ==
  LET chosen == IF test.n # 0 THEN then ELSE orelse
      mixed == Numeric(then.t) /\ Numeric(orelse.t) /\ (Floating(then.t) \/ Floating(orelse.t))
  IN Made(Stored(IF mixed THEN Double ELSE then.t, Value(chosen.t, chosen.n)), <<test, then, orelse>>, <<test, chosen>>)

\* Division and overflow, checked for integers.
SafeArith(o, l, r) ==
  LET v == Arith(o, Stored(Int64, l), Stored(Int64, r))
  IN IF v.bad # "" /\ ~(o = "%" /\ r.n \div 4 # 0) THEN Fault(v, "panic") ELSE v

\* Of operands that are all evaluated.
Operate(e, vs) ==
  LET pointed == IF vs[1].t = T("Vec", 1) THEN At(vs[1], 0, 1) ELSE vs[1]
  IN CASE e.op = "neg"  -> IF pointed.t = Vec THEN Method("neg", pointed, pointed) ELSE Arith("-", Value(Int64, 0), vs[1])
       [] e.op = "not"  -> Truth(vs[1].n = 0)
       [] e.op = "deref"  -> At(vs[1], 0, 1)
       [] e.op = "index"  -> At(vs[1], vs[2].n \div 4, IF e.args[1] = [op |-> "name", name |-> "a"] THEN 2 ELSE 1)
       [] e.op = "member" -> Value(Double, pointed.n)
       [] e.op = "dot"    -> IF vs[1].t = Vec THEN Value(Double, vs[1].n) ELSE Refused
       [] e.op = "arrow"  -> IF vs[1].t = T("Vec", 1) THEN Value(Double, pointed.n) ELSE Refused
       [] e.op = "bin"    -> SourceBin(e.o, vs[1], vs[2], pointed)
       [] e.op = "cmp"    -> SourceCompare(e.ops[1], vs[1], vs[2], pointed)
       [] e.op = "arith"  -> Arith(e.o, vs[1], vs[2])
       [] e.op = "safe"   -> SafeArith(e.o, vs[1], vs[2])
       [] e.op = "test"   ->
            IF IsText(vs[1].t) /\ IsText(vs[2].t) THEN Fault(Truth(FALSE), "undefined")
            ELSE IF Alike(e.o, vs[1], vs[2]) THEN Truth(Compared(e.o, vs[1], vs[2])) ELSE Refused
       [] e.op \in {"concat", "same"} ->
            IF \E k \in 1..2 : vs[k].t \notin {Str, Null} THEN Refused
            ELSE IF \E k \in 1..2 : IsNull(vs[k]) THEN Fault(Value(IF e.op = "same" THEN CInt ELSE Str, 0), "undefined")
            ELSE IF e.op = "same" THEN Truth(vs[1].n = vs[2].n) ELSE Value(Str, vs[1].n + vs[2].n)
       [] e.op = "method" ->
            IF e.address /\ e.args[1].op \notin Lvalues \cup {"temp"} THEN Refused
            ELSE Method(e.name, IF e.address THEN vs[1] ELSE pointed, vs[2])
       [] e.op \in {"within", "set"} ->
            IF IF e.op = "within" THEN vs[1].n \in {0, 4} ELSE vs[1].n # 0
            THEN Truth(TRUE) ELSE Fault(Truth(FALSE), "panic")

RECURSIVE Eval(_, _)
Eval(e, env) ==
  LET vs == IF "args" \in DOMAIN e THEN Listed([k \in DOMAIN e.args |-> Eval(e.args[k], env)]) ELSE <<>>
  IN CASE e.op = "lit"  -> Value(e.t, e.n)
       [] e.op = "name" -> Value(Names[e.name], env[e.name])
       [] e.op = "call" -> Returned(e.name)
       [] e.op = "temp" -> Value(vs[1].t, vs[1].n)
       [] e.op \in {"and", "or"} -> Junction(vs, e.op = "or")
       [] e.op = "if"   -> Conditional(vs[1], vs[2], vs[3])
       [] IsChain(e)    -> Chain(e.ops, vs)
       [] OTHER -> Made(Operate(e, vs), vs, vs)

-----------------------------------------------------------------------------
(* infer_type and _try_infer_type: the type the compilers take an expression *)
(* for.  The Python compiler strips every star of a type, the native one the *)
(* last.                                                                     *)

Strip(t, native) == IF native /\ t.stars > 0 THEN T(t.base, t.stars - 1) ELSE T(t.base, 0)
ScalarBase(t) == t.stars > 0 \/ Numeric(t)

\* Seeded bug: only the left operand is looked at.
OperatorTypeLeft(o, lt, rt, otherwise, native) ==
  IF Strip(lt, native) = Vec /\ OverloadOf(o) # "none" THEN Methods[OverloadOf(o)]
  ELSE IF lt = Double THEN Double ELSE otherwise

OperatorType(o, lt, rt, otherwise, native) ==
  IF Strip(lt, native) = Vec /\ OverloadOf(o) # "none" THEN Methods[OverloadOf(o)]
  ELSE IF Double \in {lt, rt} THEN Double ELSE otherwise

\* p.value, and the field of a struct.
MemberType(e, of, unknown, native) ==
  IF e.op = "deref" /\ of.stars > 0 /\ ScalarBase(Strip(of, native)) THEN Strip(of, native)
  ELSE IF e.op = "member" /\ Strip(of, native) = Vec THEN Double ELSE unknown

\* The native compiler has no table of builtins.
CallType(name, native) ==
  IF name \in OwnFunctions \/ (name = "sqrt" /\ ~native) THEN Functions[name] ELSE Int64

RECURSIVE Infer(_, _)
Infer(e, native) ==
  CASE e.op = "lit"  -> IF e.t = Chars THEN Str ELSE IF e.t = Null THEN Int64 ELSE e.t
    [] e.op = "name" -> Names[e.name]
    [] e.op = "call" -> CallType(e.name, native)
    [] e.op \in {"not", "and", "or", "cmp"} -> CInt
    [] e.op = "neg"  -> Infer(e.args[1], native)
    [] e.op = "if"   -> Infer(e.args[2], native)
    [] e.op = "bin"  -> OperatorType(e.o, Infer(e.args[1], native), Infer(e.args[2], native), Int64, native)
    [] e.op = "index" -> LET of == Infer(e.args[1], native) IN IF of.stars > 0 THEN T(of.base, of.stars - 1) ELSE Int64
    [] e.op \in {"deref", "member"} -> MemberType(e, Infer(e.args[1], native), Int64, native)

NatInfer(e) == Infer(e, TRUE)
TypeOf(e, m) == IF m.native THEN NatInfer(e) ELSE Infer(e, FALSE)

TryCallType(name, native) ==
  IF name \in OwnFunctions \/ CallType(name, native) # Int64 THEN CallType(name, native) ELSE Unknown

RECURSIVE TryInfer(_, _)
TryInfer(e, native) ==
  LET ts == IF "args" \in DOMAIN e THEN Listed([k \in DOMAIN e.args |-> TryInfer(e.args[k], native)]) ELSE <<>>
  IN CASE e.op = "lit" /\ e.t = Null -> Unknown
       [] e.op \in {"lit", "name", "not", "and", "or", "cmp"} -> Infer(e, native)
       [] e.op = "neg" -> ts[1]
       [] e.op = "bin" ->
            IF Unknown \in {ts[1], ts[2]} THEN Unknown
            ELSE OperatorType(e.o, ts[1], ts[2], IF Str \in {ts[1], ts[2]} THEN Str ELSE Int64, native)
       [] e.op = "if"  -> IF ts[2] = ts[3] THEN ts[2] ELSE IF {ts[2], ts[3]} = {Int64, Double} THEN Double ELSE Unknown
       [] e.op \in {"deref", "member"} -> MemberType(e, ts[1], Unknown, native)
       [] e.op = "index" -> IF e.args[1].name \in Arrays THEN Int64 ELSE Unknown
       [] e.op = "call"  -> TryCallType(e.name, native)

NatTryInfer(e) == TryInfer(e, TRUE)

-----------------------------------------------------------------------------
(* compile_expr.  C is a text: what a comparison leaves unparenthesised is a *)
(* sequence of operands of &&, of which an operator next to it takes one.    *)
(* What the expression needs first is written as statements ahead of it.     *)

C(ahead, text) == [ahead |-> ahead, text |-> text]
Whole(text) == IF Len(text) = 1 THEN text[1] ELSE [op |-> "and", args |-> text]
Closed(ahead, e) == C(ahead, <<e>>)
Node(op, args) == [op |-> op, args |-> args]
Ahead(parts) == FlattenSeq([k \in DOMAIN parts |-> parts[k].ahead])

\* (l o r), as C reads it.
Infix(op, o, l, r) ==
  <<Whole(Front(l) \o <<[op |-> op, o |-> o, args |-> <<Last(l), Head(r)>>]>> \o Tail(r))>>
Prefix(op, text) == <<Whole(<<Node(op, <<Head(text)>>)>> \o Tail(text))>>

\* A literal as a string object.
Coerced(e, text) == IF e.op = "lit" /\ e.t = Chars THEN [e EXCEPT !.t = Str] ELSE Whole(text)

\* Seeded bug: a bool is not taken for an integer.
SafeTypesNoBool(native) == IF native THEN {Int64} ELSE {Int64, Short}

SafeTypes(native) == IF native THEN {Int64, CInt} ELSE {Int64, CInt, Short}
Checked == {"+", "-", "*", "/", "//", "%"}

\* The struct as the first argument of a method: its address, which Python takes of a copy
\* if there is nothing to take it of.
WithSelf(name, left, t, l, r, m) ==
  LET spilled == ~m.native /\ left.op \notin {"name", "member", "deref", "index"}
      self == IF t.stars = 0 /\ spilled THEN Node("temp", <<Whole(l.text)>>) ELSE Whole(l.text)
  IN Closed(Ahead(<<l, r>>) \o (IF t.stars = 0 /\ spilled THEN <<Whole(l.text)>> ELSE <<>>),
            [op |-> "method", name |-> name, address |-> t.stars = 0, args |-> <<self, Whole(r.text)>>])

CompileBinOp(e, t, l, r, m) ==
  IF e.o = "+" /\ t = Str
    THEN Closed(Ahead(<<l, r>>), Node("concat", <<Coerced(e.args[1], l.text), Coerced(e.args[2], r.text)>>))
  ELSE IF Strip(t, m.native) = Vec /\ OverloadOf(e.o) # "none" THEN WithSelf(OverloadOf(e.o), e.args[1], t, l, r, m)
  ELSE IF m.safe /\ t \in SafeTypes(m.native) /\ e.o \in Checked
    THEN Closed(Ahead(<<l, r>>), [op |-> "safe", o |-> e.o, args |-> <<Whole(l.text), Whole(r.text)>>])
  ELSE IF e.o = "//"
    THEN Closed(Ahead(<<l, r>>), [op |-> "arith", o |-> "//", args |-> <<Whole(l.text), Whole(r.text)>>])
  ELSE C(Ahead(<<l, r>>), Infix("arith", e.o, l.text, r.text))

CompileUnaryOp(e, t, x, m) ==
  IF e.op = "neg" /\ Strip(t, m.native) = Vec
    THEN Closed(x.ahead, [op |-> "method", name |-> "neg", address |-> t.stars = 0,
                          args |-> <<Whole(x.text), Whole(x.text)>>])
  ELSE C(x.ahead, Prefix(e.op, x.text))

\* Seeded bug: every comparison of a chain is with the first operand.
CompileCompareFirst(e, t, xs, m) ==
  C(Ahead(xs), [k \in DOMAIN e.ops |-> Infix("test", e.ops[k], xs[1].text, xs[k + 1].text)[1]])

\* The operand between two comparisons is written twice.
CompileCompare(e, t, xs, m) ==
  LET single == Len(e.ops) = 1
  IN IF single /\ t = Str /\ e.ops[1] \in {"==", "!="}
       THEN LET same == Node("same", <<Coerced(e.args[1], xs[1].text), Coerced(e.args[2], xs[2].text)>>)
            IN Closed(Ahead(xs), IF e.ops[1] = "==" THEN same ELSE Node("not", <<same>>))
     ELSE IF single /\ e.ops[1] = "==" /\ Strip(t, m.native) = Vec
       THEN Closed(Ahead(xs), [op |-> "method", name |-> "eq", address |-> TRUE,
                               args |-> <<Whole(xs[1].text), Whole(xs[2].text)>>])
     ELSE C(Ahead(xs), [k \in DOMAIN e.ops |-> Infix("test", e.ops[k], xs[k].text, xs[k + 1].text)[1]])

\* Checks are statements ahead: of an index into an array, of a pointer.
BoundsCheck(array, text, m) ==
  IF m.safe /\ array.op = "name" /\ array.name \in Arrays THEN <<Node("within", <<Whole(text)>>)>> ELSE <<>>

\* _null_analyze: what the assignments of a pointer say of it, in the order in which they
\* are found, wherever they are.  Those of several targets at once are not looked at, nor
\* those that have no type and are not None, unless the pointer is known already.
NullStep(state, a) ==
  CASE a.value = "several" \/ (state = "untracked" /\ ~a.annotated /\ a.value # "none") -> state
    [] a.value = "missing" -> IF state = "untracked" THEN "unknown" ELSE state
    [] a.value = "none"    -> IF state = "non-null" THEN "unknown" ELSE "null"
    [] a.value = "alloc"   -> IF state = "null" THEN "unknown" ELSE "non-null"
    [] a.value = "other"   -> IF state \in {"null", "non-null"} THEN "unknown" ELSE state
NullAnalyze(d) ==
  FoldLeft(NullStep, IF d.own = "parameter" THEN "unknown" ELSE "untracked", d.assigned)

\* Of a pointer that is a variable.  The native compiler has no states; the Python one refuses
\* the program if it takes it for null.
NullCheck(pointer, text, m) ==
  LET state == IF pointer = [op |-> "name", name |-> "p"] THEN m.state ELSE "unknown"
      check == IF m.safe THEN <<Node("set", <<Whole(text)>>)>> ELSE <<>>
  IN CASE pointer.op # "name" -> <<>>
       [] m.native \/ state = "unknown" -> check
       [] state = "null" -> <<[op |-> "lit", t |-> Rejected, n |-> 0]>>
       [] OTHER -> <<>>

CompileSubscript(e, xs, m) ==
  Closed(Ahead(xs) \o BoundsCheck(e.args[1], xs[2].text, m),
         Node("index", <<Whole(xs[1].text), Whole(xs[2].text)>>))

CompileAttribute(e, t, x, m) ==
  LET scalar == e.op = "deref" /\ ScalarBase(Strip(t, m.native))
  IN Closed(x.ahead \o (IF t.stars > 0 THEN NullCheck(e.args[1], x.text, m) ELSE <<>>),
            Node(IF t.stars > 0 /\ scalar THEN "deref" ELSE IF t.stars > 0 THEN "arrow" ELSE "dot", <<Whole(x.text)>>))

\* By the kind of expression: t is the type of its first operand, xs its operands in C.
CompileExpr(e, t, xs, m) ==
  CASE e.op \in {"lit", "name", "call"} -> Closed(<<>>, e)
    [] e.op = "bin" -> CompileBinOp(e, t, xs[1], xs[2], m)
    [] e.op \in {"neg", "not"} -> CompileUnaryOp(e, t, xs[1], m)
    [] e.op \in {"and", "or", "if"} -> Closed(Ahead(xs), Node(e.op, [k \in DOMAIN xs |-> Whole(xs[k].text)]))
    [] e.op = "cmp"   -> CompileCompare(e, t, xs, m)
    [] e.op = "index" -> CompileSubscript(e, xs, m)
    [] e.op \in {"deref", "member"} -> CompileAttribute(e, t, xs[1], m)

RECURSIVE Compile(_, _)
Compile(e, m) ==
  IF "args" \in DOMAIN e
  THEN CompileExpr(e, TypeOf(e.args[1], m), Listed([k \in DOMAIN e.args |-> Compile(e.args[k], m)]), m)
  ELSE CompileExpr(e, Unknown, <<>>, m)

NatCompile(e, m) == Compile(e, m)

-----------------------------------------------------------------------------
(* Statements: a new variable is given the value of the expression, or a     *)
(* variable is changed by +=, -=, ...                                        *)

Assign(e, m) ==
  LET c == Compile(e, m) IN [ahead |-> c.ahead, expr |-> Whole(c.text), type |-> TryInfer(e, FALSE)]
NatAssign(e, m) ==
  LET c == NatCompile(e, m) IN [ahead |-> c.ahead, expr |-> Whole(c.text), type |-> NatTryInfer(e)]

AugAssign(e, m) ==
  LET c == Compile(e.args[1], m)
      t == Names[e.name]
      target == [op |-> "name", name |-> e.name]
      checked == Checked \ (IF m.native THEN {"//"} ELSE {})
      operands == [o |-> e.o, args |-> <<target, Whole(c.text)>>]
  IN [ahead |-> c.ahead, type |-> t,
      expr |-> IF Strip(t, m.native) = Vec /\ OverloadOf(e.o) # "none"
                 THEN [op |-> "method", name |-> OverloadOf(e.o), address |-> t.stars = 0, args |-> operands.args]
               ELSE [op |-> IF m.safe /\ t \in SafeTypes(m.native) /\ e.o \in checked THEN "safe" ELSE "arith",
                     o |-> e.o, args |-> operands.args]]

NatAugAssign(e, m) == AugAssign(e, m)

CodeOf(e, m) ==
  IF e.op = "aug" THEN IF m.native THEN NatAugAssign(e, m) ELSE AugAssign(e, m)
  ELSE IF m.native THEN NatAssign(e, m) ELSE Assign(e, m)

\* What the statements ahead do, then the statement.
Execute(c, env) ==
  LET parts == Append(c.ahead, c.expr)
      run == Listed([k \in DOMAIN parts |-> Eval(parts[k], env)])
      value == Made(Value(Last(run).t, Last(run).n), run, run)
  IN [value |-> value, variable |-> Stored(c.type, value)]

Meaning(e, env) ==
  LET v == Eval(IF e.op = "aug" THEN [e EXCEPT !.op = "bin", !.args = <<[op |-> "name", name |-> e.name]>> \o @] ELSE e, env)
  IN IF e.op = "aug" THEN Stored(Names[e.name], v) ELSE v

NotRun == [value |-> Refused, variable |-> Refused]

RECURSIVE Parts(_)
Parts(e) == {e} \cup (IF "args" \in DOMAIN e THEN UNION {Parts(e.args[k]) : k \in DOMAIN e.args} ELSE {})
Derefs(p) == p.op \in {"deref", "member"} /\ p.args[1] = [op |-> "name", name |-> "p"]

\* Whether a pointer may be null, or not null, somewhere in its function.
MayBe(d, null) ==
  d.own # "local" \/ \E a \in Range(d.assigned) : a.value \in {"other", "several", IF null THEN "none" ELSE "alloc"}
Parameter == [own |-> "parameter", assigned |-> <<>>]

Init ==
  /\ source \in Sources
  /\ setting \in Settings
  /\ IF \E p \in Parts(source) : Derefs(p)
     THEN declared \in {d \in Pointers : MayBe(d, setting.p = 0)} ELSE declared = Parameter
  /\ mode = <<>>
  /\ code = <<>>
  /\ result = NotRun

\* A source of which the parts fit together.
CompileSource ==
  /\ mode = <<>>
  /\ Meaning(source, setting).t # Rejected
  /\ \E native, safe \in BOOLEAN : mode' = [native |-> native, safe |-> safe, state |-> NullAnalyze(declared)]
  /\ code' = CodeOf(source, mode')
  /\ UNCHANGED <<source, setting, declared, result>>

RunCode ==
  /\ code # <<>>
  /\ result = NotRun
  /\ result' = Execute(code, setting)
  /\ UNCHANGED <<source, setting, declared, mode, code>>

Next == CompileSource \/ RunCode

Spec == Init /\ [][Next]_vars

-----------------------------------------------------------------------------
(* Properties.  An expression that does what C leaves undefined has no value *)
(* to keep.                                                                  *)

Ran == result # NotRun
Accepted(v) == v.t # Rejected
Calls(e) == \E p \in Parts(e) : p.op = "call"

\* Not written as one operand: a chain of comparisons next to another operator.
SplitChain(p) == p.op \in {"bin", "neg", "not", "cmp"} /\ \E k \in DOMAIN p.args : IsChain(p.args[k])
\* Evaluated twice: what stands between two comparisons, and what a check looks at.
Twice(p) == \/ IsChain(p) /\ \E k \in 2..(Len(p.args) - 1) : Calls(p.args[k])
            \/ mode.safe /\ p.op = "index" /\ p.args[1].name \in Arrays /\ Calls(p.args[2])
\* Written ahead of the statement though it may not be reached.
Skippable(p) == CASE p.op \in {"and", "or"} -> Tail(p.args)
                    [] p.op = "if" -> Tail(p.args)
                    [] IsChain(p)  -> SubSeq(p.args, 3, Len(p.args))
                    [] OTHER -> <<>>
Hoisted(p) == \E k \in DOMAIN Skippable(p) : Compile(Skippable(p)[k], mode).ahead # <<>>
\* Checked as integers: numbers that are not.
RealAsInteger(op, left, operands) ==
  /\ mode.safe /\ op \in Checked /\ left \in SafeTypes(mode.native)
  /\ \E e \in operands : Floating(Eval(e, setting).t)
Misread(p) ==
  /\ p.op \in {"bin", "aug"}
  /\ RealAsInteger(p.o, IF p.op = "bin" THEN TypeOf(p.args[1], mode) ELSE Names[p.name], Range(p.args))
\* Texts that are compared by what they hold, one of them None: both compilers write nr_str_eq
\* of a null pointer, unless None is on the left or the operator is "is".
ComparesNull(p) ==
  /\ p.op = "cmp" /\ Len(p.ops) = 1 /\ p.ops[1] # "is" /\ TypeOf(p.args[1], mode) = Str
  /\ \E e \in Range(p.args) : IsNull(Eval(e, setting))
AsWritten == \A p \in Parts(source) : ~SplitChain(p) /\ ~Twice(p) /\ ~Hoisted(p) /\ ~Misread(p) /\ ~ComparesNull(p)

\* What either compiler makes of an expression, with or without safety checks, has the
\* value of the expression and calls the same functions in the same order, or the C
\* compiler does not accept it.
ValueAsWritten ==
  LET meant == Meaning(source, setting)
      kept == IF source.op = "aug" THEN result.variable ELSE result.value
  IN Ran /\ AsWritten /\ meant.bad = "" /\ Accepted(result.value) =>
       kept.n = meant.n /\ result.value.calls = meant.calls /\ result.value.bad = ""

\* Operations that no check is written for: of texts, and of a pointer that the Python compiler
\* does not know, or takes for one that is never null, which it may be; the native compiler
\* writes none for i16.
Integer(t) == t \in {Int64, CInt} \/ (t = Short /\ ~mode.native)
Unchecked(p) ==
  CASE p.op = "neg"   -> TRUE
    [] Derefs(p)      -> ~mode.native /\ mode.state # "unknown"
    [] p.op = "index" -> p.args[1].name \notin Arrays
    [] p.op \in {"deref", "member"} -> p.args[1].op # "name"
    [] p.op = "bin"   -> p.o = "%" \/ ~Integer(TypeOf(p.args[1], mode))
    [] p.op = "aug"   -> p.o = "%" \/ (p.o = "//" /\ mode.native) \/ ~Integer(Names[p.name])
    [] OTHER -> FALSE

\* With safety checks, a division by zero, an overflow, an index out of bounds and a null
\* pointer stop the program, wherever they are in an expression.
FaultsStop ==
  Ran /\ mode.safe /\ Meaning(source, setting).bad # "" /\ Accepted(result.value) /\ ~(\E p \in Parts(source) : SplitChain(p) \/ Unchecked(p))
    => result.value.bad = "panic"

\* Arithmetic of f32 values is taken for arithmetic of integers.
FloatArithmetic(p) == p.op = "bin" /\ \E e \in Range(p.args) : TryInfer(e, mode.native) = Float

\* The type that is inferred for a variable holds the value it is given.
InferredTypeHolds ==
  Ran /\ source.op # "aug" /\ ~(\E p \in Parts(source) : FloatArithmetic(p)) /\ result.value.bad = "" /\ Accepted(result.variable) => result.variable.n = result.value.n

=============================================================================
