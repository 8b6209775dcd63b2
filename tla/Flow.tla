-------------------------------- MODULE Flow --------------------------------
(***************************************************************************)
(* What a compiled function does on each of its paths: the analyses that     *)
(* judge it (_own_analyze, _escape_classify and _check_leaks_func of         *)
(* compiler/compiler.py), the exits that compiler/codegen_stmts.py writes,   *)
(* and the run of the C.  One value x is followed; statements that touch     *)
(* neither it nor the control flow are left out.                             *)
(*                                                                         *)
(* A body is the list of its lines in the order of the text, with a line     *)
(* where an arm or a block ends.  The analyses and the compiler walk over it *)
(* once, a line at a time, and keep what they know in front of each line.    *)
(***************************************************************************)
EXTENDS Naturals, Sequences, FiniteSets, SequencesExt

CONSTANTS
  Functions,  \* [kind, result, body]: whether it returns a Result, and its lines
  Deferrable, \* calls that may be deferred
  MaxLoops    \* bound: turns of a loop

VARIABLES
  fun,       \* the function
  phase,     \* "own", "leaks", "compile", "run", "exit", "left", or "rejected"
  own,       \* _own_analyze: the state of x in front of each line looked at
  leak,      \* _check_leaks_func: live and freed there, and whether the path is left
  said,      \* what it has printed
  defers,    \* compile_function: defer_stack there
  pc,        \* the line the C is at
  how,       \* how the function is left
  calls,     \* calls written at the exit taken, still to make
  x,         \* "live", "freed", "moved" or "returned"; "none" if there is no x
  turns,
  due, done, \* history: deferred calls met and made, in order
  faults     \* history: what happened to a value that was gone

analysis == <<own, leak, said, defers>>
run == <<pc, how, calls, x, turns, due, done, faults>>
flowvars == <<fun, phase, analysis, run>>

-----------------------------------------------------------------------------
(* Functions.  In an "own" function x is a parameter of type own[T], in a    *)
(* "local" one its first statement makes x with list_new, in a "cleanup" one *)
(* there is no x.  Lines: use(x), free(x), take(x) for a parameter that takes *)
(* ownership, return of something else or of x, of a value computed from x,  *)
(* also as an element of a tuple without arrays, raise, defer(call).         *)

Simple == {[op |-> o] : o \in {"use", "free", "take", "return", "returnx", "returnuse", "returntuple", "raise"}}
          \cup [op : {"defer"}, call : Deferrable]
If(orelse, end) == [op |-> "if", orelse |-> orelse, end |-> end]
Else(start, end) == [op |-> "else", start |-> start, end |-> end]
Block(op, end) == [op |-> op, end |-> end]  \* while and with
End(start) == [op |-> "end", start |-> start]
Compound == {"if", "while", "with"}

\* What the parser makes of a function: arms and blocks that are closed, one inside another.
Proper(body) ==
  /\ \A p \in DOMAIN body :
       \/ body[p] \in Simple
       \/ \E e, n \in DOMAIN body :
            p + 1 < e /\ e < n /\ body[p] = If(e, n) /\ body[e] = Else(p, n) /\ body[n] = End(p)
       \/ \E o \in {"while", "with"}, n \in DOMAIN body :
            p + 1 < n /\ body[p] = Block(o, n) /\ body[n] = End(p)
       \/ \E s, n \in DOMAIN body : s < p /\ p < n /\ body[p] = Else(s, n) /\ body[s] = If(p, n)
       \/ \E s \in DOMAIN body : s < p /\ body[p] = End(s) /\ body[s].op \in Compound /\ body[s].end = p
  /\ \A p, q \in DOMAIN body :
       body[p].op \in Compound /\ body[q].op \in Compound /\ p < q /\ q < body[p].end =>
         /\ body[q].end < body[p].end
         /\ body[p].op = "if" /\ q < body[p].orelse => body[q].end < body[p].orelse

Line(p) == fun.body[p]
Size == Len(fun.body)
Opener(p) == Line(Line(p).start)  \* of the arm or block that line p ends

FreeLater == [op |-> "defer", call |-> "free x"]
Naming == {"returnx", "returnuse", "returntuple"}
Touches(s) == s.op \in {"use", "free", "take"} \cup Naming \/ s = FreeLater
Inside(q, p) == Line(p).op \in Compound /\ p < q /\ q < Line(p).end
TopLevel(q) == \A p \in 1..Size : ~Inside(q, p)

ASSUME FlowAssumption ==
  \A f \in Functions :
    /\ f.kind \in {"own", "local", "cleanup"} /\ f.result \in BOOLEAN
    /\ f.body \in Seq(ToSet(f.body)) /\ Proper(f.body)
    /\ f.kind = "cleanup" => \A p \in DOMAIN f.body : ~Touches(f.body[p])

-----------------------------------------------------------------------------
(* _own_analyze.  The body of a with is not looked at, nor that of a match.   *)

Extent(p) == p..(IF Line(p).op \in Compound THEN Line(p).end ELSE p)

\* C010 or C011: anything that names x is a use of it, in a compound statement before its
\* body is looked at.  A return of x is a move first, and then found to be a use.
OwnRefuses(p) ==
  /\ own[p] # "skipped"
  /\ Line(p).op = "returnx" \/ (own[p] \in {"moved", "freed"} /\ \E q \in Extent(p) : Touches(Line(q)))

\* Seeded bug: the second branch decides.
OwnJoinLast(s1, s2) == s2

\* After an if: the same, or the one that is not alive.
OwnJoin(s1, s2) == IF s1 # "alive" THEN s1 ELSE s2

\* The state after line p.
OwnStep(p) ==
  CASE Line(p).op = "else" -> own[Line(p).start]
    [] Line(p).op = "end" /\ Opener(p).op = "if"   -> OwnJoin(own[Opener(p).orelse], own[p])
    [] Line(p).op = "end" /\ Opener(p).op = "with" -> own[Line(p).start]
    [] Line(p).op = "with" -> "skipped"
    [] Line(p).op = "free" /\ own[p] # "skipped" -> "freed"
    [] Line(p).op = "take" /\ own[p] # "skipped" -> "moved"
    [] OTHER -> own[p]

OwnStatement ==
  /\ phase = "own" /\ Len(own) <= Size
  /\ IF OwnRefuses(Len(own)) THEN phase' = "rejected" /\ UNCHANGED own
     ELSE own' = Append(own, OwnStep(Len(own))) /\ UNCHANGED phase
  /\ UNCHANGED <<fun, leak, said, defers, run>>

\* C012: x is neither freed nor moved.
OwnEnd ==
  /\ phase = "own" /\ Len(own) > Size
  /\ phase' = IF own[Len(own)] = "alive" THEN "rejected" ELSE "compile"
  /\ UNCHANGED <<fun, analysis, run>>

-----------------------------------------------------------------------------
(* _escape_classify and _check_leaks_func.                                   *)

\* Seeded bug: what is passed on is not taken for consumed.
ClassifyFrees(body) ==
  IF \E s \in ToSet(body) : s.op = "returnx" THEN "escaping"
  ELSE IF \E s \in ToSet(body) : s.op = "free" \/ s = FreeLater THEN "consumed" ELSE "local_only"

Classify(body) ==
  IF \E s \in ToSet(body) : s.op = "returnx" THEN "escaping"
  ELSE IF \E s \in ToSet(body) : s.op \in {"free", "take"} \/ s = FreeLater THEN "consumed" ELSE "local_only"

\* Seeded bug: what is live on one branch only is forgotten.
LeakJoinBoth(a, b) ==
  IF a.out THEN b ELSE IF b.out THEN a
  ELSE [live |-> a.live /\ b.live, freed |-> a.freed \/ b.freed, out |-> FALSE]

\* Two branches that meet; one that is left does not count.
LeakJoin(a, b) ==
  IF a.out THEN b ELSE IF b.out THEN a
  ELSE [live |-> a.live \/ b.live, freed |-> a.freed \/ b.freed, out |-> FALSE]

Seen(becomes, says) == [becomes |-> becomes, says |-> says]

\* Seeded bug: what is freed may be freed again.
DischargeFree(op, r) == Seen([r EXCEPT !.live = FALSE], {})

\* A call that x is passed to.
Discharge(op, r) ==
  CASE op = "free" /\ ~r.freed -> Seen([r EXCEPT !.live = FALSE, !.freed = TRUE], {})
    [] op = "free" /\ r.freed  -> Seen(r, {"double free"})
    [] op = "take" /\ ~r.freed -> Seen([r EXCEPT !.live = FALSE], {})
    [] OTHER                   -> Seen(r, IF r.freed THEN {"use after free"} ELSE {})

\* A return or raise: x is left behind unless it is what is returned.
LeakExit(op, r) ==
  Seen([r EXCEPT !.out = TRUE],
       (IF op \in Naming /\ r.freed THEN {"use after free"} ELSE {})
       \cup (IF op # "returnx" /\ r.live THEN {"leak"} ELSE {}))

\* Line p.  What follows an exit in its arm or block is not looked at, and a loop leaves
\* things as they were.
LeakStep(p) ==
  LET op == Line(p).op
      r  == leak[p]
  IN CASE op = "else" -> Seen(leak[Line(p).start], {})
       [] op = "end" /\ Opener(p).op = "if"    -> Seen(LeakJoin(leak[Opener(p).orelse], r), {})
       [] op = "end" /\ Opener(p).op = "while" -> Seen(leak[Line(p).start], {})
       [] op = "end" /\ Opener(p).op = "with"  -> Seen(IF r.out THEN leak[Line(p).start] ELSE r, {})
       [] op \in {"use", "free", "take"} /\ ~r.out         -> Discharge(op, r)
       [] op \in {"return", "raise"} \cup Naming /\ ~r.out -> LeakExit(op, r)
       [] OTHER -> Seen(r, {})

LeakStatement ==
  /\ phase = "leaks" /\ Len(leak) <= Size
  /\ leak' = Append(leak, LeakStep(Len(leak)).becomes) /\ said' = said \cup LeakStep(Len(leak)).says
  /\ UNCHANGED <<fun, phase, own, defers, run>>

LeakEnd ==
  /\ phase = "leaks" /\ Len(leak) > Size /\ phase' = "compile"
  /\ said' = said \cup (IF leak[Len(leak)].live /\ ~leak[Len(leak)].out THEN {"leak"} ELSE {})
  /\ UNCHANGED <<fun, own, leak, defers, run>>

-----------------------------------------------------------------------------
(* The C that is made: lines of the same form, with the calls deferred so    *)
(* far written out at every exit.                                            *)

\* compile_ann_assign: a local x that is neither freed, given away nor returned is freed as
\* if that had been deferred where it is made.
AutoFree(f) == IF f.kind = "local" /\ Classify(f.body) = "local_only" THEN <<"free x">> ELSE <<>>

\* compile_stmt, with one defer_stack for the function, in the order of the text.
CompileStatement ==
  /\ phase = "compile" /\ Len(defers) <= Size
  /\ defers' = LET p == Len(defers)
               IN Append(defers, IF Line(p).op = "defer" THEN Append(defers[p], Line(p).call) ELSE defers[p])
  /\ UNCHANGED <<fun, phase, own, leak, said, run>>

CompileEnd ==
  /\ phase = "compile" /\ Len(defers) > Size /\ phase' = "run"
  /\ UNCHANGED <<fun, analysis, run>>

\* Seeded bug: the calls are made in the order they were deferred in.
CleanupInOrder(p) == defers[p]

\* What an exit at line p calls.
Cleanup(p) == Reverse(defers[p])

\* _is_cold_stmts, for an arm without calls of cold functions.
Cold(first, last) == first <= last /\ \A p \in first..last : Line(p).op \in {"raise", "if", "else", "end"}

\* Lines of the arm of a top-level if that becomes a function of its own.
Split(p) ==
  LET e == Line(p).orelse
      n == Line(p).end
      elif == Line(e + 1).op = "if" /\ Line(e + 1).end = n - 1
  IN CASE Cold(p + 1, e - 1) -> (p + 1)..(e - 1)
       [] ~Cold(p + 1, e - 1) /\ Cold(e + 1, n - 1) /\ ~elif -> (e + 1)..(n - 1)
       [] OTHER -> {}

\* compile_raise: in a function that returns a Result, and in any other.  A function that
\* was split off returns void.
Raised(p) ==
  IF fun.result /\ ~\E q \in 1..Size : Line(q).op = "if" /\ TopLevel(q) /\ p \in Split(q) THEN "error" ELSE "abort"

-----------------------------------------------------------------------------
(* A call of the function.                                                   *)

FlowInit ==
  /\ fun \in Functions
  /\ phase = (CASE fun.kind = "own" -> "own"
                [] fun.kind = "local" /\ Classify(fun.body) = "consumed" -> "leaks"
                [] OTHER -> "compile")
  /\ own = <<"alive">> /\ leak = << [live |-> TRUE, freed |-> FALSE, out |-> FALSE] >> /\ said = {}
  /\ defers = <<AutoFree(fun)>>
  /\ pc = 1 /\ how = "none" /\ calls = <<>> /\ turns = 0 /\ due = AutoFree(fun) /\ done = <<>> /\ faults = {}
  /\ x = IF fun.kind = "cleanup" THEN "none" ELSE "live"

At(op) == phase = "run" /\ pc <= Size /\ Line(pc).op = op
Go(p) == pc' = p

Touch(by, becomes) ==
  /\ x' = becomes
  /\ faults' = IF x = "live" THEN faults ELSE faults \cup {<<by, x>>}

Exit(why, written) == phase' = "exit" /\ how' = why /\ calls' = written

Passing == UNCHANGED <<fun, phase, analysis, how, calls, turns, due, done>>

Use == At("use") /\ Touch("use", x) /\ Go(pc + 1) /\ Passing
Free == At("free") /\ Touch("free", "freed") /\ Go(pc + 1) /\ Passing
Take == At("take") /\ Touch("take", "moved") /\ Go(pc + 1) /\ Passing

\* The statement itself only registers the call.
MeetDefer ==
  /\ At("defer") /\ due' = Append(due, Line(pc).call) /\ Go(pc + 1)
  /\ UNCHANGED <<fun, phase, analysis, how, calls, x, turns, done, faults>>

Branch == At("if") /\ (Go(pc + 1) \/ Go(Line(pc).orelse + 1)) /\ Passing /\ UNCHANGED <<x, faults>>
SkipElse == At("else") /\ Go(Line(pc).end + 1) /\ Passing /\ UNCHANGED <<x, faults>>
EndBlock ==
  At("end") /\ Go(IF Opener(pc).op = "while" THEN Line(pc).start ELSE pc + 1) /\ Passing /\ UNCHANGED <<x, faults>>
EnterWith == At("with") /\ Go(pc + 1) /\ Passing /\ UNCHANGED <<x, faults>>

While ==
  /\ At("while")
  /\ \/ Go(Line(pc).end + 1) /\ UNCHANGED turns
     \/ turns < MaxLoops /\ turns' = turns + 1 /\ Go(pc + 1)
  /\ UNCHANGED <<fun, phase, analysis, how, calls, x, due, done, faults>>

\* compile_return: a value is kept before the deferred calls are made, unless it is a
\* tuple: its elements are written behind them.
Return ==
  /\ \/ (At("return") \/ At("returntuple")) /\ UNCHANGED <<x, faults>>
     \/ At("returnuse") /\ Touch("returnuse", x)
     \/ At("returnx") /\ Touch("returnx", "returned")
  /\ Exit("return", Cleanup(pc)) /\ UNCHANGED <<fun, analysis, pc, turns, due, done>>

Raise ==
  /\ At("raise") /\ Exit(Raised(pc), <<>>)
  /\ UNCHANGED <<fun, analysis, pc, x, turns, due, done, faults>>

\* The end of the function is one more exit.
FallOff ==
  /\ phase = "run" /\ pc > Size /\ Exit("end", Cleanup(pc))
  /\ UNCHANGED <<fun, analysis, pc, x, turns, due, done, faults>>

MakeCall ==
  /\ phase = "exit" /\ calls # <<>> /\ done' = Append(done, Head(calls)) /\ calls' = Tail(calls)
  /\ IF Head(calls) = "free x" THEN Touch("free x", "freed") ELSE UNCHANGED <<x, faults>>
  /\ UNCHANGED <<fun, phase, analysis, pc, how, turns, due>>

Leave ==
  /\ phase = "exit" /\ calls = <<>> /\ phase' = "left"
  /\ IF pc <= Size /\ Line(pc).op = "returntuple" THEN Touch("returntuple", x) ELSE UNCHANGED <<x, faults>>
  /\ UNCHANGED <<fun, analysis, pc, how, calls, turns, due, done>>

Stopped == phase \in {"left", "rejected"} /\ UNCHANGED flowvars

FlowNext ==
  \/ OwnStatement \/ OwnEnd \/ LeakStatement \/ LeakEnd \/ CompileStatement \/ CompileEnd
  \/ Use \/ Free \/ Take \/ MeetDefer \/ Branch \/ SkipElse \/ EndBlock \/ EnterWith \/ While
  \/ Return \/ Raise \/ FallOff \/ MakeCall \/ Leave \/ Stopped

FlowSpec == FlowInit /\ [][FlowNext]_flowvars

-----------------------------------------------------------------------------
(* Properties.                                                               *)

\* Every statement of the body is looked at by the analyses as often as it can run, and
\* when it runs: they do not know what a deferred call does.
NoLoops == \A p \in 1..Size : Line(p).op \notin {"while", "with"}
Straight == NoLoops /\ \A p \in 1..Size : Line(p) # FreeLater

\* A function _own_analyze accepts never touches a value that was freed or given away
\* (docs/language.md:515), whatever branches are taken, if it has no loop or with and
\* does not defer to free the value.
NoUseAfterMove == fun.kind = "own" /\ Straight => faults = {}

\* A path of a function without loops that is left with x neither freed, given away nor
\* returned has been warned about (compiler.py:1385, "Path-sensitive"), if x is followed.
Followed == fun.kind = "local" /\ Classify(fun.body) = "consumed"
LeaksReported ==
  Followed /\ NoLoops /\ phase = "left" /\ x = "live" => "leak" \in said

\* So has one that frees x twice or touches it once it is freed.
FaultsReported ==
  Followed /\ Straight /\ (\E f \in faults : f[2] = "freed") => said \cap {"double free", "use after free"} # {}

\* What the compiler frees by itself is freed once, on every path the function returns on,
\* loops or not (docs/language.md:511), and nothing touches it afterwards but the elements
\* of a tuple that is returned.
FreedByItself ==
  fun.kind = "local" /\ Classify(fun.body) = "local_only" =>
    /\ faults \subseteq {<<"returntuple", "freed">>}
    /\ phase = "left" /\ how \in {"return", "end"} => x = "freed"

Shallow == \A p \in 1..Size : Line(p).op = "defer" => TopLevel(p)

\* "runs a cleanup call at the end of the enclosing function, in reverse order, even on
\* early return" (docs/language.md:498): each call deferred so far, once, also those the
\* compiler defers, if the defer statements are in no block and the function returns.
DeferredCallsRun == Shallow /\ phase = "left" /\ how \in {"return", "end"} => done = Reverse(due)

\* "raise "message" - return Err(...) from a Result-returning function"
\* (docs/language.md:323).
RaiseReturnsError == fun.result => how # "abort"
=============================================================================
