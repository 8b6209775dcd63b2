----------------------------- MODULE FlowProofs -----------------------------
(***************************************************************************)
(* Proofs about Flow: functions of any length, with arms and blocks of any   *)
(* depth, and any number of turns of a loop.                                *)
(***************************************************************************)
EXTENDS Flow, TLAPS

(***************************************************************************)
(* Lines.                                                                   *)
(***************************************************************************)

\* What is known of the line p by what it is.
LineOK(p) ==
  /\ Line(p).op = "if" =>
       /\ Line(p).orelse \in (p + 2)..Size /\ Line(p).end \in (Line(p).orelse + 1)..Size
       /\ Line(Line(p).orelse) = Else(p, Line(p).end) /\ Line(Line(p).end) = End(p)
  /\ Line(p).op \in {"while", "with"} => Line(p).end \in (p + 2)..Size /\ Line(Line(p).end) = End(p)
  /\ Line(p).op = "else" =>
       /\ Line(p).start \in 1..(p - 1) /\ Line(p).end \in (p + 1)..Size
       /\ Line(Line(p).start) = If(p, Line(p).end)
  /\ Line(p).op = "end" =>
       /\ Line(p).start \in 1..(p - 1)
       /\ Opener(p).op \in Compound /\ Opener(p).end = p
  /\ Line(p).op \in {"use", "free", "take", "return", "raise", "defer", "else", "end"} \cup Naming \cup Compound

\* The lines of a function are as the parser makes them.
LEMMA Lines ==
  ASSUME fun \in Functions
  PROVE  /\ Size \in Nat /\ DOMAIN fun.body = 1..Size
         /\ fun.kind \in {"own", "local", "cleanup"} /\ fun.result \in BOOLEAN
         /\ \A p \in 1..Size : LineOK(p)
<1>1. fun.body \in Seq(ToSet(fun.body)) /\ Proper(fun.body)
      /\ fun.kind \in {"own", "local", "cleanup"} /\ fun.result \in BOOLEAN
  BY FlowAssumption
<1>2. Size \in Nat /\ DOMAIN fun.body = 1..Size
  BY <1>1 DEF Size
<1>3. ASSUME NEW p \in 1..Size PROVE LineOK(p)
  <2>1. CASE fun.body[p] \in Simple
    <3>1. Line(p).op \in {"use", "free", "take", "return", "raise", "defer"} \cup Naming
      BY <2>1 DEF Line, Simple, Naming
    <3> QED
      BY <3>1 DEF LineOK, Naming, Compound
  <2>2. CASE \E e, n \in DOMAIN fun.body :
               p + 1 < e /\ e < n /\ fun.body[p] = If(e, n) /\ fun.body[e] = Else(p, n) /\ fun.body[n] = End(p)
    BY <1>2, <2>2 DEF LineOK, Line, If, Compound
  <2>3. CASE \E o \in {"while", "with"}, n \in DOMAIN fun.body :
               p + 1 < n /\ fun.body[p] = Block(o, n) /\ fun.body[n] = End(p)
    BY <1>2, <2>3 DEF LineOK, Line, Block, Compound
  <2>4. CASE \E s, n \in DOMAIN fun.body :
               s < p /\ p < n /\ fun.body[p] = Else(s, n) /\ fun.body[s] = If(p, n)
    BY <1>2, <2>4 DEF LineOK, Line, Else, If
  <2>5. CASE \E s \in DOMAIN fun.body :
               s < p /\ fun.body[p] = End(s) /\ fun.body[s].op \in Compound /\ fun.body[s].end = p
    BY <1>2, <2>5 DEF LineOK, Line, End, Opener
  <2> QED
    BY <1>1, <1>2, <2>1, <2>2, <2>3, <2>4, <2>5 DEF Proper
<1> QED
  BY <1>1, <1>2, <1>3

\* Only a defer statement has a call, and it is one that may be deferred.
LEMMA DeferLine ==
  ASSUME fun \in Functions, NEW p \in 1..Size, Line(p).op = "defer"
  PROVE  Line(p).call \in Deferrable /\ (Line(p).call = "free x" => Line(p) = FreeLater)
<1>1. Proper(fun.body) /\ DOMAIN fun.body = 1..Size
  BY FlowAssumption, Lines
<1>2. ASSUME NEW b \in {If(e, n) : e, n \in DOMAIN fun.body} \cup {Else(s, n) : s, n \in DOMAIN fun.body}
                       \cup {Block(o, n) : o \in {"while", "with"}, n \in DOMAIN fun.body}
                       \cup {End(s) : s \in DOMAIN fun.body}
      PROVE  b.op # "defer"
  BY <1>2 DEF If, Else, Block, End
<1>3. fun.body[p] \in Simple
  BY <1>1, <1>2 DEF Proper, Line
<1>4. fun.body[p] \in [op : {"defer"}, call : Deferrable]
  BY <1>3 DEF Simple, Line
<1> QED
  BY <1>4 DEF Line, FreeLater

\* The end of an if is that of both its arms.
LEMMA EndOfIf ==
  ASSUME fun \in Functions, NEW p \in 1..Size, Line(p).op = "end", Opener(p).op = "if"
  PROVE  Opener(p).orelse \in 1..(p - 1) /\ Line(Opener(p).orelse) = Else(Line(p).start, p)
<1>1. LineOK(p) /\ Size \in Nat
  BY Lines
<1>2. Line(p).start \in 1..Size /\ Opener(p).end = p
  BY <1>1 DEF LineOK
<1>3. LineOK(Line(p).start)
  BY <1>2, Lines
<1> QED
  BY <1>1, <1>2, <1>3 DEF LineOK, Opener

(***************************************************************************)
(* The analyses and the compiler, line by line.                             *)
(***************************************************************************)

OwnStates == {"alive", "moved", "freed", "skipped"}
LeakStates == [live : BOOLEAN, freed : BOOLEAN, out : BOOLEAN]

\* What _own_analyze knows in front of each line follows from the lines before.
OwnOK ==
  /\ own \in Seq(OwnStates) /\ Len(own) \in 1..(Size + 1) /\ own[1] = "alive"
  /\ \A p \in 1..(Len(own) - 1) : ~OwnRefuses(p) /\ own[p + 1] = OwnStep(p)
  /\ NoLoops => \A p \in 1..Len(own) : own[p] # "skipped"
  /\ fun.kind = "own" /\ phase \notin {"own", "rejected"} => Len(own) = Size + 1

\* So does what _check_leaks_func knows, and it has said all there was to say.
LeakOK ==
  /\ leak \in Seq(LeakStates) /\ Len(leak) \in 1..(Size + 1) /\ leak[1] = [live |-> TRUE, freed |-> FALSE, out |-> FALSE]
  /\ \A p \in 1..(Len(leak) - 1) : leak[p + 1] = LeakStep(p).becomes /\ LeakStep(p).says \subseteq said
  /\ Followed /\ phase \notin {"own", "leaks", "rejected"} =>
       /\ Len(leak) = Size + 1
       /\ leak[Size + 1].live /\ ~leak[Size + 1].out => "leak" \in said

DefersAfter(p) == IF Line(p).op = "defer" THEN Append(defers[p], Line(p).call) ELSE defers[p]
Call == Deferrable \cup {"free x"}
Stacks == Seq(Call)
FreesItself == fun.kind = "local" /\ Classify(fun.body) = "local_only"
NotFreedFrom(s, first) == \A i \in first..Len(s) : s[i] # "free x"
FreedFirst(s) == Len(s) >= 1 /\ s[1] = "free x" /\ NotFreedFrom(s, 2)

\* defer_stack holds what was deferred in the lines before: x is not freed, or only by the
\* first of the calls, and an arm or block has none of its own.
DefersType == defers \in Seq(Stacks) /\ Len(defers) \in 1..(Size + 1) /\ defers[1] = AutoFree(fun)
DefersFollow == \A p \in 1..(Len(defers) - 1) : defers[p + 1] = DefersAfter(p)
NeverFrees == Straight /\ ~FreesItself => \A p \in 1..Len(defers) : NotFreedFrom(defers[p], 1)
FreesLast ==
  FreesItself => \A p \in 1..Len(defers) : FreedFirst(defers[p])
NoneInside ==
  Shallow => \A q \in 1..Size, p \in 1..Len(defers) :
               Line(q).op \in Compound /\ q < p /\ p <= Line(q).end + 1 => defers[p] = defers[q]
DefersOK ==
  /\ DefersType /\ DefersFollow /\ NeverFrees /\ FreesLast /\ NoneInside
  /\ phase \in {"run", "exit", "left"} => Len(defers) = Size + 1

\* No C is run before it is made.
NotRun ==
  /\ pc = 1 /\ how = "none" /\ calls = <<>> /\ due = AutoFree(fun) /\ done = <<>> /\ faults = {}
  /\ x = IF fun.kind = "cleanup" THEN "none" ELSE "live"

Made ==
  /\ fun \in Functions
  /\ phase \in {"own", "leaks", "compile", "run", "exit", "left", "rejected"}
  /\ phase = "own" => fun.kind = "own"
  /\ phase = "leaks" => Followed
  /\ phase \in {"own", "leaks", "compile", "rejected"} => NotRun
  /\ OwnOK /\ LeakOK /\ DefersOK

\* What is said of a function stays so: it does not change.
LEMMA SameFunction ==
  ASSUME fun' = fun
  PROVE  /\ Size' = Size /\ (\A p : Line(p)' = Line(p)) /\ (\A p : Opener(p)' = Opener(p))
         /\ (NoLoops' <=> NoLoops) /\ (Straight' <=> Straight) /\ (Shallow' <=> Shallow)
         /\ (Followed' <=> Followed) /\ (FreesItself' <=> FreesItself)
<1>1. Size' = Size /\ \A p : Line(p)' = Line(p)
  BY DEF Size, Line
<1>2. \A p : Opener(p)' = Opener(p)
  BY <1>1 DEF Opener
<1>3. (NoLoops' <=> NoLoops) /\ (Straight' <=> Straight)
  BY <1>1 DEF NoLoops, Straight
<1>4. \A p, q : Inside(q, p)' <=> Inside(q, p)
  BY <1>1 DEF Inside
<1>5. \A q : TopLevel(q)' <=> TopLevel(q)
  BY <1>1, <1>4 DEF TopLevel
<1>6. Shallow' <=> Shallow
  BY <1>1, <1>5 DEF Shallow
<1>7. (Followed' <=> Followed) /\ (FreesItself' <=> FreesItself)
  BY DEF Followed, FreesItself
<1> QED
  BY <1>1, <1>2, <1>3, <1>6, <1>7

\* A longer list is the same at the places it had.
LEMMA Longer ==
  ASSUME NEW S, NEW s \in Seq(S), NEW e \in S
  PROVE  /\ Append(s, e) \in Seq(S) /\ Len(Append(s, e)) = Len(s) + 1 /\ Append(s, e)[Len(s) + 1] = e
         /\ \A i \in 1..Len(s) : Append(s, e)[i] = s[i]
OBVIOUS

\* A state follows from those in front of it alone.
LEMMA OwnLocal ==
  ASSUME fun \in Functions, fun' = fun, NEW p \in 1..Size, \A i \in 1..p : own'[i] = own[i]
  PROVE  (OwnRefuses(p)' <=> OwnRefuses(p)) /\ OwnStep(p)' = OwnStep(p)
<1>1. LineOK(p) /\ Size \in Nat
  BY Lines
<1>2. Line(p).op = "end" /\ Opener(p).op = "if" => Opener(p).orelse \in 1..(p - 1)
  BY EndOfIf
<1>3. \A q : Line(q)' = Line(q)
  BY DEF Line
<1>4. Opener(p)' = Opener(p)
  BY <1>3 DEF Opener
<1>5. Extent(p)' = Extent(p)
  BY <1>3 DEF Extent
<1>6. OwnRefuses(p)' <=> OwnRefuses(p)
  BY <1>3, <1>5 DEF OwnRefuses
<1>7. OwnStep(p)' = OwnStep(p)
  BY <1>1, <1>2, <1>3, <1>4 DEF OwnStep, LineOK
<1> QED
  BY <1>6, <1>7

\* A state of _own_analyze is followed by one.
LEMMA OwnStepType ==
  ASSUME fun \in Functions, own \in Seq(OwnStates), NEW p \in 1..Size, p <= Len(own)
  PROVE  OwnStep(p) \in OwnStates
<1>1. LineOK(p) /\ Size \in Nat
  BY Lines
<1>2. Line(p).op = "end" /\ Opener(p).op = "if" => Opener(p).orelse \in 1..(p - 1)
  BY EndOfIf
<1>3. \A i \in 1..p : own[i] \in OwnStates
  OBVIOUS
<1> QED
  BY <1>1, <1>2, <1>3 DEF OwnStep, OwnJoin, OwnStates, LineOK

\* A state of _check_leaks_func follows from those in front of it alone.
LEMMA LeakLocal ==
  ASSUME fun \in Functions, fun' = fun, NEW p \in 1..Size, \A i \in 1..p : leak'[i] = leak[i]
  PROVE  LeakStep(p)' = LeakStep(p)
<1>1. LineOK(p) /\ Size \in Nat
  BY Lines
<1>2. Line(p).op = "end" /\ Opener(p).op = "if" => Opener(p).orelse \in 1..(p - 1)
  BY EndOfIf
<1>3. Line(p)' = Line(p) /\ Opener(p)' = Opener(p)
  BY SameFunction
<1>4. leak[p]' = leak[p]
  BY <1>1
<1>5. Line(p).op \in {"else", "end"} => leak[Line(p).start]' = leak[Line(p).start]
  BY <1>1, <1>3 DEF LineOK
<1>6. Line(p).op = "end" /\ Opener(p).op = "if" => leak[Opener(p).orelse]' = leak[Opener(p).orelse]
  BY <1>1, <1>2, <1>3
<1> QED
  BY <1>3, <1>4, <1>5, <1>6 DEF LeakStep

\* A state of _check_leaks_func is followed by one.
LEMMA LeakStepType ==
  ASSUME fun \in Functions, leak \in Seq(LeakStates), NEW p \in 1..Size, p <= Len(leak)
  PROVE  LeakStep(p).becomes \in LeakStates
<1>1. LineOK(p) /\ Size \in Nat
  BY Lines
<1>2. Line(p).op = "end" /\ Opener(p).op = "if" => Opener(p).orelse \in 1..(p - 1)
  BY EndOfIf
<1>3. \A i \in 1..p : leak[i] \in LeakStates
  OBVIOUS
<1>4. \A a, b \in LeakStates : LeakJoin(a, b) \in LeakStates
  BY DEF LeakJoin, LeakStates
<1>5. \A op, r : r \in LeakStates => Discharge(op, r).becomes \in LeakStates
  BY DEF Discharge, Seen, LeakStates
<1>6. \A op, r : r \in LeakStates => LeakExit(op, r).becomes \in LeakStates
  BY DEF LeakExit, Seen, LeakStates
<1>7. Line(p).op \in {"else", "end"} => leak[Line(p).start] \in LeakStates
  BY <1>1, <1>3 DEF LineOK
<1>8. Line(p).op = "end" /\ Opener(p).op = "if" => LeakJoin(leak[Opener(p).orelse], leak[p]) \in LeakStates
  BY <1>1, <1>2, <1>3, <1>4
<1>9. leak[p] \in LeakStates
  BY <1>3
<1> QED
  BY <1>5, <1>6, <1>7, <1>8, <1>9 DEF LeakStep, Seen

\* What the analyses and the compiler made is kept by what does not touch it.
LEMMA OwnKept ==
  ASSUME OwnOK, UNCHANGED <<fun, own>>, fun.kind = "own" /\ phase' \notin {"own", "rejected"} => Len(own) = Size + 1
  PROVE  OwnOK'
<1>1. Size' = Size /\ (NoLoops' <=> NoLoops)
  BY SameFunction
<1>2. \A p : (OwnRefuses(p)' <=> OwnRefuses(p)) /\ OwnStep(p)' = OwnStep(p)
  BY SameFunction DEF OwnRefuses, OwnStep, Extent
<1> QED
  BY <1>1, <1>2 DEF OwnOK

\* Nor does anything else touch what _check_leaks_func keeps.
LEMMA LeakKept ==
  ASSUME LeakOK, UNCHANGED <<fun, leak>>, said \subseteq said',
         Followed /\ phase' \notin {"own", "leaks", "rejected"} =>
           Len(leak) = Size + 1 /\ (leak[Size + 1].live /\ ~leak[Size + 1].out => "leak" \in said')
  PROVE  LeakOK'
<1>1. Size' = Size /\ (Followed' <=> Followed)
  BY SameFunction
<1>2. \A p : LeakStep(p)' = LeakStep(p)
  BY SameFunction DEF LeakStep
<1> QED
  BY <1>1, <1>2 DEF LeakOK

\* Nor defer_stack.
LEMMA DefersKept ==
  ASSUME DefersOK, UNCHANGED <<fun, defers>>, phase' \in {"run", "exit", "left"} => Len(defers) = Size + 1
  PROVE  DefersOK'
<1>1. Size' = Size /\ (Straight' <=> Straight) /\ (Shallow' <=> Shallow) /\ (FreesItself' <=> FreesItself)
      /\ (\A p : Line(p)' = Line(p))
  BY SameFunction
<1>2. \A p : DefersAfter(p)' = DefersAfter(p)
  BY <1>1 DEF DefersAfter
<1> QED
  BY <1>1, <1>2 DEF DefersOK, DefersType, DefersFollow, NeverFrees, FreesLast, NoneInside, FreedFirst, NotFreedFrom

\* The C has not begun before and has not begun after.
LEMMA NotRunKept ==
  ASSUME NotRun, UNCHANGED <<fun, run>> PROVE NotRun'
BY DEF NotRun, run

\* A line that _own_analyze looks at: its list is one longer, and still follows.
LEMMA OwnStatementKeeps ==
  ASSUME Made, OwnStatement PROVE Made'
<1>0. /\ fun \in Functions /\ phase = "own" /\ fun.kind = "own" /\ OwnOK /\ LeakOK /\ DefersOK /\ NotRun
      /\ UNCHANGED <<fun, leak, said, defers, run>> /\ Len(own) <= Size /\ phase' \in {"own", "rejected"}
  BY DEF Made, OwnStatement
<1>1. Size \in Nat /\ Len(own) \in 1..Size /\ own \in Seq(OwnStates)
  BY <1>0, Lines DEF OwnOK
<1>2. LeakOK' /\ DefersOK' /\ NotRun'
  BY <1>0, LeakKept, DefersKept, NotRunKept
<1>3. CASE OwnRefuses(Len(own))
  <2>1. phase' = "rejected" /\ UNCHANGED own
    BY <1>3 DEF OwnStatement
  <2>2. OwnOK'
    BY <1>0, <2>1, OwnKept
  <2> QED
    BY <1>0, <1>2, <2>1, <2>2 DEF Made
<1>4. CASE ~OwnRefuses(Len(own))
  <2>1. own' = Append(own, OwnStep(Len(own))) /\ phase' = phase
    BY <1>4 DEF OwnStatement
  <2>2. OwnStep(Len(own)) \in OwnStates
    BY <1>0, <1>1, OwnStepType
  <2>3. /\ own' \in Seq(OwnStates) /\ Len(own') = Len(own) + 1 /\ own'[Len(own) + 1] = OwnStep(Len(own))
        /\ \A i \in 1..Len(own) : own'[i] = own[i]
    BY <1>1, <2>1, <2>2, Longer
  <2>4. ASSUME NEW p \in 1..Len(own) PROVE ~OwnRefuses(p)' /\ own'[p + 1] = OwnStep(p)'
    <3>1. (OwnRefuses(p)' <=> OwnRefuses(p)) /\ OwnStep(p)' = OwnStep(p)
      BY <1>0, <1>1, <2>3, OwnLocal
    <3>2. CASE p = Len(own)
      BY <1>4, <2>3, <3>1, <3>2
    <3>3. CASE p # Len(own)
      <4>1. p \in 1..(Len(own) - 1) /\ p + 1 \in 1..Len(own)
        BY <1>1, <3>3
      <4> QED
        BY <1>0, <2>3, <3>1, <4>1 DEF OwnOK
    <3> QED
      BY <3>2, <3>3
  <2>5. Size' = Size /\ (NoLoops' <=> NoLoops)
    BY <1>0, SameFunction
  <2>6. ASSUME NoLoops PROVE OwnStep(Len(own)) # "skipped"
    <3>1. LineOK(Len(own)) /\ Line(Len(own)).op # "with"
      BY <1>0, <1>1, <2>6, Lines DEF NoLoops
    <3>2. \A i \in 1..Len(own) : own[i] # "skipped"
      BY <1>0, <2>6 DEF OwnOK
    <3>3. Line(Len(own)).op = "end" /\ Opener(Len(own)).op = "if" => Opener(Len(own)).orelse \in 1..(Len(own) - 1)
      BY <1>0, <1>1, EndOfIf
    <3> QED
      BY <1>1, <3>1, <3>2, <3>3 DEF OwnStep, OwnJoin, LineOK
  <2>7. OwnOK'
    BY <1>0, <1>1, <2>1, <2>3, <2>4, <2>5, <2>6 DEF OwnOK
  <2> QED
    BY <1>0, <1>2, <2>1, <2>7 DEF Made
<1> QED
  BY <1>3, <1>4

\* _own_analyze ends.
LEMMA OwnEndKeeps ==
  ASSUME Made, OwnEnd PROVE Made'
<1>0. /\ fun \in Functions /\ phase = "own" /\ fun.kind = "own" /\ OwnOK /\ LeakOK /\ DefersOK /\ NotRun
      /\ UNCHANGED <<fun, own, leak, said, defers, run>> /\ Len(own) > Size /\ phase' \in {"compile", "rejected"}
  BY DEF Made, OwnEnd, analysis
<1>1. Size \in Nat /\ Len(own) = Size + 1
  BY <1>0, Lines DEF OwnOK
<1>2. ~Followed
  BY <1>0 DEF Followed
<1>3. OwnOK' /\ LeakOK' /\ DefersOK' /\ NotRun'
  BY <1>0, <1>1, <1>2, OwnKept, LeakKept, DefersKept, NotRunKept
<1> QED
  BY <1>0, <1>3 DEF Made

\* A line that _check_leaks_func looks at.
LEMMA LeakStatementKeeps ==
  ASSUME Made, LeakStatement PROVE Made'
<1>0. /\ fun \in Functions /\ phase = "leaks" /\ Followed /\ OwnOK /\ LeakOK /\ DefersOK /\ NotRun
      /\ UNCHANGED <<fun, phase, own, defers, run>> /\ Len(leak) <= Size
      /\ leak' = Append(leak, LeakStep(Len(leak)).becomes) /\ said' = said \cup LeakStep(Len(leak)).says
  BY DEF Made, LeakStatement
<1>1. Size \in Nat /\ Len(leak) \in 1..Size /\ leak \in Seq(LeakStates) /\ fun.kind # "own"
  BY <1>0, Lines DEF LeakOK, Followed
<1>2. OwnOK' /\ DefersOK' /\ NotRun' /\ Followed'
  BY <1>0, <1>1, OwnKept, DefersKept, NotRunKept, SameFunction
<1>3. LeakStep(Len(leak)).becomes \in LeakStates
  BY <1>0, <1>1, LeakStepType
<1>4. /\ leak' \in Seq(LeakStates) /\ Len(leak') = Len(leak) + 1 /\ leak'[Len(leak) + 1] = LeakStep(Len(leak)).becomes
      /\ \A i \in 1..Len(leak) : leak'[i] = leak[i]
  BY <1>0, <1>1, <1>3, Longer
<1>5. ASSUME NEW p \in 1..Len(leak) PROVE leak'[p + 1] = LeakStep(p)'.becomes /\ LeakStep(p)'.says \subseteq said'
  <2>1. LeakStep(p)' = LeakStep(p)
    BY <1>0, <1>1, <1>4, LeakLocal
  <2>2. CASE p = Len(leak)
    BY <1>0, <1>4, <2>1, <2>2
  <2>3. CASE p # Len(leak)
    <3>1. p \in 1..(Len(leak) - 1) /\ p + 1 \in 1..Len(leak)
      BY <1>1, <2>3
    <3> QED
      BY <1>0, <1>4, <2>1, <3>1 DEF LeakOK
  <2> QED
    BY <2>2, <2>3
<1>6. LeakOK'
  <2>1. Size' = Size
    BY <1>0, SameFunction
  <2> QED
    BY <1>0, <1>1, <1>4, <1>5, <2>1 DEF LeakOK
<1> QED
  BY <1>0, <1>2, <1>6 DEF Made

\* _check_leaks_func ends.
LEMMA LeakEndKeeps ==
  ASSUME Made, LeakEnd PROVE Made'
<1>0. /\ fun \in Functions /\ phase = "leaks" /\ Followed /\ OwnOK /\ LeakOK /\ DefersOK /\ NotRun
      /\ UNCHANGED <<fun, own, leak, defers, run>> /\ Len(leak) > Size /\ phase' = "compile"
      /\ said' = said \cup (IF leak[Len(leak)].live /\ ~leak[Len(leak)].out THEN {"leak"} ELSE {})
  BY DEF Made, LeakEnd
<1>1. Size \in Nat /\ Len(leak) = Size + 1 /\ fun.kind # "own"
  BY <1>0, Lines DEF LeakOK, Followed
<1>2. OwnOK' /\ LeakOK' /\ DefersOK' /\ NotRun'
  BY <1>0, <1>1, OwnKept, LeakKept, DefersKept, NotRunKept
<1> QED
  BY <1>0, <1>2 DEF Made

\* What is freed by the compiler is freed nowhere else.
LEMMA FreesItselfLines ==
  ASSUME fun \in Functions, FreesItself, NEW p \in 1..Size
  PROVE  Line(p).op \notin {"free", "take", "returnx"} /\ Line(p) # FreeLater
<1>1. Line(p) \in ToSet(fun.body)
  BY Lines DEF ToSet, Line
<1> QED
  BY <1>1 DEF FreesItself, Classify

\* A list of deferred calls has a length.
LEMMA StackLength == ASSUME NEW s \in Stacks PROVE Len(s) \in Nat
BY DEF Stacks

\* It is one longer when a call is appended.
LEMMA StackLonger ==
  ASSUME NEW s \in Stacks, NEW c \in Call
  PROVE  /\ Append(s, c) \in Stacks /\ Len(Append(s, c)) = Len(s) + 1 /\ Append(s, c)[Len(s) + 1] = c
         /\ \A i \in 1..Len(s) : Append(s, c)[i] = s[i]
BY Longer DEF Stacks

\* What line p does to defer_stack.
LEMMA DefersAfterLine ==
  ASSUME fun \in Functions, NEW p \in 1..Size, defers[p] \in Stacks
  PROVE  /\ DefersAfter(p) \in Stacks
         /\ Line(p).op # "defer" => DefersAfter(p) = defers[p]
         /\ Line(p) # FreeLater => \A first \in {1, 2} : NotFreedFrom(defers[p], first) => NotFreedFrom(DefersAfter(p), first)
         /\ Len(DefersAfter(p)) >= Len(defers[p])
         /\ Len(defers[p]) >= 1 => DefersAfter(p)[1] = defers[p][1]
<1> DEFINE d == defers[p]
<1>1. Len(d) \in Nat
  BY StackLength
<1>2. CASE Line(p).op = "defer"
  <2>1. Line(p).call \in Deferrable /\ (Line(p).call = "free x" => Line(p) = FreeLater)
    BY <1>2, DeferLine
  <2>2. /\ DefersAfter(p) \in Stacks /\ Len(DefersAfter(p)) = Len(d) + 1 /\ DefersAfter(p)[Len(d) + 1] = Line(p).call
        /\ \A i \in 1..Len(d) : DefersAfter(p)[i] = d[i]
    <3>1. Line(p).call \in Call
      BY <2>1 DEF Call
    <3> QED
      BY <1>2, <3>1, StackLonger DEF DefersAfter
  <2> HIDE DEF d
  <2>3. ASSUME Line(p) # FreeLater, NEW first \in {1, 2}, NotFreedFrom(d, first) PROVE NotFreedFrom(DefersAfter(p), first)
    <3> SUFFICES ASSUME NEW i \in first..(Len(d) + 1) PROVE DefersAfter(p)[i] # "free x"
      BY <2>2 DEF NotFreedFrom
    <3>1. CASE i = Len(d) + 1
      BY <2>1, <2>2, <2>3, <3>1
    <3>2. CASE i # Len(d) + 1
      <4>1. i \in first..Len(d) /\ i \in 1..Len(d)
        BY <1>1, <3>2
      <4> QED
        BY <2>2, <2>3, <4>1 DEF NotFreedFrom
    <3> QED
      BY <3>1, <3>2
  <2>4. Len(d) >= 1 => DefersAfter(p)[1] = d[1]
    BY <1>1, <2>2
  <2> QED
    BY <1>1, <1>2, <2>2, <2>3, <2>4 DEF d
<1>3. CASE Line(p).op # "defer"
  BY <1>1, <1>3 DEF DefersAfter
<1> QED
  BY <1>2, <1>3

\* A line that is compiled: what is deferred in front of the next one follows.
LEMMA CompileStatementKeeps ==
  ASSUME Made, CompileStatement PROVE Made'
<1> DEFINE L == Len(defers)
<1>0. /\ fun \in Functions /\ phase = "compile" /\ OwnOK /\ LeakOK /\ DefersOK /\ NotRun
      /\ UNCHANGED <<fun, phase, own, leak, said, run>> /\ L <= Size /\ defers' = Append(defers, DefersAfter(L))
  BY DEF Made, CompileStatement, DefersAfter
<1>1. Size \in Nat /\ L \in 1..Size /\ defers \in Seq(Stacks) /\ \A p \in 1..L : defers[p] \in Stacks
  <2>1. Size \in Nat /\ Len(defers) \in 1..(Size + 1) /\ defers \in Seq(Stacks)
    BY <1>0, Lines DEF DefersOK, DefersType
  <2> QED
    BY <1>0, <2>1
<1>2. OwnOK' /\ LeakOK' /\ NotRun'
  <2>1. fun.kind = "own" => Len(own) = Size + 1
    BY <1>0 DEF OwnOK
  <2>2. Followed => Len(leak) = Size + 1 /\ (leak[Size + 1].live /\ ~leak[Size + 1].out => "leak" \in said')
    BY <1>0 DEF LeakOK
  <2> QED
    BY <1>0, <2>1, <2>2, OwnKept, LeakKept, NotRunKept
<1>3. /\ DefersAfter(L) \in Stacks
      /\ Line(L).op # "defer" => DefersAfter(L) = defers[L]
      /\ Line(L) # FreeLater => \A first \in {1, 2} : NotFreedFrom(defers[L], first) => NotFreedFrom(DefersAfter(L), first)
      /\ Len(DefersAfter(L)) >= Len(defers[L])
      /\ Len(defers[L]) >= 1 => DefersAfter(L)[1] = defers[L][1]
      /\ Len(defers[L]) \in Nat /\ Len(DefersAfter(L)) \in Nat
  BY <1>0, <1>1, DefersAfterLine, StackLength
<1>5. /\ defers' \in Seq(Stacks) /\ Len(defers') = L + 1 /\ defers'[L + 1] = DefersAfter(L)
      /\ \A i \in 1..L : defers'[i] = defers[i]
  BY <1>0, <1>1, <1>3, Longer
<1>6. /\ Size' = Size /\ (Straight' <=> Straight) /\ (Shallow' <=> Shallow) /\ (FreesItself' <=> FreesItself)
      /\ \A p : Line(p)' = Line(p)
  BY <1>0, SameFunction
<1> HIDE DEF L
<1>7. DefersFollow'
  <2> SUFFICES ASSUME NEW p \in 1..L PROVE defers'[p + 1] = DefersAfter(p)'
    BY <1>1, <1>5 DEF DefersFollow
  <2>1. DefersAfter(p)' = DefersAfter(p)
    BY <1>5, <1>6 DEF DefersAfter
  <2>2. CASE p = L
    BY <1>5, <2>1, <2>2
  <2>3. CASE p # L
    <3>1. p \in 1..(L - 1) /\ p + 1 \in 1..L
      BY <1>1, <2>3
    <3> QED
      BY <1>0, <1>5, <2>1, <3>1 DEF DefersOK, DefersFollow, L
  <2> QED
    BY <2>2, <2>3
<1>8. NeverFrees'
  <2> SUFFICES ASSUME Straight, ~FreesItself, NEW p \in 1..(L + 1) PROVE NotFreedFrom(defers'[p], 1)
    BY <1>5, <1>6 DEF NeverFrees, NotFreedFrom
  <2>1. \A i \in 1..L : NotFreedFrom(defers[i], 1)
    BY <1>0 DEF DefersOK, NeverFrees, L
  <2>2. Line(L) # FreeLater
    BY <1>1 DEF Straight
  <2>3. CASE p \in 1..L
    BY <1>5, <2>1, <2>3
  <2>4. CASE p = L + 1
    BY <1>1, <1>3, <1>5, <2>1, <2>2, <2>4
  <2> QED
    BY <1>1, <2>3, <2>4
<1>9. FreesLast'
  <2> SUFFICES ASSUME FreesItself, NEW p \in 1..(L + 1) PROVE FreedFirst(defers'[p])
    BY <1>5, <1>6 DEF FreesLast, FreedFirst, NotFreedFrom
  <2>1. \A i \in 1..L : FreedFirst(defers[i])
    BY <1>0 DEF DefersOK, FreesLast, L
  <2>2. Line(L) # FreeLater
    BY <1>0, <1>1, FreesItselfLines
  <2>3. FreedFirst(defers[L])
    BY <1>1, <2>1
  <2>4. FreedFirst(DefersAfter(L))
    <3>1. Len(defers[L]) >= 1 /\ defers[L][1] = "free x" /\ NotFreedFrom(defers[L], 2)
      BY <2>3, Zenon DEF FreedFirst
    <3>2. \A m, n \in Nat : m >= 1 /\ n >= m => n >= 1
      OBVIOUS
    <3>3. Len(DefersAfter(L)) >= 1
      BY <1>3, <3>1, <3>2, Zenon
    <3>4. DefersAfter(L)[1] = "free x"
      BY <1>3, <3>1, Zenon
    <3>5. 2 \in {1, 2}
      OBVIOUS
    <3>6. NotFreedFrom(DefersAfter(L), 2)
      BY <1>3, <2>2, <3>1, <3>5, Zenon
    <3> QED
      BY <3>3, <3>4, <3>6, Zenon DEF FreedFirst
  <2> QED
    BY <1>1, <1>5, <2>1, <2>4
<1>10. NoneInside'
  <2> SUFFICES ASSUME Shallow, NEW q \in 1..Size, NEW p \in 1..(L + 1), Line(q).op \in Compound, q < p, p <= Line(q).end + 1
               PROVE  defers'[p] = defers'[q]
    BY <1>5, <1>6 DEF NoneInside
  <2>1. Line(q).end \in 1..Size /\ Line(Line(q).end).op = "end" /\ Line(q).op # "defer"
    <3>1. LineOK(q)
      BY <1>0, Lines
    <3>2. Line(q).end \in 1..Size /\ Line(Line(q).end) = End(q)
      BY <1>1, <3>1 DEF LineOK, Compound
    <3> QED
      BY <3>2 DEF End, Compound
  <2>2. q \in 1..L /\ defers'[q] = defers[q]
    BY <1>1, <1>5
  <2>3. \A i \in 1..L : q < i /\ i <= Line(q).end + 1 => defers[i] = defers[q]
    BY <1>0 DEF DefersOK, NoneInside, L
  <2>4. CASE p \in 1..L
    BY <1>5, <2>2, <2>3, <2>4
  <2>5. CASE p = L + 1
    <3>1. Line(L).op # "defer"
      <4>1. CASE q = L \/ L = Line(q).end
        BY <2>1, <4>1
      <4>2. CASE q < L /\ L < Line(q).end
        BY <1>1, <4>2 DEF Shallow, TopLevel, Inside
      <4> QED
        BY <1>1, <2>1, <2>2, <2>5, <4>1, <4>2
    <3>2. defers[L] = defers[q]
      <4>1. CASE q < L
        <5>1. L <= Line(q).end + 1
          BY <1>1, <2>1, <2>5
        <5> QED
          BY <1>1, <2>3, <4>1, <5>1
      <4> QED
        BY <1>1, <2>2, <4>1
    <3> QED
      BY <1>3, <1>5, <2>2, <2>5, <3>1, <3>2
  <2> QED
    BY <1>1, <2>4, <2>5
<1>11. DefersOK'
  <2>1. defers'[1] = AutoFree(fun)'
    BY <1>0, <1>1, <1>5 DEF DefersOK, DefersType
  <2>2. DefersType'
    BY <1>1, <1>5, <1>6, <2>1 DEF DefersType
  <2> QED
    BY <1>0, <1>7, <1>8, <1>9, <1>10, <2>2 DEF DefersOK
<1> QED
  BY <1>0, <1>2, <1>11, SameFunction DEF Made

\* The C is made.
LEMMA CompileEndKeeps ==
  ASSUME Made, CompileEnd PROVE Made'
<1>0. /\ fun \in Functions /\ phase = "compile" /\ OwnOK /\ LeakOK /\ DefersOK /\ NotRun
      /\ UNCHANGED <<fun, own, leak, said, defers, run>> /\ Len(defers) > Size /\ phase' = "run"
  BY DEF Made, CompileEnd, analysis
<1>1. Size \in Nat /\ Len(defers) = Size + 1
  <2>1. Size \in Nat /\ Len(defers) \in 1..(Size + 1)
    BY <1>0, Lines DEF DefersOK, DefersType
  <2> QED
    BY <1>0, <2>1
<1>2. fun.kind = "own" => Len(own) = Size + 1
  BY <1>0 DEF OwnOK
<1>3. Followed => Len(leak) = Size + 1 /\ (leak[Size + 1].live /\ ~leak[Size + 1].out => "leak" \in said')
  BY <1>0 DEF LeakOK
<1>4. OwnOK' /\ LeakOK' /\ DefersOK'
  BY <1>0, <1>1, <1>2, <1>3, OwnKept, LeakKept, DefersKept
<1> QED
  BY <1>0, <1>4 DEF Made

\* Nor does the run of the C touch them.
LEMMA RunKeeps ==
  ASSUME Made, UNCHANGED <<fun, analysis>>, phase \in {"run", "exit", "left"}, phase' \in {"run", "exit", "left"}
  PROVE  Made'
<1>0. fun \in Functions /\ OwnOK /\ LeakOK /\ DefersOK /\ UNCHANGED <<own, leak, said, defers>>
  BY DEF Made, analysis
<1>1. fun.kind = "own" => Len(own) = Size + 1
  BY <1>0 DEF OwnOK
<1>2. Followed => Len(leak) = Size + 1 /\ (leak[Size + 1].live /\ ~leak[Size + 1].out => "leak" \in said')
  BY <1>0 DEF LeakOK
<1>3. Len(defers) = Size + 1
  BY <1>0 DEF DefersOK
<1>4. OwnOK' /\ LeakOK' /\ DefersOK'
  BY <1>0, <1>1, <1>2, <1>3, OwnKept, LeakKept, DefersKept
<1> QED
  BY <1>0, <1>4 DEF Made

\* Nothing is known but what is in front of the first line.
LEMMA InitMade == ASSUME FlowInit PROVE Made
<1>0. fun \in Functions /\ Size \in Nat /\ fun.kind \in {"own", "local", "cleanup"}
  BY Lines DEF FlowInit
<1>1. /\ phase = "own" <=> fun.kind = "own"
      /\ phase = "leaks" <=> Followed
      /\ phase \in {"own", "leaks", "compile"}
  BY DEF FlowInit, Followed
<1>2. OwnOK
  BY <1>0, <1>1 DEF FlowInit, OwnOK, OwnStates
<1>3. LeakOK
  BY <1>0, <1>1 DEF FlowInit, LeakOK, LeakStates
<1>4. /\ ~FreesItself => AutoFree(fun) = <<>>
      /\ FreesItself => AutoFree(fun) = <<"free x">>
      /\ AutoFree(fun) \in Stacks
  <2>1. <<>> \in Stacks /\ <<"free x">> \in Stacks
    BY DEF Stacks, Call
  <2> QED
    BY <2>1 DEF AutoFree, FreesItself
<1>5. Len(defers) = 1 /\ defers[1] = AutoFree(fun)
  BY DEF FlowInit
<1>8. \A a \in Stacks : <<a>> \in Seq(Stacks)
  OBVIOUS
<1>9. defers \in Seq(Stacks) /\ \A p \in 1..Len(defers) : defers[p] = AutoFree(fun) /\ p = 1
  <2>1. defers \in Seq(Stacks)
    BY <1>4, <1>8 DEF FlowInit
  <2> QED
    BY <1>5, <2>1
<1>6. NotFreedFrom(<<>>, 1) /\ NotFreedFrom(<<"free x">>, 2) /\ Len(<<"free x">>) >= 1 /\ <<"free x">>[1] = "free x"
  BY DEF NotFreedFrom
<1>7. DefersOK
  <2>1. DefersType /\ DefersFollow /\ NoneInside
    BY <1>0, <1>5, <1>9 DEF DefersType, DefersFollow, NoneInside
  <2>2. NeverFrees /\ FreesLast
    <3>1. NeverFrees
      BY <1>4, <1>6, <1>9 DEF NeverFrees
    <3>2. FreedFirst(<<"free x">>)
      BY <1>6, Zenon DEF FreedFirst
    <3>3. FreesLast
      BY <1>4, <1>9, <3>2 DEF FreesLast
    <3> QED
      BY <3>1, <3>3
  <2> QED
    BY <1>1, <2>1, <2>2 DEF DefersOK
<1> QED
  BY <1>0, <1>1, <1>2, <1>3, <1>7 DEF FlowInit, Made, NotRun

(***************************************************************************)
(* Lists of calls.                                                          *)
(***************************************************************************)

\* The last of the calls frees x, and no other.
FreedLast(s) == s # <<>> /\ s[Len(s)] = "free x" /\ \A i \in 1..(Len(s) - 1) : s[i] # "free x"

\* The calls written at an exit are those deferred, from the last.
LEMMA Reversed ==
  ASSUME NEW S, NEW s \in Seq(S)
  PROVE  /\ Reverse(s) \in Seq(S) /\ Len(Reverse(s)) = Len(s)
         /\ \A i \in 1..Len(s) : Reverse(s)[i] = s[Len(s) - i + 1]
<1>1. \A i \in 1..Len(s) : s[Len(s) - i + 1] \in S
  OBVIOUS
<1>2. Reverse(s) = [i \in 1..Len(s) |-> s[(Len(s) - i) + 1]]
  BY DEF Reverse
<1>3. Len(s) \in Nat
  OBVIOUS
<1> QED
  BY <1>1, <1>2, <1>3

\* Where x is freed by no deferred call, it is freed by none written.
LEMMA NotFreedReversed ==
  ASSUME NEW s \in Stacks, NotFreedFrom(s, 1) PROVE NotFreedFrom(Reverse(s), 1)
<1>1. Len(s) \in Nat /\ Len(Reverse(s)) = Len(s) /\ \A i \in 1..Len(s) : Reverse(s)[i] = s[Len(s) - i + 1]
  BY Reversed, StackLength DEF Stacks
<1> SUFFICES ASSUME NEW i \in 1..Len(s) PROVE Reverse(s)[i] # "free x"
  BY <1>1 DEF NotFreedFrom
<1>2. Len(s) - i + 1 \in 1..Len(s)
  BY <1>1
<1> QED
  BY <1>1, <1>2 DEF NotFreedFrom

\* Where the first call deferred frees x, the last one written does.
LEMMA FreedLastReversed ==
  ASSUME NEW s \in Stacks, FreedFirst(s) PROVE FreedLast(Reverse(s))
<1>1. Len(s) \in Nat /\ Len(Reverse(s)) = Len(s) /\ \A i \in 1..Len(s) : Reverse(s)[i] = s[Len(s) - i + 1]
  BY Reversed, StackLength DEF Stacks
<1>2. Len(s) >= 1 /\ s[1] = "free x" /\ \A i \in 2..Len(s) : s[i] # "free x"
  BY DEF FreedFirst, NotFreedFrom
<1>3. Len(s) >= 1
  BY <1>2
<1>4. Len(s) \in 1..Len(s) /\ Len(s) - Len(s) + 1 = 1
  BY <1>1, <1>3
<1>5. Reverse(s)[Len(s)] = "free x"
  BY <1>1, <1>2, <1>4
<1>6. ASSUME NEW i \in 1..(Len(s) - 1) PROVE Reverse(s)[i] # "free x"
  <2>1. i \in 1..Len(s) /\ Len(s) - i + 1 \in 2..Len(s)
    BY <1>1
  <2> QED
    BY <1>1, <1>2, <2>1
<1>7. Reverse(s) # <<>>
  BY <1>1, <1>3
<1> QED
  BY <1>1, <1>5, <1>6, <1>7 DEF FreedLast

\* The first of the calls is made.
LEMMA FirstCall ==
  ASSUME NEW s \in Stacks, s # <<>>
  PROVE  /\ Head(s) \in Call /\ Tail(s) \in Stacks /\ Len(s) \in Nat /\ Len(s) >= 1 /\ Len(Tail(s)) = Len(s) - 1
         /\ Head(s) = s[1] /\ \A i \in 1..Len(Tail(s)) : Tail(s)[i] = s[i + 1]
<1>1. ASSUME NEW S, NEW q \in Seq(S), q # <<>>
      PROVE  /\ Head(q) \in S /\ Tail(q) \in Seq(S) /\ Len(q) \in Nat /\ Len(q) >= 1 /\ Len(Tail(q)) = Len(q) - 1
             /\ Head(q) = q[1] /\ \A i \in 1..Len(Tail(q)) : Tail(q)[i] = q[i + 1]
  BY <1>1
<1> QED
  BY <1>1 DEF Stacks

\* This stays so as calls are made,
LEMMA NotFreedTail ==
  ASSUME NEW s \in Stacks, s # <<>>, NotFreedFrom(s, 1) PROVE Head(s) # "free x" /\ NotFreedFrom(Tail(s), 1)
<1>1. /\ Len(s) \in Nat /\ Len(s) >= 1 /\ Len(Tail(s)) = Len(s) - 1
      /\ Head(s) = s[1] /\ \A i \in 1..Len(Tail(s)) : Tail(s)[i] = s[i + 1]
  BY FirstCall
<1>2. 1 \in 1..Len(s) /\ \A i \in 1..Len(Tail(s)) : i + 1 \in 1..Len(s)
  BY <1>1
<1> QED
  BY <1>1, <1>2 DEF NotFreedFrom

\* and so does that.
LEMMA FreedLastTail ==
  ASSUME NEW s \in Stacks, FreedLast(s)
  PROVE  /\ Head(s) = "free x" => Tail(s) = <<>>
         /\ Head(s) # "free x" => FreedLast(Tail(s))
<1>0. s # <<>>
  BY DEF FreedLast
<1>1. /\ Len(s) \in Nat /\ Len(s) >= 1 /\ Len(Tail(s)) = Len(s) - 1
      /\ Head(s) = s[1] /\ (\A i \in 1..Len(Tail(s)) : Tail(s)[i] = s[i + 1]) /\ Tail(s) \in Stacks
  BY <1>0, FirstCall
<1>2. CASE Len(s) = 1
  <2>1. Head(s) = "free x"
    BY <1>1, <1>2 DEF FreedLast
  <2>2. Len(Tail(s)) = 0
    BY <1>1, <1>2
  <2>3. \A S, t : t \in Seq(S) /\ Len(t) = 0 => t = <<>>
    OBVIOUS
  <2>4. Tail(s) = <<>>
    BY <1>1, <2>2, <2>3 DEF Stacks
  <2> QED
    BY <2>1, <2>4
<1>3. CASE Len(s) # 1
  <2> DEFINE m == Len(Tail(s))
  <2>0. m \in Nat /\ m >= 1 /\ Len(s) = m + 1
    <3>1. \A n, k : n \in Nat /\ n >= 1 /\ n # 1 /\ k = n - 1 => k \in Nat /\ k >= 1 /\ n = k + 1
      OBVIOUS
    <3> QED
      BY <1>1, <1>3, <3>1, Zenon
  <2> HIDE DEF m
  <2>1. 1 \in 1..(Len(s) - 1) /\ Len(s) - 1 \in 1..m /\ \A i \in 1..(m - 1) : i \in 1..m /\ i + 1 \in 1..(Len(s) - 1)
    BY <2>0
  <2>2. Head(s) # "free x"
    BY <1>1, <2>1 DEF FreedLast
  <2>3. Tail(s)[Len(Tail(s))] = "free x"
    <3>1. Tail(s)[Len(s) - 1] = s[Len(s) - 1 + 1] /\ Len(s) - 1 + 1 = Len(s)
      BY <1>1, <2>1 DEF m
    <3> QED
      BY <1>1, <3>1 DEF FreedLast
  <2>4. \A i \in 1..(Len(Tail(s)) - 1) : Tail(s)[i] # "free x"
    BY <1>1, <2>1 DEF FreedLast, m
  <2>5. Tail(s) # <<>>
    <3>1. Len(<<>>) = 0 /\ m # 0
      BY <2>0
    <3> QED
      BY <3>1, Zenon DEF m
  <2> QED
    BY <2>2, <2>3, <2>4, <2>5 DEF FreedLast
<1> QED
  BY <1>2, <1>3

\* The calls made and those to make are the same ones when one more is made.
LEMMA MadeAndToMake ==
  ASSUME NEW S, NEW d \in Seq(S), NEW c \in Seq(S), c # <<>>
  PROVE  Append(d, Head(c)) \o Tail(c) = d \o c
<1>1. /\ Append(d, Head(c)) \in Seq(S) /\ Tail(c) \in Seq(S) /\ Len(c) \in Nat /\ Len(d) \in Nat /\ Len(c) >= 1
      /\ Len(Tail(c)) = Len(c) - 1 /\ Len(Append(d, Head(c))) = Len(d) + 1
  OBVIOUS
<1> DEFINE a == Append(d, Head(c)) \o Tail(c)
           b == d \o c
<1>2. a \in Seq(S) /\ b \in Seq(S) /\ Len(a) = Len(d) + Len(c) /\ Len(b) = Len(d) + Len(c)
  BY <1>1
<1>3. ASSUME NEW i \in 1..(Len(d) + Len(c)) PROVE a[i] = b[i]
  <2>1. CASE i <= Len(d)
    BY <1>1, <2>1
  <2>2. CASE i = Len(d) + 1
    BY <1>1, <2>2
  <2>3. CASE i > Len(d) + 1
    BY <1>1, <2>3
  <2> QED
    BY <1>1, <2>1, <2>2, <2>3
<1> HIDE DEF a, b
<1>4. a = b
  BY <1>2, <1>3
<1> QED
  BY <1>4 DEF a, b

(***************************************************************************)
(* The run.                                                                 *)
(***************************************************************************)

Analyses == OwnStatement \/ OwnEnd \/ LeakStatement \/ LeakEnd \/ CompileStatement \/ CompileEnd
Passes == Use \/ Free \/ Take \/ MeetDefer \/ Branch \/ SkipElse \/ EndBlock \/ EnterWith \/ While
Exits == Return \/ Raise \/ FallOff

\* No C runs while there is something to be made.
LEMMA AnalysisStep ==
  ASSUME Made, Analyses
  PROVE  fun' = fun /\ NotRun /\ UNCHANGED run /\ phase' \in {"own", "leaks", "compile", "run", "rejected"}
BY DEF Made, Analyses, OwnStatement, OwnEnd, LeakStatement, LeakEnd, CompileStatement, CompileEnd

\* With the C running, a step is one of the C's.
LEMMA RunStep ==
  ASSUME Passes \/ Exits \/ MakeCall \/ Leave
  PROVE  UNCHANGED <<fun, analysis>> /\ phase \in {"run", "exit"} /\ phase' \in {"run", "exit", "left"}
<1>1. CASE Passes
  BY <1>1 DEF Passes, Use, Free, Take, MeetDefer, Branch, SkipElse, EndBlock, EnterWith, While, At, Passing
<1>2. CASE Exits
  BY <1>2 DEF Exits, Return, Raise, FallOff, At, Exit
<1>3. CASE MakeCall \/ Leave
  BY <1>3 DEF MakeCall, Leave, run
<1> QED
  BY <1>1, <1>2, <1>3

\* What was made stays made, whatever the step.
LEMMA MadeKept ==
  ASSUME Made, [FlowNext]_flowvars PROVE Made'
<1>1. CASE Analyses
  BY <1>1, OwnStatementKeeps, OwnEndKeeps, LeakStatementKeeps, LeakEndKeeps, CompileStatementKeeps, CompileEndKeeps DEF Analyses
<1>2. CASE Passes \/ Exits \/ MakeCall \/ Leave
  <2>1. UNCHANGED <<fun, analysis>> /\ phase \in {"run", "exit"} /\ phase' \in {"run", "exit", "left"}
    BY <1>2, RunStep
  <2> QED
    BY <2>1, RunKeeps
<1>3. CASE UNCHANGED flowvars
  <2>1. UNCHANGED <<fun, phase, own, leak, said, defers, run>>
    BY <1>3 DEF flowvars, analysis
  <2>2. fun.kind = "own" /\ phase' \notin {"own", "rejected"} => Len(own) = Size + 1
    BY <2>1 DEF Made, OwnOK
  <2>3. Followed /\ phase' \notin {"own", "leaks", "rejected"} =>
           Len(leak) = Size + 1 /\ (leak[Size + 1].live /\ ~leak[Size + 1].out => "leak" \in said')
    BY <2>1 DEF Made, LeakOK
  <2>4. phase' \in {"run", "exit", "left"} => Len(defers) = Size + 1
    BY <2>1 DEF Made, DefersOK
  <2>5. OwnOK' /\ LeakOK' /\ DefersOK'
    BY <2>1, <2>2, <2>3, <2>4, OwnKept, LeakKept, DefersKept DEF Made
  <2>6. NotRun => NotRun'
    BY <2>1, NotRunKept
  <2>7. Followed' <=> Followed
    BY <2>1, SameFunction
  <2> QED
    BY <2>1, <2>5, <2>6, <2>7 DEF Made
<1> QED
  BY <1>1, <1>2, <1>3 DEF FlowNext, Analyses, Passes, Exits, Stopped

\* The C stays within its lines, and calls nothing of its own accord.
Place ==
  /\ phase = "run" => pc \in 1..(Size + 1) /\ calls = <<>>
  /\ phase = "left" => calls = <<>>
  /\ calls \in Stacks /\ done \in Stacks

\* The C is at a line when it does what is written there.
LEMMA AtLine ==
  ASSUME Made, Place, phase = "run" PROVE Size \in Nat /\ pc \in 1..(Size + 1) /\ (pc <= Size => LineOK(pc))
BY Lines DEF Made, Place

\* What an exit calls.
LEMMA CleanupStack ==
  ASSUME Made, Place, phase = "run" PROVE defers[pc] \in Stacks /\ Cleanup(pc) \in Stacks
<1>1. Len(defers) = Size + 1 /\ defers \in Seq(Stacks) /\ pc \in 1..(Size + 1)
  BY AtLine DEF Made, DefersOK, DefersType
<1>2. defers[pc] \in Stacks
  BY <1>1
<1> QED
  BY <1>2, Reversed DEF Cleanup, Stacks

\* A raise calls nothing.
LEMMA NoCalls == <<>> \in Stacks /\ NotFreedFrom(<<>>, 1)
BY DEF Stacks, NotFreedFrom

\* The C stays within the lines of its function.
LEMMA PlaceKept ==
  ASSUME Made, Place, [FlowNext]_flowvars PROVE Place'
<1>1. CASE Analyses
  <2>1. fun' = fun /\ NotRun /\ UNCHANGED run /\ phase' # "left"
    BY <1>1, AnalysisStep
  <2>2. Size' = Size /\ Size \in Nat
    BY <2>1, SameFunction, Lines DEF Made
  <2> QED
    BY <2>1, <2>2, NoCalls DEF Place, NotRun, run
<1>2. CASE Passes
  <2>1. phase = "run" /\ UNCHANGED <<fun, phase, calls, done>> /\ pc <= Size
    BY <1>2 DEF Passes, Use, Free, Take, MeetDefer, Branch, SkipElse, EndBlock, EnterWith, While, At, Passing
  <2>2. Size' = Size /\ Size \in Nat /\ pc \in 1..Size /\ LineOK(pc)
    BY <2>1, SameFunction, AtLine
  <2>3. pc' \in 1..(Size + 1)
    BY <1>2, <2>2 DEF Passes, Use, Free, Take, MeetDefer, Branch, SkipElse, EndBlock, EnterWith, While, At, Go, LineOK
  <2> QED
    BY <2>1, <2>2, <2>3 DEF Place
<1>3. CASE Exits
  BY <1>3, CleanupStack, NoCalls DEF Place, Exits, Return, Raise, FallOff, At, Exit
<1>4. CASE MakeCall
  <2>1. phase = "exit" /\ phase' = phase /\ calls # <<>> /\ done' = Append(done, Head(calls)) /\ calls' = Tail(calls)
    BY <1>4 DEF MakeCall
  <2>2. Head(calls) \in Call /\ Tail(calls) \in Stacks
    BY <2>1, FirstCall DEF Place
  <2>3. Append(done, Head(calls)) \in Stacks
    BY <2>2, StackLonger DEF Place
  <2> QED
    BY <2>1, <2>2, <2>3 DEF Place
<1>5. CASE Leave
  BY <1>5 DEF Leave, Place, run
<1>6. CASE UNCHANGED flowvars
  BY <1>6, SameFunction DEF flowvars, run, Place
<1> QED
  BY <1>1, <1>2, <1>3, <1>4, <1>5, <1>6 DEF FlowNext, Analyses, Passes, Exits, Stopped

\* The C begins at the first line.
LEMMA InitPlace == ASSUME FlowInit PROVE Place
BY NoCalls DEF FlowInit, Place, Followed

(***************************************************************************)
(* Parameters that are owned.                                               *)
(***************************************************************************)

\* The exit is a return of a tuple with x in it, which is looked at when all calls are made.
Late == pc <= Size /\ Line(pc).op = "returntuple"

\* What _own_analyze takes for alive is, and nothing has happened to it.
OwnRun ==
  fun.kind = "own" /\ Straight =>
    /\ faults = {} /\ NotFreedFrom(calls, 1)
    /\ phase = "run" /\ own[pc] = "alive" => x = "live"
    /\ phase = "exit" /\ Late => x = "live"

\* Lines that name x are let through only where it is alive.
LEMMA OwnLines ==
  ASSUME Made, fun.kind = "own", Straight, phase = "run", NEW p \in 1..Size
  PROVE  /\ own[p + 1] = OwnStep(p) /\ own[p] # "skipped"
         /\ Line(p).op \in {"use", "free", "take"} \cup Naming => own[p] = "alive" /\ Line(p).op # "returnx"
<1>1. Len(own) = Size + 1 /\ Size \in Nat /\ own \in Seq(OwnStates) /\ NoLoops
  BY Lines DEF Made, OwnOK, Straight
<1>2. ~OwnRefuses(p) /\ own[p + 1] = OwnStep(p) /\ own[p] # "skipped"
  BY <1>1 DEF Made, OwnOK
<1>3. own[p] \in OwnStates
  BY <1>1
<1>4. ASSUME Line(p).op \in {"use", "free", "take"} \cup Naming PROVE own[p] = "alive" /\ Line(p).op # "returnx"
  <2>1. p \in Extent(p) /\ Touches(Line(p))
    BY <1>1, <1>4 DEF Extent, Touches, Compound, Naming
  <2> QED
    BY <1>2, <1>3, <2>1 DEF OwnRefuses, OwnStates
<1> QED
  BY <1>2, <1>4

\* Every step keeps what _own_analyze knows true of the value.
LEMMA OwnRunKept ==
  ASSUME Made, Place, OwnRun, [FlowNext]_flowvars PROVE OwnRun'
<1>0. fun' = fun /\ (Straight' <=> Straight)
  <2>1. fun' = fun
    BY AnalysisStep, RunStep DEF FlowNext, Analyses, Passes, Exits, Stopped, flowvars
  <2> QED
    BY <2>1, SameFunction
<1> SUFFICES ASSUME fun.kind = "own", Straight
             PROVE  /\ faults' = {} /\ NotFreedFrom(calls', 1) /\ (phase' = "run" /\ own'[pc'] = "alive" => x' = "live")
                    /\ phase' = "exit" /\ Late' => x' = "live"
  BY <1>0 DEF OwnRun, NotFreedFrom
<1>1. CASE Analyses
  <2>1. NotRun /\ UNCHANGED run /\ phase' # "exit"
    BY <1>1, AnalysisStep
  <2> QED
    BY <2>1, NoCalls DEF NotRun, run
<1>2. CASE Passes
  <2>1. phase = "run" /\ UNCHANGED <<phase, own, calls>> /\ pc <= Size
    BY <1>2 DEF Passes, Use, Free, Take, MeetDefer, Branch, SkipElse, EndBlock, EnterWith, While, At, Passing, analysis
  <2>2. Size \in Nat /\ pc \in 1..Size /\ LineOK(pc)
    BY <2>1, AtLine
  <2>3. /\ own[pc + 1] = OwnStep(pc) /\ own[pc] # "skipped"
        /\ Line(pc).op \in {"use", "free", "take"} => own[pc] = "alive"
    BY <2>1, <2>2, OwnLines
  <2>4. faults = {} /\ NotFreedFrom(calls', 1) /\ (own[pc] = "alive" => x = "live")
    BY <2>1 DEF OwnRun
  <2>5. CASE Use
    BY <2>1, <2>3, <2>4, <2>5 DEF Use, At, Touch, Go, OwnStep
  <2>6. CASE Free
    BY <2>1, <2>3, <2>4, <2>6 DEF Free, At, Touch, Go, OwnStep
  <2>7. CASE Take
    BY <2>1, <2>3, <2>4, <2>7 DEF Take, At, Touch, Go, OwnStep
  <2>8. CASE MeetDefer
    BY <2>1, <2>3, <2>4, <2>8 DEF MeetDefer, At, Go, OwnStep
  <2>9. CASE Branch
    <3>1. Line(pc).orelse \in 1..Size /\ Line(Line(pc).orelse) = Else(pc, Line(pc).end)
      BY <2>2, <2>9 DEF Branch, At, LineOK
    <3>2. own[Line(pc).orelse + 1] = own[pc]
      BY <2>1, <3>1, OwnLines DEF OwnStep, Else
    <3>3. own[pc + 1] = own[pc]
      BY <2>3, <2>9 DEF Branch, At, OwnStep
    <3> QED
      BY <2>1, <2>4, <2>9, <3>2, <3>3 DEF Branch, Go
  <2>10. CASE SkipElse
    <3>1. Line(pc).end \in 1..Size /\ Line(pc).start \in 1..Size /\ Opener(pc) = If(pc, Line(pc).end)
      BY <2>2, <2>10 DEF SkipElse, At, LineOK, Opener
    <3>2. LineOK(Line(pc).start) /\ Line(Line(pc).start).op = "if" /\ Line(Line(pc).start).end = Line(pc).end /\ Line(Line(pc).start).orelse = pc
      BY <3>1, Lines DEF Opener, If, Made
    <3>3. Line(Line(pc).end) = End(Line(pc).start)
      BY <3>2 DEF LineOK
    <3>4. own[Line(pc).end + 1] = OwnJoin(own[pc], own[Line(pc).end])
      BY <2>1, <3>1, <3>2, <3>3, OwnLines DEF OwnStep, End, Opener
    <3>5. own[Line(pc).end + 1] = "alive" => own[pc] = "alive"
      BY <3>4 DEF OwnJoin
    <3> QED
      BY <2>1, <2>4, <2>10, <3>5 DEF SkipElse, Go
  <2>11. CASE EndBlock
    <3>1. Line(pc).op = "end" /\ Opener(pc).op = "if"
      <4>1. Line(pc).op = "end" /\ Opener(pc).op \in Compound /\ Line(pc).start \in 1..Size
        BY <2>2, <2>11 DEF EndBlock, At, LineOK
      <4> QED
        BY <4>1 DEF Straight, NoLoops, Opener, Compound
    <3>2. own[pc + 1] = "alive" => own[pc] = "alive"
      BY <2>3, <3>1 DEF OwnStep, OwnJoin
    <3> QED
      BY <2>1, <2>4, <2>11, <3>1, <3>2 DEF EndBlock, Go
  <2>12. CASE EnterWith \/ While
    BY <2>2, <2>12 DEF EnterWith, While, At, Straight, NoLoops
  <2> QED
    BY <1>2, <2>5, <2>6, <2>7, <2>8, <2>9, <2>10, <2>11, <2>12 DEF Passes
<1>3. CASE Exits
  <2>1. phase = "run" /\ phase' = "exit"
    BY <1>3 DEF Exits, Return, Raise, FallOff, At, Exit
  <2>2. Size \in Nat /\ pc \in 1..(Size + 1)
    BY <2>1, AtLine
  <2>3. pc <= Size => Line(pc).op # "returnx" /\ (Line(pc).op \in Naming => x = "live")
    BY <2>1, <2>2, OwnLines DEF OwnRun, Naming
  <2>4. faults' = faults /\ x' = x
    BY <1>3, <2>3 DEF Exits, Return, Raise, FallOff, At, Touch, Naming
  <2>8. Late' => x' = "live"
    <3>1. pc' = pc /\ Line(pc)' = Line(pc) /\ Size' = Size
      BY <1>0, <1>3, SameFunction DEF Exits, Return, Raise, FallOff, Line
    <3> QED
      BY <2>3, <2>4, <3>1 DEF Late, Naming
  <2>5. NotFreedFrom(defers[pc], 1)
    BY <2>1, <2>2 DEF Made, DefersOK, NeverFrees, FreesItself
  <2>6. NotFreedFrom(Cleanup(pc), 1)
    BY <2>1, <2>5, CleanupStack, NotFreedReversed DEF Cleanup
  <2>7. calls' \in {Cleanup(pc), <<>>}
    BY <1>3 DEF Exits, Return, Raise, FallOff, Exit
  <2> QED
    BY <2>1, <2>4, <2>6, <2>7, <2>8, NoCalls DEF OwnRun
<1>4. CASE MakeCall
  <2>1. /\ phase = "exit" /\ phase' = "exit" /\ calls # <<>> /\ calls' = Tail(calls) /\ pc' = pc
        /\ Head(calls) # "free x" => UNCHANGED <<x, faults>>
    BY <1>4 DEF MakeCall
  <2>2. Head(calls) # "free x" /\ NotFreedFrom(Tail(calls), 1)
    BY <2>1, NotFreedTail DEF Place, OwnRun
  <2>3. Late' <=> Late
    BY <1>0, <2>1, SameFunction DEF Late, Line
  <2> QED
    BY <2>1, <2>2, <2>3 DEF OwnRun
<1>5. CASE Leave
  <2>1. phase = "exit" /\ phase' = "left" /\ calls' = calls /\ (Late => faults' = IF x = "live" THEN faults ELSE faults \cup {<<"returntuple", x>>})
        /\ (~Late => faults' = faults)
    BY <1>5 DEF Leave, Late, Touch
  <2> QED
    BY <2>1 DEF OwnRun
<1>6. CASE UNCHANGED flowvars
  <2>1. Late' <=> Late
    BY <1>0, <1>6, SameFunction DEF Late, Line, flowvars, run
  <2> QED
    BY <1>6, <2>1 DEF flowvars, analysis, run, OwnRun
<1> QED
  BY <1>1, <1>2, <1>3, <1>4, <1>5, <1>6 DEF FlowNext, Analyses, Passes, Exits, Stopped

\* It is true of the value at the beginning.
LEMMA InitOwnRun == ASSUME FlowInit PROVE OwnRun
BY NoCalls DEF FlowInit, OwnRun

(***************************************************************************)
(* Values that are made and freed.                                          *)
(***************************************************************************)

\* What may be live on some path to a line is live there for _check_leaks_func, what is
\* freed on this one is freed there; and it has said what was wrong with the path.
LeakRun ==
  Followed /\ NoLoops =>
    /\ phase = "run" => /\ ~leak[pc].out /\ (x = "live" => leak[pc].live)
                        /\ Straight /\ x = "freed" => leak[pc].freed
    /\ phase \in {"exit", "left"} /\ x = "live" => "leak" \in said
    /\ Straight => /\ NotFreedFrom(calls, 1)
                   /\ (\E f \in faults : f[2] = "freed") => said \cap {"double free", "use after free"} # {}
                   /\ phase = "exit" /\ Late /\ x = "freed" => said \cap {"double free", "use after free"} # {}

\* Lines of a function whose value is followed: x is not returned.
LEMMA FollowedLines ==
  ASSUME Made, Followed, phase = "run", NEW p \in 1..Size
  PROVE  /\ leak[p + 1] = LeakStep(p).becomes /\ LeakStep(p).says \subseteq said
         /\ leak[p] \in LeakStates /\ leak[p + 1] \in LeakStates
         /\ Line(p).op # "returnx"
<1>1. Len(leak) = Size + 1 /\ Size \in Nat /\ leak \in Seq(LeakStates)
  BY Lines DEF Made, LeakOK
<1>2. leak[p + 1] = LeakStep(p).becomes /\ LeakStep(p).says \subseteq said
  BY <1>1 DEF Made, LeakOK
<1>3. leak[p] \in LeakStates /\ leak[p + 1] \in LeakStates
  BY <1>1
<1>4. Line(p) \in ToSet(fun.body)
  BY Lines DEF ToSet, Line, Made
<1>5. Line(p).op # "returnx"
  BY <1>4 DEF Followed, Classify
<1> QED
  BY <1>2, <1>3, <1>5

\* A path that is not left goes on where two meet.
LEMMA LeakJoined ==
  ASSUME NEW a \in LeakStates, NEW b \in LeakStates
  PROVE  /\ ~a.out => /\ ~LeakJoin(a, b).out /\ (a.live => LeakJoin(a, b).live)
                      /\ a.freed => LeakJoin(a, b).freed
         /\ ~b.out => /\ ~LeakJoin(a, b).out /\ (b.live => LeakJoin(a, b).live)
                      /\ b.freed => LeakJoin(a, b).freed
<1>1. CASE a.out
  BY <1>1 DEF LeakJoin
<1>2. CASE ~a.out /\ b.out
  BY <1>2 DEF LeakJoin
<1>3. CASE ~a.out /\ ~b.out
  <2>1. LeakJoin(a, b) = [live |-> a.live \/ b.live, freed |-> a.freed \/ b.freed, out |-> FALSE]
    BY <1>3, Zenon DEF LeakJoin
  <2>2. LeakJoin(a, b).live = (a.live \/ b.live) /\ LeakJoin(a, b).freed = (a.freed \/ b.freed) /\ LeakJoin(a, b).out = FALSE
    BY <2>1
  <2> QED
    BY <2>2
<1> QED
  BY <1>1, <1>2, <1>3

\* What is said of a line that x is passed to, and what follows.
LEMMA DischargeLine ==
  ASSUME Made, Followed, phase = "run", NEW p \in 1..Size, Line(p).op \in {"use", "free", "take"}, ~leak[p].out
  PROVE  /\ leak[p].freed => said \cap {"double free", "use after free"} # {} /\ leak[p + 1] = leak[p]
         /\ ~leak[p + 1].out
         /\ Line(p).op = "use" => leak[p + 1] = leak[p]
         /\ Line(p).op = "free" => leak[p + 1].freed
<1>1. /\ leak[p + 1] = Discharge(Line(p).op, leak[p]).becomes /\ Discharge(Line(p).op, leak[p]).says \subseteq said
      /\ leak[p] \in LeakStates
  BY FollowedLines DEF LeakStep, Naming
<1> QED
  BY <1>1 DEF Discharge, Seen, LeakStates

\* Every step keeps what _check_leaks_func knows true of the value.
LEMMA LeakRunKept ==
  ASSUME Made, Place, LeakRun, [FlowNext]_flowvars PROVE LeakRun'
<1>0. fun' = fun /\ (Straight' <=> Straight) /\ (Followed' <=> Followed) /\ (NoLoops' <=> NoLoops)
  <2>1. fun' = fun
    BY AnalysisStep, RunStep DEF FlowNext, Analyses, Passes, Exits, Stopped, flowvars
  <2> QED
    BY <2>1, SameFunction
<1> SUFFICES ASSUME Followed, NoLoops
             PROVE  /\ phase' = "run" => /\ ~leak'[pc'].out /\ (x' = "live" => leak'[pc'].live)
                                         /\ Straight /\ x' = "freed" => leak'[pc'].freed
                    /\ phase' \in {"exit", "left"} /\ x' = "live" => "leak" \in said'
                    /\ Straight => /\ NotFreedFrom(calls', 1)
                                   /\ (\E f \in faults' : f[2] = "freed") => said' \cap {"double free", "use after free"} # {}
                                   /\ phase' = "exit" /\ Late' /\ x' = "freed" => said' \cap {"double free", "use after free"} # {}
  BY <1>0 DEF LeakRun, NotFreedFrom
<1>1. CASE Analyses
  <2>1. NotRun /\ UNCHANGED run /\ phase' \notin {"exit", "left"}
    BY <1>1, AnalysisStep
  <2>2. leak'[1] = [live |-> TRUE, freed |-> FALSE, out |-> FALSE]
    BY <1>1, MadeKept DEF Made, LeakOK, FlowNext, Analyses
  <2>3. x = "live" /\ pc = 1 /\ faults = {} /\ calls = <<>>
    BY <2>1 DEF NotRun, Followed
  <2> QED
    BY <2>1, <2>2, <2>3, NoCalls DEF run
<1>2. CASE Passes
  <2>1. phase = "run" /\ UNCHANGED <<phase, leak, said, calls>> /\ pc <= Size
    BY <1>2 DEF Passes, Use, Free, Take, MeetDefer, Branch, SkipElse, EndBlock, EnterWith, While, At, Passing, analysis
  <2>2. Size \in Nat /\ pc \in 1..Size /\ LineOK(pc)
    BY <2>1, AtLine
  <2>3. leak[pc + 1] = LeakStep(pc).becomes /\ leak[pc] \in LeakStates /\ leak[pc + 1] \in LeakStates
    BY <2>1, <2>2, FollowedLines
  <2>4. /\ ~leak[pc].out /\ (x = "live" => leak[pc].live) /\ (Straight /\ x = "freed" => leak[pc].freed)
        /\ Straight => /\ NotFreedFrom(calls, 1)
                       /\ (\E f \in faults : f[2] = "freed") => said \cap {"double free", "use after free"} # {}
    BY <2>1 DEF LeakRun
  <2> SUFFICES /\ ~leak[pc'].out /\ (x' = "live" => leak[pc'].live) /\ (Straight /\ x' = "freed" => leak[pc'].freed)
               /\ Straight /\ (\E f \in faults' : f[2] = "freed") => said \cap {"double free", "use after free"} # {}
    BY <2>1, <2>4
  <2>5. ASSUME Use \/ Free \/ Take, Straight, \E f \in faults' : f[2] = "freed"
        PROVE  said \cap {"double free", "use after free"} # {}
    <3>1. CASE \E f \in faults : f[2] = "freed"
      BY <2>4, <2>5, <3>1
    <3>2. CASE ~\E f \in faults : f[2] = "freed"
      <4>1. PICK by : faults' = IF x = "live" THEN faults ELSE faults \cup {<<by, x>>}
        BY <2>5 DEF Use, Free, Take, Touch
      <4>2. x = "freed"
        BY <2>5, <3>2, <4>1
      <4> QED
        BY <2>1, <2>2, <2>4, <2>5, <4>2, DischargeLine DEF Use, Free, Take, At
    <3> QED
      BY <3>1, <3>2
  <2>6. CASE Use
    <3>1. leak[pc'] = leak[pc] /\ x' = x
      BY <2>1, <2>2, <2>4, <2>6, DischargeLine DEF Use, At, Go, Touch
    <3> QED
      BY <2>4, <2>5, <2>6, <3>1
  <2>7. CASE Free
    <3>1. ~leak[pc'].out /\ leak[pc'].freed /\ x' = "freed"
      BY <2>1, <2>2, <2>4, <2>7, DischargeLine DEF Free, At, Go, Touch
    <3> QED
      BY <2>5, <2>7, <3>1
  <2>8. CASE Take
    <3>1. ~leak[pc'].out /\ x' = "moved"
      BY <2>1, <2>2, <2>4, <2>8, DischargeLine DEF Take, At, Go, Touch
    <3> QED
      BY <2>5, <2>8, <3>1
  <2>9. CASE MeetDefer
    <3>1. leak[pc'] = leak[pc] /\ x' = x /\ faults' = faults
      BY <2>3, <2>9 DEF MeetDefer, At, Go, LeakStep, Naming, Seen
    <3> QED
      BY <2>4, <3>1
  <2>10. CASE Branch
    <3>1. Line(pc).orelse \in 1..Size /\ Line(Line(pc).orelse) = Else(pc, Line(pc).end)
      BY <2>2, <2>10 DEF Branch, At, LineOK
    <3>2. leak[Line(pc).orelse + 1] = leak[pc]
      BY <2>1, <3>1, FollowedLines DEF LeakStep, Naming, Else, Seen
    <3>3. leak[pc + 1] = leak[pc]
      BY <2>3, <2>10 DEF Branch, At, LeakStep, Naming, Seen
    <3> QED
      BY <2>4, <2>10, <3>2, <3>3 DEF Branch, Go
  <2>11. CASE SkipElse
    <3>1. Line(pc).end \in 1..Size /\ Line(pc).start \in 1..Size /\ Opener(pc) = If(pc, Line(pc).end)
      BY <2>2, <2>11 DEF SkipElse, At, LineOK, Opener
    <3>2. LineOK(Line(pc).start) /\ Line(Line(pc).start).op = "if" /\ Line(Line(pc).start).end = Line(pc).end /\ Line(Line(pc).start).orelse = pc
      BY <3>1, Lines DEF Opener, If, Made
    <3>3. Line(Line(pc).end) = End(Line(pc).start)
      BY <3>2 DEF LineOK
    <3>4. leak[Line(pc).end + 1] = LeakJoin(leak[pc], leak[Line(pc).end]) /\ leak[Line(pc).end] \in LeakStates
      BY <2>1, <3>1, <3>2, <3>3, FollowedLines DEF LeakStep, Naming, End, Opener, Seen
    <3>5. /\ ~leak[Line(pc).end + 1].out /\ (leak[pc].live => leak[Line(pc).end + 1].live)
          /\ leak[pc].freed => leak[Line(pc).end + 1].freed
      BY <2>3, <2>4, <3>4, LeakJoined
    <3> QED
      BY <2>4, <2>11, <3>5 DEF SkipElse, Go
  <2>12. CASE EndBlock
    <3>1. Line(pc).op = "end" /\ Opener(pc).op = "if"
      <4>1. Line(pc).op = "end" /\ Opener(pc).op \in Compound /\ Line(pc).start \in 1..Size
        BY <2>2, <2>12 DEF EndBlock, At, LineOK
      <4> QED
        BY <4>1 DEF NoLoops, Opener, Compound
    <3>2. leak[pc + 1] = LeakJoin(leak[Opener(pc).orelse], leak[pc]) /\ leak[Opener(pc).orelse] \in LeakStates
      <4>1. Opener(pc).orelse \in 1..(pc - 1)
        BY <2>2, <3>1, EndOfIf DEF Made
      <4>2. Opener(pc).orelse \in 1..Size
        BY <2>2, <4>1
      <4> QED
        BY <2>1, <2>3, <3>1, <4>2, FollowedLines DEF LeakStep, Naming, Seen
    <3>3. /\ ~leak[pc + 1].out /\ (leak[pc].live => leak[pc + 1].live) /\ (leak[pc].freed => leak[pc + 1].freed)
      BY <2>3, <2>4, <3>2, LeakJoined
    <3> QED
      BY <2>4, <2>12, <3>1, <3>3 DEF EndBlock, Go
  <2>13. CASE EnterWith \/ While
    BY <2>2, <2>13 DEF EnterWith, While, At, NoLoops
  <2> QED
    BY <1>2, <2>6, <2>7, <2>8, <2>9, <2>10, <2>11, <2>12, <2>13 DEF Passes
<1>3. CASE Exits
  <2>1. phase = "run" /\ phase' = "exit" /\ UNCHANGED <<leak, said>>
    BY <1>3 DEF Exits, Return, Raise, FallOff, At, Exit, analysis
  <2>2. Size \in Nat /\ pc \in 1..(Size + 1)
    BY <2>1, AtLine
  <2>3. pc <= Size => Line(pc).op # "returnx"
    BY <2>1, <2>2, FollowedLines
  <2>4. /\ x' = x /\ pc' = pc
        /\ faults' = faults \/ (At("returnuse") /\ faults' = faults \cup {<<"returnuse", x>>})
    BY <1>3, <2>3 DEF Exits, Return, Raise, FallOff, At, Touch
  <2>5. ~leak[pc].out /\ (x = "live" => leak[pc].live)
    BY <2>1 DEF LeakRun
  <2>8. ASSUME Straight, x = "freed", pc <= Size, Line(pc).op \in {"returnuse", "returntuple"}
        PROVE  "use after free" \in said
    <3>1. leak[pc].freed
      BY <2>1, <2>8 DEF LeakRun
    <3>2. LeakExit(Line(pc).op, leak[pc]).says \subseteq said
      BY <2>1, <2>2, <2>5, <2>8, FollowedLines DEF LeakStep, Naming
    <3> QED
      BY <2>8, <3>1, <3>2 DEF LeakExit, Seen, Naming
  <2>9. Late' => pc <= Size /\ Line(pc).op = "returntuple"
    BY <1>0, <2>4, SameFunction DEF Late, Line
  <2>10. Straight /\ (\E f \in faults' : f[2] = "freed") => said \cap {"double free", "use after free"} # {}
    <3> SUFFICES ASSUME Straight, NEW f \in faults', f[2] = "freed" PROVE said \cap {"double free", "use after free"} # {}
      OBVIOUS
    <3>1. CASE f \in faults
      BY <2>1, <3>1 DEF LeakRun
    <3>2. CASE f \notin faults
      <4>1. At("returnuse") /\ x = "freed"
        BY <2>4, <3>2
      <4> QED
        BY <2>8, <4>1 DEF At
    <3> QED
      BY <3>1, <3>2
  <2>6. ASSUME x = "live" PROVE "leak" \in said
    <3>1. CASE Return \/ Raise
      <4>1. pc \in 1..Size /\ Line(pc).op \in {"return", "returnuse", "returntuple", "raise"}
        BY <2>2, <2>3, <3>1 DEF Return, Raise, At
      <4>2. LeakExit(Line(pc).op, leak[pc]).says \subseteq said
        BY <2>1, <2>5, <4>1, FollowedLines DEF LeakStep, Naming
      <4> QED
        BY <2>5, <2>6, <4>1, <4>2 DEF LeakExit, Seen
    <3>2. CASE FallOff
      <4>1. pc = Size + 1
        BY <2>2, <3>2 DEF FallOff
      <4> QED
        BY <2>1, <2>5, <2>6, <4>1 DEF Made, LeakOK
    <3> QED
      BY <1>3, <3>1, <3>2 DEF Exits
  <2>7. Straight => NotFreedFrom(calls', 1)
    <3> SUFFICES ASSUME Straight PROVE NotFreedFrom(calls', 1)
      OBVIOUS
    <3>1. ~FreesItself
      BY DEF Followed, FreesItself
    <3>2. NotFreedFrom(defers[pc], 1)
      BY <2>1, <2>2, <3>1 DEF Made, DefersOK, NeverFrees
    <3>3. NotFreedFrom(Cleanup(pc), 1)
      BY <2>1, <3>2, CleanupStack, NotFreedReversed DEF Cleanup
    <3>4. calls' \in {Cleanup(pc), <<>>}
      BY <1>3 DEF Exits, Return, Raise, FallOff, Exit
    <3> QED
      BY <3>3, <3>4, NoCalls
  <2> QED
    BY <2>1, <2>4, <2>6, <2>7, <2>8, <2>9, <2>10
<1>4. CASE MakeCall
  <2>1. /\ phase = "exit" /\ phase' = "exit" /\ calls # <<>> /\ calls' = Tail(calls) /\ said' = said /\ pc' = pc
        /\ Head(calls) = "free x" => x' = "freed"
        /\ Head(calls) # "free x" => UNCHANGED <<x, faults>>
    BY <1>4 DEF MakeCall, Touch, analysis
  <2>2. Straight => Head(calls) # "free x" /\ NotFreedFrom(Tail(calls), 1)
    BY <2>1, NotFreedTail DEF Place, LeakRun
  <2>3. Late' <=> Late
    BY <1>0, <2>1, SameFunction DEF Late, Line
  <2> QED
    BY <2>1, <2>2, <2>3 DEF LeakRun
<1>5. CASE Leave
  <2>1. /\ phase = "exit" /\ phase' = "left" /\ calls' = calls /\ said' = said /\ x' = x
        /\ faults' = faults \/ (Late /\ faults' = faults \cup {<<"returntuple", x>>})
    BY <1>5 DEF Leave, Late, Touch, analysis
  <2>2. Straight /\ (\E f \in faults' : f[2] = "freed") => said \cap {"double free", "use after free"} # {}
    <3> SUFFICES ASSUME Straight, NEW f \in faults', f[2] = "freed" PROVE said \cap {"double free", "use after free"} # {}
      OBVIOUS
    <3>1. CASE f \in faults
      BY <2>1, <3>1 DEF LeakRun
    <3>2. CASE f \notin faults
      <4>1. Late /\ f = <<"returntuple", x>>
        BY <2>1, <3>2
      <4>2. x = "freed"
        BY <4>1
      <4> QED
        BY <2>1, <4>1, <4>2 DEF LeakRun
    <3> QED
      BY <3>1, <3>2
  <2> QED
    BY <2>1, <2>2 DEF LeakRun
<1>6. CASE UNCHANGED flowvars
  <2>1. Late' <=> Late
    BY <1>0, <1>6, SameFunction DEF Late, Line, flowvars, run
  <2> QED
    BY <1>6, <2>1 DEF flowvars, analysis, run, LeakRun
<1> QED
  BY <1>1, <1>2, <1>3, <1>4, <1>5, <1>6 DEF FlowNext, Analyses, Passes, Exits, Stopped

\* It is true of the value at the beginning.
LEMMA InitLeakRun == ASSUME FlowInit PROVE LeakRun
BY NoCalls DEF FlowInit, LeakRun, Followed

(***************************************************************************)
(* Values that the compiler frees by itself.                                *)
(***************************************************************************)

Returned == how \in {"return", "end"}

\* x lives until the last call of an exit, which frees it, and nothing else does.
ItselfRun ==
  FreesItself =>
    /\ faults \subseteq {<<"returntuple", "freed">>}
    /\ phase = "run" => x = "live"
    /\ phase \in {"exit", "left"} /\ Returned => (calls = <<>> /\ x = "freed") \/ (FreedLast(calls) /\ x = "live")
    /\ phase \in {"exit", "left"} /\ ~Returned => calls = <<>> /\ x = "live"

\* No call at all frees nothing.
LEMMA NoneLast == ~FreedLast(<<>>)
BY DEF FreedLast

\* Every step keeps a value that the compiler frees alive until an exit frees it.
LEMMA ItselfRunKept ==
  ASSUME Made, Place, ItselfRun, [FlowNext]_flowvars PROVE ItselfRun'
<1>0. fun' = fun /\ (FreesItself' <=> FreesItself)
  <2>1. fun' = fun
    BY AnalysisStep, RunStep DEF FlowNext, Analyses, Passes, Exits, Stopped, flowvars
  <2> QED
    BY <2>1, SameFunction
<1> SUFFICES ASSUME FreesItself
             PROVE  /\ faults' \subseteq {<<"returntuple", "freed">>}
                    /\ phase' = "run" => x' = "live"
                    /\ phase' \in {"exit", "left"} /\ Returned' => (calls' = <<>> /\ x' = "freed") \/ (FreedLast(calls') /\ x' = "live")
                    /\ phase' \in {"exit", "left"} /\ ~Returned' => calls' = <<>> /\ x' = "live"
  BY <1>0 DEF ItselfRun, FreedLast
<1>1. CASE Analyses
  <2>1. NotRun /\ UNCHANGED run /\ phase' \notin {"exit", "left"}
    BY <1>1, AnalysisStep
  <2> QED
    BY <2>1 DEF NotRun, run, FreesItself
<1>2. CASE Passes
  <2>1. phase = "run" /\ phase' = "run" /\ pc <= Size
    BY <1>2 DEF Passes, Use, Free, Take, MeetDefer, Branch, SkipElse, EndBlock, EnterWith, While, At, Passing
  <2>2. pc \in 1..Size
    BY <2>1, AtLine
  <2>3. Line(pc).op \notin {"free", "take", "returnx"}
    BY <2>2, FreesItselfLines DEF Made
  <2>4. x' = x /\ (x = "live" => faults' = faults)
    BY <1>2, <2>3 DEF Passes, Use, Free, Take, MeetDefer, Branch, SkipElse, EndBlock, EnterWith, While, At, Touch
  <2> QED
    BY <2>1, <2>4 DEF ItselfRun
<1>3. CASE Exits
  <2>1. phase = "run" /\ phase' = "exit"
    BY <1>3 DEF Exits, Return, Raise, FallOff, At, Exit
  <2>2. Size \in Nat /\ pc \in 1..(Size + 1)
    BY <2>1, AtLine
  <2>3. pc <= Size => Line(pc).op # "returnx"
    BY <2>2, FreesItselfLines DEF Made
  <2>4. faults' = faults /\ x' = x /\ faults \subseteq {<<"returntuple", "freed">>} /\ x = "live"
    BY <1>3, <2>1, <2>3 DEF Exits, Return, Raise, FallOff, At, Touch, ItselfRun
  <2>5. FreedFirst(defers[pc])
    BY <2>1, <2>2 DEF Made, DefersOK, FreesLast
  <2>6. FreedLast(Cleanup(pc))
    BY <2>1, <2>5, CleanupStack, FreedLastReversed DEF Cleanup
  <2>7. CASE Return \/ FallOff
    <3>1. calls' = Cleanup(pc) /\ how' \in {"return", "end"}
      BY <2>7 DEF Return, FallOff, Exit
    <3> QED
      BY <2>1, <2>4, <2>6, <3>1 DEF Returned
  <2>8. CASE Raise
    <3>1. calls' = <<>> /\ how' \in {"error", "abort"}
      BY <2>8 DEF Raise, Exit, Raised
    <3> QED
      BY <2>1, <2>4, <3>1 DEF Returned
  <2> QED
    BY <1>3, <2>7, <2>8 DEF Exits
<1>4. CASE MakeCall
  <2>1. /\ phase = "exit" /\ phase' = "exit" /\ how' = how /\ calls # <<>> /\ calls' = Tail(calls)
        /\ Head(calls) = "free x" => x' = "freed" /\ (x = "live" => faults' = faults)
        /\ Head(calls) # "free x" => UNCHANGED <<x, faults>>
    BY <1>4 DEF MakeCall, Touch
  <2>2. Returned /\ FreedLast(calls) /\ x = "live" /\ faults \subseteq {<<"returntuple", "freed">>}
    BY <2>1 DEF ItselfRun
  <2>3. /\ Head(calls) = "free x" => Tail(calls) = <<>>
        /\ Head(calls) # "free x" => FreedLast(Tail(calls))
    BY <2>2, FreedLastTail DEF Place
  <2> QED
    BY <2>1, <2>2, <2>3 DEF Returned
<1>5. CASE Leave
  <2>1. /\ phase = "exit" /\ phase' = "left" /\ UNCHANGED <<how, calls, x>> /\ calls = <<>>
        /\ faults' = faults \/ (x # "live" /\ faults' = faults \cup {<<"returntuple", x>>})
    BY <1>5 DEF Leave, Touch
  <2>2. x \in {"live", "freed"} /\ faults \subseteq {<<"returntuple", "freed">>}
    BY <2>1, NoneLast DEF ItselfRun
  <2> QED
    BY <2>1, <2>2 DEF ItselfRun, Returned
<1>6. CASE UNCHANGED flowvars
  BY <1>6 DEF flowvars, run, ItselfRun, Returned
<1> QED
  BY <1>1, <1>2, <1>3, <1>4, <1>5, <1>6 DEF FlowNext, Analyses, Passes, Exits, Stopped

\* It is alive at the beginning.
LEMMA InitItselfRun == ASSUME FlowInit PROVE ItselfRun
BY DEF FlowInit, ItselfRun, FreesItself

(***************************************************************************)
(* Deferred calls.                                                          *)
(***************************************************************************)

\* The calls deferred on the way to a line are those the compiler has written down there.
DeferRun ==
  Shallow =>
    /\ phase = "run" => due = defers[pc] /\ done = <<>>
    /\ phase \in {"exit", "left"} /\ Returned => done \o calls = Reverse(due)

\* Nor is anything else written down in the lines of a compound statement.
LEMMA SameDefers ==
  ASSUME Made, Shallow, phase = "run", NEW q \in 1..Size, Line(q).op \in Compound, NEW p \in 1..(Size + 1), q < p, p <= Line(q).end + 1
  PROVE  defers[p] = defers[q]
BY DEF Made, DefersOK, NoneInside

\* Every step keeps the calls met those that are deferred in front of the line.
LEMMA DeferRunKept ==
  ASSUME Made, Place, DeferRun, [FlowNext]_flowvars PROVE DeferRun'
<1>0. fun' = fun /\ (Shallow' <=> Shallow)
  <2>1. fun' = fun
    BY AnalysisStep, RunStep DEF FlowNext, Analyses, Passes, Exits, Stopped, flowvars
  <2> QED
    BY <2>1, SameFunction
<1> SUFFICES ASSUME Shallow
             PROVE  /\ phase' = "run" => due' = defers'[pc'] /\ done' = <<>>
                    /\ phase' \in {"exit", "left"} /\ Returned' => done' \o calls' = Reverse(due')
  BY <1>0 DEF DeferRun
<1>1. CASE Analyses
  <2>1. NotRun /\ UNCHANGED run /\ phase' \notin {"exit", "left"} /\ fun' = fun
    BY <1>1, AnalysisStep
  <2>2. defers'[1] = AutoFree(fun)
    BY <1>1, <2>1, MadeKept DEF Made, DefersOK, DefersType, FlowNext, Analyses
  <2> QED
    BY <2>1, <2>2 DEF NotRun, run
<1>2. CASE Passes
  <2>1. phase = "run" /\ UNCHANGED <<phase, defers, done>> /\ pc <= Size
    BY <1>2 DEF Passes, Use, Free, Take, MeetDefer, Branch, SkipElse, EndBlock, EnterWith, While, At, Passing, analysis
  <2>2. Size \in Nat /\ pc \in 1..Size /\ LineOK(pc)
    BY <2>1, AtLine
  <2>3. defers[pc + 1] = DefersAfter(pc)
    BY <2>1, <2>2 DEF Made, DefersOK, DefersFollow
  <2>4. due = defers[pc] /\ done = <<>>
    BY <2>1 DEF DeferRun
  <2> SUFFICES due' = defers[pc']
    BY <2>1, <2>4
  <2>5. CASE Use \/ Free \/ Take \/ EnterWith
    <3>1. pc' = pc + 1 /\ due' = due /\ Line(pc).op # "defer"
      BY <2>5 DEF Use, Free, Take, EnterWith, At, Go, Passing
    <3> QED
      BY <2>3, <2>4, <3>1 DEF DefersAfter
  <2>6. CASE MeetDefer
    BY <2>3, <2>4, <2>6 DEF MeetDefer, At, Go, DefersAfter
  <2>7. CASE Branch
    <3>1. Line(pc).op = "if" /\ Line(pc).orelse \in (pc + 2)..Size /\ Line(pc).end \in (Line(pc).orelse + 1)..Size /\ due' = due
      BY <2>2, <2>7 DEF Branch, At, LineOK, Passing
    <3>2. defers[Line(pc).orelse + 1] = defers[pc]
      BY <2>1, <2>2, <3>1, SameDefers DEF Compound
    <3>3. defers[pc + 1] = defers[pc]
      BY <2>3, <3>1 DEF DefersAfter
    <3> QED
      BY <2>4, <2>7, <3>1, <3>2, <3>3 DEF Branch, Go
  <2>8. CASE SkipElse
    <3>1. /\ Line(pc).end \in (pc + 1)..Size /\ Line(pc).start \in 1..(pc - 1) /\ due' = due
          /\ Line(Line(pc).start) = If(pc, Line(pc).end)
      BY <2>2, <2>8 DEF SkipElse, At, LineOK, Passing
    <3>2. Line(Line(pc).start).op = "if" /\ Line(Line(pc).start).end = Line(pc).end /\ Line(pc).start \in 1..Size
      BY <2>2, <3>1 DEF If
    <3>3. defers[pc] = defers[Line(pc).start] /\ defers[Line(pc).end + 1] = defers[Line(pc).start]
      BY <2>1, <2>2, <3>1, <3>2, SameDefers DEF Compound
    <3> QED
      BY <2>4, <2>8, <3>1, <3>3 DEF SkipElse, Go
  <2>9. CASE EndBlock
    <3>1. Line(pc).op = "end" /\ Opener(pc).op \in Compound /\ Opener(pc).end = pc /\ Line(pc).start \in 1..(pc - 1) /\ due' = due
      BY <2>2, <2>9 DEF EndBlock, At, LineOK, Passing
    <3>2. defers[pc] = defers[Line(pc).start] /\ defers[pc + 1] = defers[Line(pc).start]
      BY <2>1, <2>2, <3>1, SameDefers DEF Opener
    <3> QED
      BY <2>4, <2>9, <3>1, <3>2 DEF EndBlock, Go
  <2>10. CASE While
    <3>1. Line(pc).op = "while" /\ Line(pc).end \in (pc + 2)..Size /\ due' = due
      BY <2>2, <2>10 DEF While, At, LineOK
    <3>2. defers[Line(pc).end + 1] = defers[pc]
      BY <2>1, <2>2, <3>1, SameDefers DEF Compound
    <3>3. defers[pc + 1] = defers[pc]
      BY <2>3, <3>1 DEF DefersAfter
    <3> QED
      BY <2>4, <2>10, <3>1, <3>2, <3>3 DEF While, Go
  <2> QED
    BY <1>2, <2>5, <2>6, <2>7, <2>8, <2>9, <2>10 DEF Passes
<1>3. CASE Exits
  <2>1. phase = "run" /\ phase' = "exit" /\ UNCHANGED <<due, done>>
    BY <1>3 DEF Exits, Return, Raise, FallOff, At, Exit
  <2>2. due = defers[pc] /\ done = <<>>
    BY <2>1 DEF DeferRun
  <2>3. CASE Return \/ FallOff
    <3>1. calls' = Cleanup(pc)
      BY <2>3 DEF Return, FallOff, Exit
    <3>2. Cleanup(pc) \in Seq(Call)
      BY <2>1, CleanupStack DEF Stacks
    <3>3. <<>> \o Cleanup(pc) = Cleanup(pc)
      BY <3>2
    <3> QED
      BY <2>1, <2>2, <3>1, <3>3 DEF Cleanup
  <2>4. CASE Raise
    <3>1. how' \in {"error", "abort"}
      BY <2>4 DEF Raise, Exit, Raised
    <3> QED
      BY <2>1, <3>1 DEF Returned
  <2> QED
    BY <1>3, <2>3, <2>4 DEF Exits
<1>4. CASE MakeCall
  <2>1. /\ phase = "exit" /\ phase' = "exit" /\ calls # <<>> /\ done' = Append(done, Head(calls)) /\ calls' = Tail(calls)
        /\ how' = how /\ due' = due
    BY <1>4 DEF MakeCall
  <2>2. Append(done, Head(calls)) \o Tail(calls) = done \o calls
    BY <2>1, MadeAndToMake DEF Place, Stacks
  <2> QED
    BY <2>1, <2>2 DEF DeferRun, Returned
<1>5. CASE Leave
  BY <1>5 DEF Leave, run, DeferRun, Returned
<1>6. CASE UNCHANGED flowvars
  BY <1>6 DEF flowvars, run, analysis, DeferRun, Returned
<1> QED
  BY <1>1, <1>2, <1>3, <1>4, <1>5, <1>6 DEF FlowNext, Analyses, Passes, Exits, Stopped

\* None is met at the beginning.
LEMMA InitDeferRun == ASSUME FlowInit PROVE DeferRun
BY DEF FlowInit, DeferRun, Followed

(***************************************************************************)
(* The theorems.                                                            *)
(***************************************************************************)

\* What the analyses and the compiler know of a line follows from the lines before it,
\* in every function of any length, and the C never leaves its lines.
THEOREM MadeAsWalked == FlowSpec => [](Made /\ Place)
<1>1. FlowInit => Made /\ Place
  BY InitMade, InitPlace
<1>2. Made /\ Place /\ [FlowNext]_flowvars => (Made /\ Place)'
  BY MadeKept, PlaceKept
<1> QED
  BY <1>1, <1>2, PTL DEF FlowSpec

\* A function without loops, with and deferred frees that _own_analyze accepts never
\* touches a value that was freed or given away, however many branches it has.
THEOREM OwnershipChecked == FlowSpec => []NoUseAfterMove
<1>1. FlowInit => OwnRun
  BY InitOwnRun
<1>2. Made /\ Place /\ OwnRun /\ [FlowNext]_flowvars => OwnRun'
  BY OwnRunKept
<1>3. OwnRun => NoUseAfterMove
  BY DEF OwnRun, NoUseAfterMove
<1> QED
  BY <1>1, <1>2, <1>3, MadeAsWalked, PTL DEF FlowSpec

\* What _check_leaks_func knows of a line is true whenever the C is there.
LEMMA LeakRunHolds == FlowSpec => []LeakRun
<1>1. FlowInit => LeakRun
  BY InitLeakRun
<1>2. Made /\ Place /\ LeakRun /\ [FlowNext]_flowvars => LeakRun'
  BY LeakRunKept
<1> QED
  BY <1>1, <1>2, MadeAsWalked, PTL DEF FlowSpec

\* A path of a function without loops on which a value is not freed has been warned about.
THEOREM LeaksFound == FlowSpec => []LeaksReported
<1>1. LeakRun => LeaksReported
  BY DEF LeakRun, LeaksReported
<1> QED
  BY <1>1, LeakRunHolds, PTL

\* So has one on which a value is freed twice or used once it is freed.
THEOREM FaultsFound == FlowSpec => []FaultsReported
<1>1. LeakRun => FaultsReported
  BY DEF LeakRun, FaultsReported, Straight
<1> QED
  BY <1>1, LeakRunHolds, PTL

\* What the compiler frees by itself is freed once, at whichever exit the function returns
\* by, and touched afterwards by the elements of a returned tuple only, in loops and blocks
\* too.
THEOREM FreedAtEveryExit == FlowSpec => []FreedByItself
<1>1. FlowInit => ItselfRun
  BY InitItselfRun
<1>2. Made /\ Place /\ ItselfRun /\ [FlowNext]_flowvars => ItselfRun'
  BY ItselfRunKept
<1>3. ItselfRun /\ Place => FreedByItself
  BY NoneLast DEF ItselfRun, Place, FreedByItself, FreesItself, Returned
<1> QED
  BY <1>1, <1>2, <1>3, MadeAsWalked, PTL DEF FlowSpec

\* Deferred calls are made once each, in reverse order, by every exit the function returns
\* by, if none is deferred in an arm or a block.
THEOREM DeferredInReverse == FlowSpec => []DeferredCallsRun
<1>1. FlowInit => DeferRun
  BY InitDeferRun
<1>2. Made /\ Place /\ DeferRun /\ [FlowNext]_flowvars => DeferRun'
  BY DeferRunKept
<1>3. DeferRun /\ Place => DeferredCallsRun
  <2> SUFFICES ASSUME DeferRun, Place, Shallow, phase = "left", how \in {"return", "end"} PROVE done = Reverse(due)
    BY DEF DeferredCallsRun
  <2>1. done \o <<>> = Reverse(due) /\ done \in Seq(Call)
    BY DEF DeferRun, Place, Returned, Stacks
  <2> QED
    BY <2>1
<1> QED
  BY <1>1, <1>2, <1>3, MadeAsWalked, PTL DEF FlowSpec
=============================================================================
