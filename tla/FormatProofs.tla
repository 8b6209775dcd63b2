----------------------------- MODULE FormatProofs -----------------------------
(***************************************************************************)
(* Proofs about the two file formats.  GraphSerial: for any graph of        *)
(* objects, any fields and any depth of the C stack.  AstSerial: for trees  *)
(* of any size and depth, any names, operators and integers.                *)
(***************************************************************************)
EXTENDS GraphSerial, AstSerial, SequenceTheorems, FiniteSetTheorems, TLAPS

(***************************************************************************)
(* Object graphs.                                                           *)
(***************************************************************************)

TypeOK ==
  /\ graph \in [Objects -> [Slots -> Objects \cup {Null}]] /\ root \in Objects
  /\ phase \in {"collect", "load", "done", "overflow"}
  /\ stack \in Seq(Call) /\ seen \in Seq(Objects)
  /\ loaded \in Seq([Slots -> Nat \cup {Null, Garbage}])

\* The a-th field followed from o is null or leads to an object of S.
FollowedTo(o, a, S) == graph[o][Walk[a]] = Null \/ graph[o][Walk[a]] \in S

\* The first n objects of a list.
Prefix(s, n) == {s[i] : i \in 1..n}
Seen == Prefix(seen, Len(seen))

\* No object is there twice, and what an object leads to is there before it.
PostOrder ==
  /\ \A i, j \in 1..Len(seen) : seen[i] = seen[j] => i = j
  /\ \A i \in 1..Len(seen), a \in 1..Len(Walk) : FollowedTo(seen[i], a, Prefix(seen, i - 1))

\* The objects of the calls on the stack wait to be collected; each was called
\* from the field the one below is at, whose earlier fields are done.
CallChain ==
  /\ stack # <<>> => stack[1].obj = root
  /\ \A i \in 1..Len(stack) : stack[i].obj \notin Seen
  /\ \A i \in 1..Len(stack) : stack[i].at <= Len(Walk) + 1
  /\ \A i \in 1..(Len(stack) - 1) :
       /\ stack[i].at > 1
       /\ stack[i + 1].obj = graph[stack[i].obj][Walk[stack[i].at - 1]]
  /\ \A i \in 1..Len(stack), a \in 1..Len(Walk) :
       a < stack[i].at - (IF i = Len(stack) THEN 0 ELSE 1) => FollowedTo(stack[i].obj, a, Seen)

RootIsLast == seen # <<>> /\ seen[Len(seen)] = root

\* The records of the file, and those read so far.
FileWritten ==
  /\ file = [i \in 1..Len(seen) |-> Record(i)] /\ Len(loaded) <= Len(file)
  /\ \A i \in 1..Len(loaded) : loaded[i] = Restored(i)

GInv ==
  /\ TypeOK /\ PostOrder
  /\ phase = "collect" => CallChain /\ (stack = <<>> => RootIsLast)
  /\ phase \in {"load", "done"} => RootIsLast /\ FileWritten
  /\ phase = "collect" => loaded = <<>>
  /\ phase = "done" => Len(loaded) = Len(file)
  /\ phase = "overflow" => Len(stack) >= MaxStack

-----------------------------------------------------------------------------
(* The sequences.                                                           *)

\* The search of the NrPtrSet finds what is in it.
LEMMA SeenIsIn ==
  ASSUME TypeOK, NEW o PROVE InSeen(o) <=> o \in Seen
BY DEF InSeen, Seen, Prefix

\* The stack without its last call, and with one or two calls instead.
LEMMA StackFacts ==
  ASSUME NEW S, NEW s \in Seq(S), s # <<>>, NEW x \in S, NEW y \in S
  PROVE  LET n == Len(s)  r == SubSeq(s, 1, n - 1) IN
         /\ n \in Nat /\ n > 0 /\ s[n] \in S
         /\ r \in Seq(S) /\ Len(r) = n - 1 /\ \A i \in 1..(n - 1) : r[i] = s[i]
         /\ Append(r, x) \in Seq(S) /\ Len(Append(r, x)) = n
         /\ Append(r, x)[n] = x /\ \A i \in 1..(n - 1) : Append(r, x)[i] = s[i]
         /\ Append(Append(r, x), y) \in Seq(S) /\ Len(Append(Append(r, x), y)) = n + 1
         /\ Append(Append(r, x), y)[n + 1] = y /\ Append(Append(r, x), y)[n] = x
         /\ \A i \in 1..(n - 1) : Append(Append(r, x), y)[i] = s[i]
<1> DEFINE n == Len(s)  r == SubSeq(s, 1, n - 1)
<1>1. n \in Nat /\ n > 0
  OBVIOUS
<1>2. \A i \in 1..n : s[i] \in S
  OBVIOUS
<1>3. r = [i \in 1..(n - 1) |-> s[i]]
  BY <1>1
<1> HIDE DEF r
<1>4. n - 1 \in Nat /\ r \in [1..(n - 1) -> S]
  <2>1. \A i \in 1..(n - 1) : i \in 1..n /\ s[i] \in S
    BY <1>1, <1>2
  <2>2. QED
    BY <1>1, <1>3, <2>1
<1>5. r \in Seq(S) /\ Len(r) = n - 1 /\ \A i \in 1..(n - 1) : r[i] = s[i]
  BY <1>3, <1>4
<1>6. /\ Append(r, x) \in Seq(S) /\ Len(Append(r, x)) = n
      /\ Append(r, x)[n] = x /\ \A i \in 1..(n - 1) : Append(r, x)[i] = s[i]
  BY <1>1, <1>5
<1> DEFINE t == Append(r, x)
<1> HIDE DEF t
<1>7. t \in Seq(S) /\ Len(t) = n /\ t[n] = x /\ \A i \in 1..(n - 1) : t[i] = s[i]
  BY <1>6 DEF t
<1>8. /\ Append(t, y) \in Seq(S) /\ Len(Append(t, y)) = n + 1
      /\ Append(t, y)[n + 1] = y /\ \A i \in 1..n : Append(t, y)[i] = t[i]
  BY <1>1, <1>7
<1>9. Append(t, y)[n] = x /\ \A i \in 1..(n - 1) : Append(t, y)[i] = s[i]
  BY <1>1, <1>7, <1>8
<1>10. QED
  BY <1>1, <1>2, <1>5, <1>6, <1>8, <1>9 DEF r, t

\* The call on top, and the object its field leads to.
LEMMA TopFacts ==
  ASSUME TypeOK, stack # <<>>
  PROVE  /\ Len(stack) \in Nat /\ Len(stack) > 0 /\ Len(stack) \in 1..Len(stack)
         /\ Top \in Call /\ Top = stack[Len(stack)]
         /\ [Top EXCEPT !.at = @ + 1] \in Call
         /\ [Top EXCEPT !.at = @ + 1].obj = Top.obj /\ [Top EXCEPT !.at = @ + 1].at = Top.at + 1
         /\ Top.at <= Len(Walk) => Child \in Objects \cup {Null}
<1>1. Len(stack) \in Nat /\ Len(stack) > 0 /\ Len(stack) \in 1..Len(stack)
  BY DEF TypeOK
<1>2. stack[Len(stack)] \in Call
  BY <1>1 DEF TypeOK
<1>3. Top \in Call /\ Top = stack[Len(stack)]
  BY <1>2 DEF Top
<1>4. /\ [Top EXCEPT !.at = @ + 1] \in Call
      /\ [Top EXCEPT !.at = @ + 1].obj = Top.obj /\ [Top EXCEPT !.at = @ + 1].at = Top.at + 1
  BY <1>3 DEF Call
<1>5. ASSUME Top.at <= Len(Walk) PROVE Child \in Objects \cup {Null}
  <2>1. Top.at \in 1..Len(Walk) /\ Top.obj \in Objects
    BY <1>3, <1>5, GraphAssumption DEF Call
  <2>2. Walk[Top.at] \in Slots
    BY <2>1, GraphAssumption
  <2>3. QED
    BY <2>1, <2>2 DEF Child, TypeOK
<1>6. QED
  BY <1>1, <1>3, <1>4, <1>5

-----------------------------------------------------------------------------
(* The steps.                                                               *)

\* Nothing has been collected yet.
LEMMA InitGInv == Init => GInv
<1> SUFFICES ASSUME Init PROVE GInv
  OBVIOUS
<1>1. [obj |-> root, at |-> 1] \in Call
  BY DEF Init, Call
<1>2. TypeOK
  BY <1>1 DEF Init, TypeOK
<1>3. PostOrder
  BY DEF Init, PostOrder
<1>4. Len(stack) = 1 /\ stack[1] = [obj |-> root, at |-> 1] /\ Seen = {} /\ Len(Walk) \in Nat
  BY GraphAssumption DEF Init, Seen, Prefix
<1>5. CallChain
  <2>1. /\ stack[1].obj = root /\ stack[1].at = 1 /\ 1..Len(stack) = {1} /\ 1..(Len(stack) - 1) = {}
    BY <1>4
  <2>2. \A a \in 1..Len(Walk) : ~(a < 1 - 0)
    BY <1>4
  <2>3. QED
    BY <1>4, <2>1, <2>2 DEF CallChain
<1>6. QED
  BY <1>2, <1>3, <1>4, <1>5 DEF Init, GInv

\* No step changes what a field leads to.
LEMMA SameFollowed ==
  ASSUME UNCHANGED graph, NEW o, NEW a, NEW S PROVE FollowedTo(o, a, S)' <=> FollowedTo(o, a, S)
BY DEF FollowedTo

\* Steps that collect nothing.
LEMMA SamePostOrder ==
  ASSUME UNCHANGED <<graph, seen>> PROVE Seen' = Seen /\ (PostOrder => PostOrder')
BY DEF Seen, Prefix, PostOrder, FollowedTo

\* _collect_graph_X passes a null pointer, or an object it has seen.
LEMMA SkipKeeps ==
  ASSUME GInv, Skip PROVE GInv'
<1> DEFINE n == Len(stack)  next == [Top EXCEPT !.at = @ + 1]
<1>1. TypeOK /\ CallChain /\ PostOrder /\ loaded = <<>>
  BY DEF GInv, Skip
<1>2. /\ phase = "collect" /\ stack # <<>> /\ Top.at <= Len(Walk) /\ (Child = Null \/ InSeen(Child))
      /\ stack' = Append(Rest, next) /\ UNCHANGED <<graph, root, phase, seen, file, loaded>>
  BY DEF Skip
<1>3. /\ n \in Nat /\ n > 0 /\ n \in 1..n /\ Top \in Call /\ Top = stack[n] /\ next \in Call
      /\ next.obj = Top.obj /\ next.at = Top.at + 1
  BY <1>1, <1>2, TopFacts
<1> HIDE DEF next
<1>4. /\ stack' \in Seq(Call) /\ Len(stack') = n /\ stack'[n] = next
      /\ \A i \in 1..(n - 1) : stack'[i] = stack[i]
  BY <1>1, <1>2, <1>3, StackFacts DEF Rest, TypeOK
<1>5. Seen' = Seen /\ PostOrder'
  BY <1>1, <1>2, SamePostOrder
<1>6. \A i \in 1..n : stack'[i].obj = stack[i].obj /\ (i # n => stack'[i] = stack[i])
  BY <1>3, <1>4
<1>7. FollowedTo(Top.obj, Top.at, Seen)
  BY <1>1, <1>2, SeenIsIn DEF FollowedTo, Child
<1>8. CallChain'
  <2>1. stack'[1].obj = root'
    BY <1>1, <1>2, <1>3, <1>6 DEF CallChain
  <2>2. \A i \in 1..n : stack'[i].obj \notin Seen'
    BY <1>1, <1>5, <1>6 DEF CallChain
  <2>3. \A i \in 1..n : stack'[i].at <= Len(Walk) + 1
    BY <1>1, <1>2, <1>3, <1>4, <1>6, GraphAssumption DEF CallChain, Call
  <2>4. ASSUME NEW i \in 1..(n - 1)
        PROVE  /\ stack'[i].at > 1
               /\ stack'[i + 1].obj = graph[stack'[i].obj][Walk[stack'[i].at - 1]]
    <3>1. i \in 1..n /\ i + 1 \in 1..n /\ i # n
      BY <1>3
    <3>2. QED
      BY <1>1, <1>6, <3>1 DEF CallChain
  <2>5. ASSUME NEW i \in 1..n, NEW a \in 1..Len(Walk),
               a < stack'[i].at - (IF i = n THEN 0 ELSE 1)
        PROVE  FollowedTo(stack'[i].obj, a, Seen)
    <3>1. CASE i # n
      BY <1>1, <1>6, <2>5, <3>1 DEF CallChain
    <3>2. CASE i = n /\ a = Top.at
      BY <1>3, <1>6, <1>7, <3>2
    <3>3. CASE i = n /\ a # Top.at
      <4>1. a < Top.at /\ stack'[i].obj = Top.obj
        BY <1>3, <1>4, <2>5, <3>3, GraphAssumption DEF Call
      <4>2. a < stack[n].at - 0 /\ stack[n].obj = Top.obj
        BY <1>3, <4>1, GraphAssumption DEF Call
      <4>3. QED
        BY <1>1, <1>3, <4>1, <4>2 DEF CallChain
    <3>4. QED
      BY <3>1, <3>2, <3>3
  <2>6. QED
    BY ZenonT(30), <1>2, <1>4, <1>5, <2>1, <2>2, <2>3, <2>4, <2>5 DEF CallChain, FollowedTo
<1>9. TypeOK' /\ stack' # <<>>
  BY <1>1, <1>2, <1>3, <1>4 DEF TypeOK
<1>10. QED
  BY <1>1, <1>2, <1>5, <1>8, <1>9 DEF GInv

\* _collect_graph_X calls itself for an object it has not seen.
LEMMA DescendKeeps ==
  ASSUME GInv, Descend PROVE GInv'
<1> DEFINE n == Len(stack)  next == [Top EXCEPT !.at = @ + 1]  call == [obj |-> Child, at |-> 1]
<1>1. TypeOK /\ CallChain /\ PostOrder /\ loaded = <<>>
  BY DEF GInv, Descend
<1>2. /\ phase = "collect" /\ stack # <<>> /\ Top.at <= Len(Walk) /\ Child # Null /\ ~InSeen(Child)
      /\ UNCHANGED <<graph, root, seen, file, loaded>>
  BY DEF Descend
<1>3. /\ n \in Nat /\ n > 0 /\ n \in 1..n /\ Top \in Call /\ Top = stack[n] /\ next \in Call
      /\ next.obj = Top.obj /\ next.at = Top.at + 1
  BY <1>1, <1>2, TopFacts
<1>4. /\ call \in Call /\ call.obj = Child /\ call.at = 1
      /\ Child = graph[Top.obj][Walk[Top.at]] /\ Child \notin Seen
  BY <1>1, <1>2, TopFacts, SeenIsIn DEF Call, Child
<1>5. \/ phase' = "overflow" /\ stack' = stack /\ n >= MaxStack
      \/ phase' = phase /\ stack' = Append(Append(Rest, next), call)
  <2>1. CASE Len(stack) < MaxStack
    BY <2>1 DEF Descend
  <2>2. CASE ~(Len(stack) < MaxStack)
    <3>1. phase' = "overflow" /\ stack' = stack
      BY <2>2 DEF Descend
    <3>2. n >= MaxStack
      BY <1>3, <2>2, GraphAssumption
    <3>3. QED
      BY <3>1, <3>2
  <2>3. QED
    BY <2>1, <2>2
<1>6. Seen' = Seen /\ PostOrder'
  BY <1>1, <1>2, SamePostOrder
<1> HIDE DEF next, call
<1>7. CASE phase' = "overflow" /\ stack' = stack /\ n >= MaxStack
  BY <1>1, <1>2, <1>6, <1>7 DEF GInv, TypeOK
<1>8. CASE phase' = phase /\ stack' = Append(Append(Rest, next), call)
  <2>1. /\ stack' \in Seq(Call) /\ Len(stack') = n + 1 /\ stack'[n + 1] = call /\ stack'[n] = next
        /\ \A i \in 1..(n - 1) : stack'[i] = stack[i]
    <3>1. stack \in Seq(Call) /\ stack # <<>> /\ next \in Call /\ call \in Call
      BY <1>1, <1>2, <1>3, <1>4 DEF TypeOK
    <3> DEFINE s == Append(Append(Rest, next), call)
    <3>2. /\ s \in Seq(Call) /\ Len(s) = n + 1 /\ s[n + 1] = call /\ s[n] = next
          /\ \A i \in 1..(n - 1) : s[i] = stack[i]
      BY SMTT(30), <3>1, StackFacts DEF Rest
    <3>3. stack' = s
      BY <1>8
    <3> QED
      BY <3>2, <3>3
  <2>2. \A i \in 1..n : stack'[i].obj = stack[i].obj /\ (i # n => stack'[i] = stack[i])
    BY <1>3, <2>1
  <2>3. \A i \in 1..(n + 1) : i = n + 1 \/ i \in 1..n
    BY <1>3
  <2>4. CallChain'
    <3>1. stack'[1].obj = root'
      BY <1>1, <1>2, <1>3, <2>2 DEF CallChain
    <3>2. \A i \in 1..(n + 1) : stack'[i].obj \notin Seen'
      BY <1>1, <1>4, <1>6, <2>1, <2>2, <2>3 DEF CallChain
    <3>3. \A i \in 1..(n + 1) : stack'[i].at <= Len(Walk) + 1
      <4>1. next.at <= Len(Walk) + 1 /\ call.at <= Len(Walk) + 1
        BY <1>2, <1>3, <1>4, GraphAssumption DEF Call
      <4>2. \A i \in 1..n : stack'[i].at <= Len(Walk) + 1
        BY <1>1, <2>1, <2>2, <4>1 DEF CallChain
      <4>3. QED
        BY <2>1, <2>3, <4>1, <4>2
    <3>4. ASSUME NEW i \in 1..n
          PROVE  /\ stack'[i].at > 1
                 /\ stack'[i + 1].obj = graph[stack'[i].obj][Walk[stack'[i].at - 1]]
      <4>1. CASE i # n
        <5>1. i \in 1..(n - 1) /\ i + 1 \in 1..n
          BY <1>3, <4>1
        <5>2. QED
          BY <1>1, <2>2, <4>1, <5>1 DEF CallChain
      <4>2. CASE i = n
        <5>1. Top.at \in Nat \ {0} /\ next.at - 1 = Top.at
          BY <1>3 DEF Call
        <5>2. stack'[i] = next /\ stack'[i + 1] = call
          BY <2>1, <4>2
        <5>3. QED
          BY <1>3, <1>4, <5>1, <5>2
      <4>3. QED
        BY <4>1, <4>2
    <3>5. ASSUME NEW i \in 1..(n + 1), NEW a \in 1..Len(Walk),
                 a < stack'[i].at - (IF i = n + 1 THEN 0 ELSE 1)
          PROVE  FollowedTo(stack'[i].obj, a, Seen)
      <4>1. i # n + 1 /\ i \in 1..n
        BY <1>4, <2>1, <2>3, <3>5, GraphAssumption
      <4>2. CASE i # n
        BY <1>1, <2>2, <3>5, <4>1, <4>2 DEF CallChain
      <4>3. CASE i = n
        <5>1. a < Top.at - 0 /\ stack'[i].obj = Top.obj
          BY <1>3, <2>1, <3>5, <4>1, <4>3, GraphAssumption DEF Call
        <5>2. QED
          BY <1>1, <1>3, <5>1 DEF CallChain
      <4>4. QED
        BY <4>2, <4>3
    <3>6. n + 1 - 1 = n
      BY <1>3
    <3>7. QED
      BY <1>2, <1>6, <2>1, <3>1, <3>2, <3>3, <3>4, <3>5, <3>6 DEF CallChain, FollowedTo
  <2>5. TypeOK' /\ stack' # <<>>
    BY <1>1, <1>2, <1>3, <1>8, <2>1 DEF TypeOK
  <2>6. QED
    BY <1>1, <1>2, <1>6, <1>8, <2>4, <2>5 DEF GInv
<1>9. QED
  BY <1>5, <1>7, <1>8

\* The call on top is done: its object is new, and after it the call below has one
\* more field done.
LEMMA CollectKeeps ==
  ASSUME GInv, Collect PROVE GInv'
<1> DEFINE n == Len(stack)  o == Top.obj  m == Len(seen)
<1>1. TypeOK /\ CallChain /\ PostOrder /\ loaded = <<>>
  BY DEF GInv, Collect
<1>2. /\ phase = "collect" /\ stack # <<>> /\ Top.at > Len(Walk)
      /\ seen' = Added(o) /\ stack' = Rest /\ UNCHANGED <<graph, root, phase, file, loaded>>
  BY DEF Collect
<1>3. n \in Nat /\ n > 0 /\ n \in 1..n /\ Top \in Call /\ Top = stack[n] /\ o \in Objects
  BY <1>1, <1>2, TopFacts DEF Call
<1>4. o \notin Seen
  BY <1>1, <1>3 DEF CallChain
<1>5. seen' = Append(seen, o) /\ m \in Nat /\ seen \in Seq(Objects)
  BY <1>1, <1>2, <1>4, SeenIsIn DEF Added, TypeOK
<1> HIDE DEF o
<1>6. /\ seen' \in Seq(Objects) /\ Len(seen') = m + 1 /\ seen'[m + 1] = o
      /\ \A i \in 1..m : seen'[i] = seen[i]
  BY <1>3, <1>5
<1>7. /\ stack' \in Seq(Call) /\ Len(stack') = n - 1 /\ \A i \in 1..(n - 1) : stack'[i] = stack[i]
  BY <1>1, <1>2, <1>3, StackFacts DEF Rest, TypeOK
<1>8. /\ Seen' = Seen \cup {o} /\ \A i \in 1..m : Prefix(seen', i - 1) = Prefix(seen, i - 1)
      /\ Prefix(seen', m + 1 - 1) = Seen
  <2>1. \A i \in 1..(m + 1) : i = m + 1 \/ i \in 1..m
    BY <1>5
  <2>2. 1..m \subseteq 1..(m + 1) /\ m + 1 \in 1..(m + 1) /\ m + 1 - 1 = m
    BY <1>5
  <2>3. Seen' = Seen \cup {o}
    BY <1>6, <2>1, <2>2 DEF Seen, Prefix
  <2>4. Prefix(seen', m) = Seen
    BY <1>6 DEF Seen, Prefix
  <2>5. ASSUME NEW i \in 1..m PROVE Prefix(seen', i - 1) = Prefix(seen, i - 1)
    <3>1. \A j \in 1..(i - 1) : j \in 1..m
      BY <1>5
    <3>2. QED
      BY <1>6, <3>1 DEF Prefix
  <2>6. QED
    BY <2>2, <2>3, <2>4, <2>5
\* All fields of the object are done.
<1>9. \A a \in 1..Len(Walk) : FollowedTo(o, a, Seen)
  <2>1. \A a \in 1..Len(Walk) : a < Top.at - 0
    BY <1>2, <1>3, GraphAssumption DEF Call
  <2>2. QED
    BY <1>1, <1>3, <2>1 DEF CallChain, o
\* A call of the same object further down would have called for an object collected.
<1>10. \A i \in 1..(n - 1) : stack[i].obj # o
  <2> SUFFICES ASSUME NEW i \in 1..(n - 1), stack[i].obj = o PROVE FALSE
    OBVIOUS
  <2>1. i \in 1..n /\ i + 1 \in 1..n
    BY <1>3
  <2>2. stack[i] \in Call /\ stack[i + 1] \in Call
    BY <1>1, <2>1 DEF TypeOK
  <2>3. stack[i].at - 1 \in 1..Len(Walk)
    BY <1>1, <2>1, <2>2, GraphAssumption DEF CallChain, Call
  <2>4. stack[i + 1].obj = graph[o][Walk[stack[i].at - 1]]
    BY <1>1 DEF CallChain
  <2>5. stack[i + 1].obj = Null \/ stack[i + 1].obj \in Seen
    BY <1>9, <2>3, <2>4 DEF FollowedTo
  <2>6. QED
    BY <1>1, <2>1, <2>2, <2>5, GraphAssumption DEF CallChain, Call
<1>11. PostOrder'
  <2>1. \A i \in 1..(m + 1) : i = m + 1 \/ i \in 1..m
    BY <1>5
  <2>2. \A i \in 1..m : seen[i] # o
    BY <1>4 DEF Seen, Prefix
  <2>3. ASSUME NEW i \in 1..(m + 1), NEW j \in 1..(m + 1), seen'[i] = seen'[j] PROVE i = j
    BY <1>1, <1>6, <2>1, <2>2, <2>3 DEF PostOrder
  <2>4. ASSUME NEW i \in 1..(m + 1), NEW a \in 1..Len(Walk)
        PROVE  FollowedTo(seen'[i], a, Prefix(seen', i - 1))
    <3>1. CASE i = m + 1
      BY <1>6, <1>8, <1>9, <3>1
    <3>2. CASE i # m + 1
      BY <1>1, <1>6, <1>8, <2>1, <3>2 DEF PostOrder
    <3>3. QED
      BY <3>1, <3>2
  <2>5. QED
    BY <1>2, <1>6, <2>3, <2>4 DEF PostOrder, FollowedTo
<1>12. CallChain'
  <2>1. ASSUME stack' # <<>> PROVE stack'[1].obj = root'
    <3>1. 1 \in 1..(n - 1)
      BY <1>7, <2>1
    <3>2. QED
      BY <1>1, <1>2, <1>7, <3>1 DEF CallChain
  <2>2. \A i \in 1..(n - 1) : i \in 1..n /\ i # n
    BY <1>3
  <2>3. \A i \in 1..(n - 1) : stack'[i].obj \notin Seen' /\ stack'[i].at <= Len(Walk) + 1
    BY <1>1, <1>7, <1>8, <1>10, <2>2 DEF CallChain
  <2>4. ASSUME NEW i \in 1..(n - 1 - 1)
        PROVE  /\ stack'[i].at > 1
               /\ stack'[i + 1].obj = graph[stack'[i].obj][Walk[stack'[i].at - 1]]
    <3>1. i \in 1..(n - 1) /\ i + 1 \in 1..(n - 1)
      BY <1>3
    <3>2. QED
      BY <1>1, <1>7, <3>1 DEF CallChain
  <2>5. ASSUME NEW i \in 1..(n - 1), NEW a \in 1..Len(Walk),
               a < stack'[i].at - (IF i = n - 1 THEN 0 ELSE 1)
        PROVE  FollowedTo(stack'[i].obj, a, Seen \cup {o})
    <3>1. stack[i] \in Call /\ stack'[i] = stack[i]
      BY <1>1, <1>7, <2>2 DEF TypeOK
    <3>2. CASE a < stack[i].at - 1
      <4>1. FollowedTo(stack[i].obj, a, Seen)
        BY <1>1, <2>2, <3>2 DEF CallChain
      <4>2. QED
        BY <3>1, <4>1 DEF FollowedTo
    <3>3. CASE ~(a < stack[i].at - 1)
      <4>1. i = n - 1 /\ a = stack[i].at - 1
        BY <2>5, <3>1, <3>3, GraphAssumption DEF Call
      <4>2. stack[i + 1].obj = graph[stack[i].obj][Walk[a]] /\ i + 1 = n
        BY <1>1, <1>3, <4>1 DEF CallChain
      <4>3. QED
        BY <1>3, <3>1, <4>2 DEF FollowedTo, o
    <3>4. QED
      BY <3>2, <3>3
  <2>6. QED
    BY <1>2, <1>7, <1>8, <2>1, <2>3, <2>4, <2>5 DEF CallChain, FollowedTo
\* The call of the root is the last to end.
<1>13. ASSUME stack' = <<>> PROVE RootIsLast'
  <2>1. n = 1
    BY <1>3, <1>7, <1>13
  <2>2. o = root
    BY <1>1, <1>2, <1>3, <2>1 DEF CallChain, o
  <2>3. QED
    BY <1>2, <1>5, <1>6, <2>2 DEF RootIsLast
<1>14. TypeOK'
  BY <1>1, <1>2, <1>6, <1>7 DEF TypeOK
<1>15. QED
  BY <1>1, <1>2, <1>11, <1>12, <1>13, <1>14 DEF GInv

-----------------------------------------------------------------------------
(* The file.                                                                *)

\* A walked pointer is written as the index of the object, which is lower.
LEMMA IndexFinds ==
  ASSUME TypeOK, PostOrder, NEW j \in 1..Len(seen) PROVE Index(seen[j]) = j
<1>1. InSeen(seen[j])
  BY DEF InSeen
<1>2. Index(seen[j]) \in 1..Len(seen) /\ seen[Index(seen[j])] = seen[j]
  BY <1>1 DEF Index
<1>3. QED
  BY <1>2 DEF PostOrder

\* What a field of a record is read as.
LEMMA RestoredTyped ==
  ASSUME TypeOK, NEW i \in 1..Len(seen), file = [k \in 1..Len(seen) |-> Record(k)]
  PROVE  /\ Restored(i) \in [Slots -> Nat \cup {Null, Garbage}]
         /\ \A s \in Slots : file[i][s] = IF graph[seen[i]][s] = Null THEN 0 ELSE Index(graph[seen[i]][s])
<1>1. \A o : Index(o) \in Nat
  <2> SUFFICES ASSUME NEW o, InSeen(o) PROVE Index(o) \in Nat
    BY DEF Index
  <2>1. Index(o) \in 1..Len(seen)
    BY DEF InSeen, Index
  <2>2. QED
    BY <2>1
<1>2. \A s \in Slots : file[i][s] = IF graph[seen[i]][s] = Null THEN 0 ELSE Index(graph[seen[i]][s])
  BY DEF Record
<1>3. \A s \in Slots : file[i][s] \in Nat
  BY <1>1, <1>2
<1>4. QED
  BY <1>2, <1>3 DEF Restored

\* save_X writes a record for each object collected.
LEMMA SaveKeeps ==
  ASSUME GInv, Save PROVE GInv'
<1>1. /\ TypeOK /\ PostOrder /\ RootIsLast /\ loaded = <<>>
      /\ file' = [i \in 1..Len(seen) |-> Record(i)] /\ phase' = "load"
      /\ UNCHANGED <<graph, root, stack, seen, loaded>>
  BY DEF GInv, Save
<1>2. PostOrder' /\ TypeOK' /\ RootIsLast'
  BY <1>1, SamePostOrder DEF TypeOK, RootIsLast
<1>3. file' = [i \in 1..Len(seen') |-> Record(i)']
  BY <1>1 DEF Record, Index, InSeen
<1>4. Len(loaded') = 0 /\ Len(file') = Len(seen) /\ Len(seen) \in Nat
  BY <1>1 DEF TypeOK
<1>5. FileWritten'
  BY <1>3, <1>4 DEF FileWritten
<1>6. QED
  BY <1>1, <1>2, <1>5 DEF GInv

\* load_X restores the next record; its indices point to records before it or to itself.
LEMMA LoadKeeps ==
  ASSUME GInv, Load PROVE GInv'
<1> DEFINE n == Len(loaded)  r == Restored(n + 1)
<1>1. /\ TypeOK /\ PostOrder /\ RootIsLast /\ FileWritten /\ phase = "load" /\ n < Len(file)
      /\ loaded' = Append(loaded, r) /\ UNCHANGED <<graph, root, phase, stack, seen, file>>
  BY DEF GInv, Load
<1>2. /\ Len(file) = Len(seen) /\ Len(seen) \in Nat /\ n \in Nat /\ n + 1 \in 1..Len(seen)
      /\ loaded \in Seq([Slots -> Nat \cup {Null, Garbage}])
  BY <1>1 DEF FileWritten, TypeOK
<1>3. r \in [Slots -> Nat \cup {Null, Garbage}]
  BY <1>1, <1>2, RestoredTyped DEF FileWritten
<1> HIDE DEF r
<1>4. /\ loaded' \in Seq([Slots -> Nat \cup {Null, Garbage}]) /\ Len(loaded') = n + 1
      /\ loaded'[n + 1] = r /\ \A i \in 1..n : loaded'[i] = loaded[i]
  BY <1>1, <1>2, <1>3
<1>5. PostOrder' /\ TypeOK' /\ RootIsLast'
  BY <1>1, <1>4, SamePostOrder DEF TypeOK, RootIsLast
<1>6. \A i : Restored(i)' = Restored(i) /\ Record(i)' = Record(i)
  BY <1>1 DEF Restored, Record, Index, InSeen
<1>7. FileWritten'
  <2>1. \A i \in 1..(n + 1) : i = n + 1 \/ i \in 1..n
    BY <1>2
  <2>2. \A i \in 1..(n + 1) : loaded'[i] = Restored(i)
    BY <1>1, <1>4, <2>1 DEF FileWritten, r
  <2>3. n + 1 <= Len(file)
    BY <1>1, <1>2
  <2>4. QED
    BY <1>1, <1>4, <1>6, <2>2, <2>3 DEF FileWritten
<1>8. QED
  BY <1>1, <1>5, <1>7 DEF GInv

\* Every step of saving and loading keeps the invariant.
LEMMA NextGInv == GInv /\ [Next]_vars => GInv'
<1> SUFFICES ASSUME GInv, [Next]_vars PROVE GInv'
  OBVIOUS
<1>1. CASE Loaded \/ Stop \/ UNCHANGED vars
  <2>1. /\ UNCHANGED <<graph, root, stack, seen, file, loaded>>
        /\ \/ phase' = phase
           \/ phase = "load" /\ phase' = "done" /\ Len(loaded) = Len(file)
    BY <1>1 DEF Loaded, Stop, vars
  <2>2. \A i : Restored(i)' = Restored(i) /\ Record(i)' = Record(i) /\ InSeen(i)' = InSeen(i)
    BY <2>1 DEF Restored, Record, Index, InSeen
  <2>3. TypeOK' /\ PostOrder' /\ Seen' = Seen
    BY <2>1, SamePostOrder DEF GInv, TypeOK
  <2>4. (CallChain => CallChain') /\ (RootIsLast => RootIsLast')
    BY <2>1, <2>3 DEF CallChain, FollowedTo, RootIsLast
  <2>5. FileWritten => FileWritten'
    BY <2>1, <2>2 DEF FileWritten
  <2>6. QED
    BY <2>1, <2>3, <2>4, <2>5 DEF GInv
<1>2. QED
  BY <1>1, SkipKeeps, DescendKeeps, CollectKeeps, SaveKeeps, LoadKeeps DEF Next

-----------------------------------------------------------------------------
(* What is loaded.                                                          *)

\* Records are read as they were written, up to the place where they stand.
LEMMA LoadedIs ==
  ASSUME GInv, phase = "done", NEW i \in 1..Len(seen), NEW s \in Slots
  PROVE  LET c == graph[seen[i]][s]  k == Index(c) IN
         loaded[i][s] = IF c = Null \/ k = 0 THEN Null ELSE IF k <= i THEN k ELSE Garbage
<1>1. TypeOK /\ FileWritten /\ Len(loaded) = Len(file) /\ Len(file) = Len(seen) /\ Len(seen) \in Nat
  BY DEF GInv, FileWritten, TypeOK
<1>2. loaded[i] = Restored(i)
  BY <1>1 DEF FileWritten
<1>3. file[i][s] = IF graph[seen[i]][s] = Null THEN 0 ELSE Index(graph[seen[i]][s])
  BY <1>1, RestoredTyped DEF FileWritten
<1>4. loaded[i][s] = IF file[i][s] = 0 THEN Null ELSE IF file[i][s] <= i THEN file[i][s] ELSE Garbage
  BY <1>2 DEF Restored
<1>5. QED
  BY <1>3, <1>4

\* What is collected by a followed pointer stands before the object with the pointer.
LEMMA FollowedAreLoaded ==
  ASSUME GInv, phase = "done" PROVE FollowedRestored
<1>1. TypeOK /\ PostOrder /\ Len(seen) \in Nat
  BY DEF GInv, TypeOK
<1> SUFFICES ASSUME NEW i \in 1..Len(seen), NEW a \in 1..Len(Walk)
             PROVE  Exact(i, Walk[a]) /\ (loaded[i][Walk[a]] = Null \/ loaded[i][Walk[a]] < i)
  BY DEF FollowedRestored, Followed
<1> DEFINE s == Walk[a]  c == graph[seen[i]][s]  k == Index(c)
<1>2. s \in Slots
  BY GraphAssumption
<1>3. loaded[i][s] = IF c = Null \/ k = 0 THEN Null ELSE IF k <= i THEN k ELSE Garbage
  BY <1>2, LoadedIs
<1>4. c = Null \/ c \in Prefix(seen, i - 1)
  BY <1>1 DEF PostOrder, FollowedTo
<1> HIDE DEF s, c, k
<1>5. CASE c = Null
  BY <1>3, <1>5 DEF s, c, Exact
<1>6. CASE c # Null
  <2>1. PICK j \in 1..(i - 1) : c = seen[j]
    BY <1>4, <1>6 DEF Prefix
  <2>2. j \in 1..Len(seen) /\ j < i /\ j <= i /\ j # 0
    BY <1>1
  <2>3. k = j
    BY <1>1, <2>1, <2>2, IndexFinds DEF k
  <2>4. loaded[i][s] = j
    BY <1>3, <1>6, <2>2, <2>3
  <2>5. QED
    BY <2>1, <2>2, <2>4 DEF s, c, Exact
<1>7. QED
  BY <1>5, <1>6 DEF s

\* The other pointers are looked up in a table that is filled up to the object with the pointer.
LEMMA BackReferencesAreLoaded ==
  ASSUME GInv, phase = "done" PROVE BackReferencesRestored
<1>1. TypeOK /\ PostOrder /\ Len(seen) \in Nat
  BY DEF GInv, TypeOK
<1> SUFFICES ASSUME NEW i \in 1..Len(seen), NEW s \in Slots \ Followed
             PROVE  \/ Exact(i, s)
                    \/ ~InSeen(graph[seen[i]][s]) /\ loaded[i][s] = Null
                    \/ loaded[i][s] = Garbage /\ \E j \in (i + 1)..Len(seen) : seen[j] = graph[seen[i]][s]
  BY DEF BackReferencesRestored
<1> DEFINE c == graph[seen[i]][s]  k == Index(c)
<1>2. loaded[i][s] = IF c = Null \/ k = 0 THEN Null ELSE IF k <= i THEN k ELSE Garbage
  BY LoadedIs
<1>3. ~InSeen(c) => k = 0
  BY DEF Index
<1>4. InSeen(c) => k \in 1..Len(seen) /\ seen[k] = c
  BY DEF Index, InSeen
<1> HIDE DEF c, k
<1>5. CASE c = Null
  BY <1>2, <1>5 DEF c, Exact
<1>6. CASE c # Null /\ ~InSeen(c)
  BY <1>2, <1>3, <1>6 DEF c
<1>7. CASE c # Null /\ InSeen(c) /\ k <= i
  BY <1>2, <1>4, <1>7 DEF c, Exact
<1>8. CASE c # Null /\ InSeen(c) /\ ~(k <= i)
  <2>1. k \in (i + 1)..Len(seen) /\ loaded[i][s] = Garbage
    BY <1>1, <1>2, <1>4, <1>8
  <2>2. QED
    BY <1>4, <1>8, <2>1 DEF c
<1>9. QED
  BY <1>5, <1>6, <1>7, <1>8

\* A graph that has been loaded is the graph that was saved, for any objects, pointers and
\* depth of the C stack: the recursive collection puts what an object leads to before it, so
\* load_X, which makes the objects in that order, has made what a followed pointer leads to;
\* a back reference is only right if it leads back in the file.
THEOREM RestoredCorrect == Spec => [](phase = "done" => EachOnce /\ FollowedRestored /\ BackReferencesRestored)
<1>1. GInv => (phase = "done" => EachOnce)
  BY DEF GInv, TypeOK, PostOrder, RootIsLast, FileWritten, EachOnce
<1>2. GInv => (phase = "done" => EachOnce /\ FollowedRestored /\ BackReferencesRestored)
  BY <1>1, FollowedAreLoaded, BackReferencesAreLoaded
<1>3. QED
  BY InitGInv, NextGInv, <1>2, PTL DEF Spec

\* The stack is full of calls for fewer objects.
LEMMA FullStackRepeats ==
  ASSUME GInv, phase = "overflow", IsFiniteSet(Objects), Cardinality(Objects) < MaxStack
  PROVE  ComesBack
<1> DEFINE n == Len(stack)  f == [i \in 1..n |-> stack[i].obj]
<1>1. n \in Nat /\ n >= MaxStack /\ MaxStack \in Nat /\ stack \in Seq(Call)
  <2>1. stack \in Seq(Call) /\ Len(stack) >= MaxStack
    BY DEF GInv, TypeOK
  <2>2. QED
    BY <2>1, GraphAssumption
<1>2. f \in [1..n -> Objects]
  <2>1. \A i \in 1..n : stack[i] \in Call
    BY <1>1
  <2>2. \A i \in 1..n : stack[i].obj \in Objects
    BY <2>1 DEF Call
  <2>3. QED
    BY <2>2
<1>3. IsFiniteSet(1..n) /\ Cardinality(1..n) = n
  <2>1. 1 \in Int /\ n \in Int /\ (IF 1 > n THEN 0 ELSE n - 1 + 1) = n
    BY <1>1
  <2> HIDE DEF n
  <2>2. QED
    BY <2>1, FS_Interval
<1>4. Cardinality(Objects) \in Nat
  BY FS_CardinalityType
<1> HIDE DEF f
<1>5. PICK i, j \in 1..n : i # j /\ f[i] = f[j]
  <2>1. Cardinality(Objects) < Cardinality(1..n)
    BY <1>1, <1>3, <1>4
  <2>2. QED
    BY <1>2, <1>3, <2>1, FS_PigeonHole
<1>6. stack[i].obj = stack[j].obj /\ (i < j \/ j < i)
  BY <1>1, <1>5 DEF f
<1>7. QED
  BY <1>6 DEF ComesBack

\* The same, and that a graph is saved unless its collection comes back to an object it is
\* about, if the C stack has room for a call per object.
THEOREM LoadedGraphCorrect ==
  ASSUME IsFiniteSet(Objects), Cardinality(Objects) < MaxStack
  PROVE  Spec => []LoadedGraphIsSaved
<1>1. GInv => (phase = "overflow" => ComesBack)
  BY FullStackRepeats
<1>2. (phase = "done" => EachOnce /\ FollowedRestored /\ BackReferencesRestored)
      /\ (phase = "overflow" => ComesBack) => LoadedGraphIsSaved
  BY DEF LoadedGraphIsSaved
<1>3. Spec => []GInv
  BY InitGInv, NextGInv, PTL DEF Spec
<1>4. QED
  BY RestoredCorrect, <1>1, <1>2, <1>3, PTL

(***************************************************************************)
(* Syntax trees.  At any time a reader of what has been written so far has   *)
(* read all of it without an error, and expects the fields that are still    *)
(* to be written (SerialInv).  Its states are a finite list (Run), so that    *)
(* what Deserialize computes by recursion can be reasoned about; a step that  *)
(* was no error stays the same when more is written (SameStep).               *)
(***************************************************************************)

Tags == ToSet(Statements) \cup ToSet(Expressions) \cup ToSet(Helpers)

\* The names of the three tables of tags, as sets: each step below tells them apart.
LEMMA StatementTags ==
  ToSet(Statements) = {"Module", "FunctionDef", "ClassDef", "Return", "Raise", "Expr", "If",
    "While", "For", "With", "Assign", "AugAssign", "AnnAssign", "Assert", "Break",
    "Continue", "Pass", "Import", "ImportFrom", "Match"}
BY DEF ToSet, Statements

\* The same for expressions.
LEMMA ExpressionTags ==
  ToSet(Expressions) = {"Constant", "Name", "Call", "Attribute", "Subscript", "BinOp",
  "UnaryOp", "BoolOp", "Compare", "IfExp", "Tuple", "List", "Set", "Dict", "JoinedStr",
  "FormattedValue", "ListComp", "Lambda"}
BY DEF ToSet, Expressions

\* The same for what is neither.
LEMMA HelperTags ==
  ToSet(Helpers) = {"arguments", "arg", "keyword", "alias", "comprehension", "withitem",
  "match_case", "MatchValue", "MatchOr", "MatchAs"}
BY DEF ToSet, Helpers

\* No tag is in two tables.
LEMMA WrittenIs ==
  /\ \A t \in ToSet(Statements) : Written(t) = WrittenStatement[t] /\ NativeReads(t) = NativeStatement[t]
  /\ \A t \in ToSet(Expressions) : Written(t) = WrittenExpression[t] /\ NativeReads(t) = NativeExpression[t]
  /\ \A t \in ToSet(Helpers) : Written(t) = WrittenHelper[t] /\ NativeReads(t) = NativeHelper[t]
<1>1. \A t \in ToSet(Statements) : Written(t) = WrittenStatement[t] /\ NativeReads(t) = NativeStatement[t]
  BY StatementTags, ExpressionTags DEF Written, NativeReads
<1>2. \A t \in ToSet(Expressions) : Written(t) = WrittenExpression[t] /\ NativeReads(t) = NativeExpression[t]
  BY StatementTags, ExpressionTags DEF Written, NativeReads
<1>3. \A t \in ToSet(Helpers) : Written(t) = WrittenHelper[t] /\ NativeReads(t) = NativeHelper[t]
  BY StatementTags, ExpressionTags, HelperTags DEF Written, NativeReads
<1> QED
  BY <1>1, <1>2, <1>3

-----------------------------------------------------------------------------
(* What each reader reads for what is written.                              *)

FieldOf(reader, item) ==
  IF reader = "native" THEN IF item[1] = "node?" THEN "node" ELSE item[1]
  ELSE IF item[1] \in {"bare", "ops", "const"} THEN item[1] ELSE "field"

FieldsOf(reader, items) == [i \in 1..Len(items) |-> FieldOf(reader, items[i])]

Classes == {"module", "stmt", "expr", "key", "args", "arg", "keyword", "alias", "withitem", "comp", "case",
  "pattern"}
Item == ({"node", "node?", "list", "bare"} \X Classes)
        \cup {Str, MaybeStr, Integer, Op, <<"ops", "op">>, <<"const", "const">>}
FieldNames == {"node", "list", "string", "int", "float", "bool", "op", "ops", "const", "bare", "field"}

\* Every entry of the table of what is written is one the lemmas below know.
LEMMA ItemIs ==
  /\ \A c \in Classes : Node(c) \in Item /\ MaybeNode(c) \in Item /\ List(c) \in Item /\ Bare(c) \in Item
  /\ Str \in Item /\ MaybeStr \in Item /\ Integer \in Item /\ Op \in Item
  /\ <<"const", "const">> \in Item /\ <<"ops", "op">> \in Item
  /\ "module" \in Classes /\ "stmt" \in Classes /\ "expr" \in Classes /\ "key" \in Classes
  /\ "args" \in Classes /\ "arg" \in Classes /\ "keyword" \in Classes /\ "alias" \in Classes
  /\ "withitem" \in Classes /\ "comp" \in Classes /\ "case" \in Classes /\ "pattern" \in Classes
  /\ "node" \in FieldNames /\ "list" \in FieldNames /\ "string" \in FieldNames /\ "int" \in FieldNames
  /\ "float" \in FieldNames /\ "bool" \in FieldNames /\ "op" \in FieldNames /\ "ops" \in FieldNames
  /\ "const" \in FieldNames /\ "bare" \in FieldNames /\ "field" \in FieldNames
BY DEF Item, Classes, FieldNames, Node, MaybeNode, List, Bare, Str, MaybeStr, Integer, Op

\* What the native reader expects for each of them.
LEMMA NativeField ==
  /\ \A c : FieldOf("native", Node(c)) = "node" /\ FieldOf("native", MaybeNode(c)) = "node"
         /\ FieldOf("native", List(c)) = "list" /\ FieldOf("native", Bare(c)) = "bare"
  /\ FieldOf("native", Str) = "string" /\ FieldOf("native", MaybeStr) = "string"
  /\ FieldOf("native", Integer) = "int" /\ FieldOf("native", Op) = "op"
  /\ FieldOf("native", <<"const", "const">>) = "const" /\ FieldOf("native", <<"ops", "op">>) = "ops"
BY DEF FieldOf, Node, MaybeNode, List, Bare, Str, MaybeStr, Integer, Op

\* What the Python reader expects: a prefixed field tells itself what it is.
LEMMA PythonField ==
  /\ \A c : FieldOf("python", Node(c)) = "field" /\ FieldOf("python", MaybeNode(c)) = "field"
         /\ FieldOf("python", List(c)) = "field" /\ FieldOf("python", Bare(c)) = "bare"
  /\ FieldOf("python", Str) = "field" /\ FieldOf("python", MaybeStr) = "field"
  /\ FieldOf("python", Integer) = "field" /\ FieldOf("python", Op) = "field"
  /\ FieldOf("python", <<"const", "const">>) = "const" /\ FieldOf("python", <<"ops", "op">>) = "ops"
BY DEF FieldOf, Node, MaybeNode, List, Bare, Str, MaybeStr, Integer, Op

Like(reader, items, fields) ==
  /\ fields \in Seq(FieldNames) /\ Len(fields) = Len(items)
  /\ \A i \in 1..Len(items) : fields[i] = FieldOf(reader, items[i])

Row(items, native, python) ==
  items \in Seq(Item) /\ Like("native", items, native) /\ Like("python", items, python)

\* The rows of the Python reader, by tag.
LEMMA PythonRows ==
  /\ \A t \in {"Break", "Continue", "Pass"} : PythonReads(t) = <<>>
  /\ \A t \in {"Module", "Return", "Raise", "Expr", "Import", "MatchValue", "MatchOr", "Name", "Tuple",
              "List", "Set", "JoinedStr"} : PythonReads(t) = Fields(1)
  /\ \A t \in {"While", "With", "Assign", "Assert", "ImportFrom", "Match", "MatchAs", "Attribute",
              "Subscript", "UnaryOp", "BoolOp", "Dict", "ListComp", "arg", "keyword", "alias",
              "withitem"} : PythonReads(t) = Fields(2)
  /\ \A t \in {"If", "For", "AugAssign", "AnnAssign", "match_case", "Call", "BinOp", "IfExp",
              "FormattedValue", "comprehension", "arguments"} : PythonReads(t) = Fields(3)
  /\ PythonReads("ClassDef") = Fields(5)
  /\ PythonReads("FunctionDef") = <<"field", "bare", "field", "field", "field">>
  /\ PythonReads("Lambda") = <<"bare", "field">>
  /\ PythonReads("Compare") = <<"field", "ops", "field">>
  /\ PythonReads("Constant") = <<"const">>
<1>1. \A t \in {"Break", "Continue", "Pass"} : PythonReads(t) = <<>>
  BY Zenon DEF PythonReads
<1>2. \A t \in {"Module", "Return", "Raise", "Expr", "Import", "MatchValue", "MatchOr", "Name", "Tuple",
              "List", "Set", "JoinedStr"} : PythonReads(t) = Fields(1)
  BY ZenonT(60) DEF PythonReads
<1>3. \A t \in {"While", "With", "Assign", "Assert", "ImportFrom", "Match", "MatchAs", "Attribute",
              "Subscript", "UnaryOp", "BoolOp", "Dict", "ListComp", "arg", "keyword", "alias",
              "withitem"} : PythonReads(t) = Fields(2)
  BY ZenonT(60) DEF PythonReads
<1>4. \A t \in {"If", "For", "AugAssign", "AnnAssign", "match_case", "Call", "BinOp", "IfExp",
              "FormattedValue", "comprehension", "arguments"} : PythonReads(t) = Fields(3)
  BY ZenonT(60) DEF PythonReads
<1>5. PythonReads("ClassDef") = Fields(5)
  BY Zenon DEF PythonReads
<1>6. PythonReads("FunctionDef") = <<"field", "bare", "field", "field", "field">>
  BY Zenon DEF PythonReads
<1>7. PythonReads("Lambda") = <<"bare", "field">>
  BY Zenon DEF PythonReads
<1>8. PythonReads("Compare") = <<"field", "ops", "field">>
  BY Zenon DEF PythonReads
<1>9. PythonReads("Constant") = <<"const">>
  BY Zenon DEF PythonReads
<1> QED
  BY <1>1, <1>2, <1>3, <1>4, <1>5, <1>6, <1>7, <1>8, <1>9, Zenon

\* Both readers' rows for a statement follow the writer's.
LEMMA StatementRows ==
  \A t \in ToSet(Statements) : Row(WrittenStatement[t], NativeStatement[t], PythonReads(t))
<1> DEFINE R(t, python) == Row(WrittenStatement[t], NativeStatement[t], python)
<1> USE ItemIs, NativeField, PythonField DEF WrittenStatement, NativeStatement, Row, Like, Fields
<1>1. R("Module", Fields(1))  OBVIOUS
<1>2. R("FunctionDef", <<"field", "bare", "field", "field", "field">>)  OBVIOUS
<1>3. R("ClassDef", Fields(5))  OBVIOUS
<1>4. R("Return", Fields(1))  OBVIOUS
<1>5. R("Raise", Fields(1))  OBVIOUS
<1>6. R("Expr", Fields(1))  OBVIOUS
<1>7. R("If", Fields(3))  OBVIOUS
<1>8. R("While", Fields(2))  OBVIOUS
<1>9. R("For", Fields(3))  OBVIOUS
<1>10. R("With", Fields(2))  OBVIOUS
<1>11. R("Assign", Fields(2))  OBVIOUS
<1>12. R("AugAssign", Fields(3))  OBVIOUS
<1>13. R("AnnAssign", Fields(3))  OBVIOUS
<1>14. R("Assert", Fields(2))  OBVIOUS
<1>15. R("Break", <<>>)  OBVIOUS
<1>16. R("Continue", <<>>)  OBVIOUS
<1>17. R("Pass", <<>>)  OBVIOUS
<1>18. R("Import", Fields(1))  OBVIOUS
<1>19. R("ImportFrom", Fields(2))  OBVIOUS
<1>20. R("Match", Fields(2))  OBVIOUS
<1> HIDE ItemIs, NativeField, PythonField DEF WrittenStatement, NativeStatement, Row, Like, Fields
<1> QED
  BY StatementTags, PythonRows,
     <1>1, <1>2, <1>3, <1>4, <1>5, <1>6, <1>7, <1>8, <1>9, <1>10, <1>11, <1>12, <1>13, <1>14, <1>15, <1>16, <1>17, <1>18, <1>19, <1>20

\* So do those for an expression.
LEMMA ExpressionRows ==
  \A t \in ToSet(Expressions) : Row(WrittenExpression[t], NativeExpression[t], PythonReads(t))
<1> DEFINE R(t, python) == Row(WrittenExpression[t], NativeExpression[t], python)
<1> USE ItemIs, NativeField, PythonField DEF WrittenExpression, NativeExpression, Row, Like, Fields
<1>1. R("Constant", <<"const">>)  OBVIOUS
<1>2. R("Name", Fields(1))  OBVIOUS
<1>3. R("Call", Fields(3))  OBVIOUS
<1>4. R("Attribute", Fields(2))  OBVIOUS
<1>5. R("Subscript", Fields(2))  OBVIOUS
<1>6. R("BinOp", Fields(3))  OBVIOUS
<1>7. R("UnaryOp", Fields(2))  OBVIOUS
<1>8. R("BoolOp", Fields(2))  OBVIOUS
<1>9. R("Compare", <<"field", "ops", "field">>)  OBVIOUS
<1>10. R("IfExp", Fields(3))  OBVIOUS
<1>11. R("Tuple", Fields(1))  OBVIOUS
<1>12. R("List", Fields(1))  OBVIOUS
<1>13. R("Set", Fields(1))  OBVIOUS
<1>14. R("Dict", Fields(2))  OBVIOUS
<1>15. R("JoinedStr", Fields(1))  OBVIOUS
<1>16. R("FormattedValue", Fields(3))  OBVIOUS
<1>17. R("ListComp", Fields(2))  OBVIOUS
<1>18. R("Lambda", <<"bare", "field">>)  OBVIOUS
<1> HIDE ItemIs, NativeField, PythonField DEF WrittenExpression, NativeExpression, Row, Like, Fields
<1> QED
  BY ExpressionTags, PythonRows,
     <1>1, <1>2, <1>3, <1>4, <1>5, <1>6, <1>7, <1>8, <1>9, <1>10, <1>11, <1>12, <1>13, <1>14, <1>15, <1>16, <1>17, <1>18

\* And those for the rest.
LEMMA HelperRows ==
  \A t \in ToSet(Helpers) : Row(WrittenHelper[t], NativeHelper[t], PythonReads(t))
<1> DEFINE R(t, python) == Row(WrittenHelper[t], NativeHelper[t], python)
<1> USE ItemIs, NativeField, PythonField DEF WrittenHelper, NativeHelper, Row, Like, Fields
<1>1. R("arguments", Fields(3))  OBVIOUS
<1>2. R("arg", Fields(2))  OBVIOUS
<1>3. R("keyword", Fields(2))  OBVIOUS
<1>4. R("alias", Fields(2))  OBVIOUS
<1>5. R("comprehension", Fields(3))  OBVIOUS
<1>6. R("withitem", Fields(2))  OBVIOUS
<1>7. R("match_case", Fields(3))  OBVIOUS
<1>8. R("MatchValue", Fields(1))  OBVIOUS
<1>9. R("MatchOr", Fields(1))  OBVIOUS
<1>10. R("MatchAs", Fields(2))  OBVIOUS
<1> HIDE ItemIs, NativeField, PythonField DEF WrittenHelper, NativeHelper, Row, Like, Fields
<1> QED
  BY HelperTags, PythonRows,
     <1>1, <1>2, <1>3, <1>4, <1>5, <1>6, <1>7, <1>8, <1>9, <1>10

\* Each reader expects, for every tag, the fields that are written after it.
LEMMA ReadsLike ==
  ASSUME NEW t \in Tags, NEW reader \in {"native", "python"}
  PROVE  Written(t) \in Seq(Item) /\ Reads(reader, t) = FieldsOf(reader, Written(t))
<1>1. Row(Written(t), NativeReads(t), PythonReads(t))
  BY WrittenIs, StatementRows, ExpressionRows, HelperRows DEF Tags
<1>2. Like(reader, Written(t), Reads(reader, t)) /\ Written(t) \in Seq(Item)
  BY <1>1 DEF Row, Reads
<1> QED
  BY <1>2 DEF Like, FieldsOf

-----------------------------------------------------------------------------
(* The numbers of tags and operators.                                       *)

\* A name is found where it is, in a list that has no name twice.
LEMMA PlaceIs ==
  ASSUME NEW names, Len(names) \in Nat, NEW i \in 1..Len(names),
         \A j, k \in 1..Len(names) : names[j] = names[k] => j = k
  PROVE  Place(names[i], names) = i
BY DEF Place

\* n different names.
Names(names, n) ==
  Len(names) = n /\ DOMAIN names = 1..n /\ \A j, k \in 1..n : names[j] = names[k] => j = k

\* The tables of tags and operators have no name twice.
LEMMA NoNameTwice ==
  /\ Names(Statements, 20)
  /\ Names(Expressions, 18)
  /\ Names(Helpers, 10)
  /\ Names(Binary, 12)
  /\ Names(Unary, 4)
  /\ Names(Compared, 10)
<1>1. Names(Statements, 20)
  BY DEF Names, Statements
<1>2. Names(Expressions, 18)
  BY DEF Names, Expressions
<1>3. Names(Helpers, 10)
  BY DEF Names, Helpers
<1>4. Names(Binary, 12)
  BY DEF Names, Binary
<1>5. Names(Unary, 4)
  BY DEF Names, Unary
<1>6. Names(Compared, 10)
  BY DEF Names, Compared
<1> QED
  BY <1>1, <1>2, <1>3, <1>4, <1>5, <1>6

\* A name is at its place.
LEMMA AtPlace ==
  ASSUME NEW n \in Nat, NEW names, Names(names, n), NEW x \in ToSet(names)
  PROVE  Place(x, names) \in 1..n /\ names[Place(x, names)] = x
<1>1. PICK i \in 1..n : x = names[i]
  BY DEF ToSet, Names
<1> QED
  BY <1>1, PlaceIs DEF Names

\* The reader of a tag's number is the one of the tag.
LEMMA TagsRead ==
  ASSUME NEW t \in Tags PROVE ReaderOf(TagOf(t)) = t /\ t # "none"
<1>1. CASE t \in ToSet(Statements)
  <2>1. TagOf(t) = Place(t, Statements) - 1
    BY <1>1, StatementTags, ExpressionTags, Zenon DEF TagOf
  <2>2. Place(t, Statements) \in 1..20 /\ Statements[Place(t, Statements)] = t
    BY <1>1, AtPlace, NoNameTwice
  <2>3. TagOf(t) \in 0..19 /\ TagOf(t) \notin 30..47 /\ TagOf(t) \notin 60..69 /\ TagOf(t) + 1 = Place(t, Statements)
    BY <2>1, <2>2
  <2>4. ReaderOf(TagOf(t)) = Statements[TagOf(t) + 1]
    BY <2>3, Zenon DEF ReaderOf
  <2> QED
    BY <1>1, <2>2, <2>3, <2>4, StatementTags
<1>2. CASE t \in ToSet(Expressions)
  <2>1. TagOf(t) = Place(t, Expressions) + 29
    BY <1>2, StatementTags, ExpressionTags, Zenon DEF TagOf
  <2>2. Place(t, Expressions) \in 1..18 /\ Expressions[Place(t, Expressions)] = t
    BY <1>2, AtPlace, NoNameTwice
  <2>3. TagOf(t) \in 30..47 /\ TagOf(t) \notin 0..19 /\ TagOf(t) \notin 60..69 /\ TagOf(t) - 29 = Place(t, Expressions)
    BY <2>1, <2>2
  <2>4. ReaderOf(TagOf(t)) = Expressions[TagOf(t) - 29]
    BY <2>3, Zenon DEF ReaderOf
  <2> QED
    BY <1>2, <2>2, <2>3, <2>4, ExpressionTags
<1>3. CASE t \in ToSet(Helpers)
  <2>1. TagOf(t) = Place(t, Helpers) + 59
    <3>1. t \notin ToSet(Statements) /\ t \notin ToSet(Expressions)
      BY <1>3, StatementTags, ExpressionTags, HelperTags
    <3> QED
      BY <3>1, Zenon DEF TagOf
  <2>2. Place(t, Helpers) \in 1..10 /\ Helpers[Place(t, Helpers)] = t
    BY <1>3, AtPlace, NoNameTwice
  <2>3. TagOf(t) \in 60..69 /\ TagOf(t) \notin 0..19 /\ TagOf(t) \notin 30..47 /\ TagOf(t) - 59 = Place(t, Helpers)
    BY <2>1, <2>2
  <2>4. ReaderOf(TagOf(t)) = Helpers[TagOf(t) - 59]
    BY <2>3, Zenon DEF ReaderOf
  <2> QED
    BY <1>3, <2>2, <2>3, <2>4, HelperTags
<1> QED
  BY <1>1, <1>2, <1>3 DEF Tags

\* The names of the operators, as sets.
LEMMA OperatorNames ==
  /\ ToSet(Binary) = {"Add", "Sub", "Mult", "Div", "Mod", "Pow", "FloorDiv", "LShift", "RShift",
       "BitOr", "BitXor", "BitAnd"}
  /\ ToSet(Unary) = {"UAdd", "USub", "Not", "Invert"}
  /\ ToSet(Compared) = {"Eq", "NotEq", "Lt", "LtE", "Gt", "GtE", "Is", "IsNot", "In", "NotIn"}
<1>1. ToSet(Binary) = {"Add", "Sub", "Mult", "Div", "Mod", "Pow", "FloorDiv", "LShift", "RShift",
       "BitOr", "BitXor", "BitAnd"}
  BY DEF ToSet, Binary
<1>2. ToSet(Unary) = {"UAdd", "USub", "Not", "Invert"}
  BY DEF ToSet, Unary
<1>3. ToSet(Compared) = {"Eq", "NotEq", "Lt", "LtE", "Gt", "GtE", "Is", "IsNot", "In", "NotIn"}
  BY DEF ToSet, Compared
<1> QED
  BY <1>1, <1>2, <1>3

\* An operator that is written is read as itself.
LEMMA OperatorsRead ==
  ASSUME NEW o, OpTag(o) # -1 PROVE OpOf(OpTag(o)) = o
<1>1. CASE o \in ToSet(Binary)
  <2>1. OpTag(o) = Place(o, Binary) - 1
    <3>1. o \notin ToSet(Unary) /\ o # "And" /\ o # "Or" /\ o \notin ToSet(Compared)
      BY <1>1, OperatorNames
    <3> QED
      BY <1>1, <3>1, Zenon DEF OpTag
  <2>2. Place(o, Binary) \in 1..12 /\ Binary[Place(o, Binary)] = o
    BY <1>1, AtPlace, NoNameTwice
  <2>3. OpTag(o) \in 0..11 /\ OpTag(o) \notin 20..23 /\ OpTag(o) # 30 /\ OpTag(o) # 31
        /\ OpTag(o) \notin 40..49 /\ OpTag(o) + 1 = Place(o, Binary)
    BY <2>1, <2>2
  <2>4. OpOf(OpTag(o)) = Binary[OpTag(o) + 1]
    BY <2>3, Zenon DEF OpOf
  <2> QED
    BY <2>2, <2>3, <2>4
<1>2. CASE o \in ToSet(Unary)
  <2>1. OpTag(o) = Place(o, Unary) + 19
    <3>1. o \notin ToSet(Binary) /\ o # "And" /\ o # "Or" /\ o \notin ToSet(Compared)
      BY <1>2, OperatorNames
    <3> QED
      BY <1>2, <3>1, Zenon DEF OpTag
  <2>2. Place(o, Unary) \in 1..4 /\ Unary[Place(o, Unary)] = o
    BY <1>2, AtPlace, NoNameTwice
  <2>3. OpTag(o) \in 20..23 /\ OpTag(o) \notin 0..11 /\ OpTag(o) # 30 /\ OpTag(o) # 31
        /\ OpTag(o) \notin 40..49 /\ OpTag(o) - 19 = Place(o, Unary)
    BY <2>1, <2>2
  <2>4. OpOf(OpTag(o)) = Unary[OpTag(o) - 19]
    BY <2>3, Zenon DEF OpOf
  <2> QED
    BY <2>2, <2>3, <2>4
<1>3. CASE o = "And" \/ o = "Or"
  <2>1. o \notin ToSet(Binary) /\ o \notin ToSet(Unary) /\ o \notin ToSet(Compared)
    BY <1>3, OperatorNames
  <2>2. OpTag(o) = IF o = "And" THEN 30 ELSE 31
    BY <1>3, <2>1, Zenon DEF OpTag
  <2>3. /\ 30 \notin 0..11 /\ 30 \notin 20..23 /\ 30 \notin 40..49 /\ 30 # 31
        /\ 31 \notin 0..11 /\ 31 \notin 20..23 /\ 31 \notin 40..49
    OBVIOUS
  <2>4. OpOf(30) = "And" /\ OpOf(31) = "Or"
    BY <2>3, Zenon DEF OpOf
  <2> QED
    BY <1>3, <2>2, <2>4
<1>4. CASE o \in ToSet(Compared)
  <2>1. OpTag(o) = Place(o, Compared) + 39
    <3>1. o \notin ToSet(Binary) /\ o # "And" /\ o # "Or" /\ o \notin ToSet(Unary)
      BY <1>4, OperatorNames
    <3> QED
      BY <1>4, <3>1, Zenon DEF OpTag
  <2>2. Place(o, Compared) \in 1..10 /\ Compared[Place(o, Compared)] = o
    BY <1>4, AtPlace, NoNameTwice
  <2>3. OpTag(o) \in 40..49 /\ OpTag(o) \notin 0..11 /\ OpTag(o) # 30 /\ OpTag(o) # 31
        /\ OpTag(o) \notin 20..23 /\ OpTag(o) - 39 = Place(o, Compared)
    BY <2>1, <2>2
  <2>4. OpOf(OpTag(o)) = Compared[OpTag(o) - 39]
    BY <2>3, Zenon DEF OpOf
  <2> QED
    BY <2>2, <2>3, <2>4
<1>5. CASE /\ o \notin ToSet(Binary) /\ o \notin ToSet(Unary) /\ o # "And" /\ o # "Or" /\ o \notin ToSet(Compared)
  BY <1>5, Zenon DEF OpTag
<1> QED
  BY <1>1, <1>2, <1>3, <1>4, <1>5

\* The comparisons have numbers.
LEMMA ComparedHaveTags ==
  ASSUME NEW o \in ToSet(Compared) PROVE OpTag(o) # -1
<1>1. o \notin ToSet(Binary) /\ o # "And" /\ o # "Or" /\ o \notin ToSet(Unary)
  BY OperatorNames
<1>2. OpTag(o) = Place(o, Compared) + 39
  BY <1>1, Zenon DEF OpTag
<1>3. Place(o, Compared) \in 1..10
  BY AtPlace, NoNameTwice
<1> QED
  BY <1>2, <1>3

\* What a node of class c is dispatched to is a tag, or is refused.
LEMMA DispatchTags ==
  ASSUME NEW c \in Classes, c # "module", NEW t \in Dispatch(c), t \notin {"other", "none"}
  PROVE  t \in Tags
<1>1. CASE c = "stmt"
  <2>1. Dispatch(c) = (ToSet(Statements) \ {"Module"}) \cup {"other"}
    BY <1>1, Zenon DEF Dispatch
  <2> QED
    BY <2>1 DEF Tags
<1>2. CASE c = "expr"
  <2>1. Dispatch(c) = ToSet(Expressions) \cup {"other"}
    BY <1>2, Zenon DEF Dispatch
  <2> QED
    BY <2>1 DEF Tags
<1>3. CASE c = "key"
  <2>1. Dispatch(c) = {"Name", "none"}
    BY <1>3, Zenon DEF Dispatch
  <2> QED
    BY <2>1, ExpressionTags DEF Tags
<1>4. CASE c = "pattern"
  <2>1. Dispatch(c) = {"MatchValue", "MatchOr", "MatchAs", "other"}
    BY <1>4, Zenon DEF Dispatch
  <2> QED
    BY <2>1, HelperTags DEF Tags
<1>5. CASE c \in {"args", "arg", "keyword", "alias", "withitem", "comp", "case"}
  <2>1. Dispatch(c) = {Leaf(c)}
    BY <1>5, Zenon DEF Dispatch
  <2>2. Leaf(c) \in {"arguments", "arg", "keyword", "alias", "withitem", "comprehension", "match_case"}
    BY <1>5, Zenon DEF Leaf
  <2> QED
    BY <2>1, <2>2, HelperTags DEF Tags
<1> QED
  BY <1>1, <1>2, <1>3, <1>4, <1>5 DEF Classes

-----------------------------------------------------------------------------
(* One step of a reader.                                                    *)

Reader(fields, pos, had) == [fields |-> fields, pos |-> pos, seen |-> had, ok |-> TRUE]

\* The primitives of a field, by kind.
LEMMA WidthsAre ==
  ASSUME NEW s, NEW r
  PROVE  /\ Widths(s, r, "bare") = <<"u8", "u16">> /\ Widths(s, r, "node") = <<"u8">>
         /\ Widths(s, r, "list") = <<"u8", "i32">>
         /\ Widths(s, r, "string") = IF At(s, r, 2)[2] = -1 THEN <<"u8", "i32">> ELSE <<"u8", "i32", "bytes">>
         /\ Widths(s, r, "int") = <<"u8", "i64">> /\ Widths(s, r, "float") = <<"u8", "f64">>
         /\ \A field : field \notin {"bare", "node", "list", "string", "int", "float", "const", "ops"}
                         => Widths(s, r, field) = <<"u8", "u8">>
         /\ Widths(s, r, "const") = <<"u8">>
         /\ Widths(s, r, "ops") = [i \in 1..(At(s, r, 1)[2] + 1) |-> "u8"]
<1>1. Widths(s, r, "bare") = <<"u8", "u16">>
  BY Zenon DEF Widths
<1>2. Widths(s, r, "node") = <<"u8">>
  BY Zenon DEF Widths
<1>3. Widths(s, r, "list") = <<"u8", "i32">>
  BY Zenon DEF Widths
<1>4. Widths(s, r, "string") = IF At(s, r, 2)[2] = -1 THEN <<"u8", "i32">> ELSE <<"u8", "i32", "bytes">>
  BY Zenon DEF Widths
<1>5. Widths(s, r, "int") = <<"u8", "i64">> /\ Widths(s, r, "float") = <<"u8", "f64">>
  BY Zenon DEF Widths
<1>6. \A field : field \notin {"bare", "node", "list", "string", "int", "float", "const", "ops"}
                => Widths(s, r, field) = <<"u8", "u8">>
  BY Zenon DEF Widths
<1>7. Widths(s, r, "const") = <<"u8">>
  BY Zenon DEF Widths
<1>8. Widths(s, r, "ops") = [i \in 1..(At(s, r, 1)[2] + 1) |-> "u8"]
  BY Zenon DEF Widths
<1> QED
  BY <1>1, <1>2, <1>3, <1>4, <1>5, <1>6, <1>7, <1>8, Zenon

\* What a reader makes of a field, by kind.
LEMMA ContentsAre ==
  ASSUME NEW reader, NEW v
  PROVE  /\ ReaderOf(v[1]) # "none" =>
              Contents(reader, "bare", v) = << <<ReaderOf(v[1]), v[2]>>, Reads(reader, ReaderOf(v[1])) >>
         /\ Contents(reader, "node", v) =
              << <<"node", v[1] # FK.none>>, IF v[1] = FK.none THEN <<>> ELSE <<"bare">> >>
         /\ Contents(reader, "list", v) = << <<"list", v[2]>>, [i \in 1..v[2] |-> "bare"] >>
         /\ Contents(reader, "string", v) = << <<"string", IF v[2] = -1 THEN NoString ELSE v[3]>>, <<>> >>
         /\ Contents(reader, "const", v) = << <<"const", v[1]>>, ConstantField(v[1]) >>
         /\ Contents(reader, "ops", v) = << <<"ops", [i \in 1..v[1] |-> OpOf(v[i + 1])]>>, <<>> >>
         /\ Contents(reader, "op", v) = << <<"op", OpOf(v[2])>>, <<>> >>
         /\ \A field \in {"int", "float", "bool"} : Contents(reader, field, v) = << <<field, v[2]>>, <<>> >>
<1>1. ReaderOf(v[1]) # "none" =>
        Contents(reader, "bare", v) = << <<ReaderOf(v[1]), v[2]>>, Reads(reader, ReaderOf(v[1])) >>
  BY Zenon DEF Contents
<1>2. Contents(reader, "node", v) =
        << <<"node", v[1] # FK.none>>, IF v[1] = FK.none THEN <<>> ELSE <<"bare">> >>
  BY Zenon DEF Contents
<1>3. Contents(reader, "list", v) = << <<"list", v[2]>>, [i \in 1..v[2] |-> "bare"] >>
  BY Zenon DEF Contents
<1>4. Contents(reader, "string", v) = << <<"string", IF v[2] = -1 THEN NoString ELSE v[3]>>, <<>> >>
  BY Zenon DEF Contents
<1>5. Contents(reader, "const", v) = << <<"const", v[1]>>, ConstantField(v[1]) >>
  BY Zenon DEF Contents
<1>6. Contents(reader, "ops", v) = << <<"ops", [i \in 1..v[1] |-> OpOf(v[i + 1])]>>, <<>> >>
  BY Zenon DEF Contents
<1>7. Contents(reader, "op", v) = << <<"op", OpOf(v[2])>>, <<>> >>
  BY Zenon DEF Contents
<1>8. \A field \in {"int", "float", "bool"} : Contents(reader, field, v) = << <<field, v[2]>>, <<>> >>
  BY Zenon DEF Contents
<1> QED
  BY <1>1, <1>2, <1>3, <1>4, <1>5, <1>6, <1>7, <1>8, Zenon

\* What is to read is what the reader expects, or what the kind byte tells it.
LEMMA NextIs ==
  ASSUME NEW s, Len(s) \in Nat, NEW fields, NEW pos \in Nat \ {0}, NEW had, NEW field \in FieldNames \ {"field"},
         pos <= Len(s),
         \/ Head(fields) = field
         \/ Head(fields) = "field" /\ s[pos][1] = "u8" /\ s[pos][2] \in 0..7 /\ KindOf(s[pos][2]) = field
  PROVE  NextField(s, Reader(fields, pos, had)) = field
<1> DEFINE r == Reader(fields, pos, had)
<1>1. r.fields = fields /\ At(s, r, 1) = s[pos] /\ Left(s, r) > 0
  BY DEF Reader, At, Left
<1> HIDE DEF r
<1>3. CASE Head(fields) = field
  <2>1. Head(r.fields) # "field"
    BY <1>1, <1>3
  <2>2. NextField(s, r) = Head(r.fields)
    BY <2>1, Zenon DEF NextField
  <2> QED
    BY <1>1, <1>3, <2>2 DEF r
<1>4. CASE Head(fields) = "field" /\ s[pos][1] = "u8" /\ s[pos][2] \in 0..7 /\ KindOf(s[pos][2]) = field
  <2>1. Head(r.fields) = "field" /\ Left(s, r) > 0 /\ At(s, r, 1)[1] = "u8" /\ At(s, r, 1)[2] \in 0..7
    BY <1>1, <1>4
  <2>2. NextField(s, r) = KindOf(At(s, r, 1)[2])
    BY <2>1, Zenon DEF NextField
  <2> QED
    BY <1>1, <1>4, <2>2 DEF r
<1> QED
  BY <1>3, <1>4 DEF r

\* A reader before a field of its list, with n primitives of s left from pos on.
Before(s, fields, pos, n) ==
  Len(s) \in Nat /\ pos \in Nat \ {0} /\ n \in Nat \ {0} /\ pos + n - 1 <= Len(s) /\ fields # <<>>

\* The n primitives are those of the field.
FieldAt(s, fields, pos, had, field, n) ==
  LET w == Widths(s, Reader(fields, pos, had), field) IN
  /\ Before(s, fields, pos, n) /\ field \in FieldNames \ {"field"}
  /\ \/ Head(fields) = field
     \/ Head(fields) = "field" /\ s[pos][2] \in 0..7 /\ KindOf(s[pos][2]) = field
  /\ Len(w) = n /\ s[pos][1] = "u8" /\ \A i \in 1..n : s[pos + i - 1][1] = w[i]
  /\ (field = "const" => s[pos][2] \in 0..5) /\ (field = "ops" => s[pos][2] \in Nat)
  /\ field \in {"list", "string"} => n >= 2 /\ w[2] = "i32"

Values(s, pos, n) == [i \in 1..n |-> s[pos + i - 1][2]]

\* A reader that has a whole field before it takes it, and goes on with its contents.
LEMMA FieldRead ==
  ASSUME NEW s, NEW reader, NEW fields, NEW pos, NEW had, NEW field, NEW n, FieldAt(s, fields, pos, had, field, n)
  PROVE  Step(s, reader, Reader(fields, pos, had)) =
           Reader(Contents(reader, field, Values(s, pos, n))[2] \o Tail(fields), pos + n,
                  Append(had, Contents(reader, field, Values(s, pos, n))[1]))
<1>0. /\ Len(s) \in Nat /\ fields # <<>> /\ pos \in Nat \ {0} /\ field \in FieldNames \ {"field"}
      /\ n \in Nat \ {0} /\ pos + n - 1 <= Len(s)
  BY DEF FieldAt, Before
<1> DEFINE r == Reader(fields, pos, had)
<1>1. r.fields = fields /\ r.ok /\ \A i \in 1..n : At(s, r, i) = s[pos + i - 1]
  BY <1>0 DEF Reader, At
<1>2. Left(s, r) = Len(s) - pos + 1 /\ Left(s, r) >= n /\ Left(s, r) > 0
  BY <1>0 DEF Reader, Left
<1>3. NextField(s, r) = field
  <2>1. /\ pos <= Len(s)
        /\ \/ Head(fields) = field
           \/ Head(fields) = "field" /\ s[pos][1] = "u8" /\ s[pos][2] \in 0..7 /\ KindOf(s[pos][2]) = field
    BY <1>0 DEF FieldAt
  <2> QED
    BY <1>0, <2>1, NextIs
<1>4. InStep(s, r, field)
  <2>1. At(s, r, 1) = s[pos] /\ field # "unknown"
    BY <1>0, <1>1 DEF FieldNames
  <2>2. ASSUME field \in {"list", "string"} PROVE Left(s, r) > 1 /\ At(s, r, 2)[1] = "i32"
    <3>1. n >= 2 /\ s[pos + 2 - 1][1] = "i32"
      BY <1>0, <2>2 DEF FieldAt
    <3> QED
      BY <1>0, <1>1, <1>2, <3>1
  <2> QED
    BY <1>2, <2>1, <2>2 DEF InStep, FieldAt
<1>5. Whole(s, r, field)
  BY <1>1, <1>2, <1>4 DEF Whole, FieldAt
<1>6. Step(s, reader, r) = Read(s, reader, r, field)
  BY <1>0, <1>1, <1>3, <1>5, Zenon DEF Step
<1>7. r.pos = pos /\ r.seen = had /\ Len(Widths(s, r, field)) = n
  BY DEF Reader, FieldAt
<1> DEFINE got == Contents(reader, field, Values(s, pos, n))
<1>8. [i \in 1..Len(Widths(s, r, field)) |-> At(s, r, i)[2]] = Values(s, pos, n)
  BY <1>1, <1>7 DEF Values
<1>9. Read(s, reader, r, field) =
        [fields |-> got[2] \o Tail(r.fields), pos |-> r.pos + Len(Widths(s, r, field)),
         seen |-> Append(r.seen, got[1]), ok |-> TRUE]
  BY <1>8, Zenon DEF Read
<1> HIDE DEF r, got
<1>10. Read(s, reader, r, field) = Reader(got[2] \o Tail(fields), pos + n, Append(had, got[1]))
  BY <1>1, <1>7, <1>9 DEF Reader
<1> QED
  BY <1>6, <1>10 DEF r, got

\* The kind bytes of the writer are those of the Python reader.
LEMMA KindsAre ==
  /\ FK.node = 0 /\ FK.list = 1 /\ FK.string = 2 /\ FK.int = 3 /\ FK.float = 4 /\ FK.bool = 5
  /\ FK.op = 6 /\ FK.none = 7
  /\ KindOf(0) = "node" /\ KindOf(1) = "list" /\ KindOf(2) = "string" /\ KindOf(3) = "int"
  /\ KindOf(4) = "float" /\ KindOf(5) = "bool" /\ KindOf(6) = "op" /\ KindOf(7) = "node"
BY DEF FK, KindOf

\* The header of a node.
LEMMA ReadsHeader ==
  ASSUME NEW s, NEW reader, NEW fields, NEW pos, NEW had, Before(s, fields, pos, 2), Head(fields) = "bare",
         NEW t \in Tags, NEW at, s[pos] = <<"u8", TagOf(t)>>, s[pos + 1] = <<"u16", at>>
  PROVE  Step(s, reader, Reader(fields, pos, had))
           = Reader(Reads(reader, t) \o Tail(fields), pos + 2, Append(had, <<t, at>>))
<1> DEFINE v == Values(s, pos, 2)
<1>1. v[1] = TagOf(t) /\ v[2] = at
  BY DEF Before, Values
<1> HIDE DEF v
<1>2. Contents(reader, "bare", v) = << <<t, at>>, Reads(reader, t) >>
  <2>1. ReaderOf(v[1]) = t /\ t # "none"
    BY <1>1, TagsRead
  <2> QED
    BY <1>1, <2>1, ContentsAre
<1>3. FieldAt(s, fields, pos, had, "bare", 2)
  <2>1. Widths(s, Reader(fields, pos, had), "bare") = <<"u8", "u16">>
    BY WidthsAre
  <2> QED
    BY <2>1 DEF FieldAt, FieldNames, Before
<1> QED
  BY <1>2, <1>3, FieldRead DEF v

\* A child, or that there is none.
LEMMA ReadsNode ==
  ASSUME NEW s, NEW reader, NEW fields, NEW pos, NEW had, Before(s, fields, pos, 1),
         Head(fields) \in {"node", "field"}, NEW k \in {FK.node, FK.none}, s[pos] = <<"u8", k>>,
         NEW what, what = <<"node", k # FK.none>>, NEW next, next = (IF k = FK.none THEN <<>> ELSE <<"bare">>)
  PROVE  Step(s, reader, Reader(fields, pos, had)) = Reader(next \o Tail(fields), pos + 1, Append(had, what))
<1> DEFINE v == Values(s, pos, 1)
<1>1. v[1] = k
  BY DEF Before, Values
<1> HIDE DEF v
<1>2. Contents(reader, "node", v) = <<what, next>>
  <2>1. Contents(reader, "node", v) = << <<"node", v[1] # FK.none>>, IF v[1] = FK.none THEN <<>> ELSE <<"bare">> >>
    BY Zenon DEF Contents
  <2> QED
    BY <1>1, <2>1, Zenon
<1>3. FieldAt(s, fields, pos, had, "node", 1)
  <2>1. Widths(s, Reader(fields, pos, had), "node") = <<"u8">>
    BY WidthsAre
  <2>2. k \in 0..7 /\ KindOf(k) = "node"
    BY KindsAre
  <2> QED
    BY <2>1, <2>2 DEF FieldAt, FieldNames, Before
<1> QED
  BY <1>2, <1>3, FieldRead DEF v

Bares(n) == [i \in 1..n |-> "bare"]

\* The length of a list, whose elements come next.
LEMMA ReadsList ==
  ASSUME NEW s, NEW reader, NEW fields, NEW pos, NEW had, Before(s, fields, pos, 2),
         Head(fields) \in {"list", "field"}, NEW n, s[pos] = <<"u8", FK.list>>, s[pos + 1] = <<"i32", n>>
  PROVE  Step(s, reader, Reader(fields, pos, had))
           = Reader(Bares(n) \o Tail(fields), pos + 2, Append(had, <<"list", n>>))
<1> DEFINE v == Values(s, pos, 2)
<1>1. v[2] = n
  BY DEF Before, Values
<1> HIDE DEF v
<1>2. Contents(reader, "list", v) = << <<"list", n>>, [i \in 1..n |-> "bare"] >>
  BY <1>1, ContentsAre, Zenon
<1>3. FieldAt(s, fields, pos, had, "list", 2)
  <2>1. Widths(s, Reader(fields, pos, had), "list") = <<"u8", "i32">>
    BY WidthsAre
  <2>2. FK.list \in 0..7 /\ KindOf(FK.list) = "list"
    BY KindsAre
  <2> QED
    BY <2>1, <2>2 DEF FieldAt, FieldNames, Before
<1> DEFINE what == <<"list", n>>  next == Bares(n)
<1>8. Contents(reader, "list", v) = <<what, next>>
  BY <1>2 DEF Bares
<1> HIDE DEF what, next
<1>9. Step(s, reader, Reader(fields, pos, had)) = Reader(next \o Tail(fields), pos + 2, Append(had, what))
  BY <1>3, <1>8, FieldRead DEF v
<1> QED
  BY <1>9 DEF what, next

\* A string, or that there is none.
LEMMA ReadsString ==
  ASSUME NEW s, NEW reader, NEW fields, NEW pos, NEW had, NEW x, Before(s, fields, pos, Len(StringTokens(x))),
         Head(fields) \in {"string", "field"},
         \A i \in 1..Len(StringTokens(x)) : s[pos + i - 1] = StringTokens(x)[i]
  PROVE  Step(s, reader, Reader(fields, pos, had))
           = Reader(<<>> \o Tail(fields), pos + Len(StringTokens(x)), Append(had, <<"string", x>>))
<1> DEFINE r == Reader(fields, pos, had)
<1>0. At(s, r, 2) = s[pos + 1] /\ FK.string \in 0..7 /\ KindOf(FK.string) = "string"
  BY KindsAre DEF Reader, At, Before
<1>1. CASE x = NoString
  <2> DEFINE v == Values(s, pos, 2)
  <2>1. StringTokens(x) = << <<"u8", FK.string>>, <<"i32", -1>> >>
    BY <1>1 DEF StringTokens
  <2>2. Len(StringTokens(x)) = 2 /\ s[pos] = <<"u8", FK.string>> /\ s[pos + 1] = <<"i32", -1>>
    BY <2>1 DEF Before
  <2>3. v[2] = -1
    BY <2>2 DEF Before, Values
  <2> HIDE DEF v
  <2>4. Contents(reader, "string", v) = << <<"string", x>>, <<>> >>
    BY <1>1, <2>3, ContentsAre
  <2>5. FieldAt(s, fields, pos, had, "string", 2)
    <3>1. Widths(s, r, "string") = <<"u8", "i32">>
      BY <1>0, <2>2, WidthsAre
    <3> QED
      BY <1>0, <2>2, <3>1 DEF FieldAt, FieldNames, Before
  <2> DEFINE what == <<"string", x>>  next == <<>>
  <2>8. Contents(reader, "string", v) = <<what, next>>
    BY <2>4
  <2> HIDE DEF what, next
  <2>9. Step(s, reader, Reader(fields, pos, had)) = Reader(next \o Tail(fields), pos + 2, Append(had, what))
    BY <2>5, <2>8, FieldRead DEF v
  <2> QED
    BY <2>2, <2>9 DEF what, next
<1>2. CASE x # NoString
  <2> DEFINE v == Values(s, pos, 3)
  <2>1. StringTokens(x) = << <<"u8", FK.string>>, <<"i32", 1>>, <<"bytes", x>> >>
    BY <1>2 DEF StringTokens
  <2>2. /\ Len(StringTokens(x)) = 3 /\ s[pos] = <<"u8", FK.string>> /\ s[pos + 1] = <<"i32", 1>>
        /\ s[pos + 2] = <<"bytes", x>>
    BY <2>1 DEF Before
  <2>3. v[2] = 1 /\ v[3] = x
    BY <2>2 DEF Before, Values
  <2> HIDE DEF v
  <2>4. Contents(reader, "string", v) = << <<"string", x>>, <<>> >>
    BY <1>2, <2>3, ContentsAre
  <2>5. FieldAt(s, fields, pos, had, "string", 3)
    <3>1. Widths(s, r, "string") = <<"u8", "i32", "bytes">>
      BY <1>0, <2>2, WidthsAre
    <3> QED
      BY <1>0, <2>2, <3>1 DEF FieldAt, FieldNames, Before
  <2> DEFINE what == <<"string", x>>  next == <<>>
  <2>8. Contents(reader, "string", v) = <<what, next>>
    BY <2>4
  <2> HIDE DEF what, next
  <2>9. Step(s, reader, Reader(fields, pos, had)) = Reader(next \o Tail(fields), pos + 3, Append(had, what))
    BY <2>5, <2>8, FieldRead DEF v
  <2> QED
    BY <2>2, <2>9 DEF what, next
<1> QED
  BY <1>1, <1>2

\* An integer, a float or a boolean.
LEMMA ReadsValue ==
  ASSUME NEW s, NEW reader, NEW fields, NEW pos, NEW had, Before(s, fields, pos, 2),
         NEW field \in {"int", "float", "bool"}, Head(fields) \in {field, "field"}, NEW x,
         s[pos] = <<"u8", FK[field]>>,
         s[pos + 1] = <<IF field = "int" THEN "i64" ELSE IF field = "float" THEN "f64" ELSE "u8", x>>
  PROVE  Step(s, reader, Reader(fields, pos, had))
           = Reader(<<>> \o Tail(fields), pos + 2, Append(had, <<field, x>>))
<1> DEFINE v == Values(s, pos, 2)
<1>1. v[2] = x
  BY DEF Before, Values
<1> HIDE DEF v
<1>2. Contents(reader, field, v) = << <<field, x>>, <<>> >>
  BY <1>1, ContentsAre
<1>3. FieldAt(s, fields, pos, had, field, 2)
  <2> DEFINE w == Widths(s, Reader(fields, pos, had), field)
  <2>1. w = <<"u8", IF field = "int" THEN "i64" ELSE IF field = "float" THEN "f64" ELSE "u8">>
    <3>1. CASE field = "int"
      <4>1. w = <<"u8", "i64">>
        BY <3>1, Zenon DEF Widths
      <4> QED
        BY <3>1, <4>1
    <3>2. CASE field = "float"
      <4>1. w = <<"u8", "f64">>
        BY <3>2, Zenon DEF Widths
      <4> QED
        BY <3>2, <4>1
    <3>3. CASE field = "bool"
      <4>1. w = <<"u8", "u8">>
        BY <3>3, Zenon DEF Widths
      <4> QED
        BY <3>3, <4>1
    <3> QED
      BY <3>1, <3>2, <3>3
  <2>2. s[pos][1] = "u8" /\ s[pos][2] \in 0..7 /\ KindOf(s[pos][2]) = field
    BY KindsAre
  <2> QED
    BY <2>1, <2>2 DEF FieldAt, FieldNames, Before
<1> DEFINE what == <<field, x>>  next == <<>>
<1>8. Contents(reader, field, v) = <<what, next>>
  BY <1>2
<1> HIDE DEF what, next
<1>9. Step(s, reader, Reader(fields, pos, had)) = Reader(next \o Tail(fields), pos + 2, Append(had, what))
  BY <1>3, <1>8, FieldRead DEF v
<1> QED
  BY <1>9 DEF what, next

\* An operator.
LEMMA ReadsOperator ==
  ASSUME NEW s, NEW reader, NEW fields, NEW pos, NEW had, Before(s, fields, pos, 2),
         Head(fields) \in {"op", "field"}, NEW o, OpTag(o) # -1,
         s[pos] = <<"u8", FK.op>>, s[pos + 1] = <<"u8", OpTag(o)>>
  PROVE  Step(s, reader, Reader(fields, pos, had))
           = Reader(<<>> \o Tail(fields), pos + 2, Append(had, <<"op", o>>))
<1> DEFINE v == Values(s, pos, 2)
<1>1. v[2] = OpTag(o)
  BY DEF Before, Values
<1> HIDE DEF v
<1>2. Contents(reader, "op", v) = << <<"op", o>>, <<>> >>
  <2>1. Contents(reader, "op", v) = << <<"op", OpOf(v[2])>>, <<>> >>
    BY Zenon DEF Contents
  <2>2. OpOf(v[2]) = o
    BY <1>1, OperatorsRead
  <2> QED
    BY <2>1, <2>2, Zenon
<1>3. FieldAt(s, fields, pos, had, "op", 2)
  <2>1. Widths(s, Reader(fields, pos, had), "op") = <<"u8", "u8">>
    BY Zenon DEF Widths
  <2>2. FK.op \in 0..7 /\ KindOf(FK.op) = "op"
    BY KindsAre
  <2> QED
    BY <2>1, <2>2 DEF FieldAt, FieldNames, Before
<1> DEFINE what == <<"op", o>>  next == <<>>
<1>8. Contents(reader, "op", v) = <<what, next>>
  BY <1>2
<1> HIDE DEF what, next
<1>9. Step(s, reader, Reader(fields, pos, had)) = Reader(next \o Tail(fields), pos + 2, Append(had, what))
  BY <1>3, <1>8, FieldRead DEF v
<1> QED
  BY <1>9 DEF what, next

OpsAt(s, pos, n, ops) == s[pos] = <<"u8", n>> /\ \A i \in 1..n : s[pos + i] = <<"u8", OpTag(ops[i])>>

\* The operators of a comparison.
LEMMA ReadsOperators ==
  ASSUME NEW s, NEW reader, NEW fields, NEW pos, NEW had, NEW n \in Nat, Before(s, fields, pos, n + 1),
         Head(fields) = "ops", NEW ops \in [1..n -> ToSet(Compared)],
         OpsAt(s, pos, n, ops)
  PROVE  Step(s, reader, Reader(fields, pos, had))
           = Reader(<<>> \o Tail(fields), pos + (n + 1), Append(had, <<"ops", ops>>))
<1>0. s[pos] = <<"u8", n>> /\ \A i \in 1..n : s[pos + i] = <<"u8", OpTag(ops[i])>>
  BY DEF OpsAt
<1> DEFINE r == Reader(fields, pos, had)
           v == Values(s, pos, n + 1)
<1>1. v[1] = n /\ \A i \in 1..n : v[i + 1] = OpTag(ops[i])
  <2>1. ASSUME NEW i \in 1..n PROVE v[i + 1] = OpTag(ops[i])
    <3>1. i + 1 \in 1..(n + 1) /\ pos + (i + 1) - 1 = pos + i
      BY DEF Before
    <3> QED
      BY <1>0, <3>1 DEF Values
  <2>2. v[1] = n
    BY <1>0 DEF Before, Values
  <2> QED
    BY <2>1, <2>2
<1> HIDE DEF v
<1>2. [i \in 1..n |-> OpOf(OpTag(ops[i]))] = ops
  BY OperatorsRead, ComparedHaveTags
<1>3. Contents(reader, "ops", v) = << <<"ops", ops>>, <<>> >>
  <2>1. [i \in 1..v[1] |-> OpOf(v[i + 1])] = ops
    BY <1>1, <1>2
  <2>2. Contents(reader, "ops", v) = << <<"ops", [i \in 1..v[1] |-> OpOf(v[i + 1])]>>, <<>> >>
    BY ContentsAre, Zenon
  <2> QED
    BY <2>1, <2>2, Zenon
<1>4. \A i \in 1..(n + 1) : s[pos + i - 1][1] = "u8"
  <2>1. ASSUME NEW i \in 1..(n + 1) PROVE s[pos + i - 1][1] = "u8"
    <3>1. CASE i = 1
      BY <1>0, <3>1 DEF Before
    <3>2. CASE i # 1
      <4>1. i - 1 \in 1..n /\ pos + i - 1 = pos + (i - 1)
        BY <3>2 DEF Before
      <4>2. s[pos + (i - 1)] = <<"u8", OpTag(ops[i - 1])>>
        BY <1>0, <4>1
      <4> QED
        BY <4>1, <4>2
    <3> QED
      BY <3>1, <3>2
  <2> QED
    BY <2>1
<1>5. FieldAt(s, fields, pos, had, "ops", n + 1)
  <2> DEFINE w == Widths(s, r, "ops")
  <2>1. At(s, r, 1)[2] = n
    BY <1>0 DEF Reader, At, Before
  <2>2. w = [i \in 1..(n + 1) |-> "u8"]
    BY <2>1, WidthsAre, Zenon
  <2>3. Len(w) = n + 1 /\ \A i \in 1..(n + 1) : w[i] = "u8"
    BY <2>2
  <2> HIDE DEF w
  <2>4. Before(s, fields, pos, n + 1) /\ "ops" \in FieldNames \ {"field"} /\ Head(fields) = "ops"
        /\ s[pos][1] = "u8" /\ s[pos][2] \in Nat
    BY <1>0 DEF FieldNames
  <2> QED
    BY <1>4, <2>3, <2>4 DEF FieldAt, w
<1> DEFINE what == <<"ops", ops>>  next == <<>>
<1>8. Contents(reader, "ops", v) = <<what, next>>
  BY <1>3
<1> HIDE DEF what, next
<1>9. Step(s, reader, Reader(fields, pos, had)) = Reader(next \o Tail(fields), pos + (n + 1), Append(had, what))
  BY <1>5, <1>8, FieldRead DEF v
<1> QED
  BY <1>9 DEF what, next

\* The kind of a constant, whose value comes next.
LEMMA ReadsConstant ==
  ASSUME NEW s, NEW reader, NEW fields, NEW pos, NEW had, Before(s, fields, pos, 1),
         Head(fields) = "const", NEW k \in 0..5, s[pos] = <<"u8", k>>
  PROVE  Step(s, reader, Reader(fields, pos, had))
           = Reader(ConstantField(k) \o Tail(fields), pos + 1, Append(had, <<"const", k>>))
<1> DEFINE v == Values(s, pos, 1)
<1>1. v[1] = k
  BY DEF Before, Values
<1> HIDE DEF v
<1>2. Contents(reader, "const", v) = << <<"const", k>>, ConstantField(k) >>
  BY <1>1, ContentsAre, Zenon
<1>3. FieldAt(s, fields, pos, had, "const", 1)
  <2>1. Widths(s, Reader(fields, pos, had), "const") = <<"u8">>
    BY WidthsAre
  <2> QED
    BY <2>1 DEF FieldAt, FieldNames, Before
<1> QED
  BY <1>2, <1>3, FieldRead DEF v

-----------------------------------------------------------------------------
(* A run of a reader over what is written so far.                           *)

Extends(s, s2) ==
  Len(s) \in Nat /\ Len(s2) \in Nat /\ Len(s) <= Len(s2) /\ \A i \in 1..Len(s) : s2[i] = s[i]

\* How many primitives a field has.
LEMMA WidthsLength ==
  ASSUME NEW s, NEW r, NEW field, InStep(s, r, field)
  PROVE  Len(Widths(s, r, field)) \in Nat \ {0}
<1>1. CASE field = "ops"
  <2> DEFINE m == At(s, r, 1)[2]
  <2>1. m \in Nat
    BY <1>1 DEF InStep
  <2>2. Widths(s, r, field) = [i \in 1..(m + 1) |-> "u8"]
    BY <1>1, WidthsAre, Zenon
  <2> HIDE DEF m
  <2> QED
    BY <2>1, <2>2
<1>2. CASE field \in {"bare", "node", "list", "string", "int", "float", "const"}
  BY <1>2, WidthsAre
<1>3. CASE field \notin {"bare", "node", "list", "string", "int", "float", "const", "ops"}
  <2>1. Widths(s, r, field) = <<"u8", "u8">>
    BY <1>3, Zenon DEF Widths
  <2> QED
    BY <2>1
<1> QED
  BY <1>1, <1>2, <1>3

\* They are those that are there, whatever follows.
LEMMA SameWidths ==
  ASSUME NEW s, NEW s2, NEW r, NEW field, At(s2, r, 1) = At(s, r, 1), field = "string" => At(s2, r, 2) = At(s, r, 2)
  PROVE  Widths(s2, r, field) = Widths(s, r, field)
<1>1. CASE field = "ops"
  <2> DEFINE m == At(s, r, 1)[2]
  <2>1. Widths(s, r, field) = [i \in 1..(m + 1) |-> "u8"]
    BY <1>1, WidthsAre, Zenon
  <2>2. Widths(s2, r, field) = [i \in 1..(At(s2, r, 1)[2] + 1) |-> "u8"]
    BY <1>1, WidthsAre, Zenon
  <2>3. At(s2, r, 1)[2] = m
    OBVIOUS
  <2> QED
    BY <2>1, <2>2, <2>3, Zenon
<1>2. CASE field = "string"
  <2> DEFINE w(a) == IF a = -1 THEN <<"u8", "i32">> ELSE <<"u8", "i32", "bytes">>
  <2>1. Widths(s, r, field) = w(At(s, r, 2)[2]) /\ Widths(s2, r, field) = w(At(s2, r, 2)[2])
    BY <1>2, WidthsAre, Zenon
  <2>2. At(s2, r, 2)[2] = At(s, r, 2)[2]
    BY <1>2
  <2> HIDE DEF w
  <2> QED
    BY <2>1, <2>2
<1>3. CASE field \in {"bare", "node", "list", "int", "float", "const"}
  BY <1>3, WidthsAre
<1>4. CASE field \notin {"bare", "node", "list", "string", "int", "float", "const", "ops"}
  BY <1>4, WidthsAre
<1> QED
  BY <1>1, <1>2, <1>3, <1>4

\* A step that was no error is the same when more has been written.
LEMMA SameStep ==
  ASSUME NEW s, NEW s2, Extends(s, s2), NEW reader, NEW fields, NEW pos \in Nat \ {0}, NEW had,
         Step(s, reader, Reader(fields, pos, had)).ok
  PROVE  Step(s2, reader, Reader(fields, pos, had)) = Step(s, reader, Reader(fields, pos, had))
<1> DEFINE r == Reader(fields, pos, had)
<1>1. r.ok /\ r.fields = fields /\ r.pos = pos /\ [r EXCEPT !.ok = FALSE].ok = FALSE
  BY DEF Reader
<1>2. Left(s, r) = Len(s) - pos + 1 /\ Left(s2, r) = Len(s2) - pos + 1
  BY <1>1 DEF Left
<1>3. \A i \in Nat \ {0} : i <= Left(s, r) => At(s2, r, i) = At(s, r, i)
  <2>1. ASSUME NEW i \in Nat \ {0}, i <= Left(s, r) PROVE At(s2, r, i) = At(s, r, i)
    <3>1. pos + i - 1 \in 1..Len(s)
      BY <1>2, <2>1 DEF Extends
    <3> QED
      BY <1>1, <3>1 DEF Extends, At
  <2> QED
    BY <2>1
<1>4. r = Reader(fields, pos, had)
  OBVIOUS
<1> HIDE DEF r
<1>5. CASE fields = <<>>
  <2>1. r.fields = <<>>
    BY <1>1, <1>5
  <2>2. Step(s, reader, r) = r /\ Step(s2, reader, r) = r
    BY <2>1, Zenon DEF Step
  <2> QED
    BY <1>4, <2>2
<1>6. CASE fields # <<>>
  <2> DEFINE f == NextField(s, r)  n == Len(Widths(s, r, f))
  <2>1. Whole(s, r, f)
    <3>1. SUFFICES ASSUME ~Whole(s, r, f) PROVE FALSE
      OBVIOUS
    <3>2. Step(s, reader, r) = [r EXCEPT !.ok = FALSE]
      BY <1>1, <1>6, <3>1, Zenon DEF Step
    <3> QED
      BY <1>1, <1>4, <3>2
  <2>2. InStep(s, r, f) /\ n <= Left(s, r) /\ \A i \in 1..n : At(s, r, i)[1] = Widths(s, r, f)[i]
    BY <2>1 DEF Whole
  <2>3. f # "unknown" /\ Left(s, r) \in Nat \ {0} /\ At(s2, r, 1) = At(s, r, 1) /\ Left(s2, r) > 0
    BY <1>2, <1>3, <2>2 DEF InStep, Extends
  <2>4. NextField(s2, r) = f
    <3>1. CASE Head(fields) # "field"
      BY <1>1, <3>1, Zenon DEF NextField
    <3>2. CASE Head(fields) = "field"
      <4>1. At(s, r, 1)[1] = "u8" /\ At(s, r, 1)[2] \in 0..7
        <5>1. SUFFICES ASSUME ~(At(s, r, 1)[1] = "u8" /\ At(s, r, 1)[2] \in 0..7) PROVE FALSE
          OBVIOUS
        <5>2. NextField(s, r) = "unknown"
          BY <1>1, <3>2, <5>1, Zenon DEF NextField
        <5> QED
          BY <2>3, <5>2
      <4>2. Left(s, r) > 0
        BY <2>3
      <4>3. NextField(s, r) = KindOf(At(s, r, 1)[2])
        BY <1>1, <3>2, <4>1, <4>2, Zenon DEF NextField
      <4>4. NextField(s2, r) = KindOf(At(s2, r, 1)[2])
        BY <1>1, <2>3, <3>2, <4>1, Zenon DEF NextField
      <4> QED
        BY <2>3, <4>3, <4>4
    <3> QED
      BY <3>1, <3>2
  <2> HIDE DEF f
  <2>5. f = "string" => At(s2, r, 2) = At(s, r, 2)
    BY <1>3, <2>2, <2>3 DEF InStep
  <2>6. Widths(s2, r, f) = Widths(s, r, f)
    BY <2>3, <2>5, SameWidths
  <2>7. n \in Nat \ {0} /\ \A i \in 1..n : At(s2, r, i) = At(s, r, i)
    <3>1. n \in Nat \ {0}
      BY <2>2, WidthsLength
    <3> HIDE DEF n
    <3> QED
      BY <1>3, <2>2, <2>3, <3>1
  <2>8. InStep(s2, r, f)
    <3>1. Left(s2, r) >= Left(s, r)
      BY <1>2 DEF Extends
    <3>2. f \in {"list", "string"} => At(s2, r, 2) = At(s, r, 2) /\ Left(s2, r) > 1
      BY <1>2, <1>3, <2>2, <3>1 DEF InStep, Extends
    <3> QED
      BY <2>2, <2>3, <3>2 DEF InStep
  <2>9. Whole(s2, r, f)
    <3>1. Left(s2, r) >= n
      BY <1>2, <2>2, <2>7 DEF Extends
    <3> HIDE DEF n
    <3>2. \A i \in 1..n : At(s2, r, i)[1] = Widths(s2, r, f)[i]
      BY <2>2, <2>6, <2>7
    <3> QED
      BY <2>6, <2>8, <3>1, <3>2 DEF Whole, n
  <2>10. Read(s2, reader, r, f) = Read(s, reader, r, f)
    <3>1. [i \in 1..n |-> At(s2, r, i)[2]] = [i \in 1..n |-> At(s, r, i)[2]]
      BY <2>7
    <3> QED
      BY <2>6, <3>1, Zenon DEF Read
  <2>11. Step(s, reader, r) = Read(s, reader, r, f)
    BY <1>1, <1>6, <2>1, Zenon DEF Step, f
  <2>12. Step(s2, reader, r) = Read(s2, reader, r, f)
    BY <1>1, <1>6, <2>4, <2>9, Zenon DEF Step
  <2> QED
    BY <1>4, <2>10, <2>11, <2>12
<1> QED
  BY <1>5, <1>6

\* run[0], run[1], ..., run[k] are the first states of a reader, none of them an error.
Run(s, reader, run, k) ==
  /\ k \in Nat /\ run[0] = Start
  /\ \A i \in 0..k :
       /\ run[i] = Reader(run[i].fields, run[i].pos, run[i].seen)
       /\ run[i].pos \in Nat /\ run[i].pos >= i + 2
  /\ \A i \in 0..(k - 1) : run[i + 1] = Step(s, reader, run[i])

\* A reader of s comes to state r.
ComesTo(s, reader, r) == \E k \in Nat : \E run : Run(s, reader, run, k) /\ run[k] = r

\* Each reader starts past the magic, with one node to read.
LEMMA RunStarts ==
  ASSUME NEW s, NEW reader PROVE ComesTo(s, reader, Reader(<<"bare">>, 2, <<>>))
<1> DEFINE run == [i \in 0..0 |-> Start]
<1>1. Start = Reader(<<"bare">>, 2, <<>>)
  BY DEF Start, Reader
<1>2. \A i \in 0..0 : i = 0 /\ run[i] = Start /\ Start.fields = <<"bare">> /\ Start.pos = 2 /\ Start.seen = <<>>
  BY DEF Start
<1>3. Run(s, reader, run, 0)
  <2> HIDE DEF run
  <2> QED
    BY <1>1, <1>2 DEF Run
<1>4. run[0] = Reader(<<"bare">>, 2, <<>>)
  BY <1>1, <1>2
<1> HIDE DEF run
<1> QED
  BY <1>3, <1>4 DEF ComesTo

\* It goes on with what is written next.
LEMMA RunGoesOn ==
  ASSUME NEW s, NEW s2, Extends(s, s2), NEW reader,
         NEW fields, NEW pos, NEW had, ComesTo(s, reader, Reader(fields, pos, had)),
         NEW fields2, NEW pos2 \in Nat, NEW seen2, pos2 > pos,
         Step(s2, reader, Reader(fields, pos, had)) = Reader(fields2, pos2, seen2)
  PROVE  ComesTo(s2, reader, Reader(fields2, pos2, seen2))
<1>1. PICK k \in Nat : \E run : Run(s, reader, run, k) /\ run[k] = Reader(fields, pos, had)
  BY DEF ComesTo
<1>2. PICK run : Run(s, reader, run, k) /\ run[k] = Reader(fields, pos, had)
  BY <1>1
<1> DEFINE r2 == Reader(fields2, pos2, seen2)
           run2 == [i \in 0..(k + 1) |-> IF i <= k THEN run[i] ELSE r2]
<1>3. (\A i \in 0..k : run2[i] = run[i]) /\ run2[k + 1] = r2 /\ k + 1 \in Nat
  OBVIOUS
<1>4. run[k].pos = pos /\ pos >= k + 2 /\ pos \in Nat
  <2>1. Reader(fields, pos, had).pos = pos
    BY DEF Reader
  <2>2. run[k].pos \in Nat /\ run[k].pos >= k + 2
    BY <1>2 DEF Run
  <2> QED
    BY <1>2, <2>1, <2>2
<1>5. r2 = Reader(r2.fields, r2.pos, r2.seen) /\ r2.pos = pos2
  BY DEF Reader
<1> HIDE DEF run2, r2
<1>6. ASSUME NEW i \in 0..k PROVE run[i] = Reader(run[i].fields, run[i].pos, run[i].seen)
                                  /\ run[i].pos \in Nat /\ run[i].pos >= i + 2
  BY <1>2 DEF Run
<1>7. ASSUME NEW i \in 0..(k + 1)
      PROVE  run2[i] = Reader(run2[i].fields, run2[i].pos, run2[i].seen)
             /\ run2[i].pos \in Nat /\ run2[i].pos >= i + 2
  <2>1. CASE i \in 0..k
    BY <1>3, <1>6, <2>1
  <2>2. CASE i = k + 1
    BY <1>3, <1>4, <1>5, <2>2
  <2> QED
    BY <2>1, <2>2
<1>8. ASSUME NEW i \in 0..k PROVE run2[i + 1] = Step(s2, reader, run2[i])
  <2>1. CASE i = k
    BY <1>2, <1>3, <2>1 DEF r2
  <2>2. CASE i # k
    <3>1. i \in 0..(k - 1) /\ i + 1 \in 0..k
      BY <2>2
    <3>2. run[i + 1] = Step(s, reader, run[i])
      BY <1>2, <3>1 DEF Run
    <3>3. run[i + 1].ok
      <4>1. run[i + 1] = Reader(run[i + 1].fields, run[i + 1].pos, run[i + 1].seen)
        BY <1>6, <3>1
      <4>2. Reader(run[i + 1].fields, run[i + 1].pos, run[i + 1].seen).ok
        BY DEF Reader
      <4> QED
        BY <4>1, <4>2
    <3> DEFINE f == run[i].fields  p == run[i].pos  n == run[i].seen
    <3>4. run[i] = Reader(f, p, n) /\ p \in Nat \ {0}
      BY <1>6
    <3> HIDE DEF f, p, n
    <3>5. Step(s2, reader, Reader(f, p, n)) = Step(s, reader, Reader(f, p, n))
      BY <3>2, <3>3, <3>4, SameStep
    <3> QED
      BY <1>3, <3>1, <3>2, <3>4, <3>5
  <2> QED
    BY <2>1, <2>2
<1>9. Run(s2, reader, run2, k + 1)
  <2>1. run2[0] = Start
    BY <1>2, <1>3 DEF Run
  <2>2. (k + 1) - 1 = k
    OBVIOUS
  <2> QED
    BY <1>3, <1>7, <1>8, <2>1, <2>2 DEF Run
<1> QED
  BY <1>3, <1>9 DEF ComesTo, r2

\* A set of numbers has a least one.
LEMMA LeastStep ==
  ASSUME NEW T, T \subseteq Nat, T # {} PROVE \E x \in T : \A y \in T : x <= y
<1> DEFINE R == OpToRel(<, Nat)
<1>1. IsWellFoundedOn(R, Nat)
  BY NatLessThanWellFounded
<1>2. \A x, y \in Nat : x < y => <<x, y>> \in R
  BY DEF OpToRel
<1> HIDE DEF R
<1>3. PICK x \in T : \A y \in T : ~(<<y, x>> \in R)
  BY <1>1, WFMin, Zenon
<1>4. ASSUME NEW y \in T PROVE x <= y
  <2>1. x \in Nat /\ y \in Nat
    OBVIOUS
  <2>2. ~(y < x)
    BY <1>2, <1>3, <2>1, Zenon
  <2> QED
    BY <2>1, <2>2
<1> QED
  BY <1>4

\* A reader that has read all there is has come to its end.
LEMMA RunEnds ==
  ASSUME NEW s, Len(s) \in Nat, NEW reader, NEW had, NEW r, r = Reader(<<>>, Len(s) + 1, had), ComesTo(s, reader, r)
  PROVE  Deserialize(s, reader) = r
<1>1. PICK k \in Nat : \E run : Run(s, reader, run, k) /\ run[k] = r
  BY DEF ComesTo
<1>2. PICK run : Run(s, reader, run, k) /\ run[k] = r
  BY <1>1
<1>3. k <= Len(s)
  <2>1. r.pos = Len(s) + 1
    BY DEF Reader
  <2>2. run[k].pos >= k + 2
    BY <1>2 DEF Run
  <2> QED
    BY <1>2, <2>1, <2>2
<1>4. Step(s, reader, r) = r
  <2>1. r.fields = <<>>
    BY DEF Reader
  <2> QED
    BY <2>1 DEF Step
<1> DEFINE After(f) == [n \in 0..Len(s) |-> IF n = 0 THEN Start ELSE Step(s, reader, f[n - 1])]
           w(n) == IF n <= k THEN run[n] ELSE r
           W == [n \in 0..Len(s) |-> w(n)]
<1>5. w(0) = Start
  BY <1>2 DEF Run
<1>6. ASSUME NEW n \in 0..Len(s), n # 0 PROVE w(n) = Step(s, reader, w(n - 1))
  <2>1. CASE n <= k
    <3>1. n - 1 \in 0..(k - 1) /\ (n - 1) + 1 = n
      BY <1>6, <2>1
    <3>2. run[n] = Step(s, reader, run[n - 1])
      BY <1>2, <3>1 DEF Run
    <3> QED
      BY <2>1, <3>1, <3>2
  <2>2. CASE n = k + 1
    BY <1>2, <1>4, <2>2
  <2>3. CASE n > k + 1
    BY <1>4, <2>3
  <2> QED
    BY <2>1, <2>2, <2>3
<1>7. W = After(W)
  <2>1. ASSUME NEW n \in 0..Len(s) PROVE w(n) = IF n = 0 THEN Start ELSE Step(s, reader, W[n - 1])
    <3>1. CASE n = 0
      BY <1>5, <3>1
    <3>2. CASE n # 0
      <4>1. W[n - 1] = w(n - 1)
        BY <3>2
      <4> HIDE DEF W, w
      <4> QED
        BY <1>6, <3>2, <4>1
    <3> QED
      BY <3>1, <3>2
  <2> HIDE DEF w
  <2> QED
    BY <2>1
<1> DEFINE F == CHOOSE f : f = After(f)
<1>8. Deserialize(s, reader) = F[Len(s)]
  BY DEF Deserialize
<1>9. F = After(F)
  <2> HIDE DEF W, After
  <2> QED
    BY <1>7
<1> HIDE DEF F, W
<1>10. \A n \in 0..Len(s) : F[n] = w(n)
  <2> DEFINE T == {n \in Nat : n <= Len(s) /\ F[n] # w(n)}
  <2> SUFFICES ASSUME T # {} PROVE FALSE
    OBVIOUS
  <2>1. PICK n \in T : \A m \in T : n <= m
    BY LeastStep
  <2>2. n \in 0..Len(s)
    OBVIOUS
  <2>3. F[n] = IF n = 0 THEN Start ELSE Step(s, reader, F[n - 1])
    BY <1>9, <2>2
  <2> HIDE DEF w
  <2>4. CASE n = 0
    BY <1>5, <2>1, <2>3, <2>4
  <2>5. CASE n # 0
    <3>1. n - 1 \in Nat /\ n - 1 <= Len(s) /\ n - 1 < n /\ n \in Nat
      BY <2>2, <2>5
    <3>2. n - 1 \notin T
      <4> SUFFICES ASSUME n - 1 \in T PROVE FALSE
        OBVIOUS
      <4>1. n <= n - 1
        BY <2>1
      <4> QED
        BY <3>1, <4>1
    <3>3. F[n - 1] = w(n - 1)
      BY <3>1, <3>2
    <3> QED
      BY <1>6, <2>1, <2>2, <2>3, <2>5, <3>3
  <2> QED
    BY <2>4, <2>5
<1>11. w(Len(s)) = r
  BY <1>2, <1>3
<1> QED
  BY <1>8, <1>10, <1>11


-----------------------------------------------------------------------------
(* The writer.                                                              *)

IsSeq(s) == \E S : s \in Seq(S)

\* The tokens are in the stream, behind what was there.
LEMMA TokensFollow ==
  ASSUME NEW s, NEW tokens, IsSeq(s), IsSeq(tokens)
  PROVE  /\ IsSeq(s \o tokens) /\ Extends(s, s \o tokens) /\ Len(s) \in Nat /\ Len(tokens) \in Nat
         /\ Len(s \o tokens) = Len(s) + Len(tokens)
         /\ \A i \in 1..Len(tokens) : (s \o tokens)[Len(s) + 1 + i - 1] = tokens[i]
<1>1. PICK S : s \in Seq(S)
  BY DEF IsSeq
<1>2. PICK T : tokens \in Seq(T)
  BY DEF IsSeq
<1> DEFINE U == S \cup T
<1>3. s \in Seq(U) /\ tokens \in Seq(U)
  BY <1>1, <1>2
<1> HIDE DEF U
<1>4. s \o tokens \in Seq(U)
  BY <1>3
<1>5. /\ Len(s \o tokens) = Len(s) + Len(tokens) /\ Len(s) \in Nat /\ Len(tokens) \in Nat
      /\ \A i \in 1..Len(s) : (s \o tokens)[i] = s[i]
      /\ \A i \in 1..Len(tokens) : (s \o tokens)[Len(s) + i] = tokens[i]
  BY <1>3
<1>6. \A i \in 1..Len(tokens) : (s \o tokens)[Len(s) + 1 + i - 1] = tokens[i]
  <2>1. ASSUME NEW i \in 1..Len(tokens) PROVE (s \o tokens)[Len(s) + 1 + i - 1] = tokens[i]
    <3>1. Len(s) + 1 + i - 1 = Len(s) + i
      BY <1>5
    <3> QED
      BY <1>5, <3>1
  <2> QED
    BY <2>1
<1> QED
  BY <1>4, <1>5, <1>6 DEF IsSeq, Extends

\* What a reader expects for the first item, and for the others.
LEMMA FieldsOfTodo ==
  ASSUME NEW reader, NEW items \in Seq(Item), items # <<>>, NEW new \in Seq(Item)
  PROVE  /\ FieldsOf(reader, items) # <<>> /\ Head(FieldsOf(reader, items)) = FieldOf(reader, Head(items))
         /\ new \o Tail(items) \in Seq(Item)
         /\ FieldsOf(reader, new \o Tail(items)) = FieldsOf(reader, new) \o Tail(FieldsOf(reader, items))
<1> DEFINE F(i) == FieldOf(reader, i)  G == {F(i) : i \in Item}
<1>1. \A q \in Seq(Item) : /\ FieldsOf(reader, q) \in Seq(G) /\ Len(FieldsOf(reader, q)) = Len(q)
                           /\ \A i \in 1..Len(q) : FieldsOf(reader, q)[i] = F(q[i])
  BY DEF FieldsOf
<1> HIDE DEF F, G
<1> DEFINE f == FieldsOf(reader, items)  g == FieldsOf(reader, new)  rest == new \o Tail(items)
           k == FieldsOf(reader, rest)  m == Len(new)  n == Len(items) - 1
<1>2. /\ rest \in Seq(Item) /\ n \in Nat /\ m \in Nat /\ Len(rest) = m + n
      /\ \A i \in 1..m : rest[i] = new[i]
      /\ \A i \in 1..n : rest[m + i] = items[i + 1]
  OBVIOUS
<1>3. /\ f \in Seq(G) /\ Len(f) = n + 1 /\ \A i \in 1..(n + 1) : f[i] = F(items[i])
      /\ g \in Seq(G) /\ Len(g) = m /\ \A i \in 1..m : g[i] = F(new[i])
  BY <1>1
<1>4. k \in Seq(G) /\ Len(k) = m + n /\ \A i \in 1..(m + n) : k[i] = F(rest[i])
  BY <1>1, <1>2
<1>5. f # <<>> /\ Head(f) = F(Head(items))
  BY <1>3
<1> HIDE DEF f, g, k, rest, m, n
<1> DEFINE h == Tail(f)  w == g \o h
<1>6. h \in Seq(G) /\ Len(h) = n /\ \A i \in 1..n : h[i] = f[i + 1]
  BY <1>2, <1>3
<1> HIDE DEF h
<1>7. w \in Seq(G) /\ Len(w) = m + n /\ (\A i \in 1..m : w[i] = g[i]) /\ \A i \in 1..n : w[m + i] = h[i]
  <2>1. g \in Seq(G) /\ Len(g) = m /\ h \in Seq(G) /\ Len(h) = n /\ m \in Nat /\ n \in Nat
    BY <1>2, <1>3, <1>6
  <2>2. w \in Seq(G) /\ Len(w) = m + n
    BY <2>1
  <2>3. \A i \in 1..m : w[i] = g[i]
    BY <2>1
  <2>4. \A i \in 1..n : w[m + i] = h[i]
    BY <2>1
  <2> QED
    BY <2>2, <2>3, <2>4
<1> HIDE DEF w
<1>8. ASSUME NEW i \in 1..(m + n) PROVE k[i] = w[i]
  <2>1. CASE i <= m
    <3>1. i \in 1..m
      BY <1>2, <2>1
    <3> QED
      BY <1>2, <1>3, <1>4, <1>7, <3>1
  <2>2. CASE i > m
    <3>1. PICK j \in 1..n : i = m + j
      <4>1. i - m \in 1..n /\ i = m + (i - m)
        BY <1>2, <2>2
      <4> QED
        BY <4>1
    <3>2. w[i] = f[j + 1] /\ f[j + 1] = F(items[j + 1]) /\ k[i] = F(items[j + 1])
      <4>1. j + 1 \in 1..(n + 1)
        BY <1>2
      <4>2. w[i] = f[j + 1]
        BY <1>6, <1>7, <3>1
      <4>3. f[j + 1] = F(items[j + 1])
        BY <1>3, <4>1
      <4>4. k[i] = F(items[j + 1])
        BY <1>2, <1>4, <3>1
      <4> QED
        BY <4>2, <4>3, <4>4
    <3> QED
      BY <3>2
  <2> QED
    BY <1>2, <2>1, <2>2
<1>9. k = w
  BY <1>4, <1>7, <1>8
<1> QED
  BY <1>2, <1>5, <1>9 DEF F, f, k, g, w, h, rest

\* What has been written is read without an error, and leaves the reader with the fields
\* that are still to be written.
SerialInv(reader) ==
  /\ todo \in Seq(Item) /\ IsSeq(stream) /\ IsSeq(tree)
  /\ status = "writing" => todo # <<>>
  /\ status = "written" => todo = <<>>
  /\ ComesTo(stream, reader, Reader(FieldsOf(reader, todo), Len(stream) + 1, tree))

\* A reader of the magic alone waits for the module.
LEMMA InitSerialInv ==
  ASSUME NEW reader, AstInit PROVE SerialInv(reader)
<1> DEFINE magic == <<"magic", "MPYA">>
<1>1. stream = <<magic>> /\ tree = <<>> /\ todo = <<Bare("module")>> /\ status = "writing"
  BY DEF AstInit
<1> HIDE DEF magic
<1>2. Len(stream) + 1 = 2 /\ stream \in Seq({magic}) /\ tree \in Seq({}) /\ todo # <<>>
  BY <1>1
<1>3. todo \in Seq(Item)
  BY <1>1, ItemIs
<1>4. FieldsOf(reader, todo) = <<"bare">>
  <2> DEFINE b == Bare("module")
  <2>1. FieldOf(reader, b) = "bare"
    BY DEF FieldOf, Bare
  <2> HIDE DEF b
  <2>2. Len(<<b>>) = 1 /\ <<b>>[1] = b
    OBVIOUS
  <2> QED
    BY <1>1, <2>1, <2>2 DEF FieldsOf, b
<1>5. ComesTo(stream, reader, Reader(FieldsOf(reader, todo), Len(stream) + 1, tree))
  BY <1>1, <1>2, <1>4, RunStarts
<1> QED
  BY <1>1, <1>2, <1>3, <1>5 DEF SerialInv, IsSeq

\* Where a reader is when a field is written.
LEMMA ReaderBefore ==
  ASSUME NEW reader, SerialInv(reader), status = "writing", NEW tokens, IsSeq(tokens), Len(tokens) # 0,
         stream' = stream \o tokens
  PROVE  /\ Before(stream', FieldsOf(reader, todo), Len(stream) + 1, Len(tokens))
         /\ \A i \in 1..Len(tokens) : stream'[Len(stream) + 1 + i - 1] = tokens[i]
         /\ Head(FieldsOf(reader, todo)) = FieldOf(reader, Head(todo)) /\ Head(todo) \in Item
         /\ Extends(stream, stream') /\ Len(stream) \in Nat /\ Len(tokens) \in Nat
<1>1. todo \in Seq(Item) /\ todo # <<>> /\ <<>> \in Seq(Item) /\ IsSeq(stream)
  BY DEF SerialInv
<1>2. /\ Extends(stream, stream') /\ Len(stream) \in Nat /\ Len(tokens) \in Nat
      /\ Len(stream') = Len(stream) + Len(tokens)
      /\ \A i \in 1..Len(tokens) : stream'[Len(stream) + 1 + i - 1] = tokens[i]
  BY <1>1, TokensFollow, Zenon
<1>3. FieldsOf(reader, todo) # <<>> /\ Head(FieldsOf(reader, todo)) = FieldOf(reader, Head(todo))
  <2> DEFINE e == <<>>
  <2>1. e \in Seq(Item)
    BY <1>1
  <2> HIDE DEF e
  <2> QED
    BY <1>1, <2>1, FieldsOfTodo
<1>4. Before(stream', FieldsOf(reader, todo), Len(stream) + 1, Len(tokens))
  BY <1>2, <1>3 DEF Before
<1>5. Head(todo) \in Item
  BY <1>1
<1> QED
  BY <1>2, <1>3, <1>4, <1>5

\* A field that is written keeps the invariant when the reader comes to its end.
LEMMA WritesField ==
  ASSUME NEW reader, SerialInv(reader), status = "writing", NEW tokens, IsSeq(tokens), Len(tokens) # 0,
         NEW what, IsSeq(what), NEW new \in Seq(Item), Write(tokens, what, new),
         ComesTo(stream', reader, Reader(FieldsOf(reader, new) \o Tail(FieldsOf(reader, todo)),
                                         Len(stream) + 1 + Len(tokens), tree \o what))
  PROVE  SerialInv(reader)'
<1>1. /\ stream' = stream \o tokens /\ tree' = tree \o what /\ todo' = new \o Tail(todo)
      /\ status' = IF todo' = <<>> THEN "written" ELSE "writing"
  BY DEF Write
<1>2. todo \in Seq(Item) /\ todo # <<>> /\ IsSeq(stream) /\ IsSeq(tree)
  BY DEF SerialInv
<1>3. todo' \in Seq(Item)
      /\ FieldsOf(reader, todo') = FieldsOf(reader, new) \o Tail(FieldsOf(reader, todo))
  BY <1>1, <1>2, FieldsOfTodo
<1>4. IsSeq(stream') /\ IsSeq(tree')
  BY <1>1, <1>2, TokensFollow, Zenon
<1>5. Len(stream') + 1 = Len(stream) + 1 + Len(tokens)
  <2>1. Len(stream') = Len(stream) + Len(tokens) /\ Len(stream) \in Nat /\ Len(tokens) \in Nat
    BY <1>1, <1>2, TokensFollow, Zenon
  <2> QED
    BY <2>1
<1>6. (status' = "writing" => todo' # <<>>) /\ (status' = "written" => todo' = <<>>)
  BY <1>1
<1>7. FieldsOf(reader, todo)' = FieldsOf(reader, todo')
  BY DEF FieldsOf
<1>8. ComesTo(stream', reader, Reader(FieldsOf(reader, todo'), Len(stream') + 1, tree'))
  BY <1>1, <1>3, <1>5, Zenon
<1> QED
  BY <1>3, <1>4, <1>6, <1>8 DEF SerialInv

\* The same for a field that is read in one step.
LEMMA WritesOne ==
  ASSUME NEW reader, SerialInv(reader), status = "writing", NEW tokens, IsSeq(tokens), Len(tokens) # 0,
         NEW what, NEW new \in Seq(Item), Write(tokens, <<what>>, new),
         Step(stream', reader, Reader(FieldsOf(reader, todo), Len(stream) + 1, tree))
           = Reader(FieldsOf(reader, new) \o Tail(FieldsOf(reader, todo)),
                    Len(stream) + 1 + Len(tokens), Append(tree, what))
  PROVE  SerialInv(reader)'
<1> DEFINE fields == FieldsOf(reader, todo)  next == FieldsOf(reader, new) \o Tail(fields)
           pos == Len(stream) + 1  pos2 == Len(stream) + 1 + Len(tokens)  seen2 == Append(tree, what)
<1>1. stream' = stream \o tokens /\ IsSeq(<<what>>)
  <2>1. <<what>> \in Seq({what})
    OBVIOUS
  <2> QED
    BY <2>1 DEF Write, IsSeq
<1>2. ComesTo(stream, reader, Reader(fields, pos, tree))
  BY DEF SerialInv
<1>3. Extends(stream, stream') /\ pos2 \in Nat /\ pos2 > pos
  <2>1. Extends(stream, stream') /\ Len(stream) \in Nat /\ Len(tokens) \in Nat
    BY <1>1, ReaderBefore
  <2> QED
    BY <2>1
<1>4. tree \o <<what>> = seen2
  BY DEF SerialInv, IsSeq
<1>5. Step(stream', reader, Reader(fields, pos, tree)) = Reader(next, pos2, seen2)
  OBVIOUS
<1>6. ComesTo(stream', reader, Reader(next, pos2, seen2))
  <2> HIDE DEF fields, next, pos, pos2, seen2
  <2> QED
    BY <1>2, <1>3, <1>5, RunGoesOn
<1>7. ComesTo(stream', reader, Reader(FieldsOf(reader, new) \o Tail(FieldsOf(reader, todo)),
                                      Len(stream) + 1 + Len(tokens), tree \o <<what>>))
  BY <1>4, <1>6, Zenon
<1> DEFINE had == <<what>>
<1> HIDE DEF had
<1>8. IsSeq(had) /\ Write(tokens, had, new)
  BY <1>1 DEF had
<1>9. ComesTo(stream', reader, Reader(FieldsOf(reader, new) \o Tail(FieldsOf(reader, todo)),
                                      Len(stream) + 1 + Len(tokens), tree \o had))
  BY <1>7 DEF had
<1> QED
  BY <1>8, <1>9, WritesField

\* What a reader expects for each kind of item.
LEMMA FieldKinds ==
  ASSUME NEW reader \in {"native", "python"}, NEW item \in Item
  PROVE  /\ item[1] = "bare" => FieldOf(reader, item) = "bare" /\ item[2] \in Classes
         /\ item[1] \in {"node", "node?"} => FieldOf(reader, item) \in {"node", "field"} /\ item[2] \in Classes
         /\ item[1] = "list" => FieldOf(reader, item) \in {"list", "field"} /\ item[2] \in Classes
         /\ item[1] = "string" => FieldOf(reader, item) \in {"string", "field"}
         /\ item[1] = "op" => FieldOf(reader, item) \in {"op", "field"}
         /\ item[1] = "ops" => FieldOf(reader, item) = "ops"
         /\ item[1] = "int" => FieldOf(reader, item) \in {"int", "field"}
         /\ item[1] = "const" => FieldOf(reader, item) = "const"
<1>1. \/ item \in {"node", "node?", "list", "bare"} \X Classes
      \/ item \in {Str, MaybeStr, Integer, Op, <<"ops", "op">>, <<"const", "const">>}
  BY DEF Item
<1>2. CASE item \in {"node", "node?", "list", "bare"} \X Classes
  BY <1>2 DEF FieldOf
<1>3. CASE item \in {Str, MaybeStr, Integer, Op, <<"ops", "op">>, <<"const", "const">>}
  <2>1. item[1] \in {"string", "int", "op", "ops", "const"}
    BY <1>3 DEF Str, MaybeStr, Integer, Op
  <2> QED
    BY <2>1 DEF FieldOf
<1> QED
  BY <1>1, <1>2, <1>3

\* Nothing to write is nothing to read.
LEMMA EmptyFields ==
  ASSUME NEW reader PROVE <<>> \in Seq(Item) /\ FieldsOf(reader, <<>>) = <<>>
BY DEF FieldsOf

\* Two primitives are a sequence.
LEMMA ShortSeqs ==
  /\ \A a : IsSeq(<<a>>) /\ Len(<<a>>) = 1 /\ <<a>>[1] = a
  /\ \A a, b : IsSeq(<<a, b>>) /\ Len(<<a, b>>) = 2 /\ <<a, b>>[1] = a /\ <<a, b>>[2] = b
  /\ \A a, b, c : IsSeq(<<a, b, c>>) /\ Len(<<a, b, c>>) = 3
<1>1. \A a : <<a>> \in Seq({a}) /\ Len(<<a>>) = 1 /\ <<a>>[1] = a
  OBVIOUS
<1>2. \A a, b : <<a, b>> \in Seq({a, b}) /\ Len(<<a, b>>) = 2 /\ <<a, b>>[1] = a /\ <<a, b>>[2] = b
  OBVIOUS
<1>3. \A a, b, c : <<a, b, c>> \in Seq({a, b, c}) /\ Len(<<a, b, c>>) = 3
  OBVIOUS
<1> QED
  BY <1>1, <1>2, <1>3 DEF IsSeq

\* An exception leaves what has been written.
LEMMA RefuseKeeps ==
  ASSUME NEW reader, SerialInv(reader), status' = "refused", UNCHANGED <<todo, stream, tree>>
  PROVE  SerialInv(reader)'
<1>1. FieldsOf(reader, todo') = FieldsOf(reader, todo) /\ todo' = todo /\ stream' = stream /\ tree' = tree
  OBVIOUS
<1> QED
  BY <1>1 DEF SerialInv

\* The primitive, or the two, that are written are the next of a reader.
LEMMA OneToken ==
  ASSUME NEW reader, SerialInv(reader), status = "writing", NEW one, stream' = stream \o <<one>>
  PROVE  /\ Before(stream', FieldsOf(reader, todo), Len(stream) + 1, 1)
         /\ Head(FieldsOf(reader, todo)) = FieldOf(reader, Head(todo)) /\ Head(todo) \in Item
         /\ stream'[Len(stream) + 1] = one
<1> DEFINE tokens == <<one>>
<1>1. IsSeq(tokens) /\ Len(tokens) = 1 /\ tokens[1] = one /\ Len(tokens) # 0 /\ stream' = stream \o tokens
  BY ShortSeqs
<1> HIDE DEF tokens
<1>2. /\ Before(stream', FieldsOf(reader, todo), Len(stream) + 1, Len(tokens))
      /\ Head(FieldsOf(reader, todo)) = FieldOf(reader, Head(todo)) /\ Head(todo) \in Item
      /\ \A i \in 1..Len(tokens) : stream'[Len(stream) + 1 + i - 1] = tokens[i]
      /\ Len(stream) \in Nat
  BY <1>1, ReaderBefore, Zenon
<1> QED
  BY <1>1, <1>2

\* What two new primitives look like to a reader that has read all before them.
LEMMA TwoTokens ==
  ASSUME NEW reader, SerialInv(reader), status = "writing", NEW one, NEW two, stream' = stream \o <<one, two>>
  PROVE  /\ Before(stream', FieldsOf(reader, todo), Len(stream) + 1, 2)
         /\ Head(FieldsOf(reader, todo)) = FieldOf(reader, Head(todo)) /\ Head(todo) \in Item
         /\ stream'[Len(stream) + 1] = one /\ stream'[Len(stream) + 1 + 1] = two
<1> DEFINE tokens == <<one, two>>
<1>1. IsSeq(tokens) /\ Len(tokens) = 2 /\ tokens[1] = one /\ tokens[2] = two /\ Len(tokens) # 0
      /\ stream' = stream \o tokens
  BY ShortSeqs
<1> HIDE DEF tokens
<1>2. /\ Before(stream', FieldsOf(reader, todo), Len(stream) + 1, Len(tokens))
      /\ Head(FieldsOf(reader, todo)) = FieldOf(reader, Head(todo)) /\ Head(todo) \in Item
      /\ \A i \in 1..Len(tokens) : stream'[Len(stream) + 1 + i - 1] = tokens[i]
      /\ Len(stream) \in Nat
  BY <1>1, ReaderBefore, Zenon
<1> QED
  BY <1>1, <1>2

\* A header.
LEMMA WriteNodeInv ==
  ASSUME NEW reader \in {"native", "python"}, SerialInv(reader), WriteNode PROVE SerialInv(reader)'
<1>1. status = "writing" /\ Head(todo)[1] = "bare"
  BY DEF WriteNode, Next1
<1> DEFINE lineOf(t) == IF t \in NoLine THEN 0 ELSE line
<1>2. PICK t \in IF Head(todo)[2] = "module" THEN {"Module"} ELSE Dispatch(Head(todo)[2]) :
        IF t \in {"other", "none"} \/ lineOf(t) > MaxLine THEN Refuse
        ELSE Write(<< <<"u8", TagOf(t)>>, <<"u16", lineOf(t)>> >>, << <<t, lineOf(t)>> >>, Written(t))
  BY Zenon DEF WriteNode
<1> DEFINE at == lineOf(t)  one == <<"u8", TagOf(t)>>  two == <<"u16", at>>  tokens == <<one, two>>
           what == <<t, at>>  new == Written(t)  fields == FieldsOf(reader, todo)  pos == Len(stream) + 1
<1>3. CASE t \in {"other", "none"} \/ at > MaxLine
  BY <1>2, <1>3, RefuseKeeps DEF Refuse
<1>4. CASE ~(t \in {"other", "none"} \/ at > MaxLine)
  <2>1. Write(tokens, <<what>>, new) /\ stream' = stream \o tokens
    BY <1>2, <1>4, Zenon DEF Write
  <2>2. IsSeq(tokens) /\ Len(tokens) = 2 /\ Len(tokens) # 0
    BY ShortSeqs
  <2>3. Before(stream', fields, pos, 2) /\ Head(fields) = FieldOf(reader, Head(todo)) /\ Head(todo) \in Item
        /\ stream'[pos] = one /\ stream'[pos + 1] = two
    BY <1>1, <2>1, TwoTokens, Zenon
  <2>4. t \in Tags
    <3>1. Head(todo)[2] \in Classes
      BY <1>1, <2>3, FieldKinds
    <3>2. CASE Head(todo)[2] = "module"
      BY <1>2, <3>2, StatementTags DEF Tags
    <3>3. CASE Head(todo)[2] # "module"
      <4> DEFINE c == Head(todo)[2]
      <4>1. t \in Dispatch(c)
        BY <1>2, <3>3
      <4> HIDE DEF c
      <4> QED
        BY <1>4, <3>1, <3>3, <4>1, DispatchTags DEF c
    <3> QED
      BY <3>2, <3>3
  <2>5. Head(fields) = "bare"
    BY <1>1, <2>3, FieldKinds
  <2>6. new \in Seq(Item) /\ Reads(reader, t) = FieldsOf(reader, new)
    BY <2>4, ReadsLike
  <2> HIDE DEF at
  <2>7. Step(stream', reader, Reader(fields, pos, tree))
          = Reader(Reads(reader, t) \o Tail(fields), pos + 2, Append(tree, what))
    <3> HIDE DEF fields, pos
    <3> QED
      BY <2>3, <2>4, <2>5, ReadsHeader
  <2>8. Step(stream', reader, Reader(fields, pos, tree))
          = Reader(FieldsOf(reader, new) \o Tail(fields), pos + Len(tokens), Append(tree, what))
    BY <2>2, <2>6, <2>7, Zenon
  <2> HIDE DEF tokens, what, new
  <2> QED
    BY <1>1, <2>1, <2>2, <2>6, <2>8, WritesOne, Zenon
<1> QED
  BY <1>3, <1>4

\* Whether there is a child.
LEMMA WriteNodeFieldInv ==
  ASSUME NEW reader \in {"native", "python"}, SerialInv(reader), WriteNodeField PROVE SerialInv(reader)'
<1>1. PICK k \in {FK.node, FK.none} :
        /\ status = "writing" /\ Head(todo)[1] \in {"node", "node?"}
        /\ Write(<< <<"u8", k>> >>, << <<"node", k # FK.none>> >>,
                 IF k = FK.none THEN <<>> ELSE << Bare(Head(todo)[2]) >>)
  <2>1. FK.node # FK.none
    BY KindsAre
  <2> QED
    BY <2>1 DEF WriteNodeField, Next1
<1> DEFINE one == <<"u8", k>>  tokens == <<one>>  what == <<"node", k # FK.none>>  item == Bare(Head(todo)[2])
           new == IF k = FK.none THEN <<>> ELSE <<item>>  next == IF k = FK.none THEN <<>> ELSE <<"bare">>
           fields == FieldsOf(reader, todo)  pos == Len(stream) + 1
<1>2. Write(tokens, <<what>>, new) /\ stream' = stream \o tokens
  BY <1>1, Zenon DEF Write
<1>3. IsSeq(tokens) /\ Len(tokens) = 1 /\ Len(tokens) # 0
  BY ShortSeqs
<1>4. Before(stream', fields, pos, 1) /\ Head(fields) = FieldOf(reader, Head(todo)) /\ Head(todo) \in Item
      /\ stream'[pos] = one
  BY <1>1, <1>2, OneToken, Zenon
<1>5. Head(fields) \in {"node", "field"} /\ Head(todo)[2] \in Classes
  BY <1>1, <1>4, FieldKinds
<1>6. new \in Seq(Item) /\ next = FieldsOf(reader, new)
  <2>1. item \in Item /\ FieldOf(reader, item) = "bare"
    BY <1>5, ItemIs, NativeField, PythonField
  <2> HIDE DEF item
  <2>2. <<item>> \in Seq(Item) /\ FieldsOf(reader, <<item>>) = <<"bare">>
    <3>1. Len(<<item>>) = 1 /\ <<item>>[1] = item
      OBVIOUS
    <3> QED
      BY <2>1, <3>1 DEF FieldsOf
  <2> QED
    BY <2>2, EmptyFields
<1> HIDE DEF what
<1>7. Step(stream', reader, Reader(fields, pos, tree)) = Reader(next \o Tail(fields), pos + 1, Append(tree, what))
  <2> HIDE DEF fields, pos, next
  <2> QED
    BY <1>4, <1>5, ReadsNode DEF what, next
<1>8. Step(stream', reader, Reader(fields, pos, tree))
        = Reader(FieldsOf(reader, new) \o Tail(fields), pos + Len(tokens), Append(tree, what))
  BY <1>3, <1>6, <1>7, Zenon
<1> HIDE DEF tokens, new
<1> QED
  BY <1>1, <1>2, <1>3, <1>6, <1>8, WritesOne, Zenon

\* The length of a list.
LEMMA WriteNodeListFieldInv ==
  ASSUME NEW reader \in {"native", "python"}, SerialInv(reader), WriteNodeListField PROVE SerialInv(reader)'
<1>1. status = "writing" /\ Head(todo)[1] = "list"
  BY DEF WriteNodeListField, Next1
<1>2. PICK n \in 0..MaxLen :
        Write(<< <<"u8", FK.list>>, <<"i32", n>> >>, << <<"list", n>> >>, [i \in 1..n |-> Bare(Head(todo)[2])])
  BY Zenon DEF WriteNodeListField
<1> DEFINE one == <<"u8", FK.list>>  two == <<"i32", n>>  tokens == <<one, two>>  what == <<"list", n>>
           item == Bare(Head(todo)[2])  new == [i \in 1..n |-> item]  next == Bares(n)
           fields == FieldsOf(reader, todo)  pos == Len(stream) + 1
<1>3. Write(tokens, <<what>>, new) /\ stream' = stream \o tokens
  BY <1>2, Zenon DEF Write
<1>4. IsSeq(tokens) /\ Len(tokens) = 2 /\ Len(tokens) # 0
  BY ShortSeqs
<1>5. Before(stream', fields, pos, 2) /\ Head(fields) = FieldOf(reader, Head(todo)) /\ Head(todo) \in Item
      /\ stream'[pos] = one /\ stream'[pos + 1] = two
  BY <1>1, <1>3, TwoTokens, Zenon
<1>6. Head(fields) \in {"list", "field"} /\ Head(todo)[2] \in Classes
  BY <1>1, <1>5, FieldKinds
<1>7. new \in Seq(Item) /\ next = FieldsOf(reader, new)
  <2>1. item \in Item /\ FieldOf(reader, item) = "bare"
    BY <1>6, ItemIs, NativeField, PythonField
  <2>2. n \in Nat
    BY AstAssumption, SMT
  <2> HIDE DEF item
  <2>3. new \in Seq(Item) /\ Len(new) = n /\ \A i \in 1..n : new[i] = item
    BY <2>1, <2>2
  <2> HIDE DEF new
  <2> QED
    BY <2>1, <2>2, <2>3 DEF FieldsOf, Bares
<1> HIDE DEF what
<1>8. Step(stream', reader, Reader(fields, pos, tree)) = Reader(next \o Tail(fields), pos + 2, Append(tree, what))
  <2> HIDE DEF fields, pos
  <2> QED
    BY <1>5, <1>6, ReadsList DEF what
<1>9. Step(stream', reader, Reader(fields, pos, tree))
        = Reader(FieldsOf(reader, new) \o Tail(fields), pos + Len(tokens), Append(tree, what))
  BY <1>4, <1>7, <1>8, Zenon
<1> HIDE DEF tokens, new
<1> QED
  BY <1>1, <1>3, <1>4, <1>7, <1>9, WritesOne, Zenon

\* A field without children that is read in one step keeps the invariant.
LEMMA WritesLeaf ==
  ASSUME NEW reader, SerialInv(reader), status = "writing", NEW tokens, IsSeq(tokens), Len(tokens) # 0,
         NEW what, Write(tokens, <<what>>, <<>>),
         Step(stream', reader, Reader(FieldsOf(reader, todo), Len(stream) + 1, tree))
           = Reader(<<>> \o Tail(FieldsOf(reader, todo)), Len(stream) + 1 + Len(tokens), Append(tree, what))
  PROVE  SerialInv(reader)'
<1> DEFINE new == <<>>
<1>1. new \in Seq(Item) /\ FieldsOf(reader, new) = <<>>
  BY EmptyFields
<1>2. Write(tokens, <<what>>, new)
  OBVIOUS
<1> HIDE DEF new
<1> QED
  BY <1>1, <1>2, WritesOne, Zenon

\* What a string becomes.
LEMMA StringTokensAre ==
  ASSUME NEW x
  PROVE  IsSeq(StringTokens(x)) /\ Len(StringTokens(x)) # 0
BY ShortSeqs DEF StringTokens

\* What a value of two primitives becomes.
LEMMA ReadsTwo ==
  ASSUME NEW reader \in {"native", "python"}, SerialInv(reader), status = "writing",
         NEW one, NEW two, NEW what, Write(<<one, two>>, <<what>>, <<>>),
         Step(stream', reader, Reader(FieldsOf(reader, todo), Len(stream) + 1, tree))
           = Reader(<<>> \o Tail(FieldsOf(reader, todo)), Len(stream) + 1 + 2, Append(tree, what))
  PROVE  SerialInv(reader)'
<1> DEFINE tokens == <<one, two>>
<1>1. IsSeq(tokens) /\ Len(tokens) = 2 /\ Len(tokens) # 0
  BY ShortSeqs
<1>2. Write(tokens, <<what>>, <<>>)
  OBVIOUS
<1> HIDE DEF tokens
<1>3. Step(stream', reader, Reader(FieldsOf(reader, todo), Len(stream) + 1, tree))
        = Reader(<<>> \o Tail(FieldsOf(reader, todo)), Len(stream) + 1 + Len(tokens), Append(tree, what))
  BY <1>1, Zenon
<1> QED
  BY <1>1, <1>2, <1>3, WritesLeaf, Zenon

\* Names, operators and the operators of a comparison.
LEMMA WriteStringInv ==
  ASSUME NEW reader \in {"native", "python"}, SerialInv(reader), Next1("string"),
         NEW x, Write(StringTokens(x), << <<"string", x>> >>, <<>>)
  PROVE  SerialInv(reader)'
<1> DEFINE tokens == StringTokens(x)  fields == FieldsOf(reader, todo)  pos == Len(stream) + 1
<1>1. status = "writing" /\ Head(todo)[1] = "string" /\ stream' = stream \o tokens
  BY Zenon DEF Next1, Write
<1>2. IsSeq(tokens) /\ Len(tokens) # 0
  BY StringTokensAre
<1>3. /\ Before(stream', fields, pos, Len(tokens)) /\ Head(fields) = FieldOf(reader, Head(todo)) /\ Head(todo) \in Item
      /\ \A i \in 1..Len(tokens) : stream'[pos + i - 1] = tokens[i]
  BY <1>1, <1>2, ReaderBefore, Zenon
<1>4. Head(fields) \in {"string", "field"}
  BY <1>1, <1>3, FieldKinds
<1>5. Step(stream', reader, Reader(fields, pos, tree))
        = Reader(<<>> \o Tail(fields), pos + Len(tokens), Append(tree, <<"string", x>>))
  <2> HIDE DEF fields, pos
  <2> QED
    BY <1>3, <1>4, ReadsString
<1> QED
  BY <1>1, <1>2, <1>5, WritesLeaf, Zenon

\* After an operator, each reader has read it.
LEMMA WriteOpInv ==
  ASSUME NEW reader \in {"native", "python"}, SerialInv(reader), Next1("op"),
         NEW o, OpTag(o) # -1, Write(<< <<"u8", FK.op>>, <<"u8", OpTag(o)>> >>, << <<"op", o>> >>, <<>>)
  PROVE  SerialInv(reader)'
<1> DEFINE one == <<"u8", FK.op>>  two == <<"u8", OpTag(o)>>
           fields == FieldsOf(reader, todo)  pos == Len(stream) + 1
<1>1. status = "writing" /\ Head(todo)[1] = "op" /\ stream' = stream \o <<one, two>>
  BY Zenon DEF Next1, Write
<1>2. Before(stream', fields, pos, 2) /\ Head(fields) = FieldOf(reader, Head(todo)) /\ Head(todo) \in Item
      /\ stream'[pos] = one /\ stream'[pos + 1] = two
  BY <1>1, TwoTokens, Zenon
<1>3. Head(fields) \in {"op", "field"}
  BY <1>1, <1>2, FieldKinds
<1>4. Step(stream', reader, Reader(fields, pos, tree))
        = Reader(<<>> \o Tail(fields), pos + 2, Append(tree, <<"op", o>>))
  <2> HIDE DEF fields, pos
  <2> QED
    BY <1>2, <1>3, ReadsOperator
<1> QED
  BY <1>1, <1>4, ReadsTwo, Zenon

\* After the operators of a comparison, with their number as a u8, each reader has read them.
LEMMA WriteOpsInv ==
  ASSUME NEW reader \in {"native", "python"}, SerialInv(reader), Next1("ops"),
         NEW n \in Nat, NEW ops \in [1..n -> Operators \cap ToSet(Compared)],
         Write(<< <<"u8", n>> >> \o [i \in 1..n |-> <<"u8", OpTag(ops[i])>>], << <<"ops", ops>> >>, <<>>)
  PROVE  SerialInv(reader)'
<1> DEFINE one == <<"u8", n>>  first == <<one>>  tags == [i \in 1..n |-> <<"u8", OpTag(ops[i])>>]
           tokens == first \o tags  fields == FieldsOf(reader, todo)  pos == Len(stream) + 1
<1>1. status = "writing" /\ Head(todo)[1] = "ops" /\ stream' = stream \o tokens
  BY Zenon DEF Next1, Write
<1>2. Write(tokens, << <<"ops", ops>> >>, <<>>)
  OBVIOUS
<1>3. IsSeq(first) /\ Len(first) = 1 /\ first[1] = one
  BY ShortSeqs
<1>4. IsSeq(tags) /\ Len(tags) = n /\ \A i \in 1..n : tags[i] = <<"u8", OpTag(ops[i])>>
  <2>1. tags \in Seq({tags[i] : i \in 1..n}) /\ Len(tags) = n
    OBVIOUS
  <2> QED
    BY <2>1 DEF IsSeq
<1>5. /\ IsSeq(tokens) /\ Len(tokens) = n + 1 /\ tokens[1] = one
      /\ \A i \in 1..n : tokens[i + 1] = <<"u8", OpTag(ops[i])>>
  <2> HIDE DEF first, tags
  <2>0. IsSeq(first) /\ IsSeq(tags)
    BY <1>3, <1>4
  <2>1. /\ IsSeq(tokens) /\ Extends(first, tokens) /\ Len(tokens) = Len(first) + Len(tags)
        /\ \A i \in 1..Len(tags) : tokens[Len(first) + 1 + i - 1] = tags[i]
    BY <2>0, TokensFollow, Zenon
  <2> HIDE DEF tokens
  <2>2. Len(tokens) = n + 1 /\ tokens[1] = one
    BY <1>3, <1>4, <2>1 DEF Extends
  <2>3. ASSUME NEW i \in 1..n PROVE tokens[i + 1] = <<"u8", OpTag(ops[i])>>
    <3>1. Len(first) + 1 + i - 1 = i + 1
      BY <1>3
    <3> QED
      BY <1>4, <2>1, <3>1
  <2> QED
    BY <2>1, <2>2, <2>3
<1> HIDE DEF tokens
<1>6. Len(tokens) # 0
  BY <1>5
<1>7. /\ Before(stream', fields, pos, n + 1) /\ Head(fields) = FieldOf(reader, Head(todo)) /\ Head(todo) \in Item
      /\ \A i \in 1..(n + 1) : stream'[pos + i - 1] = tokens[i]
  <2>1. IsSeq(tokens) /\ Len(tokens) = n + 1
    BY <1>5
  <2>2. /\ Before(stream', fields, pos, Len(tokens)) /\ Head(fields) = FieldOf(reader, Head(todo))
        /\ Head(todo) \in Item /\ \A i \in 1..Len(tokens) : stream'[pos + i - 1] = tokens[i]
    BY <1>1, <1>6, <2>1, ReaderBefore, Zenon
  <2> HIDE DEF fields, pos
  <2> QED
    BY <2>1, <2>2, Zenon
<1>8. stream'[pos] = <<"u8", n>> /\ \A i \in 1..n : stream'[pos + i] = <<"u8", OpTag(ops[i])>>
  <2>1. pos \in Nat
    BY <1>7 DEF Before
  <2> HIDE DEF pos
  <2>2. stream'[pos] = one
    BY <1>5, <1>7, <2>1
  <2>3. ASSUME NEW i \in 1..n PROVE stream'[pos + i] = <<"u8", OpTag(ops[i])>>
    <3>1. i + 1 \in 1..(n + 1) /\ pos + (i + 1) - 1 = pos + i
      BY <2>1
    <3> QED
      BY <1>5, <1>7, <3>1
  <2> QED
    BY <2>2, <2>3
<1>9. Head(fields) = "ops"
  BY <1>1, <1>7, FieldKinds
<1>10. ops \in [1..n -> ToSet(Compared)]
  OBVIOUS
<1>11. Step(stream', reader, Reader(fields, pos, tree))
         = Reader(<<>> \o Tail(fields), pos + (n + 1), Append(tree, <<"ops", ops>>))
  <2> HIDE DEF fields, pos
  <2>1. OpsAt(stream', pos, n, ops)
    BY <1>8 DEF OpsAt
  <2> QED
    BY <1>7, <1>9, <1>10, <2>1, ReadsOperators
<1>12. Step(stream', reader, Reader(fields, pos, tree))
         = Reader(<<>> \o Tail(fields), pos + Len(tokens), Append(tree, <<"ops", ops>>))
  BY <1>5, <1>11, Zenon
<1> QED
  BY <1>1, <1>2, <1>5, <1>6, <1>12, WritesLeaf, Zenon

\* _write_string_field, _write_op_field and the operators of _s_compare.
LEMMA WriteScalarInv ==
  ASSUME NEW reader \in {"native", "python"}, SerialInv(reader), WriteScalar PROVE SerialInv(reader)'
<1>1. CASE \E x : Next1("string") /\ Write(StringTokens(x), << <<"string", x>> >>, <<>>)
  BY <1>1, WriteStringInv, Zenon
<1>2. CASE \E o : Next1("op") /\ OpTag(o) # -1
                  /\ Write(<< <<"u8", FK.op>>, <<"u8", OpTag(o)>> >>, << <<"op", o>> >>, <<>>)
  BY <1>2, WriteOpInv, Zenon
<1>3. CASE \E n \in Nat : \E ops \in [1..n -> Operators \cap ToSet(Compared)] :
             /\ Next1("ops")
             /\ Write(<< <<"u8", n>> >> \o [i \in 1..n |-> <<"u8", OpTag(ops[i])>>], << <<"ops", ops>> >>, <<>>)
  BY <1>3, WriteOpsInv, Zenon
<1>4. CASE status' = "refused" /\ UNCHANGED <<todo, stream, tree>>
  BY <1>4, RefuseKeeps, Zenon
<1>5. \A n \in 1..(MaxCount + 1) : n \in Nat
  BY AstAssumption
<1> QED
  BY <1>1, <1>2, <1>3, <1>4, <1>5, Zenon DEF WriteScalar

\* An integer.
LEMMA WriteIntInv ==
  ASSUME NEW reader \in {"native", "python"}, SerialInv(reader), WriteInt PROVE SerialInv(reader)'
<1>1. PICK x : Next1("int") /\ (Refuse \/ Write(IntTokens(x), << <<"int", x>> >>, <<>>))
  BY DEF WriteInt
<1>2. CASE Refuse
  BY <1>2, RefuseKeeps DEF Refuse
<1>3. CASE Write(IntTokens(x), << <<"int", x>> >>, <<>>)
  <2> DEFINE one == <<"u8", FK.int>>  two == <<"i64", x>>  fields == FieldsOf(reader, todo)  pos == Len(stream) + 1
  <2>1. Write(<<one, two>>, << <<"int", x>> >>, <<>>)
    BY <1>3, Zenon DEF IntTokens
  <2>2. status = "writing" /\ Head(todo)[1] = "int" /\ stream' = stream \o <<one, two>>
    BY <1>1, <2>1, Zenon DEF Next1, Write
  <2>3. Before(stream', fields, pos, 2) /\ Head(fields) = FieldOf(reader, Head(todo)) /\ Head(todo) \in Item
        /\ stream'[pos] = one /\ stream'[pos + 1] = two
    BY <2>2, TwoTokens, Zenon
  <2>4. Head(fields) \in {"int", "field"}
    BY <2>2, <2>3, FieldKinds
  <2>5. Step(stream', reader, Reader(fields, pos, tree))
          = Reader(<<>> \o Tail(fields), pos + 2, Append(tree, <<"int", x>>))
    <3>1. stream'[pos] = <<"u8", FK["int"]>>
      BY <2>3
    <3>2. stream'[pos + 1] = <<"i64", x>>
      BY <2>3
    <3> HIDE DEF fields, pos
    <3> QED
      BY <2>3, <2>4, <3>1, <3>2, ReadsValue
  <2> QED
    BY <2>1, <2>2, <2>5, ReadsTwo, Zenon
<1> QED
  BY <1>1, <1>2, <1>3

-----------------------------------------------------------------------------
(* Constants, which are read in two steps.                                  *)

\* A field put before a list of fields is the next one.
LEMMA FrontField ==
  ASSUME NEW q, IsSeq(q), NEW f
  PROVE  <<f>> \o q # <<>> /\ Head(<<f>> \o q) = f /\ Tail(<<f>> \o q) = q /\ <<>> \o q = q
<1>1. PICK S : q \in Seq(S)
  BY DEF IsSeq
<1> DEFINE T == S \cup {f}
<1>2. q \in Seq(T) /\ <<f>> \in Seq(T)
  BY <1>1
<1> HIDE DEF T
<1> QED
  BY <1>2

\* The kind of a constant is the next primitive, and behind it are those of its value.
LEMMA ReadsKind ==
  ASSUME NEW reader \in {"native", "python"}, SerialInv(reader), Next1("const"), NEW k \in 0..5,
         NEW value, IsSeq(value), NEW what, Write(<< <<"u8", k>> >> \o value, what, <<>>)
  PROVE  /\ ComesTo(stream', reader, Reader(ConstantField(k) \o Tail(FieldsOf(reader, todo)),
                                            Len(stream) + 2, Append(tree, <<"const", k>>)))
         /\ Extends(stream', stream') /\ Len(stream) \in Nat /\ Len(value) \in Nat
         /\ Len(stream) + 2 + Len(value) = Len(stream) + 1 + Len(<< <<"u8", k>> >> \o value)
         /\ IsSeq(<< <<"u8", k>> >> \o value) /\ Len(<< <<"u8", k>> >> \o value) # 0
         /\ Len(stream') = Len(stream) + 1 + Len(value)
         /\ \A i \in 1..Len(value) : stream'[Len(stream) + 2 + i - 1] = value[i]
<1> DEFINE one == <<"u8", k>>  first == <<one>>  tokens == first \o value  fields == FieldsOf(reader, todo)
           pos == Len(stream) + 1
<1>1. status = "writing" /\ Head(todo)[1] = "const" /\ stream' = stream \o tokens
  BY Zenon DEF Next1, Write
<1>2. IsSeq(first) /\ Len(first) = 1 /\ first[1] = one
  BY ShortSeqs
<1> HIDE DEF first
<1>3. /\ IsSeq(tokens) /\ Extends(first, tokens) /\ Len(tokens) = Len(first) + Len(value) /\ Len(value) \in Nat
      /\ \A i \in 1..Len(value) : tokens[Len(first) + 1 + i - 1] = value[i]
  <2>1. IsSeq(first)
    BY <1>2
  <2> QED
    BY <2>1, TokensFollow, Zenon
<1> HIDE DEF tokens
<1>4. Len(tokens) = Len(value) + 1 /\ Len(tokens) # 0 /\ tokens[1] = one
  BY <1>2, <1>3 DEF Extends
<1>5. /\ Before(stream', fields, pos, Len(tokens)) /\ Head(fields) = FieldOf(reader, Head(todo)) /\ Head(todo) \in Item
      /\ \A i \in 1..Len(tokens) : stream'[pos + i - 1] = tokens[i]
      /\ Extends(stream, stream') /\ Len(stream) \in Nat
  BY <1>1, <1>3, <1>4, ReaderBefore, Zenon
<1>5a. Len(stream) \in Nat /\ Len(value) \in Nat
  BY <1>3, <1>5, Zenon
<1>6. stream'[pos] = one /\ pos \in Nat /\ Before(stream', fields, pos, 1)
  <2> HIDE DEF fields, one
  <2> QED
    BY <1>3, <1>4, <1>5 DEF Before
<1>7. \A i \in 1..Len(value) : stream'[Len(stream) + 2 + i - 1] = value[i]
  <2>1. ASSUME NEW i \in 1..Len(value) PROVE stream'[Len(stream) + 2 + i - 1] = value[i]
    <3>1. i + 1 \in 1..Len(tokens) /\ pos + (i + 1) - 1 = Len(stream) + 2 + i - 1 /\ Len(first) + 1 + i - 1 = i + 1
      BY <1>2, <1>3, <1>4, <1>5
    <3> HIDE DEF pos
    <3> QED
      BY <1>3, <1>5, <3>1
  <2> QED
    BY <2>1
<1>8. Head(fields) = "const"
  BY <1>1, <1>5, FieldKinds
<1> DEFINE fields2 == ConstantField(k) \o Tail(fields)  pos2 == pos + 1  seen2 == Append(tree, <<"const", k>>)
<1>9. Step(stream', reader, Reader(fields, pos, tree)) = Reader(fields2, pos2, seen2)
  <2>1. stream'[pos] = <<"u8", k>> /\ Before(stream', fields, pos, 1)
    BY <1>6
  <2> HIDE DEF fields, pos, one
  <2>2. Step(stream', reader, Reader(fields, pos, tree))
          = Reader(ConstantField(k) \o Tail(fields), pos + 1, Append(tree, <<"const", k>>))
    BY <1>8, <2>1, ReadsConstant
  <2> QED
    BY <2>2, Zenon
<1>10. ComesTo(stream, reader, Reader(fields, pos, tree)) /\ pos2 \in Nat /\ pos2 > pos /\ pos2 = Len(stream) + 2
  BY <1>6 DEF SerialInv
<1> HIDE DEF fields2, pos2, seen2, fields, pos
<1>11. ComesTo(stream', reader, Reader(fields2, pos2, seen2))
  BY <1>5, <1>9, <1>10, RunGoesOn
<1>12. Extends(stream', stream') /\ Len(stream') = Len(stream) + 1 + Len(value)
  <2>1. IsSeq(stream)
    BY DEF SerialInv
  <2>2. Len(stream \o tokens) = Len(stream) + Len(tokens)
    BY <1>3, <2>1, TokensFollow, Zenon
  <2>3. Len(stream') = Len(stream) + 1 + Len(value)
    BY <1>5a, <1>1, <1>4, <2>2
  <2> QED
    BY <1>5a, <2>3 DEF Extends
<1>13. ComesTo(stream', reader, Reader(ConstantField(k) \o Tail(FieldsOf(reader, todo)),
                                       Len(stream) + 2, Append(tree, <<"const", k>>)))
  BY <1>10, <1>11, Zenon DEF fields2, seen2, fields
<1>14. Len(stream) + 2 + Len(value) = Len(stream) + 1 + Len(tokens)
  BY <1>5a, <1>4
<1> QED
  BY <1>3, <1>4, <1>5, <1>7, <1>12, <1>13, <1>14, Zenon DEF tokens, first

\* What is left to read after the next field is a sequence.
LEMMA FieldsAreSeq ==
  ASSUME NEW reader, NEW items \in Seq(Item), items # <<>>
  PROVE  IsSeq(Tail(FieldsOf(reader, items)))
<1> DEFINE F(i) == FieldOf(reader, i)  f == FieldsOf(reader, items)
<1>1. f \in Seq({F(i) : i \in Item}) /\ Len(f) = Len(items)
  BY DEF FieldsOf
<1>2. Tail(f) \in Seq({F(i) : i \in Item})
  <2> HIDE DEF f, F
  <2> QED
    BY <1>1
<1> QED
  BY <1>2 DEF IsSeq

\* The value of a constant is what a reader reads next.
LEMMA ReaderBeforeValue ==
  ASSUME NEW reader \in {"native", "python"}, SerialInv(reader), Next1("const"), NEW k \in 0..5,
         NEW value, IsSeq(value), Len(value) # 0, NEW what, Write(<< <<"u8", k>> >> \o value, what, <<>>)
  PROVE  /\ \A fields : fields # <<>> => Before(stream', fields, Len(stream) + 2, Len(value))
         /\ \A i \in 1..Len(value) : stream'[Len(stream) + 2 + i - 1] = value[i]
<1>1. /\ Len(stream) \in Nat /\ Len(value) \in Nat /\ Len(stream') = Len(stream) + 1 + Len(value)
      /\ \A i \in 1..Len(value) : stream'[Len(stream) + 2 + i - 1] = value[i]
  BY ReadsKind, ZenonT(30)
<1>2. ASSUME NEW fields, fields # <<>> PROVE Before(stream', fields, Len(stream) + 2, Len(value))
  BY <1>1, <1>2 DEF Before
<1> QED
  BY <1>1, <1>2, Zenon

\* The value of a constant is the next field after its kind.
LEMMA ValueField ==
  ASSUME NEW reader, SerialInv(reader), Next1("const"), NEW f
  PROVE  /\ <<f>> \o Tail(FieldsOf(reader, todo)) # <<>>
         /\ Head(<<f>> \o Tail(FieldsOf(reader, todo))) = f
<1>1. IsSeq(Tail(FieldsOf(reader, todo)))
  BY FieldsAreSeq DEF SerialInv, Next1
<1> QED
  BY <1>1, FrontField

\* Two entries appended at once or one by one.
LEMMA AppendTwo ==
  ASSUME NEW s, IsSeq(s), NEW x, NEW y
  PROVE  IsSeq(<<x>> \o <<y>>) /\ s \o (<<x>> \o <<y>>) = Append(Append(s, x), y)
<1>1. PICK S : s \in Seq(S)
  BY DEF IsSeq
<1> DEFINE T == S \cup {x, y}  a == <<x>>  b == <<y>>
<1>2. s \in Seq(T) /\ a \in Seq(T) /\ b \in Seq(T) /\ x \in T /\ y \in T
  BY <1>1
<1> HIDE DEF T
<1>3. Append(s, x) \in Seq(T) /\ Append(s, x) = s \o a
  BY <1>2
<1>4. Append(Append(s, x), y) = Append(s, x) \o b
  <2> DEFINE z == Append(s, x)
  <2> HIDE DEF z
  <2>1. z \in Seq(T)
    BY <1>3 DEF z
  <2>2. Append(z, y) = z \o b
    BY <1>2, <2>1
  <2> QED
    BY <2>2 DEF z
<1> HIDE DEF a, b
<1>5. (s \o a) \o b = s \o (a \o b)
  BY <1>2, ConcatAssociative
<1>6. a \o b \in Seq(T)
  BY <1>2
<1> QED
  BY <1>3, <1>4, <1>5, <1>6, Zenon DEF IsSeq, a, b

\* The value of a constant of kind k is a field.
HasValue(k, field) == ConstantField(k) = <<field>>

\* A constant keeps the invariant when its value is read in one step.
LEMMA WritesConstant ==
  ASSUME NEW reader \in {"native", "python"}, SerialInv(reader), Next1("const"),
         NEW k \in 0..5, NEW f, HasValue(k, f),
         NEW value, IsSeq(value), Len(value) # 0, NEW had,
         Write(<< <<"u8", k>> >> \o value, << <<"const", k>> >> \o <<had>>, <<>>),
         Step(stream', reader, Reader(<<f>> \o Tail(FieldsOf(reader, todo)), Len(stream) + 2,
                                      Append(tree, <<"const", k>>)))
           = Reader(<<>> \o Tail(<<f>> \o Tail(FieldsOf(reader, todo))), Len(stream) + 2 + Len(value),
                    Append(Append(tree, <<"const", k>>), had))
  PROVE  SerialInv(reader)'
<1> DEFINE kind == <<"const", k>>  what == <<kind>> \o <<had>>  tokens == << <<"u8", k>> >> \o value
           rest == Tail(FieldsOf(reader, todo))  fields == <<f>> \o rest  pos == Len(stream) + 2
           seen1 == Append(tree, kind)  seen2 == Append(seen1, had)  pos2 == pos + Len(value)
           fields2 == <<>> \o Tail(fields)
<1>1. /\ ComesTo(stream', reader, Reader(fields, pos, seen1)) /\ Extends(stream', stream')
      /\ Len(stream) \in Nat /\ Len(value) \in Nat /\ pos2 = Len(stream) + 1 + Len(tokens)
      /\ IsSeq(tokens) /\ Len(tokens) # 0
  BY ReadsKind, Zenon DEF HasValue
<1>2. pos2 \in Nat /\ pos2 > pos
  <2> HIDE DEF tokens
  <2> QED
    BY <1>1
<1>3. Step(stream', reader, Reader(fields, pos, seen1)) = Reader(fields2, pos2, seen2)
  OBVIOUS
<1>4. ComesTo(stream', reader, Reader(fields2, pos2, seen2))
  <2> HIDE DEF fields, pos, seen1, fields2, pos2, seen2
  <2> QED
    BY <1>1, <1>2, <1>3, RunGoesOn
<1>5. IsSeq(what) /\ tree \o what = seen2
  <2>1. IsSeq(tree)
    BY DEF SerialInv
  <2> HIDE DEF kind
  <2>2. IsSeq(<<kind>> \o <<had>>) /\ tree \o (<<kind>> \o <<had>>) = Append(Append(tree, kind), had)
    BY <2>1, AppendTwo
  <2> QED
    BY <2>2, Zenon
<1>6. fields2 = FieldsOf(reader, <<>>) \o rest
  <2>1. IsSeq(rest)
    BY FieldsAreSeq DEF SerialInv, Next1
  <2> HIDE DEF rest
  <2>2. Tail(fields) = rest
    BY <2>1, FrontField
  <2> HIDE DEF fields
  <2> QED
    BY <2>2, EmptyFields
<1> DEFINE new == <<>>
<1>7. new \in Seq(Item) /\ Write(tokens, what, new) /\ status = "writing"
  BY EmptyFields DEF Next1
<1>8. ComesTo(stream', reader, Reader(FieldsOf(reader, new) \o Tail(FieldsOf(reader, todo)),
                                      Len(stream) + 1 + Len(tokens), tree \o what))
  BY <1>1, <1>4, <1>5, <1>6, Zenon
<1> HIDE DEF new, tokens, what
<1> QED
  BY <1>1, <1>5, <1>7, <1>8, WritesField, Zenon

ValueWidth(field) == IF field = "int" THEN "i64" ELSE IF field = "float" THEN "f64" ELSE "u8"

\* The fields that follow the kinds of constants.
LEMMA ConstantFields ==
  /\ HasValue(0, "int") /\ HasValue(1, "float") /\ HasValue(2, "string") /\ HasValue(3, "bool")
  /\ ConstantField(4) = <<>> /\ ConstantField(5) = <<>>
BY DEF ConstantField, HasValue

\* An integer, a float or a boolean.
LEMMA WriteConstantValueInv ==
  ASSUME NEW reader \in {"native", "python"}, SerialInv(reader), Next1("const"),
         NEW k \in 0..5, NEW field \in {"int", "float", "bool"}, HasValue(k, field), NEW x,
         Write(<< <<"u8", k>> >> \o << <<"u8", FK[field]>>, <<ValueWidth(field), x>> >>,
               << <<"const", k>> >> \o << <<field, x>> >>, <<>>)
  PROVE  SerialInv(reader)'
<1> DEFINE one == <<"u8", FK[field]>>  two == <<ValueWidth(field), x>>  value == <<one, two>>
           what == << <<"const", k>> >> \o << <<field, x>> >>
           fields == <<field>> \o Tail(FieldsOf(reader, todo))  pos == Len(stream) + 2
           seen1 == Append(tree, <<"const", k>>)
<1>1. IsSeq(value) /\ Len(value) = 2 /\ Len(value) # 0 /\ value[1] = one /\ value[2] = two
  BY ShortSeqs
<1>2. Write(<< <<"u8", k>> >> \o value, what, <<>>)
  OBVIOUS
<1>3. /\ Before(stream', fields, pos, Len(value)) /\ Head(fields) = field
      /\ \A i \in 1..Len(value) : stream'[pos + i - 1] = value[i]
  <2>1. fields # <<>> /\ Head(fields) = field
    BY ValueField
  <2>2. IsSeq(value) /\ Len(value) # 0
    BY <1>1
  <2> HIDE DEF value, what, fields
  <2> QED
    BY <1>2, <2>1, <2>2, ReaderBeforeValue, Zenon
<1>4. Before(stream', fields, pos, 2) /\ stream'[pos] = one /\ stream'[pos + 1] = two
  <2>1. Before(stream', fields, pos, 2)
    BY <1>1, <1>3, Zenon
  <2> HIDE DEF value, one, two, fields, pos
  <2>2. pos \in Nat
    BY <2>1 DEF Before
  <2>3. stream'[pos] = one /\ stream'[pos + 1] = two
    BY <1>1, <1>3, <2>2
  <2> QED
    BY <2>1, <2>3
<1>5. Step(stream', reader, Reader(fields, pos, seen1))
        = Reader(<<>> \o Tail(fields), pos + 2, Append(seen1, <<field, x>>))
  <2>1. stream'[pos + 1] = <<IF field = "int" THEN "i64" ELSE IF field = "float" THEN "f64" ELSE "u8", x>>
    BY <1>4 DEF ValueWidth
  <2>2. Head(fields) \in {field, "field"}
    BY <1>3
  <2>3. stream'[pos] = <<"u8", FK[field]>> /\ Before(stream', fields, pos, 2)
    BY <1>4
  <2> HIDE DEF fields, pos, seen1
  <2> QED
    BY <2>1, <2>2, <2>3, ReadsValue
<1>6. Step(stream', reader, Reader(fields, pos, seen1))
        = Reader(<<>> \o Tail(fields), pos + Len(value), Append(seen1, <<field, x>>))
  BY <1>1, <1>5, Zenon
<1> HIDE DEF value
<1> QED
  BY <1>1, <1>2, <1>6, WritesConstant, Zenon

\* A string.
LEMMA WriteConstantStringInv ==
  ASSUME NEW reader \in {"native", "python"}, SerialInv(reader), Next1("const"),
         NEW k \in 0..5, HasValue(k, "string"), NEW x,
         Write(<< <<"u8", k>> >> \o StringTokens(x), << <<"const", k>> >> \o << <<"string", x>> >>, <<>>)
  PROVE  SerialInv(reader)'
<1> DEFINE value == StringTokens(x)  fields == <<"string">> \o Tail(FieldsOf(reader, todo))  pos == Len(stream) + 2
           seen1 == Append(tree, <<"const", k>>)  what == << <<"const", k>> >> \o << <<"string", x>> >>
<1>1. IsSeq(value) /\ Len(value) # 0 /\ Write(<< <<"u8", k>> >> \o value, what, <<>>)
  BY StringTokensAre
<1>3. /\ Before(stream', fields, pos, Len(value)) /\ Head(fields) = "string"
      /\ \A i \in 1..Len(value) : stream'[pos + i - 1] = value[i]
  <2>1. fields # <<>> /\ Head(fields) = "string"
    BY ValueField
  <2> HIDE DEF fields, value, what
  <2> QED
    BY <1>1, <2>1, ReaderBeforeValue, Zenon
<1>4. Step(stream', reader, Reader(fields, pos, seen1))
        = Reader(<<>> \o Tail(fields), pos + Len(value), Append(seen1, <<"string", x>>))
  <2>1. Head(fields) \in {"string", "field"}
    BY <1>3
  <2> HIDE DEF fields, pos, seen1
  <2> QED
    BY <1>3, <2>1, ReadsString
<1> QED
  BY <1>1, <1>4, WritesConstant, Zenon

\* None and the ellipsis have no value.
LEMMA WriteConstantNoneInv ==
  ASSUME NEW reader \in {"native", "python"}, SerialInv(reader), Next1("const"), NEW k \in {4, 5},
         Write(<< <<"u8", k>> >> \o <<>>, << <<"const", k>> >> \o <<>>, <<>>)
  PROVE  SerialInv(reader)'
<1> DEFINE value == <<>>  tokens == << <<"u8", k>> >> \o value  kind == <<"const", k>>  what == <<kind>> \o <<>>
           new == <<>>  pos2 == Len(stream) + 1 + Len(tokens)
<1>1. IsSeq(value) /\ Len(value) = 0
  <2>1. value \in Seq({})
    OBVIOUS
  <2> QED
    BY <2>1 DEF IsSeq
<1>2. k \in 0..5
  OBVIOUS
<1>2a. ConstantField(k) = <<>>
  BY ConstantFields
<1>3. Write(tokens, what, new)
  OBVIOUS
<1>4. IsSeq(what) /\ tree \o what = Append(tree, kind)
  <2> HIDE DEF kind
  <2>1. what = <<kind>>
    OBVIOUS
  <2>2. tree \o <<kind>> = Append(tree, kind)
    BY DEF SerialInv, IsSeq
  <2> QED
    BY <2>1, <2>2, ShortSeqs
<1>5. new \in Seq(Item) /\ FieldsOf(reader, new) = <<>> /\ status = "writing"
  BY EmptyFields DEF Next1
<1> HIDE DEF value, what, new
<1>6. /\ ComesTo(stream', reader, Reader(ConstantField(k) \o Tail(FieldsOf(reader, todo)),
                                         Len(stream) + 2, Append(tree, kind)))
      /\ Len(stream) \in Nat /\ Len(stream) + 2 + Len(value) = pos2
      /\ IsSeq(tokens) /\ Len(tokens) # 0
  <2>1. Write(<< <<"u8", k>> >> \o value, what, <<>>)
    BY <1>3, Zenon DEF new
  <2>2. IsSeq(value)
    BY <1>1
  <2> QED
    BY <1>2, <2>1, <2>2, ReadsKind, Zenon
<1>7. Len(stream) + 2 = pos2
  <2> HIDE DEF pos2
  <2> QED
    BY <1>1, <1>6
<1>8. ComesTo(stream', reader, Reader(FieldsOf(reader, new) \o Tail(FieldsOf(reader, todo)), pos2, tree \o what))
  BY <1>2a, <1>4, <1>5, <1>6, <1>7, Zenon
<1> HIDE DEF tokens
<1> QED
  BY <1>3, <1>4, <1>5, <1>6, <1>8, WritesField, Zenon

\* _s_constant, for each kind of constant.
LEMMA WriteConstantInv ==
  ASSUME NEW reader \in {"native", "python"}, SerialInv(reader), WriteConstant PROVE SerialInv(reader)'
<1> DEFINE Const(k, tokens, what) == Write(<< <<"u8", k>> >> \o tokens, << <<"const", k>> >> \o what, <<>>)
<1>0. Next1("const")
  BY DEF WriteConstant
<1>1. CASE \E x : Const(0, IntTokens(x), << <<"int", x>> >>)
  <2>1. PICK x : Const(0, IntTokens(x), << <<"int", x>> >>)
    BY <1>1
  <2>2. IntTokens(x) = << <<"u8", FK["int"]>>, <<ValueWidth("int"), x>> >>
    BY DEF IntTokens, ValueWidth
  <2>3. Const(0, << <<"u8", FK["int"]>>, <<ValueWidth("int"), x>> >>, << <<"int", x>> >>)
    BY <2>1, <2>2, Zenon
  <2>4. HasValue(0, "int") /\ 0 \in 0..5
    BY ConstantFields
  <2> QED
    BY <1>0, <2>3, <2>4, WriteConstantValueInv, Zenon
<1>2. CASE Const(1, << <<"u8", FK.float>>, <<"f64", "1.5">> >>, << <<"float", "1.5">> >>)
  <2>1. ValueWidth("float") = "f64" /\ HasValue(1, "float") /\ 1 \in 0..5
    BY ConstantFields DEF ValueWidth
  <2>2. Const(1, << <<"u8", FK["float"]>>, <<ValueWidth("float"), "1.5">> >>, << <<"float", "1.5">> >>)
    BY <1>2, <2>1, Zenon
  <2> QED
    BY <1>0, <2>1, <2>2, WriteConstantValueInv, Zenon
<1>3. CASE \E b : Const(3, << <<"u8", FK.bool>>, <<"u8", b>> >>, << <<"bool", b>> >>)
  <2>1. PICK b : Const(3, << <<"u8", FK.bool>>, <<"u8", b>> >>, << <<"bool", b>> >>)
    BY <1>3
  <2>2. ValueWidth("bool") = "u8" /\ HasValue(3, "bool") /\ 3 \in 0..5
    BY ConstantFields DEF ValueWidth
  <2>3. Const(3, << <<"u8", FK["bool"]>>, <<ValueWidth("bool"), b>> >>, << <<"bool", b>> >>)
    BY <2>1, <2>2, Zenon
  <2> QED
    BY <1>0, <2>2, <2>3, WriteConstantValueInv, Zenon
<1>4. CASE \E x : Const(2, StringTokens(x), << <<"string", x>> >>)
  <2>1. HasValue(2, "string") /\ 2 \in 0..5
    BY ConstantFields
  <2> QED
    BY <1>0, <1>4, <2>1, WriteConstantStringInv, Zenon
<1>5. CASE \E k \in {4, 5} : Const(k, <<>>, <<>>)
  BY <1>0, <1>5, WriteConstantNoneInv, Zenon
<1>6. CASE Refuse
  BY <1>6, RefuseKeeps DEF Refuse
<1>7. \/ \E x : Refuse \/ Const(0, IntTokens(x), << <<"int", x>> >>)
      \/ Const(1, << <<"u8", FK.float>>, <<"f64", "1.5">> >>, << <<"float", "1.5">> >>)
      \/ \E x : Const(2, StringTokens(x), << <<"string", x>> >>)
      \/ \E b : Const(3, << <<"u8", FK.bool>>, <<"u8", b>> >>, << <<"bool", b>> >>)
      \/ \E k \in {4, 5} : Const(k, <<>>, <<>>)
      \/ Refuse
  BY Zenon DEF WriteConstant
<1> QED
  BY <1>1, <1>2, <1>3, <1>4, <1>5, <1>6, <1>7, Zenon

-----------------------------------------------------------------------------
(* The theorems.                                                            *)

\* Every step of the serializer keeps each reader in step.
LEMMA NextSerialInv ==
  ASSUME NEW reader \in {"native", "python"}, SerialInv(reader), [AstNext]_astvars PROVE SerialInv(reader)'
<1>1. CASE WriteNode
  BY <1>1, WriteNodeInv
<1>2. CASE WriteNodeField
  BY <1>2, WriteNodeFieldInv
<1>3. CASE WriteNodeListField
  BY <1>3, WriteNodeListFieldInv
<1>4. CASE WriteScalar
  BY <1>4, WriteScalarInv
<1>5. CASE WriteInt
  BY <1>5, WriteIntInv
<1>6. CASE WriteConstant
  BY <1>6, WriteConstantInv
<1>7. CASE UNCHANGED astvars
  BY <1>7 DEF SerialInv, astvars
<1> QED
  BY <1>1, <1>2, <1>3, <1>4, <1>5, <1>6, <1>7 DEF AstNext, AstStop

\* A reader that the invariant holds for has read the tree when it is written.
LEMMA ReadsWhole ==
  ASSUME NEW reader, SerialInv(reader), status = "written" PROVE ReadsBack(Deserialize(stream, reader))
<1> DEFINE r == Reader(<<>>, Len(stream) + 1, tree)
<1>1. todo = <<>> /\ IsSeq(stream)
  BY DEF SerialInv
<1>2. FieldsOf(reader, todo) = <<>>
  BY <1>1, EmptyFields
<1>3. ComesTo(stream, reader, r)
  BY <1>2 DEF SerialInv
<1>4. Len(stream) \in Nat
  BY <1>1 DEF IsSeq
<1>5. Deserialize(stream, reader) = r
  <2>1. r = Reader(<<>>, Len(stream) + 1, tree)
    OBVIOUS
  <2> HIDE DEF r
  <2> QED
    BY <1>3, <1>4, <2>1, RunEnds
<1> QED
  BY <1>5 DEF ReadsBack, Reader

\* The reader of ast_nodes.py gets every tree that serialize writes, of any size and depth.
THEOREM NativeReadsTreeCorrect == AstSpec => []NativeReadsTree
<1>1. AstInit => SerialInv("native")
  BY InitSerialInv
<1>2. SerialInv("native") /\ [AstNext]_astvars => SerialInv("native")'
  BY NextSerialInv
<1>3. SerialInv("native") => NativeReadsTree
  BY ReadsWhole DEF NativeReadsTree
<1> QED
  BY <1>1, <1>2, <1>3, PTL DEF AstSpec

\* So does AstDeserializer, which lets kind bytes tell it the fields.
THEOREM PythonReadsTreeCorrect == AstSpec => []PythonReadsTree
<1>1. AstInit => SerialInv("python")
  BY InitSerialInv
<1>2. SerialInv("python") /\ [AstNext]_astvars => SerialInv("python")'
  BY NextSerialInv
<1>3. SerialInv("python") => PythonReadsTree
  BY ReadsWhole DEF PythonReadsTree
<1> QED
  BY <1>1, <1>2, <1>3, PTL DEF AstSpec
=============================================================================
