----------------------------- MODULE MCControl -----------------------------
(* Small programs for Control.                                              *)
EXTENDS Control

Ones == {Do("a"), See, Store("i"), Op("break"), Op("continue"), Op("return"), Op("raise")}
Bodies == {<<s>> : s \in Ones} \cup {<<s, Do("z")>> : s \in Ones}

Cond == {{Is("v", 1)}}
Ifs == {IfElse(c, b, e) : c \in {Cond, {{Is("i", 1)}}}, b \in Bodies, e \in {<<>>, <<Do("b")>>, <<See>>}}

RangeFor(args, start, stop, step, body) ==
  [op |-> "range", args |-> args, start |-> start, stop |-> stop, step |-> step, body |-> body]
UpTo(n, body) == RangeFor(1, Literal(0), Literal(n), Literal(1), body)
RangeFors(bodies) ==
  UNION {{UpTo(n, b) : n \in 0..3} : b \in bodies}
  \cup UNION {{RangeFor(2, Literal(m), Literal(n), Literal(1), b) : m \in 1..2, n \in 0..6} : b \in bodies}
  \cup UNION {{RangeFor(3, Literal(0), Literal(3), Literal(n), b), RangeFor(3, Literal(3), Literal(0), Literal(-n), b)}
                : n \in 1..2, b \in bodies}

\* Loops up and down whose stop or step is the variable v, with or without a minus, and
\* bodies that change v or the variable of the loop.
Changing == {<<See>>, <<See, Add("v", 1)>>, <<Add("v", -1), See>>, <<See, Add("i", 1)>>,
             <<IfElse({{Is("i", 1)}}, <<Add("v", 2)>>, <<>>), See>>}
Variable(bodies) ==
  {RangeFor(1, Literal(0), Signed(1), Literal(1), b) : b \in bodies}
  \cup {RangeFor(3, Literal(m), Literal(n), Signed(k), b) : m, n \in {0, 3}, k \in {1, -1}, b \in bodies}
  \cup {RangeFor(3, Literal(3), Signed(k), Literal(-1), b) : k \in {1, -1}, b \in bodies}

EachOf(form, over, slots, shortest, body) ==
  [op |-> "each", form |-> form, over |-> over, slots |-> slots, shortest |-> shortest, body |-> body]
Each(bodies) ==
  {EachOf(f, o, <<TRUE, TRUE>>, 2, b) : f \in {"plain", "enumerate"}, o \in {"array", "list", "other"}, b \in bodies}
  \cup {EachOf("zip", o, <<TRUE, TRUE>>, n, b) : o \in {"array", "list"}, n \in 1..3, b \in bodies}
  \cup {EachOf("items", "dict", s, 2, b) : s \in [1..2 -> BOOLEAN], b \in bodies}

Case(values, binds, guard, body) == [values |-> values, binds |-> binds, guard |-> guard, body |-> body]
SeeW == [op |-> "see", var |-> "w"]
Guarded == {Case(p, FALSE, g, <<b>>) : p \in {{1}, {1, 2}}, g \in {{}, {Is("i", 1)}},
                                       b \in {Do("a"), See, Op("break"), Op("raise")}}
           \cup {Case({}, TRUE, {Is("w", 2)}, <<b>>) : b \in {SeeW, Op("continue")}}
           \cup {Case({1}, TRUE, {}, <<SeeW>>)}
Final == {Case({}, FALSE, {}, <<b>>) : b \in {Do("c"), Op("raise")}} \cup {Case({}, TRUE, {}, <<SeeW>>)}
MatchOf(text, cases) == [op |-> "match", text |-> text, cases |-> cases]
Matches ==
  LET short == {<<c>> : c \in Guarded \cup Final} \cup (Guarded \X Final)
  IN {MatchOf(text, s) : text \in BOOLEAN, s \in short}
     \cup {MatchOf(FALSE, s) : s \in (Guarded \X Guarded) \cup (Guarded \X Guarded \X Final)}

Item(name, opener, bound) == [name |-> name, opener |-> opener, bound |-> bound]
Openers == {"_open", "_new", "_create", "_init", "scope", "other"}
Items == {<<Item("x", o, b)>> : o \in Openers, b \in BOOLEAN}
         \cup {<<Item("x", o, TRUE), Item("y", p, TRUE)>> : o, p \in {"_open", "other", "scope"}}
Withs(bodies) == {[op |-> "with", items |-> i, body |-> b] : i \in Items, b \in bodies}

\* break and continue are only in loops, and the loop variable is.
Outside(s) ==
  \A t \in AllOf(<<s>>) :
    /\ t.op \notin {"break", "continue", "store"}
    /\ t.op = "see"   => t.var # "i"
    /\ t.op = "if"    => \A alt \in t.cond : \A g \in alt : g.name # "i"
    /\ t.op = "match" => \A c \in Cases(t) : \A g \in c.guard : g.name # "i"

Compounds == Ifs \cup Matches \cup Withs(Bodies)
InnerLoops == {UpTo(2, <<s>>) : s \in Ones} \cup {EachOf("items", "dict", <<FALSE, TRUE>>, 2, <<s>>) : s \in Ones}
Loops == RangeFors(Bodies) \cup Variable(Changing) \cup Each(Bodies)
         \cup {UpTo(2, <<s, Do("y")>>) : s \in Compounds}
         \cup {UpTo(3, <<s, Do("y")>>) : s \in InnerLoops}
         \cup Each({<<s>> : s \in Withs({<<Do("a")>>, <<Op("break")>>}) \cup Variable({<<Add("v", 1)>>})})
Top == {s \in Compounds : Outside(s)} \cup Loops

MCSubjects == -1..2
Unrolls(bodies) == RangeFors(bodies) \cup {RangeFor(2, Literal(1), Signed(2), Literal(1), b) : b \in bodies}
MCPrograms ==
  [body : {<<s, Do("end")>> : s \in Top}, unroll : {0}]
  \cup [body : {<<s>> : s \in Unrolls(Bodies \cup {<<Do("a"), s>> : s \in Ones})}, unroll : {2, 3}]
=============================================================================
