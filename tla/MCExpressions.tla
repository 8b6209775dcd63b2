--------------------------- MODULE MCExpressions ---------------------------
EXTENDS Expressions

N(name) == [op |-> "name", name |-> name]
L(n) == [op |-> "lit", t |-> Int64, n |-> 4 * n]
Call(name) == [op |-> "call", name |-> name]
Bin(o, l, r) == [op |-> "bin", o |-> o, args |-> <<l, r>>]
Cmp(ops, args) == [op |-> "cmp", ops |-> ops, args |-> args]
Text == [op |-> "lit", t |-> Chars, n |-> 4]
None == [op |-> "lit", t |-> Null, n |-> 0]

Atoms == {N(x) : x \in DOMAIN Names} \cup {L(0), L(2), Text, Call("count"), Call("half"), Call("sqrt"), Call("outside")}
Operators == {"+", "-", "*", "/", "//", "%"}
Comparisons == {"==", "!=", "<", "is"}
Leaves == Atoms \cup {Node("deref", <<N("p")>>), Node("deref", <<N("q")>>), Node("member", <<N("v")>>),
                     Node("member", <<N("w")>>), Node("index", <<N("a"), N("i")>>), Node("index", <<N("p"), N("i")>>)}
Some == {N("n"), N("x"), N("v"), N("s"), Call("half")}
Simple == Leaves
  \cup {Bin(o, l, r) : o \in Operators, l \in Leaves, r \in Leaves}
  \cup {Cmp(<<o>>, <<l, r>>) : o \in Comparisons, l \in Leaves \cup {None}, r \in Leaves \cup {None}}
  \cup {Cmp(<<"<", o>>, <<l, k, r>>) : o \in {"<", "=="}, l \in {N("n"), L(2)}, k \in {N("x"), Call("count")}, r \in {N("n"), N("i")}}
  \cup {Node(o, <<l>>) : o \in {"neg", "not"}, l \in Leaves}
  \cup {Node("if", <<N("b"), l, r>>) : l \in Leaves, r \in Leaves}
\* Of which some are parts of larger expressions.
Inner == {e \in Simple : e.op \in {"bin", "cmp", "if"} /\ ("o" \in DOMAIN e => e.o \in {"+", "//"}) /\ \A k \in DOMAIN e.args : e.args[k] \in Some \cup {N("i")}}
  \cup (Leaves \ Atoms) \cup {e \in Simple : IsChain(e)} \cup {Cmp(<<"==">>, <<N("p"), None>>)}
Nested == {Bin(o, l, r) : o \in {"+", "*", "/"}, l \in Inner, r \in {N("n"), N("x"), N("v")}}
  \cup {Node(o, <<e>>) : o \in {"neg", "not"}, e \in Inner}
  \cup {Node(o, <<l, r>>) : o \in {"and", "or"}, l \in {N("b"), N("n"), Cmp(<<"!=">>, <<N("p"), None>>)}, r \in Inner}
  \cup {Node("if", <<l, r, N("n")>>) : l \in {N("b"), Call("count")}, r \in Inner}
  \cup {Cmp(<<"<">>, <<l, N("n")>>) : l \in Inner}
  \cup {Node("index", <<N("a"), e>>) : e \in {Call("count"), Bin("-", N("i"), L(2))}}
Augmented == {[op |-> "aug", o |-> o, name |-> x, args |-> <<e>>] :
                o \in Operators, x \in {"n", "h", "x", "v", "s"}, e \in Leaves \cup {Bin("+", N("n"), N("x"))}}
MCSources == Simple \cup Nested \cup Augmented

MCSettings == {[n |-> k[1], i |-> k[2], b |-> k[3], p |-> k[4], x |-> 6, f |-> 2, h |-> -4, s |-> k[5], q |-> 2, v |-> 4, w |-> 5, a |-> 3] :
                 k \in {<<12, 4, 4, 1, 8>>, <<-32, 8, 0, 0, 0>>, <<-4, 0, 0, 1, 8>>, <<0, 8, 4, 1, 4>>}}

\* A parameter, a global, or a local variable, which is declared with a type.
Given(annotated, value) == [annotated |-> annotated, value |-> value]
Later == {<<>>} \cup {<<Given(FALSE, v)>> : v \in {"none", "alloc", "other", "several"}}
MCPointers ==
  [own : {"parameter", "global"}, assigned : Later]
  \cup [own : {"local"}, assigned : {<<Given(TRUE, v)>> \o l : v \in {"none", "alloc", "other", "missing"}, l \in Later}]
=============================================================================
