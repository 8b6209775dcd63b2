------------------------------- MODULE MCFlow -------------------------------
(* Small functions for Flow: lists of statements, put into lines.           *)
EXTENDS Flow

RECURSIVE Lines(_, _)
\* The lines of a statement of which the first is line p.
StatementLines(s, p) ==
  IF s.op = "if"
  THEN LET body == Lines(s.body, p + 1)
           e == p + 1 + Len(body)
           orelse == Lines(s.orelse, e + 1)
           n == e + 1 + Len(orelse)
       IN <<If(e, n)>> \o body \o <<Else(p, n)>> \o orelse \o <<End(p)>>
  ELSE IF s.op \in {"while", "with"}
  THEN LET body == Lines(s.body, p + 1)
       IN <<Block(s.op, p + 1 + Len(body))>> \o body \o <<End(p)>>
  ELSE <<s>>
Lines(body, p) ==
  IF body = <<>> THEN <<>>
  ELSE LET first == StatementLines(Head(body), p) IN first \o Lines(Tail(body), p + Len(first))

Op(o) == [op |-> o]
Atoms(kind) ==
  CASE kind = "own"     -> {Op(o) : o \in {"use", "free", "take", "return", "returnuse"}}
    [] kind = "local"   -> {Op(o) : o \in {"use", "free", "take", "return", "returnx", "returnuse", "returntuple", "raise"}}
    [] kind = "cleanup" -> {Op("return"), Op("raise"), [op |-> "defer", call |-> "a"], [op |-> "defer", call |-> "b"]}

\* Statements whose arms and blocks are bodies of those.
Over(bodies) ==
  {[op |-> "if", body |-> b, orelse |-> e] : b \in bodies, e \in bodies \cup {<<>>}}
  \cup [op : {"while", "with"}, body : bodies]
Upto(S, n) == UNION {[1..m -> S] : m \in 1..n}
Small(kind) == Atoms(kind) \cup Over({<<a>> : a \in Atoms(kind)})

\* Three plain statements, two that may be compound, an arm or block of two plain ones
\* or of a compound one, with a plain one after it.
Bodies(kind) ==
  Upto(Atoms(kind), 3) \cup Upto(Small(kind), 2)
  \cup {<<s, a>> : s \in Over([1..2 -> Atoms(kind)]), a \in Atoms(kind)}
  \cup {<<s, a>> : s \in Over({<<t>> : t \in {u \in Small(kind) : u.op \in Compound /\ ("orelse" \in DOMAIN u => u.orelse = <<>>)}}), a \in Atoms(kind)}
  \cup (IF kind = "cleanup" THEN {} ELSE {<<FreeLater>> \o b : b \in Upto(Small(kind), 1)} \cup {<<s, FreeLater>> : s \in Over({<<a>> : a \in Atoms(kind)})})

FunctionsOf(kind, results, bodies) == [kind : {kind}, result : results, body : {Lines(b, 1) : b \in bodies}]
MCFunctions ==
  UNION {FunctionsOf(k, IF k = "cleanup" THEN BOOLEAN ELSE {FALSE}, Bodies(k)) : k \in {"own", "local", "cleanup"}}
RaisingFunctions == FunctionsOf("cleanup", BOOLEAN, Upto(Small("cleanup"), 2))
=============================================================================
