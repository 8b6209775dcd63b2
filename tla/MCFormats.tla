------------------------------ MODULE MCFormats ------------------------------
(* AstSerial and GraphSerial in one run: part says which of the two file     *)
(* formats a behaviour is about.                                             *)
EXTENDS GraphSerial, AstSerial

VARIABLE part

CONSTANT MCRoot  \* objects are alike, so that one root is enough

MCWalk == <<"ptr", "value">>

NoAst == todo = <<>> /\ inner = 0 /\ line = 0 /\ stream = <<>> /\ tree = <<>> /\ status = "none"
NoGraph ==
  /\ graph = <<>> /\ root = Null /\ phase = "none" /\ stack = <<>> /\ seen = <<>> /\ file = <<>> /\ loaded = <<>>

FormatsInit ==
  \/ part = "tree" /\ AstInit /\ NoGraph
  \/ part = "graph" /\ Init /\ root = MCRoot /\ NoAst

FormatsNext ==
  \/ part = "tree" /\ AstNext /\ UNCHANGED <<part, vars>>
  \/ part = "graph" /\ Next /\ UNCHANGED <<part, astvars>>

FormatsSpec == FormatsInit /\ [][FormatsNext]_<<part, vars, astvars>>
=============================================================================
