------------------------------ MODULE AstSerial ------------------------------
(***************************************************************************)
(* The binary form of a syntax tree: AstSerializer and AstDeserializer of   *)
(* compiler/ast_serial.py and the reader of native/src/ast_nodes.py.        *)
(*                                                                         *)
(* One behaviour writes one tree, chosen while it is written.  The stream   *)
(* is a sequence of <<width, value>>, one for each primitive packed; tree   *)
(* lists what was written in depth-first order, which fixes the tree.  A    *)
(* reader takes one step for each field, driven by its own table of fields. *)
(***************************************************************************)
EXTENDS Integers, Sequences, SequencesExt

CONSTANTS
  Strings, NoString,  \* names in the source, and Python's None for one
  Ints,               \* values of integer literals
  MaxLine,            \* 65535: the largest line number a u16 holds
  MaxInt,             \* the largest i64
  MaxCount,           \* 255: the most operators of a comparison that a u8 counts
  Operators,          \* operators in the source
  FirstLines,         \* bound: where a tree may start
  MaxInner,           \* bound: nodes of a tree that are no leaves
  MaxLen              \* bound: children in one list

ASSUME AstAssumption == MaxCount \in Nat /\ MaxLen \in Nat
\* The length of a list is an i32.
ASSUME LengthsFit == MaxLen <= 2147483647

VARIABLES
  todo,    \* fields still to write, the next one first
  inner,   \* inner nodes so far
  line,    \* line of the next node
  stream, tree,
  status   \* "writing", "written" or "refused": an exception left serialize

astvars == <<todo, inner, line, stream, tree, status>>

-----------------------------------------------------------------------------
(* The tags, numbered by their place.                                       *)

Statements == <<"Module", "FunctionDef", "ClassDef", "Return", "Raise", "Expr", "If",
  "While", "For", "With", "Assign", "AugAssign", "AnnAssign", "Assert", "Break",
  "Continue", "Pass", "Import", "ImportFrom", "Match">>
Expressions == <<"Constant", "Name", "Call", "Attribute", "Subscript", "BinOp",
  "UnaryOp", "BoolOp", "Compare", "IfExp", "Tuple", "List", "Set", "Dict", "JoinedStr",
  "FormattedValue", "ListComp", "Lambda">>
Helpers == <<"arguments", "arg", "keyword", "alias", "comprehension", "withitem",
  "match_case", "MatchValue", "MatchOr", "MatchAs">>

Place(x, names) == CHOOSE i \in 1..Len(names) : names[i] = x

TagOf(t) ==
  CASE t \in ToSet(Statements)  -> Place(t, Statements) - 1
    [] t \in ToSet(Expressions) -> Place(t, Expressions) + 29
    [] OTHER                    -> Place(t, Helpers) + 59

\* The cases of ast_read_node: which reader a tag number calls.
ReaderOf(n) ==
  CASE n \in 0..19  -> Statements[n + 1]
    [] n \in 30..47 -> Expressions[n - 29]
    [] n \in 60..69 -> Helpers[n - 59]
    [] OTHER        -> "none"

\* The operators, by table; their tags start at 0, 20, 30 and 40.
Binary == <<"Add", "Sub", "Mult", "Div", "Mod", "Pow", "FloorDiv", "LShift", "RShift",
  "BitOr", "BitXor", "BitAnd">>
Unary == <<"UAdd", "USub", "Not", "Invert">>
Compared == <<"Eq", "NotEq", "Lt", "LtE", "Gt", "GtE", "Is", "IsNot", "In", "NotIn">>

OpTag(o) ==
  CASE o \in ToSet(Binary) -> Place(o, Binary) - 1
    [] o \in ToSet(Unary)  -> Place(o, Unary) + 19
    [] o = "And" -> 30  [] o = "Or" -> 31
    [] o \in ToSet(Compared) -> Place(o, Compared) + 39
    [] OTHER -> -1

\* What the compiled compiler takes a tag for.
OpOf(n) ==
  CASE n \in 0..11  -> Binary[n + 1]
    [] n \in 20..23 -> Unary[n - 19]
    [] n = 30 -> "And"  [] n = 31 -> "Or"
    [] n \in 40..49 -> Compared[n - 39]
    [] OTHER -> "none"

\* The field kinds.
FK == [node |-> 0, list |-> 1, string |-> 2, int |-> 3, float |-> 4, bool |-> 5, op |-> 6, none |-> 7]

-----------------------------------------------------------------------------
(* What is written, with the class of node Python's grammar has there.  The *)
(* lengths of lists are free, where the grammar relates or bounds some.      *)

Node(c) == <<"node", c>>      \* _write_node_field, never None
MaybeNode(c) == <<"node?", c>>
List(c) == <<"list", c>>
Bare(c) == <<"bare", c>>      \* _serialize, without a prefix
Str == <<"string", "name">>
MaybeStr == <<"string", "name?">>
Integer == <<"int", "int">>
Op == <<"op", "op">>

WrittenStatement == [
  Module |-> <<List("stmt")>>,
  FunctionDef |-> <<Str, Bare("args"), List("stmt"), List("expr"), MaybeNode("expr")>>,
  ClassDef |-> <<Str, List("expr"), List("keyword"), List("stmt"), List("expr")>>,
  Return |-> <<MaybeNode("expr")>>,          Raise |-> <<MaybeNode("expr")>>,
  Expr |-> <<Node("expr")>>,                 If |-> <<Node("expr"), List("stmt"), List("stmt")>>,
  While |-> <<Node("expr"), List("stmt")>>,  For |-> <<Node("expr"), Node("expr"), List("stmt")>>,
  With |-> <<List("withitem"), List("stmt")>>,
  Assign |-> <<List("expr"), Node("expr")>>, AugAssign |-> <<Node("expr"), Op, Node("expr")>>,
  AnnAssign |-> <<Node("expr"), Node("expr"), MaybeNode("expr")>>,
  Assert |-> <<Node("expr"), MaybeNode("expr")>>,
  Break |-> <<>>,  Continue |-> <<>>,  Pass |-> <<>>,
  Import |-> <<List("alias")>>,              ImportFrom |-> <<MaybeStr, List("alias")>>,
  Match |-> <<Node("expr"), List("case")>>]

WrittenExpression == [
  Constant |-> << <<"const", "const">> >>,   Name |-> <<Str>>,
  Call |-> <<Node("expr"), List("expr"), List("keyword")>>,
  Attribute |-> <<Node("expr"), Str>>,       Subscript |-> <<Node("expr"), Node("expr")>>,
  BinOp |-> <<Node("expr"), Op, Node("expr")>>,  UnaryOp |-> <<Op, Node("expr")>>,
  BoolOp |-> <<Op, List("expr")>>,
  Compare |-> <<Node("expr"), <<"ops", "op">>, List("expr")>>,
  IfExp |-> <<Node("expr"), Node("expr"), Node("expr")>>,
  Tuple |-> <<List("expr")>>,  List |-> <<List("expr")>>,  Set |-> <<List("expr")>>,
  Dict |-> <<List("key"), List("expr")>>,    JoinedStr |-> <<List("expr")>>,
  FormattedValue |-> <<Node("expr"), Integer, MaybeNode("expr")>>,
  ListComp |-> <<Node("expr"), List("comp")>>,  Lambda |-> <<Bare("args"), Node("expr")>>]

WrittenHelper == [
  arguments |-> <<List("arg"), MaybeNode("arg"), List("expr")>>,
  arg |-> <<Str, MaybeNode("expr")>>,        keyword |-> <<MaybeStr, Node("expr")>>,
  alias |-> <<Str, MaybeStr>>,               withitem |-> <<Node("expr"), MaybeNode("expr")>>,
  comprehension |-> <<Node("expr"), Node("expr"), List("expr")>>,
  match_case |-> <<Node("pattern"), MaybeNode("expr"), List("stmt")>>,
  MatchValue |-> <<Node("expr")>>,           MatchOr |-> <<List("pattern")>>,
  MatchAs |-> <<MaybeNode("pattern"), MaybeStr>>]

Written(t) ==
  CASE t \in ToSet(Statements)  -> WrittenStatement[t]
    [] t \in ToSet(Expressions) -> WrittenExpression[t]
    [] OTHER                    -> WrittenHelper[t]

\* The keys of _DISPATCH a child of class c may have; "other" is a node without a
\* serializer, "none" the key of a ** item, for which there is none either.
Leaf(c) == CASE c = "stmt" -> "Pass" [] c \in {"expr", "key"} -> "Name" [] c = "args" -> "arguments"
             [] c = "comp" -> "comprehension" [] c = "case" -> "match_case"
             [] c = "pattern" -> "MatchAs" [] OTHER -> c
Dispatch(c) ==
  CASE c = "stmt"    -> (ToSet(Statements) \ {"Module"}) \cup {"other"}
    [] c = "expr"    -> ToSet(Expressions) \cup {"other"}
    [] c = "key"     -> {"Name", "none"}
    [] c = "pattern" -> {"MatchValue", "MatchOr", "MatchAs", "other"}
    [] OTHER         -> {Leaf(c)}

\* Nodes of the ast module that have no lineno attribute.
NoLine == {"Module", "arguments", "comprehension", "withitem", "match_case"}

-----------------------------------------------------------------------------
(* The writer.                                                              *)

AstInit ==
  /\ todo = <<Bare("module")>> /\ inner = 0 /\ line \in FirstLines
  /\ stream = << <<"magic", "MPYA">> >> /\ tree = <<>> /\ status = "writing"

Write(tokens, seen, fields) ==
  /\ stream' = stream \o tokens
  /\ tree' = tree \o seen
  /\ todo' = fields \o Tail(todo)
  /\ status' = IF todo' = <<>> THEN "written" ELSE "writing"

\* struct.error or ValueError: the caller gets no bytes.
Refuse == status' = "refused" /\ UNCHANGED <<todo, inner, line, stream, tree>>

Next1(kind) == status = "writing" /\ Head(todo)[1] = kind

\* _serialize: the header of a node, and its fields to be written next.
WriteNode ==
  /\ Next1("bare")
  /\ \E t \in IF Head(todo)[2] = "module" THEN {"Module"} ELSE Dispatch(Head(todo)[2]) :
       /\ t = Leaf(Head(todo)[2]) \/ inner < MaxInner
       /\ LET at == IF t \in NoLine THEN 0 ELSE line
          IN IF t \in {"other", "none"} \/ at > MaxLine THEN Refuse
             ELSE /\ Write(<< <<"u8", TagOf(t)>>, <<"u16", at>> >>, << <<t, at>> >>, Written(t))
                  /\ inner' = IF t = Leaf(Head(todo)[2]) THEN inner ELSE inner + 1
                  /\ line' = IF t \in NoLine THEN line ELSE line + 1

WriteNodeField ==
  /\ UNCHANGED <<inner, line>>
  /\ \/ /\ Next1("node") \/ Next1("node?")
        /\ Write(<< <<"u8", FK.node>> >>, << <<"node", TRUE>> >>, << Bare(Head(todo)[2]) >>)
     \/ Next1("node?") /\ Write(<< <<"u8", FK.none>> >>, << <<"node", FALSE>> >>, <<>>)

WriteNodeListField ==
  /\ Next1("list") /\ UNCHANGED <<inner, line>>
  /\ \E n \in 0..MaxLen :
       Write(<< <<"u8", FK.list>>, <<"i32", n>> >>, << <<"list", n>> >>, [i \in 1..n |-> Bare(Head(todo)[2])])

\* Seeded bug: None is written as an empty string.
StringTokensEmpty(s) == << <<"u8", FK.string>>, <<"i32", 1>>, <<"bytes", IF s = NoString THEN "" ELSE s>> >>

\* What one string, integer, operator and constant become.
StringTokens(s) ==
  IF s = NoString THEN << <<"u8", FK.string>>, <<"i32", -1>> >>
  ELSE << <<"u8", FK.string>>, <<"i32", 1>>, <<"bytes", s>> >>
IntTokens(v) == << <<"u8", FK.int>>, <<"i64", v>> >>

WriteScalar ==
  /\ UNCHANGED <<inner, line>>
  /\ \/ /\ Next1("string")
        /\ \E s \in Strings \cup (IF Head(todo)[2] = "name?" THEN {NoString} ELSE {}) :
             Write(StringTokens(s), << <<"string", s>> >>, <<>>)
     \/ /\ Next1("op")
        /\ \E o \in Operators :
             IF OpTag(o) = -1 THEN status' = "refused" /\ UNCHANGED <<todo, stream, tree>>
             ELSE Write(<< <<"u8", FK.op>>, <<"u8", OpTag(o)>> >>, << <<"op", o>> >>, <<>>)
     \/ /\ Next1("ops")
        /\ \E n \in 1..(MaxCount + 1) :
          \E ops \in [1..n -> (Operators \cap ToSet(Compared))] :
             IF n > MaxCount THEN status' = "refused" /\ UNCHANGED <<todo, stream, tree>>
             ELSE Write(<< <<"u8", n>> >> \o [i \in 1..n |-> <<"u8", OpTag(ops[i])>>], << <<"ops", ops>> >>, <<>>)

WriteInt ==
  /\ Next1("int")
  /\ \E v \in Ints : IF v > MaxInt THEN Refuse
                     ELSE Write(IntTokens(v), << <<"int", v>> >>, <<>>) /\ UNCHANGED <<inner, line>>

\* _s_constant: the kind, then the value as a field of that kind.
WriteConstant ==
  /\ Next1("const")
  /\ LET Const(k, tokens, seen) == /\ Write(<< <<"u8", k>> >> \o tokens, << <<"const", k>> >> \o seen, <<>>)
                                   /\ UNCHANGED <<inner, line>>
     IN
     \/ \E v \in Ints : IF v > MaxInt THEN Refuse ELSE Const(0, IntTokens(v), << <<"int", v>> >>)
     \/ Const(1, << <<"u8", FK.float>>, <<"f64", "1.5">> >>, << <<"float", "1.5">> >>)
     \/ \E s \in Strings : Const(2, StringTokens(s), << <<"string", s>> >>)
     \/ \E b \in {0, 1} : Const(3, << <<"u8", FK.bool>>, <<"u8", b>> >>, << <<"bool", b>> >>)
     \/ \E k \in {4, 5} : Const(k, <<>>, <<>>)
     \/ Refuse  \* bytes and complex

AstStop == status # "writing" /\ UNCHANGED astvars

AstNext == WriteNode \/ WriteNodeField \/ WriteNodeListField \/ WriteScalar \/ WriteInt
           \/ WriteConstant \/ AstStop

AstSpec == AstInit /\ [][AstNext]_astvars

-----------------------------------------------------------------------------
(* The readers.  A reader's state: fields still to read, the place in the   *)
(* stream, what it has read, and whether it has stopped with an error.      *)

\* What the reader of each tag reads: AstDeserializer._read_node only counts.
Fields(n) == [i \in 1..n |-> "field"]
PythonReads(t) ==
  CASE t \in {"Break", "Continue", "Pass"} -> <<>>
    [] t \in {"Module", "Return", "Raise", "Expr", "Import", "MatchValue", "MatchOr", "Name", "Tuple",
              "List", "Set", "JoinedStr"} -> Fields(1)
    [] t \in {"While", "With", "Assign", "Assert", "ImportFrom", "Match", "MatchAs", "Attribute",
              "Subscript", "UnaryOp", "BoolOp", "Dict", "ListComp", "arg", "keyword", "alias",
              "withitem"} -> Fields(2)
    [] t \in {"If", "For", "AugAssign", "AnnAssign", "match_case", "Call", "BinOp", "IfExp",
              "FormattedValue", "comprehension", "arguments"} -> Fields(3)
    [] t = "ClassDef"    -> Fields(5)
    [] t = "FunctionDef" -> <<"field", "bare", "field", "field", "field">>
    [] t = "Lambda"      -> <<"bare", "field">>
    [] t = "Compare"     -> <<"field", "ops", "field">>
    [] OTHER             -> <<"const">>

\* The readers of ast_nodes.py know what they read.
NativeStatement == [
  Module |-> <<"list">>, FunctionDef |-> <<"string", "bare", "list", "list", "node">>,
  ClassDef |-> <<"string", "list", "list", "list", "list">>,
  Return |-> <<"node">>, Raise |-> <<"node">>, Expr |-> <<"node">>,
  If |-> <<"node", "list", "list">>, While |-> <<"node", "list">>,
  For |-> <<"node", "node", "list">>, With |-> <<"list", "list">>,
  Assign |-> <<"list", "node">>, AugAssign |-> <<"node", "op", "node">>,
  AnnAssign |-> <<"node", "node", "node">>, Assert |-> <<"node", "node">>,
  Break |-> <<>>, Continue |-> <<>>, Pass |-> <<>>,
  Import |-> <<"list">>, ImportFrom |-> <<"string", "list">>, Match |-> <<"node", "list">>]

NativeExpression == [
  Constant |-> <<"const">>, Name |-> <<"string">>, Call |-> <<"node", "list", "list">>,
  Attribute |-> <<"node", "string">>, Subscript |-> <<"node", "node">>,
  BinOp |-> <<"node", "op", "node">>, UnaryOp |-> <<"op", "node">>, BoolOp |-> <<"op", "list">>,
  Compare |-> <<"node", "ops", "list">>, IfExp |-> <<"node", "node", "node">>,
  Tuple |-> <<"list">>, List |-> <<"list">>, Set |-> <<"list">>, Dict |-> <<"list", "list">>,
  JoinedStr |-> <<"list">>, FormattedValue |-> <<"node", "int", "node">>,
  ListComp |-> <<"node", "list">>, Lambda |-> <<"bare", "node">>]

NativeHelper == [
  arguments |-> <<"list", "node", "list">>, arg |-> <<"string", "node">>,
  keyword |-> <<"string", "node">>, alias |-> <<"string", "string">>,
  comprehension |-> <<"node", "node", "list">>, withitem |-> <<"node", "node">>,
  match_case |-> <<"node", "node", "list">>, MatchValue |-> <<"node">>,
  MatchOr |-> <<"list">>, MatchAs |-> <<"node", "string">>]

NativeReads(t) ==
  CASE t \in ToSet(Statements)  -> NativeStatement[t]
    [] t \in ToSet(Expressions) -> NativeExpression[t]
    [] OTHER                    -> NativeHelper[t]

\* One reader or the other.
Reads(reader, t) == IF reader = "native" THEN NativeReads(t) ELSE PythonReads(t)

\* What the reader of the Python compiler takes a kind byte of 0..7 for.
KindOf(k) == <<"node", "list", "string", "int", "float", "bool", "op", "node">>[k + 1]
\* The value field of a constant of kind 0..5.
ConstantField(k) == << <<"int">>, <<"float">>, <<"string">>, <<"bool">>, <<>>, <<>> >>[k + 1]

\* The i-th primitive of s that reader state r has before it, of the Left(s, r) that are left.
At(s, r, i) == s[r.pos + i - 1]
Left(s, r) == Len(s) - r.pos + 1

\* The field to read: the Python reader lets the kind byte tell.
NextField(s, r) ==
  CASE Head(r.fields) # "field" -> Head(r.fields)
    [] Head(r.fields) = "field" /\ Left(s, r) > 0 /\ At(s, r, 1)[1] = "u8" /\ At(s, r, 1)[2] \in 0..7 -> KindOf(At(s, r, 1)[2])
    [] OTHER -> "unknown"

\* The primitives before r start with what tells how long the field is.
InStep(s, r, field) ==
  /\ field # "unknown" /\ Left(s, r) > 0 /\ At(s, r, 1)[1] = "u8"
  /\ field = "const" => At(s, r, 1)[2] \in 0..5
  /\ field = "ops" => At(s, r, 1)[2] \in Nat
  /\ field \in {"list", "string"} => Left(s, r) > 1 /\ At(s, r, 2)[1] = "i32"

\* The widths of the field.
Widths(s, r, field) ==
  CASE field = "bare"   -> <<"u8", "u16">>
    [] field = "node"   -> <<"u8">>
    [] field = "list"   -> <<"u8", "i32">>
    [] field = "string" -> IF At(s, r, 2)[2] = -1 THEN <<"u8", "i32">> ELSE <<"u8", "i32", "bytes">>
    [] field = "int"    -> <<"u8", "i64">>
    [] field = "float"  -> <<"u8", "f64">>
    [] field = "const"  -> <<"u8">>
    [] field = "ops"    -> [i \in 1..(At(s, r, 1)[2] + 1) |-> "u8"]
    [] OTHER            -> <<"u8", "u8">>  \* "bool" and "op"

\* One field of values v: what is seen, and the fields its contents put next.  The kind
\* byte decides for the node field alone; the native reader skips the others.
Contents(reader, field, v) ==
  CASE field = "bare"   -> LET t == ReaderOf(v[1])
                           IN << <<t, v[2]>>, IF t = "none" THEN <<>> ELSE Reads(reader, t) >>
    [] field = "node"   -> << <<field, v[1] # FK.none>>, IF v[1] = FK.none THEN <<>> ELSE <<"bare">> >>
    [] field = "list"   -> << <<field, v[2]>>, [i \in 1..v[2] |-> "bare"] >>
    [] field = "string" -> << <<field, IF v[2] = -1 THEN NoString ELSE v[3]>>, <<>> >>
    [] field = "const"  -> << <<field, v[1]>>, ConstantField(v[1]) >>
    [] field = "ops"    -> << <<field, [i \in 1..v[1] |-> OpOf(v[i + 1])]>>, <<>> >>
    [] field = "op"     -> << <<field, OpOf(v[2])>>, <<>> >>
    [] OTHER            -> << <<field, v[2]>>, <<>> >>

\* All the field's primitives are there.
Whole(s, r, field) ==
  /\ InStep(s, r, field) /\ Len(Widths(s, r, field)) <= Left(s, r)
  /\ \A i \in 1..Len(Widths(s, r, field)) : At(s, r, i)[1] = Widths(s, r, field)[i]

Read(s, reader, r, field) ==
  LET n == Len(Widths(s, r, field))
      got == Contents(reader, field, [i \in 1..n |-> At(s, r, i)[2]])
  IN [fields |-> got[2] \o Tail(r.fields), pos |-> r.pos + n, seen |-> Append(r.seen, got[1]), ok |-> TRUE]

Step(s, reader, r) ==
  IF ~r.ok \/ r.fields = <<>> THEN r  \* the reader has returned
  ELSE IF Whole(s, r, NextField(s, r)) THEN Read(s, reader, r, NextField(s, r))
  ELSE [r EXCEPT !.ok = FALSE]

\* deserialize: past the magic, one node, and whatever follows it is left.  No field is
\* without primitives, so the reader takes fewer steps than there are primitives.
Start == [fields |-> <<"bare">>, pos |-> 2, seen |-> <<>>, ok |-> TRUE]
Deserialize(s, reader) ==
  LET after[n \in 0..Len(s)] == IF n = 0 THEN Start ELSE Step(s, reader, after[n - 1])
  IN after[Len(s)]

-----------------------------------------------------------------------------
(* Properties.                                                              *)

ReadsBack(r) == r.ok /\ r.seen = tree /\ r.pos = Len(stream) + 1

\* The native reader gets the tree that was written, to the last byte of the stream: its
\* field tables (ast_nodes.py:461-734) are those of the serializer, in the same order.
NativeReadsTree == status = "written" => ReadsBack(Deserialize(stream, "native"))

\* So does the reader the round trip is tested with (ast_serial.py:693-854).
PythonReadsTree == status = "written" => ReadsBack(Deserialize(stream, "python"))
=============================================================================
