CONSTANTS
  Objects = {o1, o2, o3}
  Null = Null
  Garbage = Garbage
  Slots = {"ptr", "value", "parent"}
  MCRoot = o1
  Walk <- MCWalk
  MaxStack = 4
  NoString = NoString
  Strings = {"x"}
  Ints = {7, 9}
  MaxInt = 8
  Operators = {"Add", "NotIn", "MatMult"}
  MaxLine = 3
  FirstLines = {1, 3}
  MaxInner = 3
  MaxLen = 2
  MaxCount = 2
SPECIFICATION FormatsSpec
INVARIANTS NativeReadsTree PythonReadsTree LoadedGraphIsSaved
