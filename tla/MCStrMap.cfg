CONSTANTS
  k1 = k1
  k2 = k2
  k3 = k3
  k4 = k4
  Null = Null
  Absent = Absent
  Keys = {k1, k2, k3, k4}
  Values = {Null, v1}
  HashOf <- MCHash
  Kinds = {"map", "set"}
  InitialCaps = {0}
  DefaultCap = 4
  DeletesFrom = {"map"}
  MaxCap = 8
SPECIFICATION Spec
INVARIANTS KeysAreFound RoomForOneMore
PROPERTY ImplementsMap
