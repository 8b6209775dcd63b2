CONSTANTS
  NumModules = 3
  FactChoices <- MCFacts
  ImportChoices <- MCImports
  CallChoices <- MCCalls
  PinChoices <- MCPins
  Modes = {"dev", "release"}
SPECIFICATION Spec
INVARIANTS EveryModuleInOneCluster MergeKeepsCategories MergeIsComplete PinsHold DispatchIsExact
