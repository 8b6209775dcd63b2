CONSTANTS
  NumClusters = 3
  Pinned = 1
  HostLinked <- MCTwo
  Stateful <- MCNone
  Exporting <- MCMayExport
  MaxVersion = 2
  MaxGeneration = 3
SPECIFICATION Spec
INVARIANTS RefsMatchHandles DanglingOnlyAfterFailure PinnedStaysOut
PROPERTY LoadsTheFile
