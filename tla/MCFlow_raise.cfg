CONSTANTS
  Functions <- RaisingFunctions
  Deferrable = {"a", "b"}
  MaxLoops = 1
SPECIFICATION FlowSpec
INVARIANT RaiseReturnsError
