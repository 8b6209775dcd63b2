CONSTANTS
  Functions <- MCFunctions
  Deferrable = {"a", "b", "free x"}
  MaxLoops = 2
SPECIFICATION FlowSpec
INVARIANTS NoUseAfterMove LeaksReported FaultsReported FreedByItself DeferredCallsRun
