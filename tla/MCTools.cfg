CONSTANTS
  Structs = {s}
  Functions = {f}
  Globals = {x}
  Widths = {1, 8}
  None = None
  Opaque = Opaque
  Unset = Unset
  Garbage = Garbage
  MaxInputs = 4
  app = app
  base = base
  util = util
  Modules = {app, base, util}
  Main = app
  Imports <- MCImports
  Uses <- MCUses
  Names = {"a", "b"}
  Targets <- MCTargets
  Tools = {"runner", "watch", "topology"}
  EditedBuilds = {"watch"}
  MaxTime = 6
SPECIFICATION ToolsSpec
INVARIANTS BuildIsCurrent
PROPERTIES ValuesPersist FailedStatementUndone LastEditBuilt
