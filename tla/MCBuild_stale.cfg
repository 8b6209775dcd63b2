CONSTANTS
  app = app
  base = base
  util = util
  Modules = {app, base, util}
  Main = app
  Imports <- MCImports
  Uses <- MCUses
  Names = {"a", "b"}
  Targets <- MCTargets
  Tools = {"runner"}
  Unset = Unset
  EditedBuilds = {}
  MaxTime = 4
SPECIFICATION BuildSpec
INVARIANT ImportsAreCurrent
