------------------------------- MODULE MCBuild -------------------------------
(* Small instances of Build for TLC.                                        *)
EXTENDS Build

CONSTANTS app, base, util

\* app imports base and util, base imports util; each takes another name of util.
MCImports == (app :> <<base, util>>) @@ (base :> <<util>>) @@ (util :> <<>>)
MCUses == [m \in Modules |-> [d \in Modules |-> IF m = app /\ d = util THEN {"a"} ELSE {"a", "b"}]]
MCTargets == [kind : {"exe"}, sources : {<<app>>, <<app, util>>, <<app, util, base>>}]
             \cup [kind : {"static", "shared"}, sources : {<<base>>, <<base, util>>}]
=============================================================================
