------------------------------- MODULE MCTools -------------------------------
(* Repl and Build in one run: part says which of the tools a behaviour is of. *)
EXTENDS Repl, MCBuild

VARIABLE part

NoBuild ==
  /\ tool = "none" /\ target = Unset /\ clock = 0 /\ src = [m \in Modules |-> Unset] /\ cfile = <<>> /\ output = Unset
  /\ step = "none" /\ todo = <<>> /\ stack = <<>> /\ compiled = {} /\ cfiles = <<>> /\ recompiled = FALSE
  /\ lastSeen = 0 /\ outcome = "none" /\ start = src
NoSession ==
  /\ pc = "none" /\ source = None /\ counter = 0 /\ lib = None /\ saved = None /\ inputs = 0
  /\ before = None /\ kind = "none" /\ ran = <<>>

ToolsInit ==
  \/ part = "repl" /\ Init /\ NoBuild
  \/ part = "build" /\ BuildInit /\ NoSession

ToolsNext ==
  \/ part = "repl" /\ Next /\ UNCHANGED <<part, buildvars>>
  \/ part = "build" /\ BuildNext /\ UNCHANGED <<part, vars>>

ToolsSpec == ToolsInit /\ [][ToolsNext]_<<part, vars, buildvars>> /\ Fairness
=============================================================================
