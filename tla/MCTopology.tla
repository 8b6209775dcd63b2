----------------------------- MODULE MCTopology -----------------------------
(* Small instances of Topology for TLC: three modules.              *)
EXTENDS Topology, TLC

Plain == [acquires |-> {}, releases |-> {}, globals |-> FALSE, keep |-> FALSE,
          exports |-> FALSE, size |-> 1]
MCFacts ==
  {Plain, [Plain EXCEPT !.exports = TRUE], [Plain EXCEPT !.globals = TRUE],
   [Plain EXCEPT !.acquires = {"file_open"}],
   [Plain EXCEPT !.acquires = {"mutex_new"}, !.size = 2], [Plain EXCEPT !.keep = TRUE]}

\* Imports as the calls need them, or everybody's, called or not.
MCImports == {<< {2}, {3}, {1, 2} >>, [m \in Modules |-> Modules \ {m}]}

\* A cycle, one function called by two modules, a function called twice or in both
\* directions, calls inside a module and of something outside the program.
MCCalls ==
  {<< >>, << <<1, 2>> >>, << <<1, 2>>, <<2, 3>>, <<3, 1>> >>,
   << <<1, 2>>, <<3, 2>>, <<1, 2>>, <<3, 2>> >>, << <<3, 2>>, <<1, 2>>, <<1, 2>> >>,
   << <<1, 2>>, <<1, 3>>, <<1, 0>>, <<2, 3>> >>, << <<3, 1>>, <<1, 1>>, <<1, 3>>, <<2, 3>> >>,
   << <<3, 1>>, <<2, 1>>, <<3, 1>>, <<3, 2>> >>}

\* No name is pinned to two anchors; a pair may be repeated, or name no function.
MCPins      == {<< >>, << <<1, 2>>, <<2, 3>> >>, << <<3, 2>>, <<3, 1>> >>,
                << <<1, 3>>, <<1, 3>> >>, << <<1, 0>>, <<1, 2>> >>}
=============================================================================
