---------------------------- MODULE MCThreadPool ----------------------------
(* Small instances of ThreadPool for TLC.                                   *)
EXTENDS ThreadPool, TLC

CONSTANTS owner, m1, m2, m3, m4, m5

\* Two workers, and the owner, who submits too.
MCWorkers    == {1, 2}
MCProducers  == MCWorkers \cup {owner}

MCTasks == {m1, m2, m3, m4, m5}

\* The owner submits m1 and m3, which submit three more tasks: with one slot both
\* workers may find the queue full.
Nested == [m \in MCTasks |->
             CASE m = m1 -> {m2, m5} [] m = m3 -> {m4} [] OTHER -> {}]
=============================================================================
