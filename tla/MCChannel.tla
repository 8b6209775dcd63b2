------------------------------ MODULE MCChannel ------------------------------
(* Small instances of Channel for TLC.                                      *)
EXTENDS Channel, TLC

\* Threads of one role are interchangeable, and so are the messages.
Symmetry == Permutations(Producers) \cup Permutations(Consumers) \cup Permutations(Messages)
=============================================================================
