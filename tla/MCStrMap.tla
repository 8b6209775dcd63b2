------------------------------ MODULE MCStrMap ------------------------------
(* Small instances of StrMap for TLC.                                       *)
EXTENDS StrMap, TLC

CONSTANTS k1, k2, k3, k4

\* Two keys share a slot, a third follows them, the last wraps around.
MCHash == (k1 :> 0) @@ (k2 :> 4) @@ (k3 :> 1) @@ (k4 :> 7)
=============================================================================
