----------------------------- MODULE StringMap -----------------------------
(***************************************************************************)
(* What a map keyed by strings promises: every answer is that of a partial  *)
(* function, here a total one with Absent for the keys that are not in it.  *)
(* A set is a map in which every member has the value Null.                 *)
(***************************************************************************)
CONSTANTS Keys, Values, Null, Absent

VARIABLES
  map,   \* the value of each key
  reply  \* the answer of the last call that has one

Init == map = [k \in Keys |-> Absent] /\ reply = Null

Put(k, v) == map' = [map EXCEPT ![k] = v] /\ UNCHANGED reply

Get(k) == reply' = (IF map[k] = Absent THEN Null ELSE map[k]) /\ UNCHANGED map

Has(k) == reply' = (map[k] # Absent) /\ UNCHANGED map

Delete(k) == reply' = (map[k] # Absent) /\ map' = [map EXCEPT ![k] = Absent]

Next == \E k \in Keys : Get(k) \/ Has(k) \/ Delete(k) \/ \E v \in Values : Put(k, v)

Spec == Init /\ [][Next]_<<map, reply>>
=============================================================================
