----------------------------- MODULE Dictionary -----------------------------
(***************************************************************************)
(* What a hash table promises (hash.h): a value for each key that has one, *)
(* every call giving back what the key had before.                         *)
(***************************************************************************)
CONSTANTS Keys, Values, None

VARIABLES
  map,    \* per key: its value, or None
  ret     \* what the last call has returned

Init == map = [k \in Keys |-> None] /\ ret = None

Push(k, v) == map' = [map EXCEPT ![k] = v] /\ ret' = map[k]
Pop(k) == map' = [map EXCEPT ![k] = None] /\ ret' = map[k]
Peek(k) == ret' = map[k] /\ UNCHANGED map
Walk == ret' = None /\ UNCHANGED map
Destroy == map' = [k \in Keys |-> None] /\ UNCHANGED ret

Next ==
  \/ \E k \in Keys :
       Pop(k) \/ Peek(k) \/ \E v \in Values : Push(k, v)
  \/ Walk \/ Destroy

Spec == Init /\ [][Next]_<<map, ret>>
=============================================================================
