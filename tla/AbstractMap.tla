----------------------------- MODULE AbstractMap -----------------------------
(* What a map from keys to values promises its users.                       *)
CONSTANTS Key, Value
VARIABLE map

Init == map = [k \in {} |-> k]

(* A key that is there keeps its value. *)
Emplace(k, v) ==
  map' = IF k \in DOMAIN map THEN map
         ELSE [j \in DOMAIN map \cup {k} |-> IF j = k THEN v ELSE map[j]]
Erase(k) == map' = [j \in DOMAIN map \ {k} |-> map[j]]
Clear == map' = [k \in {} |-> k]

Next == (\E k \in Key : Erase(k) \/ \E v \in Value : Emplace(k, v)) \/ Clear
Spec == Init /\ [][Next]_map
=============================================================================
