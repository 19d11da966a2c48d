------------------------------ MODULE Dictionary -----------------------------
(***************************************************************************)
(* What a list of pairs promises: a partial function from keys to values.  *)
(***************************************************************************)
CONSTANTS Keys, Values

VARIABLE map

Init == map = [k \in {} |-> CHOOSE v \in Values : TRUE]

Put(key, value) ==
    map' = [k \in DOMAIN map \cup {key} |-> IF k = key THEN value ELSE map[k]]

Drop(key) ==
    /\ key \in DOMAIN map
    /\ map' = [k \in DOMAIN map \ {key} |-> map[k]]

\* A key is given another name, which is new.
Rename(key, new) ==
    /\ key \in DOMAIN map /\ new \notin DOMAIN map
    /\ map' = [k \in (DOMAIN map \ {key}) \cup {new} |-> IF k = new THEN map[key] ELSE map[k]]

Clear == map' = [k \in {} |-> map[k]]

Next ==
    \/ \E key \in Keys, value \in Values : Put(key, value)
    \/ \E key \in Keys : Drop(key)
    \/ \E key, new \in Keys : Rename(key, new)
    \/ Clear

Spec == Init /\ [][Next]_map
==============================================================================
