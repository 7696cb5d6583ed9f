------------------------------- MODULE JsMap -------------------------------
(***************************************************************************)
(* The ECMAScript Map, as the stores of the protocol package use it: a     *)
(* function whose domain is the set of keys present.  A key that is absent *)
(* from the domain is a key for which Map.get returns undefined.           *)
(***************************************************************************)

EmptyMap == [k \in {} |-> k]

\* Map.set: the key is added, or its value replaced.
MapSet(m, key, value) ==
  [k \in DOMAIN m \cup {key} |-> IF k = key THEN value ELSE m[k]]

\* Map.delete for every key of a set.
MapDelete(m, keys) == [k \in DOMAIN m \ keys |-> m[k]]

\* A map with keys in K and values in V.
IsMapOf(m, K, V) == DOMAIN m \subseteq K /\ m \in [DOMAIN m -> V]

=============================================================================
