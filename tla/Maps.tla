-------------------------------- MODULE Maps --------------------------------
(***************************************************************************)
(* std::unordered_map as a function on the set of its keys.                *)
(***************************************************************************)

NoEntries == [x \in {} |-> 0]

(* m[k] = v                                                                *)
Put(f, k, v) == [x \in DOMAIN f \cup {k} |-> IF x = k THEN v ELSE f[x]]

(* erase, for a set of keys                                                *)
Erase(f, K) == [x \in DOMAIN f \ K |-> f[x]]

IsMap(f, K, V) == DOMAIN f \subseteq K /\ \A k \in DOMAIN f : f[k] \in V
=============================================================================
