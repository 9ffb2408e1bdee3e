-------------------------------- MODULE Maps --------------------------------
(***************************************************************************)
(* The std::unordered_map of the sources as a function whose domain is the *)
(* set of keys present.                                                    *)
(***************************************************************************)
EXTENDS Functions

EmptyMap == [k \in {} |-> k]

IsMap(f, K, V) ==
    /\ f = [k \in DOMAIN f |-> f[k]]
    /\ DOMAIN f \subseteq K
    /\ \A k \in DOMAIN f : f[k] \in V

(* map[k] = v *)
Put(f, k, v) == [x \in DOMAIN f \cup {k} |-> IF x = k THEN v ELSE f[x]]

(* map.emplace(k, v): an entry that is already there stays *)
Emplace(f, k, v) == IF k \in DOMAIN f THEN f ELSE Put(f, k, v)

(* map.erase of every key in K *)
Without(f, K) == Restrict(f, DOMAIN f \ K)
=============================================================================
