-------------------------------- MODULE Maps --------------------------------
(***************************************************************************)
(* The std::collections::BTreeMap operations the control plane uses, on    *)
(* functions whose domain is the set of keys present.                      *)
(***************************************************************************)
EXTENDS Functions

EmptyMap == [k \in {} |-> k]

\* BTreeMap::insert, which replaces the value of a key already present.
Put(f, k, v) == [x \in DOMAIN f \cup {k} |-> IF x = k THEN v ELSE f[x]]

\* BTreeMap::remove.
Drop(f, k) == Restrict(f, DOMAIN f \ {k})

\* A map from some of the keys K to values in V.
IsMap(f, K, V) == DOMAIN f \subseteq K /\ \A k \in DOMAIN f : f[k] \in V
=============================================================================
