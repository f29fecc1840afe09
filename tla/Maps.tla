-------------------------------- MODULE Maps --------------------------------
(***************************************************************************)
(* Go maps as functions over a finite part of a key set: a key is in the   *)
(* map exactly when it is in the function's domain.                        *)
(***************************************************************************)
EXTENDS Functions

\* m is a map from keys in S to values in T.
IsMap(m, S, T) == DOMAIN m \subseteq S /\ m \in [DOMAIN m -> T]

EmptyMap == [x \in {} |-> {}]

\* m[k] = v
Put(m, k, v) == [x \in DOMAIN m \cup {k} |-> IF x = k THEN v ELSE m[x]]

\* delete(m, k)
Delete(m, k) == Restrict(m, DOMAIN m \ {k})
=============================================================================
