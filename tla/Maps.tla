-------------------------------- MODULE Maps --------------------------------
(***************************************************************************)
(* A Go map is a function whose domain is the set of its keys.             *)
(***************************************************************************)

Put(m, key, value) ==
    [k \in DOMAIN m \cup {key} |-> IF k = key THEN value ELSE m[k]]

Delete(m, key) == [k \in DOMAIN m \ {key} |-> m[k]]

EmptyMap == [k \in {} |-> k]
=============================================================================
