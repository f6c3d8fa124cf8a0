------------------------------ MODULE MCRoxyMap ------------------------------
(* Small instances of RoxyMap: key objects and their hashes.               *)
EXTENDS RoxyMap, TLC

CONSTANTS ka, kb, kc, kd, ke, kn, sa, sb

\* Float keys: three share a home, one is its neighbour, one equals nothing.
FloatContent == [k \in Key |-> k]
FloatHash ==
    [k \in Class |-> CASE k \in {ka, kb} -> 3 [] k = kc -> 7 [] k = ke -> 4 [] OTHER -> 0]

\* String keys: sa and sb are equal strings at two addresses.
StringContent == [k \in Key |-> IF k \in {sa, sb} THEN ka ELSE k]
StringHash == [k \in Class |-> 1]

\* Objects that nothing tells apart: values, and the two equal strings.
LikeObjects == Permutations(Val) \cup Permutations({sa, sb})
=============================================================================
