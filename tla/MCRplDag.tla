------------------------------ MODULE MCRplDag ------------------------------
(* The root, its neighbour a, and b behind a. *)
EXTENDS RplDag

CONSTANTS a, b

Both(n, m) == {<<n, m>>, <<m, n>>}
Line == Both(Root, a) \cup Both(a, b)

\* The links to the root stay perfect; the others may become too bad.
Etxs == [l \in Line |-> IF l[1] = Root THEN {4} ELSE {4, 16}]
=============================================================================
