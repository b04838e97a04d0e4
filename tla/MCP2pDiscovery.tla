--------------------------- MODULE MCP2pDiscovery ---------------------------
(* Three relays: a and c hear the origin, c badly, and b hears only them;   *)
(* c hears b and a hears c, but a does not hear b and c does not hear a.    *)
EXTENDS P2pDiscovery

CONSTANTS a, b, c, x

Both(n, m) == {<<n, m>>, <<m, n>>}
Network == Both(Origin, a) \cup Both(Origin, c) \cup Both(b, c) \cup {<<b, a>>, <<a, c>>}

\* The link of c to the origin is bad, or good, and may change.
Etxs == [l \in Network |-> IF l = <<c, Origin>> THEN {4, 12} ELSE {4}]

\* Stray memory is taken for an address that no node has, and for that of b.
StrayLists == {<<x, b>>}
=============================================================================
