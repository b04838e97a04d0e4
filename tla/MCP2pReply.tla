----------------------------- MODULE MCP2pReply -----------------------------
(* Small instances of P2pReply for TLC: the origins o and o2, their        *)
(* target t and the relays a and b between them, which hear each other. *)
EXTENDS P2pReply

CONSTANTS o, o2, a, b, t, source, hops, other

MCNodes == {o, o2, a, b, t}
Diamond ==
  [n \in MCNodes |-> IF n \in {a, b} THEN MCNodes \ {n} ELSE {a, b}]

MCOrigin == [d \in Discoveries |-> IF d = other THEN o2 ELSE o]
MCTarget == [d \in Discoveries |-> t]
MCHopByHop == [d \in Discoveries |-> d # source]
MCBothDirections == [d \in Discoveries |-> d # hops]

\* A source route through one relay, two hop-by-hop routes that use the
\* relays in opposite orders, and one more of another origin to the same
\* target; the replies with two relays are too large for a copy.
Crossing ==
  [d \in Discoveries |-> IF d = source THEN << <<a>> >>
                          ELSE IF d = hops THEN << <<a, b>>, <<b, a>> >>
                          ELSE << <<b, a>> >>]
OneRelay == [d \in Discoveries |-> << <<a>> >>]
Two == [d \in Discoveries |-> << <<a>>, <<b>> >>]
=============================================================================
