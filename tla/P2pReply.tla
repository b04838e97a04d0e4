------------------------------ MODULE P2pReply ------------------------------
(***************************************************************************)
(* How the answer to a route discovery travels back.  When its DRO timer   *)
(* fires the target sends one discovery reply (DRO) for each partial route *)
(* it knows and keeps copies for retransmission (send_dros, dro_output).   *)
(* The relays on the route forward it and store hop-by-hop routes, the     *)
(* origin stores the route and answers with a DRO-ACK (dro_input), and the *)
(* target stops retransmitting (dro_ack_input).  DROs are link-local       *)
(* multicasts, heard by any neighbour; every message may be lost or        *)
(* arbitrarily late.  What the STOP bit of a DRO does to the DAG tables is *)
(* RplP2pDags!Stop.  Routes do not age here: their lifetime (510 s) is far *)
(* above the 20 s a reply is retransmitted.                                *)
(***************************************************************************)
EXTENDS Integers, Sequences, FiniteSets, FiniteSetsExt, SequencesExt

CONSTANTS
  Nodes, NoNode,
  Neighbours,      \* the nodes that hear each node
  Discoveries,     \* a discovery is an instance ID with the origin's DODAG ID
  Origin, Target,
  HopByHop,        \* does the RDO ask for hop-by-hop routes?
  BothDirections,  \* does it ask for routes in both directions?
  Routes,          \* partial routes the target holds when it answers: each
                   \* is the address vector, from the origin to the target
  NCache,          \* RPL_MAX_DRO_CACHE_ENTRIES
  MaxRexmits,      \* RPL_MAX_DRO_REXMITS
  MaxCached,       \* longest vector whose DRO fits RPL_DRO_CACHE_ENTRY_SIZE
  NSrcRoutes,      \* UIP_DS6_SRC_ROUTE_NB
  NSrcAddrs,       \* UIP_DS6_SRC_ROUTE_ADDR_NB
  MaxLost          \* bound: how many DROs the radio loses (a late one is
                   \* as good as lost, but keeps the network from being quiet)

ASSUME NodesAssumption ==
  /\ IsFiniteSet(Nodes) /\ NoNode \notin Nodes
  /\ Neighbours \in [Nodes -> SUBSET Nodes]
\* A root ignores DIOs of its own discovery, so it never answers it.
ASSUME DiscoveriesAssumption ==
  /\ Origin \in [Discoveries -> Nodes] /\ Target \in [Discoveries -> Nodes]
  /\ \A d \in Discoveries : Origin[d] # Target[d]
  /\ HopByHop \in [Discoveries -> BOOLEAN]
  /\ BothDirections \in [Discoveries -> BOOLEAN]
  /\ Routes \in [Discoveries -> Seq(Seq(Nodes))]
ASSUME SizesAssumption ==
  /\ NCache \in Nat /\ MaxRexmits \in Nat \ {0} /\ MaxCached \in Nat
  /\ NSrcRoutes \in Nat /\ NSrcAddrs \in Nat /\ MaxLost \in Nat

\* seq is the sequence number of the DRO, dro_seq, which starts afresh with
\* each discovery.
RepliesOf(d) == [disc : {d}, seq : DOMAIN Routes[d]]
Replies == UNION {RepliesOf(d) : d \in Discoveries}
Vector(r) == Routes[r.disc][r.seq]

VARIABLES
  answered,    \* the discoveries whose DRO timer has fired
  cache,       \* dro_cache entries of all nodes, with their retransmissions
  uncached,    \* replies sent without a copy: no memory, or too large
  dros,        \* DROs on their way to a node that will act on them
  acks,        \* replies with a DRO-ACK on its way to the target
  hop,         \* hop-by-hop routes: hop[n][t] is n's next hop to t
  src,         \* source routes: src[n][t], ending in t, or empty
  reported,    \* replies that have reached the origin
  lost         \* how many DROs were lost

vars == <<answered, cache, uncached, dros, acks, hop, src, reported, lost>>
routing == <<hop, src, reported>>

Entry == [reply : Replies, rexmits : 0 .. MaxRexmits - 1]
\* copy counts the transmissions of the target, rem is the Rem field.
Dro == [reply : Replies, copy : 0 .. MaxRexmits, rem : Nat, to : Nodes]

TypeOK ==
  /\ answered \subseteq Discoveries
  /\ cache \subseteq Entry
  /\ uncached \subseteq Replies
  /\ dros \subseteq Dro
  /\ acks \subseteq Replies
  /\ hop \in [Nodes -> [Nodes -> Nodes \cup {NoNode}]]
  /\ src \in [Nodes -> [Nodes -> Seq(Nodes)]]
  /\ reported \subseteq Replies
  /\ lost \in 0 .. MaxLost

Init ==
  /\ answered = {}
  /\ cache = {}
  /\ uncached = {}
  /\ dros = {} /\ acks = {}
  /\ hop = [n \in Nodes |-> [t \in Nodes |-> NoNode]]
  /\ src = [n \in Nodes |-> [t \in Nodes |-> <<>>]]
  /\ reported = {}
  /\ lost = 0

-----------------------------------------------------------------------------
(* A DRO is heard by all neighbours, but only the origin, whatever Rem is, *)
(* and the node at position Rem > 0 of the vector act on it.               *)

ActsOn(m, r, rem) ==
  m = Origin[r.disc] \/ (rem \in DOMAIN Vector(r) /\ Vector(r)[rem] = m)
Transmit(n, r, copy, rem) ==
  {[reply |-> r, copy |-> copy, rem |-> rem, to |-> m]
     : m \in {m \in Neighbours[n] : ActsOn(m, r, rem)}}

\* The node after position i of the vector of r.
NodeAfter(r, i) == (Append(Vector(r), Target[r.disc]))[i + 1]

(* Source routes (uip-ds6.c): one for each destination, whose hops come    *)
(* from a pool shared by all.  A route to a known destination gives up its *)
(* hops first; a new route whose hops do not fit is removed again.         *)
Destinations(table) == {t \in Nodes : table[t] # <<>>}
HopsUsed(table) == MapThenSumSet(LAMBDA t : Len(table[t]), Nodes)
WithSourceRouteBegun(table, t, hops) ==   \* mutant: keeps the hops that fit
  LET freed == [table EXCEPT ![t] = <<>>]
  IN  IF table[t] = <<>> /\ Cardinality(Destinations(table)) >= NSrcRoutes
      THEN table
      ELSE [table EXCEPT ![t] =
              SubSeq(hops, 1, Min({Len(hops), NSrcAddrs - HopsUsed(freed)}))]
WithSourceRoute(table, t, hops) ==
  LET freed == [table EXCEPT ![t] = <<>>]
  IN  IF table[t] = <<>> /\ Cardinality(Destinations(table)) >= NSrcRoutes
      THEN table
      ELSE IF HopsUsed(freed) + Len(hops) > NSrcAddrs
      THEN freed
      ELSE [table EXCEPT ![t] = hops]

-----------------------------------------------------------------------------
(* send_dros and dro_output at the target.                                 *)

\* The entries of a node, in a list that keeps the order of dro_seq within
\* a discovery.
CacheOf(n) == {e \in cache : Target[e.reply.disc] = n}
Cacheable(d) == {r \in RepliesOf(d) : Len(Vector(r)) <= MaxCached}
Cached(d) ==
  {r \in Cacheable(d) :
     Cardinality({q \in Cacheable(d) : q.seq < r.seq})
       < NCache - Cardinality(CacheOf(Target[d]))}

\* The backward route follows the first partial route from its end.
Backward(d) == Append(Reverse(Routes[d][1]), Origin[d])

SendDros(d) ==
  /\ d \notin answered
  /\ answered' = answered \cup {d}
  /\ cache' = cache \cup [reply : Cached(d), rexmits : {0}]
  /\ uncached' = uncached \cup (RepliesOf(d) \ Cached(d))
  /\ dros' = dros \cup UNION {Transmit(Target[d], r, 0, Len(Vector(r)))
                               : r \in RepliesOf(d)}
  /\ src' = IF BothDirections[d] /\ Routes[d] # <<>>
            THEN [src EXCEPT ![Target[d]] =
                    WithSourceRoute(@, Origin[d], Backward(d))]
            ELSE src
  /\ UNCHANGED <<acks, hop, reported, lost>>

(* dro_rexmit: the timer of a cache entry fires.  The entry is freed with  *)
(* its last retransmission.                                                *)
IsLastLate(e) == e.rexmits + 1 > MaxRexmits    \* mutant: off by one
IsLast(e) == e.rexmits + 1 >= MaxRexmits

\* The Rem field of the copy, which is made of the finished packet.
CachedRemUnset(r) == 0    \* mutant: copied before Rem is written
CachedRem(r) == Len(Vector(r))

Rexmit(e) ==
  /\ cache' = (cache \ {e}) \cup
       IF IsLast(e) THEN {} ELSE {[e EXCEPT !.rexmits = @ + 1]}
  /\ dros' = dros \cup Transmit(Target[e.reply.disc], e.reply, e.rexmits + 1,
                                CachedRem(e.reply))
  /\ UNCHANGED <<answered, uncached, acks, routing, lost>>

-----------------------------------------------------------------------------
(* dro_input.                                                              *)

OriginReceives(m) ==
  LET r == m.reply
      d == r.disc
  IN  /\ m.to = Origin[d]
      /\ reported' = reported \cup {r}
      /\ IF HopByHop[d]
         THEN /\ hop' = [hop EXCEPT ![m.to][Target[d]] = NodeAfter(r, 0)]
              /\ UNCHANGED src
         ELSE /\ src' = [src EXCEPT ![m.to] =
                  WithSourceRoute(@, Target[d], Append(Vector(r), Target[d]))]
              /\ UNCHANGED hop
      /\ acks' = acks \cup {r}
      /\ dros' = dros \ {m}

\* A relay that knows a hop-by-hop route drops the DRO if the next hop in
\* it is the one it knows, and forwards it unchanged if not.
KnowsHop(m) ==
  hop[m.to][Target[m.reply.disc]] = NodeAfter(m.reply, m.rem)
RelayHopReplaced(m) ==    \* mutant: the route is updated
  IF HopByHop[m.reply.disc]
  THEN [hop EXCEPT ![m.to][Target[m.reply.disc]] = NodeAfter(m.reply, m.rem)]
  ELSE hop
RelayHop(m) ==
  LET target == Target[m.reply.disc]
  IN  IF HopByHop[m.reply.disc] /\ hop[m.to][target] = NoNode
      THEN [hop EXCEPT ![m.to][target] = NodeAfter(m.reply, m.rem)]
      ELSE hop

RelayReceives(m) ==
  LET r == m.reply
  IN  /\ m.to # Origin[r.disc]
      /\ hop' = RelayHop(m)
      /\ dros' = (dros \ {m}) \cup
                   IF HopByHop[r.disc] /\ KnowsHop(m) THEN {}
                   ELSE Transmit(m.to, r, m.copy, m.rem - 1)
      /\ UNCHANGED <<src, reported, acks>>

Receive(m) ==
  /\ OriginReceives(m) \/ RelayReceives(m)
  /\ UNCHANGED <<answered, cache, uncached, lost>>

(* dro_ack_input at the target: the first entry of the same discovery is   *)
(* freed; the sequence number of the ACK is compared with itself.          *)
MatchesAny(e, a) == e.reply.seq = a.seq    \* mutant: DODAG ID ignored
Matches(e, a) == e.reply.disc = a.disc

Matching(a) == {e \in CacheOf(Target[a.disc]) : Matches(e, a)}
FirstMatching(a) ==
  {e \in Matching(a) : \A f \in Matching(a) : e.reply.seq <= f.reply.seq}

ReceiveAck(a) ==
  /\ cache' = cache \ FirstMatching(a)
  /\ acks' = acks \ {a}
  /\ UNCHANGED <<answered, uncached, dros, routing, lost>>

-----------------------------------------------------------------------------
(* The radio loses a DRO.  An ACK that is never received is a lost one.    *)

Lose(m) ==
  /\ dros' = dros \ {m}
  /\ lost < MaxLost
  /\ lost' = lost + 1
  /\ UNCHANGED <<answered, cache, uncached, acks, routing>>

-----------------------------------------------------------------------------
Next ==
  \/ \E d \in Discoveries : SendDros(d)
  \/ \E e \in cache : Rexmit(e)
  \/ \E m \in dros : Receive(m) \/ Lose(m)
  \/ \E a \in acks : ReceiveAck(a)

Spec == Init /\ [][Next]_vars
-----------------------------------------------------------------------------
(* What the replies promise.                                               *)

Pending(r) == {e \in cache : e.reply = r}
SingleReply(d) == Len(Routes[d]) = 1

\* No reply is forgotten while it may still be needed: its copy leaves the
\* cache because the origin has that reply or, not through an ACK, with the
\* last retransmission.
KeptUntilReported(r) ==
  Pending(r) # {} /\ Pending(r)' = {} =>
    \/ r \in reported
    \/ acks' = acks /\ \E e \in Pending(r) : e.rexmits = MaxRexmits - 1

\* An ACK cancels a reply only if the origin has received it (dro_ack_input),
\* for discoveries that are answered by a single DRO.
AckCancelsReported ==
  [][\A r \in Replies : SingleReply(r.disc) => KeptUntilReported(r)]_vars

\* "DRO matches if it has the same DODAGID, instance and DRO sequence number"
\* (dro_ack_input): the same for every discovery.
AckMatchesReply == [][\A r \in Replies : KeptUntilReported(r)]_vars

Quiet == dros = {} /\ cache = {}
Losses(r) == IF r \in uncached THEN 0 ELSE MaxRexmits

\* Each transmission of a reply is a new chance: once all is quiet, a reply
\* of which more copies were sent than DROs lost has reached the origin.
DeliveredUnlessLost(d) ==
  \A r \in Replies :
    r.disc = d /\ d \in answered /\ Quiet /\ lost <= Losses(r)
      => r \in reported
SourceReplyDelivered ==
  \A d \in Discoveries :
    SingleReply(d) /\ ~HopByHop[d] => DeliveredUnlessLost(d)

\* The same for hop-by-hop routes: the copy kept "in order to being able to
\* retransmit it in case no ack was received" (dro_output) is of use to the
\* relays that have stored the route already, as it is not "conflicting".
HopByHopReplyDelivered ==
  \A d \in Discoveries :
    SingleReply(d) /\ HopByHop[d] => DeliveredUnlessLost(d)

\* Following the next hops from n: the node reached after i steps.
Walk(n, t) ==
  LET step[i \in 0 .. Cardinality(Nodes)] ==
        IF i = 0 THEN n
        ELSE IF step[i - 1] \in {t, NoNode} THEN step[i - 1]
        ELSE hop[step[i - 1]][t]
  IN  step[Cardinality(Nodes)]

\* A relay stores a hop-by-hop route only after the nodes behind it, and
\* never changes it: whatever replies cross, the next hops from a relay lead
\* to the target, without a loop and without a gap.
RelayHopsReachTarget ==
  \A n, t \in Nodes :
    /\ hop[n][t] # NoNode
    /\ \A d \in Discoveries : HopByHop[d] /\ Target[d] = t => Origin[d] # n
    => Walk(n, t) = t

\* The only discovery that makes source routes between its ends.
OwnsRoutes(d) ==
  \A e \in Discoveries \ {d} :
    {Origin[e], Target[e]} = {Origin[d], Target[d]}
      => HopByHop[e] /\ ~BothDirections[e]

\* "Optimize route in both directions": the source routes that the origin
\* and the target of a discovery store are the same route, reversed.
DirectionsAgree ==
  \A d \in Discoveries :
    LET forth == src[Origin[d]][Target[d]]
        back  == src[Target[d]][Origin[d]]
    IN  SingleReply(d) /\ OwnsRoutes(d) /\ forth # <<>> /\ back # <<>>
          => Front(back) = Reverse(Front(forth))
=============================================================================
