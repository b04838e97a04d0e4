--------------------------- MODULE P2pReplyProofs ---------------------------
(***************************************************************************)
(* Proofs about the way replies travel, for any network, any discoveries   *)
(* and any size of the caches: types, and that an acknowledgement of a     *)
(* discovery with a single reply never cancels a reply the origin lacks.   *)
(***************************************************************************)
EXTENDS P2pReply, TLAPS

\* Every DRO kept is one its receiver acts on: the origin's, or one whose
\* Rem points to the receiver (dro_input tests it before anything else).
DrosAddressed == \A m \in dros : ActsOn(m.to, m.reply, m.rem)

\* The origin acknowledges what it has received.
AcksReported == acks \subseteq reported

IInv == TypeOK /\ DrosAddressed /\ AcksReported

\* What a reply is made of.
LEMMA ReplyFacts ==
  ASSUME NEW r \in Replies
  PROVE  /\ r.disc \in Discoveries /\ r.seq \in DOMAIN Routes[r.disc]
         /\ r \in RepliesOf(r.disc)
         /\ Vector(r) \in Seq(Nodes)
         /\ Target[r.disc] \in Nodes /\ Origin[r.disc] \in Nodes
<1>1. PICK d \in Discoveries : r \in RepliesOf(d)
  BY DEF Replies
<1>2. r.disc = d /\ r.seq \in DOMAIN Routes[d]
  BY <1>1 DEF RepliesOf
<1>3. Routes[d] \in Seq(Seq(Nodes))
  BY DiscoveriesAssumption
<1>4. Vector(r) \in Seq(Nodes)
  BY <1>2, <1>3 DEF Vector
<1> QED
  BY <1>1, <1>2, <1>4, DiscoveriesAssumption

\* The replies of a discovery are replies.
LEMMA RepliesOfFacts ==
  ASSUME NEW d \in Discoveries
  PROVE  /\ RepliesOf(d) \subseteq Replies
         /\ \A r \in RepliesOf(d) : r.disc = d
BY DEF Replies, RepliesOf

\* A transmission makes well-formed copies for those who act on them.
LEMMA TransmitFacts ==
  ASSUME NEW n \in Nodes, NEW r \in Replies, NEW copy \in 0 .. MaxRexmits,
         NEW rem \in Nat, NEW m \in Transmit(n, r, copy, rem)
  PROVE  m \in Dro /\ ActsOn(m.to, m.reply, m.rem)
<1>1. Neighbours[n] \subseteq Nodes
  BY NodesAssumption
<1>2. PICK x \in Neighbours[n] :
        /\ ActsOn(x, r, rem)
        /\ m = [reply |-> r, copy |-> copy, rem |-> rem, to |-> x]
  BY DEF Transmit
<1>3. m \in Dro
  BY <1>1, <1>2 DEF Dro
<1>4. m.to = x /\ m.reply = r /\ m.rem = rem
  BY <1>2
<1> QED
  BY <1>2, <1>3, <1>4

\* The node after a position of the vector is a node.
LEMMA NodeAfterType ==
  ASSUME NEW r \in Replies, NEW i \in 0 .. Len(Vector(r))
  PROVE  NodeAfter(r, i) \in Nodes
<1>1. Vector(r) \in Seq(Nodes) /\ Target[r.disc] \in Nodes
  BY ReplyFacts
<1>2. Append(Vector(r), Target[r.disc]) \in Seq(Nodes)
  BY <1>1
<1>3. Len(Append(Vector(r), Target[r.disc])) = Len(Vector(r)) + 1
  BY <1>1
<1>4. i + 1 \in 1 .. Len(Vector(r)) + 1
  BY <1>1
<1> QED
  BY <1>2, <1>3, <1>4 DEF NodeAfter

\* Storing a source route keeps the table well-formed, whether it fits or not.
LEMMA SourceRouteType ==
  ASSUME NEW table \in [Nodes -> Seq(Nodes)], NEW t \in Nodes,
         NEW hops \in Seq(Nodes)
  PROVE  WithSourceRoute(table, t, hops) \in [Nodes -> Seq(Nodes)]
<1>1. <<>> \in Seq(Nodes)
  OBVIOUS
<1>2. [table EXCEPT ![t] = <<>>] \in [Nodes -> Seq(Nodes)]
  BY <1>1
<1>3. [table EXCEPT ![t] = hops] \in [Nodes -> Seq(Nodes)]
  OBVIOUS
<1> QED
  BY <1>2, <1>3 DEF WithSourceRoute

-----------------------------------------------------------------------------
(* Every action preserves IInv.                                            *)

LEMMA SendDrosInv ==
  ASSUME IInv, NEW d \in Discoveries, SendDros(d)
  PROVE  IInv'
<1> USE DEF IInv
<1>d. Target[d] \in Nodes /\ Origin[d] \in Nodes
  BY DiscoveriesAssumption
<1>1. RepliesOf(d) \subseteq Replies
  BY RepliesOfFacts
<1>2. cache' \subseteq Entry
  <2>1. Cached(d) \subseteq Replies
    BY <1>1 DEF Cached, Cacheable
  <2>2. 0 \in 0 .. MaxRexmits - 1
    BY SizesAssumption
  <2>3. [reply : Cached(d), rexmits : {0}] \subseteq Entry
    BY <2>1, <2>2 DEF Entry
  <2> QED
    BY <2>3 DEF SendDros, TypeOK
<1>3. uncached' \subseteq Replies
  BY <1>1 DEF SendDros, TypeOK
<1>4. \A m \in dros' : m \in Dro /\ ActsOn(m.to, m.reply, m.rem)
  <2>1. SUFFICES ASSUME NEW r \in RepliesOf(d),
                        NEW m \in Transmit(Target[d], r, 0, Len(Vector(r)))
                 PROVE  m \in Dro /\ ActsOn(m.to, m.reply, m.rem)
    BY DEF SendDros, TypeOK, DrosAddressed
  <2>2. r \in Replies
    BY <1>1
  <2>3. Len(Vector(r)) \in Nat /\ 0 \in 0 .. MaxRexmits
    BY <2>2, ReplyFacts, SizesAssumption
  <2> QED
    BY <1>d, <2>2, <2>3, TransmitFacts
<1>5. src' \in [Nodes -> [Nodes -> Seq(Nodes)]]
  <2>1. CASE ~(BothDirections[d] /\ Routes[d] # <<>>)
    BY <2>1 DEF SendDros, TypeOK
  <2>2. CASE BothDirections[d] /\ Routes[d] # <<>>
    <3>1. Routes[d] \in Seq(Seq(Nodes))
      BY DiscoveriesAssumption
    <3>2. Routes[d][1] \in Seq(Nodes)
      BY <2>2, <3>1
    <3>3. Reverse(Routes[d][1]) \in Seq(Nodes)
      BY <3>2 DEF Reverse
    <3>4. Backward(d) \in Seq(Nodes)
      BY <1>d, <3>3 DEF Backward
    <3>5. src[Target[d]] \in [Nodes -> Seq(Nodes)]
      BY <1>d DEF TypeOK
    <3>6. WithSourceRoute(src[Target[d]], Origin[d], Backward(d))
            \in [Nodes -> Seq(Nodes)]
      BY <1>d, <3>4, <3>5, SourceRouteType
    <3>7. src' = [src EXCEPT ![Target[d]] =
                    WithSourceRoute(src[Target[d]], Origin[d], Backward(d))]
      BY <2>2 DEF SendDros
    <3> QED
      BY <1>d, <3>6, <3>7 DEF TypeOK
  <2> QED
    BY <2>1, <2>2
<1>6. TypeOK'
  BY <1>2, <1>3, <1>4, <1>5 DEF SendDros, TypeOK
<1>7. DrosAddressed'
  BY <1>4 DEF DrosAddressed
<1>8. AcksReported'
  BY DEF SendDros, AcksReported
<1> QED
  BY <1>6, <1>7, <1>8

LEMMA RexmitInv ==
  ASSUME IInv, NEW e \in cache, Rexmit(e)
  PROVE  IInv'
<1> USE DEF IInv
<1>1. e \in Entry /\ e.reply \in Replies /\ e.rexmits \in 0 .. MaxRexmits - 1
  BY DEF TypeOK, Entry
<1>2. cache' \subseteq Entry
  <2>1. CASE IsLast(e)
    BY <2>1 DEF Rexmit, TypeOK
  <2>2. CASE ~IsLast(e)
    <3>1. e.rexmits + 1 \in 0 .. MaxRexmits - 1
      BY <1>1, <2>2, SizesAssumption DEF IsLast
    <3>2. [e EXCEPT !.rexmits = @ + 1] \in Entry
      BY <1>1, <3>1 DEF Entry
    <3> QED
      BY <2>2, <3>2 DEF Rexmit, TypeOK
  <2> QED
    BY <2>1, <2>2
<1>3. \A m \in dros' : m \in Dro /\ ActsOn(m.to, m.reply, m.rem)
  <2>1. SUFFICES ASSUME NEW m \in Transmit(Target[e.reply.disc], e.reply,
                                           e.rexmits + 1, CachedRem(e.reply))
                 PROVE  m \in Dro /\ ActsOn(m.to, m.reply, m.rem)
    BY DEF Rexmit, TypeOK, DrosAddressed
  <2>2. e.rexmits + 1 \in 0 .. MaxRexmits
    BY <1>1, SizesAssumption
  <2>3. CachedRem(e.reply) \in Nat
    BY <1>1, ReplyFacts DEF CachedRem
  <2>4. Target[e.reply.disc] \in Nodes
    BY <1>1, ReplyFacts
  <2> QED
    BY <1>1, <2>2, <2>3, <2>4, TransmitFacts
<1>4. TypeOK'
  BY <1>2, <1>3 DEF Rexmit, routing, TypeOK
<1>5. DrosAddressed'
  BY <1>3 DEF DrosAddressed
<1>6. AcksReported'
  BY DEF Rexmit, routing, AcksReported
<1> QED
  BY <1>4, <1>5, <1>6

LEMMA OriginReceivesInv ==
  ASSUME IInv, NEW m \in dros, OriginReceives(m),
         UNCHANGED <<answered, cache, uncached, lost>>
  PROVE  IInv'
<1> USE DEF IInv
<1> DEFINE r == m.reply
           t == Target[r.disc]
<1>1. m \in Dro /\ r \in Replies /\ m.to \in Nodes
  BY DEF TypeOK, Dro
<1>2. r.disc \in Discoveries /\ t \in Nodes /\ Vector(r) \in Seq(Nodes)
  BY <1>1, ReplyFacts
<1>3. hop' \in [Nodes -> [Nodes -> Nodes \cup {NoNode}]]
  <2>1. NodeAfter(r, 0) \in Nodes
    BY <1>1, <1>2, NodeAfterType
  <2>2. \/ hop' = hop
        \/ hop' = [hop EXCEPT ![m.to] = [hop[m.to] EXCEPT ![t] = NodeAfter(r, 0)]]
    BY DEF OriginReceives
  <2>3. hop[m.to] \in [Nodes -> Nodes \cup {NoNode}]
    BY <1>1 DEF TypeOK
  <2>4. [hop[m.to] EXCEPT ![t] = NodeAfter(r, 0)] \in [Nodes -> Nodes \cup {NoNode}]
    BY <1>2, <2>1, <2>3
  <2> QED
    BY <1>1, <2>2, <2>4 DEF TypeOK
<1>4. src' \in [Nodes -> [Nodes -> Seq(Nodes)]]
  <2> DEFINE route == WithSourceRoute(src[m.to], t, Append(Vector(r), t))
  <2>1. src[m.to] \in [Nodes -> Seq(Nodes)]
    BY <1>1 DEF TypeOK
  <2>2. Append(Vector(r), t) \in Seq(Nodes)
    BY <1>2
  <2>3. route \in [Nodes -> Seq(Nodes)]
    BY <1>2, <2>1, <2>2, SourceRouteType
  <2>4. src' = src \/ src' = [src EXCEPT ![m.to] = route]
    BY DEF OriginReceives
  <2> HIDE DEF route
  <2> QED
    BY <1>1, <2>3, <2>4 DEF TypeOK
<1>5. TypeOK'
  BY <1>1, <1>3, <1>4 DEF OriginReceives, TypeOK
<1>6. DrosAddressed' /\ AcksReported'
  BY DEF OriginReceives, DrosAddressed, AcksReported
<1> QED
  BY <1>5, <1>6

LEMMA RelayReceivesInv ==
  ASSUME IInv, NEW m \in dros, RelayReceives(m),
         UNCHANGED <<answered, cache, uncached, lost>>
  PROVE  IInv'
<1> USE DEF IInv
<1> DEFINE r == m.reply
           t == Target[r.disc]
<1>1. /\ m \in Dro /\ r \in Replies /\ m.to \in Nodes
      /\ m.copy \in 0 .. MaxRexmits /\ m.rem \in Nat
  BY DEF TypeOK, Dro
<1>2. r.disc \in Discoveries /\ t \in Nodes /\ Vector(r) \in Seq(Nodes)
  BY <1>1, ReplyFacts
<1>3. m.rem \in DOMAIN Vector(r)
  BY DEF RelayReceives, DrosAddressed, ActsOn
<1>4. m.rem \in 1 .. Len(Vector(r))
  BY <1>2, <1>3
<1>5. hop' \in [Nodes -> [Nodes -> Nodes \cup {NoNode}]]
  <2>1. NodeAfter(r, m.rem) \in Nodes
    <3>1. m.rem \in 0 .. Len(Vector(r))
      BY <1>2, <1>4
    <3> QED
      BY <1>1, <3>1, NodeAfterType
  <2> QED
    BY <1>1, <1>2, <2>1 DEF RelayReceives, RelayHop, TypeOK
<1>6. \A x \in dros' : x \in Dro /\ ActsOn(x.to, x.reply, x.rem)
  <2>1. SUFFICES ASSUME NEW x \in Transmit(m.to, r, m.copy, m.rem - 1)
                 PROVE  x \in Dro /\ ActsOn(x.to, x.reply, x.rem)
    BY DEF RelayReceives, TypeOK, DrosAddressed
  <2>2. m.rem - 1 \in Nat
    BY <1>2, <1>4
  <2> QED
    BY <1>1, <2>2, TransmitFacts
<1>7. TypeOK'
  BY <1>5, <1>6 DEF RelayReceives, TypeOK
<1>8. DrosAddressed'
  BY <1>6 DEF DrosAddressed
<1>9. AcksReported'
  BY DEF RelayReceives, AcksReported
<1> QED
  BY <1>7, <1>8, <1>9

LEMMA InvStep == IInv /\ [Next]_vars => IInv'
<1> SUFFICES ASSUME IInv, [Next]_vars
             PROVE  IInv'
  OBVIOUS
<1>1. ASSUME NEW d \in Discoveries, SendDros(d)
      PROVE  IInv'
  BY <1>1, SendDrosInv
<1>2. ASSUME NEW e \in cache, Rexmit(e)
      PROVE  IInv'
  BY <1>2, RexmitInv
<1>3. ASSUME NEW m \in dros, Receive(m)
      PROVE  IInv'
  BY <1>3, OriginReceivesInv, RelayReceivesInv DEF Receive
<1>4. ASSUME NEW m \in dros, Lose(m)
      PROVE  IInv'
  BY <1>4, SizesAssumption
     DEF IInv, Lose, routing, TypeOK, DrosAddressed, AcksReported
<1>5. ASSUME NEW a \in acks, ReceiveAck(a)
      PROVE  IInv'
  BY <1>5 DEF IInv, ReceiveAck, routing, TypeOK, DrosAddressed, AcksReported
<1>6. CASE UNCHANGED vars
  BY <1>6 DEF vars, IInv, TypeOK, DrosAddressed, AcksReported
<1> QED
  BY <1>1, <1>2, <1>3, <1>4, <1>5, <1>6 DEF Next

LEMMA InvInit == Init => IInv
<1>1. <<>> \in Seq(Nodes)
  OBVIOUS
<1>2. 0 \in 0 .. MaxLost
  BY SizesAssumption
<1> QED
  BY <1>1, <1>2 DEF Init, IInv, TypeOK, DrosAddressed, AcksReported

LEMMA Invariance == Spec => []IInv
BY InvInit, InvStep, PTL DEF Spec

\* Caches, messages and routes keep their types whatever is lost or late; in
\* particular no reply is sent more than 1 + RPL_MAX_DRO_REXMITS times and no
\* relay reads behind the end of an address vector.
THEOREM TypeCorrect == Spec => []TypeOK
<1>1. IInv => TypeOK
  BY DEF IInv
<1> QED
  BY <1>1, Invariance, PTL

\* A step takes the only copy of a single reply away only if the origin has
\* the reply or the copy has been retransmitted often enough.
LEMMA KeptStep ==
  ASSUME IInv, [Next]_vars, NEW r \in Replies, SingleReply(r.disc)
  PROVE  KeptUntilReported(r)
<1> SUFFICES ASSUME NEW e \in cache, e.reply = r, Pending(r)' = {}
             PROVE  \/ r \in reported
                    \/ acks' = acks
                       /\ \E f \in Pending(r) : f.rexmits = MaxRexmits - 1
  BY DEF KeptUntilReported, Pending
<1>1. e \in Pending(r) /\ e \notin cache'
  BY DEF Pending
<1>2. CASE \E f \in cache : Rexmit(f)
  <2>1. PICK f \in cache : Rexmit(f)
    BY <1>2
  <2>2. f = e
    BY <1>1, <2>1 DEF Rexmit
  <2>3. f \in Entry /\ f.rexmits \in 0 .. MaxRexmits - 1
    BY DEF IInv, TypeOK, Entry
  <2>4. IsLast(f)
    <3>1. SUFFICES ASSUME ~IsLast(f)
                   PROVE  FALSE
      OBVIOUS
    <3>2. [f EXCEPT !.rexmits = @ + 1] \in cache'
      BY <2>1, <3>1 DEF Rexmit
    <3>3. [f EXCEPT !.rexmits = @ + 1].reply = r
      BY <2>2, <2>3 DEF Entry
    <3> QED
      BY <3>2, <3>3 DEF Pending
  <2>5. f.rexmits = MaxRexmits - 1
    BY <2>3, <2>4, SizesAssumption DEF IsLast
  <2>6. acks' = acks
    BY <2>1 DEF Rexmit
  <2> QED
    BY <1>1, <2>2, <2>5, <2>6
<1>3. CASE \E a \in acks : ReceiveAck(a)
  <2>1. PICK a \in acks : ReceiveAck(a)
    BY <1>3
  <2>2. a \in reported /\ a \in Replies
    BY DEF IInv, AcksReported, TypeOK
  <2>3. e.reply.disc = a.disc
    BY <1>1, <2>1 DEF ReceiveAck, FirstMatching, Matching, Matches
  <2>4. r.seq = 1 /\ a.seq = 1
    <3>1. r.disc \in Discoveries /\ a.disc = r.disc
      BY <2>3, ReplyFacts
    <3>2. Routes[r.disc] \in Seq(Seq(Nodes)) /\ Len(Routes[r.disc]) = 1
      BY <3>1, DiscoveriesAssumption DEF SingleReply
    <3>3. DOMAIN Routes[r.disc] = {1}
      BY <3>2
    <3> QED
      BY <2>2, <3>1, <3>3, ReplyFacts
  <2>5. a = r
    <3>1. r \in RepliesOf(r.disc) /\ a \in RepliesOf(r.disc)
      BY <2>2, <2>3, ReplyFacts
    <3> QED
      BY <2>4, <3>1 DEF RepliesOf
  <2> QED
    BY <2>2, <2>5
<1>4. CASE ~(\E f \in cache : Rexmit(f)) /\ ~(\E a \in acks : ReceiveAck(a))
  <2>1. cache \subseteq cache'
    BY <1>4 DEF Next, SendDros, Receive, Lose, vars
  <2> QED
    BY <1>1, <2>1
<1> QED
  BY <1>2, <1>3, <1>4

\* An ACK cancels the retransmission of a single reply only if the origin has
\* received it, however late it comes and whatever was lost: dro_ack_input's
\* comparison of the sequence number is not needed there.
THEOREM CancelledWasReported == Spec => AckCancelsReported
<1>1. IInv /\ [Next]_vars
        => \A r \in Replies : SingleReply(r.disc) => KeptUntilReported(r)
  BY KeptStep
<1> QED
  BY <1>1, Invariance, PTL DEF Spec, AckCancelsReported

-----------------------------------------------------------------------------
(* The two directions of a route.                                           *)

\* Whoever stores a source route, the ends of a discovery that owns the routes
\* between them store those of its only reply, or none.
Forward(d) == Append(Routes[d][1], Target[d])
RoutesOwned == \A d \in Discoveries : SingleReply(d) /\ OwnsRoutes(d) =>
  /\ src[Origin[d]][Target[d]] \in {<<>>, Forward(d)}
  /\ src[Target[d]][Origin[d]] \in {<<>>, Backward(d)}

\* A source route to t leaves the routes to others alone, and that to t is the
\* new one, or none if it does not fit.
LEMMA StoredRoute ==
  ASSUME NEW table \in [Nodes -> Seq(Nodes)], NEW t \in Nodes, NEW hops, NEW x \in Nodes
  PROVE  LET y == WithSourceRoute(table, t, hops)[x]
         IN  /\ x # t => y = table[x]
             /\ x = t => y \in {table[x], <<>>, hops}
BY DEF WithSourceRoute

\* Node n stores the source route hops to t, which every discovery allows that
\* owns the routes between them.
Stores(n, t, hops) == src' = [src EXCEPT ![n] = WithSourceRoute(src[n], t, hops)]
Allowed(n, t, hops) == \A d \in Discoveries : SingleReply(d) /\ OwnsRoutes(d) =>
  /\ n = Origin[d] /\ t = Target[d] => hops = Forward(d)
  /\ n = Target[d] /\ t = Origin[d] => hops = Backward(d)

LEMMA RouteIsStored ==
  ASSUME IInv, RoutesOwned, NEW n \in Nodes, NEW t \in Nodes, NEW hops,
         Stores(n, t, hops), Allowed(n, t, hops)
  PROVE  RoutesOwned'
<1> SUFFICES ASSUME NEW d \in Discoveries, SingleReply(d), OwnsRoutes(d)
             PROVE  /\ src'[Origin[d]][Target[d]] \in {<<>>, Forward(d)}
                    /\ src'[Target[d]][Origin[d]] \in {<<>>, Backward(d)}
  BY DEF RoutesOwned
<1>1. Origin[d] \in Nodes /\ Target[d] \in Nodes
  BY DiscoveriesAssumption
<1>2. src \in [Nodes -> [Nodes -> Seq(Nodes)]]
  BY DEF IInv, TypeOK
<1>3. \A x, y \in Nodes :
        \/ src'[x][y] = src[x][y]
        \/ x = n /\ y = t /\ src'[x][y] \in {src[x][y], <<>>, hops}
  <2> TAKE x, y \in Nodes
  <2>1. CASE x = n
    <3>1. src[n] \in [Nodes -> Seq(Nodes)]
      BY <1>2
    <3>2. src'[x] = WithSourceRoute(src[n], t, hops)
      BY <1>2, <2>1 DEF Stores
    <3> QED
      BY <2>1, <3>1, <3>2, StoredRoute
  <2>2. CASE x # n
    BY <1>2, <2>2 DEF Stores
  <2> QED
    BY <2>1, <2>2
<1>4. /\ src[Origin[d]][Target[d]] \in {<<>>, Forward(d)}
      /\ src[Target[d]][Origin[d]] \in {<<>>, Backward(d)}
  BY DEF RoutesOwned
<1>5. src'[Origin[d]][Target[d]] \in {<<>>, Forward(d)}
  <2>1. \/ src'[Origin[d]][Target[d]] = src[Origin[d]][Target[d]]
        \/ /\ n = Origin[d] /\ t = Target[d]
           /\ src'[Origin[d]][Target[d]] \in {src[Origin[d]][Target[d]], <<>>, hops}
    BY <1>1, <1>3
  <2> QED
    BY <1>4, <2>1 DEF Allowed
<1>6. src'[Target[d]][Origin[d]] \in {<<>>, Backward(d)}
  <2>1. \/ src'[Target[d]][Origin[d]] = src[Target[d]][Origin[d]]
        \/ /\ n = Target[d] /\ t = Origin[d]
           /\ src'[Target[d]][Origin[d]] \in {src[Target[d]][Origin[d]], <<>>, hops}
    BY <1>1, <1>3
  <2> QED
    BY <1>4, <2>1 DEF Allowed
<1> QED
  BY <1>5, <1>6

\* The only reply of a discovery.
LEMMA OnlyReply ==
  ASSUME NEW r \in Replies, SingleReply(r.disc)
  PROVE  r.seq = 1 /\ Vector(r) = Routes[r.disc][1]
<1>1. r.disc \in Discoveries /\ r.seq \in DOMAIN Routes[r.disc]
  BY ReplyFacts
<1>2. Routes[r.disc] \in Seq(Seq(Nodes)) /\ Len(Routes[r.disc]) = 1
  BY <1>1, DiscoveriesAssumption DEF SingleReply
<1>3. r.seq = 1
  BY <1>1, <1>2
<1> QED
  BY <1>3 DEF Vector

LEMMA RoutesOwnedStep ==
  ASSUME IInv, RoutesOwned, [Next]_vars
  PROVE  RoutesOwned'
<1>1. CASE UNCHANGED src
  BY <1>1 DEF RoutesOwned
\* two discoveries between the same ends, one of which owns the routes
<1>2. ASSUME NEW d \in Discoveries, OwnsRoutes(d), NEW e \in Discoveries,
             ~HopByHop[e] \/ BothDirections[e]
      PROVE  /\ Origin[e] = Origin[d] /\ Target[e] = Target[d] => e = d
             /\ Origin[e] = Target[d] /\ Target[e] = Origin[d] => FALSE
  BY <1>2, DiscoveriesAssumption DEF OwnsRoutes
<1>3. ASSUME NEW e \in Discoveries, SendDros(e), src' # src
      PROVE  RoutesOwned'
  <2>1. /\ BothDirections[e]
        /\ src' = [src EXCEPT ![Target[e]] =
                     WithSourceRoute(src[Target[e]], Origin[e], Backward(e))]
    BY <1>3 DEF SendDros
  <2>2. \A d \in Discoveries : SingleReply(d) /\ OwnsRoutes(d) =>
          /\ ~(Target[e] = Origin[d] /\ Origin[e] = Target[d])
          /\ Target[e] = Target[d] /\ Origin[e] = Origin[d] => Backward(e) = Backward(d)
    BY <1>2, <2>1
  <2>3. Target[e] \in Nodes /\ Origin[e] \in Nodes
    BY DiscoveriesAssumption
  <2>4. Stores(Target[e], Origin[e], Backward(e))
    BY <2>1 DEF Stores
  <2>5. Allowed(Target[e], Origin[e], Backward(e))
    BY <2>2 DEF Allowed
  <2> QED
    BY <2>3, <2>4, <2>5, RouteIsStored
<1>4. ASSUME NEW m \in dros, OriginReceives(m), src' # src
      PROVE  RoutesOwned'
  <2> DEFINE r == m.reply
             e == r.disc
             hops == Append(Vector(r), Target[e])
  <2>1. r \in Replies /\ e \in Discoveries /\ Target[e] \in Nodes /\ Origin[e] \in Nodes
    BY ReplyFacts DEF IInv, TypeOK, Dro
  <2>2. /\ ~HopByHop[e]
        /\ src' = [src EXCEPT ![Origin[e]] = WithSourceRoute(src[Origin[e]], Target[e], hops)]
    BY <1>4 DEF OriginReceives
  <2>3. ASSUME NEW d \in Discoveries, SingleReply(d), OwnsRoutes(d)
        PROVE  /\ Origin[e] = Origin[d] /\ Target[e] = Target[d] => hops = Forward(d)
               /\ ~(Origin[e] = Target[d] /\ Target[e] = Origin[d])
    <3>1. /\ Origin[e] = Origin[d] /\ Target[e] = Target[d] => e = d
          /\ Origin[e] = Target[d] /\ Target[e] = Origin[d] => FALSE
      BY <1>2, <2>1, <2>2, <2>3
    <3>2. e = d => Vector(r) = Routes[d][1]
      BY <2>1, <2>3, OnlyReply
    <3> QED
      BY <3>1, <3>2 DEF Forward
  <2>4. Stores(Origin[e], Target[e], hops)
    BY <2>2 DEF Stores
  <2>5. Allowed(Origin[e], Target[e], hops)
    BY <2>3 DEF Allowed
  <2> HIDE DEF e, hops
  <2> QED
    BY <2>1, <2>4, <2>5, RouteIsStored
<1>5. ASSUME src' # src
      PROVE  \/ \E e \in Discoveries : SendDros(e)
             \/ \E m \in dros : OriginReceives(m)
  BY <1>5 DEF Next, Rexmit, Receive, RelayReceives, Lose, ReceiveAck, routing, vars
<1> QED
  BY <1>1, <1>3, <1>4, <1>5

LEMMA FrontOfAppend ==
  ASSUME NEW s \in Seq(Nodes), NEW x \in Nodes
  PROVE  Front(Append(s, x)) = s
<1>1. Len(Append(s, x)) = Len(s) + 1 /\ Len(s) \in Nat /\ Append(s, x) \in Seq(Nodes)
  OBVIOUS
<1>2. Front(Append(s, x)) = SubSeq(Append(s, x), 1, Len(s))
  BY <1>1 DEF Front
<1>3. \A i \in 1 .. Len(s) : Append(s, x)[i] = s[i]
  OBVIOUS
<1> QED
  BY <1>1, <1>2, <1>3

\* The source routes that the two ends of a discovery keep are the same route
\* in opposite directions, whatever is lost or late, and whether or not other
\* routes have taken their addresses (send_dros, dro_input,
\* rpl_p2p_add_src_route).
THEOREM RoutesAreReversed == Spec => []DirectionsAgree
<1>1. Init => RoutesOwned
  BY DiscoveriesAssumption DEF Init, RoutesOwned
<1>2. IInv /\ RoutesOwned /\ [Next]_vars => RoutesOwned'
  BY RoutesOwnedStep
<1>3. ASSUME RoutesOwned
      PROVE  DirectionsAgree
  <2> SUFFICES ASSUME NEW d \in Discoveries, SingleReply(d), OwnsRoutes(d),
                      src[Origin[d]][Target[d]] # <<>>, src[Target[d]][Origin[d]] # <<>>
               PROVE  Front(src[Target[d]][Origin[d]])
                        = Reverse(Front(src[Origin[d]][Target[d]]))
    BY DEF DirectionsAgree
  <2>1. src[Origin[d]][Target[d]] = Forward(d) /\ src[Target[d]][Origin[d]] = Backward(d)
    BY <1>3 DEF RoutesOwned
  <2>2. Routes[d] \in Seq(Seq(Nodes)) /\ Origin[d] \in Nodes /\ Target[d] \in Nodes
    BY DiscoveriesAssumption
  <2>3. Routes[d][1] \in Seq(Nodes)
    BY <2>2 DEF SingleReply
  <2>4. Reverse(Routes[d][1]) \in Seq(Nodes)
    BY <2>3 DEF Reverse
  <2>5. Front(Forward(d)) = Routes[d][1] /\ Front(Backward(d)) = Reverse(Routes[d][1])
    BY <2>2, <2>3, <2>4, FrontOfAppend DEF Forward, Backward
  <2> QED
    BY <2>1, <2>5
<1> QED
  BY <1>1, <1>2, <1>3, Invariance, PTL DEF Spec
=============================================================================
