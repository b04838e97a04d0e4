-------------------------- MODULE P2pReplyDelivery --------------------------
(* What becomes of replies, for any network, discoveries and table sizes: a *)
(* reply with a source route arrives unless each copy of it is lost, and    *)
(* the hop-by-hop routes that replies leave at the relays lead to their     *)
(* targets.                                                                 *)
EXTENDS P2pReplyProofs, Inductions, FiniteSetTheorems

-----------------------------------------------------------------------------
(* Replies with source routes: every copy of a reply that is not reported   *)
(* is under way or is one of those lost.                                    *)

SourceReply(r) == SingleReply(r.disc) /\ ~HopByHop[r.disc]

\* The node at position i of the vector hears the one after it (the origin is
\* at position 0): where nodes hear each other, P2pDiscovery!VectorsArePaths
\* says so of the partial routes that replies are made of, save those that
\* begin with a node that has sent an unused list.
VectorsArePaths ==
  \A r \in Replies : SourceReply(r) => \A i \in 0 .. Len(Vector(r)) :
    (IF i = 0 THEN Origin[r.disc] ELSE Vector(r)[i]) \in Neighbours[NodeAfter(r, i)]

\* The copies of r among the DROs D, and its entries in the cache K.
CopiesAmong(D, r) == {m.copy : m \in {x \in D : x.reply = r}}
PendingAmong(K, r) == {e \in K : e.reply = r}

\* Of the copies 0 .. k at most l are not among C.
Sending(C, l, k) == Cardinality((0 .. k) \ C) <= l

Account(r) ==
  /\ r \in uncached \/ PendingAmong(cache, r) # {} => r.disc \in answered
  /\ r.disc \in answered /\ r \notin reported =>
       /\ r \in uncached => Sending(CopiesAmong(dros, r), lost, 0)
       /\ r \notin uncached /\ PendingAmong(cache, r) = {}
            => Sending(CopiesAmong(dros, r), lost, MaxRexmits)
       /\ \A e \in PendingAmong(cache, r) : Sending(CopiesAmong(dros, r), lost, e.rexmits)

Accounted == \A r \in Replies : SourceReply(r) => Account(r)

-----------------------------------------------------------------------------

LEMMA SendingStays ==
  ASSUME NEW C, NEW D, C \subseteq D, NEW l \in Nat, NEW n \in Nat, l <= n,
         NEW k \in Nat, Sending(C, l, k)
  PROVE  Sending(D, n, k)
<1>1. IsFiniteSet(0 .. k)
  BY FS_Interval
<1>2. IsFiniteSet((0 .. k) \ C) /\ IsFiniteSet((0 .. k) \ D)
  BY <1>1, FS_Subset
<1>3. Cardinality((0 .. k) \ D) <= Cardinality((0 .. k) \ C)
  BY <1>2, FS_Subset
<1>4. Cardinality((0 .. k) \ C) \in Nat /\ Cardinality((0 .. k) \ D) \in Nat
  BY <1>2, FS_CardinalityType
<1> QED
  BY <1>3, <1>4 DEF Sending

\* One copy is lost.
LEMMA SendingOneLess ==
  ASSUME NEW C, NEW D, NEW c, C \ {c} \subseteq D, NEW l \in Nat,
         NEW k \in Nat, Sending(C, l, k)
  PROVE  Sending(D, l + 1, k)
<1> DEFINE S == (0 .. k) \ C
<1>1. IsFiniteSet(0 .. k)
  BY FS_Interval
<1>2. IsFiniteSet(S)
  BY <1>1, FS_Subset
<1>3. IsFiniteSet(S \cup {c}) /\ Cardinality(S \cup {c}) <= Cardinality(S) + 1
  <2> HIDE DEF S
  <2>1. Cardinality(S) \in Nat
    BY <1>2, FS_CardinalityType
  <2>2. /\ IsFiniteSet(S \cup {c})
        /\ Cardinality(S \cup {c}) = Cardinality(S) \/ Cardinality(S \cup {c}) = Cardinality(S) + 1
    BY <1>2, FS_AddElement
  <2> QED
    BY <2>1, <2>2
<1>4. (0 .. k) \ D \in SUBSET (S \cup {c})
  OBVIOUS
<1>5. /\ IsFiniteSet((0 .. k) \ D)
      /\ Cardinality((0 .. k) \ D) <= Cardinality(S \cup {c})
  BY <1>3, <1>4, FS_Subset
<1>6. /\ Cardinality(S) \in Nat /\ Cardinality(S \cup {c}) \in Nat
      /\ Cardinality((0 .. k) \ D) \in Nat
  BY <1>2, <1>3, <1>5, FS_CardinalityType
<1>7. Cardinality(S) <= l
  BY DEF Sending
<1> HIDE DEF S
<1> QED
  BY <1>3, <1>5, <1>6, <1>7 DEF Sending

\* One copy more is sent.
LEMMA SendingOneMore ==
  ASSUME NEW C, NEW D, NEW k \in Nat, C \subseteq D, k + 1 \in D, NEW l \in Nat,
         Sending(C, l, k)
  PROVE  Sending(D, l, k + 1)
<1>1. (0 .. k + 1) \ D = (0 .. k) \ D
  OBVIOUS
<1>2. Sending(D, l, k)
  BY SendingStays
<1> QED
  BY <1>1, <1>2 DEF Sending

\* The first copy is sent.
LEMMA SendingFirst ==
  ASSUME NEW D, 0 \in D, NEW l \in Nat
  PROVE  Sending(D, l, 0)
<1>1. (0 .. 0) \ D = {}
  OBVIOUS
<1> QED
  BY <1>1, FS_EmptySet DEF Sending

\* A reply that the node after position i transmits is heard by the node there.
LEMMA Reaches ==
  ASSUME VectorsArePaths, NEW r \in Replies, SourceReply(r),
         NEW i \in 0 .. Len(Vector(r)), NEW copy
  PROVE  copy \in CopiesAmong(Transmit(NodeAfter(r, i), r, copy, i), r)
<1> DEFINE n == IF i = 0 THEN Origin[r.disc] ELSE Vector(r)[i]
           m == [reply |-> r, copy |-> copy, rem |-> i, to |-> n]
<1>1. n \in Neighbours[NodeAfter(r, i)]
  BY DEF VectorsArePaths
<1>2. Vector(r) \in Seq(Nodes)
  BY ReplyFacts
<1>3. ActsOn(n, r, i)
  BY <1>2 DEF ActsOn
<1> HIDE DEF n
<1>4. m \in Transmit(NodeAfter(r, i), r, copy, i)
  BY <1>1, <1>3 DEF Transmit
<1>5. m.copy = copy /\ m.reply = r
  OBVIOUS
<1> HIDE DEF m
<1> QED
  BY <1>4, <1>5 DEF CopiesAmong

\* The ends of a route among the nodes that transmit.
LEMMA Transmitters ==
  ASSUME NEW r \in Replies
  PROVE  /\ Len(Vector(r)) \in Nat
         /\ NodeAfter(r, Len(Vector(r))) = Target[r.disc]
         /\ \A i \in 1 .. Len(Vector(r)) : NodeAfter(r, i - 1) = Vector(r)[i]
<1>1. Vector(r) \in Seq(Nodes) /\ Target[r.disc] \in Nodes
  BY ReplyFacts
<1>2. Append(Vector(r), Target[r.disc])[Len(Vector(r)) + 1] = Target[r.disc]
  BY <1>1
<1>3. \A i \in 1 .. Len(Vector(r)) :
        /\ (i - 1) + 1 = i
        /\ Append(Vector(r), Target[r.disc])[i] = Vector(r)[i]
  BY <1>1
<1> QED
  BY <1>1, <1>2, <1>3 DEF NodeAfter

-----------------------------------------------------------------------------
(* The steps.                                                               *)

LEMMA AccountTypes ==
  ASSUME IInv, NEW r
  PROVE  /\ lost \in Nat /\ MaxRexmits \in Nat \ {0}
         /\ \A e \in PendingAmong(cache, r) : e \in Entry /\ e.rexmits \in Nat /\ e.reply = r
BY SizesAssumption DEF IInv, TypeOK, PendingAmong, Entry

\* A step that sends, at most, more copies of other entries than those of r.
LEMMA AccountStays ==
  ASSUME IInv, NEW r \in Replies, Account(r),
         r.disc \in answered' <=> r.disc \in answered,
         r \in uncached' <=> r \in uncached,
         PendingAmong(cache', r) = PendingAmong(cache, r),
         r \in reported => r \in reported',
         CopiesAmong(dros, r) \subseteq CopiesAmong(dros', r),
         lost' = lost
  PROVE  Account(r)'
<1>1. ASSUME NEW k \in Nat, Sending(CopiesAmong(dros, r), lost, k)
      PROVE  Sending(CopiesAmong(dros', r), lost', k)
  BY <1>1, SendingStays, AccountTypes
<1>2. /\ lost \in Nat /\ MaxRexmits \in Nat /\ 0 \in Nat
      /\ \A e \in PendingAmong(cache, r) : e.rexmits \in Nat
  BY AccountTypes
<1> QED
  BY <1>1, <1>2 DEF Account

LEMMA MoreCopies ==
  ASSUME NEW D, NEW E, D \subseteq E, NEW r
  PROVE  CopiesAmong(D, r) \subseteq CopiesAmong(E, r)
BY DEF CopiesAmong

LEMMA SendDrosAccount ==
  ASSUME IInv, VectorsArePaths, NEW d \in Discoveries, SendDros(d),
         NEW r \in Replies, SourceReply(r), Account(r)
  PROVE  Account(r)'
<1>1. /\ answered' = answered \cup {d} /\ d \notin answered
      /\ cache' = cache \cup [reply : Cached(d), rexmits : {0}]
      /\ uncached' = uncached \cup (RepliesOf(d) \ Cached(d))
      /\ dros' = dros \cup UNION {Transmit(Target[d], q, 0, Len(Vector(q))) : q \in RepliesOf(d)}
      /\ UNCHANGED <<reported, lost>>
  BY DEF SendDros
<1>2. r \in RepliesOf(r.disc) /\ \A q \in RepliesOf(d) : q.disc = d
  BY ReplyFacts, RepliesOfFacts
<1>3. Cached(d) \subseteq RepliesOf(d)
  BY DEF Cached, Cacheable
<1>4. CASE r.disc # d
  <2>1. PendingAmong(cache', r) = PendingAmong(cache, r)
    BY <1>1, <1>2, <1>3, <1>4 DEF PendingAmong
  <2>2. r \in uncached' <=> r \in uncached
    BY <1>1, <1>2, <1>4
  <2>3. CopiesAmong(dros, r) \subseteq CopiesAmong(dros', r)
    BY <1>1, MoreCopies
  <2> QED
    BY <1>1, <1>4, <2>1, <2>2, <2>3, AccountStays
<1>5. CASE r.disc = d
  <2>1. r \notin uncached /\ PendingAmong(cache, r) = {}
    BY <1>1, <1>5 DEF Account
  <2>2. 0 \in CopiesAmong(dros', r)
    <3>1. /\ Len(Vector(r)) \in 0 .. Len(Vector(r))
          /\ NodeAfter(r, Len(Vector(r))) = Target[d]
      BY <1>5, Transmitters
    <3>2. 0 \in CopiesAmong(Transmit(Target[d], r, 0, Len(Vector(r))), r)
      BY <3>1, Reaches
    <3>3. Transmit(Target[d], r, 0, Len(Vector(r))) \subseteq dros'
      BY <1>1, <1>2, <1>5
    <3> QED
      BY <3>2, <3>3, MoreCopies
  <2>3. Sending(CopiesAmong(dros', r), lost', 0)
    BY <1>1, <2>2, SendingFirst, AccountTypes
  <2>4. \A e \in PendingAmong(cache', r) : e.rexmits = 0
    BY <1>1, <2>1 DEF PendingAmong
  <2>5. r \notin uncached' => PendingAmong(cache', r) # {}
    <3> SUFFICES ASSUME r \in Cached(d)
                 PROVE  PendingAmong(cache', r) # {}
      BY <1>1, <1>2, <1>5
    <3>1. [reply |-> r, rexmits |-> 0] \in cache'
      BY <1>1
    <3>2. [reply |-> r, rexmits |-> 0].reply = r
      OBVIOUS
    <3> QED
      BY <3>1, <3>2 DEF PendingAmong
  <2>6. r.disc \in answered'
    BY <1>1, <1>5
  <2> QED
    BY <2>3, <2>4, <2>5, <2>6 DEF Account
<1> QED
  BY <1>4, <1>5

LEMMA RexmitAccount ==
  ASSUME IInv, VectorsArePaths, NEW e \in cache, Rexmit(e),
         NEW r \in Replies, SourceReply(r), Account(r)
  PROVE  Account(r)'
<1>1. /\ cache' = (cache \ {e}) \cup
                    IF IsLast(e) THEN {} ELSE {[e EXCEPT !.rexmits = e.rexmits + 1]}
      /\ dros' = dros \cup Transmit(Target[e.reply.disc], e.reply, e.rexmits + 1,
                                    CachedRem(e.reply))
      /\ UNCHANGED <<answered, uncached, reported, lost>>
  BY DEF Rexmit, routing
<1>2. e \in Entry /\ e.rexmits \in 0 .. MaxRexmits - 1 /\ e.reply \in Replies
  BY DEF IInv, TypeOK, Entry
<1> DEFINE f == [e EXCEPT !.rexmits = e.rexmits + 1]
<1>3. f.reply = e.reply /\ f.rexmits = e.rexmits + 1
  BY <1>2 DEF Entry
<1> HIDE DEF f
<1>4. cache' = (cache \ {e}) \cup IF IsLast(e) THEN {} ELSE {f}
  BY <1>1 DEF f
<1>5. CopiesAmong(dros, r) \subseteq CopiesAmong(dros', r)
  BY <1>1, MoreCopies
<1>6. CASE e.reply # r
  <2>1. PendingAmong(cache', r) = PendingAmong(cache, r)
    BY <1>3, <1>4, <1>6 DEF PendingAmong
  <2> QED
    BY <1>1, <1>5, <2>1, AccountStays
<1>7. CASE e.reply = r
  <2>1. e.rexmits + 1 \in CopiesAmong(dros', r)
    <3>1. /\ Len(Vector(r)) \in 0 .. Len(Vector(r))
          /\ NodeAfter(r, Len(Vector(r))) = Target[r.disc]
      BY Transmitters
    <3>2. e.rexmits + 1 \in
            CopiesAmong(Transmit(Target[r.disc], r, e.rexmits + 1, Len(Vector(r))), r)
      BY <3>1, Reaches
    <3>3. Transmit(Target[r.disc], r, e.rexmits + 1, Len(Vector(r))) \subseteq dros'
      BY <1>1, <1>7 DEF CachedRem
    <3> QED
      BY <3>2, <3>3, MoreCopies
  <2>2. e \in PendingAmong(cache, r)
    BY <1>7 DEF PendingAmong
  <2>3. r.disc \in answered
    BY <2>2 DEF Account
  <2>4. ASSUME NEW k \in Nat, Sending(CopiesAmong(dros, r), lost, k)
        PROVE  Sending(CopiesAmong(dros', r), lost', k)
    <3>1. lost \in Nat /\ lost <= lost
      BY AccountTypes
    <3>2. Sending(CopiesAmong(dros', r), lost, k)
      BY <1>5, <2>4, <3>1, SendingStays
    <3> QED
      BY <1>1, <3>2
  <2>5. CASE r \in reported
    BY <1>1, <2>3, <2>5 DEF Account
  <2>6. CASE r \notin reported
    <3>1. Sending(CopiesAmong(dros', r), lost', e.rexmits + 1)
      <4>1. Sending(CopiesAmong(dros, r), lost, e.rexmits)
        BY <2>2, <2>3, <2>6 DEF Account
      <4>2. lost \in Nat /\ e.rexmits \in Nat
        BY <1>2, AccountTypes
      <4> QED
        BY <1>1, <1>5, <2>1, <4>1, <4>2, SendingOneMore
    <3>2. r \in uncached' => Sending(CopiesAmong(dros', r), lost', 0)
      BY <1>1, <2>3, <2>4, <2>6 DEF Account
    <3>3. PendingAmong(cache', r) = {} => Sending(CopiesAmong(dros', r), lost', MaxRexmits)
      <4> SUFFICES ASSUME PendingAmong(cache', r) = {}
                   PROVE  Sending(CopiesAmong(dros', r), lost', MaxRexmits)
        OBVIOUS
      <4>1. IsLast(e)
        BY <1>3, <1>4, <1>7 DEF PendingAmong
      <4>2. e.rexmits + 1 = MaxRexmits
        BY <1>2, <4>1, AccountTypes DEF IsLast
      <4> QED
        BY <3>1, <4>2
    <3>4. ASSUME NEW q \in PendingAmong(cache', r)
          PROVE  Sending(CopiesAmong(dros', r), lost', q.rexmits)
      <4>1. CASE q = f
        BY <1>3, <3>1, <4>1
      <4>2. CASE q # f
        <5>1. q \in PendingAmong(cache, r)
          BY <1>4, <4>2 DEF PendingAmong
        <5>2. q.rexmits \in Nat
          BY <5>1, AccountTypes
        <5> QED
          BY <2>3, <2>4, <2>6, <5>1, <5>2 DEF Account
      <4> QED
        BY <4>1, <4>2
    <3> QED
      BY <1>1, <2>3, <3>2, <3>3, <3>4 DEF Account
  <2> QED
    BY <2>5, <2>6
<1> QED
  BY <1>6, <1>7

\* A relay forwards a reply with a source route whatever it knows.
LEMMA ReceiveAccount ==
  ASSUME IInv, VectorsArePaths, NEW m \in dros, Receive(m),
         NEW r \in Replies, SourceReply(r), Account(r)
  PROVE  Account(r)'
<1>1. UNCHANGED <<answered, cache, uncached, lost>>
  BY DEF Receive
<1>2. m \in Dro /\ m.reply \in Replies /\ m.rem \in Nat /\ ActsOn(m.to, m.reply, m.rem)
  BY DEF IInv, TypeOK, Dro, DrosAddressed
<1>3. CASE OriginReceives(m)
  <2>1. reported' = reported \cup {m.reply} /\ dros' = dros \ {m}
    BY <1>3 DEF OriginReceives
  <2>2. CASE m.reply = r
    BY <1>1, <2>1, <2>2 DEF Account
  <2>3. CASE m.reply # r
    <3>1. CopiesAmong(dros, r) \subseteq CopiesAmong(dros', r)
      BY <2>1, <2>3 DEF CopiesAmong
    <3> QED
      BY <1>1, <2>1, <3>1, AccountStays
  <2> QED
    BY <2>2, <2>3
<1>4. CASE RelayReceives(m)
  <2> DEFINE sent == Transmit(m.to, m.reply, m.copy, m.rem - 1)
  <2>1. /\ m.to # Origin[m.reply.disc] /\ UNCHANGED reported
        /\ dros' = (dros \ {m}) \cup IF HopByHop[m.reply.disc] /\ KnowsHop(m) THEN {} ELSE sent
    BY <1>4 DEF RelayReceives
  <2>2. CASE m.reply = r
    <3>1. dros' = (dros \ {m}) \cup sent
      BY <2>1, <2>2 DEF SourceReply
    <3>2. m.rem \in 1 .. Len(Vector(r)) /\ Vector(r)[m.rem] = m.to
      <4>1. Vector(r) \in Seq(Nodes)
        BY ReplyFacts
      <4> QED
        BY <1>2, <2>1, <2>2, <4>1 DEF ActsOn
    <3>3. NodeAfter(r, m.rem - 1) = m.to /\ m.rem - 1 \in 0 .. Len(Vector(r))
      BY <3>2, Transmitters
    <3>4. m.copy \in CopiesAmong(sent, r)
      BY <2>2, <3>3, Reaches
    <3> HIDE DEF sent
    <3>5. CopiesAmong(dros, r) \subseteq CopiesAmong(dros', r)
      <4>1. CopiesAmong(sent, r) \subseteq CopiesAmong(dros', r)
        BY <3>1, MoreCopies
      <4>2. CopiesAmong(dros, r) \subseteq CopiesAmong(dros \ {m}, r) \cup {m.copy}
        BY DEF CopiesAmong
      <4>3. CopiesAmong(dros \ {m}, r) \subseteq CopiesAmong(dros', r)
        BY <3>1, MoreCopies
      <4> QED
        BY <3>4, <4>1, <4>2, <4>3
    <3> QED
      BY <1>1, <2>1, <3>5, AccountStays
  <2>3. CASE m.reply # r
    <3>1. CopiesAmong(dros, r) \subseteq CopiesAmong(dros', r)
      BY <2>1, <2>3 DEF CopiesAmong
    <3> QED
      BY <1>1, <2>1, <3>1, AccountStays
  <2> QED
    BY <2>2, <2>3
<1> QED
  BY <1>3, <1>4 DEF Receive

LEMMA LoseAccount ==
  ASSUME IInv, NEW m \in dros, Lose(m), NEW r \in Replies, Account(r)
  PROVE  Account(r)'
<1>1. /\ dros' = dros \ {m} /\ lost' = lost + 1
      /\ UNCHANGED <<answered, cache, uncached, reported>>
  BY DEF Lose, routing
<1>2. CopiesAmong(dros, r) \ {m.copy} \subseteq CopiesAmong(dros', r)
  BY <1>1 DEF CopiesAmong
<1>3. ASSUME NEW k \in Nat, Sending(CopiesAmong(dros, r), lost, k)
      PROVE  Sending(CopiesAmong(dros', r), lost', k)
  <2>1. lost \in Nat
    BY AccountTypes
  <2> QED
    BY <1>1, <1>2, <1>3, <2>1, SendingOneLess
<1>4. /\ MaxRexmits \in Nat /\ 0 \in Nat
      /\ \A e \in PendingAmong(cache, r) : e.rexmits \in Nat
  BY AccountTypes
<1> QED
  BY <1>1, <1>3, <1>4 DEF Account

LEMMA AckAccount ==
  ASSUME IInv, NEW a \in acks, ReceiveAck(a),
         NEW r \in Replies, SourceReply(r), Account(r)
  PROVE  Account(r)'
<1>1. /\ cache' = cache \ FirstMatching(a)
      /\ UNCHANGED <<answered, uncached, dros, reported, lost>>
  BY DEF ReceiveAck, routing
<1>2. a \in Replies /\ a \in reported
  BY DEF IInv, TypeOK, AcksReported
<1>3. CASE a.disc = r.disc
  <2>1. a = r
    <3>1. r.seq = 1 /\ a.seq = 1
      BY <1>2, <1>3, OnlyReply DEF SourceReply
    <3>2. r \in RepliesOf(r.disc) /\ a \in RepliesOf(r.disc)
      BY <1>2, <1>3, ReplyFacts
    <3> QED
      BY <3>1, <3>2 DEF RepliesOf
  <2>2. PendingAmong(cache', r) \subseteq PendingAmong(cache, r)
    BY <1>1 DEF PendingAmong
  <2> QED
    BY <1>1, <1>2, <2>1, <2>2 DEF Account
<1>4. CASE a.disc # r.disc
  <2>1. PendingAmong(cache', r) = PendingAmong(cache, r)
    BY <1>1, <1>4 DEF PendingAmong, FirstMatching, Matching, Matches
  <2> QED
    BY <1>1, <2>1, AccountStays
<1> QED
  BY <1>3, <1>4

LEMMA AccountedStep ==
  ASSUME IInv, VectorsArePaths, Accounted, [Next]_vars
  PROVE  Accounted'
<1> SUFFICES ASSUME NEW r \in Replies, SourceReply(r)
             PROVE  Account(r)'
  BY DEF Accounted
<1>1. Account(r)
  BY DEF Accounted
<1>2. CASE UNCHANGED vars
  BY <1>1, <1>2 DEF vars, Account
<1> QED
  BY <1>1, <1>2, SendDrosAccount, RexmitAccount, ReceiveAccount, LoseAccount, AckAccount
     DEF Next

\* The reply to a discovery that is answered by one DRO with a source route has
\* reached the origin once all is quiet, unless each of its copies, the first
\* and RPL_MAX_DRO_REXMITS more if it had a place in the cache, was lost: for
\* any losses, delays and crossings of DROs and ACKs, and any other discoveries,
\* provided that the address vectors are paths (send_dros, dro_output,
\* dro_rexmit, dro_input, dro_ack_input).
THEOREM SourceRepliesArrive ==
  ASSUME VectorsArePaths
  PROVE  Spec => []SourceReplyDelivered
<1>1. Init => Accounted
  BY DEF Init, Accounted, Account, PendingAmong
<1>2. IInv /\ Accounted /\ [Next]_vars => Accounted'
  BY AccountedStep
<1>3. ASSUME IInv, Accounted
      PROVE  SourceReplyDelivered
  <2> SUFFICES ASSUME NEW r \in Replies, SourceReply(r), r.disc \in answered, Quiet,
                      lost <= Losses(r), r \notin reported
               PROVE  FALSE
    BY DEF SourceReplyDelivered, DeliveredUnlessLost, SourceReply
  <2>1. Account(r)
    BY <1>3 DEF Accounted
  <2>2. CopiesAmong(dros, r) = {} /\ PendingAmong(cache, r) = {}
    BY DEF Quiet, CopiesAmong, PendingAmong
  <2>3. Sending({}, lost, Losses(r))
    BY <2>1, <2>2 DEF Account, Losses
  <2>4. Losses(r) \in Nat /\ lost \in Nat
    BY <1>3, AccountTypes DEF Losses
  <2>5. (0 .. Losses(r)) \ {} = 0 .. Losses(r)
    OBVIOUS
  <2>6. Cardinality(0 .. Losses(r)) = Losses(r) + 1
    BY <2>4, FS_Interval
  <2> QED
    BY <2>3, <2>4, <2>5, <2>6 DEF Sending
<1> QED
  BY <1>1, <1>2, <1>3, Invariance, PTL DEF Spec

-----------------------------------------------------------------------------
(* Hop-by-hop routes: the relays of a target can be ordered so that each    *)
(* next hop is the target or comes before.                                  *)

\* No node is a relay on a hop-by-hop route to a target that it has asked for
\* hop-by-hop routes to itself: an origin replaces its next hop with each
\* reply.
OriginsDoNotRelay ==
  \A r \in Replies : \A d \in Discoveries :
    HopByHop[r.disc] /\ HopByHop[d] /\ Target[d] = Target[r.disc]
      => \A i \in DOMAIN Vector(r) : Vector(r)[i] # Origin[d]

\* The relays with a next hop to t, and the next hops themselves, in a table h.
AsksFor(n, t) == \E d \in Discoveries : HopByHop[d] /\ Target[d] = t /\ Origin[d] = n
RelaysIn(h, t) == {n \in Nodes : h[n][t] # NoNode /\ ~AsksFor(n, t)}
RanksIn(h, t) == [RelaysIn(h, t) -> 1 .. Cardinality(RelaysIn(h, t))]
OrderedBy(h, t, rank) ==
  \A n \in RelaysIn(h, t) :
    \/ h[n][t] = t
    \/ h[n][t] \in RelaysIn(h, t) /\ rank[h[n][t]] < rank[n]
HopsOrdered == \A t \in Nodes : \E rank \in RanksIn(hop, t) : OrderedBy(hop, t, rank)

\* The node that has sent a DRO has a route to the target itself.
Behind(h, m) ==
  HopByHop[m.reply.disc] =>
    LET n == NodeAfter(m.reply, m.rem)
        t == Target[m.reply.disc]
    IN  n = t \/ n \in RelaysIn(h, t)
SendersRouted == \A m \in dros : Behind(hop, m)

RelayInv == HopsOrdered /\ SendersRouted

-----------------------------------------------------------------------------

LEMMA RelaysFinite ==
  ASSUME NEW h, NEW t
  PROVE  /\ IsFiniteSet(RelaysIn(h, t)) /\ IsFiniteSet(Nodes)
         /\ Cardinality(RelaysIn(h, t)) \in Nat /\ Cardinality(Nodes) \in Nat
         /\ Cardinality(RelaysIn(h, t)) <= Cardinality(Nodes)
<1>1. RelaysIn(h, t) \in SUBSET Nodes /\ IsFiniteSet(Nodes)
  BY NodesAssumption DEF RelaysIn
<1>2. IsFiniteSet(RelaysIn(h, t)) /\ Cardinality(RelaysIn(h, t)) <= Cardinality(Nodes)
  BY <1>1, FS_Subset
<1> QED
  BY <1>1, <1>2, FS_CardinalityType

\* Following the next hops reaches the target, within as many steps as there
\* are nodes.
LEMMA WalkReaches ==
  ASSUME hop \in [Nodes -> [Nodes -> Nodes \cup {NoNode}]],
         NEW t \in Nodes, NEW rank \in RanksIn(hop, t), OrderedBy(hop, t, rank),
         NEW n \in RelaysIn(hop, t)
  PROVE  Walk(n, t) = t
<1> DEFINE k == Cardinality(Nodes)
           R == RelaysIn(hop, t)
           Steps(f) == f = [i \in 0 .. k |->
             IF i = 0 THEN n
             ELSE IF f[i - 1] \in {t, NoNode} THEN f[i - 1]
             ELSE hop[f[i - 1]][t]]
           step == CHOOSE f : Steps(f)
           V == Nodes \cup {NoNode}
           g == [i \in 1 .. k |-> [x \in V |-> IF x \in {t, NoNode} THEN x ELSE hop[x][t]]]
<1>1. Walk(n, t) = step[k]
  BY DEF Walk
<1>2. k \in Nat /\ Cardinality(R) \in Nat /\ Cardinality(R) <= k
  BY RelaysFinite
<1>3. n \in Nodes /\ NoNode \notin Nodes /\ R \subseteq Nodes
  BY NodesAssumption DEF RelaysIn
<1>4. rank \in [R -> 1 .. Cardinality(R)]
  BY DEF RanksIn
<1>5. \A x \in R : hop[x][t] = t \/ (hop[x][t] \in R /\ rank[hop[x][t]] < rank[x])
  BY DEF OrderedBy
<1>6. n \in R
  OBVIOUS
<1> HIDE DEF k, R
<1>7. g \in [1 .. k -> [V -> V]]
  OBVIOUS
<1>8. \E f : Steps(f)
  <2>1. n \in V
    BY <1>3
  <2> HIDE DEF g, V
  <2>2. PICK f \in [0 .. k -> V] : Iterates(f, k, n, g)
    BY <1>2, <1>7, <2>1, IterationExists
  <2>3. f = [i \in 0 .. k |-> IF i = 0 THEN n ELSE g[i][f[i - 1]]]
    BY <2>2 DEF Iterates
  <2>4. \A i \in 0 .. k : i # 0 =>
          g[i][f[i - 1]] = IF f[i - 1] \in {t, NoNode} THEN f[i - 1] ELSE hop[f[i - 1]][t]
    <3> SUFFICES ASSUME NEW i \in 0 .. k, i # 0
                 PROVE  g[i][f[i - 1]] = IF f[i - 1] \in {t, NoNode} THEN f[i - 1]
                                         ELSE hop[f[i - 1]][t]
      OBVIOUS
    <3>1. i \in 1 .. k /\ i - 1 \in 0 .. k
      BY <1>2
    <3>2. f[i - 1] \in V
      BY <2>2, <3>1
    <3> QED
      BY <3>1, <3>2 DEF g
  <2>5. Steps(f)
    BY <2>3, <2>4
  <2> QED
    BY <2>5
<1>9. Steps(step)
  <2> HIDE DEF Steps
  <2> QED
    BY <1>8
<1> HIDE DEF step
<1>10. step[0] = n
  BY <1>2, <1>9
<1>11. \A i \in 0 .. k - 1 : step[i + 1] = IF step[i] \in {t, NoNode} THEN step[i]
                                           ELSE hop[step[i]][t]
  <2> TAKE i \in 0 .. k - 1
  <2>1. i + 1 \in 0 .. k /\ i + 1 # 0 /\ (i + 1) - 1 = i
    BY <1>2
  <2> QED
    BY <1>9, <2>1
<1> HIDE DEF Steps
\* after i steps the walk is at the target or has descended i ranks
<1> DEFINE S == {i \in 0 .. k : step[i] = t \/ (step[i] \in R /\ rank[step[i]] + i <= rank[n])}
<1>12. 0 \in S
  <2>1. rank[n] \in Nat
    BY <1>2, <1>4, <1>6
  <2> QED
    BY <1>2, <1>6, <1>10, <2>1
<1>13. ASSUME NEW i \in 0 .. k - 1, i \in S
       PROVE  i + 1 \in S
  <2>1. i + 1 \in 0 .. k
    BY <1>2
  <2>2. CASE step[i] = t
    BY <1>11, <2>1, <2>2
  <2>3. CASE step[i] # t
    <3>1. step[i] \in R /\ rank[step[i]] + i <= rank[n] /\ step[i] # NoNode
      BY <1>3, <1>13, <2>3
    <3>2. step[i + 1] = hop[step[i]][t]
      BY <1>11, <2>3, <3>1
    <3>3. step[i + 1] = t \/ (step[i + 1] \in R /\ rank[step[i + 1]] < rank[step[i]])
      BY <1>5, <3>1, <3>2
    <3>4. \A x \in R : rank[x] \in Nat
      BY <1>2, <1>4
    <3>5. step[i + 1] \in R /\ rank[step[i + 1]] < rank[step[i]]
            => rank[step[i + 1]] + (i + 1) <= rank[n]
      BY <1>6, <3>1, <3>4
    <3> QED
      BY <2>1, <3>3, <3>5
  <2> QED
    BY <2>2, <2>3
<1> HIDE DEF S
<1>14. k \in S
  <2>1. 0 .. k \subseteq S
    BY <1>2, <1>12, <1>13, BoundedInduction
  <2> QED
    BY <1>2, <2>1
<1>15. ~(step[k] \in R /\ rank[step[k]] + k <= rank[n])
  <2>1. \A x \in R : rank[x] \in 1 .. Cardinality(R)
    BY <1>4
  <2> QED
    BY <1>2, <1>6, <2>1
<1> QED
  BY <1>1, <1>14, <1>15 DEF S

\* A relay that stores its first next hop comes last.
LEMMA RelayAdded ==
  ASSUME NEW h, NEW h2, NEW t \in Nodes, NEW n \in Nodes \ RelaysIn(h, t),
         RelaysIn(h2, t) = RelaysIn(h, t) \cup {n},
         \A x \in RelaysIn(h, t) : h2[x][t] = h[x][t],
         h2[n][t] = t \/ h2[n][t] \in RelaysIn(h, t),
         NEW rank \in RanksIn(h, t), OrderedBy(h, t, rank)
  PROVE  \E r \in RanksIn(h2, t) : OrderedBy(h2, t, r)
<1> DEFINE R == RelaysIn(h, t)
           c == Cardinality(R)
           r == [x \in R \cup {n} |-> IF x = n THEN c + 1 ELSE rank[x]]
<1>1. IsFiniteSet(R) /\ c \in Nat /\ Cardinality(R \cup {n}) = c + 1
  BY RelaysFinite, FS_AddElement
<1>2. rank \in [R -> 1 .. c]
  BY DEF RanksIn
<1>3. r \in RanksIn(h2, t)
  <2>1. r \in [R \cup {n} -> 1 .. c + 1]
    <3> HIDE DEF R, c
    <3> QED
      BY <1>1, <1>2
  <2> HIDE DEF r
  <2> QED
    BY <1>1, <2>1 DEF RanksIn
<1>4. ASSUME NEW x \in R \cup {n}
      PROVE  h2[x][t] = t \/ (h2[x][t] \in R \cup {n} /\ r[h2[x][t]] < r[x])
  <2>1. CASE x = n
    <3>1. \A y \in R : y # n /\ r[y] = rank[y] /\ rank[y] < c + 1 /\ r[n] = c + 1
      BY <1>1, <1>2
    <3> QED
      BY <2>1, <3>1
  <2>2. CASE x # n
    <3>1. x \in R /\ h2[x][t] = h[x][t] /\ r[x] = rank[x]
      BY <2>2
    <3>2. h[x][t] = t \/ (h[x][t] \in R /\ rank[h[x][t]] < rank[x])
      BY <3>1 DEF OrderedBy
    <3>3. \A y \in R : y # n /\ r[y] = rank[y]
      OBVIOUS
    <3> HIDE DEF r, R
    <3> QED
      BY <3>1, <3>2, <3>3
  <2> QED
    BY <2>1, <2>2
<1>5. OrderedBy(h2, t, r)
  <2> HIDE DEF r
  <2> QED
    BY <1>4 DEF OrderedBy
<1> QED
  BY <1>3, <1>5

\* Tables with the same relays and next hops are ordered alike.
LEMMA SameHops ==
  ASSUME NEW h, NEW h2, NEW t, RelaysIn(h2, t) = RelaysIn(h, t),
         \A x \in RelaysIn(h, t) : h2[x][t] = h[x][t],
         NEW rank \in RanksIn(h, t), OrderedBy(h, t, rank)
  PROVE  rank \in RanksIn(h2, t) /\ OrderedBy(h2, t, rank)
BY DEF RanksIn, OrderedBy

\* A node that has asked for routes to t itself is no relay to t.
LEMMA OriginStores ==
  ASSUME RelayInv, NEW n \in Nodes, NEW t \in Nodes, AsksFor(n, t),
         hop \in [Nodes -> [Nodes -> Nodes \cup {NoNode}]],
         NEW x, hop' = [hop EXCEPT ![n] = [hop[n] EXCEPT ![t] = x]]
  PROVE  HopsOrdered' /\ \A u \in Nodes : RelaysIn(hop', u) = RelaysIn(hop, u)
<1>1. \A u, y \in Nodes : hop'[y][u] = hop[y][u] \/ (y = n /\ u = t)
  <2> TAKE u, y \in Nodes
  <2>1. hop'[y] = IF y = n THEN [hop[n] EXCEPT ![t] = x] ELSE hop[y]
    OBVIOUS
  <2>2. hop[n] \in [Nodes -> Nodes \cup {NoNode}]
    OBVIOUS
  <2> QED
    BY <2>1, <2>2
<1>2. \A u \in Nodes : RelaysIn(hop', u) = RelaysIn(hop, u)
  BY <1>1 DEF RelaysIn
<1>3. \A u \in Nodes : \A y \in RelaysIn(hop, u) : hop'[y][u] = hop[y][u]
  BY <1>1 DEF RelaysIn
<1>4. ASSUME NEW u \in Nodes
      PROVE  \E rank \in RanksIn(hop', u) : OrderedBy(hop', u, rank)
  <2>1. PICK rank \in RanksIn(hop, u) : OrderedBy(hop, u, rank)
    BY DEF RelayInv, HopsOrdered
  <2>2. /\ RelaysIn(hop', u) = RelaysIn(hop, u)
        /\ \A y \in RelaysIn(hop, u) : hop'[y][u] = hop[y][u]
    BY <1>2, <1>3
  <2>3. rank \in RanksIn(hop', u) /\ OrderedBy(hop', u, rank)
    BY <2>1, <2>2, SameHops
  <2> QED
    BY <2>3
<1> QED
  BY <1>2, <1>4 DEF HopsOrdered

\* DROs that are already under way, or another table with as many relays.
LEMMA BehindStays ==
  ASSUME NEW h, NEW h2, \A u \in Nodes : RelaysIn(h, u) \subseteq RelaysIn(h2, u),
         NEW m \in Dro, Behind(h, m)
  PROVE  Behind(h2, m)
<1>1. Target[m.reply.disc] \in Nodes
  BY ReplyFacts DEF Dro
<1> QED
  BY <1>1 DEF Behind

\* The target is behind its own DROs.
LEMMA TargetBehind ==
  ASSUME NEW h, NEW r \in Replies, NEW n, NEW copy,
         NEW m \in Transmit(n, r, copy, Len(Vector(r)))
  PROVE  Behind(h, m)
<1>1. m.reply = r /\ m.rem = Len(Vector(r))
  BY DEF Transmit
<1> QED
  BY <1>1, Transmitters DEF Behind

LEMMA RelayStores ==
  ASSUME IInv, RelayInv, OriginsDoNotRelay, NEW m \in dros, RelayReceives(m)
  PROVE  RelayInv'
<1> DEFINE r == m.reply
           t == Target[r.disc]
           n == m.to
           x == NodeAfter(r, m.rem)
<1>1. /\ m \in Dro /\ r \in Replies /\ n \in Nodes /\ m.rem \in Nat
      /\ ActsOn(n, r, m.rem) /\ n # Origin[r.disc]
      /\ hop \in [Nodes -> [Nodes -> Nodes \cup {NoNode}]] /\ dros \subseteq Dro
  BY DEF IInv, TypeOK, Dro, DrosAddressed, RelayReceives
<1>2. t \in Nodes /\ Vector(r) \in Seq(Nodes) /\ r.disc \in Discoveries
  BY <1>1, ReplyFacts
<1>3. m.rem \in 1 .. Len(Vector(r)) /\ Vector(r)[m.rem] = n
  BY <1>1, <1>2 DEF ActsOn
<1>4. x \in Nodes /\ x # NoNode
  BY <1>1, <1>3, NodeAfterType, NodesAssumption
<1>5. HopByHop[r.disc] => ~AsksFor(n, t)
  BY <1>1, <1>2, <1>3 DEF OriginsDoNotRelay, AsksFor
<1>6. HopByHop[r.disc] => x = t \/ x \in RelaysIn(hop, t)
  BY DEF RelayInv, SendersRouted, Behind
<1>7. dros' \subseteq dros \cup Transmit(n, r, m.copy, m.rem - 1)
  BY DEF RelayReceives
<1>8. hop' = IF HopByHop[r.disc] /\ hop[n][t] = NoNode
             THEN [hop EXCEPT ![n] = [hop[n] EXCEPT ![t] = x]] ELSE hop
  BY DEF RelayReceives, RelayHop
<1> HIDE DEF x, t, n, r
\* the new DROs
<1>9. ASSUME \A u \in Nodes : RelaysIn(hop, u) \subseteq RelaysIn(hop', u),
             HopByHop[r.disc] => n \in RelaysIn(hop', t)
      PROVE  SendersRouted'
  <2> SUFFICES ASSUME NEW q \in dros'
               PROVE  Behind(hop', q)
    BY DEF SendersRouted
  <2>1. CASE q \in dros
    BY <1>1, <1>9, <2>1, BehindStays DEF RelayInv, SendersRouted
  <2>2. CASE q \in Transmit(n, r, m.copy, m.rem - 1)
    <3>1. q.reply = r /\ q.rem = m.rem - 1
      BY <2>2 DEF Transmit
    <3>2. NodeAfter(r, m.rem - 1) = n
      BY <1>1, <1>3, Transmitters
    <3> QED
      BY <1>9, <3>1, <3>2 DEF Behind, t
  <2> QED
    BY <1>7, <2>1, <2>2
<1>10. CASE hop' = hop
  <2>1. HopByHop[r.disc] => n \in RelaysIn(hop', t)
    <3> SUFFICES ASSUME HopByHop[r.disc]
                 PROVE  n \in RelaysIn(hop, t)
      BY <1>10
    <3>1. hop[n][t] # NoNode
      <4> SUFFICES ASSUME hop[n][t] = NoNode
                   PROVE  FALSE
        OBVIOUS
      <4>1. hop'[n][t] = x
        BY <1>1, <1>2, <1>8
      <4> QED
        BY <1>4, <1>10, <4>1
    <3> QED
      BY <1>1, <1>5, <3>1 DEF RelaysIn
  <2>2. HopsOrdered'
    BY <1>10 DEF RelayInv, HopsOrdered
  <2> QED
    BY <1>9, <1>10, <2>1, <2>2 DEF RelayInv
<1>11. CASE hop' # hop
  <2>1. /\ HopByHop[r.disc] /\ hop[n][t] = NoNode
        /\ hop' = [hop EXCEPT ![n] = [hop[n] EXCEPT ![t] = x]]
    BY <1>8, <1>11
  <2>2. \A u, y \in Nodes : hop'[y][u] = IF y = n /\ u = t THEN x ELSE hop[y][u]
    <3> TAKE u, y \in Nodes
    <3>1. hop'[y] = IF y = n THEN [hop[n] EXCEPT ![t] = x] ELSE hop[y]
      BY <1>1, <2>1
    <3>2. hop[n] \in [Nodes -> Nodes \cup {NoNode}]
      BY <1>1
    <3> QED
      BY <3>1, <3>2
  <2>3. /\ RelaysIn(hop', t) = RelaysIn(hop, t) \cup {n}
        /\ n \in Nodes \ RelaysIn(hop, t)
        /\ \A u \in Nodes \ {t} : RelaysIn(hop', u) = RelaysIn(hop, u)
    BY <1>1, <1>2, <1>4, <1>5, <2>1, <2>2 DEF RelaysIn
  <2>4. \A u \in Nodes : \A y \in RelaysIn(hop, u) : hop'[y][u] = hop[y][u]
    BY <2>2, <2>3 DEF RelaysIn
  <2>5. ASSUME NEW u \in Nodes
        PROVE  \E rank \in RanksIn(hop', u) : OrderedBy(hop', u, rank)
    <3>1. PICK rank \in RanksIn(hop, u) : OrderedBy(hop, u, rank)
      BY DEF RelayInv, HopsOrdered
    <3>2. CASE u = t
      <4>1. hop'[n][t] = t \/ hop'[n][t] \in RelaysIn(hop, t)
        BY <1>1, <1>2, <1>6, <2>1, <2>2
      <4>2. \A y \in RelaysIn(hop, t) : hop'[y][t] = hop[y][t]
        BY <1>2, <2>4
      <4> QED
        BY <1>2, <2>3, <3>1, <3>2, <4>1, <4>2, RelayAdded
    <3>3. CASE u # t
      <4>1. /\ RelaysIn(hop', u) = RelaysIn(hop, u)
            /\ \A y \in RelaysIn(hop, u) : hop'[y][u] = hop[y][u]
        BY <2>3, <2>4, <3>3
      <4>2. rank \in RanksIn(hop', u) /\ OrderedBy(hop', u, rank)
        BY <3>1, <4>1, SameHops
      <4> QED
        BY <4>2
    <3> QED
      BY <3>2, <3>3
  <2>6. \A u \in Nodes : RelaysIn(hop, u) \subseteq RelaysIn(hop', u)
    BY <2>3
  <2> QED
    BY <1>9, <2>3, <2>5, <2>6 DEF RelayInv, HopsOrdered
<1> QED
  BY <1>10, <1>11

\* Steps that do not change next hops: the DROs they send are the target's.
LEMMA HopsStay ==
  ASSUME IInv, RelayInv, hop' = hop, \A m \in dros' : m \in dros \/ Behind(hop, m)
  PROVE  RelayInv'
BY DEF RelayInv, HopsOrdered, SendersRouted

LEMMA RelayInvStep ==
  ASSUME IInv, RelayInv, OriginsDoNotRelay, [Next]_vars
  PROVE  RelayInv'
<1>1. ASSUME NEW d \in Discoveries, SendDros(d)
      PROVE  RelayInv'
  <2>1. ASSUME NEW m \in dros', m \notin dros
        PROVE  Behind(hop, m)
    <3>1. PICK r \in RepliesOf(d) : m \in Transmit(Target[d], r, 0, Len(Vector(r)))
      BY <1>1, <2>1 DEF SendDros
    <3>2. r \in Replies
      BY RepliesOfFacts
    <3> QED
      BY <3>1, <3>2, TargetBehind
  <2> QED
    BY <1>1, <2>1, HopsStay DEF SendDros
<1>2. ASSUME NEW e \in cache, Rexmit(e)
      PROVE  RelayInv'
  <2>1. e.reply \in Replies
    BY DEF IInv, TypeOK, Entry
  <2>2. ASSUME NEW m \in dros', m \notin dros
        PROVE  Behind(hop, m)
    <3>1. m \in Transmit(Target[e.reply.disc], e.reply, e.rexmits + 1, Len(Vector(e.reply)))
      BY <1>2, <2>2 DEF Rexmit, CachedRem
    <3> QED
      BY <2>1, <3>1, TargetBehind
  <2> QED
    BY <1>2, <2>2, HopsStay DEF Rexmit, routing
<1>3. ASSUME NEW m \in dros, OriginReceives(m)
      PROVE  RelayInv'
  <2>1. dros' \subseteq dros
    BY <1>3 DEF OriginReceives
  <2>2. CASE ~HopByHop[m.reply.disc]
    BY <1>3, <2>1, <2>2, HopsStay DEF OriginReceives
  <2>3. CASE HopByHop[m.reply.disc]
    <3> DEFINE n == m.to
               t == Target[m.reply.disc]
               x == NodeAfter(m.reply, 0)
    <3>1. /\ m.reply \in Replies /\ n \in Nodes /\ n = Origin[m.reply.disc]
          /\ hop \in [Nodes -> [Nodes -> Nodes \cup {NoNode}]] /\ dros \subseteq Dro
      BY <1>3 DEF IInv, TypeOK, Dro, OriginReceives
    <3>2. t \in Nodes /\ AsksFor(n, t)
      BY <2>3, <3>1, ReplyFacts DEF AsksFor
    <3>3. hop' = [hop EXCEPT ![n] = [hop[n] EXCEPT ![t] = x]]
      BY <1>3, <2>3 DEF OriginReceives
    <3> HIDE DEF n, t, x
    <3>4. HopsOrdered' /\ \A u \in Nodes : RelaysIn(hop', u) = RelaysIn(hop, u)
      BY <3>1, <3>2, <3>3, OriginStores
    <3>5. ASSUME NEW q \in dros'
          PROVE  Behind(hop', q)
      BY <2>1, <3>1, <3>4, BehindStays DEF RelayInv, SendersRouted
    <3> QED
      BY <3>4, <3>5 DEF RelayInv, SendersRouted
  <2> QED
    BY <2>2, <2>3
<1>4. ASSUME NEW m \in dros, Lose(m)
      PROVE  RelayInv'
  BY <1>4, HopsStay DEF Lose, routing
<1>5. ASSUME NEW a \in acks, ReceiveAck(a)
      PROVE  RelayInv'
  BY <1>5, HopsStay DEF ReceiveAck, routing
<1>6. CASE UNCHANGED vars
  BY <1>6, HopsStay DEF vars
<1> QED
  BY <1>1, <1>2, <1>3, <1>4, <1>5, <1>6, RelayStores DEF Next, Receive

\* The next hops at the relays lead to the target within as many steps as there
\* are nodes, in every network and whatever replies cross, are lost, late or
\* repeated, provided that no relay asks for hop-by-hop routes to the same
\* target itself (dro_input).
THEOREM RelaysReachTargets ==
  ASSUME OriginsDoNotRelay
  PROVE  Spec => []RelayHopsReachTarget
<1>1. Init => RelayInv
  <2> SUFFICES ASSUME Init
               PROVE  RelayInv
    OBVIOUS
  <2>1. SendersRouted
    BY DEF Init, SendersRouted
  <2>2. ASSUME NEW t \in Nodes
        PROVE  \E rank \in RanksIn(hop, t) : OrderedBy(hop, t, rank)
    <3>1. RelaysIn(hop, t) = {}
      BY DEF Init, RelaysIn
    <3>2. [x \in {} |-> 1] \in RanksIn(hop, t)
      BY <3>1 DEF RanksIn
    <3> QED
      BY <3>1, <3>2 DEF OrderedBy
  <2> QED
    BY <2>1, <2>2 DEF RelayInv, HopsOrdered
<1>2. IInv /\ RelayInv /\ [Next]_vars => RelayInv'
  BY RelayInvStep
<1>3. ASSUME IInv, RelayInv
      PROVE  RelayHopsReachTarget
  <2> SUFFICES ASSUME NEW n \in Nodes, NEW t \in Nodes, hop[n][t] # NoNode,
                      \A d \in Discoveries : HopByHop[d] /\ Target[d] = t => Origin[d] # n
               PROVE  Walk(n, t) = t
    BY DEF RelayHopsReachTarget
  <2>1. n \in RelaysIn(hop, t)
    BY DEF RelaysIn, AsksFor
  <2>2. PICK rank \in RanksIn(hop, t) : OrderedBy(hop, t, rank)
    BY <1>3 DEF RelayInv, HopsOrdered
  <2> QED
    BY <1>3, <2>1, <2>2, WalkReaches DEF IInv, TypeOK
<1> QED
  BY <1>1, <1>2, <1>3, Invariance, PTL DEF Spec
=============================================================================
