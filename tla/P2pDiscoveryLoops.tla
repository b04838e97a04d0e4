-------------------------- MODULE P2pDiscoveryLoops --------------------------
(* No route of a discovery names a node twice while the metrics of links    *)
(* stay as they are and no stray memory is sent: for every network, any     *)
(* number of partial routes and any loss of DIOs.  The invariant says that path metrics fall along the   *)
(* routes from a relay to the origin and never rise.                        *)
EXTENDS P2pDiscoveryProofs

-----------------------------------------------------------------------------
(* The invariant.                                                           *)

\* A node that has taken part in the discovery.
Took(n) == dag[n].phase # "unknown" \/ n \in forgot

\* A relay is an active node other than the origin, and the other way round;
\* its preferred parent is a neighbour that has taken part.
RelaysLinked ==
  /\ \A n \in Node : IsRelay(n) =>
       /\ dag[n].phase = "active" /\ n # Origin
       /\ <<n, dag[n].preferred>> \in Link /\ Took(dag[n].preferred)
  /\ \A n \in Node \ {Origin} : dag[n].phase = "active" => IsRelay(n)

\* Every node named by a route has taken part, while no stray memory is sent.
NamesTook ==
  \A n \in Node : \A v \in dag[n].routes : \A i \in 1 .. Len(v) :
    v[i] \in Node \ {Origin} /\ Took(v[i])

\* No link is better than one ETX.
LinksCost == \A l \in Link : metric[l[1]][l[2]] >= Unit

\* While no link changes, path metrics only fall, by MinDiff at least: the
\* metric a node has advertised is no better than its path's, and what it has
\* recorded of its parent is that parent's path metric, or MinDiff worse.
ParentSeen(n) ==
  LET p == dag[n].preferred
  IN  /\ p = Origin => dag[n].pmc = 0
      /\ IsRelay(p) => PathMetric(p) = dag[n].pmc \/ PathMetric(p) + MinDiff <= dag[n].pmc
MetricsFall ==
  \A n \in Node : IsRelay(n) => PathMetric(n) <= dag[n].mc /\ ParentSeen(n)

\* A route names no node twice, and on the route of a relay to a node every
\* relay has a better path metric than the node itself.
Nearer(v, n) == IsRelay(n) =>
  \A i \in 1 .. Len(v) : IsRelay(v[i]) => PathMetric(v[i]) < PathMetric(n)
NoRepeat(w) == \A i, j \in 1 .. Len(w) : w[i] = w[j] => i = j
RoutesFall ==
  \A n \in Node : \A v \in dag[n].routes : NoRepeat(Append(v, n)) /\ Nearer(v, n)

LoopInv ==
  /\ faults = 0 => RelaysLinked /\ LinksCost /\ MetricsFall
  /\ faults = 0 /\ strayed = {} => NamesTook
  /\ faults = 0 /\ ~misjudged /\ strayed = {} => RoutesFall

-----------------------------------------------------------------------------
(* Types and sequences.                                                     *)

LEMMA PathMetricType ==
  ASSUME IInv, NEW n \in Node, IsRelay(n)
  PROVE  PathMetric(n) \in Nat /\ dag[n].pmc \in Nat /\ dag[n].preferred \in Node
<1>1. dag[n] \in DagState /\ metric[n] \in [Node -> Nat]
  BY DEF IInv, Typed
<1>2. dag[n].preferred \in Node /\ dag[n].pmc \in Nat
  BY <1>1 DEF IsRelay, DagState
<1> QED
  BY <1>1, <1>2 DEF PathMetric

LEMMA Prolonged ==
  ASSUME NEW w \in Seq(Address), NEW n \in Address, NoRepeat(w),
         \A i \in 1 .. Len(w) : w[i] # n
  PROVE  NoRepeat(Append(w, n))
<1>1. /\ Len(Append(w, n)) = Len(w) + 1 /\ Len(w) \in Nat
      /\ Append(w, n)[Len(w) + 1] = n
      /\ \A i \in 1 .. Len(w) : Append(w, n)[i] = w[i]
  OBVIOUS
<1>2. \A i \in 1 .. Len(w) + 1 : i \in 1 .. Len(w) \/ i = Len(w) + 1
  BY <1>1
<1> QED
  BY <1>1, <1>2 DEF NoRepeat

\* The cost a node advertises in a DIO.
Cost(m) == IF IsRelay(m) THEN PathMetric(m) ELSE 0

\* A vector that is not stray memory.
Proper(m, v) == v \in Vectors(m) /\ ~(v \in StrayVectors(m) \ StoredVectors(m))

\* The nodes a DIO names have taken part.
LEMMA SentNames ==
  ASSUME IInv, NamesTook, NEW m \in Node, dag[m].phase = "active",
         NEW v, Proper(m, v)
  PROVE  v \in Seq(Address) /\ \A i \in 1 .. Len(v) : v[i] \in Node \ {Origin} /\ Took(v[i])
<1>1. v \in Seq(Address)
  BY SentVectors DEF Vector, Proper
<1>2. Took(m)
  BY DEF Took
<1>3. CASE v = OwnHop(m)
  <2>1. CASE m = Origin
    BY <1>3, <2>1 DEF OwnHop
  <2>2. CASE m # Origin
    <3>1. v = <<m>> /\ Len(<<m>>) = 1 /\ <<m>>[1] = m
      BY <1>3, <2>2 DEF OwnHop
    <3> QED
      BY <1>1, <1>2, <2>2, <3>1
  <2> QED
    BY <2>1, <2>2
<1>4. ASSUME NEW u \in dag[m].routes, v = u \o OwnHop(m)
      PROVE  \A i \in 1 .. Len(v) : v[i] \in Node \ {Origin} /\ Took(v[i])
  <2>1. u \in Seq(Address) /\ m # Origin /\ m \in Address
    BY <1>4, VectorAssumption DEF IInv, Typed, DagState, Vector, OriginIsRoot
  <2>2. v = Append(u, m)
    BY <1>4, <2>1 DEF OwnHop
  <2>3. /\ Len(v) = Len(u) + 1 /\ Len(u) \in Nat /\ v[Len(u) + 1] = m
        /\ \A i \in 1 .. Len(u) : v[i] = u[i]
    BY <2>1, <2>2
  <2>4. \A i \in 1 .. Len(v) : i \in 1 .. Len(u) \/ i = Len(u) + 1
    BY <2>3
  <2> QED
    BY <1>2, <1>4, <2>1, <2>3, <2>4 DEF NamesTook
<1> QED
  BY <1>1, <1>3, <1>4 DEF Proper, Vectors, StoredVectors, UnusedVectors

\* The relays a DIO names are no further from the origin than its sender.
LEMMA SentRoutes ==
  ASSUME IInv, RelaysLinked, NamesTook, RoutesFall, NEW m \in Node, dag[m].phase = "active",
         NEW v, Proper(m, v)
  PROVE  /\ NoRepeat(v)
         /\ \A i \in 1 .. Len(v) : IsRelay(v[i]) => PathMetric(v[i]) <= Cost(m)
<1>1. m # Origin => IsRelay(m) /\ PathMetric(m) \in Nat /\ Cost(m) = PathMetric(m)
  BY PathMetricType DEF RelaysLinked, Cost
<1>2. CASE v = OwnHop(m)
  <2>1. CASE m = Origin
    BY <1>2, <2>1 DEF OwnHop, NoRepeat
  <2>2. CASE m # Origin
    <3>1. v = <<m>> /\ Len(<<m>>) = 1 /\ <<m>>[1] = m
      BY <1>2, <2>2 DEF OwnHop
    <3>2. \A i \in 1 .. Len(v) : i = 1
      BY <3>1
    <3>3. PathMetric(m) <= Cost(m)
      BY <1>1, <2>2
    <3> QED
      BY <3>1, <3>2, <3>3 DEF NoRepeat
  <2> QED
    BY <2>1, <2>2
<1>3. ASSUME NEW u \in dag[m].routes, v = u \o OwnHop(m)
      PROVE  /\ NoRepeat(v)
             /\ \A i \in 1 .. Len(v) : IsRelay(v[i]) => PathMetric(v[i]) <= Cost(m)
  <2>1. u \in Seq(Address) /\ m # Origin /\ m \in Address
    BY <1>3, VectorAssumption DEF IInv, Typed, DagState, Vector, OriginIsRoot
  <2>2. v = Append(u, m)
    BY <1>3, <2>1 DEF OwnHop
  <2>3. /\ Len(v) = Len(u) + 1 /\ Len(u) \in Nat /\ v[Len(u) + 1] = m
        /\ \A i \in 1 .. Len(u) : v[i] = u[i] /\ u[i] \in Node
    <3>1. \A i \in 1 .. Len(u) : u[i] \in Node
      BY <1>3 DEF NamesTook
    <3>2. /\ Len(v) = Len(u) + 1 /\ Len(u) \in Nat /\ v[Len(u) + 1] = m
          /\ \A i \in 1 .. Len(u) : v[i] = u[i]
      BY <2>1, <2>2
    <3> QED
      BY <3>1, <3>2
  <2>4. \A i \in 1 .. Len(v) : i \in 1 .. Len(u) \/ i = Len(u) + 1
    BY <2>3
  <2>5. NoRepeat(v) /\ Nearer(u, m)
    BY <1>3, <2>2 DEF RoutesFall
  <2>6. \A i \in 1 .. Len(u) : IsRelay(u[i]) =>
           PathMetric(u[i]) < PathMetric(m) /\ PathMetric(u[i]) \in Nat
    BY <1>1, <2>1, <2>3, <2>5, PathMetricType DEF Nearer
  <2>7. PathMetric(m) <= Cost(m)
    BY <1>1, <2>1
  <2>8. \A i \in 1 .. Len(u) : IsRelay(u[i]) => PathMetric(u[i]) <= Cost(m)
    BY <1>1, <2>1, <2>6
  <2> QED
    BY <2>3, <2>4, <2>5, <2>7, <2>8
<1> QED
  BY <1>2, <1>3 DEF Proper, Vectors, StoredVectors, UnusedVectors

-----------------------------------------------------------------------------
(* What hearing a DIO does to a node while no link changes.                 *)

\* n enters the discovery, with m as its parent.
Enters(n, m, v, t) ==
  /\ ~Took(n) /\ n # Origin /\ t.phase = "active"
  /\ t.preferred = m /\ t.pmc = Cost(m) /\ t.mc = Cost(m) + metric[n][m]
  /\ t.routes \subseteq {v}

\* The path of a relay improves, by MinDiff at least, and its route with it.
Improves(n, m, v, t) ==
  /\ IsRelay(n) /\ t.phase = dag[n].phase
  /\ t.preferred = m /\ t.pmc = Cost(m)
  /\ Cost(m) + metric[n][m] <= t.mc
  /\ Cost(m) + metric[n][m] + MinDiff <= PathMetric(n)
  /\ t.routes \subseteq {v}

\* The path of a relay stays, and so do its routes unless the DIO is as good
\* as the path, or the relay misjudges it.
Keeps(n, m, v, t) ==
  /\ IsRelay(n) /\ t.phase = dag[n].phase
  /\ t.preferred = dag[n].preferred /\ t.pmc = dag[n].pmc /\ t.mc = dag[n].mc
  /\ t.routes \subseteq dag[n].routes \cup {v}
  /\ t.routes # dag[n].routes /\ ~Outdated(n) => Cost(m) < PathMetric(n)

\* What SelectParent leaves of a relay's record.
LEMMA Selected ==
  ASSUME IInv, MetricsFall, NEW n \in Node, IsRelay(n), NEW m \in Node, NEW dio,
         dio.mc = Cost(m), Cost(m) \in Nat, NEW etx \in Nat, etx = metric[n][m],
         m = dag[n].preferred => IsRelay(m) \/ m = Origin
  PROVE  LET s == SelectParent(n, m, dio, etx)
         IN  /\ s \in DagState /\ s.routes = dag[n].routes /\ s.phase = dag[n].phase
             /\ \/ /\ s.preferred = m /\ s.pmc = Cost(m)
                   /\ Cost(m) + etx <= s.mc
                   /\ Cost(m) + etx + MinDiff <= PathMetric(n)
                \/ /\ s.preferred = dag[n].preferred /\ s.pmc = dag[n].pmc
                   /\ s.mc = dag[n].mc
                   /\ PathMetric(n) = Cost(m) + etx \/ ~Better(Cost(m) + etx, PathMetric(n))
<1> DEFINE s == SelectParent(n, m, dio, etx)
<1>1. /\ s \in DagState /\ s.routes = dag[n].routes /\ s.phase = dag[n].phase
      /\ dag[n] \in DagState
  BY SelectParentEffect DEF IInv, Typed
<1>2. /\ PathMetric(n) \in Nat /\ dag[n].mc \in Nat /\ dag[n].pmc \in Nat
      /\ PathMetric(n) <= dag[n].mc /\ ParentSeen(n)
  BY <1>1, PathMetricType DEF MetricsFall, DagState
<1>3. CASE m = dag[n].preferred
  <2>1. s.preferred = m /\ s.pmc = Cost(m) /\ s.mc = dag[n].mc
    BY <1>1, <1>3 DEF SelectParent, DagState
  <2>2. PathMetric(n) = dag[n].pmc + etx
    BY <1>3 DEF PathMetric
  <2>3. Cost(m) = dag[n].pmc \/ Cost(m) + MinDiff <= dag[n].pmc
    BY <1>2, <1>3 DEF ParentSeen, Cost, IInv, OriginIsRoot, IsRelay
  <2> HIDE DEF s
  <2> QED
    BY <1>1, <1>2, <1>3, <2>1, <2>2, <2>3 DEF MinDiff, s
<1>4. CASE m # dag[n].preferred /\ Better(Cost(m) + etx, PathMetric(n))
  <2>1. s = [dag[n] EXCEPT !.preferred = m, !.pmc = dio.mc, !.mc = dio.mc + etx]
    BY <1>4 DEF SelectParent
  <2>2. s.preferred = m /\ s.pmc = Cost(m) /\ s.mc = Cost(m) + etx
    BY <1>1, <2>1 DEF DagState
  <2> HIDE DEF s
  <2> QED
    BY <1>1, <1>2, <1>4, <2>2 DEF Better, s
<1>5. CASE m # dag[n].preferred /\ ~Better(Cost(m) + etx, PathMetric(n))
  <2>1. s = dag[n]
    BY <1>5 DEF SelectParent
  <2> HIDE DEF s
  <2> QED
    BY <1>1, <1>5, <2>1 DEF s
<1> QED
  BY <1>3, <1>4, <1>5

LEMMA WithRoutesFields ==
  ASSUME NEW s \in DagState, NEW R
  PROVE  LET t == WithRoutes(s, R)
         IN  /\ t.routes = R /\ t.phase = s.phase /\ t.preferred = s.preferred
             /\ t.pmc = s.pmc /\ t.mc = s.mc
BY DEF WithRoutes, DagState

LEMMA Considered ==
  ASSUME IInv, MetricsFall, NEW n \in Node, IsRelay(n), NEW m \in Node, NEW dio,
         dio.mc = Cost(m), Cost(m) \in Nat, NEW etx \in Nat, etx = metric[n][m],
         etx >= Unit, m = dag[n].preferred => IsRelay(m) \/ m = Origin,
         NEW full \in BOOLEAN
  PROVE  LET t == Consider(n, m, dio, etx, full)
         IN  Improves(n, m, dio.vector, t) \/ Keeps(n, m, dio.vector, t)
<1> DEFINE s == SelectParent(n, m, dio, etx)
           v == dio.vector
           y == Cost(m) + etx
           t == Consider(n, m, dio, etx, full)
<1>1. /\ s \in DagState /\ s.routes = dag[n].routes /\ s.phase = dag[n].phase
      /\ \/ /\ s.preferred = m /\ s.pmc = Cost(m)
            /\ y <= s.mc
            /\ y + MinDiff <= PathMetric(n)
         \/ /\ s.preferred = dag[n].preferred /\ s.pmc = dag[n].pmc
            /\ s.mc = dag[n].mc
            /\ PathMetric(n) = y \/ ~Better(y, PathMetric(n))
  BY Selected
<1>2. /\ PathMetric(n) \in Nat /\ dag[n].mc \in Nat /\ y \in Nat /\ s.mc \in Nat
      /\ PathMetric(n) <= dag[n].mc /\ Cost(m) < y /\ Cost(m) + Unit <= y
  BY <1>1, PathMetricType DEF MetricsFall, DagState, IInv, Typed, Unit
<1>3. t = IF Better(y, dag[n].mc) THEN WithRoutes(s, Replace(v, full))
          ELSE IF NotWorse(y, s.mc) THEN WithRoutes(s, AddRoute(s.routes, v, full))
          ELSE s
  BY DEF Consider, WithRoutes
<1>4. Replace(v, full) \subseteq {v} /\ AddRoute(s.routes, v, full) \subseteq s.routes \cup {v}
  BY DEF Replace, AddRoute
<1> HIDE DEF s, y, t
<1>5. /\ t.phase = s.phase /\ t.preferred = s.preferred /\ t.pmc = s.pmc /\ t.mc = s.mc
      /\ t.routes \subseteq s.routes \cup {v}
      /\ Better(y, dag[n].mc) => t.routes \subseteq {v}
      /\ ~Better(y, dag[n].mc) /\ ~NotWorse(y, s.mc) => t.routes = s.routes
  <2>1. \A R : LET r == WithRoutes(s, R)
               IN  /\ r.routes = R /\ r.phase = s.phase /\ r.preferred = s.preferred
                   /\ r.pmc = s.pmc /\ r.mc = s.mc
    BY <1>1, WithRoutesFields
  <2>2. CASE Better(y, dag[n].mc)
    BY <1>3, <1>4, <2>1, <2>2
  <2>3. CASE ~Better(y, dag[n].mc) /\ NotWorse(y, s.mc)
    BY <1>3, <1>4, <2>1, <2>3
  <2>4. CASE ~Better(y, dag[n].mc) /\ ~NotWorse(y, s.mc)
    BY <1>3, <2>4
  <2> QED
    BY <2>2, <2>3, <2>4
<1>6. CASE /\ s.preferred = m /\ s.pmc = Cost(m) /\ y <= s.mc
           /\ y + MinDiff <= PathMetric(n)
  <2>1. Better(y, dag[n].mc)
    BY <1>2, <1>6 DEF Better, MinDiff
  <2> QED
    BY <1>1, <1>5, <1>6, <2>1 DEF Improves, y, t
<1>7. CASE /\ s.preferred = dag[n].preferred /\ s.pmc = dag[n].pmc
           /\ s.mc = dag[n].mc
           /\ PathMetric(n) = y \/ ~Better(y, PathMetric(n))
  <2>1. ASSUME t.routes # dag[n].routes, ~Outdated(n)
        PROVE  Cost(m) < PathMetric(n)
    <3>1. dag[n].mc = PathMetric(n)
      BY <2>1 DEF Outdated
    <3>2. Better(y, PathMetric(n)) \/ NotWorse(y, PathMetric(n))
      BY <1>1, <1>5, <1>7, <2>1, <3>1
    <3>3. PathMetric(n) = y \/ y < PathMetric(n) + MinDiff
      BY <1>7, <3>2 DEF NotWorse
    <3>4. Cost(m) \in Nat
      OBVIOUS
    <3> QED
      BY <1>2, <3>3, <3>4 DEF MinDiff, Unit
  <2> QED
    BY <1>1, <1>5, <1>7, <2>1 DEF Keeps, t
<1> QED
  BY <1>1, <1>6, <1>7 DEF t

LEMMA Received ==
  ASSUME IInv, RelaysLinked, MetricsFall, LinksCost,
         NEW m \in Node, dag[m].phase = "active", NEW n \in Hearers(m),
         NEW dio, dio.mc = Cost(m), NEW full \in BOOLEAN
  PROVE  LET t == Receive(n, m, dio, full)
         IN  \/ t = dag[n]
             \/ Enters(n, m, dio.vector, t)
             \/ Improves(n, m, dio.vector, t)
             \/ Keeps(n, m, dio.vector, t)
<1>1. n \in Node /\ <<n, m>> \in Link
  BY DEF Hearers
<1>2. metric[n][m] \in Nat /\ metric[n][m] >= Unit
  BY <1>1 DEF LinksCost, IInv, Typed
<1>3. Cost(m) \in Nat /\ (IsRelay(m) \/ m = Origin)
  BY PathMetricType DEF Cost, RelaysLinked
<1>4. CASE dag[n].phase = "unknown"
  <2>1. Receive(n, m, dio, full) = Joined(m, dio, metric[n][m], full)
    BY <1>4 DEF Receive
  <2>2. n \notin forgot
    BY NobodyForgot
  <2>3. n # Origin
    BY <1>4, <2>2 DEF IInv, OriginIsRoot
  <2>4. LET t == Joined(m, dio, metric[n][m], full)
        IN  /\ t.phase = "active" /\ t.preferred = m /\ t.pmc = Cost(m)
            /\ t.mc = Cost(m) + metric[n][m] /\ t.routes \subseteq {dio.vector}
    BY DEF Joined, Replace
  <2> QED
    BY <1>4, <2>1, <2>2, <2>3, <2>4 DEF Enters, Took
<1>5. CASE dag[n].phase # "unknown" /\ IsRelay(n)
  <2>1. Receive(n, m, dio, full) = Consider(n, m, dio, metric[n][m], full)
    BY <1>5 DEF Receive
  <2> DEFINE etx == metric[n][m]
  <2>2. etx \in Nat /\ etx >= Unit /\ etx = metric[n][m]
    BY <1>2
  <2> HIDE DEF etx
  <2>3. LET t == Consider(n, m, dio, etx, full)
        IN  Improves(n, m, dio.vector, t) \/ Keeps(n, m, dio.vector, t)
    BY <1>1, <1>3, <1>5, <2>2, Considered
  <2> QED
    BY <2>1, <2>2, <2>3
<1>6. CASE dag[n].phase # "unknown" /\ ~IsRelay(n)
  BY <1>6 DEF Receive
<1> QED
  BY <1>4, <1>5, <1>6

-----------------------------------------------------------------------------
(* The steps.                                                               *)

\* What a DIO of m with the vector v does to the record of n.
Heard(n, m, v, t) ==
  /\ <<n, m>> \in Link /\ metric[n][m] >= Unit
  /\ Enters(n, m, v, t) \/ Improves(n, m, v, t) \/ Keeps(n, m, v, t)

\* The sender's own record: only the metric it advertises changes.
Sends(m, t) ==
  /\ t.phase = dag[m].phase /\ t.preferred = dag[m].preferred
  /\ t.pmc = dag[m].pmc /\ t.routes = dag[m].routes /\ t.mc = Cost(m)

LEMMA SendEffect ==
  ASSUME IInv, RelaysLinked, MetricsFall, LinksCost, NEW m \in Node, Send(m)
  PROVE  \E v \in Vectors(m) :
           /\ Sends(m, dag'[m])
           /\ \A n \in Node \ {m} :
                \/ dag'[n] = dag[n]
                \/ /\ Heard(n, m, v, dag'[n])
                   /\ Outdated(n) /\ dag'[n].routes # dag[n].routes => misjudged'
           /\ strayed' = {} => strayed = {} /\ Proper(m, v)
<1>1. PICK v \in Vectors(m), heard \in SUBSET {n \in Hearers(m) : InTime(n)} :
        \E full \in SUBSET (heard \cap Short) :
          LET dio == [mc |-> Refreshed(m).mc, vector |-> v]
          IN /\ dag' = [n \in Node |->
                  IF n = m THEN Refreshed(m)
                  ELSE IF n \in heard THEN Receive(n, m, dio, n \in full)
                  ELSE dag[n]]
             /\ misjudged' = (misjudged \/ \E n \in heard :
                  Outdated(n) /\ dag'[n].routes # dag[n].routes)
             /\ strayed' = IF v \in StrayVectors(m) \ StoredVectors(m)
                           THEN strayed \cup {m} ELSE strayed
  BY DEF Send
<1> DEFINE dio == [mc |-> Refreshed(m).mc, vector |-> v]
<1>2. dag[m] \in DagState /\ dag[m].phase = "active"
  BY DEF Send, IInv, Typed
<1>3. Sends(m, Refreshed(m))
  BY <1>2 DEF Sends, Refreshed, Cost, DagState
<1>4. dio.mc = Cost(m) /\ dio.vector = v
  BY <1>3 DEF Sends
<1>5. PICK full \in SUBSET (heard \cap Short) : \A n \in Node :
        dag'[n] = IF n = m THEN Refreshed(m)
                  ELSE IF n \in heard THEN Receive(n, m, dio, n \in full)
                  ELSE dag[n]
  BY <1>1
<1> HIDE DEF dio
<1>6. ASSUME NEW n \in Node \ {m}, n \in heard
      PROVE  \/ dag'[n] = dag[n]
             \/ /\ Heard(n, m, v, dag'[n])
                /\ Outdated(n) /\ dag'[n].routes # dag[n].routes => misjudged'
  <2>1. n \in Hearers(m) /\ <<n, m>> \in Link
    BY <1>1, <1>6 DEF Hearers
  <2>2. metric[n][m] >= Unit
    BY <2>1 DEF LinksCost
  <2>3. Outdated(n) /\ dag'[n].routes # dag[n].routes => misjudged'
    BY <1>1, <1>6
  <2> DEFINE f == n \in full
  <2>4. f \in BOOLEAN /\ dag'[n] = Receive(n, m, dio, f)
    BY <1>5, <1>6
  <2> HIDE DEF f
  <2>5. \/ dag'[n] = dag[n]
        \/ Enters(n, m, v, dag'[n])
        \/ Improves(n, m, v, dag'[n])
        \/ Keeps(n, m, v, dag'[n])
    BY <1>2, <1>4, <2>1, <2>4, Received
  <2> QED
    BY <2>1, <2>2, <2>3, <2>5 DEF Heard
<1>7. Sends(m, dag'[m])
  BY <1>3, <1>5
<1>8. strayed' = {} => strayed = {} /\ Proper(m, v)
  BY <1>1 DEF Proper
<1> QED
  BY <1>5, <1>6, <1>7, <1>8

\* The same of another record d of all nodes, with the same metrics.
RelayIn(d, n) == d[n].preferred # None
PathIn(d, n) == d[n].pmc + metric[n][d[n].preferred]
TookIn(d, n) == d[n].phase # "unknown" \/ n \in forgot
NearerIn(d, v, n) == RelayIn(d, n) =>
  \A i \in 1 .. Len(v) : RelayIn(d, v[i]) => PathIn(d, v[i]) < PathIn(d, n)
ParentSeenIn(d, n) ==
  LET p == d[n].preferred
  IN  /\ p = Origin => d[n].pmc = 0
      /\ RelayIn(d, p) => PathIn(d, p) = d[n].pmc \/ PathIn(d, p) + MinDiff <= d[n].pmc

\* What a DIO leaves of the facts about one node: relays stay relays, and
\* their path metrics stay or fall by MinDiff at least.
LEMMA AfterSend ==
  ASSUME IInv, RelaysLinked, MetricsFall, LinksCost, NEW m \in Node, Send(m),
         NEW v, Sends(m, dag'[m]), NEW x \in Node,
         x # m => dag'[x] = dag[x] \/ Heard(x, m, v, dag'[x])
  PROVE  /\ Took(x) => TookIn(dag', x) /\ (RelayIn(dag', x) <=> IsRelay(x))
         /\ IsRelay(x) => PathIn(dag', x) = PathMetric(x)
                          \/ PathIn(dag', x) + MinDiff <= PathMetric(x)
<1>1. UNCHANGED <<metric, forgot>> /\ dag[m].phase = "active" /\ m # None
  BY NodeAssumption DEF Send
<1>2. CASE /\ dag'[x].phase = dag[x].phase /\ dag'[x].preferred = dag[x].preferred
           /\ dag'[x].pmc = dag[x].pmc
  BY <1>1, <1>2 DEF Took, TookIn, IsRelay, RelayIn, PathMetric, PathIn
<1>3. CASE Enters(x, m, v, dag'[x])
  <2>1. ~Took(x) /\ ~IsRelay(x)
    BY <1>3 DEF Enters, RelaysLinked, Took, TookIn
  <2> QED
    BY <2>1
<1>4. CASE Improves(x, m, v, dag'[x])
  <2>1. PathIn(dag', x) = Cost(m) + metric[x][m]
    BY <1>1, <1>4 DEF Improves, PathMetric, PathIn
  <2> QED
    BY <1>1, <1>4, <2>1 DEF Improves, Took, TookIn, IsRelay, RelayIn
<1> QED
  BY <1>2, <1>3, <1>4 DEF Sends, Heard, Keeps

LEMMA SendLoopStep ==
  ASSUME IInv, IInv', RelaysLinked, MetricsFall, LinksCost, NEW m \in Node, Send(m)
  PROVE  /\ RelaysLinked' /\ LinksCost' /\ MetricsFall'
         /\ strayed' = {} => strayed = {}
         /\ NamesTook /\ strayed' = {} => NamesTook'
         /\ NamesTook /\ RoutesFall /\ ~misjudged' /\ strayed' = {} => RoutesFall'
<1>1. UNCHANGED <<metric, forgot>> /\ dag[m].phase = "active"
  BY DEF Send
<1>2. PICK v \in Vectors(m) :
        /\ Sends(m, dag'[m])
        /\ \A n \in Node \ {m} :
             \/ dag'[n] = dag[n]
             \/ /\ Heard(n, m, v, dag'[n])
                /\ Outdated(n) /\ dag'[n].routes # dag[n].routes => misjudged'
        /\ strayed' = {} => strayed = {} /\ Proper(m, v)
  BY SendEffect
<1>3. ASSUME NEW x \in Node
      PROVE  /\ Took(x) => TookIn(dag', x) /\ (RelayIn(dag', x) <=> IsRelay(x))
             /\ IsRelay(x) => PathIn(dag', x) = PathMetric(x)
                              \/ PathIn(dag', x) + MinDiff <= PathMetric(x)
  BY <1>2, AfterSend
<1>4. NamesTook /\ strayed' = {} =>
        v \in Seq(Address) /\ \A i \in 1 .. Len(v) : v[i] \in Node \ {Origin} /\ Took(v[i])
  BY <1>1, <1>2, SentNames
<1>5. Took(m) /\ (m = Origin \/ IsRelay(m)) /\ ~IsRelay(Origin) /\ m \in Node
  BY <1>1 DEF Took, TookIn, RelaysLinked, IInv, OriginIsRoot, IsRelay, RelayIn
<1>6. \A x \in Node : /\ IsRelay(x) => PathMetric(x) \in Nat /\ Took(x)
                      /\ RelayIn(dag', x) => PathIn(dag', x) \in Nat
  <2>1. ASSUME NEW x \in Node, RelayIn(dag', x)
        PROVE  PathIn(dag', x) \in Nat
    <3>1. dag'[x] \in DagState /\ metric[x] \in [Node -> Nat]
      BY DEF IInv, Typed
    <3>2. dag'[x].preferred \in Node /\ dag'[x].pmc \in Nat
      BY <2>1, <3>1 DEF IsRelay, RelayIn, DagState
    <3> QED
      BY <3>1, <3>2 DEF PathIn
  <2> QED
    BY <2>1, PathMetricType DEF RelaysLinked, Took, TookIn
<1>7. /\ Cost(m) \in Nat
      /\ m = Origin => Cost(m) = 0
      /\ IsRelay(m) => RelayIn(dag', m) /\ PathIn(dag', m) = Cost(m)
  <2>1. CASE m = Origin
    BY <1>5, <2>1 DEF Cost
  <2>2. CASE IsRelay(m)
    <3>1. Cost(m) = PathMetric(m) /\ Cost(m) \in Nat /\ m # Origin
      BY <1>5, <1>6, <2>2 DEF Cost
    <3>2. RelayIn(dag', m) /\ PathIn(dag', m) = PathMetric(m)
      BY <1>2, <2>2 DEF Sends, IsRelay, RelayIn, PathMetric, PathIn
    <3> QED
      BY <3>1, <3>2
  <2> QED
    BY <1>5, <2>1, <2>2
\* the record of a node x other than m
<1>8. ASSUME NEW x \in Node
      PROVE  \/ /\ dag'[x].phase = dag[x].phase /\ dag'[x].preferred = dag[x].preferred
                /\ dag'[x].pmc = dag[x].pmc /\ dag'[x].routes = dag[x].routes
                /\ dag'[x].mc = dag[x].mc \/ (x = m /\ dag'[x].mc = Cost(m))
             \/ /\ x # m /\ <<x, m>> \in Link /\ metric[x][m] >= Unit
                /\ Enters(x, m, v, dag'[x]) \/ Improves(x, m, v, dag'[x])
             \/ /\ x # m /\ Keeps(x, m, v, dag'[x])
                /\ Outdated(x) /\ dag'[x].routes # dag[x].routes => misjudged'
  BY <1>2 DEF Heard, Sends
<1>9. RelaysLinked'
  <2>1. ASSUME NEW x \in Node, RelayIn(dag', x)
        PROVE  /\ dag'[x].phase = "active" /\ x # Origin
               /\ <<x, dag'[x].preferred>> \in Link
               /\ dag'[x].preferred \in Node /\ Took(dag'[x].preferred)
    <3>1. CASE dag'[x].phase = dag[x].phase /\ dag'[x].preferred = dag[x].preferred
      <4>1. IsRelay(x)
        BY <2>1, <3>1 DEF IsRelay, RelayIn
      <4>2. dag[x].preferred \in Node
        BY <4>1, PathMetricType
      <4> QED
        BY <3>1, <4>1, <4>2 DEF RelaysLinked
    <3>2. CASE <<x, m>> \in Link /\ (Enters(x, m, v, dag'[x]) \/ Improves(x, m, v, dag'[x]))
      BY <1>5, <3>2 DEF Enters, Improves, RelaysLinked
    <3> QED
      BY <1>8, <3>1, <3>2 DEF Keeps
  <2>2. ASSUME NEW x \in Node \ {Origin}, dag'[x].phase = "active"
        PROVE  RelayIn(dag', x)
    <3>1. CASE dag'[x].phase = dag[x].phase /\ dag'[x].preferred = dag[x].preferred
      BY <2>2, <3>1 DEF RelaysLinked, IsRelay, RelayIn
    <3>2. CASE Enters(x, m, v, dag'[x]) \/ Improves(x, m, v, dag'[x])
      BY <1>5, <3>2, NodeAssumption DEF Enters, Improves, IsRelay, RelayIn
    <3> QED
      BY <1>8, <3>1, <3>2 DEF Keeps
  <2>3. \A x \in Node : RelayIn(dag', x) => TookIn(dag', dag'[x].preferred)
    BY <1>3, <2>1
  <2> QED
    BY <1>1, <2>1, <2>2, <2>3 DEF RelaysLinked, IsRelay, RelayIn, Took, TookIn
<1>10. ASSUME NamesTook, strayed' = {}
       PROVE  NamesTook'
  <2>1. ASSUME NEW x \in Node, NEW u \in dag'[x].routes, NEW i \in 1 .. Len(u)
        PROVE  u[i] \in Node \ {Origin} /\ TookIn(dag', u[i])
    <3>1. u \in dag[x].routes \/ u = v
      BY <1>8 DEF Enters, Improves, Keeps
    <3>2. u[i] \in Node \ {Origin} /\ Took(u[i])
      BY <1>4, <1>10, <3>1 DEF NamesTook
    <3> QED
      BY <1>3, <3>2
  <2> QED
    BY <1>1, <2>1 DEF NamesTook, Took, TookIn
<1>11. LinksCost'
  BY <1>1 DEF LinksCost
<1>12. MetricsFall'
  <2> SUFFICES ASSUME NEW x \in Node, RelayIn(dag', x)
               PROVE  PathIn(dag', x) <= dag'[x].mc /\ ParentSeenIn(dag', x)
    BY <1>1 DEF MetricsFall, IsRelay, RelayIn, PathMetric, PathIn, ParentSeen, ParentSeenIn
  <2>1. CASE Enters(x, m, v, dag'[x]) \/ Improves(x, m, v, dag'[x])
    <3>1. dag'[x].preferred = m /\ dag'[x].pmc = Cost(m)
      BY <2>1 DEF Enters, Improves
    <3>2. PathIn(dag', x) = Cost(m) + metric[x][m]
      BY <1>1, <3>1 DEF PathMetric, PathIn
    <3>3. PathIn(dag', x) <= dag'[x].mc
      BY <1>6, <2>1, <3>2 DEF Enters, Improves
    <3>4. RelayIn(dag', m) => PathIn(dag', m) = Cost(m)
      BY <1>3, <1>5, <1>7
    <3>5. ParentSeenIn(dag', x)
      BY <1>7, <3>1, <3>4 DEF ParentSeen, ParentSeenIn
    <3> QED
      BY <3>3, <3>5
  <2>2. CASE /\ dag'[x].preferred = dag[x].preferred /\ dag'[x].pmc = dag[x].pmc
             /\ dag'[x].mc = dag[x].mc \/ (x = m /\ dag'[x].mc = Cost(m))
    <3> DEFINE p == dag[x].preferred
    <3>1. IsRelay(x) /\ p \in Node /\ dag[x].pmc \in Nat /\ PathMetric(x) \in Nat
      BY <2>2, PathMetricType DEF IsRelay, RelayIn
    <3>2. PathIn(dag', x) = PathMetric(x)
      BY <1>1, <2>2 DEF PathMetric, PathIn
    <3>3. PathIn(dag', x) <= dag'[x].mc
      <4>1. CASE dag'[x].mc = dag[x].mc
        BY <3>1, <3>2, <4>1 DEF MetricsFall
      <4>2. CASE x = m /\ dag'[x].mc = Cost(m)
        BY <3>1, <3>2, <4>2 DEF Cost
      <4> QED
        BY <2>2, <4>1, <4>2
    <3>4. Took(p) /\ ParentSeen(x)
      BY <3>1 DEF RelaysLinked, MetricsFall
    <3>5. /\ p = Origin => dag[x].pmc = 0
          /\ IsRelay(p) => PathMetric(p) = dag[x].pmc \/ PathMetric(p) + MinDiff <= dag[x].pmc
      BY <3>4 DEF ParentSeen, ParentSeenIn
    <3> HIDE DEF p
    <3>6. RelayIn(dag', p) => IsRelay(p) /\ PathIn(dag', p) \in Nat /\ PathMetric(p) \in Nat
      BY <1>3, <1>6, <3>1, <3>4
    <3>7. RelayIn(dag', p) => PathIn(dag', p) = PathMetric(p)
                         \/ PathIn(dag', p) + MinDiff <= PathMetric(p)
      BY <1>3, <3>1, <3>6
    <3>8. RelayIn(dag', p) => PathIn(dag', p) = dag[x].pmc \/ PathIn(dag', p) + MinDiff <= dag[x].pmc
      BY <3>1, <3>5, <3>6, <3>7 DEF MinDiff
    <3>9. dag'[x].preferred = p /\ dag'[x].pmc = dag[x].pmc
      BY <2>2 DEF p
    <3>10. ParentSeenIn(dag', x)
      BY <3>5, <3>8, <3>9 DEF ParentSeen, ParentSeenIn
    <3> QED
      BY <3>3, <3>10
  <2> QED
    BY <1>8, <2>1, <2>2 DEF Keeps
<1>13. ASSUME NamesTook, RoutesFall, ~misjudged', strayed' = {}
       PROVE  RoutesFall'
  <2>1. /\ NoRepeat(v)
        /\ \A i \in 1 .. Len(v) : IsRelay(v[i]) => PathMetric(v[i]) <= Cost(m)
    BY <1>1, <1>2, <1>13, SentRoutes
  \* a route of x that stays
  <2>2. ASSUME NEW x \in Node, NEW u \in dag[x].routes,
               RelayIn(dag', x) => IsRelay(x) /\ PathIn(dag', x) = PathMetric(x)
        PROVE  NoRepeat(Append(u, x)) /\ NearerIn(dag', u, x)
    <3>1. NoRepeat(Append(u, x)) /\ Nearer(u, x)
      BY <1>13 DEF RoutesFall
    <3>2. ASSUME RelayIn(dag', x), NEW i \in 1 .. Len(u), RelayIn(dag', u[i])
          PROVE  PathIn(dag', u[i]) < PathIn(dag', x)
      <4>1. u[i] \in Node /\ Took(u[i])
        BY <1>13 DEF NamesTook
      <4>2. /\ IsRelay(u[i]) /\ PathMetric(u[i]) \in Nat /\ PathIn(dag', u[i]) \in Nat
            /\ PathIn(dag', u[i]) = PathMetric(u[i])
               \/ PathIn(dag', u[i]) + MinDiff <= PathMetric(u[i])
        BY <1>3, <1>6, <3>2, <4>1
      <4>3. PathMetric(u[i]) < PathMetric(x) /\ PathMetric(x) \in Nat
        BY <1>6, <2>2, <3>1, <3>2, <4>2 DEF Nearer, NearerIn
      <4> QED
        BY <2>2, <3>2, <4>2, <4>3 DEF MinDiff
    <3> QED
      BY <3>1, <3>2 DEF Nearer, NearerIn, IsRelay, RelayIn, PathMetric, PathIn
  \* the route that the DIO brings
  <2>3. ASSUME NEW x \in Node, RelayIn(dag', x), Cost(m) < PathIn(dag', x),
               \A i \in 1 .. Len(v) : v[i] # x
        PROVE  NoRepeat(Append(v, x)) /\ NearerIn(dag', v, x)
    <3>1. NoRepeat(Append(v, x))
      BY <1>4, <1>13, <2>1, <2>3, Prolonged, VectorAssumption
    <3>2. ASSUME NEW i \in 1 .. Len(v), RelayIn(dag', v[i])
          PROVE  PathIn(dag', v[i]) < PathIn(dag', x)
      <4>1. v[i] \in Node /\ Took(v[i])
        BY <1>4, <1>13
      <4>2. /\ IsRelay(v[i]) /\ PathMetric(v[i]) \in Nat /\ PathIn(dag', v[i]) \in Nat
            /\ PathIn(dag', v[i]) = PathMetric(v[i])
               \/ PathIn(dag', v[i]) + MinDiff <= PathMetric(v[i])
        BY <1>3, <1>6, <3>2, <4>1
      <4>3. PathMetric(v[i]) <= Cost(m) /\ Cost(m) \in Nat /\ PathIn(dag', x) \in Nat
        BY <1>6, <1>7, <2>1, <2>3, <4>2
      <4> QED
        BY <2>3, <4>2, <4>3 DEF MinDiff
    <3> QED
      BY <3>1, <3>2 DEF Nearer, NearerIn, IsRelay, RelayIn, PathMetric, PathIn
  \* no node of the route it brings stores it
  <2>4. ASSUME NEW x \in Node, ~Took(x) \/ (IsRelay(x) /\ Cost(m) < PathMetric(x))
        PROVE  \A i \in 1 .. Len(v) : v[i] # x
    BY <1>4, <1>6, <1>7, <1>13, <2>1, <2>4
  <2>5. ASSUME NEW x \in Node, NEW u \in dag'[x].routes
        PROVE  NoRepeat(Append(u, x)) /\ NearerIn(dag', u, x)
    <3>1. CASE Enters(x, m, v, dag'[x]) /\ metric[x][m] >= Unit
      <4>1. dag'[x].preferred = m /\ dag'[x].pmc = Cost(m) /\ u = v /\ ~Took(x)
        BY <2>5, <3>1 DEF Enters
      <4>2. RelayIn(dag', x) /\ PathIn(dag', x) = Cost(m) + metric[x][m]
        BY <1>1, <1>5, <4>1, NodeAssumption DEF IsRelay, RelayIn, PathMetric, PathIn
      <4>3. metric[x][m] \in Nat
        BY DEF IInv, Typed
      <4>4. Cost(m) < PathIn(dag', x)
        BY <1>7, <3>1, <4>2, <4>3 DEF Unit
      <4> QED
        BY <2>3, <2>4, <4>1, <4>2, <4>4
    <3>2. CASE Improves(x, m, v, dag'[x]) /\ metric[x][m] >= Unit
      <4>1. /\ dag'[x].preferred = m /\ dag'[x].pmc = Cost(m) /\ u = v /\ IsRelay(x)
            /\ Cost(m) + metric[x][m] + MinDiff <= PathMetric(x)
        BY <2>5, <3>2 DEF Improves
      <4>2. RelayIn(dag', x) /\ PathIn(dag', x) = Cost(m) + metric[x][m]
        BY <1>1, <1>5, <4>1, NodeAssumption DEF IsRelay, RelayIn, PathMetric, PathIn
      <4>3. metric[x][m] \in Nat /\ PathMetric(x) \in Nat
        BY <1>6, <4>1 DEF IInv, Typed
      <4>4. Cost(m) < PathIn(dag', x) /\ Cost(m) < PathMetric(x)
        BY <1>7, <3>2, <4>1, <4>2, <4>3 DEF Unit, MinDiff
      <4> QED
        BY <2>3, <2>4, <4>1, <4>2, <4>4
    <3>3. CASE /\ dag'[x].preferred = dag[x].preferred /\ dag'[x].pmc = dag[x].pmc
               /\ \/ dag'[x].routes = dag[x].routes
                  \/ /\ Keeps(x, m, v, dag'[x])
                     /\ Outdated(x) /\ dag'[x].routes # dag[x].routes => misjudged'
      <4>1. (RelayIn(dag', x) <=> IsRelay(x)) /\ PathIn(dag', x) = PathMetric(x)
        BY <1>1, <3>3 DEF IsRelay, RelayIn, PathMetric, PathIn
      <4>2. CASE u \in dag[x].routes
        BY <2>2, <4>1, <4>2
      <4>3. CASE u \notin dag[x].routes
        <5>1. u = v /\ IsRelay(x) /\ Cost(m) < PathMetric(x)
          BY <1>13, <2>5, <3>3, <4>3 DEF Keeps
        <5> QED
          BY <2>3, <2>4, <4>1, <5>1
      <4> QED
        BY <4>2, <4>3
    <3> QED
      BY <1>8, <3>1, <3>2, <3>3 DEF Keeps
  <2> QED
    BY <1>1, <2>5 DEF RoutesFall, Nearer, NearerIn, IsRelay, RelayIn, PathMetric, PathIn
<1> QED
  BY <1>2, <1>9, <1>11, <1>12, <1>13, <1>10

\* What the periodic timer leaves of a record: all that counts here, or less.
SameRecord(s, t) ==
  /\ t.phase = s.phase /\ t.preferred = s.preferred /\ t.pmc = s.pmc
  /\ t.mc = s.mc /\ t.routes = s.routes
Releases(s, t) ==
  t.phase # "active" /\ t.preferred = None /\ t.routes \subseteq s.routes

LEMMA PurgedRecord ==
  ASSUME NEW s \in DagState
  PROVE  SameRecord(s, Purged(s)) \/ Releases(s, Purged(s))
<1>1. CASE s.left > 1
  <2>1. Purged(s) = [s EXCEPT !.left = s.left - 1]
    BY <1>1 DEF Purged
  <2> QED
    BY <2>1 DEF DagState, SameRecord
<1>2. CASE ~(s.left > 1) /\ s.phase = "active"
  <2>1. Purged(s) = [s EXCEPT !.phase = "expired", !.left = KeepTime, !.preferred = None]
    BY <1>2 DEF Purged
  <2> QED
    BY <2>1 DEF DagState, Releases
<1>3. CASE ~(s.left > 1) /\ s.phase # "active"
  <2>1. Purged(s) = Blank
    BY <1>3 DEF Purged
  <2> QED
    BY <2>1 DEF Blank, Releases
<1> QED
  BY <1>1, <1>2, <1>3

LEMMA PeriodicLoopStep ==
  ASSUME IInv, NEW m \in Node, Periodic(m)
  PROVE  /\ LinksCost => LinksCost'
         /\ RelaysLinked => RelaysLinked'
         /\ RelaysLinked /\ MetricsFall => MetricsFall'
         /\ NamesTook => NamesTook'
         /\ NamesTook /\ RoutesFall => RoutesFall'
<1>1. /\ UNCHANGED <<metric, faults, strayed, misjudged>>
      /\ dag' = [dag EXCEPT ![m] = Purged(dag[m])]
      /\ forgot' = IF dag[m].phase # "unknown" /\ dag'[m].phase = "unknown"
                   THEN forgot \cup {m} ELSE forgot
  BY DEF Periodic
<1>2. dag \in [Node -> DagState]
  BY DEF IInv, Typed
<1>3. ASSUME NEW x \in Node
      PROVE  SameRecord(dag[x], dag'[x]) \/ Releases(dag[x], dag'[x])
  <2>1. CASE x = m
    BY <1>1, <1>2, <2>1, PurgedRecord
  <2>2. CASE x # m
    BY <1>1, <1>2, <2>2 DEF SameRecord
  <2> QED
    BY <2>1, <2>2
<1>4. ASSUME NEW x \in Node, Took(x)
      PROVE  dag'[x].phase # "unknown" \/ x \in forgot'
  <2>1. CASE x = m
    BY <1>1, <1>4, <2>1 DEF Took
  <2>2. CASE x # m
    BY <1>1, <1>2, <1>4, <2>2 DEF Took
  <2> QED
    BY <2>1, <2>2
\* a relay after the step was one before it, with the same path
<1>5. ASSUME NEW x \in Node, RelayIn(dag', x)
      PROVE  IsRelay(x) /\ SameRecord(dag[x], dag'[x]) /\ PathIn(dag', x) = PathMetric(x)
  BY <1>3, <1>5 DEF IsRelay, RelayIn, SameRecord, Releases, PathMetric, PathIn
<1>6. ASSUME NEW x \in Node
      PROVE  dag'[x].routes \subseteq dag[x].routes
  BY <1>3 DEF SameRecord, Releases
<1>7. ASSUME RelaysLinked
      PROVE  RelaysLinked'
  <2>1. ASSUME NEW x \in Node, RelayIn(dag', x)
        PROVE  /\ dag'[x].phase = "active" /\ x # Origin
               /\ <<x, dag'[x].preferred>> \in Link
               /\ dag'[x].preferred \in Node /\ Took(dag'[x].preferred)
    <3>1. IsRelay(x) /\ SameRecord(dag[x], dag'[x])
      BY <1>5, <2>1
    <3> QED
      BY <1>7, <3>1, PathMetricType DEF RelaysLinked, SameRecord
  <2>2. ASSUME NEW x \in Node \ {Origin}, dag'[x].phase = "active"
        PROVE  RelayIn(dag', x)
    BY <1>3, <1>7, <2>2 DEF RelaysLinked, SameRecord, Releases, IsRelay, RelayIn
  <2>3. \A x \in Node : RelayIn(dag', x) =>
           dag'[dag'[x].preferred].phase # "unknown" \/ dag'[x].preferred \in forgot'
    BY <1>4, <2>1
  <2> QED
    BY <2>1, <2>2, <2>3 DEF RelaysLinked, IsRelay, RelayIn, Took
<1>8. ASSUME NamesTook
       PROVE  NamesTook'
  <2>1. ASSUME NEW x \in Node, NEW u \in dag'[x].routes, NEW i \in 1 .. Len(u)
        PROVE  /\ u[i] \in Node \ {Origin}
               /\ dag'[u[i]].phase # "unknown" \/ u[i] \in forgot'
    <3>1. u[i] \in Node \ {Origin} /\ Took(u[i])
      BY <1>6, <1>8 DEF NamesTook
    <3> QED
      BY <1>4, <3>1
  <2> QED
    BY <2>1 DEF NamesTook, Took
<1>9. ASSUME RelaysLinked, MetricsFall
      PROVE  MetricsFall'
  <2> SUFFICES ASSUME NEW x \in Node, RelayIn(dag', x)
               PROVE  PathIn(dag', x) <= dag'[x].mc /\ ParentSeenIn(dag', x)
    BY <1>1 DEF MetricsFall, IsRelay, RelayIn, PathMetric, PathIn, ParentSeen, ParentSeenIn
  <2> DEFINE p == dag[x].preferred
  <2>1. IsRelay(x) /\ SameRecord(dag[x], dag'[x]) /\ PathIn(dag', x) = PathMetric(x)
    BY <1>5
  <2>2. PathMetric(x) <= dag[x].mc /\ ParentSeen(x) /\ p \in Node
    BY <1>9, <2>1, PathMetricType DEF MetricsFall
  <2>3. RelayIn(dag', p) => IsRelay(p) /\ PathIn(dag', p) = PathMetric(p)
    BY <1>5, <2>2
  <2>4. dag'[x].preferred = p /\ dag'[x].pmc = dag[x].pmc /\ dag'[x].mc = dag[x].mc
    BY <2>1 DEF SameRecord
  <2>5. /\ p = Origin => dag[x].pmc = 0
        /\ IsRelay(p) => PathMetric(p) = dag[x].pmc \/ PathMetric(p) + MinDiff <= dag[x].pmc
    BY <2>2 DEF ParentSeen
  <2> HIDE DEF p
  <2>6. ParentSeenIn(dag', x)
    BY <2>3, <2>4, <2>5 DEF ParentSeenIn
  <2> QED
    BY <2>1, <2>2, <2>4, <2>6
<1>10. ASSUME NamesTook, RoutesFall
      PROVE  RoutesFall'
  <2>1. ASSUME NEW x \in Node, NEW u \in dag'[x].routes
        PROVE  NoRepeat(Append(u, x)) /\ NearerIn(dag', u, x)
    <3>1. u \in dag[x].routes /\ NoRepeat(Append(u, x)) /\ Nearer(u, x)
      BY <1>6, <1>10 DEF RoutesFall
    <3>2. ASSUME RelayIn(dag', x), NEW i \in 1 .. Len(u), RelayIn(dag', u[i])
          PROVE  PathIn(dag', u[i]) < PathIn(dag', x)
      <4>1. u[i] \in Node
        BY <1>10, <3>1 DEF NamesTook
      <4>2. /\ IsRelay(u[i]) /\ PathIn(dag', u[i]) = PathMetric(u[i])
            /\ IsRelay(x) /\ PathIn(dag', x) = PathMetric(x)
        BY <1>5, <3>2, <4>1
      <4>3. PathMetric(u[i]) < PathMetric(x)
        BY <3>1, <4>2 DEF Nearer
      <4> QED
        BY <4>2, <4>3
    <3> QED
      BY <3>1, <3>2 DEF NearerIn
  <2> QED
    BY <1>1, <2>1 DEF RoutesFall, Nearer, NearerIn, IsRelay, RelayIn, PathMetric, PathIn
<1>11. LinksCost => LinksCost'
  BY <1>1 DEF LinksCost
<1> QED
  BY <1>7, <1>9, <1>10, <1>11, <1>8

-----------------------------------------------------------------------------
(* The invariant.                                                           *)

LEMMA LoopInit ==
  ASSUME Init
  PROVE  LoopInv
<1>1. /\ Blank.phase = "unknown" /\ Blank.routes = {} /\ Blank.preferred = None
      /\ OriginState.routes = {} /\ OriginState.preferred = None
  BY DEF Blank, OriginState
<1>2. \A n \in Node : dag[n].routes = {} /\ ~IsRelay(n)
  BY <1>1 DEF Init, IsRelay
<1>3. \A n \in Node \ {Origin} : dag[n].phase = "unknown"
  BY <1>1 DEF Init
<1>4. RelaysLinked /\ NamesTook /\ MetricsFall /\ RoutesFall
  BY <1>2, <1>3 DEF RelaysLinked, NamesTook, MetricsFall, RoutesFall
<1>5. PICK f \in Metrics : metric = [n \in Node |-> [m \in Node |->
                               IF <<n, m>> \in Link THEN f[<<n, m>>] ELSE Unit]]
  BY DEF Init
<1>6. LinksCost
  <2> SUFFICES ASSUME NEW l \in Link
               PROVE  metric[l[1]][l[2]] >= Unit
    BY DEF LinksCost
  <2>1. l[1] \in Node /\ l[2] \in Node /\ l = <<l[1], l[2]>>
    BY LinkAssumption
  <2>2. metric[l[1]][l[2]] = f[l]
    BY <1>5, <2>1
  <2>3. f[l] \in Etx[l]
    BY <1>5 DEF Metrics
  <2> QED
    BY <2>2, <2>3, EtxAssumption
<1> QED
  BY <1>4, <1>6 DEF LoopInv

LEMMA LoopStep ==
  ASSUME IInv, IInv', LoopInv, [Next]_vars
  PROVE  LoopInv'
<1>1. ASSUME NEW m \in Node, Send(m)
      PROVE  LoopInv'
  <2>1. faults' = faults
    BY <1>1 DEF Send
  <2>2. misjudged \in BOOLEAN /\ (misjudged => misjudged')
    BY <1>1 DEF IInv, Typed, Send
  <2>3. faults = 0 => RelaysLinked' /\ LinksCost' /\ MetricsFall'
    BY <1>1, SendLoopStep DEF LoopInv
  <2>4. faults = 0 /\ strayed' = {} => NamesTook' /\ NamesTook /\ strayed = {}
    BY <1>1, SendLoopStep DEF LoopInv
  <2>5. faults = 0 /\ ~misjudged' /\ strayed' = {} => RoutesFall'
    BY <1>1, <2>2, <2>4, SendLoopStep DEF LoopInv
  <2> QED
    BY <2>1, <2>3, <2>4, <2>5 DEF LoopInv
<1>2. ASSUME NEW m \in Node, Periodic(m)
      PROVE  LoopInv'
  <2>1. faults' = faults /\ misjudged' = misjudged /\ strayed' = strayed
    BY <1>2 DEF Periodic
  <2> QED
    BY <1>2, <2>1, PeriodicLoopStep DEF LoopInv
<1>3. ASSUME NEW n, NEW m, NEW e, LinkFeedback(n, m, e)
      PROVE  LoopInv'
  <2>1. faults \in Nat /\ faults' = faults + 1
    BY <1>3, SizesAssumption DEF LinkFeedback, IInv, Typed
  <2>2. faults' # 0
    BY <2>1
  <2> QED
    BY <2>2 DEF LoopInv
<1>4. CASE UNCHANGED vars
  BY <1>4 DEF vars, history, LoopInv, RelaysLinked, NamesTook, LinksCost, MetricsFall, ParentSeen,
              RoutesFall, Nearer, PathMetric, IsRelay, Took
<1> QED
  BY <1>1, <1>2, <1>3, <1>4 DEF Next

LEMMA LoopInvariance == Spec => []LoopInv
<1>1. Init => LoopInv
  BY LoopInit
<1>2. IInv /\ IInv' /\ LoopInv /\ [Next]_vars => LoopInv'
  BY LoopStep
<1> QED
  BY <1>1, <1>2, Invariance, PTL DEF Spec

\* No address vector names a node twice, or the node that stores it, as long as
\* no link has changed, no node has judged a DIO by an outdated metric and no
\* stray memory was sent: every hop back would raise the path metric, which
\* p2p_route_cmp rejects, and a node without a metric, which has forgotten the
\* discovery, hears nobody any more (rpl_process_dio, p2p_route_cmp,
\* update_metric_container, rpl_p2p_purge_dags).
THEOREM RoutesDoNotLoop == Spec => []NoLoops
<1>1. ASSUME IInv, LoopInv, faults = 0, ~misjudged, strayed = {},
             NEW n \in Node \ {Origin}, NEW v \in dag[n].routes
      PROVE  \A i, j \in 1 .. Len(v) + 1 : Append(v, n)[i] = Append(v, n)[j] => i = j
  <2>1. v \in Seq(Address)
    BY <1>1 DEF IInv, Typed, DagState, Vector
  <2>2. Len(Append(v, n)) = Len(v) + 1
    BY <2>1, VectorAssumption
  <2>3. NoRepeat(Append(v, n))
    BY <1>1 DEF LoopInv, RoutesFall
  <2> QED
    BY <2>2, <2>3 DEF NoRepeat
<1>2. IInv /\ LoopInv => NoLoops
  BY <1>1 DEF NoLoops
<1> QED
  BY <1>2, Invariance, LoopInvariance, PTL

=============================================================================
