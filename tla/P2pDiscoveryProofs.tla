-------------------------- MODULE P2pDiscoveryProofs --------------------------
(* Theorems about the spreading of a discovery, for every network, any link *)
(* metrics and lifetimes, and any number of partial routes.                 *)
EXTENDS P2pDiscovery, TLAPS, FiniteSetTheorems

-----------------------------------------------------------------------------
(* The inductive invariant.                                                 *)

RoutesFit == \A n \in Node :
  IsFiniteSet(dag[n].routes) /\ Cardinality(dag[n].routes) <= NPartial

Typed ==
  /\ dag \in [Node -> DagState]
  /\ metric \in [Node -> [Node -> Nat]]
  /\ ahead \subseteq Node /\ age \in 0 .. MaxAge
  /\ faults \in 0 .. MaxFaults
  /\ forgot \subseteq Node /\ truncated \subseteq Node /\ strayed \subseteq Node
  /\ misjudged \in BOOLEAN

\* Seconds that the periodic timer of n has counted.
Elapsed(n) == age + IF n \in ahead THEN 1 ELSE 0

\* What is left of a record tells when it was made: an active node has joined
\* in the first seconds, and an expired record has been active before.
RecordsTimed == \A n \in Node :
  /\ dag[n].phase = "active" =>
       dag[n].left >= 1 /\ dag[n].left + Elapsed(n) \in Lifetime .. MaxAge
  /\ dag[n].phase = "expired" =>
       age = MaxAge \/ dag[n].left + Elapsed(n) >= Lifetime + KeepTime

\* By the time a node forgets the discovery nobody takes part in it any more.
ForgetsLate ==
  /\ \A n \in forgot : dag[n].phase = "unknown"
  /\ forgot # {} => age = MaxAge

\* The origin is the root of the discovery and does not enter it again.
OriginIsRoot ==
  /\ dag[Origin].preferred = None /\ dag[Origin].routes = {}
  /\ dag[Origin].phase = "unknown" => Origin \in forgot

IInv ==
  /\ Typed
  /\ RoutesFit
  /\ RecordsTimed
  /\ ForgetsLate
  /\ OriginIsRoot
  /\ VectorsArePaths

\* What a step may do to the phase of a node's record.
Ages(p, q) ==
  \/ q = p
  \/ p = "unknown" /\ q = "active"
  \/ p = "active" /\ q = "expired"
  \/ p = "expired" /\ q = "unknown"

PhasesAge == \A n \in Node \ {Origin} : Ages(dag[n].phase, dag'[n].phase)

-----------------------------------------------------------------------------
(* Vectors.                                                                 *)

\* IsPath(v, n), with any sets T and U of nodes for truncated and strayed.
PathFrom(v, n, T, U) ==
  LET w == Append(v, n)
  IN \E k \in 1 .. Len(v) + 1 :
       /\ \/ k = 1 /\ (<<w[1], Origin>> \in Link \/ w[1] \in T)
          \/ w[k] \in U
       /\ \A i \in k .. Len(v) : <<w[i + 1], w[i]>> \in Link

\* A path is prolonged by the node that stores it.
LEMMA PathProlonged ==
  ASSUME NEW n \in Node, NEW m \in Node, <<n, m>> \in Link,
         NEW T, NEW U, NEW v \in Vector, PathFrom(v, m, T, U)
  PROVE  v \o <<m>> \in Vector /\ PathFrom(v \o <<m>>, n, T, U)
<1> DEFINE u == v \o <<m>>
           w == Append(u, n)
           x == Append(v, m)
<1>1. v \in Seq(Address) /\ Len(v) \in Nat /\ m \in Address /\ n \in Address
  BY VectorAssumption DEF Vector
<1>2. u \in Seq(Address) /\ u = x /\ Len(u) = Len(v) + 1
  BY <1>1
<1>3. w \in Seq(Address) /\ Len(w) = Len(v) + 2 /\ w[Len(v) + 2] = n /\ w[Len(v) + 1] = m
      /\ \A i \in 1 .. Len(v) + 1 : w[i] = x[i]
  BY <1>1, <1>2
<1>4. PICK k \in 1 .. Len(v) + 1 :
        /\ \/ k = 1 /\ (<<x[1], Origin>> \in Link \/ x[1] \in T)
           \/ x[k] \in U
        /\ \A i \in k .. Len(v) : <<x[i + 1], x[i]>> \in Link
  BY DEF PathFrom
<1>5. ASSUME NEW i \in k .. Len(u)
      PROVE  <<w[i + 1], w[i]>> \in Link
  <2>1. CASE i = Len(v) + 1
    <3>1. w[i + 1] = n /\ w[i] = m
      BY <1>1, <1>3, <2>1
    <3> QED
      BY <3>1
  <2>2. CASE i # Len(v) + 1
    <3>1. i \in k .. Len(v) /\ i + 1 \in 1 .. Len(v) + 1 /\ i \in 1 .. Len(v) + 1
      BY <1>1, <1>2, <2>2
    <3>2. w[i + 1] = x[i + 1] /\ w[i] = x[i]
      BY <1>3, <3>1
    <3> QED
      BY <1>4, <3>1, <3>2
  <2> QED
    BY <2>1, <2>2
<1>6. w[1] = x[1] /\ w[k] = x[k] /\ k \in 1 .. Len(u) + 1
  BY <1>1, <1>2, <1>3
<1> HIDE DEF w, x
<1>7. PathFrom(u, n, T, U)
  <2> SUFFICES \E j \in 1 .. Len(u) + 1 :
                 /\ \/ j = 1 /\ (<<w[1], Origin>> \in Link \/ w[1] \in T)
                    \/ w[j] \in U
                 /\ \A i \in j .. Len(u) : <<w[i + 1], w[i]>> \in Link
    BY DEF PathFrom, w
  <2> WITNESS k \in 1 .. Len(u) + 1
  <2> QED
    BY <1>4, <1>5, <1>6
<1> QED
  BY <1>2, <1>7 DEF Vector

\* The empty vector, which the origin sends.
LEMMA EmptyPath ==
  ASSUME NEW n \in Node, <<n, Origin>> \in Link, NEW T, NEW U
  PROVE  <<>> \in Vector /\ PathFrom(<<>>, n, T, U)
<1>1. <<>> \in Seq(Address)
  OBVIOUS
<1>2. Append(<<>>, n)[1] = n /\ Len(<<>>) = 0
  OBVIOUS
<1> QED
  BY <1>1, <1>2 DEF Vector, PathFrom

\* A list g and the address of its sender m, which counts as the beginning.
LEMMA PathFromSender ==
  ASSUME NEW n \in Node, NEW m \in Node, <<n, m>> \in Link, NEW g \in Vector,
         NEW T, NEW U, m \in U \/ (g = <<>> /\ m \in T)
  PROVE  g \o <<m>> \in Vector /\ PathFrom(g \o <<m>>, n, T, U)
<1> DEFINE u == g \o <<m>>
           w == Append(u, n)
           k == Len(g) + 1
<1>1. g \in Seq(Address) /\ Len(g) \in Nat /\ m \in Address /\ n \in Address
  BY VectorAssumption DEF Vector
<1>2. u \in Seq(Address) /\ Len(u) = k /\ k \in 1 .. Len(u) + 1
  BY <1>1
<1>3. w[k] = m /\ w[k + 1] = n
  BY <1>1, <1>2
<1>4. g = <<>> => k = 1
  OBVIOUS
<1> HIDE DEF w, k
<1>5. \A i \in k .. Len(u) : <<w[i + 1], w[i]>> \in Link
  BY <1>2, <1>3
<1>6. PathFrom(u, n, T, U)
  <2> SUFFICES \E j \in 1 .. Len(u) + 1 :
                 /\ \/ j = 1 /\ (<<w[1], Origin>> \in Link \/ w[1] \in T)
                    \/ w[j] \in U
                 /\ \A i \in j .. Len(u) : <<w[i + 1], w[i]>> \in Link
    BY DEF PathFrom, w
  <2> QED
    BY <1>2, <1>3, <1>4, <1>5
<1> QED
  BY <1>2, <1>6 DEF Vector

-----------------------------------------------------------------------------
(* The operators on the record of a node.                                   *)

\* What is known of a set of routes: finite, within the bound, all vectors.
Fits(R) == R \in SUBSET Vector /\ IsFiniteSet(R) /\ Cardinality(R) <= NPartial

LEMMA RoutesStored ==
  ASSUME NEW R, Fits(R), NEW v \in Vector, NEW full \in BOOLEAN
  PROVE  /\ Fits(Replace(v, full)) /\ Replace(v, full) \subseteq {v}
         /\ Fits(AddRoute(R, v, full)) /\ AddRoute(R, v, full) \subseteq R \cup {v}
<1>1. IsFiniteSet({}) /\ Cardinality({}) = 0 /\ IsFiniteSet({v}) /\ Cardinality({v}) = 1
  BY FS_EmptySet, FS_Singleton
<1>2. NPartial \in Nat /\ 0 <= NPartial /\ 1 <= NPartial
  BY SizesAssumption
<1>3. Fits({}) /\ Fits({v})
  BY <1>1, <1>2 DEF Fits
<1>4. Fits(Replace(v, full)) /\ Replace(v, full) \subseteq {v}
  BY <1>3 DEF Replace
<1>5. CASE full \/ Cardinality(R) = NPartial
  BY <1>4, <1>5 DEF AddRoute
<1>6. CASE ~(full \/ Cardinality(R) = NPartial)
  <2>1. AddRoute(R, v, full) = R \cup {v}
    BY <1>6 DEF AddRoute
  <2>2. IsFiniteSet(R) /\ Cardinality(R) \in Nat
    BY FS_CardinalityType DEF Fits
  <2>3. /\ IsFiniteSet(R \cup {v})
        /\ Cardinality(R \cup {v}) = Cardinality(R) \/ Cardinality(R \cup {v}) = Cardinality(R) + 1
    BY <2>2, FS_AddElement
  <2>4. Cardinality(R \cup {v}) <= NPartial
    BY <1>2, <1>6, <2>2, <2>3 DEF Fits
  <2>5. R \cup {v} \in SUBSET Vector
    BY DEF Fits
  <2> QED
    BY <1>4, <2>1, <2>3, <2>4, <2>5 DEF Fits
<1> QED
  BY <1>5, <1>6

LEMMA SelectParentEffect ==
  ASSUME Typed, NEW n \in Node, NEW m \in Node, NEW dio, dio.mc \in Nat, NEW etx \in Nat
  PROVE  LET s == SelectParent(n, m, dio, etx)
         IN /\ s \in DagState /\ s.routes = dag[n].routes
            /\ s.phase = dag[n].phase /\ s.left = dag[n].left
<1>1. dag[n] \in DagState /\ dio.mc + etx \in Nat
  BY DEF Typed
<1>2. CASE m = dag[n].preferred
  BY <1>1, <1>2 DEF SelectParent, DagState
<1>3. CASE m # dag[n].preferred /\ Better(dio.mc + etx, PathMetric(n))
  <2>1. SelectParent(n, m, dio, etx) =
          [dag[n] EXCEPT !.preferred = m, !.pmc = dio.mc, !.mc = dio.mc + etx]
    BY <1>3 DEF SelectParent
  <2> QED
    BY <1>1, <2>1 DEF DagState
<1>4. CASE m # dag[n].preferred /\ ~Better(dio.mc + etx, PathMetric(n))
  BY <1>1, <1>4 DEF SelectParent
<1> QED
  BY <1>2, <1>3, <1>4

\* New routes of a record in their place.
WithRoutes(s, R) == [s EXCEPT !.routes = R]

LEMMA WithRoutesType ==
  ASSUME NEW s \in DagState, NEW R \in SUBSET Vector
  PROVE  /\ WithRoutes(s, R) \in DagState /\ WithRoutes(s, R).routes = R
         /\ WithRoutes(s, R).phase = s.phase /\ WithRoutes(s, R).left = s.left
BY DEF WithRoutes, DagState

LEMMA ConsiderEffect ==
  ASSUME IInv, NEW n \in Node, NEW m \in Node, NEW dio, dio.mc \in Nat,
         dio.vector \in Vector, NEW etx \in Nat, NEW full \in BOOLEAN
  PROVE  LET t == Consider(n, m, dio, etx, full)
         IN /\ t \in DagState /\ Fits(t.routes)
            /\ t.phase = dag[n].phase /\ t.left = dag[n].left
            /\ t.routes \subseteq dag[n].routes \cup {dio.vector}
<1> DEFINE s == SelectParent(n, m, dio, etx)
           v == dio.vector
<1>1. /\ s \in DagState /\ s.routes = dag[n].routes
      /\ s.phase = dag[n].phase /\ s.left = dag[n].left
  BY SelectParentEffect DEF IInv
<1>2. Fits(s.routes)
  BY <1>1 DEF IInv, RoutesFit, Fits, DagState
<1> HIDE DEF s
<1>3. /\ Fits(Replace(v, full)) /\ Replace(v, full) \subseteq {v}
      /\ Fits(AddRoute(s.routes, v, full)) /\ AddRoute(s.routes, v, full) \subseteq s.routes \cup {v}
  BY <1>2, RoutesStored
<1>4. Consider(n, m, dio, etx, full) \in
        {WithRoutes(s, Replace(v, full)), WithRoutes(s, AddRoute(s.routes, v, full)), s}
  BY DEF Consider, WithRoutes, s
<1>5. \A R \in {Replace(v, full), AddRoute(s.routes, v, full)} :
        /\ WithRoutes(s, R) \in DagState /\ WithRoutes(s, R).routes = R
        /\ WithRoutes(s, R).phase = s.phase /\ WithRoutes(s, R).left = s.left
  BY <1>1, <1>3, WithRoutesType DEF Fits
<1> QED
  BY <1>1, <1>2, <1>3, <1>4, <1>5

\* A reception changes a record t of n in that n joins, or not in time.
JoinsOrStays(n, t) ==
  \/ dag[n].phase = "unknown" /\ t.phase = "active" /\ t.left = Lifetime
  \/ t.phase = dag[n].phase /\ t.left = dag[n].left

LEMMA ReceiveEffect ==
  ASSUME IInv, NEW n \in Node, NEW m \in Node, NEW dio, dio.mc \in Nat,
         dio.vector \in Vector, NEW full \in BOOLEAN
  PROVE  LET t == Receive(n, m, dio, full)
         IN /\ t \in DagState /\ Fits(t.routes) /\ JoinsOrStays(n, t)
            /\ t.routes \subseteq dag[n].routes \cup {dio.vector}
<1>1. dag[n] \in DagState /\ metric[n][m] \in Nat /\ Fits(dag[n].routes)
  BY DEF IInv, Typed, RoutesFit, Fits, DagState
<1>2. CASE dag[n].phase = "unknown"
  <2>1. /\ Fits(Replace(dio.vector, full)) /\ Replace(dio.vector, full) \subseteq {dio.vector}
    BY <1>1, RoutesStored
  <2>2. Receive(n, m, dio, full) = Joined(m, dio, metric[n][m], full)
    BY <1>2 DEF Receive
  <2>3. Lifetime \in Nat /\ dio.mc + metric[n][m] \in Nat
    BY <1>1, SizesAssumption
  <2> QED
    BY <1>2, <2>1, <2>2, <2>3 DEF Joined, DagState, JoinsOrStays, Fits
<1>3. CASE dag[n].phase # "unknown" /\ IsRelay(n)
  <2>1. Receive(n, m, dio, full) = Consider(n, m, dio, metric[n][m], full)
    BY <1>3 DEF Receive
  <2> QED
    BY <1>1, <2>1, ConsiderEffect DEF JoinsOrStays
<1>4. CASE dag[n].phase # "unknown" /\ ~IsRelay(n)
  BY <1>1, <1>4 DEF Receive, JoinsOrStays
<1> QED
  BY <1>2, <1>3, <1>4

LEMMA RefreshedEffect ==
  ASSUME Typed, NEW n \in Node
  PROVE  /\ Refreshed(n) \in DagState /\ Refreshed(n).mc \in Nat
         /\ Refreshed(n).routes = dag[n].routes /\ Refreshed(n).phase = dag[n].phase
         /\ Refreshed(n).left = dag[n].left
<1>1. dag[n] \in DagState /\ metric[n] \in [Node -> Nat]
  BY DEF Typed
<1>2. CASE IsRelay(n)
  <2>1. dag[n].preferred \in Node
    BY <1>1, <1>2 DEF IsRelay, DagState
  <2>2. PathMetric(n) \in Nat
    BY <1>1, <2>1 DEF PathMetric, DagState
  <2>3. Refreshed(n) = [dag[n] EXCEPT !.mc = PathMetric(n)]
    BY <1>2 DEF Refreshed
  <2> QED
    BY <1>1, <2>2, <2>3 DEF DagState
<1>3. CASE ~IsRelay(n)
  <2>1. Refreshed(n) = [dag[n] EXCEPT !.mc = 0]
    BY <1>3 DEF Refreshed
  <2> QED
    BY <1>1, <2>1 DEF DagState
<1> QED
  BY <1>2, <1>3

-----------------------------------------------------------------------------
(* The steps.                                                               *)

\* The vectors of the network, with the nodes T for truncated, U for strayed.
PathsFrom(d, T, U) == \A n \in Node : \A v \in d[n].routes : PathFrom(v, n, T, U)

LEMMA PathsRestated ==
  /\ VectorsArePaths <=> PathsFrom(dag, truncated, strayed)
  /\ VectorsArePaths' <=> PathsFrom(dag', truncated', strayed')
<1>1. VectorsArePaths <=> PathsFrom(dag, truncated, strayed)
  BY DEF VectorsArePaths, IsPath, PathsFrom, PathFrom
<1>2. VectorsArePaths' <=> PathsFrom(dag', truncated', strayed')
  BY DEF VectorsArePaths, IsPath, PathsFrom, PathFrom
<1> QED
  BY <1>1, <1>2

\* More nodes in T and U do no harm.
LEMMA PathsStay ==
  ASSUME NEW v, NEW n, NEW T, NEW U, NEW T2, NEW U2, T \subseteq T2, U \subseteq U2,
         PathFrom(v, n, T, U)
  PROVE  PathFrom(v, n, T2, U2)
BY DEF PathFrom

\* The origin has one list to send, the empty one, and other nodes one of
\* their routes, an unused list or stray memory, with their address.
LEMMA SentLists ==
  ASSUME IInv, NEW m \in Node, NEW v \in Vectors(m)
  PROVE  \/ m = Origin /\ v = <<>>
         \/ /\ m # Origin
            /\ \/ \E u \in dag[m].routes : v = u \o <<m>>
               \/ v = <<>> \o <<m>> /\ v \in UnusedVectors(m)
               \/ v \in StrayVectors(m) /\ \E g \in Stray : v = g \o <<m>>
<1>1. CASE m = Origin
  <2>1. dag[m].routes = {} /\ Cardinality({}) = 0
    BY <1>1, FS_EmptySet DEF IInv, OriginIsRoot
  <2>2. StoredVectors(m) = {}
    BY <2>1 DEF StoredVectors
  <2>3. StrayVectors(m) = {}
    BY <2>1, SizesAssumption DEF StrayVectors
  <2>4. v \in UnusedVectors(m)
    BY <2>2, <2>3 DEF Vectors
  <2> QED
    BY <1>1, <2>4 DEF UnusedVectors, OwnHop
<1>2. CASE m # Origin
  <2>1. OwnHop(m) = <<m>> /\ <<m>> = <<>> \o <<m>>
    BY <1>2 DEF OwnHop
  <2>2. CASE v \in StoredVectors(m)
    BY <1>2, <2>1, <2>2 DEF StoredVectors
  <2>3. CASE v \in UnusedVectors(m)
    BY <1>2, <2>1, <2>3 DEF UnusedVectors
  <2>4. CASE v \in StrayVectors(m)
    BY <1>2, <2>1, <2>4 DEF StrayVectors
  <2> QED
    BY <2>2, <2>3, <2>4 DEF Vectors
<1> QED
  BY <1>1, <1>2

\* The vectors that a node m may send.
LEMMA SentVectors ==
  ASSUME IInv, NEW m \in Node, NEW v \in Vectors(m),
         NEW T, truncated \subseteq T, NEW U, strayed \subseteq U
  PROVE  /\ v \in Vector
         /\ (\/ m = Origin \/ v \in StoredVectors(m)
             \/ v \in UnusedVectors(m) /\ m \in T
             \/ v \in StrayVectors(m) /\ m \in U)
            => \A n \in Node : <<n, m>> \in Link => PathFrom(v, n, T, U)
<1>1. dag[m] \in DagState /\ dag[m].routes \in SUBSET Vector
  BY DEF IInv, Typed, DagState
<1>2. m \in Address /\ <<m>> \in Seq(Address) /\ <<>> \in Seq(Address)
      /\ Stray \subseteq Vector
  BY VectorAssumption DEF Vector
<1>3. CASE m = Origin /\ v = <<>>
  BY <1>2, <1>3, EmptyPath DEF Vector
<1>4. ASSUME m # Origin, NEW u \in dag[m].routes, v = u \o <<m>>
      PROVE  v \in Vector /\ \A n \in Node : <<n, m>> \in Link => PathFrom(v, n, T, U)
  <2>1. u \in Vector
    BY <1>1
  <2>2. v \in Vector
    BY <1>2, <1>4, <2>1 DEF Vector
  <2>3. PathsFrom(dag, truncated, strayed)
    BY PathsRestated DEF IInv
  <2>4. PathFrom(u, m, truncated, strayed)
    BY <2>3 DEF PathsFrom
  <2>5. PathFrom(u, m, T, U)
    BY <2>4, PathsStay
  <2> QED
    BY <1>4, <2>1, <2>2, <2>5, PathProlonged
<1>5. ASSUME m # Origin, v = <<>> \o <<m>>
      PROVE  v \in Vector /\ (m \in T => \A n \in Node : <<n, m>> \in Link => PathFrom(v, n, T, U))
  <2>1. <<>> \in Vector
    BY <1>2 DEF Vector
  <2>2. v \in Vector
    BY <1>2, <1>5 DEF Vector
  <2> QED
    BY <1>5, <2>1, <2>2, PathFromSender
<1>6. ASSUME m # Origin, NEW g \in Stray, v = g \o <<m>>
      PROVE  v \in Vector /\ (m \in U => \A n \in Node : <<n, m>> \in Link => PathFrom(v, n, T, U))
  <2>1. g \in Vector
    BY <1>2
  <2>2. v \in Vector
    BY <1>2, <1>6, <2>1 DEF Vector
  <2> QED
    BY <1>6, <2>1, <2>2, PathFromSender
<1>7. v \in StoredVectors(m) /\ m # Origin => \E u \in dag[m].routes : v = u \o <<m>>
  BY DEF StoredVectors, OwnHop
<1>8. v \in UnusedVectors(m) /\ m # Origin => v = <<>> \o <<m>>
  BY DEF UnusedVectors, OwnHop
<1>9. v \in StrayVectors(m) /\ m # Origin => \E g \in Stray : v = g \o <<m>>
  BY DEF StrayVectors, OwnHop
<1>10. v \in Vector
  BY <1>3, <1>4, <1>5, <1>6, SentLists
<1>11. m = Origin => v = <<>>
  BY SentLists
<1> QED
  BY <1>3, <1>4, <1>5, <1>6, <1>7, <1>8, <1>9, <1>10, <1>11

\* As long as a node takes part, nobody has forgotten the discovery.
LEMMA NobodyForgot ==
  ASSUME IInv, NEW m \in Node, dag[m].phase = "active"
  PROVE  forgot = {} /\ age < MaxAge
<1>1. /\ dag[m].left \in Nat /\ dag[m].left >= 1
      /\ dag[m].left + Elapsed(m) \in Lifetime .. MaxAge /\ age \in Nat
  BY DEF IInv, Typed, RecordsTimed, DagState
<1>2. MaxAge \in Nat /\ Elapsed(m) \in Nat /\ age <= Elapsed(m)
  BY <1>1, SizesAssumption DEF MaxAge, Elapsed
<1>3. age < MaxAge
  BY <1>1, <1>2
<1> QED
  BY <1>1, <1>3, <1>2 DEF IInv, ForgetsLate

LEMMA SendStep ==
  ASSUME IInv, NEW m \in Node, Send(m)
  PROVE  IInv' /\ PhasesAge
<1>1. PICK v \in Vectors(m), heard \in SUBSET {n \in Hearers(m) : InTime(n)} :
        \E full \in SUBSET (heard \cap Short) :
          LET dio == [mc |-> Refreshed(m).mc, vector |-> v]
          IN /\ dag' = [n \in Node |->
                  IF n = m THEN Refreshed(m)
                  ELSE IF n \in heard THEN Receive(n, m, dio, n \in full)
                  ELSE dag[n]]
             /\ misjudged' = (misjudged \/ \E n \in heard :
                  Outdated(n) /\ dag'[n].routes # dag[n].routes)
             /\ truncated' = IF m # Origin /\ v \in UnusedVectors(m) \ StoredVectors(m)
                             THEN truncated \cup {m} ELSE truncated
             /\ strayed' = IF v \in StrayVectors(m) \ StoredVectors(m)
                           THEN strayed \cup {m} ELSE strayed
  BY DEF Send
<1> DEFINE dio == [mc |-> Refreshed(m).mc, vector |-> v]
<1>2. PICK full \in SUBSET (heard \cap Short) :
        /\ dag' = [n \in Node |->
             IF n = m THEN Refreshed(m)
             ELSE IF n \in heard THEN Receive(n, m, dio, n \in full)
             ELSE dag[n]]
        /\ misjudged' = (misjudged \/ \E n \in heard :
             Outdated(n) /\ dag'[n].routes # dag[n].routes)
        /\ truncated' = IF m # Origin /\ v \in UnusedVectors(m) \ StoredVectors(m)
                        THEN truncated \cup {m} ELSE truncated
        /\ strayed' = IF v \in StrayVectors(m) \ StoredVectors(m)
                      THEN strayed \cup {m} ELSE strayed
  BY <1>1
<1>3. /\ Refreshed(m) \in DagState /\ Refreshed(m).mc \in Nat
      /\ Refreshed(m).routes = dag[m].routes /\ Refreshed(m).phase = dag[m].phase
      /\ Refreshed(m).left = dag[m].left
  BY RefreshedEffect DEF IInv
<1>4. /\ truncated \subseteq truncated' /\ truncated' \subseteq Node
      /\ strayed \subseteq strayed' /\ strayed' \subseteq Node
      /\ \/ m = Origin \/ v \in StoredVectors(m)
         \/ v \in UnusedVectors(m) /\ m \in truncated'
         \/ v \in StrayVectors(m) /\ m \in strayed'
  BY <1>2 DEF IInv, Typed, Vectors
<1>5. v \in Vector
      /\ \A n \in Node : <<n, m>> \in Link => PathFrom(v, n, truncated', strayed')
  BY <1>4, SentVectors
<1>6. dio.mc \in Nat /\ dio.vector = v /\ dio.vector \in Vector
  BY <1>3, <1>5
<1> HIDE DEF dio
<1>7. ASSUME NEW n \in Node
      PROVE  /\ dag'[n] \in DagState /\ Fits(dag'[n].routes)
             /\ JoinsOrStays(n, dag'[n])
             /\ dag'[n].routes \subseteq
                  dag[n].routes \cup IF n \in heard THEN {v} ELSE {}
  <2>1. dag[n] \in DagState /\ Fits(dag[n].routes)
    BY DEF IInv, Typed, RoutesFit, Fits, DagState
  <2>2. CASE n = m
    BY <1>2, <1>3, <2>1, <2>2 DEF JoinsOrStays
  <2>3. CASE n # m /\ n \in heard
    <3>1. dag'[n] = Receive(n, m, dio, n \in full)
      BY <1>2, <2>3
    <3>2. (n \in full) \in BOOLEAN
      OBVIOUS
    <3> DEFINE f == n \in full
    <3>3. f \in BOOLEAN /\ dag'[n] = Receive(n, m, dio, f)
      BY <3>1, <3>2
    <3> HIDE DEF f
    <3> QED
      BY <1>6, <2>1, <2>3, <3>3, ReceiveEffect
  <2>4. CASE n # m /\ n \notin heard
    BY <1>2, <2>1, <2>4 DEF JoinsOrStays
  <2> QED
    BY <2>2, <2>3, <2>4
<1>8. Typed'
  <2>1. dag' \in [Node -> DagState]
    BY <1>2, <1>7
  <2>2. misjudged' \in BOOLEAN
    BY <1>2 DEF IInv, Typed
  <2> QED
    BY <1>4, <2>1, <2>2 DEF Send, IInv, Typed
<1>9. RoutesFit'
  BY <1>7 DEF RoutesFit, Fits
<1>10. OriginIsRoot'
  <2>1. OriginIsRoot /\ forgot = {} /\ Origin \in Node
    BY NodeAssumption, NobodyForgot DEF IInv, Send
  <2>2. forgot' = forgot
    BY DEF Send
  <2>3. CASE Origin = m
    <3>1. Refreshed(m) = [dag[m] EXCEPT !.mc = 0]
      BY <2>1, <2>3 DEF Refreshed, IsRelay, OriginIsRoot
    <3>2. dag[m] \in DagState
      BY DEF IInv, Typed
    <3>3. dag'[Origin] = [dag[m] EXCEPT !.mc = 0]
      BY <1>2, <2>1, <2>3, <3>1
    <3> QED
      BY <2>1, <2>2, <2>3, <3>2, <3>3 DEF OriginIsRoot, DagState
  <2>4. CASE Origin # m
    <3>1. \A f \in BOOLEAN : Receive(Origin, m, dio, f) = dag[Origin]
      <4>1. dag[Origin].phase # "unknown"
        BY <2>1 DEF OriginIsRoot
      <4> QED
        BY <2>1, <4>1 DEF Receive, IsRelay, OriginIsRoot
    <3>2. CASE Origin \in heard
      <4> DEFINE f == Origin \in full
      <4>1. f \in BOOLEAN /\ dag'[Origin] = Receive(Origin, m, dio, f)
        BY <1>2, <2>1, <2>4, <3>2
      <4> HIDE DEF f
      <4>2. dag'[Origin] = dag[Origin]
        BY <3>1, <4>1
      <4> QED
        BY <2>1, <2>2, <4>2 DEF OriginIsRoot
    <3>3. CASE Origin \notin heard
      <4>1. dag'[Origin] = dag[Origin]
        BY <1>2, <2>1, <2>4, <3>3
      <4> QED
        BY <2>1, <2>2, <4>1 DEF OriginIsRoot
    <3> QED
      BY <3>2, <3>3
  <2> QED
    BY <2>3, <2>4
<1>11. VectorsArePaths'
  <2>1. PathsFrom(dag, truncated, strayed)
    BY PathsRestated DEF IInv
  <2>2. ASSUME NEW n \in Node, NEW u \in dag'[n].routes
        PROVE  PathFrom(u, n, truncated', strayed')
    <3>1. CASE u \in dag[n].routes
      <4>1. PathFrom(u, n, truncated, strayed)
        BY <2>1, <3>1 DEF PathsFrom
      <4> QED
        BY <1>4, <4>1, PathsStay
    <3>2. CASE u \notin dag[n].routes
      <4>1. n \in heard /\ u = v
        BY <1>7, <2>2, <3>2
      <4>2. <<n, m>> \in Link
        BY <4>1 DEF Hearers
      <4> QED
        BY <1>5, <4>1, <4>2
    <3> QED
      BY <3>1, <3>2
  <2>3. PathsFrom(dag', truncated', strayed')
    BY <2>2 DEF PathsFrom
  <2> QED
    BY <2>3, PathsRestated
<1>12. RecordsTimed' /\ ForgetsLate'
  <2>1. age' = age /\ ahead' = ahead /\ forgot' = forgot /\ forgot = {}
    BY NobodyForgot DEF Send
  <2>2. ForgetsLate'
    BY <2>1 DEF ForgetsLate
  <2>3. ASSUME NEW n \in Node
        PROVE  /\ dag'[n].phase = "active" =>
                    dag'[n].left >= 1 /\ dag'[n].left + Elapsed(n) \in Lifetime .. MaxAge
               /\ dag'[n].phase = "expired" =>
                    age = MaxAge \/ dag'[n].left + Elapsed(n) >= Lifetime + KeepTime
    <3>1. CASE dag[n].phase = "unknown" /\ dag'[n].phase = "active"
      <4>1. n \in heard
        BY <1>2, <1>3, <3>1
      <4>2. age <= MaxSpread
        BY <2>1, <3>1, <4>1 DEF InTime
      <4>3. dag'[n].left = Lifetime
        BY <1>7, <3>1 DEF JoinsOrStays
      <4>4. /\ age \in Nat /\ MaxSpread \in Nat /\ Lifetime \in Nat /\ 1 <= Lifetime
            /\ Elapsed(n) \in {age, age + 1}
        BY SizesAssumption DEF IInv, Typed, Elapsed
      <4> QED
        BY <3>1, <4>2, <4>3, <4>4 DEF MaxAge
    <3>2. CASE dag'[n].phase = dag[n].phase /\ dag'[n].left = dag[n].left
      BY <3>2 DEF IInv, RecordsTimed
    <3> QED
      BY <1>7, <3>1, <3>2 DEF JoinsOrStays
  <2>4. RecordsTimed'
    BY <2>1, <2>3 DEF RecordsTimed, Elapsed
  <2> QED
    BY <2>2, <2>4
<1>13. PhasesAge
  BY <1>7 DEF PhasesAge, JoinsOrStays, Ages
<1> QED
  BY <1>8, <1>9, <1>10, <1>11, <1>12, <1>13 DEF IInv

\* How the periodic timer leads from a record s to t.
Purges(s, t) ==
  /\ t.phase = "active" => s.phase = "active" /\ s.left > 1 /\ t.left = s.left - 1
  /\ t.phase = "expired" =>
       \/ /\ s.phase = "active" /\ s.left <= 1
          /\ t.left = KeepTime
       \/ /\ s.phase = "expired" /\ s.left > 1
          /\ t.left = s.left - 1
  /\ t.phase = "unknown" =>
       \/ s.phase = "unknown"
       \/ /\ s.phase = "expired"
          /\ s.left <= 1
  /\ s.phase = "unknown" => t.phase = "unknown"

LEMMA PurgedEffect ==
  ASSUME NEW s \in DagState
  PROVE  LET t == Purged(s)
         IN /\ t \in DagState /\ Ages(s.phase, t.phase)
            /\ t.routes = s.routes \/ t.routes = {}
            /\ s.preferred = None => t.preferred = None
            /\ Purges(s, t)
<1>1. CASE s.left > 1
  <2> DEFINE t == [s EXCEPT !.left = s.left - 1]
  <2>1. Purged(s) = t /\ s.left - 1 \in Nat
    BY <1>1 DEF Purged, DagState
  <2>2. /\ t \in DagState /\ t.phase = s.phase /\ t.left = s.left - 1
        /\ t.routes = s.routes /\ t.preferred = s.preferred
    BY <2>1 DEF DagState
  <2> HIDE DEF t
  <2>3. Purges(s, t)
    BY <1>1, <2>2 DEF Purges
  <2> QED
    BY <2>1, <2>2, <2>3 DEF Ages
<1>2. CASE ~(s.left > 1) /\ s.phase = "active"
  <2> DEFINE t == [s EXCEPT !.phase = "expired", !.left = KeepTime, !.preferred = None]
  <2>1. Purged(s) = t
    BY <1>2 DEF Purged
  <2>2. /\ t \in DagState /\ t.phase = "expired" /\ t.left = KeepTime
        /\ t.routes = s.routes /\ t.preferred = None
    BY SizesAssumption DEF DagState
  <2>3. s.left \in Nat /\ s.left <= 1
    BY <1>2 DEF DagState
  <2> HIDE DEF t
  <2>4. Purges(s, t)
    BY <1>2, <2>2, <2>3 DEF Purges
  <2> QED
    BY <1>2, <2>1, <2>2, <2>4 DEF Ages
<1>3. CASE ~(s.left > 1) /\ s.phase # "active"
  <2>1. Purged(s) = Blank
    BY <1>3 DEF Purged
  <2>2. Blank \in DagState /\ Blank.phase = "unknown" /\ Blank.routes = {}
        /\ Blank.preferred = None
    BY DEF Blank, DagState
  <2>3. s.phase \in {"unknown", "expired"} /\ s.left <= 1
    BY <1>3 DEF DagState
  <2> QED
    BY <1>3, <2>1, <2>2, <2>3 DEF Ages, Purges
<1> QED
  BY <1>1, <1>2, <1>3

LEMMA ElapsedStep ==
  ASSUME Typed, NEW m \in Node, Periodic(m), age < MaxAge
  PROVE  /\ age' \in {age, age + 1} /\ Elapsed(m) = age /\ Elapsed(m)' = age + 1
         /\ \A n \in Node \ {m} : Elapsed(n)' = Elapsed(n)
<1>1. age \in Nat /\ MaxAge \in Nat /\ ahead \subseteq Node /\ m \notin ahead
  BY SizesAssumption DEF Typed, Periodic, MaxAge
<1>2. CASE ahead \cup {m} = Node
  <2>1. ahead' = {} /\ age' = age + 1
    BY <1>2 DEF Periodic
  <2> QED
    BY <1>1, <1>2, <2>1 DEF Elapsed
<1>3. CASE ahead \cup {m} # Node
  <2>1. ahead' = ahead \cup {m} /\ age' = age
    BY <1>3 DEF Periodic
  <2> QED
    BY <1>1, <2>1 DEF Elapsed
<1> QED
  BY <1>2, <1>3

\* A node forgets when its own record has expired and been kept, and by then
\* the record of every other node has expired.
LEMMA ForgettingTakesTime ==
  ASSUME IInv, NEW m \in Node, Periodic(m), dag[m].phase = "expired", dag[m].left <= 1
  PROVE  age = MaxAge
<1>1. /\ age \in 0 .. MaxAge /\ MaxSpread \in Nat /\ KeepTime \in Nat /\ Lifetime \in Nat
      /\ dag[m].left \in Nat /\ MaxSpread + 1 < KeepTime
  BY SizesAssumption DEF IInv, Typed, DagState
<1>2. Elapsed(m) = age
  BY <1>1 DEF Periodic, Elapsed
<1>3. age = MaxAge \/ dag[m].left + age >= Lifetime + KeepTime
  BY <1>2 DEF IInv, RecordsTimed
<1> QED
  BY <1>1, <1>3 DEF MaxAge

LEMMA PeriodicStep ==
  ASSUME IInv, NEW m \in Node, Periodic(m)
  PROVE  IInv' /\ PhasesAge
<1>1. dag' = [dag EXCEPT ![m] = Purged(dag[m])]
      /\ UNCHANGED <<metric, faults, truncated, strayed, misjudged>>
      /\ forgot' = IF dag[m].phase # "unknown" /\ dag'[m].phase = "unknown"
                   THEN forgot \cup {m} ELSE forgot
  BY DEF Periodic
<1>2. dag \in [Node -> DagState] /\ RoutesFit
  BY DEF IInv, Typed
<1>3. LET t == Purged(dag[m])
      IN /\ t \in DagState /\ Ages(dag[m].phase, t.phase)
         /\ t.routes = dag[m].routes \/ t.routes = {}
         /\ dag[m].preferred = None => t.preferred = None
         /\ Purges(dag[m], t)
  BY <1>2, PurgedEffect
<1>4. ASSUME NEW n \in Node
      PROVE  /\ dag'[n] \in DagState /\ Ages(dag[n].phase, dag'[n].phase)
             /\ dag'[n].routes = dag[n].routes \/ dag'[n].routes = {}
             /\ dag[n].preferred = None => dag'[n].preferred = None
  <2>1. CASE n = m
    BY <1>1, <1>2, <1>3, <2>1
  <2>2. CASE n # m
    BY <1>1, <1>2, <2>2 DEF Ages
  <2> QED
    BY <2>1, <2>2
<1>5. Typed'
  <2>1. dag' \in [Node -> DagState]
    BY <1>1, <1>2, <1>3
  <2>2. forgot' \subseteq Node
    BY <1>1 DEF IInv, Typed
  <2>3. ahead' \subseteq Node /\ age' \in 0 .. MaxAge
    BY SizesAssumption DEF Periodic, IInv, Typed, MaxAge
  <2> QED
    BY <1>1, <2>1, <2>2, <2>3 DEF IInv, Typed
<1>6. RoutesFit'
  <2>1. IsFiniteSet({}) /\ Cardinality({}) = 0 /\ 0 <= NPartial
    BY FS_EmptySet, SizesAssumption
  <2> QED
    BY <1>2, <1>4, <2>1 DEF RoutesFit
<1>7. OriginIsRoot'
  <2>1. OriginIsRoot /\ Origin \in Node
    BY NodeAssumption DEF IInv
  <2>2. dag'[Origin].phase = "unknown" => Origin \in forgot'
    <3>1. CASE Origin = m
      BY <1>1, <2>1, <3>1 DEF OriginIsRoot
    <3>2. CASE Origin # m
      BY <1>1, <1>2, <2>1, <3>2 DEF OriginIsRoot
    <3> QED
      BY <3>1, <3>2
  <2> QED
    BY <1>4, <2>1, <2>2 DEF OriginIsRoot
<1>8. VectorsArePaths'
  <2>1. PathsFrom(dag, truncated, strayed)
    BY PathsRestated DEF IInv
  <2>2. PathsFrom(dag', truncated', strayed')
    BY <1>1, <1>4, <2>1 DEF PathsFrom
  <2> QED
    BY <2>2, PathsRestated
<1>9. /\ age \in 0 .. MaxAge /\ MaxAge \in Nat /\ age' \in {age, age + 1}
      /\ age = MaxAge => age' = MaxAge
      /\ dag[m].left \in Nat /\ KeepTime \in Nat /\ Lifetime \in Nat
  <2>1. age \in 0 .. MaxAge /\ MaxAge \in Nat /\ KeepTime \in Nat /\ Lifetime \in Nat
    BY SizesAssumption DEF IInv, Typed, MaxAge
  <2>2. age' = age \/ age' = IF age < MaxAge THEN age + 1 ELSE age
    BY DEF Periodic
  <2>3. dag[m].left \in Nat
    BY <1>2 DEF DagState
  <2> QED
    BY <2>1, <2>2, <2>3
<1>10. dag'[m] = Purged(dag[m]) /\ \A n \in Node \ {m} : dag'[n] = dag[n]
  BY <1>1, <1>2
<1>11. RecordsTimed'
  <2>1. CASE age = MaxAge
    <3>1. age' = MaxAge
      BY <1>9, <2>1
    <3>2. \A n \in Node : dag[n].phase # "active"
      BY <2>1, <1>9, NobodyForgot
    <3>3. \A n \in Node : dag'[n].phase # "active"
      BY <1>3, <1>10, <3>2 DEF Purges
    <3> QED
      BY <3>1, <3>3 DEF RecordsTimed, MaxAge
  <2>2. CASE age < MaxAge
    <3>1. /\ Elapsed(m) = age /\ Elapsed(m)' = age + 1
          /\ \A n \in Node \ {m} : Elapsed(n)' = Elapsed(n)
      BY <2>2, ElapsedStep DEF IInv
    <3>2. ASSUME NEW n \in Node \ {m}
          PROVE  /\ dag'[n].phase = "active" =>
                      dag'[n].left >= 1 /\ dag'[n].left + Elapsed(n)' \in Lifetime .. MaxAge
                 /\ dag'[n].phase = "expired" =>
                      dag'[n].left + Elapsed(n)' >= Lifetime + KeepTime
      BY <1>9, <1>10, <2>2, <3>1 DEF IInv, RecordsTimed
    <3>3. /\ dag[m].phase = "active" =>
               dag[m].left >= 1 /\ dag[m].left + age \in Lifetime .. MaxAge
          /\ dag[m].phase = "expired" => dag[m].left + age >= Lifetime + KeepTime
      BY <1>9, <2>2, <3>1 DEF IInv, RecordsTimed
    <3>4. /\ dag'[m].phase = "active" =>
               dag'[m].left >= 1 /\ dag'[m].left + (age + 1) \in Lifetime .. MaxAge
          /\ dag'[m].phase = "expired" => dag'[m].left + (age + 1) >= Lifetime + KeepTime
      <4>1. CASE dag'[m].phase = "active"
        <5>1. dag[m].phase = "active" /\ dag[m].left > 1 /\ dag'[m].left = dag[m].left - 1
          BY <1>3, <1>10, <4>1 DEF Purges
        <5> QED
          BY <1>9, <3>3, <4>1, <5>1
      <4>2. CASE dag'[m].phase = "expired"
        <5>1. CASE dag[m].phase = "active" /\ dag[m].left <= 1 /\ dag'[m].left = KeepTime
          BY <1>9, <3>3, <4>2, <5>1
        <5>2. CASE dag[m].phase = "expired" /\ dag[m].left > 1 /\ dag'[m].left = dag[m].left - 1
          BY <1>9, <3>3, <4>2, <5>2
        <5> QED
          BY <1>3, <1>10, <4>2, <5>1, <5>2 DEF Purges
      <4> QED
        BY <4>1, <4>2
    <3>5. ASSUME NEW n \in Node
          PROVE  /\ dag'[n].phase = "active" =>
                      dag'[n].left >= 1 /\ dag'[n].left + Elapsed(n)' \in Lifetime .. MaxAge
                 /\ dag'[n].phase = "expired" =>
                      dag'[n].left + Elapsed(n)' >= Lifetime + KeepTime
      <4>1. CASE n = m
        BY <3>1, <3>4, <4>1
      <4>2. CASE n # m
        BY <3>2, <4>2
      <4> QED
        BY <4>1, <4>2
    <3> QED
      BY <3>5 DEF RecordsTimed, Elapsed, MaxAge
  <2> QED
    BY <1>9, <2>1, <2>2
<1>12. ForgetsLate'
  <2>1. ASSUME NEW n \in forgot'
        PROVE  dag'[n].phase = "unknown" /\ age = MaxAge
    <3>1. CASE n \in forgot
      <4>1. dag[n].phase = "unknown" /\ age = MaxAge /\ n \in Node
        BY <3>1 DEF IInv, Typed, ForgetsLate
      <4>2. dag'[n].phase = "unknown"
        BY <1>3, <1>10, <4>1 DEF Purges
      <4> QED
        BY <4>1, <4>2
    <3>2. CASE n \notin forgot
      <4>1. n = m /\ dag[m].phase # "unknown" /\ dag'[m].phase = "unknown"
        BY <1>1, <2>1, <3>2
      <4>2. dag[m].phase = "expired" /\ dag[m].left <= 1
        BY <1>3, <1>10, <4>1 DEF Purges
      <4>3. age = MaxAge
        BY <4>2, ForgettingTakesTime
      <4> QED
        BY <4>1, <4>3
    <3> QED
      BY <3>1, <3>2
  <2>2. MaxAge' = MaxAge
    BY DEF MaxAge
  <2> QED
    BY <1>9, <2>1, <2>2 DEF ForgetsLate
<1>13. PhasesAge
  BY <1>4 DEF PhasesAge
<1> QED
  BY <1>5, <1>6, <1>7, <1>8, <1>11, <1>12, <1>13 DEF IInv

LEMMA LinkFeedbackStep ==
  ASSUME IInv, NEW n \in Node, NEW m \in Node, NEW e \in Nat, LinkFeedback(n, m, e)
  PROVE  IInv' /\ PhasesAge
<1>1. dag' = dag /\ truncated' = truncated /\ strayed' = strayed /\ forgot' = forgot
      /\ ahead' = ahead /\ age' = age /\ misjudged' = misjudged
      /\ faults' = faults + 1 /\ faults < MaxFaults
  BY DEF LinkFeedback, history
<1>2. metric' = [metric EXCEPT ![n] = [metric[n] EXCEPT ![m] = e]]
  BY DEF LinkFeedback
<1>3. metric \in [Node -> [Node -> Nat]]
  BY DEF IInv, Typed
<1>4. [metric[n] EXCEPT ![m] = e] \in [Node -> Nat]
  BY <1>3
<1>5. metric' \in [Node -> [Node -> Nat]]
  BY <1>2, <1>3, <1>4
<1>6. Typed'
  BY <1>1, <1>5, SizesAssumption DEF IInv, Typed, MaxAge
<1> QED
  BY <1>1, <1>6 DEF IInv, RoutesFit, RecordsTimed, ForgetsLate, Elapsed, MaxAge,
                     OriginIsRoot, VectorsArePaths, IsPath, PhasesAge, Ages

LEMMA NextStep ==
  ASSUME IInv, [Next]_vars
  PROVE  IInv' /\ PhasesAge
<1>1. ASSUME NEW n \in Node, Send(n)
      PROVE  IInv' /\ PhasesAge
  BY <1>1, SendStep
<1>2. ASSUME NEW n \in Node, Periodic(n)
      PROVE  IInv' /\ PhasesAge
  BY <1>2, PeriodicStep
<1>3. ASSUME NEW l \in Link, NEW e \in Etx[l], LinkFeedback(l[1], l[2], e)
      PROVE  IInv' /\ PhasesAge
  <2>1. l[1] \in Node /\ l[2] \in Node /\ e \in Nat
    BY LinkAssumption, EtxAssumption
  <2> QED
    BY <1>3, <2>1, LinkFeedbackStep
<1>4. CASE UNCHANGED vars
  BY <1>4 DEF vars, history, IInv, Typed, RoutesFit, RecordsTimed, ForgetsLate, Elapsed,
              MaxAge, OriginIsRoot, VectorsArePaths, IsPath, PhasesAge, Ages
<1> QED
  BY <1>1, <1>2, <1>3, <1>4 DEF Next

LEMMA InitGood ==
  ASSUME Init
  PROVE  IInv
<1>1. /\ Blank \in DagState /\ Blank.phase = "unknown" /\ Blank.routes = {}
      /\ Blank.preferred = None
  BY DEF Blank, DagState
<1>2. /\ OriginState \in DagState /\ OriginState.phase = "active"
      /\ OriginState.routes = {} /\ OriginState.preferred = None
      /\ OriginState.left = Lifetime
  BY <1>1, SizesAssumption DEF OriginState, DagState
<1>3. dag \in [Node -> DagState] /\ \A n \in Node : dag[n].routes = {}
  BY <1>1, <1>2 DEF Init
<1>4. PICK f \in Metrics : metric = [n \in Node |-> [m \in Node |->
                               IF <<n, m>> \in Link THEN f[<<n, m>>] ELSE Unit]]
  BY DEF Init
<1>5. \A l \in Link : f[l] \in Nat
  BY <1>4, EtxAssumption DEF Metrics
<1>6. metric \in [Node -> [Node -> Nat]]
  BY <1>4, <1>5 DEF Unit
<1>7. Typed
  <2>1. dag \in [Node -> DagState] /\ metric \in [Node -> [Node -> Nat]]
    BY <1>3, <1>6
  <2>2. age \in 0 .. MaxAge /\ faults \in 0 .. MaxFaults
    BY SizesAssumption DEF Init, MaxAge
  <2>3. /\ ahead \subseteq Node /\ forgot \subseteq Node /\ truncated \subseteq Node
        /\ strayed \subseteq Node
    BY DEF Init
  <2>4. misjudged \in BOOLEAN
    BY DEF Init
  <2> QED
    BY <2>1, <2>2, <2>3, <2>4 DEF Typed
<1>8. RoutesFit
  <2>1. IsFiniteSet({}) /\ Cardinality({}) = 0 /\ 0 <= NPartial
    BY FS_EmptySet, SizesAssumption
  <2> QED
    BY <1>3, <2>1 DEF RoutesFit
<1>9. OriginIsRoot
  BY <1>2, NodeAssumption DEF Init, OriginIsRoot
<1>10. VectorsArePaths
  BY <1>3 DEF VectorsArePaths
<1>11. RecordsTimed /\ ForgetsLate
  <2>1. /\ forgot = {} /\ ahead = {} /\ age = 0
        /\ \A n \in Node : \/ dag[n].phase = "unknown"
                           \/ dag[n].phase = "active" /\ dag[n].left = Lifetime
    BY <1>1, <1>2 DEF Init
  <2>2. /\ \A n \in Node : Elapsed(n) = 0
        /\ Lifetime \in Nat /\ MaxAge \in Nat /\ 1 <= Lifetime /\ Lifetime <= MaxAge
    BY <2>1, SizesAssumption DEF Elapsed, MaxAge
  <2> QED
    BY <2>1, <2>2 DEF RecordsTimed, ForgetsLate
<1> QED
  BY <1>7, <1>8, <1>9, <1>10, <1>11 DEF IInv

-----------------------------------------------------------------------------
(* The theorems.                                                            *)

THEOREM Invariance == Spec => []IInv
<1>1. Init => IInv
  BY InitGood
<1>2. IInv /\ [Next]_vars => IInv'
  BY NextStep
<1> QED
  BY <1>1, <1>2, PTL DEF Spec

\* Every record keeps its type and no node has more partial routes than it has
\* room for (join_dag, rpl_p2p_add_partial_route).
THEOREM TypeCorrect == Spec => []TypeOK
<1>1. IInv => TypeOK
  BY DEF IInv, Typed, RoutesFit, TypeOK
<1> QED
  BY <1>1, Invariance, PTL

\* Every address vector in the network is a path of it, from its first node on
\* or from the last one that has put stray memory before its own address,
\* whatever the losses and the changes of links, and for any content of that
\* memory (dio_output, write_rdo, rpl_process_dio).
THEOREM VectorsSpreadAsPaths == Spec => []VectorsArePaths
<1>1. IInv => VectorsArePaths
  BY DEF IInv
<1> QED
  BY <1>1, Invariance, PTL

\* No node takes part in a discovery again once it has forgotten it, provided
\* that nodes hear of it for the first time at least two seconds before records
\* are dropped (SizesAssumption).  A node that has forgotten may hear of it at
\* any time, and would join; but by then, the invariant says, the record of
\* every neighbour has expired (rpl_p2p_purge_dags, rpl_process_dio).
THEOREM ForgottenForGood == Spec => []NeverAgain
<1>1. IInv => NeverAgain
  BY DEF IInv, ForgetsLate, NeverAgain
<1> QED
  BY <1>1, Invariance, PTL

LEMMA MemoryStep ==
  ASSUME NEW n \in Node, Ages(dag[n].phase, dag'[n].phase)
  PROVE  dag'[n].phase = dag[n].phase \/ Memory(n)!Next
<1> DEFINE before == [k \in {Origin} |-> dag[n].phase]
           after == [k \in {Origin} |-> dag'[n].phase]
<1>1. before[Origin] = dag[n].phase
  OBVIOUS
<1>2. CASE dag[n].phase = "unknown" /\ dag'[n].phase = "active"
  <2>1. after = [before EXCEPT ![Origin] = "active"]
    BY <1>2
  <2>2. Memory(n)!Start(Origin)
    BY <1>1, <1>2, <2>1 DEF Memory!Start
  <2> QED
    BY <2>2 DEF Memory!Next
<1>3. CASE dag[n].phase = "active" /\ dag'[n].phase = "expired"
  <2>1. after = [k \in {Origin} |-> IF k \in {Origin} THEN "expired"
                                    ELSE IF k \in {} THEN "unknown" ELSE before[k]]
    BY <1>3
  <2>2. {Origin} \in SUBSET {k \in {Origin} : before[k] = "active"}
    BY <1>1, <1>3
  <2>3. {} \in SUBSET {k \in {Origin} : before[k] = "expired"}
    OBVIOUS
  <2>4. Memory(n)!Age
    BY <2>1, <2>2, <2>3 DEF Memory!Age
  <2> QED
    BY <2>4 DEF Memory!Next
<1>4. CASE dag[n].phase = "expired" /\ dag'[n].phase = "unknown"
  <2>1. after = [k \in {Origin} |-> IF k \in {} THEN "expired"
                                    ELSE IF k \in {Origin} THEN "unknown" ELSE before[k]]
    BY <1>4
  <2>2. {Origin} \in SUBSET {k \in {Origin} : before[k] = "expired"}
    BY <1>1, <1>4
  <2>3. {} \in SUBSET {k \in {Origin} : before[k] = "active"}
    OBVIOUS
  <2>4. Memory(n)!Age
    BY <2>1, <2>2, <2>3 DEF Memory!Age
  <2> QED
    BY <2>4 DEF Memory!Next
<1> QED
  BY <1>2, <1>3, <1>4 DEF Ages

\* Every node's record of the discovery implements the abstract memory: it is
\* never entered again while there is a record of it (rpl_process_dio,
\* rpl_p2p_purge_dags).
THEOREM RecordsImplementMemory == Spec => NodesRemember
<1> DEFINE Remembers == \A n \in Node \ {Origin} :
                          dag'[n].phase = dag[n].phase \/ Memory(n)!Next
<1>1. Init => \A n \in Node \ {Origin} : Memory(n)!Init
  <2> SUFFICES ASSUME Init, NEW n \in Node \ {Origin}
               PROVE  Memory(n)!Init
    OBVIOUS
  <2>1. dag[n].phase = "unknown"
    BY DEF Init, Blank
  <2> QED
    BY <2>1 DEF Memory!Init
<1>2. IInv /\ [Next]_vars => [Remembers]_dag
  <2> SUFFICES ASSUME IInv, [Next]_vars
               PROVE  Remembers
    OBVIOUS
  <2>1. PhasesAge
    BY NextStep
  <2> QED
    BY <2>1, MemoryStep DEF PhasesAge
<1> HIDE DEF Remembers
<1>3. Spec => [][Remembers]_dag
  BY <1>2, Invariance, PTL DEF Spec
<1>4. Spec => \A n \in Node \ {Origin} : Memory(n)!Init
  BY <1>1, PTL DEF Spec
<1> QED
  BY <1>3, <1>4 DEF NodesRemember, Remembers

=============================================================================
