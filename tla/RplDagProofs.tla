---------------------------- MODULE RplDagProofs ----------------------------
(* Theorems about the global DAG, for every network, any link metrics and   *)
(* any number of disturbances.                                              *)
EXTENDS RplDag, TLAPS, FiniteSetTheorems

-----------------------------------------------------------------------------
(* The inductive invariant, node by node.                                   *)

\* Parents, default routers and pointers of node n hang together.
Sound(n, s) ==
  /\ s \in NodeState
  /\ s.parents \subseteq Node \ {n}
  /\ s.updated \subseteq s.parents
  /\ s.defrt \subseteq s.parents
  /\ s.def_route # None => s.def_route \in s.defrt \/ s.taken
  /\ s.preferred # None => s.preferred \in s.parents
  /\ ~s.joined => s.parents = {}

Routed(s) ==
  Cardinality(Node) <= DefrtSize + 1 =>
    (s.preferred # None => s.preferred \in s.defrt \/ s.taken)

Ranked(s, met) ==
  s.preferred # None =>
    \/ s.preferred \in s.updated
    \/ /\ s.rank = RankThrough(s.prank[s.preferred], met[s.preferred])
       /\ s.min_rank <= s.rank
       /\ s.prank[s.preferred] <= s.min_rank + MaxRankInc

\* Nothing but its version ever changes at the root.
AtRest(s) ==
  s.joined /\ s.rank = RootRank /\ s.parents = {} /\ s.min_rank = Infinite

Good(n, s, met) ==
  Sound(n, s) /\ Routed(s) /\ Ranked(s, met) /\ (n = Root => AtRest(s))

IInv == TypeOK /\ \A n \in Node : Good(n, node[n], metric[n])

\* What a step may do to min_rank of a node.
Falls(s, t) ==
  s.joined /\ t.joined /\ t.version = s.version => t.min_rank <= s.min_rank

MinRanksFall == \A n \in Node : Falls(node[n], node'[n])

-----------------------------------------------------------------------------
(* Ranks and metrics.                                                       *)

LEMMA RankPlusType ==
  ASSUME NEW base \in Rank, NEW hops \in Nat
  PROVE  RankPlus(base, hops) \in Rank /\ base <= RankPlus(base, hops)
BY DEF RankPlus, Rank, Infinite

LEMMA RankThroughType ==
  ASSUME NEW base \in Rank, NEW etx \in Nat
  PROVE  RankThrough(base, etx) \in Rank /\ base <= RankThrough(base, etx)
<1>1. \A x \in Nat : x \div 4 \in Nat
  BY SMT
<1> QED
  BY <1>1, RankPlusType DEF RankThrough, Unit

LEMMA PathMetricType ==
  ASSUME NEW s \in NodeState, NEW met \in [Node -> Nat], NEW p \in Node \cup {None}
  PROVE  PathMetric(s, met, p) \in Nat
<1>1. MaxPathCost \in Nat
  BY DEF MaxPathCost, Unit
<1>2. CASE p = None
  BY <1>1, <1>2 DEF PathMetric
<1>3. CASE p # None
  <2>1. s.pmc[p] \in Nat /\ met[p] \in Nat
    BY <1>3 DEF NodeState
  <2> QED
    BY <1>1, <1>3, <2>1 DEF PathMetric
<1> QED
  BY <1>2, <1>3

LEMMA DioType ==
  ASSUME TypeOK, NEW m \in Node
  PROVE  Dio(m).rank \in Rank /\ Dio(m).version \in Nat /\ Dio(m).mc \in Nat
<1>1. node[m] \in NodeState /\ metric[m] \in [Node -> Nat]
  BY DEF TypeOK
<1>2. node[m].preferred \in Node \cup {None}
  BY <1>1 DEF NodeState
<1>3. PathMetric(node[m], metric[m], node[m].preferred) \in Nat
  BY <1>1, <1>2, PathMetricType
<1> QED
  BY <1>1, <1>3 DEF Dio, NodeState

-----------------------------------------------------------------------------
(* The operators on the state of a node.                                    *)

\* All neighbours of a node but one fit a table of |Node| - 1 entries.
LEMMA RoomForOne ==
  ASSUME NEW n \in Node, NEW m \in Node, n # m,
         NEW R \in SUBSET (Node \ {n, m}), Cardinality(Node) <= DefrtSize + 1
  PROVE  Cardinality(R) < DefrtSize
<1>1. IsFiniteSet(Node) /\ IsFiniteSet(Node \ {n}) /\ IsFiniteSet((Node \ {n}) \ {m})
  BY NodeAssumption, FS_RemoveElement
<1>2. Cardinality(Node \ {n}) = Cardinality(Node) - 1
  BY <1>1, FS_RemoveElement
<1>3. Cardinality((Node \ {n}) \ {m}) = Cardinality(Node \ {n}) - 1
  BY <1>1, FS_RemoveElement
<1>4. R \subseteq (Node \ {n}) \ {m}
  OBVIOUS
<1>5. Cardinality(R) <= Cardinality((Node \ {n}) \ {m}) /\ IsFiniteSet(R)
  BY <1>1, <1>4, FS_Subset
<1>6. Cardinality(R) \in Nat /\ Cardinality(Node) \in Nat
      /\ Cardinality(Node \ {n}) \in Nat /\ Cardinality((Node \ {n}) \ {m}) \in Nat
  BY <1>1, <1>5, FS_CardinalityType
<1> QED
  BY <1>2, <1>3, <1>5, <1>6, BoundAssumption

LEMMA SetDefaultRouteEffect ==
  ASSUME NEW n \in Node, NEW s \in NodeState, NEW m \in s.parents,
         s.parents \subseteq Node \ {n}, s.defrt \subseteq s.parents
  PROVE  LET t == SetDefaultRoute(s, m)
         IN /\ t \in NodeState
            /\ t.defrt \subseteq s.parents
            /\ t.def_route # None => t.def_route \in t.defrt
            /\ Cardinality(Node) <= DefrtSize + 1 => m \in t.defrt
            /\ t.parents = s.parents /\ t.updated = s.updated
            /\ t.preferred = s.preferred /\ t.joined = s.joined
            /\ t.rank = s.rank /\ t.min_rank = s.min_rank
            /\ t.prank = s.prank /\ t.version = s.version
<1> DEFINE rest == s.defrt \ {s.def_route}
<1> DEFINE room == m \notin rest /\ Cardinality(rest) < DefrtSize
<1>1. m \in Node /\ n # m /\ rest \in SUBSET s.parents /\ rest \in SUBSET Node
  BY DEF NodeState
<1>2. SetDefaultRoute(s, m) =
        [s EXCEPT !.defrt = IF room THEN rest \cup {m} ELSE rest,
                  !.def_route = IF room THEN m ELSE None, !.taken = FALSE]
  BY DEF SetDefaultRoute
<1>3. ASSUME Cardinality(Node) <= DefrtSize + 1, m \notin rest
      PROVE  Cardinality(rest) < DefrtSize
  <2>1. rest \in SUBSET (Node \ {n, m})
    BY <1>1, <1>3
  <2> QED
    BY <2>1, <1>1, <1>3, RoomForOne
<1>4. CASE room
  <2>1. SetDefaultRoute(s, m) =
          [s EXCEPT !.defrt = rest \cup {m}, !.def_route = m, !.taken = FALSE]
    BY <1>2, <1>4
  <2>2. rest \cup {m} \in SUBSET Node /\ rest \cup {m} \subseteq s.parents
    BY <1>1
  <2> HIDE DEF rest
  <2> QED
    BY <2>1, <2>2, <1>1 DEF NodeState
<1>5. CASE ~room
  <2>1. SetDefaultRoute(s, m) =
          [s EXCEPT !.defrt = rest, !.def_route = None, !.taken = FALSE]
    BY <1>2, <1>5
  <2>2. Cardinality(Node) <= DefrtSize + 1 => m \in rest
    BY <1>3, <1>5
  <2> HIDE DEF rest
  <2> QED
    BY <2>1, <2>2, <1>1 DEF NodeState
<1> QED
  BY <1>4, <1>5

LEMMA RemoveParentsEffect ==
  ASSUME NEW n, NEW s, Sound(n, s)
  PROVE  LET t == RemoveParents(s)
         IN /\ Sound(n, t)
            /\ t.parents = {} /\ t.preferred = None /\ t.defrt = {} /\ t.updated = {}
            /\ t.joined = s.joined /\ t.rank = s.rank /\ t.min_rank = s.min_rank
            /\ t.version = s.version
<1>1. s.defrt \ s.parents = {} /\ s.defrt \cap s.parents = s.defrt
  BY DEF Sound
<1>2. RemoveParents(s).def_route # None => RemoveParents(s).taken
  BY <1>1 DEF Sound, RemoveParents, NodeState
<1>3. [m \in Node |-> Infinite] \in [Node -> Rank] /\ [m \in Node |-> 0] \in [Node -> Nat]
  BY DEF Rank, Infinite
<1>4. RemoveParents(s) \in NodeState
  BY <1>1, <1>3 DEF Sound, RemoveParents, NodeState
<1>5. s \in NodeState
  BY DEF Sound
<1>6. LET t == RemoveParents(s)
      IN /\ t.parents = {} /\ t.preferred = None /\ t.defrt = {} /\ t.updated = {}
         /\ t.joined = s.joined /\ t.rank = s.rank /\ t.min_rank = s.min_rank
         /\ t.version = s.version
  BY <1>1, <1>5 DEF RemoveParents, NodeState
<1> QED
  BY <1>2, <1>4, <1>6 DEF Sound

LEMMA AddParentEffect ==
  ASSUME NEW n \in Node, NEW s, Sound(n, s), NEW m \in Node, m # n, NEW dio,
         dio.rank \in Rank, dio.mc \in Nat, NEW flag \in BOOLEAN
  PROVE  LET t == AddParent(s, m, dio, flag)
         IN /\ t \in NodeState
            /\ t.parents = s.parents \cup {m}
            /\ t.updated \subseteq t.parents
            /\ t.prank[m] = dio.rank
            /\ t.defrt = s.defrt /\ t.def_route = s.def_route /\ t.taken = s.taken
            /\ t.preferred = s.preferred /\ t.joined = s.joined /\ t.rank = s.rank
            /\ t.min_rank = s.min_rank /\ t.version = s.version
<1> DEFINE pr == [s.prank EXCEPT ![m] = dio.rank]
           pm == [s.pmc EXCEPT ![m] = dio.mc]
<1>1. s \in NodeState /\ s.updated \subseteq s.parents
  BY DEF Sound
<1>2. pr \in [Node -> Rank] /\ pr[m] = dio.rank /\ pm \in [Node -> Nat]
  BY <1>1 DEF NodeState
<1>3. \E up \in SUBSET (s.parents \cup {m}) : AddParent(s, m, dio, flag) =
        [s EXCEPT !.parents = s.parents \cup {m}, !.prank = pr, !.pmc = pm,
                  !.updated = up]
  <2>1. CASE flag
    <3>1. s.updated \cup {m} \in SUBSET (s.parents \cup {m})
      BY <1>1
    <3>2. AddParent(s, m, dio, flag) =
            [s EXCEPT !.parents = s.parents \cup {m}, !.prank = pr, !.pmc = pm,
                      !.updated = s.updated \cup {m}]
      BY <1>1, <2>1 DEF AddParent, NodeState
    <3> QED
      BY <3>1, <3>2
  <2>2. CASE ~flag
    <3>1. s.updated \ {m} \in SUBSET (s.parents \cup {m})
      BY <1>1
    <3>2. AddParent(s, m, dio, flag) =
            [s EXCEPT !.parents = s.parents \cup {m}, !.prank = pr, !.pmc = pm,
                      !.updated = s.updated \ {m}]
      BY <1>1, <2>2 DEF AddParent, NodeState
    <3> QED
      BY <3>1, <3>2
  <2> QED
    BY <2>1, <2>2
<1>4. PICK up \in SUBSET (s.parents \cup {m}) : AddParent(s, m, dio, flag) =
        [s EXCEPT !.parents = s.parents \cup {m}, !.prank = pr, !.pmc = pm,
                  !.updated = up]
  BY <1>3
<1>5. s.parents \cup {m} \in SUBSET Node /\ up \in SUBSET Node
  BY <1>1 DEF NodeState
<1> HIDE DEF pr, pm
<1> QED
  BY <1>1, <1>2, <1>4, <1>5 DEF NodeState

LEMMA PreferEffect ==
  ASSUME NEW n, n \in Node, NEW s, Sound(n, s), Routed(s), NEW best \in s.parents
  PROVE  LET t == Prefer(s, best)
         IN /\ Sound(n, t) /\ Routed(t)
            /\ t.preferred = best /\ t.joined = s.joined /\ t.version = s.version
            /\ t.min_rank = s.min_rank /\ t.prank = s.prank
<1>1. s \in NodeState /\ best \in Node
  BY DEF Sound, NodeState
<1>2. CASE s.preferred = best
  BY <1>2 DEF Prefer
<1>3. CASE s.preferred # best
  <2> DEFINE u == [s EXCEPT !.preferred = best]
             t == SetDefaultRoute(u, best)
  <2>1. /\ u \in NodeState /\ u.parents = s.parents /\ u.defrt = s.defrt
        /\ u.preferred = best /\ u.joined = s.joined /\ u.version = s.version
        /\ u.min_rank = s.min_rank /\ u.prank = s.prank /\ u.updated = s.updated
    BY <1>1 DEF NodeState
  <2>2. s.parents \subseteq Node \ {n} /\ s.defrt \subseteq s.parents
    BY DEF Sound
  <2> HIDE DEF u
  <2>3. /\ t \in NodeState /\ t.defrt \subseteq u.parents
        /\ t.def_route # None => t.def_route \in t.defrt
        /\ Cardinality(Node) <= DefrtSize + 1 => best \in t.defrt
        /\ t.parents = u.parents /\ t.updated = u.updated
        /\ t.preferred = u.preferred /\ t.joined = u.joined
        /\ t.min_rank = u.min_rank /\ t.prank = u.prank /\ t.version = u.version
    BY <2>1, <2>2, SetDefaultRouteEffect
  <2>4. Prefer(s, best) = t
    BY <1>3 DEF Prefer, u
  <2> HIDE DEF t
  <2> QED
    BY <2>1, <2>2, <2>3, <2>4 DEF Sound, Routed
<1> QED
  BY <1>2, <1>3

WithRanks(s, rank, low) == [s EXCEPT !.rank = rank, !.min_rank = low]

\* A new rank changes nothing in how parents and routers hang together.
LEMMA RanksApart ==
  ASSUME NEW n, NEW s, Sound(n, s), NEW rank \in Rank, NEW low \in Rank
  PROVE  LET t == WithRanks(s, rank, low)
         IN /\ Sound(n, t)
            /\ Routed(s) => Routed(t)
            /\ t.preferred = s.preferred /\ t.joined = s.joined /\ t.version = s.version
            /\ t.prank = s.prank /\ t.updated = s.updated
            /\ t.rank = rank /\ t.min_rank = low
<1> DEFINE t == WithRanks(s, rank, low)
<1>1. s \in NodeState
  BY DEF Sound
<1>2. /\ t \in NodeState /\ t.rank = rank /\ t.min_rank = low
      /\ t.parents = s.parents /\ t.updated = s.updated /\ t.defrt = s.defrt
      /\ t.def_route = s.def_route /\ t.preferred = s.preferred
      /\ t.joined = s.joined /\ t.version = s.version /\ t.prank = s.prank
      /\ t.taken = s.taken
  BY <1>1 DEF NodeState, WithRanks
<1> HIDE DEF t
<1>3. Sound(n, t) /\ (Routed(s) => Routed(t))
  BY <1>2 DEF Sound, Routed
<1> QED
  BY <1>2, <1>3 DEF t

LEMMA LocalRepairEffect ==
  ASSUME NEW n, NEW s, Sound(n, s), NEW met
  PROVE  LET t == LocalRepair(s)
         IN /\ Sound(n, t) /\ Routed(t) /\ Ranked(t, met)
            /\ t.joined = s.joined /\ t.version = s.version
            /\ t.min_rank = s.min_rank
<1> DEFINE r == RemoveParents(s)
           t == WithRanks(r, Infinite, r.min_rank)
<1>1. /\ Sound(n, r) /\ r.preferred = None /\ r.joined = s.joined
      /\ r.min_rank = s.min_rank /\ r.version = s.version
  BY RemoveParentsEffect
<1>2. r \in NodeState /\ Infinite \in Rank /\ r.min_rank \in Rank
  BY <1>1 DEF Sound, NodeState, Rank, Infinite
<1>3. LocalRepair(s) = t
  BY <1>2 DEF LocalRepair, NodeState, WithRanks
<1> HIDE DEF r
<1>4. Sound(n, t) /\ t.preferred = None /\ t.joined = r.joined
      /\ t.version = r.version /\ t.min_rank = r.min_rank
  BY <1>1, <1>2, RanksApart
<1> HIDE DEF t
<1> QED
  BY <1>1, <1>3, <1>4 DEF Routed, Ranked

LEMMA SettleEffect ==
  ASSUME NEW n \in Node, NEW s, Sound(n, s), Routed(s), NEW met \in [Node -> Nat],
         NEW best \in Candidates(s)
  PROVE  LET t == Settle(s, met, best)
         IN /\ Sound(n, t) /\ Routed(t) /\ Ranked(t, met)
            /\ t.joined = s.joined /\ t.version = s.version
            /\ t.min_rank <= s.min_rank
<1> DEFINE rank == RankThrough(s.prank[best], met[best])
           p == Prefer(s, best)
           t == [p EXCEPT !.rank = rank]
<1>1. /\ s \in NodeState /\ best \in s.parents /\ best \in Node
      /\ s.prank[best] \in Rank /\ met[best] \in Nat /\ s.min_rank \in Rank
  BY DEF Sound, NodeState, Candidates
<1>2. rank \in Rank /\ s.prank[best] <= rank
  BY <1>1, RankThroughType
<1>3. /\ Sound(n, p) /\ Routed(p) /\ p.preferred = best /\ p.joined = s.joined
      /\ p.version = s.version /\ p.min_rank = s.min_rank /\ p.prank = s.prank
  BY <1>1, PreferEffect
<1>4. p \in NodeState
  BY <1>3 DEF Sound
<1>5. Settle(s, met, best) =
        IF rank < s.min_rank THEN [t EXCEPT !.min_rank = rank]
        ELSE IF Acceptable(s, s.prank[best]) THEN t ELSE LocalRepair(t)
  BY DEF Settle
<1> HIDE DEF rank, p
<1>0. \A low \in Rank : LET u == WithRanks(p, rank, low)
        IN /\ Sound(n, u) /\ Routed(u) /\ u.preferred = best /\ u.joined = s.joined
           /\ u.version = s.version /\ u.prank = s.prank /\ u.rank = rank
           /\ u.min_rank = low
  BY <1>2, <1>3, RanksApart
<1>6. CASE rank < s.min_rank
  <2> DEFINE u == WithRanks(p, rank, rank)
  <2>1. Settle(s, met, best) = u
    BY <1>4, <1>5, <1>6 DEF NodeState, WithRanks
  <2>2. /\ Sound(n, u) /\ Routed(u) /\ u.preferred = best /\ u.joined = s.joined
        /\ u.version = s.version /\ u.prank = s.prank /\ u.rank = rank
        /\ u.min_rank = rank
    BY <1>0, <1>2
  <2> HIDE DEF u
  <2>3. Ranked(u, met)
    <3>1. rank = RankThrough(s.prank[best], met[best])
      BY DEF rank
    <3>2. rank <= rank /\ s.prank[best] <= rank + MaxRankInc
      BY <1>1, <1>2 DEF Rank, Infinite, MaxRankInc
    <3> QED
      BY <2>2, <3>1, <3>2 DEF Ranked
  <2> QED
    BY <1>1, <1>2, <1>6, <2>1, <2>2, <2>3 DEF Rank
<1>7. CASE ~(rank < s.min_rank)
  <2> DEFINE u == WithRanks(p, rank, s.min_rank)
  <2>1. t = u
    BY <1>3, <1>4 DEF NodeState, WithRanks
  <2>2. /\ Sound(n, u) /\ Routed(u) /\ u.preferred = best /\ u.joined = s.joined
        /\ u.version = s.version /\ u.prank = s.prank /\ u.rank = rank
        /\ u.min_rank = s.min_rank
    BY <1>0, <1>1
  <2> HIDE DEF u, t
  <2>3. CASE Acceptable(s, s.prank[best])
    <3>1. Ranked(u, met)
      BY <1>1, <1>2, <1>7, <2>2, <2>3 DEF Ranked, rank, Rank, Acceptable
    <3>2. Settle(s, met, best) = u
      BY <1>5, <1>7, <2>1, <2>3
    <3>3. s.min_rank <= s.min_rank
      BY <1>1 DEF Rank
    <3> QED
      BY <2>2, <3>1, <3>2, <3>3
  <2>4. CASE ~Acceptable(s, s.prank[best])
    <3>1. Settle(s, met, best) = LocalRepair(u)
      BY <1>5, <1>7, <2>1, <2>4
    <3>2. LET v == LocalRepair(u)
          IN /\ Sound(n, v) /\ Routed(v) /\ Ranked(v, met)
             /\ v.joined = u.joined /\ v.version = u.version
             /\ v.min_rank = u.min_rank
      BY <2>2, LocalRepairEffect
    <3> QED
      BY <1>1, <2>2, <3>1, <3>2 DEF Rank
  <2> QED
    BY <2>3, <2>4
<1> QED
  BY <1>6, <1>7

LEMMA ParentEventEffect ==
  ASSUME NEW n \in Node, NEW s, Sound(n, s), Routed(s), NEW met \in [Node -> Nat],
         NEW t \in ParentEvent(s, met)
  PROVE  /\ Sound(n, t) /\ Routed(t) /\ Ranked(t, met)
         /\ t.joined = s.joined /\ t.version = s.version
         /\ t.min_rank <= s.min_rank
<1>1. CASE Candidates(s) = {}
  <2>1. t = LocalRepair(s)
    BY <1>1 DEF ParentEvent
  <2>2. s.min_rank \in Nat
    BY DEF Sound, NodeState, Rank
  <2> QED
    BY <2>1, <2>2, LocalRepairEffect
<1>2. CASE Candidates(s) # {}
  <2>1. PICK best \in BestParents(s, met) : t = Settle(s, met, best)
    BY <1>2 DEF ParentEvent
  <2>2. best \in Candidates(s)
    BY DEF BestParents
  <2> QED
    BY <2>1, <2>2, SettleEffect
<1> QED
  BY <1>1, <1>2

-----------------------------------------------------------------------------
(* The steps.                                                               *)

\* Most steps change one node and keep every link metric.
LEMMA OneNode ==
  ASSUME IInv, NEW n \in Node, NEW t, node' = [node EXCEPT ![n] = t],
         UNCHANGED metric, faults' \in 0 .. MaxFaults,
         Good(n, t, metric[n]), Falls(node[n], t)
  PROVE  IInv' /\ MinRanksFall
<1>1. node \in [Node -> NodeState] /\ metric \in [Node -> [Node -> Nat]]
  BY DEF IInv, TypeOK
<1>2. t \in NodeState
  BY DEF Good, Sound
<1>3. TypeOK'
  BY <1>1, <1>2 DEF TypeOK
<1>4. ASSUME NEW k \in Node
      PROVE  Good(k, node'[k], metric[k]) /\ Falls(node[k], node'[k])
  <2>1. CASE k = n
    BY <1>1, <2>1
  <2>2. CASE k # n
    <3>1. node'[k] = node[k] /\ Good(k, node[k], metric[k])
      BY <1>1, <2>2 DEF IInv
    <3>2. node[k].min_rank <= node[k].min_rank
      BY <1>1 DEF NodeState, Rank
    <3> QED
      BY <3>1, <3>2 DEF Falls
  <2> QED
    BY <2>1, <2>2
<1> QED
  BY <1>3, <1>4 DEF IInv, MinRanksFall

\* What the invariant says of one node, in the form the steps use.
LEMMA NodeFacts ==
  ASSUME IInv, NEW n \in Node
  PROVE  /\ node[n] \in NodeState /\ metric[n] \in [Node -> Nat]
         /\ Sound(n, node[n]) /\ Routed(node[n]) /\ Ranked(node[n], metric[n])
         /\ n = Root => AtRest(node[n])
         /\ node[n].min_rank \in Nat /\ node[n].version \in Nat
         /\ faults \in 0 .. MaxFaults
BY DEF IInv, TypeOK, Good, NodeState, Rank

LEMMA HearsFacts ==
  ASSUME IInv, NEW n \in Node, NEW m \in Node, Hears(n, m)
  PROVE  /\ m # n /\ metric[n][m] \in Nat
         /\ Dio(m).rank \in Rank /\ Dio(m).version \in Nat /\ Dio(m).mc \in Nat
<1>1. TypeOK
  BY DEF IInv
<1>2. m # n
  BY LinkAssumption DEF Hears
<1> QED
  BY <1>1, <1>2, DioType DEF TypeOK

\* A neighbour that becomes the first parent, before the default router is set.
Adopted(s, m, dio, flag, version, preferred, rank) ==
  [AddParent(s, m, dio, flag) EXCEPT
     !.joined = TRUE, !.version = version, !.preferred = preferred,
     !.rank = rank, !.min_rank = rank]

LEMMA FirstParent ==
  ASSUME NEW n \in Node, NEW s, Sound(n, s), s.parents = {}, NEW m \in Node, m # n,
         NEW dio, dio.rank \in Rank, dio.mc \in Nat, NEW flag \in BOOLEAN,
         NEW version \in Nat, NEW preferred \in {m, None}, NEW rank \in Rank
  PROVE  LET t == SetDefaultRoute(Adopted(s, m, dio, flag, version, preferred, rank), m)
         IN /\ Sound(n, t) /\ Routed(t)
            /\ t.version = version /\ t.preferred = preferred
            /\ t.rank = rank /\ t.min_rank = rank /\ t.prank[m] = dio.rank
<1> DEFINE a == AddParent(s, m, dio, flag)
           u == Adopted(s, m, dio, flag, version, preferred, rank)
           t == SetDefaultRoute(u, m)
<1>1. /\ a \in NodeState /\ a.parents = s.parents \cup {m}
      /\ a.updated \subseteq a.parents /\ a.prank[m] = dio.rank /\ a.defrt = s.defrt
  BY AddParentEffect
<1>0. u = [a EXCEPT !.joined = TRUE, !.version = version, !.preferred = preferred,
                     !.rank = rank, !.min_rank = rank]
  BY DEF Adopted
<1> HIDE DEF a, u
<1>2. s.defrt = {} /\ a.parents = {m} /\ a.defrt = {}
  BY <1>1 DEF Sound
<1>3. /\ u \in NodeState /\ u.parents = {m} /\ u.updated \subseteq {m}
      /\ u.prank[m] = dio.rank /\ u.defrt = {} /\ u.joined
      /\ u.version = version /\ u.preferred = preferred
      /\ u.rank = rank /\ u.min_rank = rank
  BY <1>0, <1>1, <1>2 DEF NodeState
<1>4. u \in NodeState /\ m \in u.parents /\ u.parents \subseteq Node \ {n} /\ u.defrt \subseteq u.parents
  BY <1>3
<1>5. /\ t \in NodeState /\ t.defrt \subseteq u.parents
      /\ t.def_route # None => t.def_route \in t.defrt
      /\ Cardinality(Node) <= DefrtSize + 1 => m \in t.defrt
      /\ t.parents = u.parents /\ t.updated = u.updated
      /\ t.preferred = u.preferred /\ t.joined = u.joined
      /\ t.rank = u.rank /\ t.min_rank = u.min_rank
      /\ t.prank = u.prank /\ t.version = u.version
  BY <1>4, SetDefaultRouteEffect
<1> HIDE DEF t
<1>6. Sound(n, t) /\ Routed(t)
  BY <1>3, <1>4, <1>5 DEF Sound, Routed
<1> QED
  BY <1>3, <1>5, <1>6 DEF u, t

LEMMA FlagsType ==
  ASSUME NEW s
  PROVE  FlagsOf(s) \subseteq BOOLEAN
BY DEF FlagsOf

LEMMA JoinDagStep ==
  ASSUME IInv, NEW n \in Node, NEW m \in Node, JoinDag(n, m)
  PROVE  IInv' /\ MinRanksFall
<1> DEFINE s == node[n]
           rank == RankThrough(Dio(m).rank, metric[n][m])
           u(flag) == Adopted(s, m, Dio(m), flag, Dio(m).version, m, rank)
           t(flag) == SetDefaultRoute(u(flag), m)
<1>1. /\ Sound(n, s) /\ (n = Root => AtRest(s)) /\ ~s.joined
      /\ faults \in 0 .. MaxFaults
  BY NodeFacts DEF JoinDag
<1>2. s.parents = {} /\ n # Root
  BY <1>1 DEF Sound, AtRest
<1>3. /\ m # n /\ metric[n][m] \in Nat
      /\ Dio(m).rank \in Rank /\ Dio(m).version \in Nat /\ Dio(m).mc \in Nat
  BY HearsFacts DEF JoinDag
<1>4. rank \in Rank /\ Dio(m).rank <= rank
  BY <1>3, RankThroughType
<1>5. node \in [Node -> NodeState]
  BY DEF IInv, TypeOK
<1>6. PICK flag \in BOOLEAN : node' = [node EXCEPT ![n] = t(flag)]
  BY <1>5, FlagsType DEF JoinDag, Adopted
<1>7. /\ Sound(n, t(flag)) /\ Routed(t(flag)) /\ t(flag).preferred = m
      /\ t(flag).rank = rank /\ t(flag).min_rank = rank
      /\ t(flag).prank[m] = Dio(m).rank
  BY <1>1, <1>2, <1>3, <1>4, FirstParent
<1>8. Ranked(t(flag), metric[n])
  <2>1. rank = RankThrough(Dio(m).rank, metric[n][m])
    OBVIOUS
  <2> HIDE DEF t, rank
  <2>2. rank <= rank /\ Dio(m).rank <= rank + MaxRankInc
    BY <1>3, <1>4 DEF Rank, Infinite, MaxRankInc
  <2> QED
    BY <1>7, <2>1, <2>2 DEF Ranked
<1>9. Falls(s, t(flag))
  BY <1>1 DEF Falls
<1>10. Good(n, t(flag), metric[n])
  BY <1>2, <1>7, <1>8 DEF Good
<1>11. UNCHANGED metric /\ faults' \in 0 .. MaxFaults
  BY <1>1 DEF JoinDag
<1> HIDE DEF t, s
<1> QED
  BY <1>6, <1>9, <1>10, <1>11, OneNode DEF s

LEMMA GlobalRepairStep ==
  ASSUME IInv, NEW n \in Node, NEW m \in Node, GlobalRepair(n, m)
  PROVE  IInv' /\ MinRanksFall
<1> DEFINE s == node[n]
           r == RemoveParents(s)
           rank == RankPlus(Dio(m).rank, InitialMetric)
           t(flag) == SetDefaultRoute(Adopted(r, m, Dio(m), flag, Dio(m).version, None, rank), m)
<1>1. /\ s \in NodeState /\ Sound(n, s) /\ (n = Root => AtRest(s)) /\ s.joined
      /\ s.rank # RootRank /\ Dio(m).version > s.version /\ s.version \in Nat
      /\ faults \in 0 .. MaxFaults
  BY NodeFacts DEF GlobalRepair
<1>2. n # Root
  BY <1>1 DEF AtRest
<1>3. /\ m # n /\ metric[n][m] \in Nat
      /\ Dio(m).rank \in Rank /\ Dio(m).version \in Nat /\ Dio(m).mc \in Nat
  BY HearsFacts DEF GlobalRepair
<1>4. rank \in Rank
  BY <1>3, RankPlusType DEF InitialMetric
<1>5. node \in [Node -> NodeState]
  BY DEF IInv, TypeOK
<1>6. Sound(n, r) /\ r.parents = {} /\ r.preferred = None /\ r.joined
  <2> HIDE DEF s
  <2> QED
    BY <1>1, RemoveParentsEffect
<1>7. PICK flag \in BOOLEAN : node' = [node EXCEPT ![n] =
        SetDefaultRoute([AddParent(r, m, Dio(m), flag) EXCEPT
           !.version = Dio(m).version, !.rank = rank, !.min_rank = rank], m)]
  BY <1>5, FlagsType DEF GlobalRepair
<1>8. [AddParent(r, m, Dio(m), flag) EXCEPT
         !.version = Dio(m).version, !.rank = rank, !.min_rank = rank]
        = Adopted(r, m, Dio(m), flag, Dio(m).version, None, rank)
  <2> DEFINE a == AddParent(r, m, Dio(m), flag)
  <2> HIDE DEF r, rank
  <2>1. a \in NodeState /\ a.preferred = None /\ a.joined
    BY <1>3, <1>6, AddParentEffect
  <2>2. a.joined = TRUE
    BY <2>1 DEF NodeState
  <2>3. Adopted(r, m, Dio(m), flag, Dio(m).version, None, rank) =
          [a EXCEPT !.joined = TRUE, !.version = Dio(m).version,
                    !.preferred = None, !.rank = rank, !.min_rank = rank]
    BY DEF Adopted
  <2> HIDE DEF a
  <2>4. [a EXCEPT !.version = Dio(m).version, !.rank = rank, !.min_rank = rank] =
          [a EXCEPT !.joined = TRUE, !.version = Dio(m).version,
                    !.preferred = None, !.rank = rank, !.min_rank = rank]
    BY <2>1, <2>2 DEF NodeState
  <2> QED
    BY <2>3, <2>4 DEF a
<1>9. node' = [node EXCEPT ![n] = t(flag)]
  BY <1>7, <1>8
<1> HIDE DEF r, rank
<1>10. /\ Sound(n, t(flag)) /\ Routed(t(flag)) /\ t(flag).preferred = None
       /\ t(flag).version = Dio(m).version
  BY <1>3, <1>4, <1>6, FirstParent
<1> HIDE DEF t
<1>11. Good(n, t(flag), metric[n])
  BY <1>2, <1>10 DEF Good, Ranked
<1>12. t(flag).version # s.version
  BY <1>1, <1>3, <1>10
<1>13. Falls(s, t(flag))
  BY <1>12 DEF Falls
<1>14. UNCHANGED metric /\ faults' \in 0 .. MaxFaults
  BY <1>1 DEF GlobalRepair
<1> HIDE DEF s
<1> QED
  BY <1>9, <1>11, <1>13, <1>14, OneNode DEF s

\* A change of version alone.
LEMMA NewVersion ==
  ASSUME IInv, NEW n \in Node, NEW version \in Nat, version # node[n].version,
         node' = [node EXCEPT ![n] = [node[n] EXCEPT !.version = version]],
         UNCHANGED <<metric, faults>>
  PROVE  IInv' /\ MinRanksFall
<1> DEFINE s == node[n]
           t == [s EXCEPT !.version = version]
<1>1. s \in NodeState /\ Good(n, s, metric[n]) /\ faults \in 0 .. MaxFaults
  BY NodeFacts DEF IInv
<1>2. /\ t \in NodeState /\ t.version = version /\ t.joined = s.joined
      /\ t.rank = s.rank /\ t.min_rank = s.min_rank /\ t.parents = s.parents
      /\ t.prank = s.prank /\ t.updated = s.updated /\ t.preferred = s.preferred
      /\ t.def_route = s.def_route /\ t.defrt = s.defrt /\ t.taken = s.taken
  BY <1>1 DEF NodeState
<1> HIDE DEF t
<1>3. Good(n, t, metric[n])
  BY <1>1, <1>2 DEF Good, Sound, Routed, Ranked, AtRest
<1>4. Falls(s, t)
  BY <1>2 DEF Falls
<1>5. node' = [node EXCEPT ![n] = t]
  BY DEF t
<1> HIDE DEF s
<1> QED
  BY <1>1, <1>3, <1>4, <1>5, OneNode DEF s

LEMMA RootOvertakesStep ==
  ASSUME IInv, NEW n \in Node, NEW m \in Node, RootOvertakes(n, m)
  PROVE  IInv' /\ MinRanksFall
<1>1. node[n].version \in Nat /\ Dio(m).version \in Nat
  BY NodeFacts, HearsFacts DEF RootOvertakes
<1>2. Dio(m).version > node[n].version
  BY DEF RootOvertakes
<1>3. Dio(m).version + 1 \in Nat /\ Dio(m).version + 1 # node[n].version
  BY <1>1, <1>2
<1>4. node' = [node EXCEPT ![n] = [node[n] EXCEPT !.version = Dio(m).version + 1]]
  BY DEF RootOvertakes
<1>5. UNCHANGED <<metric, faults>>
  BY DEF RootOvertakes
<1> QED
  BY <1>3, <1>4, <1>5, NewVersion

LEMMA RepairDagStep ==
  ASSUME IInv, RepairDag
  PROVE  IInv' /\ MinRanksFall
<1>1. Root \in Node /\ node[Root].version \in Nat
  BY NodeAssumption, NodeFacts
<1>2. node' = [node EXCEPT ![Root] = [node[Root] EXCEPT !.version = node[Root].version + 1]]
  BY DEF RepairDag
<1>3. UNCHANGED <<metric, faults>>
  BY DEF RepairDag
<1>4. node[Root].version + 1 \in Nat /\ node[Root].version + 1 # node[Root].version
  BY <1>1
<1> QED
  BY <1>1, <1>2, <1>3, <1>4, NewVersion

\* A recalculation at n, of a state s that differs from the node's in parents only.
LEMMA EventStep ==
  ASSUME IInv, NEW n \in Node, n # Root, NEW s, Sound(n, s), Routed(s),
         s.joined = node[n].joined, s.version = node[n].version,
         s.min_rank = node[n].min_rank, NEW t \in ParentEvent(s, metric[n]),
         node' = [node EXCEPT ![n] = t], UNCHANGED <<metric, faults>>
  PROVE  IInv' /\ MinRanksFall
<1>1. metric[n] \in [Node -> Nat] /\ faults \in 0 .. MaxFaults
  BY NodeFacts
<1>2. /\ Sound(n, t) /\ Routed(t) /\ Ranked(t, metric[n])
      /\ t.joined = s.joined /\ t.version = s.version /\ t.min_rank <= s.min_rank
  BY <1>1, ParentEventEffect
<1>3. Good(n, t, metric[n]) /\ Falls(node[n], t)
  BY <1>2 DEF Good, Falls
<1> QED
  BY <1>1, <1>3, OneNode

LEMMA CandidateDioStep ==
  ASSUME IInv, NEW n \in Node, NEW m \in Node, CandidateDio(n, m)
  PROVE  IInv' /\ MinRanksFall
<1>1. /\ node[n] \in NodeState /\ Sound(n, node[n]) /\ Routed(node[n])
      /\ (n = Root => AtRest(node[n])) /\ node[n].joined /\ node[n].rank # RootRank
  BY NodeFacts DEF CandidateDio
<1>2. n # Root
  BY <1>1 DEF AtRest
<1>3. /\ m # n /\ Dio(m).rank \in Rank /\ Dio(m).mc \in Nat
  BY HearsFacts DEF CandidateDio
<1>4. PICK flag \in BOOLEAN :
        \E t \in ParentEvent(AddParent(node[n], m, Dio(m), flag), metric[n]) :
          node' = [node EXCEPT ![n] = t]
  BY FlagsType DEF CandidateDio
<1> DEFINE s == AddParent(node[n], m, Dio(m), flag)
<1>5. /\ s \in NodeState /\ s.parents = node[n].parents \cup {m}
      /\ s.updated \subseteq s.parents
      /\ s.defrt = node[n].defrt /\ s.def_route = node[n].def_route
      /\ s.taken = node[n].taken /\ s.preferred = node[n].preferred
      /\ s.joined = node[n].joined
      /\ s.min_rank = node[n].min_rank /\ s.version = node[n].version
  <2> DEFINE d == Dio(m)
             o == node[n]
  <2>1. Sound(n, o) /\ m # n /\ d.rank \in Rank /\ d.mc \in Nat
    BY <1>1, <1>3
  <2> HIDE DEF d, o
  <2>2. LET a == AddParent(o, m, d, flag)
        IN /\ a \in NodeState
           /\ a.parents = o.parents \cup {m}
           /\ a.updated \subseteq a.parents
           /\ a.defrt = o.defrt /\ a.def_route = o.def_route /\ a.taken = o.taken
           /\ a.preferred = o.preferred /\ a.joined = o.joined
           /\ a.min_rank = o.min_rank /\ a.version = o.version
    BY <2>1, AddParentEffect
  <2> QED
    BY <2>2 DEF d, o
<1> HIDE DEF s
<1>6. Sound(n, s) /\ Routed(s)
  BY <1>1, <1>3, <1>5 DEF Sound, Routed
<1>7. PICK t \in ParentEvent(s, metric[n]) : node' = [node EXCEPT ![n] = t]
  BY <1>4 DEF s
<1>8. UNCHANGED <<metric, faults>>
  BY DEF CandidateDio
<1> QED
  BY <1>2, <1>5, <1>6, <1>7, <1>8, EventStep

LEMMA RecalculateRanksStep ==
  ASSUME IInv, NEW n \in Node, RecalculateRanks(n)
  PROVE  IInv' /\ MinRanksFall
<1>1. /\ node[n] \in NodeState /\ Sound(n, node[n]) /\ Routed(node[n])
      /\ (n = Root => AtRest(node[n]))
  BY NodeFacts
<1>2. PICK p \in node[n].updated :
        \E t \in ParentEvent([node[n] EXCEPT !.updated = node[n].updated \ {p}], metric[n]) :
          node' = [node EXCEPT ![n] = t] /\ UNCHANGED <<metric, faults>>
  BY DEF RecalculateRanks
<1>3. n # Root
  BY <1>1, <1>2 DEF Sound, AtRest
<1> DEFINE s == [node[n] EXCEPT !.updated = node[n].updated \ {p}]
<1>4. node[n].updated \ {p} \in SUBSET node[n].updated
  OBVIOUS
<1>5. /\ s \in NodeState /\ s.parents = node[n].parents
      /\ s.updated \subseteq node[n].updated
      /\ s.defrt = node[n].defrt /\ s.def_route = node[n].def_route
      /\ s.taken = node[n].taken /\ s.preferred = node[n].preferred
      /\ s.joined = node[n].joined
      /\ s.min_rank = node[n].min_rank /\ s.version = node[n].version
  BY <1>1, <1>4 DEF NodeState
<1> HIDE DEF s
<1>6. Sound(n, s) /\ Routed(s)
  BY <1>1, <1>5 DEF Sound, Routed
<1>7. PICK t \in ParentEvent(s, metric[n]) :
        node' = [node EXCEPT ![n] = t] /\ UNCHANGED <<metric, faults>>
  BY <1>2 DEF s
<1> QED
  BY <1>3, <1>5, <1>6, <1>7, EventStep

LEMMA ForgetEffect ==
  ASSUME NEW n, NEW s, Sound(n, s), NEW m \in s.parents
  PROVE  LET t == Forget(s, m)
         IN /\ t \in NodeState
            /\ t.parents = s.parents /\ t.updated = s.updated \cup {m}
            /\ t.defrt = s.defrt /\ t.taken = s.taken
            /\ t.def_route # None => t.def_route = s.def_route /\ s.def_route # m
            /\ t.preferred = s.preferred /\ t.joined = s.joined /\ t.rank = s.rank
            /\ t.min_rank = s.min_rank /\ t.version = s.version
            /\ \A k \in Node : k # m => t.prank[k] = s.prank[k]
<1> DEFINE route == IF s.def_route = m THEN None ELSE s.def_route
           pr == [s.prank EXCEPT ![m] = Infinite]
           up == s.updated \cup {m}
<1>1. s \in NodeState /\ m \in Node
  BY DEF Sound, NodeState
<1>2. /\ pr \in [Node -> Rank]
      /\ \A k \in Node : k # m => pr[k] = s.prank[k]
  BY <1>1 DEF NodeState, Rank, Infinite
<1>3. /\ route \in Node \cup {None}
      /\ route # None => route = s.def_route /\ s.def_route # m
  BY <1>1 DEF NodeState
<1>4. up \in SUBSET Node
  BY <1>1 DEF NodeState
<1>5. Forget(s, m) = [s EXCEPT !.def_route = route, !.prank = pr, !.updated = up]
  BY <1>1 DEF Forget, NodeState
<1> HIDE DEF route, pr
<1> QED
  BY <1>1, <1>2, <1>3, <1>4, <1>5 DEF NodeState

LEMMA WithoutRouterEffect ==
  ASSUME NEW s \in NodeState, NEW m
  PROVE  LET t == WithoutRouter(s, m)
         IN /\ t \in NodeState /\ t.defrt = s.defrt \ {m}
            /\ s.taken => t.taken
            /\ m = s.preferred \/ m = s.def_route => t.taken
            /\ t.parents = s.parents /\ t.updated = s.updated /\ t.prank = s.prank
            /\ t.def_route = s.def_route /\ t.preferred = s.preferred
            /\ t.joined = s.joined /\ t.rank = s.rank
            /\ t.min_rank = s.min_rank /\ t.version = s.version
<1> DEFINE taken == s.taken \/ m \in {s.preferred, s.def_route}
<1>1. s.defrt \ {m} \in SUBSET Node /\ taken \in BOOLEAN
  BY DEF NodeState
<1>2. /\ s.taken => taken
      /\ m = s.preferred \/ m = s.def_route => taken
  OBVIOUS
<1>3. WithoutRouter(s, m) = [s EXCEPT !.defrt = s.defrt \ {m}, !.taken = taken]
  BY DEF WithoutRouter
<1> HIDE DEF taken
<1> QED
  BY <1>1, <1>2, <1>3 DEF NodeState

\* In all these steps the node keeps its ranks, version and metrics.
LEMMA QuietStep ==
  ASSUME IInv, NEW n \in Node, NEW t, node' = [node EXCEPT ![n] = t],
         UNCHANGED metric, Disturb,
         Sound(n, t), Routed(t), Ranked(t, metric[n]), n = Root => AtRest(t),
         t.min_rank = node[n].min_rank
  PROVE  IInv' /\ MinRanksFall
<1>1. node[n].min_rank \in Nat /\ faults \in 0 .. MaxFaults
  BY NodeFacts
<1>2. faults' \in 0 .. MaxFaults
  BY <1>1, BoundAssumption DEF Disturb
<1>3. Good(n, t, metric[n]) /\ Falls(node[n], t)
  BY <1>1 DEF Good, Falls
<1> QED
  BY <1>2, <1>3, OneNode

LEMMA EvictNeighborStep ==
  ASSUME IInv, NEW n \in Node, NEW m \in Node, EvictNeighbor(n, m)
  PROVE  IInv' /\ MinRanksFall
<1> DEFINE s == node[n]
           t == Forget(s, m)
<1>1. /\ s \in NodeState /\ Sound(n, s) /\ Routed(s) /\ Ranked(s, metric[n])
      /\ (n = Root => AtRest(s)) /\ m \in s.parents
  BY NodeFacts DEF EvictNeighbor
<1>2. n # Root
  BY <1>1 DEF AtRest
<1>3. node' = [node EXCEPT ![n] = t] /\ UNCHANGED metric /\ Disturb
  BY DEF EvictNeighbor
<1> HIDE DEF s
<1>4. /\ t \in NodeState
      /\ t.parents = s.parents /\ t.updated = s.updated \cup {m}
      /\ t.defrt = s.defrt /\ t.taken = s.taken
      /\ t.def_route # None => t.def_route = s.def_route /\ s.def_route # m
      /\ t.preferred = s.preferred /\ t.joined = s.joined /\ t.rank = s.rank
      /\ t.min_rank = s.min_rank /\ t.version = s.version
      /\ \A k \in Node : k # m => t.prank[k] = s.prank[k]
  BY <1>1, ForgetEffect
<1> HIDE DEF t
<1>5. Sound(n, t) /\ Routed(t)
  BY <1>1, <1>4 DEF Sound, Routed
<1>6. Ranked(t, metric[n])
  <2>1. s.preferred # None => s.preferred \in Node
    BY <1>1 DEF NodeState
  <2> QED
    BY <1>1, <1>4, <2>1 DEF Ranked
<1> QED
  BY <1>2, <1>3, <1>4, <1>5, <1>6, QuietStep DEF s

LEMMA ProbeFailedStep ==
  ASSUME IInv, NEW n \in Node, NEW m \in Node, ProbeFailed(n, m)
  PROVE  IInv' /\ MinRanksFall
<1> DEFINE s == node[n]
           f == Forget(s, m)
           t == WithoutRouter(f, m)
<1>1. /\ s \in NodeState /\ Sound(n, s) /\ Routed(s) /\ Ranked(s, metric[n])
      /\ (n = Root => AtRest(s)) /\ m \in s.parents
  BY NodeFacts DEF ProbeFailed
<1>2. n # Root
  BY <1>1 DEF AtRest
<1>3. node' = [node EXCEPT ![n] = t] /\ UNCHANGED metric /\ Disturb
  BY DEF ProbeFailed
<1> HIDE DEF s
<1>4. /\ f \in NodeState
      /\ f.parents = s.parents /\ f.updated = s.updated \cup {m}
      /\ f.defrt = s.defrt /\ f.taken = s.taken
      /\ f.def_route # None => f.def_route = s.def_route /\ s.def_route # m
      /\ f.preferred = s.preferred /\ f.joined = s.joined /\ f.rank = s.rank
      /\ f.min_rank = s.min_rank /\ f.version = s.version
      /\ \A k \in Node : k # m => f.prank[k] = s.prank[k]
  BY <1>1, ForgetEffect
<1> HIDE DEF f
<1>6. /\ t \in NodeState /\ t.defrt = f.defrt \ {m}
      /\ f.taken => t.taken
      /\ m = f.preferred \/ m = f.def_route => t.taken
      /\ t.parents = f.parents /\ t.updated = f.updated /\ t.prank = f.prank
      /\ t.def_route = f.def_route /\ t.preferred = f.preferred
      /\ t.joined = f.joined /\ t.rank = f.rank
      /\ t.min_rank = f.min_rank /\ t.version = f.version
  BY <1>4, WithoutRouterEffect
<1> HIDE DEF t
<1>7. Sound(n, t) /\ Routed(t)
  BY <1>1, <1>4, <1>6 DEF Sound, Routed
<1>8. Ranked(t, metric[n])
  <2>1. s.preferred # None => s.preferred \in Node
    BY <1>1 DEF NodeState
  <2> QED
    BY <1>1, <1>4, <1>6, <2>1 DEF Ranked
<1> QED
  BY <1>2, <1>3, <1>4, <1>6, <1>7, <1>8, QuietStep DEF s

LEMMA RouterExpiresStep ==
  ASSUME IInv, NEW n \in Node, NEW m \in Node, RouterExpires(n, m)
  PROVE  IInv' /\ MinRanksFall
<1> DEFINE s == node[n]
           t == WithoutRouter(s, m)
<1>1. /\ s \in NodeState /\ Sound(n, s) /\ Routed(s) /\ Ranked(s, metric[n])
      /\ (n = Root => AtRest(s)) /\ m \in s.defrt
  BY NodeFacts DEF RouterExpires
<1>2. n # Root
  BY <1>1 DEF AtRest, Sound
<1>3. node' = [node EXCEPT ![n] = t] /\ UNCHANGED metric /\ Disturb
  BY DEF RouterExpires
<1> HIDE DEF s
<1>5. /\ t \in NodeState /\ t.defrt = s.defrt \ {m}
      /\ s.taken => t.taken
      /\ m = s.preferred \/ m = s.def_route => t.taken
      /\ t.parents = s.parents /\ t.updated = s.updated /\ t.prank = s.prank
      /\ t.def_route = s.def_route /\ t.preferred = s.preferred
      /\ t.joined = s.joined /\ t.rank = s.rank
      /\ t.min_rank = s.min_rank /\ t.version = s.version
  BY <1>1, WithoutRouterEffect
<1> HIDE DEF t
<1>6. Sound(n, t) /\ Routed(t)
  BY <1>1, <1>5 DEF Sound, Routed
<1>7. Ranked(t, metric[n])
  BY <1>1, <1>5 DEF Ranked
<1> QED
  BY <1>2, <1>3, <1>5, <1>6, <1>7, QuietStep DEF s

LEMMA RestartStep ==
  ASSUME IInv, NEW n \in Node, Restart(n)
  PROVE  IInv' /\ MinRanksFall
<1> DEFINE t == Boot(n)
<1>1. [m \in Node |-> Infinite] \in [Node -> Rank] /\ [m \in Node |-> 0] \in [Node -> Nat]
      /\ Infinite \in Rank /\ RootRank \in Rank /\ 0 \in Nat
  BY DEF Rank, Infinite, RootRank
<1>2. /\ Blank \in NodeState /\ ~Blank.joined /\ Blank.parents = {}
      /\ Blank.updated = {} /\ Blank.defrt = {} /\ Blank.def_route = None
      /\ Blank.preferred = None /\ Blank.min_rank = Infinite
  BY <1>1 DEF Blank, NodeState
<1>3. /\ RootState \in NodeState /\ RootState.joined /\ RootState.rank = RootRank
      /\ RootState.parents = {}
      /\ RootState.updated = {} /\ RootState.defrt = {} /\ RootState.def_route = None
      /\ RootState.preferred = None /\ RootState.min_rank = Infinite
  BY <1>1, <1>2 DEF RootState, NodeState
<1>4. t = IF n = Root THEN RootState ELSE Blank
  BY DEF Boot
<1> HIDE DEF t
<1>5. Good(n, t, metric[n])
  BY <1>2, <1>3, <1>4 DEF Good, Sound, Routed, Ranked, AtRest
<1>6. Falls(node[n], t)
  <2>1. n = Root => AtRest(node[n])
    BY NodeFacts
  <2>2. n = Root => t.min_rank <= node[n].min_rank
    BY <1>3, <1>4, <2>1 DEF AtRest, Infinite
  <2> QED
    BY <1>2, <1>4, <2>2 DEF Falls
<1>7. faults \in 0 .. MaxFaults
  BY NodeFacts
<1>8. faults' \in 0 .. MaxFaults
  BY <1>7, BoundAssumption DEF Restart, Disturb
<1>9. node' = [node EXCEPT ![n] = t] /\ UNCHANGED metric
  BY DEF Restart, t
<1> QED
  BY <1>5, <1>6, <1>8, <1>9, OneNode

\* The only step that changes a link metric: the parent behind the link is
\* marked, so that its rank may be out of date.
LEMMA LinkFeedbackStep ==
  ASSUME IInv, NEW n \in Node, NEW m \in Node, NEW e \in Nat, LinkFeedback(n, m, e)
  PROVE  IInv' /\ MinRanksFall
<1> DEFINE s == node[n]
           up == IF m \in s.parents THEN s.updated \cup {m} ELSE s.updated
           t == [s EXCEPT !.updated = up]
           met == [metric[n] EXCEPT ![m] = e]
<1>1. /\ s \in NodeState /\ Good(n, s, metric[n]) /\ metric[n] \in [Node -> Nat]
      /\ node \in [Node -> NodeState] /\ metric \in [Node -> [Node -> Nat]]
      /\ faults \in 0 .. MaxFaults
  BY NodeFacts DEF IInv, TypeOK
<1>2. node' = [node EXCEPT ![n] = t]
  BY DEF LinkFeedback
<1>3. metric' = [metric EXCEPT ![n] = met]
  BY DEF LinkFeedback
<1>4. /\ met \in [Node -> Nat] /\ met[m] = e
      /\ \A k \in Node : k # m => met[k] = metric[n][k]
  BY <1>1
<1>5. faults' \in 0 .. MaxFaults
  BY <1>1, BoundAssumption DEF LinkFeedback, Disturb
<1>6. up \in SUBSET Node /\ (m \in s.parents => m \in up) /\ s.updated \subseteq up
      /\ (s.updated \subseteq s.parents => up \subseteq s.parents)
  BY <1>1 DEF NodeState
<1> HIDE DEF s, met, up
<1>7. /\ t \in NodeState /\ t.updated = up
      /\ t.version = s.version /\ t.joined = s.joined
      /\ t.rank = s.rank /\ t.min_rank = s.min_rank /\ t.parents = s.parents
      /\ t.prank = s.prank /\ t.preferred = s.preferred
      /\ t.def_route = s.def_route /\ t.defrt = s.defrt /\ t.taken = s.taken
  BY <1>1, <1>6 DEF NodeState
<1> HIDE DEF t
<1>8. Sound(n, t) /\ Routed(t) /\ (n = Root => AtRest(t))
  BY <1>1, <1>6, <1>7 DEF Good, Sound, Routed, AtRest
<1>9. Ranked(t, met)
  <2>1. s.preferred # None => s.preferred \in Node /\ s.preferred \in s.parents
    BY <1>1 DEF Good, Sound, NodeState
  <2>2. Ranked(s, metric[n])
    BY <1>1 DEF Good
  <2> QED
    BY <1>4, <1>6, <1>7, <2>1, <2>2 DEF Ranked
<1>10. TypeOK'
  BY <1>1, <1>2, <1>3, <1>4, <1>5, <1>7 DEF TypeOK
<1>11. ASSUME NEW k \in Node
       PROVE  Good(k, node'[k], metric'[k]) /\ Falls(node[k], node'[k])
  <2>1. node[k] \in NodeState /\ node[k].min_rank <= node[k].min_rank
    BY <1>1 DEF NodeState, Rank
  <2>2. CASE k = n
    BY <1>1, <1>2, <1>3, <1>7, <1>8, <1>9, <2>1, <2>2 DEF Good, Falls, s
  <2>3. CASE k # n
    <3>1. node'[k] = node[k] /\ metric'[k] = metric[k]
      BY <1>1, <1>2, <1>3, <2>3
    <3>2. Good(k, node[k], metric[k])
      BY DEF IInv
    <3> QED
      BY <2>1, <3>1, <3>2 DEF Falls
  <2> QED
    BY <2>2, <2>3
<1> QED
  BY <1>10, <1>11 DEF IInv, MinRanksFall

LEMMA StutterStep ==
  ASSUME IInv, UNCHANGED vars
  PROVE  IInv' /\ MinRanksFall
<1>1. IInv'
  BY DEF IInv, TypeOK, vars
<1>2. \A n \in Node : node[n].min_rank <= node[n].min_rank
  BY DEF IInv, TypeOK, NodeState, Rank
<1> QED
  BY <1>1, <1>2 DEF MinRanksFall, Falls, vars

LEMMA NextStep ==
  ASSUME IInv, [Next]_vars
  PROVE  IInv' /\ MinRanksFall
<1>1. CASE RepairDag
  BY <1>1, RepairDagStep
<1>2. ASSUME NEW n \in Node, RecalculateRanks(n) \/ Restart(n)
      PROVE  IInv' /\ MinRanksFall
  BY <1>2, RecalculateRanksStep, RestartStep
<1>3. ASSUME NEW n \in Node, NEW m \in Node, ReceiveDio(n, m)
      PROVE  IInv' /\ MinRanksFall
  BY <1>3, JoinDagStep, GlobalRepairStep, RootOvertakesStep, CandidateDioStep DEF ReceiveDio
<1>4. ASSUME NEW n \in Node, NEW m \in Node,
             EvictNeighbor(n, m) \/ ProbeFailed(n, m) \/ RouterExpires(n, m)
      PROVE  IInv' /\ MinRanksFall
  BY <1>4, EvictNeighborStep, ProbeFailedStep, RouterExpiresStep
<1>5. ASSUME NEW l \in Link, NEW e \in Etx[l], LinkFeedback(l[1], l[2], e)
      PROVE  IInv' /\ MinRanksFall
  <2>1. l[1] \in Node /\ l[2] \in Node /\ e \in Nat
    BY LinkAssumption, EtxAssumption
  <2> QED
    BY <1>5, <2>1, LinkFeedbackStep
<1>6. CASE UNCHANGED vars
  BY <1>6, StutterStep
<1> QED
  BY <1>1, <1>2, <1>3, <1>4, <1>5, <1>6 DEF Next

LEMMA InitGood ==
  ASSUME Init
  PROVE  IInv
<1>1. [m \in Node |-> Infinite] \in [Node -> Rank] /\ [m \in Node |-> 0] \in [Node -> Nat]
      /\ Infinite \in Rank /\ RootRank \in Rank /\ 0 \in Nat
      /\ [m \in Node |-> Unit] \in [Node -> Nat]
  BY DEF Rank, Infinite, RootRank, Unit
<1>2. /\ Blank \in NodeState /\ ~Blank.joined /\ Blank.parents = {}
      /\ Blank.updated = {} /\ Blank.defrt = {} /\ Blank.def_route = None
      /\ Blank.preferred = None /\ Blank.min_rank = Infinite
  BY <1>1 DEF Blank, NodeState
<1>3. /\ RootState \in NodeState /\ RootState.joined /\ RootState.rank = RootRank
      /\ RootState.parents = {}
      /\ RootState.updated = {} /\ RootState.defrt = {} /\ RootState.def_route = None
      /\ RootState.preferred = None /\ RootState.min_rank = Infinite
  BY <1>1, <1>2 DEF RootState, NodeState
<1>4. ASSUME NEW n \in Node
      PROVE  Boot(n) \in NodeState /\ Good(n, Boot(n), metric[n])
  BY <1>2, <1>3 DEF Boot, Good, Sound, Routed, Ranked, AtRest
<1>5. TypeOK
  BY <1>1, <1>4, BoundAssumption DEF Init, TypeOK
<1> QED
  BY <1>4, <1>5 DEF Init, IInv

-----------------------------------------------------------------------------
(* The theorems.                                                            *)

THEOREM Invariance == Spec => []IInv
<1>1. Init => IInv
  BY InitGood
<1>2. IInv /\ [Next]_vars => IInv'
  BY NextStep
<1> QED
  BY <1>1, <1>2, PTL DEF Spec

\* Every field of every node keeps its type, ranks stay within the 256 hops of
\* INFINITE_RANK (calculate_rank, rpl_process_dio).
THEOREM TypeCorrect == Spec => []TypeOK
<1>1. IInv => TypeOK
  BY DEF IInv
<1> QED
  BY <1>1, Invariance, PTL

\* The rank of a node is the one of its preferred parent plus the link, or a
\* recalculation is due (rpl_select_parent, rpl_recalculate_ranks).
THEOREM RankAgreement == Spec => []RankFollowsParent
<1>1. IInv => RankFollowsParent
  BY DEF IInv, Good, Ranked, RankFollowsParent
<1> QED
  BY <1>1, Invariance, PTL

\* No node follows a parent more than MaxRankInc hops beyond the best rank
\* it has had in this version (acceptable_rank, rpl_process_parent_event).
THEOREM CountingIsCut == Spec => []RankIncreaseBounded
<1>1. IInv => RankIncreaseBounded
  BY DEF IInv, Good, Ranked, RankIncreaseBounded
<1> QED
  BY <1>1, Invariance, PTL

\* Every default router is a parent, and the pointer to one dangles only when
\* the router's lifetime has run out (rpl_remove_parent, rpl_set_default_route).
THEOREM RoutersOwned == Spec => []DefaultRoutersAreParents
<1>1. IInv => DefaultRoutersAreParents
  BY DEF IInv, Good, Sound, DefaultRoutersAreParents
<1> QED
  BY <1>1, Invariance, PTL

\* With room for all neighbours in the table of routers, the preferred parent
\* is one unless its route has been taken (rpl_set_default_route).
THEOREM PreferredIsRouted == Spec => []PreferredIsDefaultRouter
<1>1. IInv => PreferredIsDefaultRouter
  BY DEF IInv, Good, Routed, PreferredIsDefaultRouter
<1> QED
  BY <1>1, Invariance, PTL

\* Within a version of the DAG, min_rank never grows, whatever a node goes
\* through: repairs, lost parents, new candidates (rpl_local_repair,
\* rpl_process_parent_event).
THEOREM MinRankFalls == Spec => MinRankOnlyFalls
<1>1. IInv /\ [Next]_vars => [\A n \in Node :
         node[n].joined /\ node'[n].joined /\ node'[n].version = node[n].version
           => node'[n].min_rank <= node[n].min_rank]_node
  BY NextStep DEF MinRanksFall, Falls
<1> QED
  BY <1>1, Invariance, PTL DEF Spec, MinRankOnlyFalls

=============================================================================
