------------------------------- MODULE RplDag -------------------------------
(***************************************************************************)
(* The global DAG of a network: every node's entry of dag_table for        *)
(* RPL_DEFAULT_INSTANCE with its candidate parents (rpl-dag.c), the ETX    *)
(* objective function (rpl-of-etx.c), the feedback from links and from the *)
(* neighbour cache (rpl.c) and the default routers (uip-ds6.c).            *)
(*                                                                         *)
(* Ranks are counted in hops (DAG_RANK of the code: every rank is a        *)
(* multiple of MinHopRankIncrease) and link metrics in quarters of an ETX. *)
(* A DIO is received with the content its sender has at that moment; a     *)
(* lost one is a reception that does not happen.                           *)
(***************************************************************************)
EXTENDS Naturals, FiniteSets

CONSTANTS
  Node, Root,
  None,          \* NULL parent or default route
  Link,          \* <<n, m>> \in Link: n hears m
  Etx,           \* Etx[l]: the metrics neighbor-info.c may report of a link
  DefrtSize,     \* UIP_DS6_DEFRT_NB
  MaxRepairs,    \* bound: global repairs an application may start in a row
  MaxFaults      \* bound: link changes, neighbour losses and restarts

Unit == 4                \* one ETX
InitialMetric == 5       \* INITIAL_LINK_METRIC, in ETX
ReceiveLimit == 3 * Unit \* a DIO over a worse link is discarded
Hysteresis == 2          \* RPL_DAG_MC_ETX_DIVISOR / PARENT_SWITCH_THRESHOLD_DIV
MaxPathCost == 100 * Unit
MaxRankInc == 3          \* DEFAULT_MAX_RANKINC
RootRank == 1
Infinite == 256          \* INFINITE_RANK: above every rank of whole hops

ASSUME NodeAssumption == Root \in Node /\ None \notin Node /\ IsFiniteSet(Node)
ASSUME LinkAssumption == Link \subseteq {l \in Node \X Node : l[1] # l[2]}
ASSUME EtxAssumption ==
  Etx \in [Link -> SUBSET Nat] /\ \A l \in Link : Unit \in Etx[l] /\ \A e \in Etx[l] : e >= Unit
ASSUME BoundAssumption == DefrtSize \in Nat /\ MaxRepairs \in Nat /\ MaxFaults \in Nat

VARIABLES
  node,      \* the DAG entry and default routers of every node
  metric,    \* metric[n][m]: the ETX neighbor-info.c of n has for m
  faults     \* disturbances so far

vars == <<node, metric, faults>>

Rank == 0 .. Infinite

\* prank, pmc and updated hold, for each parent, the fields rank, mc.obj.etx
\* and updated; the link_metric field is metric[n][m], which every feedback
\* copies into it.  stale: a released memory block of a parent still holds
\* updated = 1, which nothing resets when it is used again.  taken is a
\* history variable: neighbour discovery, or the end of its lifetime, has
\* taken the default route of the DAG, or the one of the preferred parent.
NodeState ==
  [joined : BOOLEAN, version : Nat, rank : Rank, min_rank : Rank,
   parents : SUBSET Node, prank : [Node -> Rank], pmc : [Node -> Nat],
   updated : SUBSET Node, preferred : Node \cup {None},
   def_route : Node \cup {None}, defrt : SUBSET Node, stale : BOOLEAN,
   taken : BOOLEAN]

TypeOK ==
  /\ node \in [Node -> NodeState]
  /\ metric \in [Node -> [Node -> Nat]]
  /\ faults \in 0 .. MaxFaults

Blank ==
  [joined |-> FALSE, version |-> 0, rank |-> Infinite, min_rank |-> Infinite,
   parents |-> {}, prank |-> [m \in Node |-> Infinite],
   pmc |-> [m \in Node |-> 0], updated |-> {}, preferred |-> None,
   def_route |-> None, defrt |-> {}, stale |-> FALSE, taken |-> FALSE]

RootState == [Blank EXCEPT !.joined = TRUE, !.rank = RootRank]

Boot(n) == IF n = Root THEN RootState ELSE Blank

Init ==
  /\ node = [n \in Node |-> Boot(n)]
  /\ metric = [n \in Node |-> [m \in Node |-> Unit]]
  /\ faults = 0

-----------------------------------------------------------------------------
(* The objective function.  s is the state of a node, met its link metrics. *)

RankPlusWide(base, hops) == base + hops   \* mutant: no saturation
RankPlus(base, hops) == IF base + hops < Infinite THEN base + hops ELSE Infinite

\* calculate_rank of a parent whose rank is base
RankThrough(base, etx) == RankPlus(base, etx \div Unit)

PathMetric(s, met, p) ==
  IF p = None THEN MaxPathCost
  ELSE IF s.pmc[p] = 0 /\ s.prank[p] > RootRank THEN MaxPathCost
  ELSE s.pmc[p] + met[p]

Candidates(s) == {p \in s.parents : s.prank[p] # Infinite}

\* The preferred parent stays unless another candidate is better by the
\* hysteresis; among equal ones the code takes the last of its list.
BestParents(s, met) ==
  LET m(p) == PathMetric(s, met, p)
      good == Candidates(s)
  IN IF s.preferred \in good /\ \A p \in good : m(s.preferred) < m(p) + Hysteresis
     THEN {s.preferred}
     ELSE {p \in good : \A q \in good : m(p) <= m(q)}

AcceptableLax(s, rank) ==                 \* mutant: off by one
  rank # Infinite /\ rank <= s.min_rank + MaxRankInc + 1
Acceptable(s, rank) == rank # Infinite /\ rank <= s.min_rank + MaxRankInc

-----------------------------------------------------------------------------
(* Parents and default routers of one node.                                *)

SetDefaultRoute(s, from) ==
  LET rest == s.defrt \ {s.def_route}
      room == from \notin rest /\ Cardinality(rest) < DefrtSize
  IN [s EXCEPT !.defrt = IF room THEN rest \cup {from} ELSE rest,
               !.def_route = IF room THEN from ELSE None, !.taken = FALSE]

RemoveParentsOnly(s) ==                   \* mutant: routers stay
  [s EXCEPT !.parents = {}, !.updated = {}, !.preferred = None,
            !.prank = [m \in Node |-> Infinite], !.pmc = [m \in Node |-> 0]]
RemoveParents(s) ==
  [s EXCEPT !.parents = {}, !.updated = {}, !.preferred = None,
            !.prank = [m \in Node |-> Infinite], !.pmc = [m \in Node |-> 0],
            !.defrt = s.defrt \ s.parents, !.stale = @ \/ s.updated # {},
            !.def_route = IF s.defrt \cap s.parents = {} THEN s.def_route ELSE None]

\* What the field updated of a newly allocated parent may hold.
FlagsOf(s) == IF s.stale THEN BOOLEAN ELSE {FALSE}

AddParent(s, m, dio, flag) ==
  [s EXCEPT !.parents = @ \cup {m}, !.prank[m] = dio.rank, !.pmc[m] = dio.mc,
            !.updated = IF flag THEN @ \cup {m} ELSE @ \ {m}]

LocalRepairReset(s) ==                    \* mutant: forgets its best rank
  [RemoveParents(s) EXCEPT !.rank = Infinite, !.min_rank = Infinite]
LocalRepairLight(s) == [s EXCEPT !.rank = Infinite]  \* mutant: keeps parents
LocalRepair(s) == [RemoveParents(s) EXCEPT !.rank = Infinite]

PreferOnly(s, best) ==                    \* mutant: default route left alone
  [s EXCEPT !.preferred = best, !.taken = FALSE]

\* rpl_select_parent once it has chosen best, and the local repair that
\* rpl_process_parent_event starts when best is too far from the root.
Prefer(s, best) ==
  IF s.preferred = best THEN s
  ELSE SetDefaultRoute([s EXCEPT !.preferred = best], best)

SettleOnSwitch(s, met, best) ==           \* mutant: rank of a new parent only
  IF s.preferred = best THEN s
  ELSE LET rank == RankThrough(s.prank[best], met[best])
       IN [Prefer(s, best) EXCEPT !.rank = rank,
             !.min_rank = IF rank < @ THEN rank ELSE @]

Settle(s, met, best) ==
  LET rank == RankThrough(s.prank[best], met[best])
      t == [Prefer(s, best) EXCEPT !.rank = rank]
  IN IF rank < s.min_rank THEN [t EXCEPT !.min_rank = rank]
     ELSE IF Acceptable(s, s.prank[best]) THEN t
     ELSE LocalRepair(t)

\* rpl_process_parent_event
ParentEvent(s, met) ==
  IF Candidates(s) = {} THEN {LocalRepair(s)}
  ELSE {Settle(s, met, best) : best \in BestParents(s, met)}

-----------------------------------------------------------------------------
(* Reception of DIOs.                                                      *)

\* What dio_output of m sends, with its metric container brought up to date.
Dio(m) ==
  [version |-> node[m].version, rank |-> node[m].rank,
   mc |-> IF node[m].rank = RootRank THEN 0
          ELSE PathMetric(node[m], metric[m], node[m].preferred)]

Hears(n, m) ==
  <<n, m>> \in Link /\ node[m].joined /\ metric[n][m] <= ReceiveLimit

JoinDag(n, m) ==
  /\ Hears(n, m) /\ ~node[n].joined
  /\ Dio(m).rank # Infinite
  /\ LET rank == RankThrough(Dio(m).rank, metric[n][m])
     IN \E flag \in FlagsOf(node[n]) : node' = [node EXCEPT ![n] =
          SetDefaultRoute([AddParent(@, m, Dio(m), flag) EXCEPT
              !.joined = TRUE, !.version = Dio(m).version, !.preferred = m,
              !.rank = rank, !.min_rank = rank], m)]
  /\ UNCHANGED <<metric, faults>>

\* Until the next event the node has no preferred parent, and its rank
\* assumes a link of INITIAL_LINK_METRIC.
GlobalRepair(n, m) ==
  /\ Hears(n, m) /\ node[n].joined /\ node[n].rank # RootRank
  /\ Dio(m).version > node[n].version
  /\ LET rank == RankPlus(Dio(m).rank, InitialMetric)
     IN \E flag \in FlagsOf(RemoveParents(node[n])) : node' = [node EXCEPT ![n] =
          SetDefaultRoute([AddParent(RemoveParents(@), m, Dio(m), flag) EXCEPT
              !.version = Dio(m).version, !.rank = rank, !.min_rank = rank], m)]
  /\ UNCHANGED <<metric, faults>>

RootIgnores(n, m) ==                      \* mutant: the root keeps its version
  /\ Hears(n, m) /\ node[n].rank = RootRank
  /\ Dio(m).version > node[n].version
  /\ UNCHANGED vars

\* The root of a restarted network overtakes the version it hears.
RootOvertakes(n, m) ==
  /\ Hears(n, m) /\ node[n].rank = RootRank
  /\ Dio(m).version > node[n].version
  /\ node' = [node EXCEPT ![n].version = Dio(m).version + 1]
  /\ UNCHANGED <<metric, faults>>

CandidateDio(n, m) ==
  /\ Hears(n, m) /\ node[n].joined /\ node[n].rank # RootRank
  /\ Dio(m).version = node[n].version
  /\ \E flag \in IF m \in node[n].parents THEN {m \in node[n].updated}
              ELSE FlagsOf(node[n]) :
       \E s \in ParentEvent(AddParent(node[n], m, Dio(m), flag), metric[n]) :
         node' = [node EXCEPT ![n] = s]
  /\ UNCHANGED <<metric, faults>>

ReceiveDio(n, m) ==
  JoinDag(n, m) \/ GlobalRepair(n, m) \/ RootOvertakes(n, m) \/ CandidateDio(n, m)

-----------------------------------------------------------------------------
(* Feedback from the link layer and the neighbour cache.                   *)

Disturb == faults < MaxFaults /\ faults' = faults + 1

LinkFeedback(n, m, e) ==
  /\ Disturb /\ e # metric[n][m]
  /\ metric' = [metric EXCEPT ![n][m] = e]
  /\ node' = [node EXCEPT ![n].updated =
                IF m \in node[n].parents THEN @ \cup {m} ELSE @]

\* rpl_ipv6_neighbor_callback for a neighbour that leaves the cache
Forget(s, m) ==
  LET t == [s EXCEPT !.def_route = IF @ = m THEN None ELSE @]
  IN IF m \in s.parents
     THEN [t EXCEPT !.prank[m] = Infinite, !.updated = @ \cup {m}]
     ELSE t

\* The default router m is removed, without the knowledge of RPL.
WithoutRouter(s, m) ==
  [s EXCEPT !.defrt = @ \ {m},
            !.taken = @ \/ m \in {s.preferred, s.def_route}]

\* The cache is full, or address resolution failed.
EvictNeighbor(n, m) ==
  /\ Disturb /\ node[n].joined /\ m \in node[n].parents
  /\ node' = [node EXCEPT ![n] = Forget(@, m)]
  /\ UNCHANGED metric

\* The probes of neighbour unreachability detection were not answered.
ProbeFailed(n, m) ==
  /\ Disturb /\ node[n].joined /\ m \in node[n].parents
  /\ node' = [node EXCEPT ![n] = WithoutRouter(Forget(@, m), m)]
  /\ UNCHANGED metric

\* The lifetime of a default router is over (uip_ds6_periodic).  Nothing
\* renews it as long as the preferred parent stays, and def_route keeps
\* pointing to the free entry.
RouterExpires(n, m) ==
  /\ Disturb /\ m \in node[n].defrt
  /\ node' = [node EXCEPT ![n] = WithoutRouter(@, m)]
  /\ UNCHANGED metric

\* rpl_recalculate_ranks, from the periodic timer
RecalculateRanks(n) ==
  \E p \in node[n].updated :
    /\ \E s \in ParentEvent([node[n] EXCEPT !.updated = @ \ {p}], metric[n]) :
         node' = [node EXCEPT ![n] = s]
    /\ UNCHANGED <<metric, faults>>

\* rpl_repair_dag, which an application calls at the root
RepairDag ==
  /\ node[Root].version < MaxRepairs
  /\ node' = [node EXCEPT ![Root].version = @ + 1]
  /\ UNCHANGED <<metric, faults>>

Restart(n) ==
  /\ Disturb
  /\ node' = [node EXCEPT ![n] = Boot(n)]
  /\ UNCHANGED metric

Next ==
  \/ RepairDag
  \/ \E n \in Node : RecalculateRanks(n) \/ Restart(n)
  \/ \E n, m \in Node :
       \/ ReceiveDio(n, m) \/ EvictNeighbor(n, m) \/ ProbeFailed(n, m)
       \/ RouterExpires(n, m)
  \/ \E l \in Link : \E e \in Etx[l] : LinkFeedback(l[1], l[2], e)

Spec == Init /\ [][Next]_vars

\* The periodic timer never stops, and a node that keeps sending DIOs over a
\* link it keeps is heard again and again.
FairSpec ==
  /\ Spec
  /\ \A n \in Node \ {Root} : WF_vars(RecalculateRanks(n))
  /\ \A l \in Link : WF_vars(ReceiveDio(l[1], l[2]))

-----------------------------------------------------------------------------
(* Safety.                                                                 *)

\* The rank a node advertises is the one its preferred parent gives it over
\* the present link, except while a recalculation of ranks is due: DIOs,
\* link feedback, lost neighbours and repairs may come in any order
\* (rpl_select_parent, rpl_link_neighbor_callback, rpl_recalculate_ranks).
RankFollowsParent ==
  \A n \in Node : LET s == node[n] IN
    s.preferred # None =>
      \/ s.preferred \in s.updated
      \/ s.rank = RankThrough(s.prank[s.preferred], metric[n][s.preferred])

\* Counting to infinity is cut off: a node never stays with a parent more
\* than MaxRankInc hops further away than the node itself has been in this
\* version of the DAG (acceptable_rank, min_rank).
RankIncreaseBounded ==
  \A n \in Node : LET s == node[n] IN
    s.preferred # None =>
      \/ s.preferred \in s.updated
      \/ s.min_rank <= s.rank /\ s.prank[s.preferred] <= s.min_rank + MaxRankInc

\* No default router outlives the parent it was installed for, whatever way
\* the parent goes, and the pointer of the DAG dangles only if the lifetime of
\* its router has run out (rpl_remove_parent, rpl_set_default_route,
\* rpl_ipv6_neighbor_callback, uip_ds6_periodic).
DefaultRoutersAreParents ==
  \A n \in Node : LET s == node[n] IN
    /\ s.defrt \subseteq s.parents
    /\ s.def_route # None => s.def_route \in s.defrt \/ s.taken

\* A node with a preferred parent has a default route through it, whatever
\* the order of parent switches, evictions and repairs, if the table can hold
\* all its neighbours and neither neighbour discovery nor the end of its
\* lifetime has taken that route.
PreferredIsDefaultRouter ==
  Cardinality(Node) <= DefrtSize + 1 =>
    \A n \in Node : node[n].preferred # None =>
      node[n].preferred \in node[n].defrt \/ node[n].taken

\* The bound of RankIncreaseBounded cannot creep upwards: within a version a
\* node's min_rank only falls, through any number of local repairs.
MinRankOnlyFalls ==
  [][\A n \in Node :
       node[n].joined /\ node'[n].joined /\ node'[n].version = node[n].version
         => node'[n].min_rank <= node[n].min_rank]_node

-----------------------------------------------------------------------------
(* Liveness.  Disturbances are bounded, so they end.                       *)

\* The nodes whose preferred parents lead to the root within k hops.
Attached[k \in 0 .. Cardinality(Node)] ==
  IF k = 0 THEN {Root}
  ELSE Attached[k - 1] \cup {n \in Node : node[n].preferred \in Attached[k - 1]}

Leads(n) == n \in Attached[Cardinality(Node)]

\* A loop of preferred parents does not last: in the end every preferred
\* parent leads to the root.
LoopsEnd ==
  <>[](\A n \in Node : node[n].preferred # None => Leads(n))

\* If no link stays too bad to use, every node ends up in the version of the
\* root, also after the root has restarted with version 0.
VersionSpreads ==
  <>[]((\A l \in Link : metric[l[1]][l[2]] <= ReceiveLimit)
         => \A n \in Node : node[n].joined /\ node[n].version = node[Root].version)

=============================================================================
