---------------------------- MODULE P2pDiscovery ----------------------------
(***************************************************************************)
(* One route discovery spreading over a network: the DIOs of a P2P mode    *)
(* DAG carry a path metric and one of the sender's partial routes with its *)
(* own address added (dio_output, write_rdo in rpl-icmp6.c), and are       *)
(* judged by the receivers (rpl_process_dio in rpl-dag.c, p2p_route_cmp in *)
(* rpl-of-etx.c).  Every node's record of the discovery expires and is     *)
(* freed by its own periodic timer (rpl_p2p_purge_dags).                   *)
(*                                                                         *)
(* Metrics are in quarters of an ETX.  A DIO is a broadcast that any of    *)
(* the sender's neighbours may miss.  The Trickle timer (rpl-timers.c)     *)
(* decides when a DIO is sent, and its redundancy counter whether; here a  *)
(* node that takes part may send at any time, or never.  Nodes hear of the *)
(* discovery for the first time within its first seconds (MaxSpread); that *)
(* is a bound on the environment, and nothing bounds when a node that has  *)
(* held a record of it may hear of it once more.  Ranks are left           *)
(* out: a discovery limits neither rank nor its increase                   *)
(* (RPL_P2P_DEFAULT_MAX_RANK and the maximum rank increase are 0), and its *)
(* parents are compared by path metrics.                                   *)
(***************************************************************************)
EXTENDS Naturals, Sequences, FiniteSets

CONSTANTS
  Node, Origin, Target,
  Address,       \* what a vector may name: the nodes, and values of stray memory
  None,          \* NULL parent
  Link,          \* <<n, m>> \in Link: n hears m
  Etx,           \* Etx[l]: the metrics neighbor-info.c may report of a link
  Short,         \* the nodes whose address pool other discoveries may empty
  NPartial,      \* RPL_P2P_MAX_PARTIAL_ROUTES
  Stray,         \* the lists that the memory behind partial_routes may be taken for
  Lifetime,      \* lt2sec(rdo_lifetime), in seconds
  KeepTime,      \* lt2sec(rdo_lifetime) + 10
  MaxSpread,     \* bound: the last second in which a node hears of it for the first time
  MaxFaults      \* bound: changes of link metrics

Unit == 4                \* one ETX
ReceiveLimit == 3 * Unit \* a DIO over a worse link is discarded
MinDiff == 2             \* RPL_DAG_MC_ETX_DIVISOR / PARENT_SWITCH_THRESHOLD_DIV

ASSUME NodeAssumption == Origin \in Node /\ Target # Origin /\ None \notin Node
                         /\ Short \subseteq Node
ASSUME VectorAssumption == Node \subseteq Address /\ Stray \subseteq Seq(Address)
ASSUME LinkAssumption == Link \subseteq {l \in Node \X Node : l[1] # l[2]}
ASSUME EtxAssumption ==
  /\ Etx \in [Link -> SUBSET Nat]
  /\ \A l \in Link : Etx[l] # {} /\ \A e \in Etx[l] : e >= Unit
ASSUME SizesAssumption ==
  /\ NPartial \in Nat \ {0}
  /\ Lifetime \in Nat \ {0} /\ KeepTime \in Nat \ {0}
  /\ MaxSpread \in Nat /\ MaxFaults \in Nat
  /\ MaxSpread + 1 < KeepTime   \* it spreads before its first record goes, by
                                \* timers of which one may be a second ahead

VARIABLES
  dag,         \* the record every node has of the discovery
  metric,      \* metric[n][m]: the metric neighbor-info.c of n has for m
  ahead,       \* the nodes whose periodic timer has run in this second
  age,         \* seconds since the discovery began, up to MaxAge
  faults,      \* changes of link metrics so far
  forgot,      \* history: the nodes that have freed their record
  truncated,   \* history: the nodes that have sent an unused list as a route
  strayed,     \* history: the nodes that have sent stray memory as a route
  misjudged    \* history: has a node compared a DIO with an outdated metric?

history == <<forgot, truncated, strayed, misjudged>>
vars == <<dag, metric, ahead, age, faults, history>>

Vector == Seq(Address)

\* When the last record that a node makes when it first hears of the discovery
\* has expired.
MaxAge == MaxSpread + Lifetime + 1

\* mc is the metric last put in the metric container, pmc that of the
\* preferred parent, routes the partial routes.  Only the preferred parent
\* and the sender of a DIO are ever compared.
DagState ==
  [phase : {"unknown", "active", "expired"}, left : Nat, mc : Nat,
   preferred : Node \cup {None}, pmc : Nat, routes : SUBSET Vector]

TypeOK ==
  /\ dag \in [Node -> DagState]
  /\ \A n \in Node : Cardinality(dag[n].routes) <= NPartial
  /\ metric \in [Node -> [Node -> Nat]]
  /\ ahead \subseteq Node /\ age \in 0 .. MaxAge
  /\ faults \in 0 .. MaxFaults
  /\ forgot \subseteq Node /\ truncated \subseteq Node /\ strayed \subseteq Node
  /\ misjudged \in BOOLEAN

Blank ==
  [phase |-> "unknown", left |-> 0, mc |-> 0, preferred |-> None, pmc |-> 0,
   routes |-> {}]

\* rpl_discover_route
OriginState == [Blank EXCEPT !.phase = "active", !.left = Lifetime]

Metrics == {f \in [Link -> UNION {Etx[l] : l \in Link}] : \A l \in Link : f[l] \in Etx[l]}

Init ==
  /\ dag = [n \in Node |-> IF n = Origin THEN OriginState ELSE Blank]
  /\ \E f \in Metrics : metric = [n \in Node |-> [m \in Node |->
                                    IF <<n, m>> \in Link THEN f[<<n, m>>] ELSE Unit]]
  /\ ahead = {} /\ age = 0 /\ faults = 0
  /\ forgot = {} /\ truncated = {} /\ strayed = {} /\ misjudged = FALSE

-----------------------------------------------------------------------------
(* Reception.  s is the state of the receiver n, etx its link to the sender *)
(* m, dio a record with the path metric mc and the address vector.          *)

\* p2p_route_cmp: is the route of a DIO better than, or as good as, x?
Better(y, x) == y + MinDiff <= x
NotWorse(y, x) == y < x + MinDiff

\* What the routes become when v is stored in place of all others, or is
\* not because the address pool, which all discoveries share, is empty.
Replace(v, full) == IF full THEN {} ELSE {v}
AddRouteFreely(routes, v, full) ==        \* mutant: any number of routes
  IF full THEN routes ELSE routes \cup {v}
AddRoute(routes, v, full) ==
  IF full \/ Cardinality(routes) = NPartial THEN routes ELSE routes \cup {v}

PathMetric(n) == dag[n].pmc + metric[n][dag[n].preferred]

Joined(m, dio, etx, full) ==
  [phase |-> "active", left |-> Lifetime, mc |-> dio.mc + etx, preferred |-> m,
   pmc |-> dio.mc, routes |-> Replace(dio.vector, full)]

\* rpl_select_parent with the preferred parent and the sender as candidates:
\* a better sender becomes the preferred parent and its path the metric.
SelectParent(n, m, dio, etx) ==
  IF m = dag[n].preferred THEN [dag[n] EXCEPT !.pmc = dio.mc]
  ELSE IF Better(dio.mc + etx, PathMetric(n))
    THEN [dag[n] EXCEPT !.preferred = m, !.pmc = dio.mc, !.mc = dio.mc + etx]
    ELSE dag[n]

\* The route improves, judged by the metric before; or it may be kept besides
\* the others, judged by the metric afterwards.
KeepAny(n, m, dio, etx, full) ==          \* mutant: keeps what is not better
  LET s == SelectParent(n, m, dio, etx)
  IN IF Better(dio.mc + etx, dag[n].mc)
     THEN [s EXCEPT !.routes = Replace(dio.vector, full)]
     ELSE [s EXCEPT !.routes = AddRoute(@, dio.vector, full)]
Consider(n, m, dio, etx, full) ==
  LET s == SelectParent(n, m, dio, etx)
  IN IF Better(dio.mc + etx, dag[n].mc)
     THEN [s EXCEPT !.routes = Replace(dio.vector, full)]
     ELSE IF NotWorse(dio.mc + etx, s.mc)
     THEN [s EXCEPT !.routes = AddRoute(@, dio.vector, full)]
     ELSE s

IsRelay(n) == dag[n].preferred # None

ReceiveAgain(n, m, dio, full) ==          \* mutant: joins in spite of a record
  IF dag[n].phase # "active"
  THEN Joined(m, dio, metric[n][m], full)
  ELSE dag[n]
\* rpl_process_dio.  The origin, and a node with an expired record, ignore it.
Receive(n, m, dio, full) ==
  IF dag[n].phase = "unknown"
  THEN Joined(m, dio, metric[n][m], full)
  ELSE IF IsRelay(n) THEN Consider(n, m, dio, metric[n][m], full)
  ELSE dag[n]

Outdated(n) == IsRelay(n) /\ dag[n].mc # PathMetric(n)

-----------------------------------------------------------------------------
(* Transmission.                                                           *)

\* The sender's state as dio_output leaves it, and the vectors it may send:
\* one of its routes, and its own address.  The list taken for the route is
\* number rand / (RAND_MAX / cnt) of cnt routes: with none it is the first,
\* which is unused, and with the largest random numbers it is number cnt,
\* unused as well, or behind the array if all routes are in use.
Refreshed(n) == [dag[n] EXCEPT !.mc = IF IsRelay(n) THEN PathMetric(n) ELSE 0]
OwnHop(n) == IF n = Origin THEN <<>> ELSE <<n>>
StoredVectors(n) == {v \o OwnHop(n) : v \in dag[n].routes}
UnusedVectors(n) == IF Cardinality(dag[n].routes) \in {1, NPartial} THEN {} ELSE {OwnHop(n)}
StrayVectors(n) == {v \o OwnHop(n) : v \in
  IF Cardinality(dag[n].routes) = NPartial /\ NPartial > 1 THEN Stray ELSE {}}
VectorsOfAny(n) ==                        \* mutant: sends a route as it is stored
  IF dag[n].routes = {} THEN {OwnHop(n)} ELSE dag[n].routes \cup StrayVectors(n)
Vectors(n) == StoredVectors(n) \cup UnusedVectors(n) \cup StrayVectors(n)

\* A node may hear of the discovery for the first time: the bound MaxSpread.
InTime(n) == age <= MaxSpread \/ dag[n].phase # "unknown" \/ n \in forgot

Hearers(m) ==
  {n \in Node : <<n, m>> \in Link /\ metric[n][m] <= ReceiveLimit}

\* handle_dio_timer; heard are the neighbours that receive the DIO, full
\* those of them that cannot store its route.  The target never sends DIOs.
Send(m) ==
  /\ dag[m].phase = "active" /\ m # Target
  /\ \E v \in Vectors(m), heard \in SUBSET {n \in Hearers(m) : InTime(n)} :
     \E full \in SUBSET (heard \cap Short) :
       LET dio == [mc |-> Refreshed(m).mc, vector |-> v]
       IN /\ dag' = [n \in Node |->
               IF n = m THEN Refreshed(m)
               ELSE IF n \in heard THEN Receive(n, m, dio, n \in full)
               ELSE dag[n]]
          /\ misjudged' = (misjudged \/ \E n \in heard :
               Outdated(n) /\ dag'[n].routes # dag[n].routes)
          /\ truncated' = IF m # Origin /\ v \in UnusedVectors(m) \ StoredVectors(m)
                          THEN truncated \cup {m} ELSE truncated
          /\ strayed' = IF v \in StrayVectors(m) \ StoredVectors(m)
                        THEN strayed \cup {m} ELSE strayed
  /\ UNCHANGED <<metric, ahead, age, faults, forgot>>

-----------------------------------------------------------------------------
(* Time.  Every node's periodic timer runs once a second, at any moment of it. *)

PurgedEarly(s) ==                         \* mutant: records go a second too early
  IF s.left > 1 THEN [s EXCEPT !.left = @ - 1]
  ELSE IF s.phase = "active"
    THEN [s EXCEPT !.phase = "expired", !.left = KeepTime - 1, !.preferred = None]
    ELSE Blank
Purged(s) ==
  IF s.left > 1 THEN [s EXCEPT !.left = @ - 1]
  ELSE IF s.phase = "active"
    THEN [s EXCEPT !.phase = "expired", !.left = KeepTime, !.preferred = None]
    ELSE Blank

Periodic(n) ==
  /\ n \notin ahead
  /\ IF ahead \cup {n} = Node
     THEN ahead' = {} /\ age' = IF age < MaxAge THEN age + 1 ELSE age
     ELSE ahead' = ahead \cup {n} /\ UNCHANGED age
  /\ dag' = [dag EXCEPT ![n] = Purged(@)]
  /\ forgot' = IF dag[n].phase # "unknown" /\ dag'[n].phase = "unknown"
               THEN forgot \cup {n} ELSE forgot
  /\ UNCHANGED <<metric, faults, truncated, strayed, misjudged>>

LinkFeedback(n, m, e) ==
  /\ faults < MaxFaults /\ faults' = faults + 1
  /\ e # metric[n][m] /\ metric' = [metric EXCEPT ![n][m] = e]
  /\ UNCHANGED <<dag, ahead, age, history>>

Next ==
  \/ \E n \in Node : Send(n) \/ Periodic(n)
  \/ \E l \in Link : \E e \in Etx[l] : LinkFeedback(l[1], l[2], e)

Spec == Init /\ [][Next]_vars

-----------------------------------------------------------------------------

\* The address vectors that spread are paths of the network: consecutive
\* addresses are neighbours, the last one is a neighbour of the node that
\* stores the vector, and the first one is a neighbour of the origin, or a
\* node that has taken an unused list for a route.  Of a vector that begins
\* with stray memory this holds from the node on that has sent it
\* (dio_output, write_rdo, rpl_p2p_add_partial_route).
IsPath(v, n) ==
  LET w == Append(v, n)
  IN \E k \in 1 .. Len(v) + 1 :
       /\ \/ k = 1 /\ (<<w[1], Origin>> \in Link \/ w[1] \in truncated)
          \/ w[k] \in strayed
       /\ \A i \in k .. Len(v) : <<w[i + 1], w[i]>> \in Link
VectorsArePaths ==
  \A n \in Node : \A v \in dag[n].routes : IsPath(v, n)

\* No route visits a node twice unless a link has changed, a node has judged a
\* DIO by an outdated metric of its own, or stray memory was sent as a route:
\* nobody looks for its own address in a vector, so only the metrics keep
\* routes from turning back, and a node that could enter the discovery once
\* more would have no metric to judge by (rpl_process_dio, p2p_route_cmp,
\* update_metric_container).
NoLoops ==
  faults = 0 /\ ~misjudged /\ strayed = {} =>
    \A n \in Node \ {Origin} : \A v \in dag[n].routes :
      \A i, j \in 1 .. Len(v) + 1 :
        Append(v, n)[i] = Append(v, n)[j] => i = j

\* A node that has forgotten the discovery never takes part in it again,
\* although nothing but the phases of its neighbours keeps it from joining:
\* its record outlives the DIOs of every neighbour, whoever joined late and
\* whichever periodic timer is ahead (rpl_p2p_purge_dags, rpl_process_dio).
NeverAgain == \A n \in forgot : dag[n].phase = "unknown"

\* The discovery of each node that hears of it goes through the phases of the
\* abstract memory that the tables of a node implement (RplP2pDags): it is
\* not entered a second time while there is a record of it, although DIOs of
\* neighbours in other phases keep coming (rpl_process_dio, rpl_p2p_purge_dags).
\* With the order of quantifier and [] exchanged: every node's Memory!Spec.
Memory(n) == INSTANCE DiscoveryMemory
               WITH Discoveries <- {Origin}, phase <- [k \in {Origin} |-> dag[n].phase]
NodesRemember ==
  /\ \A n \in Node \ {Origin} : Memory(n)!Init
  /\ [][\A n \in Node \ {Origin} :
          dag'[n].phase = dag[n].phase \/ Memory(n)!Next]_dag

=============================================================================
