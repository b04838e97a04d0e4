----------------------------- MODULE RplP2pDags -----------------------------
(***************************************************************************)
(* The DAG memory of one P2P-RPL node: dag_table (rpl-dag.c), the P2P      *)
(* extension entries dag_p2p_table with their partial routes and DRO timer *)
(* (rpl-p2p.c), the shared pools of parents and route addresses, and every *)
(* handler that allocates, updates, expires or frees an entry.  Other      *)
(* nodes are the environment: they may send any DIO about HeardKeys and    *)
(* any DRO about a discovery this node holds.  Time advances by ticks of   *)
(* the one-second periodic timer of rpl-timers.c.                          *)
(***************************************************************************)
EXTENDS Integers, Sequences, FiniteSets, FiniteSetsExt, SequencesExt

CONSTANTS
  Nodes, Self,     \* node addresses; Self is this node's global address
  NoNode,          \* NULL parent pointer
  NDags,           \* RPL_MAX_DAG_ENTRIES
  NParents,        \* RPL_MAX_PARENTS, shared by all DAGs
  NAddrs,          \* RPL_MAX_SRC_ROUTE_ADDR_ENTRIES, shared by all slots
  NPartial,        \* RPL_P2P_MAX_PARTIAL_ROUTES
  NInstances,      \* size of the local instance ID space (0x40)
  DefaultLifetime, \* lt2sec(RPL_P2P_DEFAULT_DAG_LIFETIME), in ticks
  KeepTime,        \* the 10 s added when a DAG expires
  DroWait,         \* RPL_P2P_DRO_WAIT_TIME, in ticks
  HeardKeys,       \* the DAGs neighbours may advertise
  TargetKeys,      \* the discoveries whose target is this node
  RdoLifetime,     \* RDO lifetime (in ticks) of each advertised discovery
  Vectors,         \* address vectors a received RDO may carry
  Ocps             \* may a DIO ask for a supported (TRUE) / unsupported OF?

GlobalInstance == -1                 \* RPL_DEFAULT_INSTANCE
Instances == 0 .. NInstances - 1     \* RPL_LOCAL_DEFAULT_INSTANCE | i
Keys == [instance : Instances \cup {GlobalInstance}, dodag : Nodes]
IsP2p(k) == k.instance # GlobalInstance    \* mop = P2P_ROUTE_DISCOVERY

Dags == 1 .. NDags
SlotPerDag == 1 .. NDags             \* mutant: RPL_MAX_DAG_ENTRIES slots
Slots == 1 .. NDags - 1              \* RPL_MAX_DAG_P2P_ENTRIES
None == 0                            \* NULL, for both kinds of index

ASSUME NodesAssumption == Self \in Nodes /\ NoNode \notin Nodes
ASSUME SizesAssumption ==
  /\ NDags \in Nat \ {0} /\ NParents \in Nat /\ NAddrs \in Nat
  /\ NPartial \in Nat /\ NInstances \in Nat \ {0}
ASSUME TimesAssumption ==
  /\ DefaultLifetime \in Nat \ {0} /\ KeepTime \in Nat /\ DroWait \in Nat
  /\ RdoLifetime \in [HeardKeys -> Nat \ {0}]
ASSUME DroWaitAssumption == DroWait <= KeepTime
ASSUME InputsAssumption ==
  /\ HeardKeys \subseteq Keys /\ Vectors \subseteq Seq(Nodes)
  /\ TargetKeys \subseteq HeardKeys /\ Ocps \subseteq BOOLEAN
  /\ \A k \in TargetKeys : IsP2p(k) /\ k.dodag # Self

VARIABLES
  dag_table,   \* rpl_dag_t dag_table[]
  p2p_table,   \* rpl_dag_p2p_t dag_p2p_table[]
  instance     \* last local instance ID handed out

vars == <<dag_table, p2p_table, instance>>

DagEntry == [used : BOOLEAN, joined : BOOLEAN, root : BOOLEAN, key : Keys,
             p2p : Slots \cup {None}, dio_timer : BOOLEAN,
             parents : SUBSET Nodes, preferred : Nodes \cup {NoNode}]

\* dro is the state of dro_timer: "unset" while its callback is NULL,
\* "pending" while it runs (dro_wait ticks are left), "fired" afterwards.
P2pEntry == [dag : Dags \cup {None}, lifetime : Nat, expired : BOOLEAN,
             rdo_lifetime : Nat, routes : Seq(Seq(Nodes)),
             dro : {"unset", "pending", "fired"}, dro_wait : Nat]

TypeOK ==
  /\ dag_table \in [Dags -> DagEntry]
  /\ p2p_table \in [Slots -> P2pEntry]
  /\ instance \in Instances

OwnKey(i) == [instance |-> i, dodag |-> Self]

\* What a released or zeroed entry holds.  The fields a release leaves
\* behind are read by nobody: readers test used, joined or dag first.
FreeDagEntry ==
  [used |-> FALSE, joined |-> FALSE, root |-> FALSE, key |-> OwnKey(GlobalInstance),
   p2p |-> None, dio_timer |-> FALSE, parents |-> {}, preferred |-> NoNode]
FreeP2pEntry ==
  [dag |-> None, lifetime |-> 0, expired |-> FALSE, rdo_lifetime |-> 0,
   routes |-> <<>>, dro |-> "unset", dro_wait |-> 0]

Init ==
  /\ dag_table = [d \in Dags |-> FreeDagEntry]
  /\ p2p_table = [s \in Slots |-> FreeP2pEntry]
  /\ instance = 0

-----------------------------------------------------------------------------
(* Table and pool helpers.  They take the table they look at, because a    *)
(* handler may free one entry and then allocate another.                   *)

Unused(dt) == {d \in Dags : ~dt[d].used}
Allocatable(dt) ==
  {s \in Slots : p2p_table[s].dag = None \/ ~dt[p2p_table[s].dag].used}
IsFirst(x, S) == x \in S /\ \A y \in S : x <= y

\* Mutant: rpl_get_dag finds only the DAGs this node is not the root of.
JoinedMember(k) ==
  {d \in Dags : /\ dag_table[d].joined /\ ~dag_table[d].root
                /\ dag_table[d].key = k}
Joined(k) == {d \in Dags : dag_table[d].joined /\ dag_table[d].key = k}

ParentsUsed(dt) == MapThenSumSet(LAMBDA d : Cardinality(dt[d].parents), Dags)
ParentLeft(dt) == ParentsUsed(dt) < NParents

\* An empty vector is stored as the DODAG ID, to tell it from an unused list.
Stored(k, v) == IF v = <<>> THEN <<k.dodag>> ELSE v
Blocks(routes) == FoldSeq(LAMBDA r, n : Len(r) + n, 0, routes)
AddrsUsed(pt) == MapThenSumSet(LAMBDA s : Blocks(pt[s].routes), Slots)

\* The partial routes of slot s after storing r besides those in kept: no
\* change when every list is taken or the address pool runs out.
AddPartialRoute(s, kept, r) ==
  LET freed == [p2p_table EXCEPT ![s].routes = kept]
  IN  IF Len(kept) < NPartial /\ AddrsUsed(freed) + Len(r) <= NAddrs
      THEN Append(kept, r) ELSE kept

\* The DRO timer starts once per entry, at the first DIO of a target.
StartDro(e, k) ==
  IF k \in TargetKeys /\ e.dro = "unset"
  THEN [e EXCEPT !.dro = "pending", !.dro_wait = DroWait] ELSE e

-----------------------------------------------------------------------------
(* rpl_discover_route: the application asks for a route.                   *)

\* rpl_alloc_dag: an entry in use that is not joined yet.
TakenEntry == [FreeDagEntry EXCEPT !.used = TRUE]
OriginDag(k, s) ==
  [TakenEntry EXCEPT !.joined = TRUE, !.root = TRUE, !.key = k, !.p2p = s,
                     !.dio_timer = TRUE]
OriginSlot(d) ==
  [FreeP2pEntry EXCEPT !.dag = d, !.lifetime = DefaultLifetime,
                       !.rdo_lifetime = DefaultLifetime]

\* dt is the DAG table after dropping a DAG that has the new instance ID:
\* rpl_free_dag releases the DAG only, not the P2P slot that extends it.
StartDiscovery(k, dt) ==
  \/ /\ \/ Unused(dt) = {}
        \/ \E d \in Unused(dt) :
             /\ IsFirst(d, Unused(dt))
             /\ Allocatable([dt EXCEPT ![d] = TakenEntry]) = {}
     /\ dag_table' = dt
     /\ UNCHANGED p2p_table
  \/ \E d \in Unused(dt), s \in Slots :
       /\ IsFirst(d, Unused(dt))
       /\ IsFirst(s, Allocatable([dt EXCEPT ![d] = TakenEntry]))
       /\ dag_table' = [dt EXCEPT ![d] = OriginDag(k, s)]
       /\ p2p_table' = [p2p_table EXCEPT ![s] = OriginSlot(d)]

DropFirst(S) ==
  [d \in Dags |-> IF IsFirst(d, S) THEN FreeDagEntry ELSE dag_table[d]]

Discover ==
  /\ instance' = (instance + 1) % NInstances
  /\ StartDiscovery(OwnKey(instance'), DropFirst(Joined(OwnKey(instance'))))

\* The instance counter has wrapped round to a discovery still held.
Wraps == Joined(OwnKey((instance + 1) % NInstances)) # {}

-----------------------------------------------------------------------------
(* join_dag: a DIO of finite rank about a DAG this node has not joined.    *)
(* A DIO that finds no DAG entry, that exceeds the maximum rank or finds   *)
(* no P2P slot releases whatever it took and changes nothing.              *)

MemberDag(k, n, s) ==
  [TakenEntry EXCEPT !.joined = TRUE, !.key = k, !.p2p = s, !.parents = {n},
                     !.preferred = n, !.dio_timer = k \notin TargetKeys]
MemberSlot(d, s, k, v) ==
  StartDro([FreeP2pEntry EXCEPT
              !.dag = d, !.lifetime = RdoLifetime[k],
              !.rdo_lifetime = RdoLifetime[k],
              !.routes = AddPartialRoute(s, <<>>, Stored(k, v))], k)

\* No memory for the parent, or an unsupported objective function: the
\* handler returns with the entry it took still marked as used.
JoinFails(d, n, ocp) ==
  /\ ~(ParentLeft(dag_table) /\ ocp)
  /\ dag_table' = [dag_table EXCEPT ![d] =
       [TakenEntry EXCEPT !.parents = IF ParentLeft(dag_table) THEN {n} ELSE @]]
  /\ UNCHANGED p2p_table

JoinGlobal(d, k, n) ==
  /\ ~IsP2p(k)
  /\ dag_table' = [dag_table EXCEPT ![d] = MemberDag(k, n, None)]
  /\ UNCHANGED p2p_table

JoinP2p(d, k, n, v) ==
  /\ IsP2p(k)
  /\ \E s \in Slots :
       /\ IsFirst(s, Allocatable([dag_table EXCEPT ![d] = TakenEntry]))
       /\ dag_table' = [dag_table EXCEPT ![d] = MemberDag(k, n, s)]
       /\ p2p_table' = [p2p_table EXCEPT ![s] = MemberSlot(d, s, k, v)]

Join(k, n, v, ocp) ==
  /\ Joined(k) = {}
  /\ \E d \in Unused(dag_table) :
       /\ IsFirst(d, Unused(dag_table))
       /\ \/ JoinFails(d, n, ocp)
          \/ /\ ParentLeft(dag_table) /\ ocp
             /\ JoinGlobal(d, k, n) \/ JoinP2p(d, k, n, v)
  /\ UNCHANGED instance

-----------------------------------------------------------------------------
(* rpl_process_dio for a discovery this node has joined.  The metric       *)
(* arithmetic is abstracted to its three outcomes: the DIO improves the    *)
(* advertised route, is as good as it (same: also with the link added), or *)
(* is worse; and to whether the preferred parent moves to the sender.      *)

\* The parents after adding n: the worst spare one is evicted when the pool
\* is empty, then one that is neither n nor preferred is dropped.

ParentChoicesKept(d, n) ==    \* mutant: rpl_process_dio drops no parent
  {IF n \in dag_table[d].parents \/ ParentLeft(dag_table)
   THEN dag_table[d].parents \cup {n} ELSE dag_table[d].parents}
ParentChoices(d, n) ==
  LET e     == dag_table[d]
      spare == e.parents \ {e.preferred}
      added == IF n \in e.parents THEN {e.parents}
               ELSE IF ParentLeft(dag_table) THEN {e.parents \cup {n}}
               ELSE {(e.parents \ {w}) \cup {n} : w \in spare}
      Surplus(P) == P \ {n, e.preferred}
  IN  UNION {IF Surplus(P) = {} THEN {P} ELSE {P \ {q} : q \in Surplus(P)}
             : P \in added}

\* rpl_p2p_update_dag replaces all routes, an alternative route is appended
\* unless rpl_p2p_route_differs finds it already.
RoutesAfterUnchecked(s, r, cmp) ==    \* mutant: no rpl_p2p_route_differs
  CASE cmp = "improved" -> AddPartialRoute(s, <<>>, r)
    [] cmp = "same" -> AddPartialRoute(s, p2p_table[s].routes, r)
    [] OTHER -> p2p_table[s].routes
RoutesAfter(s, r, cmp) ==
  LET routes == p2p_table[s].routes
  IN  IF cmp = "improved" THEN AddPartialRoute(s, <<>>, r)
      ELSE IF cmp = "same" /\ \A i \in DOMAIN routes : routes[i] # r
      THEN AddPartialRoute(s, routes, r)
      ELSE routes

UpdatedDag(d, P, b, cmp) ==
  LET e == dag_table[d]
  IN  [e EXCEPT !.parents = P, !.preferred = b,
         !.dio_timer = e.key \notin TargetKeys /\ (@ \/ cmp = "improved")]

\* Mutant: every DIO gives the discovery its full lifetime again.
UpdatedSlotRefreshed(s, k, v, cmp) ==
  StartDro([p2p_table[s] EXCEPT !.lifetime = RdoLifetime[k],
              !.routes = RoutesAfter(s, Stored(k, v), cmp)], k)
UpdatedSlot(s, k, v, cmp) ==
  StartDro([p2p_table[s] EXCEPT
              !.routes = RoutesAfter(s, Stored(k, v), cmp),
              !.rdo_lifetime = IF cmp = "improved" THEN RdoLifetime[k] ELSE @],
           k)

Receive(d, n, v, cmp) ==
  LET e == dag_table[d]
      s == e.p2p
  IN  /\ IsFirst(d, Joined(e.key)) /\ e.key \in HeardKeys /\ IsP2p(e.key)
      /\ ~e.root /\ ~p2p_table[s].expired
      /\ \E P \in ParentChoices(d, n), b \in {n, e.preferred} \ {NoNode} :
           dag_table' = [dag_table EXCEPT ![d] = UpdatedDag(d, P, b, cmp)]
      /\ p2p_table' = [p2p_table EXCEPT ![s] = UpdatedSlot(s, e.key, v, cmp)]
      /\ UNCHANGED instance

-----------------------------------------------------------------------------
(* dro_input, STOP bit: a DRO of a discovery this node holds and has not   *)
(* expired detaches it.  Only the target starts DROs, so a target hears    *)
(* one (its own, forwarded by the next hop) only after its DRO timer.      *)

StoppableExpired(d) ==    \* mutant: dro_input does not test expired
  LET e == dag_table[d]
  IN  e.joined /\ IsP2p(e.key)
Stoppable(d) ==
  LET e == dag_table[d]
  IN  /\ e.joined /\ IsP2p(e.key) /\ ~p2p_table[e.p2p].expired
      /\ e.key \in TargetKeys => p2p_table[e.p2p].dro = "fired"

StoppedSlot(s) == [p2p_table[s] EXCEPT !.lifetime = 0]

Stop(d) ==
  LET e == dag_table[d]
      s == e.p2p
  IN  /\ Stoppable(d)
      /\ dag_table' = [dag_table EXCEPT ![d] = [e EXCEPT !.dio_timer = FALSE]]
      /\ p2p_table' = [p2p_table EXCEPT ![s] = StoppedSlot(s)]
      /\ UNCHANGED instance

(* send_dros: the DRO timer of the target fires.  Each DRO sent carries    *)
(* the STOP bit and sets the lifetime of the entry to zero.                *)
AnsweredSlot(s) ==
  [p2p_table[s] EXCEPT !.dro = "fired",
     !.lifetime = IF p2p_table[s].routes = <<>> THEN @ ELSE 0]

SendDros(s) ==
  /\ p2p_table[s].dro = "pending" /\ p2p_table[s].dro_wait = 0
  /\ p2p_table' = [p2p_table EXCEPT ![s] = AnsweredSlot(s)]
  /\ UNCHANGED <<dag_table, instance>>

-----------------------------------------------------------------------------
(* handle_periodic_timer -> rpl_p2p_purge_dags, slots in index order.  A   *)
(* slot that frees its DAG hides the DAG from later slots pointing to it.  *)

InUse(s) == p2p_table[s].dag # None /\ dag_table[p2p_table[s].dag].used
Over(s) == p2p_table[s].lifetime <= 1
FreesAtOnce(s) ==    \* mutant: a DAG whose lifetime is over is freed
  /\ InUse(s) /\ Over(s)
  /\ ~\E t \in Slots : t < s /\ p2p_table[t].dag = p2p_table[s].dag /\ Over(t)
Frees(s) ==
  /\ InUse(s) /\ Over(s) /\ p2p_table[s].expired
  /\ ~\E t \in Slots : /\ t < s /\ p2p_table[t].dag = p2p_table[s].dag
                       /\ Over(t) /\ p2p_table[t].expired
Visited(s) ==
  InUse(s) /\ ~\E t \in Slots : t < s /\ Frees(t)
                                /\ p2p_table[t].dag = p2p_table[s].dag
Expires(s) == Visited(s) /\ Over(s) /\ ~p2p_table[s].expired

ReleasedUncleared(q) == [q EXCEPT !.dag = None]    \* mutant: routes kept
Released(q) == [q EXCEPT !.dag = None, !.routes = <<>>]
ExpiredSlotBriefly(q) ==    \* mutant: no fixed propagation time is added
  [q EXCEPT !.lifetime = q.rdo_lifetime, !.expired = TRUE]
ExpiredSlot(q) == [q EXCEPT !.lifetime = q.rdo_lifetime + KeepTime, !.expired = TRUE]
Aged(q) == [q EXCEPT !.lifetime = @ - 1]

PurgeP2p(s) ==
  CASE Frees(s) -> Released(p2p_table[s])
    [] Expires(s) -> ExpiredSlot(p2p_table[s])
    [] Visited(s) /\ ~Over(s) -> Aged(p2p_table[s])
    [] OTHER -> p2p_table[s]

\* An expired DAG stays in memory, without parents and silent, to recognise
\* the DIOs neighbours may still send about it.
SilencedParent(e) == [e EXCEPT !.dio_timer = FALSE]    \* mutant: parents kept
Silenced(e) ==
  [e EXCEPT !.dio_timer = FALSE, !.parents = {}, !.preferred = NoNode]

\* Mutants: the slot is freed without its DAG; the DAG stays marked as used.
PurgeDagKept(d) ==
  IF \E s \in Slots : Expires(s) /\ p2p_table[s].dag = d
  THEN Silenced(dag_table[d]) ELSE dag_table[d]
PurgeDagUsed(d) ==
  CASE \E s \in Slots : Frees(s) /\ p2p_table[s].dag = d -> TakenEntry
    [] \E s \in Slots : Expires(s) /\ p2p_table[s].dag = d -> Silenced(dag_table[d])
    [] OTHER -> dag_table[d]
PurgeDag(d) ==
  CASE \E s \in Slots : Frees(s) /\ p2p_table[s].dag = d -> FreeDagEntry
    [] (\E s \in Slots : Expires(s) /\ p2p_table[s].dag = d)
       /\ ~(\E s \in Slots : Frees(s) /\ p2p_table[s].dag = d)
         -> Silenced(dag_table[d])
    [] OTHER -> dag_table[d]

CountDownAlways(q) == [q EXCEPT !.dro_wait = @ - 1]    \* mutant: no callback test
CountDown(q) ==
  IF q.dro = "pending" THEN [q EXCEPT !.dro_wait = @ - 1] ELSE q

\* One second passes.  A DRO timer that has run out fires before the next
\* tick: timer events are served within a second.
Tick ==
  /\ \A s \in Slots : p2p_table[s].dro = "pending" => p2p_table[s].dro_wait > 0
  /\ dag_table' = [d \in Dags |-> PurgeDag(d)]
  /\ p2p_table' = [s \in Slots |-> CountDown(PurgeP2p(s))]
  /\ UNCHANGED instance

-----------------------------------------------------------------------------
(* The global DAG, as far as the shared tables see it: this node becomes   *)
(* its root (rpl_set_root), or it is joined by Join and its parent set     *)
(* then changes with DIOs and link feedback to anything that fits.         *)

GlobalDags == {d \in Dags : dag_table[d].joined /\ ~IsP2p(dag_table[d].key)}

SetRoot ==
  /\ \E d \in Unused(DropFirst(GlobalDags)) :
       /\ IsFirst(d, Unused(DropFirst(GlobalDags)))
       /\ dag_table' = [DropFirst(GlobalDags) EXCEPT ![d] =
                          OriginDag(OwnKey(GlobalInstance), None)]
  /\ UNCHANGED <<p2p_table, instance>>

GlobalDag(d, P, b) ==
  [dag_table[d] EXCEPT !.parents = P, !.preferred = b, !.dio_timer = TRUE]

GlobalParents(d) ==
  /\ d \in GlobalDags /\ ~dag_table[d].root
  /\ \E P \in SUBSET (Nodes \ {Self}), b \in Nodes \cup {NoNode} :
       /\ b \in P \cup {NoNode}
       /\ dag_table' = [dag_table EXCEPT ![d] = GlobalDag(d, P, b)]
       /\ ParentsUsed(dag_table') <= NParents
  /\ UNCHANGED <<p2p_table, instance>>

-----------------------------------------------------------------------------
Dio == \E n \in Nodes \ {Self}, v \in Vectors :
         \/ \E k \in HeardKeys, ocp \in Ocps : Join(k, n, v, ocp)
         \/ \E d \in Dags, cmp \in {"improved", "same", "worse"} :
              Receive(d, n, v, cmp)

NextButDiscover ==
  \/ Dio
  \/ \E d \in Dags : Stop(d) \/ GlobalParents(d)
  \/ \E s \in Slots : SendDros(s)
  \/ Tick
  \/ SetRoot

Next == Discover \/ NextButDiscover

\* The application never wraps the instance counter round to a discovery
\* that is still in memory: it starts fewer than NInstances discoveries
\* while one of them lives.
PacedNext == (Discover /\ ~Wraps) \/ NextButDiscover

Fairness == WF_vars(Tick) /\ \A s \in Slots : WF_vars(SendDros(s))

Spec == Init /\ [][Next]_vars
PacedSpec == Init /\ [][PacedNext]_vars
FairPacedSpec == PacedSpec /\ Fairness
-----------------------------------------------------------------------------
(* What the tables promise.                                                *)

\* Ownership is one-to-one: a slot in use and the DAG it extends point to
\* each other, the DAG is a joined P2P DAG, and every joined P2P DAG has a
\* slot.  rpl_p2p_purge_dags, dio_output and send_dros follow these pointers
\* without testing them.
SlotsPaired ==
  /\ \A s \in Slots : p2p_table[s].dag # None =>
       LET e == dag_table[p2p_table[s].dag]
       IN  e.used /\ e.joined /\ IsP2p(e.key) /\ e.p2p = s
  /\ \A d \in Dags : dag_table[d].joined =>
       /\ dag_table[d].used
       /\ IsP2p(dag_table[d].key) =>
            /\ dag_table[d].p2p \in Slots
            /\ p2p_table[dag_table[d].p2p].dag = d

\* rpl_get_dag finds the only P2P DAG with that instance and DODAG ID: no DIO
\* and no discovery makes a second entry for a discovery the node holds.
KeyUnique ==
  \A d, e \in Dags :
    /\ dag_table[d].joined /\ dag_table[e].joined
    /\ dag_table[d].key = dag_table[e].key /\ IsP2p(dag_table[d].key)
    => d = e

\* A running DRO timer belongs to a slot in use, and outlives neither its
\* DAG nor the expiry period: neither free, purge nor reallocation stops
\* dro_timer, so send_dros would otherwise run on a released entry.
DroTimerSafe ==
  \A s \in Slots : p2p_table[s].dro = "pending" =>
    /\ p2p_table[s].dag # None
    /\ p2p_table[s].dro_wait <= DroWait
    /\ p2p_table[s].expired => p2p_table[s].dro_wait < p2p_table[s].lifetime

\* rpl_p2p_alloc_dag zeroes the slot it hands out: a slot it may pick holds
\* no partial route, or the addresses of that route are lost to the pool.
NoRouteLeak ==
  \A s \in Allocatable(dag_table) : p2p_table[s].routes = <<>>

\* What makes NoRouteLeak inductive: free_dag releases the routes of a slot
\* with the slot.
ReleasedIsClean ==
  \A s \in Slots : p2p_table[s].dag = None => p2p_table[s].routes = <<>>

\* A slot and its DAG after expiry: silent and without parents, since the
\* parent memory is shared (comment in rpl_p2p_purge_dags).
ExpiredIsSilent ==
  \A s \in Slots : p2p_table[s].dag # None /\ p2p_table[s].expired =>
    /\ ~dag_table[p2p_table[s].dag].dio_timer
    /\ dag_table[p2p_table[s].dag].parents = {}

\* "The neighbor set only contains the current preferred parent and the
\* originator of this DIO" (rpl_process_dio), so that a change of preferred
\* parent can only be a change to the originator.
ParentsOfP2pDag ==
  \A d \in Dags : dag_table[d].joined /\ IsP2p(dag_table[d].key) =>
    /\ Cardinality(dag_table[d].parents) <= 2
    /\ dag_table[d].parents # {} =>
         dag_table[d].preferred \in dag_table[d].parents

\* The partial routes of a discovery are pairwise different, so that the
\* DROs of one discovery report different routes.
RoutesDistinct ==
  \A s \in Slots : \A i, j \in DOMAIN p2p_table[s].routes :
    p2p_table[s].routes[i] = p2p_table[s].routes[j] => i = j

\* "We use one global DAG for routes to the sink, the remaining DAGs can be
\* used by the P2P extension" (rpl-p2p.h): discoveries never take the entry
\* the global DAG needs.
GlobalSlotReserved == GlobalDags = {} => Unused(dag_table) # {}

\* A DRO with the STOP bit detaches the node from the discovery: until the
\* entry expires its DIO timer stays stopped (dro_input).
StoppedIsDetached ==
  \A s \in Slots : p2p_table[s].dag # None /\ p2p_table[s].lifetime = 0 =>
    ~dag_table[p2p_table[s].dag].dio_timer

\* An expired entry is kept for its whole period: nothing shortens the
\* lifetime it got on expiry, or a late DIO would create the DAG again.
ExpiredKeepsItsTime ==
  [][\A s \in Slots :
       p2p_table[s].dag # None /\ p2p_table[s].expired
       /\ p2p_table'[s].dag = p2p_table[s].dag
       => p2p_table'[s].lifetime >= p2p_table[s].lifetime - 1]_vars

\* lifetime is the "remaining lifetime of the DAG": short of a new discovery
\* replacing it, a discovery leaves the table only after its own slot has
\* expired and run down.
FreedByItsOwnLifetime ==
  [][\A d \in Dags :
       /\ instance' = instance /\ dag_table[d].joined /\ dag_table[d].root
       /\ IsP2p(dag_table[d].key) /\ ~dag_table'[d].joined
       => p2p_table[dag_table[d].p2p].expired]_vars

\* Every discovery this node takes part in is forgotten again, whatever the
\* neighbours keep sending about it.
SlotsRecovered == \A s \in Slots : []<>(p2p_table[s].dag = None)

\* "If this number is exceeded, a new discovery can only be started after a
\* previous one is expired" (README-P2P-RPL): a DAG entry that is not the
\* global DAG's becomes free again.
DagsRecovered == \A d \in Dags : []<>(~dag_table[d].used \/ d \in GlobalDags)

\* The detailed tables implement the memory of discoveries of
\* DiscoveryMemory: active, then expired, then forgotten.
Phase(k) ==
  IF Joined(k) = {} THEN "unknown"
  ELSE IF \E d \in Joined(k) : p2p_table[dag_table[d].p2p].expired
       THEN "expired" ELSE "active"
LocalKeys == {k \in Keys : IsP2p(k)}
Memory == INSTANCE DiscoveryMemory
            WITH Discoveries <- LocalKeys,
                 phase <- [k \in LocalKeys |-> Phase(k)]
MemorySpec == Memory!Spec
=============================================================================
