-------------------------- MODULE RplP2pDagsProofs --------------------------
(* Theorems about the DAG memory of a node, for every size of the tables.  *)
EXTENDS RplP2pDags, FiniteSetTheorems, TLAPS

\* Every entry an action writes has the type of its table.
LEMMA FreeEntries ==
  /\ FreeDagEntry \in DagEntry
  /\ FreeP2pEntry \in P2pEntry
BY NodesAssumption
   DEF FreeDagEntry, DagEntry, FreeP2pEntry, P2pEntry, OwnKey, Keys, None

LEMMA InstanceWraps ==
  ASSUME NEW i \in Instances
  PROVE  (i + 1) % NInstances \in Instances
<1>1. \A n \in Nat \ {0}, x \in Nat : x % n \in 0 .. n - 1
  BY SMT
<1>2. i + 1 \in Nat
  BY SizesAssumption DEF Instances
<1> QED
  BY <1>1, <1>2, SizesAssumption DEF Instances

LEMMA AddPartialRouteType ==
  ASSUME NEW s, NEW kept \in Seq(Seq(Nodes)), NEW r \in Seq(Nodes)
  PROVE  AddPartialRoute(s, kept, r) \in Seq(Seq(Nodes))
BY DEF AddPartialRoute

LEMMA StoredType ==
  ASSUME NEW k \in Keys, NEW v \in Seq(Nodes)
  PROVE  Stored(k, v) \in Seq(Nodes)
BY DEF Stored, Keys

LEMMA StartDroType ==
  ASSUME NEW e \in P2pEntry, NEW k
  PROVE  StartDro(e, k) \in P2pEntry
BY TimesAssumption DEF StartDro, P2pEntry

\* A purge changes these fields of a slot, or of a DAG, and no others.
LEMMA PurgedSlotType ==
  ASSUME NEW q \in P2pEntry
  PROVE  /\ Released(q) \in P2pEntry
         /\ ExpiredSlot(q) \in P2pEntry
         /\ ~(q.lifetime <= 1) => Aged(q) \in P2pEntry
<1>1. q.rdo_lifetime + KeepTime \in Nat
  BY TimesAssumption DEF P2pEntry
<1>2. ~(q.lifetime <= 1) => q.lifetime - 1 \in Nat
  BY DEF P2pEntry
<1>3. ASSUME NEW n \in Nat
      PROVE  /\ [q EXCEPT !.lifetime = n] \in P2pEntry
             /\ [q EXCEPT !.lifetime = n, !.expired = TRUE] \in P2pEntry
  BY DEF P2pEntry
<1>4. ASSUME NEW r \in Seq(Seq(Nodes)), NEW d \in Dags \cup {None}
      PROVE  [q EXCEPT !.dag = d, !.routes = r] \in P2pEntry
  BY DEF P2pEntry
<1>5. <<>> \in Seq(Seq(Nodes))
  OBVIOUS
<1> QED
  BY <1>1, <1>2, <1>3, <1>4, <1>5 DEF Released, ExpiredSlot, Aged

LEMMA PurgedSlotFields ==
  ASSUME NEW q \in P2pEntry
  PROVE  /\ /\ Released(q).dag = None /\ Released(q).routes = <<>>
            /\ Released(q).expired = q.expired /\ Released(q).dro = q.dro
            /\ Released(q).dro_wait = q.dro_wait
         /\ /\ ExpiredSlot(q).dag = q.dag /\ ExpiredSlot(q).routes = q.routes
            /\ ExpiredSlot(q).expired = TRUE /\ ExpiredSlot(q).dro = q.dro
            /\ ExpiredSlot(q).dro_wait = q.dro_wait
            /\ ExpiredSlot(q).lifetime = q.rdo_lifetime + KeepTime
         /\ /\ Aged(q).dag = q.dag /\ Aged(q).routes = q.routes
            /\ Aged(q).expired = q.expired /\ Aged(q).dro = q.dro
            /\ Aged(q).dro_wait = q.dro_wait
            /\ Aged(q).lifetime = q.lifetime - 1
BY DEF P2pEntry, Released, ExpiredSlot, Aged

LEMMA SilencedFields ==
  ASSUME NEW e \in DagEntry
  PROVE  /\ Silenced(e) \in DagEntry
         /\ Silenced(e).used = e.used /\ Silenced(e).joined = e.joined
         /\ Silenced(e).key = e.key /\ Silenced(e).p2p = e.p2p
         /\ Silenced(e).dio_timer = FALSE /\ Silenced(e).parents = {}
BY DEF DagEntry, Silenced

LEMMA DagEntryTypes ==
  ASSUME NEW k \in Keys, NEW n \in Nodes
  PROVE  /\ TakenEntry \in DagEntry
         /\ [TakenEntry EXCEPT !.parents = {n}] \in DagEntry
         /\ [TakenEntry EXCEPT !.parents = @] \in DagEntry
         /\ \A s \in Slots \cup {None} : /\ OriginDag(k, s) \in DagEntry
                                         /\ MemberDag(k, n, s) \in DagEntry
BY FreeEntries DEF TakenEntry, OriginDag, MemberDag, FreeDagEntry, DagEntry

LEMMA OriginSlotType ==
  ASSUME NEW d \in Dags
  PROVE  OriginSlot(d) \in P2pEntry
BY FreeEntries, TimesAssumption DEF OriginSlot, FreeP2pEntry, P2pEntry

LEMMA MemberSlotType ==
  ASSUME NEW d \in Dags, NEW s, NEW k \in HeardKeys, NEW v \in Vectors
  PROVE  MemberSlot(d, s, k, v) \in P2pEntry
<1>1. <<>> \in Seq(Seq(Nodes))
  OBVIOUS
<1>2. Stored(k, v) \in Seq(Nodes)
  BY StoredType, InputsAssumption
<1>3. AddPartialRoute(s, <<>>, Stored(k, v)) \in Seq(Seq(Nodes))
  BY <1>1, <1>2, AddPartialRouteType
<1>4. RdoLifetime[k] \in Nat
  BY TimesAssumption
<1>5. ASSUME NEW r \in Seq(Seq(Nodes)), NEW t \in Nat
      PROVE  [FreeP2pEntry EXCEPT !.dag = d, !.lifetime = t,
                !.rdo_lifetime = t, !.routes = r] \in P2pEntry
  BY DEF FreeP2pEntry, P2pEntry
<1>6. [FreeP2pEntry EXCEPT !.dag = d, !.lifetime = RdoLifetime[k],
         !.rdo_lifetime = RdoLifetime[k],
         !.routes = AddPartialRoute(s, <<>>, Stored(k, v))] \in P2pEntry
  BY <1>3, <1>4, <1>5
<1> QED
  BY <1>6, StartDroType DEF MemberSlot

LEMMA UpdatedSlotType ==
  ASSUME TypeOK, NEW s \in Slots, NEW k \in HeardKeys, NEW v \in Vectors, NEW cmp
  PROVE  UpdatedSlot(s, k, v, cmp) \in P2pEntry
<1> DEFINE q == p2p_table[s]
           r == RoutesAfter(s, Stored(k, v), cmp)
           t == IF cmp = "improved" THEN RdoLifetime[k] ELSE q.rdo_lifetime
<1>1. q \in P2pEntry
  BY DEF TypeOK
<1>2. Stored(k, v) \in Seq(Nodes)
  BY StoredType, InputsAssumption
<1>3. <<>> \in Seq(Seq(Nodes)) /\ q.routes \in Seq(Seq(Nodes))
  BY <1>1 DEF P2pEntry
<1>4. r \in Seq(Seq(Nodes))
  BY <1>2, <1>3, AddPartialRouteType DEF RoutesAfter
<1>5. t \in Nat
  BY <1>1, TimesAssumption DEF P2pEntry
<1>6. ASSUME NEW x \in Seq(Seq(Nodes)), NEW y \in Nat
      PROVE  [q EXCEPT !.routes = x, !.rdo_lifetime = y] \in P2pEntry
  BY <1>1 DEF P2pEntry
<1>7. [q EXCEPT !.routes = r, !.rdo_lifetime = t] \in P2pEntry
  BY <1>4, <1>5, <1>6
<1>8. UpdatedSlot(s, k, v, cmp) =
        StartDro([q EXCEPT !.routes = r, !.rdo_lifetime = t], k)
  BY DEF UpdatedSlot
<1> QED
  BY <1>7, <1>8, StartDroType

LEMMA UpdatedDagType ==
  ASSUME TypeOK, NEW d \in Dags, NEW n \in Nodes, NEW cmp,
         NEW P \in ParentChoices(d, n), NEW b \in {n, dag_table[d].preferred}
  PROVE  UpdatedDag(d, P, b, cmp) \in DagEntry
<1>1. dag_table[d] \in DagEntry
  BY DEF TypeOK
<1>2. P \subseteq Nodes
  BY <1>1 DEF ParentChoices, DagEntry
<1>3. b \in Nodes \cup {NoNode}
  BY <1>1 DEF DagEntry
<1> QED
  BY <1>1, <1>2, <1>3 DEF UpdatedDag, DagEntry

\* The tables hold well-formed entries whatever the application, the
\* neighbours and the clock do, wrapping instance counters included.
LEMMA TypeStep ==
  ASSUME TypeOK, [Next]_vars
  PROVE  TypeOK'
<1>1. /\ dag_table \in [Dags -> DagEntry]
      /\ p2p_table \in [Slots -> P2pEntry]
      /\ instance \in Instances
  BY DEF TypeOK
<1>2. \A S : DropFirst(S) \in [Dags -> DagEntry]
  BY <1>1, FreeEntries DEF DropFirst
<1>3. CASE Discover
  <2>1. instance' \in Instances
    BY <1>1, <1>3, InstanceWraps DEF Discover
  <2>2. OwnKey(instance') \in Keys
    BY <2>1, NodesAssumption DEF OwnKey, Keys
  <2>3. PICK dt \in [Dags -> DagEntry] : StartDiscovery(OwnKey(instance'), dt)
    BY <1>2, <1>3 DEF Discover
  <2>4. \A s \in Slots : OriginDag(OwnKey(instance'), s) \in DagEntry
    BY <2>2, NodesAssumption, DagEntryTypes
  <2> QED
    BY <1>1, <2>1, <2>3, <2>4, OriginSlotType DEF StartDiscovery, TypeOK, Unused
<1>4. ASSUME NEW k \in HeardKeys, NEW n \in Nodes \ {Self},
             NEW v \in Vectors, NEW ocp \in Ocps, Join(k, n, v, ocp)
      PROVE  TypeOK'
  <2>1. k \in Keys
    BY InputsAssumption
  <2>2. PICK d \in Dags : \/ JoinFails(d, n, ocp)
                          \/ JoinGlobal(d, k, n)
                          \/ JoinP2p(d, k, n, v)
    BY <1>4 DEF Join, Unused
  <2>3. CASE JoinFails(d, n, ocp)
    BY <1>1, <1>4, <2>1, <2>3, DagEntryTypes DEF JoinFails, Join, TypeOK
  <2>4. CASE JoinGlobal(d, k, n)
    BY <1>1, <1>4, <2>1, <2>4, DagEntryTypes DEF JoinGlobal, Join, TypeOK
  <2>5. CASE JoinP2p(d, k, n, v)
    <3>1. PICK s \in Slots :
            /\ dag_table' = [dag_table EXCEPT ![d] = MemberDag(k, n, s)]
            /\ p2p_table' = [p2p_table EXCEPT ![s] = MemberSlot(d, s, k, v)]
      BY <2>5 DEF JoinP2p
    <3>2. MemberDag(k, n, s) \in DagEntry
      BY <2>1, DagEntryTypes
    <3>3. MemberSlot(d, s, k, v) \in P2pEntry
      BY MemberSlotType
    <3> QED
      BY <1>1, <1>4, <3>1, <3>2, <3>3 DEF Join, TypeOK
  <2> QED
    BY <2>2, <2>3, <2>4, <2>5
<1>5. ASSUME NEW d \in Dags, NEW n \in Nodes \ {Self}, NEW v \in Vectors,
             NEW cmp, Receive(d, n, v, cmp)
      PROVE  TypeOK'
  <2>1. dag_table' \in [Dags -> DagEntry]
    BY <1>1, <1>5, UpdatedDagType DEF Receive
  <2>2. p2p_table' \in [Slots -> P2pEntry]
    BY <1>1, <1>5, UpdatedSlotType DEF Receive
  <2> QED
    BY <1>1, <1>5, <2>1, <2>2 DEF Receive, TypeOK
<1>6. ASSUME NEW d \in Dags, Stop(d)
      PROVE  TypeOK'
  <2>1. [dag_table[d] EXCEPT !.dio_timer = FALSE] \in DagEntry
    BY <1>1 DEF DagEntry
  <2>2. \A s \in Slots : StoppedSlot(s) \in P2pEntry
    BY <1>1 DEF StoppedSlot, P2pEntry
  <2> QED
    BY <1>1, <1>6, <2>1, <2>2 DEF Stop, TypeOK
<1>7. ASSUME NEW d \in Dags, GlobalParents(d)
      PROVE  TypeOK'
  <2>1. \A P \in SUBSET Nodes, b \in Nodes \cup {NoNode} :
          GlobalDag(d, P, b) \in DagEntry
    BY <1>1 DEF GlobalDag, DagEntry
  <2> QED
    BY <1>1, <1>7, <2>1 DEF GlobalParents, TypeOK
<1>8. ASSUME NEW s \in Slots, SendDros(s)
      PROVE  TypeOK'
  <2>1. AnsweredSlot(s) \in P2pEntry
    BY <1>1 DEF AnsweredSlot, P2pEntry
  <2> QED
    BY <1>1, <1>8, <2>1 DEF SendDros, TypeOK
<1>9. CASE Tick
  <2>1. ASSUME NEW d \in Dags
        PROVE  PurgeDag(d) \in DagEntry
    BY <1>1, FreeEntries, SilencedFields DEF PurgeDag
  <2>2. ASSUME NEW s \in Slots
        PROVE  PurgeP2p(s) \in P2pEntry
    BY <1>1, PurgedSlotType DEF PurgeP2p, Over
  <2>3. ASSUME NEW s \in Slots
        PROVE  CountDown(PurgeP2p(s)) \in P2pEntry
    <3>1. /\ PurgeP2p(s).dro = p2p_table[s].dro
          /\ PurgeP2p(s).dro_wait = p2p_table[s].dro_wait
      BY <1>1, PurgedSlotFields DEF PurgeP2p
    <3>2. p2p_table[s].dro = "pending" => p2p_table[s].dro_wait - 1 \in Nat
      BY <1>1, <1>9 DEF Tick, P2pEntry
    <3> QED
      BY <2>2, <3>1, <3>2 DEF CountDown, P2pEntry
  <2> QED
    BY <1>1, <1>9, <2>1, <2>3 DEF Tick, TypeOK
<1>10. CASE SetRoot
  <2>1. OriginDag(OwnKey(GlobalInstance), None) \in DagEntry
    <3>1. OwnKey(GlobalInstance) \in Keys
      BY NodesAssumption DEF OwnKey, Keys
    <3> QED
      BY <3>1, NodesAssumption, DagEntryTypes
  <2> QED
    BY <1>1, <1>2, <1>10, <2>1 DEF SetRoot, TypeOK
<1>11. CASE UNCHANGED vars
  BY <1>1, <1>11 DEF vars, TypeOK
<1> QED
  BY <1>3, <1>4, <1>5, <1>6, <1>7, <1>8, <1>9, <1>10, <1>11
     DEF Next, NextButDiscover, Dio

LEMMA TypeInit == Init => TypeOK
BY FreeEntries, SizesAssumption DEF Init, TypeOK, Instances

THEOREM TypeCorrect == Spec => []TypeOK
BY TypeInit, TypeStep, PTL DEF Spec

-----------------------------------------------------------------------------
(* The inductive invariant of a node whose application paces its           *)
(* discoveries.  Ownership (SlotsPaired) carries the rest: a slot that may *)
(* be allocated is a released one, so it holds no route and no running     *)
(* timer, and a DAG is purged by its own slot only.                        *)
Inv ==
  /\ TypeOK /\ SlotsPaired /\ KeyUnique
  /\ DroTimerSafe /\ ReleasedIsClean /\ ExpiredIsSilent

\* A step of the tables is a step of the abstract memory, or leaves it alone.
Remembers == [Memory!Next]_([k \in LocalKeys |-> Phase(k)])

LEMMA SamePhase ==
  ASSUME NEW k,
         \A d \in Dags :
           /\ (dag_table'[d].joined /\ dag_table'[d].key = k)
                <=> (dag_table[d].joined /\ dag_table[d].key = k)
           /\ dag_table[d].joined /\ dag_table[d].key = k =>
                (p2p_table'[dag_table'[d].p2p].expired
                   <=> p2p_table[dag_table[d].p2p].expired)
  PROVE  Phase(k)' = Phase(k)
BY DEF Phase, Joined

LEMMA SamePhases ==
  ASSUME \A k \in LocalKeys : Phase(k)' = Phase(k)
  PROVE  Remembers
BY DEF Remembers

LEMMA StartedPhase ==
  ASSUME NEW j \in LocalKeys, Phase(j) = "unknown", Phase(j)' = "active",
         \A k \in LocalKeys \ {j} : Phase(k)' = Phase(k)
  PROVE  Remembers
<1>1. Memory!Start(j)
  BY DEF Memory!Start
<1> QED
  BY <1>1 DEF Remembers, Memory!Next

LEMMA AgedPhases ==
  ASSUME \A k \in LocalKeys :
           \/ Phase(k)' = Phase(k)
           \/ Phase(k) = "active" /\ Phase(k)' = "expired"
           \/ Phase(k) = "expired" /\ Phase(k)' = "unknown"
  PROVE  Remembers
<1> DEFINE ph == [k \in LocalKeys |-> Phase(k)]
           E == {k \in LocalKeys : Phase(k) = "active" /\ Phase(k)' = "expired"}
           F == {k \in LocalKeys : Phase(k) = "expired" /\ Phase(k)' = "unknown"}
<1>1. /\ E \in SUBSET {k \in LocalKeys : ph[k] = "active"}
      /\ F \in SUBSET {k \in LocalKeys : ph[k] = "expired"}
  OBVIOUS
<1>2. ph' = [k \in LocalKeys |-> IF k \in E THEN "expired"
                                ELSE IF k \in F THEN "unknown" ELSE ph[k]]
  OBVIOUS
<1>3. Memory!Age
  BY <1>1, <1>2 DEF Memory!Age
<1> QED
  BY <1>3 DEF Remembers, Memory!Next

LEMMA UnusedIsFree ==
  ASSUME SlotsPaired, NEW d \in Dags, ~dag_table[d].used
  PROVE  /\ ~dag_table[d].joined
         /\ \A s \in Slots : p2p_table[s].dag # d
BY DEF SlotsPaired, Dags, None

LEMMA AllocatableIsReleased ==
  ASSUME TypeOK, SlotsPaired, NEW d \in Dags,
         NEW s \in Allocatable([dag_table EXCEPT ![d] = TakenEntry])
  PROVE  s \in Slots /\ p2p_table[s].dag = None
BY DEF Allocatable, TypeOK, SlotsPaired, TakenEntry, FreeDagEntry, P2pEntry

\* A discovery enters the tables in a free DAG entry and a released slot.
LEMMA Enter ==
  ASSUME Inv, TypeOK', NEW d \in Dags, ~dag_table[d].used,
         NEW s \in Slots, p2p_table[s].dag = None,
         NEW e \in DagEntry, e.used, e.joined, e.p2p = s, IsP2p(e.key),
         Joined(e.key) = {},
         NEW q \in P2pEntry, q.dag = d, ~q.expired, q.dro_wait <= DroWait,
         dag_table' = [dag_table EXCEPT ![d] = e],
         p2p_table' = [p2p_table EXCEPT ![s] = q]
  PROVE  Inv' /\ Remembers
<1>1. /\ ~dag_table[d].joined
      /\ \A t \in Slots : p2p_table[t].dag # d
  BY UnusedIsFree DEF Inv
<1>2. /\ dag_table \in [Dags -> DagEntry]
      /\ p2p_table \in [Slots -> P2pEntry]
      /\ d # None
  BY DEF Inv, TypeOK, Dags, None
<1>3. /\ dag_table'[d] = e /\ \A x \in Dags \ {d} : dag_table'[x] = dag_table[x]
      /\ p2p_table'[s] = q /\ \A t \in Slots \ {s} : p2p_table'[t] = p2p_table[t]
  BY <1>2
<1>4. SlotsPaired'
  <2>1. SlotsPaired
    BY DEF Inv
  <2>2. ASSUME NEW t \in Slots, p2p_table'[t].dag # None
        PROVE  LET x == dag_table'[p2p_table'[t].dag]
               IN  x.used /\ x.joined /\ IsP2p(x.key) /\ x.p2p = t
    <3>1. CASE t = s
      BY <1>3, <3>1
    <3>2. CASE t # s
      <4>1. p2p_table'[t] = p2p_table[t] /\ p2p_table[t].dag \in Dags \ {d}
        BY <1>1, <1>2, <1>3, <2>2, <3>2 DEF P2pEntry
      <4> QED
        BY <1>3, <2>1, <2>2, <4>1 DEF SlotsPaired
    <3> QED
      BY <3>1, <3>2
  <2>3. ASSUME NEW x \in Dags, dag_table'[x].joined
        PROVE  /\ dag_table'[x].used
               /\ IsP2p(dag_table'[x].key) =>
                    /\ dag_table'[x].p2p \in Slots
                    /\ p2p_table'[dag_table'[x].p2p].dag = x
    <3>1. CASE x = d
      BY <1>3, <3>1
    <3>2. CASE x # d
      <4>1. dag_table'[x] = dag_table[x] /\ x # None
        BY <1>3, <3>2 DEF Dags, None
      <4>2. IsP2p(dag_table[x].key) => dag_table[x].p2p # s
        BY <2>1, <2>3, <4>1 DEF SlotsPaired
      <4> QED
        BY <1>3, <2>1, <2>3, <4>1, <4>2 DEF SlotsPaired
    <3> QED
      BY <3>1, <3>2
  <2> QED
    BY <2>2, <2>3 DEF SlotsPaired
<1>5. KeyUnique'
  <2>1. \A x \in Dags : dag_table[x].joined => dag_table[x].key # e.key
    BY DEF Joined
  <2> QED
    BY <1>3, <2>1 DEF Inv, KeyUnique
<1>6. DroTimerSafe'
  BY <1>2, <1>3 DEF Inv, DroTimerSafe
<1>7. ReleasedIsClean'
  BY <1>2, <1>3 DEF Inv, ReleasedIsClean
<1>8. ExpiredIsSilent'
  <2>1. \A t \in Slots \ {s} : p2p_table[t].dag # None => p2p_table[t].dag \in Dags \ {d}
    BY <1>1, <1>2 DEF P2pEntry
  <2> QED
    BY <1>3, <2>1 DEF Inv, ExpiredIsSilent
<1>9. Remembers
  <2>1. e.key \in LocalKeys
    BY DEF DagEntry, LocalKeys
  <2>2. Phase(e.key) = "unknown"
    BY DEF Phase
  <2>3. Phase(e.key)' = "active"
    <3>1. Joined(e.key)' = {d}
      BY <1>3 DEF Joined
    <3> QED
      BY <1>3, <3>1 DEF Phase
  <2>4. ASSUME NEW k \in LocalKeys \ {e.key}
        PROVE  Phase(k)' = Phase(k)
    <3>1. ASSUME NEW x \in Dags
          PROVE  /\ (dag_table'[x].joined /\ dag_table'[x].key = k)
                      <=> (dag_table[x].joined /\ dag_table[x].key = k)
                 /\ dag_table[x].joined /\ dag_table[x].key = k =>
                      (p2p_table'[dag_table'[x].p2p].expired
                         <=> p2p_table[dag_table[x].p2p].expired)
      <4>1. CASE x = d
        BY <1>1, <1>3, <2>4, <4>1
      <4>2. CASE x # d
        <5>1. dag_table'[x] = dag_table[x] /\ x # None
          BY <1>3, <4>2 DEF Dags, None
        <5>2. dag_table[x].joined /\ dag_table[x].key = k =>
                dag_table[x].p2p \in Slots \ {s}
          BY <5>1 DEF Inv, SlotsPaired, LocalKeys
        <5> QED
          BY <1>3, <5>1, <5>2
      <4> QED
        BY <4>1, <4>2
    <3> QED
      BY <3>1, SamePhase
  <2> QED
    BY <2>1, <2>2, <2>3, <2>4, StartedPhase
<1> QED
  BY <1>4, <1>5, <1>6, <1>7, <1>8, <1>9 DEF Inv

\* DAG entries that no slot extends are written: taken entries, global DAGs,
\* or freed ones.
LEMMA OutsideSlots ==
  ASSUME Inv, TypeOK', UNCHANGED p2p_table,
         \A d \in Dags : dag_table'[d] # dag_table[d] =>
           /\ \A s \in Slots : p2p_table[s].dag # d
           /\ dag_table'[d].joined =>
                dag_table'[d].used /\ ~IsP2p(dag_table'[d].key)
  PROVE  Inv' /\ Remembers
<1>1. \A s \in Slots : p2p_table[s].dag # None =>
         /\ p2p_table[s].dag \in Dags
         /\ dag_table'[p2p_table[s].dag] = dag_table[p2p_table[s].dag]
  BY DEF Inv, TypeOK, P2pEntry
<1>2. SlotsPaired'
  BY <1>1 DEF Inv, SlotsPaired
<1>3. KeyUnique'
  <2>1. \A d \in Dags : dag_table'[d].joined /\ IsP2p(dag_table'[d].key)
                         => dag_table'[d] = dag_table[d]
    OBVIOUS
  <2> QED
    BY <2>1 DEF Inv, KeyUnique
<1>4. DroTimerSafe' /\ ReleasedIsClean'
  BY DEF Inv, DroTimerSafe, ReleasedIsClean
<1>5. ExpiredIsSilent'
  BY <1>1 DEF Inv, ExpiredIsSilent
<1>6. Remembers
  <2>1. ASSUME NEW k \in LocalKeys, NEW d \in Dags
        PROVE  /\ dag_table[d].joined /\ dag_table[d].key = k
                    => dag_table'[d] = dag_table[d]
               /\ dag_table'[d].joined /\ dag_table'[d].key = k
                    => dag_table'[d] = dag_table[d]
    BY DEF Inv, SlotsPaired, LocalKeys
  <2>2. ASSUME NEW k \in LocalKeys
        PROVE  Phase(k)' = Phase(k)
    BY <2>1, SamePhase
  <2> QED
    BY <2>2, SamePhases
<1> QED
  BY <1>2, <1>3, <1>4, <1>5, <1>6 DEF Inv

\* A discovery that stays in its entries and is not expired is updated.
LEMMA UpdateActive ==
  ASSUME Inv, TypeOK', NEW d \in Dags, NEW s \in Slots,
         dag_table[d].joined, IsP2p(dag_table[d].key), dag_table[d].p2p = s,
         ~p2p_table[s].expired,
         NEW e \in DagEntry, e.used, e.joined, e.key = dag_table[d].key, e.p2p = s,
         NEW q \in P2pEntry, q.dag = p2p_table[s].dag, ~q.expired,
         q.dro = "pending" => q.dro_wait <= DroWait,
         dag_table' = [dag_table EXCEPT ![d] = e],
         p2p_table' = [p2p_table EXCEPT ![s] = q]
  PROVE  Inv' /\ Remembers
<1>1. /\ dag_table \in [Dags -> DagEntry]
      /\ p2p_table \in [Slots -> P2pEntry]
      /\ d # None
  BY DEF Inv, TypeOK, Dags, None
<1>2. /\ dag_table'[d] = e /\ \A x \in Dags \ {d} : dag_table'[x] = dag_table[x]
      /\ p2p_table'[s] = q /\ \A t \in Slots \ {s} : p2p_table'[t] = p2p_table[t]
  BY <1>1
<1>3. /\ p2p_table[s].dag = d
      /\ \A t \in Slots \ {s} : p2p_table[t].dag # None
                                => p2p_table[t].dag \in Dags \ {d}
  BY <1>1 DEF Inv, SlotsPaired, P2pEntry
<1>4. SlotsPaired'
  <2>1. \A t \in Slots : p2p_table'[t].dag = p2p_table[t].dag
    BY <1>2
  <2>2. \A x \in Dags : /\ dag_table'[x].joined = dag_table[x].joined
                        /\ dag_table'[x].key = dag_table[x].key
                        /\ dag_table'[x].p2p = dag_table[x].p2p
                        /\ dag_table[x].used => dag_table'[x].used
    BY <1>1, <1>2 DEF DagEntry
  <2> QED
    BY <1>1, <2>1, <2>2 DEF Inv, SlotsPaired, P2pEntry
<1>5. KeyUnique'
  BY <1>2 DEF Inv, KeyUnique
<1>6. DroTimerSafe' /\ ReleasedIsClean'
  BY <1>1, <1>2, <1>3 DEF Inv, DroTimerSafe, ReleasedIsClean
<1>7. ExpiredIsSilent'
  BY <1>1, <1>2, <1>3 DEF Inv, ExpiredIsSilent
<1>8. Remembers
  <2>1. \A x \in Dags : /\ dag_table'[x].joined <=> dag_table[x].joined
                        /\ dag_table'[x].key = dag_table[x].key
                        /\ dag_table'[x].p2p = dag_table[x].p2p
    BY <1>2
  <2>2. \A t \in Slots : p2p_table'[t].expired <=> p2p_table[t].expired
    BY <1>2
  <2>3. \A k \in LocalKeys, x \in Dags :
          dag_table[x].joined /\ dag_table[x].key = k => dag_table[x].p2p \in Slots
    BY DEF Inv, SlotsPaired, LocalKeys
  <2>4. ASSUME NEW k \in LocalKeys
        PROVE  Phase(k)' = Phase(k)
    BY <2>1, <2>2, <2>3, SamePhase
  <2> QED
    BY <2>4, SamePhases
<1> QED
  BY <1>4, <1>5, <1>6, <1>7, <1>8 DEF Inv

\* With ownership one-to-one, the purge treats each slot and its DAG by
\* themselves.
LEMMA PurgeAlone ==
  ASSUME TypeOK, SlotsPaired
  PROVE  /\ \A s \in Slots : Visited(s) <=> p2p_table[s].dag # None
         /\ \A s \in Slots : Frees(s) <=> /\ p2p_table[s].dag # None
                                        /\ Over(s) /\ p2p_table[s].expired
         /\ \A s, t \in Slots : p2p_table[s].dag # None
                                /\ p2p_table[s].dag = p2p_table[t].dag => s = t
<1>1. \A s, t \in Slots : p2p_table[s].dag # None
                          /\ p2p_table[s].dag = p2p_table[t].dag => s = t
  BY DEF SlotsPaired
<1>2. \A s \in Slots : InUse(s) <=> p2p_table[s].dag # None
  BY DEF InUse, SlotsPaired
<1>3. \A s \in Slots : ~(s < s)
  BY SizesAssumption DEF Slots
<1>4. \A s \in Slots : Frees(s) <=> /\ p2p_table[s].dag # None
                                   /\ Over(s) /\ p2p_table[s].expired
  BY <1>1, <1>2, <1>3 DEF Frees
<1> QED
  BY <1>1, <1>2, <1>3, <1>4 DEF Visited

\* What a tick does to a slot and to its DAG.
LEMMA TickEffect ==
  ASSUME TypeOK, SlotsPaired, Tick
  PROVE  /\ \A s \in Slots :
              /\ p2p_table'[s].dag = IF Frees(s) THEN None ELSE p2p_table[s].dag
              /\ p2p_table'[s].routes = IF Frees(s) THEN <<>> ELSE p2p_table[s].routes
              /\ p2p_table'[s].expired =
                   (p2p_table[s].expired \/ (p2p_table[s].dag # None /\ Over(s)))
              /\ p2p_table'[s].dro = p2p_table[s].dro
         /\ \A d \in Dags :
              (\A s \in Slots : p2p_table[s].dag # d) => dag_table'[d] = dag_table[d]
         /\ \A s \in Slots : p2p_table[s].dag # None =>
              LET d == p2p_table[s].dag IN
              /\ Frees(s) => dag_table'[d] = FreeDagEntry
              /\ ~Frees(s) => /\ dag_table'[d].used = dag_table[d].used
                              /\ dag_table'[d].joined = dag_table[d].joined
                              /\ dag_table'[d].key = dag_table[d].key
                              /\ dag_table'[d].p2p = dag_table[d].p2p
              /\ Over(s) /\ ~p2p_table[s].expired =>
                   ~dag_table'[d].dio_timer /\ dag_table'[d].parents = {}
              /\ ~Over(s) => dag_table'[d] = dag_table[d]
<1>1. /\ dag_table \in [Dags -> DagEntry]
      /\ p2p_table \in [Slots -> P2pEntry]
      /\ dag_table' = [d \in Dags |-> PurgeDag(d)]
      /\ p2p_table' = [s \in Slots |-> CountDown(PurgeP2p(s))]
  BY DEF TypeOK, Tick
<1>2. ASSUME NEW s \in Slots
      PROVE  /\ p2p_table'[s].dag = IF Frees(s) THEN None ELSE p2p_table[s].dag
             /\ p2p_table'[s].routes = IF Frees(s) THEN <<>> ELSE p2p_table[s].routes
             /\ p2p_table'[s].expired =
                  (p2p_table[s].expired \/ (p2p_table[s].dag # None /\ Over(s)))
             /\ p2p_table'[s].dro = p2p_table[s].dro
  <2> DEFINE q == p2p_table[s]
  <2>1. q \in P2pEntry /\ p2p_table'[s] = CountDown(PurgeP2p(s))
    BY <1>1
  <2>2. PurgeP2p(s) \in P2pEntry
    BY <2>1, PurgedSlotType DEF PurgeP2p, Over
  <2>3. /\ CountDown(PurgeP2p(s)).dag = PurgeP2p(s).dag
        /\ CountDown(PurgeP2p(s)).routes = PurgeP2p(s).routes
        /\ CountDown(PurgeP2p(s)).expired = PurgeP2p(s).expired
        /\ CountDown(PurgeP2p(s)).dro = PurgeP2p(s).dro
    BY <2>2 DEF CountDown, P2pEntry
  <2>4. /\ PurgeP2p(s).dag = IF Frees(s) THEN None ELSE q.dag
        /\ PurgeP2p(s).routes = IF Frees(s) THEN <<>> ELSE q.routes
        /\ PurgeP2p(s).dro = q.dro
    <3>1. CASE Frees(s)
      <4>1. PurgeP2p(s) = Released(q)
        BY <3>1 DEF PurgeP2p, Expires, Frees
      <4>2. /\ PurgeP2p(s).dag = None /\ PurgeP2p(s).routes = <<>>
            /\ PurgeP2p(s).dro = q.dro
        BY <2>1, <4>1, PurgedSlotFields
      <4> QED
        BY <3>1, <4>2
    <3>2. CASE ~Frees(s)
      <4>1. \/ PurgeP2p(s) = ExpiredSlot(q)
            \/ PurgeP2p(s) = Aged(q)
            \/ PurgeP2p(s) = q
        BY <3>2 DEF PurgeP2p
      <4>2. /\ ExpiredSlot(q).dag = q.dag /\ ExpiredSlot(q).routes = q.routes
            /\ ExpiredSlot(q).dro = q.dro
            /\ Aged(q).dag = q.dag /\ Aged(q).routes = q.routes
            /\ Aged(q).dro = q.dro
        BY <2>1, PurgedSlotFields
      <4>3. /\ PurgeP2p(s).dag = q.dag /\ PurgeP2p(s).routes = q.routes
            /\ PurgeP2p(s).dro = q.dro
        BY <4>1, <4>2
      <4> QED
        BY <3>2, <4>3
    <3> QED
      BY <3>1, <3>2
  <2>5. PurgeP2p(s).expired = (q.expired \/ (q.dag # None /\ Over(s)))
    <3>1. /\ Visited(s) <=> q.dag # None
          /\ Frees(s) <=> q.dag # None /\ Over(s) /\ q.expired
          /\ q.expired \in BOOLEAN
      BY <2>1, PurgeAlone DEF P2pEntry
    <3>2. CASE Frees(s)
      BY <2>1, <3>1, <3>2, PurgedSlotFields DEF PurgeP2p
    <3>3. CASE ~Frees(s) /\ Expires(s)
      BY <2>1, <3>1, <3>3, PurgedSlotFields DEF PurgeP2p, Expires
    <3>4. CASE ~Frees(s) /\ ~Expires(s)
      <4>1. PurgeP2p(s).expired = q.expired
        BY <2>1, <3>4, PurgedSlotFields DEF PurgeP2p
      <4>2. ~(q.dag # None /\ Over(s)) \/ q.expired
        BY <3>1, <3>4 DEF Expires
      <4> QED
        BY <3>1, <4>1, <4>2
    <3> QED
      BY <3>2, <3>3, <3>4
  <2> QED
    BY <2>1, <2>3, <2>4, <2>5
<1>3. ASSUME NEW d \in Dags, \A s \in Slots : p2p_table[s].dag # d
      PROVE  dag_table'[d] = dag_table[d]
  BY <1>1, <1>3 DEF PurgeDag
<1>4. ASSUME NEW s \in Slots, p2p_table[s].dag # None
      PROVE  LET d == p2p_table[s].dag IN
             /\ Frees(s) => dag_table'[d] = FreeDagEntry
             /\ ~Frees(s) => /\ dag_table'[d].used = dag_table[d].used
                             /\ dag_table'[d].joined = dag_table[d].joined
                             /\ dag_table'[d].key = dag_table[d].key
                             /\ dag_table'[d].p2p = dag_table[d].p2p
             /\ Over(s) /\ ~p2p_table[s].expired =>
                  ~dag_table'[d].dio_timer /\ dag_table'[d].parents = {}
             /\ ~Over(s) => dag_table'[d] = dag_table[d]
  <2> DEFINE d == p2p_table[s].dag
  <2>1. d \in Dags /\ dag_table[d] \in DagEntry /\ dag_table'[d] = PurgeDag(d)
    BY <1>1, <1>4 DEF P2pEntry
  <2>2. \A t \in Slots : p2p_table[t].dag = d => t = s
    BY <1>4, PurgeAlone
  <2>3. Frees(s) => PurgeDag(d) = FreeDagEntry
    BY DEF PurgeDag
  <2>4. ~Frees(s) /\ Expires(s) => PurgeDag(d) = Silenced(dag_table[d])
    BY <2>2 DEF PurgeDag
  <2>5. ~Frees(s) /\ ~Expires(s) => PurgeDag(d) = dag_table[d]
    BY <2>2 DEF PurgeDag
  <2>6. Expires(s) <=> Over(s) /\ ~p2p_table[s].expired
    BY <1>4, PurgeAlone DEF Expires
  <2>7. Frees(s) <=> Over(s) /\ p2p_table[s].expired
    BY <1>4, PurgeAlone
  <2> HIDE DEF d
  <2>9. /\ Frees(s) => dag_table'[d] = FreeDagEntry
        /\ ~Frees(s) => /\ dag_table'[d].used = dag_table[d].used
                        /\ dag_table'[d].joined = dag_table[d].joined
                        /\ dag_table'[d].key = dag_table[d].key
                        /\ dag_table'[d].p2p = dag_table[d].p2p
        /\ Over(s) /\ ~p2p_table[s].expired =>
             ~dag_table'[d].dio_timer /\ dag_table'[d].parents = {}
        /\ ~Over(s) => dag_table'[d] = dag_table[d]
    BY <2>1, <2>3, <2>4, <2>5, <2>6, <2>7, SilencedFields
  <2> QED
    BY <2>9 DEF d
<1> QED
  BY <1>2, <1>3, <1>4

\* A DRO timer that is running runs on, and the period of an expired slot is
\* still longer than what is left of it.
LEMMA TickTimer ==
  ASSUME TypeOK, SlotsPaired, DroTimerSafe, Tick,
         NEW s \in Slots, p2p_table'[s].dro = "pending"
  PROVE  /\ p2p_table'[s].dag # None
         /\ p2p_table'[s].dro_wait <= DroWait
         /\ p2p_table'[s].expired => p2p_table'[s].dro_wait < p2p_table'[s].lifetime
<1> DEFINE q == p2p_table[s]
<1>1. q \in P2pEntry /\ p2p_table'[s] = CountDown(PurgeP2p(s))
  BY DEF TypeOK, Tick
<1>2. q.dro = "pending" /\ p2p_table'[s].dag = IF Frees(s) THEN None ELSE q.dag
  BY TickEffect
<1>3. /\ q.dag # None /\ q.dro_wait <= DroWait /\ q.dro_wait > 0
      /\ q.expired => q.dro_wait < q.lifetime
  BY <1>2 DEF Tick, DroTimerSafe
<1>4. q.dro_wait \in Nat /\ q.lifetime \in Nat /\ q.rdo_lifetime \in Nat
      /\ DroWait \in Nat /\ KeepTime \in Nat
  BY <1>1, TimesAssumption DEF P2pEntry
<1>5. ~Frees(s)
  BY <1>3, <1>4 DEF Frees, Over
<1>6. Visited(s)
  BY <1>3, PurgeAlone
<1>7. ASSUME NEW x \in P2pEntry, x.dro = "pending"
      PROVE  /\ CountDown(x).dro_wait = x.dro_wait - 1
             /\ CountDown(x).lifetime = x.lifetime
             /\ CountDown(x).expired = x.expired
  BY <1>7 DEF CountDown, P2pEntry
<1>8. CASE Over(s)
  <2>1. ~q.expired
    BY <1>3, <1>4, <1>8 DEF Over
  <2>2. PurgeP2p(s) = ExpiredSlot(q)
    BY <1>5, <1>6, <1>8, <2>1 DEF PurgeP2p, Expires
  <2>3. /\ PurgeP2p(s) \in P2pEntry /\ PurgeP2p(s).dro = "pending"
        /\ PurgeP2p(s).dro_wait = q.dro_wait
        /\ PurgeP2p(s).lifetime = q.rdo_lifetime + KeepTime
    <3>1. /\ ExpiredSlot(q) \in P2pEntry /\ ExpiredSlot(q).dro = q.dro
          /\ ExpiredSlot(q).dro_wait = q.dro_wait
          /\ ExpiredSlot(q).lifetime = q.rdo_lifetime + KeepTime
      BY <1>1, PurgedSlotType, PurgedSlotFields
    <3> QED
      BY <1>2, <2>2, <3>1
  <2>4. /\ p2p_table'[s].dro_wait = q.dro_wait - 1
        /\ p2p_table'[s].lifetime = q.rdo_lifetime + KeepTime
    BY <1>1, <1>7, <2>3
  <2> QED
    BY <1>2, <1>3, <1>4, <1>5, <2>4, DroWaitAssumption
<1>9. CASE ~Over(s)
  <2>1. PurgeP2p(s) = Aged(q)
    BY <1>5, <1>6, <1>9 DEF PurgeP2p, Expires
  <2>2. /\ PurgeP2p(s) \in P2pEntry /\ PurgeP2p(s).dro = "pending"
        /\ PurgeP2p(s).dro_wait = q.dro_wait /\ PurgeP2p(s).expired = q.expired
        /\ PurgeP2p(s).lifetime = q.lifetime - 1
    <3>1. /\ Aged(q) \in P2pEntry /\ Aged(q).dro = q.dro
          /\ Aged(q).dro_wait = q.dro_wait /\ Aged(q).expired = q.expired
          /\ Aged(q).lifetime = q.lifetime - 1
      BY <1>1, <1>9, PurgedSlotType, PurgedSlotFields DEF Over
    <3> QED
      BY <1>2, <2>1, <3>1
  <2>3. /\ p2p_table'[s].dro_wait = q.dro_wait - 1
        /\ p2p_table'[s].expired = q.expired
        /\ p2p_table'[s].lifetime = q.lifetime - 1
    BY <1>1, <1>7, <2>2
  <2> QED
    BY <1>2, <1>3, <1>4, <1>5, <2>3
<1> QED
  BY <1>8, <1>9

\* The periodic timer keeps the invariant.
LEMMA TickInv ==
  ASSUME Inv, TypeOK', Tick
  PROVE  Inv' /\ Remembers
<1>1. TypeOK /\ SlotsPaired
  BY DEF Inv
<1>2. /\ dag_table \in [Dags -> DagEntry]
      /\ p2p_table \in [Slots -> P2pEntry]
  BY <1>1 DEF TypeOK
<1>3. SlotsPaired'
  <2>1. ASSUME NEW s \in Slots, p2p_table'[s].dag # None
        PROVE  LET x == dag_table'[p2p_table'[s].dag]
               IN  x.used /\ x.joined /\ IsP2p(x.key) /\ x.p2p = s
    <3>1. p2p_table'[s].dag = p2p_table[s].dag /\ p2p_table[s].dag # None /\ ~Frees(s)
      BY <1>1, <2>1, TickEffect
    <3> QED
      BY <1>1, <3>1, TickEffect DEF SlotsPaired
  <2>2. ASSUME NEW d \in Dags, dag_table'[d].joined
        PROVE  /\ dag_table'[d].used
               /\ IsP2p(dag_table'[d].key) =>
                    /\ dag_table'[d].p2p \in Slots
                    /\ p2p_table'[dag_table'[d].p2p].dag = d
    <3>1. CASE \A s \in Slots : p2p_table[s].dag # d
      <4>1. dag_table'[d] = dag_table[d]
        BY <1>1, <3>1, TickEffect
      <4> QED
        BY <1>1, <2>2, <3>1, <4>1 DEF SlotsPaired
    <3>2. ASSUME NEW s \in Slots, p2p_table[s].dag = d
          PROVE  /\ dag_table'[d].used
                 /\ IsP2p(dag_table'[d].key) =>
                      /\ dag_table'[d].p2p \in Slots
                      /\ p2p_table'[dag_table'[d].p2p].dag = d
      <4>1. d # None
        BY DEF Dags, None
      <4>2. ~Frees(s)
        BY <1>1, <2>2, <3>2, <4>1, TickEffect DEF FreeDagEntry
      <4>3. /\ dag_table'[d].used = dag_table[d].used
            /\ dag_table'[d].p2p = dag_table[d].p2p
            /\ p2p_table'[s].dag = d
        BY <1>1, <3>2, <4>1, <4>2, TickEffect
      <4>4. dag_table[d].used /\ dag_table[d].p2p = s
        BY <1>1, <3>2, <4>1 DEF SlotsPaired
      <4> QED
        BY <4>3, <4>4
    <3> QED
      BY <3>1, <3>2
  <2> QED
    BY <2>1, <2>2 DEF SlotsPaired
<1>9. ASSUME NEW d \in Dags, dag_table'[d].joined
      PROVE  dag_table[d].joined /\ dag_table'[d].key = dag_table[d].key
  <2>1. CASE \A s \in Slots : p2p_table[s].dag # d
    BY <1>1, <1>9, <2>1, TickEffect
  <2>2. ASSUME NEW s \in Slots, p2p_table[s].dag = d
        PROVE  dag_table[d].joined /\ dag_table'[d].key = dag_table[d].key
    <3>1. d # None
      BY DEF Dags, None
    <3>2. ~Frees(s)
      BY <1>1, <1>9, <2>2, <3>1, TickEffect DEF FreeDagEntry
    <3> QED
      BY <1>1, <1>9, <2>2, <3>1, <3>2, TickEffect
  <2> QED
    BY <2>1, <2>2
<1>4. KeyUnique'
  BY <1>9 DEF Inv, KeyUnique
<1>5. DroTimerSafe'
  BY <1>1, TickTimer DEF Inv, DroTimerSafe
<1>6. ReleasedIsClean'
  BY <1>1, TickEffect DEF Inv, ReleasedIsClean
<1>7. ExpiredIsSilent'
  <2>1. SUFFICES ASSUME NEW s \in Slots, p2p_table'[s].dag # None,
                        p2p_table'[s].expired
                 PROVE  /\ ~dag_table'[p2p_table'[s].dag].dio_timer
                        /\ dag_table'[p2p_table'[s].dag].parents = {}
    BY DEF ExpiredIsSilent
  <2>2. /\ p2p_table'[s].dag = p2p_table[s].dag /\ p2p_table[s].dag # None
        /\ p2p_table[s].expired \/ Over(s)
    BY <1>1, <2>1, TickEffect
  <2>3. CASE Over(s) /\ ~p2p_table[s].expired
    BY <1>1, <2>2, <2>3, TickEffect
  <2>4. CASE p2p_table[s].expired
    <3>1. ~Over(s)
      BY <1>1, <2>1, <2>2, <2>4, TickEffect, PurgeAlone
    <3> QED
      BY <1>1, <2>2, <2>4, <3>1, TickEffect DEF Inv, ExpiredIsSilent
  <2> QED
    BY <2>2, <2>3, <2>4
<1>8. Remembers
  <2>1. ASSUME NEW k \in LocalKeys
        PROVE  \/ Phase(k)' = Phase(k)
               \/ Phase(k) = "active" /\ Phase(k)' = "expired"
               \/ Phase(k) = "expired" /\ Phase(k)' = "unknown"
    <3>1. ASSUME NEW x \in Dags, dag_table'[x].joined
          PROVE  dag_table[x].joined /\ dag_table'[x].key = dag_table[x].key
      BY <1>9, <3>1
    <3>2. CASE Joined(k) = {}
      <4>1. Joined(k)' = {}
        BY <3>1, <3>2 DEF Joined
      <4> QED
        BY <3>2, <4>1 DEF Phase
    <3>3. ASSUME NEW d \in Joined(k)
          PROVE  \/ Phase(k)' = Phase(k)
                 \/ Phase(k) = "active" /\ Phase(k)' = "expired"
                 \/ Phase(k) = "expired" /\ Phase(k)' = "unknown"
      <4> DEFINE s == dag_table[d].p2p
      <4>1. /\ d \in Dags /\ dag_table[d].joined /\ dag_table[d].key = k
            /\ d # None /\ IsP2p(k)
        BY DEF Joined, Dags, None, LocalKeys
      <4>2. s \in Slots /\ p2p_table[s].dag = d
        BY <4>1 DEF Inv, SlotsPaired
      <4>3. Joined(k) = {d}
        BY <4>1 DEF Inv, KeyUnique, Joined
      <4>4. CASE Frees(s)
        <5>1. Phase(k) = "expired"
          BY <1>1, <4>2, <4>3, <4>4, PurgeAlone DEF Phase
        <5>2. Joined(k)' = {}
          BY <1>1, <3>1, <4>1, <4>2, <4>3, <4>4, TickEffect DEF Joined, FreeDagEntry
        <5> QED
          BY <5>1, <5>2 DEF Phase
      <4>5. CASE ~Frees(s)
        <5>1. /\ dag_table'[d].joined = dag_table[d].joined
              /\ dag_table'[d].key = dag_table[d].key /\ dag_table'[d].p2p = s
              /\ p2p_table[s].expired => p2p_table'[s].expired
          BY <1>1, <4>1, <4>2, <4>5, TickEffect
        <5>2. Joined(k)' = {d}
          BY <3>1, <4>1, <4>3, <5>1 DEF Joined
        <5>3. Phase(k) = IF p2p_table[s].expired THEN "expired" ELSE "active"
          BY <4>3 DEF Phase
        <5>4. Phase(k)' = IF p2p_table'[s].expired THEN "expired" ELSE "active"
          BY <5>1, <5>2 DEF Phase
        <5> QED
          BY <5>1, <5>3, <5>4
      <4> QED
        BY <4>4, <4>5
    <3> QED
      BY <3>2, <3>3
  <2> QED
    BY <2>1, AgedPhases
<1> QED
  BY <1>3, <1>4, <1>5, <1>6, <1>7, <1>8 DEF Inv

\* What the entries of a discovery hold when they are written.
LEMMA OriginFields ==
  ASSUME NEW k \in Keys, NEW d \in Dags, NEW s \in Slots
  PROVE  /\ OriginDag(k, s).used /\ OriginDag(k, s).joined
         /\ OriginDag(k, s).p2p = s /\ OriginDag(k, s).key = k
         /\ OriginSlot(d).dag = d /\ ~OriginSlot(d).expired
         /\ OriginSlot(d).dro_wait = 0
BY DEF OriginDag, OriginSlot, TakenEntry, FreeDagEntry, FreeP2pEntry

LEMMA MemberFields ==
  ASSUME NEW k \in HeardKeys, NEW n \in Nodes, NEW d \in Dags,
         NEW s \in Slots \cup {None}, NEW v \in Vectors
  PROVE  /\ MemberDag(k, n, s).used /\ MemberDag(k, n, s).joined
         /\ MemberDag(k, n, s).p2p = s /\ MemberDag(k, n, s).key = k
         /\ MemberSlot(d, s, k, v).dag = d /\ ~MemberSlot(d, s, k, v).expired
         /\ MemberSlot(d, s, k, v).dro_wait <= DroWait
<1>1. /\ MemberDag(k, n, s).used /\ MemberDag(k, n, s).joined
      /\ MemberDag(k, n, s).p2p = s /\ MemberDag(k, n, s).key = k
  BY DEF MemberDag, TakenEntry, FreeDagEntry
<1>2. ASSUME NEW e \in P2pEntry, e.dro_wait = 0
      PROVE  /\ StartDro(e, k).dag = e.dag /\ StartDro(e, k).expired = e.expired
             /\ StartDro(e, k).dro_wait <= DroWait
  BY <1>2, TimesAssumption DEF StartDro, P2pEntry
<1>3. ASSUME NEW r \in Seq(Seq(Nodes)), NEW t \in Nat
      PROVE  LET e == [FreeP2pEntry EXCEPT !.dag = d, !.lifetime = t,
                         !.rdo_lifetime = t, !.routes = r]
             IN  e \in P2pEntry /\ e.dag = d /\ ~e.expired /\ e.dro_wait = 0
  BY DEF FreeP2pEntry, P2pEntry
<1>4. RdoLifetime[k] \in Nat
      /\ AddPartialRoute(s, <<>>, Stored(k, v)) \in Seq(Seq(Nodes))
  <2>1. <<>> \in Seq(Seq(Nodes)) /\ k \in Keys
    BY InputsAssumption
  <2>2. Stored(k, v) \in Seq(Nodes)
    BY <2>1, StoredType, InputsAssumption
  <2> QED
    BY <2>1, <2>2, AddPartialRouteType, TimesAssumption
<1> DEFINE e == [FreeP2pEntry EXCEPT
                   !.dag = d, !.lifetime = RdoLifetime[k],
                   !.rdo_lifetime = RdoLifetime[k],
                   !.routes = AddPartialRoute(s, <<>>, Stored(k, v))]
<1>5. e \in P2pEntry /\ e.dag = d /\ ~e.expired /\ e.dro_wait = 0
  BY <1>3, <1>4
<1>6. MemberSlot(d, s, k, v) = StartDro(e, k)
  BY DEF MemberSlot
<1> HIDE DEF e
<1> QED
  BY <1>1, <1>2, <1>5, <1>6

LEMMA UpdatedDagFields ==
  ASSUME TypeOK, NEW d \in Dags, NEW P, NEW b, NEW cmp
  PROVE  /\ UpdatedDag(d, P, b, cmp).used = dag_table[d].used
         /\ UpdatedDag(d, P, b, cmp).joined = dag_table[d].joined
         /\ UpdatedDag(d, P, b, cmp).key = dag_table[d].key
         /\ UpdatedDag(d, P, b, cmp).p2p = dag_table[d].p2p
<1>1. dag_table[d] \in DagEntry
  BY DEF TypeOK
<1>2. ASSUME NEW e \in DagEntry, NEW x
      PROVE  LET y == [e EXCEPT !.parents = P, !.preferred = b, !.dio_timer = x]
             IN  /\ y.used = e.used /\ y.joined = e.joined
                 /\ y.key = e.key /\ y.p2p = e.p2p
  BY DEF DagEntry
<1> QED
  BY <1>1, <1>2 DEF UpdatedDag

LEMMA UpdatedSlotFields ==
  ASSUME TypeOK, NEW cmp, NEW s \in Slots, NEW k \in HeardKeys, NEW v \in Vectors
  PROVE  /\ UpdatedSlot(s, k, v, cmp).dag = p2p_table[s].dag
         /\ UpdatedSlot(s, k, v, cmp).expired = p2p_table[s].expired
         /\ UpdatedSlot(s, k, v, cmp).dro = "pending" =>
              \/ UpdatedSlot(s, k, v, cmp).dro_wait = DroWait
              \/ /\ p2p_table[s].dro = "pending"
                 /\ UpdatedSlot(s, k, v, cmp).dro_wait = p2p_table[s].dro_wait
<1> DEFINE q == p2p_table[s]
           r == RoutesAfter(s, Stored(k, v), cmp)
           t == IF cmp = "improved" THEN RdoLifetime[k] ELSE q.rdo_lifetime
<1>1. UpdatedSlot(s, k, v, cmp) =
        StartDro([q EXCEPT !.routes = r, !.rdo_lifetime = t], k)
  BY DEF UpdatedSlot
<1>2. q \in P2pEntry
  BY DEF TypeOK
<1> HIDE DEF q, r, t
<1>3. LET y == StartDro([q EXCEPT !.routes = r, !.rdo_lifetime = t], k)
      IN  /\ y.dag = q.dag /\ y.expired = q.expired
          /\ y.dro = "pending" =>
               y.dro_wait = DroWait \/ (/\ q.dro = "pending"
                                        /\ y.dro_wait = q.dro_wait)
  BY <1>2 DEF StartDro, P2pEntry
<1> QED
  BY <1>1, <1>3 DEF q

LEMMA InvDiscover ==
  ASSUME Inv, TypeOK', Discover, ~Wraps
  PROVE  Inv' /\ Remembers
<1> DEFINE k == OwnKey(instance')
<1>1. instance' \in Instances /\ k \in Keys /\ IsP2p(k) /\ k.dodag = Self
  <2>1. instance' \in Instances
    BY DEF TypeOK
  <2> QED
    BY <2>1, NodesAssumption, SizesAssumption
       DEF OwnKey, Keys, IsP2p, Instances, GlobalInstance
<1>2. Joined(k) = {}
  BY DEF Discover, Wraps
<1>3. DropFirst(Joined(k)) = dag_table
  BY <1>2 DEF DropFirst, IsFirst, Inv, TypeOK
<1>4. StartDiscovery(k, dag_table)
  BY <1>3 DEF Discover
<1>5. CASE dag_table' = dag_table /\ UNCHANGED p2p_table
  BY <1>5, OutsideSlots
<1>6. ASSUME NEW d \in Dags, NEW s \in Slots, d \in Unused(dag_table),
             s \in Allocatable([dag_table EXCEPT ![d] = TakenEntry]),
             dag_table' = [dag_table EXCEPT ![d] = OriginDag(k, s)],
             p2p_table' = [p2p_table EXCEPT ![s] = OriginSlot(d)]
      PROVE  Inv' /\ Remembers
  <2>1. ~dag_table[d].used /\ p2p_table[s].dag = None
    BY <1>6, AllocatableIsReleased DEF Inv, Unused
  <2>2. /\ OriginDag(k, s) \in DagEntry /\ OriginSlot(d) \in P2pEntry
    BY <1>1, NodesAssumption, DagEntryTypes, OriginSlotType
  <2>3. /\ OriginDag(k, s).used /\ OriginDag(k, s).joined
        /\ OriginDag(k, s).p2p = s /\ OriginDag(k, s).key = k
        /\ OriginSlot(d).dag = d /\ ~OriginSlot(d).expired
        /\ OriginSlot(d).dro_wait <= DroWait
    BY <1>1, OriginFields, TimesAssumption
  <2> HIDE DEF k
  <2> QED
    BY <1>1, <1>2, <1>6, <2>1, <2>2, <2>3, Enter
<1> HIDE DEF k
<1>7. Unused(dag_table) \subseteq Dags
  BY DEF Unused
<1> QED
  BY <1>4, <1>5, <1>6, <1>7 DEF StartDiscovery, IsFirst

LEMMA InvJoin ==
  ASSUME Inv, TypeOK', NEW k \in HeardKeys, NEW n \in Nodes \ {Self},
         NEW v \in Vectors, NEW ocp \in Ocps, Join(k, n, v, ocp)
  PROVE  Inv' /\ Remembers
<1>1. k \in Keys /\ Joined(k) = {}
  BY InputsAssumption DEF Join
<1>2. PICK d \in Dags : /\ ~dag_table[d].used
                        /\ \/ JoinFails(d, n, ocp)
                           \/ JoinGlobal(d, k, n)
                           \/ JoinP2p(d, k, n, v)
  BY DEF Join, Unused
<1>3. /\ \A s \in Slots : p2p_table[s].dag # d
      /\ dag_table \in [Dags -> DagEntry]
  BY <1>2, UnusedIsFree DEF Inv, TypeOK
<1>4. CASE JoinFails(d, n, ocp)
  <2>1. /\ ~dag_table'[d].joined /\ UNCHANGED p2p_table
        /\ \A x \in Dags \ {d} : dag_table'[x] = dag_table[x]
    BY <1>3, <1>4 DEF JoinFails, TakenEntry, FreeDagEntry
  <2> QED
    BY <1>3, <2>1, OutsideSlots
<1>5. CASE JoinGlobal(d, k, n)
  <2>1. /\ MemberDag(k, n, None).used /\ MemberDag(k, n, None).key = k
    BY DEF MemberDag, TakenEntry, FreeDagEntry
  <2>2. /\ dag_table'[d].used /\ ~IsP2p(dag_table'[d].key) /\ UNCHANGED p2p_table
        /\ \A x \in Dags \ {d} : dag_table'[x] = dag_table[x]
    BY <1>3, <1>5, <2>1 DEF JoinGlobal
  <2> QED
    BY <1>3, <2>2, OutsideSlots
<1>6. CASE JoinP2p(d, k, n, v)
  <2>1. PICK s \in Slots :
          /\ s \in Allocatable([dag_table EXCEPT ![d] = TakenEntry])
          /\ dag_table' = [dag_table EXCEPT ![d] = MemberDag(k, n, s)]
          /\ p2p_table' = [p2p_table EXCEPT ![s] = MemberSlot(d, s, k, v)]
    BY <1>6 DEF JoinP2p, IsFirst
  <2>2. p2p_table[s].dag = None /\ IsP2p(k)
    BY <1>6, <2>1, AllocatableIsReleased DEF Inv, JoinP2p
  <2>3. MemberDag(k, n, s) \in DagEntry /\ MemberSlot(d, s, k, v) \in P2pEntry
    BY <1>1, DagEntryTypes, MemberSlotType
  <2>4. /\ MemberDag(k, n, s).used /\ MemberDag(k, n, s).joined
        /\ MemberDag(k, n, s).p2p = s /\ MemberDag(k, n, s).key = k
        /\ MemberSlot(d, s, k, v).dag = d /\ ~MemberSlot(d, s, k, v).expired
        /\ MemberSlot(d, s, k, v).dro_wait <= DroWait
    BY MemberFields
  <2> QED
    BY <1>1, <1>2, <2>1, <2>2, <2>3, <2>4, Enter
<1> QED
  BY <1>2, <1>4, <1>5, <1>6

LEMMA InvReceive ==
  ASSUME Inv, TypeOK', NEW d \in Dags, NEW n \in Nodes \ {Self},
         NEW v \in Vectors, NEW cmp, Receive(d, n, v, cmp)
  PROVE  Inv' /\ Remembers
<1> DEFINE k == dag_table[d].key
           s == dag_table[d].p2p
<1>1. /\ k \in HeardKeys /\ IsP2p(k) /\ dag_table[d].joined
      /\ ~p2p_table[s].expired
  BY DEF Receive, IsFirst, Joined
<1>2. s \in Slots /\ dag_table[d].used /\ p2p_table[s].dag = d
  BY <1>1 DEF Inv, SlotsPaired
<1>3. PICK P \in ParentChoices(d, n), b \in {n, dag_table[d].preferred} :
        /\ dag_table' = [dag_table EXCEPT ![d] = UpdatedDag(d, P, b, cmp)]
        /\ p2p_table' = [p2p_table EXCEPT ![s] = UpdatedSlot(s, k, v, cmp)]
  BY DEF Receive
<1>4. /\ UpdatedDag(d, P, b, cmp) \in DagEntry
      /\ UpdatedSlot(s, k, v, cmp) \in P2pEntry
  BY <1>1, <1>2, <1>3, UpdatedDagType, UpdatedSlotType DEF Inv
<1>5. /\ UpdatedDag(d, P, b, cmp).used /\ UpdatedDag(d, P, b, cmp).joined
      /\ UpdatedDag(d, P, b, cmp).key = k /\ UpdatedDag(d, P, b, cmp).p2p = s
      /\ UpdatedSlot(s, k, v, cmp).dag = p2p_table[s].dag
      /\ ~UpdatedSlot(s, k, v, cmp).expired
  BY <1>1, <1>2, UpdatedDagFields, UpdatedSlotFields DEF Inv
<1>6. UpdatedSlot(s, k, v, cmp).dro = "pending" =>
        UpdatedSlot(s, k, v, cmp).dro_wait <= DroWait
  <2>1. UpdatedSlot(s, k, v, cmp).dro = "pending" =>
          \/ UpdatedSlot(s, k, v, cmp).dro_wait = DroWait
          \/ /\ p2p_table[s].dro = "pending"
             /\ UpdatedSlot(s, k, v, cmp).dro_wait = p2p_table[s].dro_wait
    BY <1>1, <1>2, UpdatedSlotFields DEF Inv
  <2>2. p2p_table[s].dro = "pending" => p2p_table[s].dro_wait <= DroWait
    BY <1>2 DEF Inv, DroTimerSafe
  <2> QED
    BY <2>1, <2>2, TimesAssumption
<1> QED
  BY <1>1, <1>2, <1>3, <1>4, <1>5, <1>6, UpdateActive

LEMMA InvStop ==
  ASSUME Inv, TypeOK', NEW d \in Dags, Stop(d)
  PROVE  Inv' /\ Remembers
<1> DEFINE s == dag_table[d].p2p
           e == [dag_table[d] EXCEPT !.dio_timer = FALSE]
<1>1. /\ dag_table[d].joined /\ IsP2p(dag_table[d].key) /\ ~p2p_table[s].expired
      /\ dag_table' = [dag_table EXCEPT ![d] = e]
      /\ p2p_table' = [p2p_table EXCEPT ![s] = StoppedSlot(s)]
  BY DEF Stop, Stoppable
<1>2. s \in Slots /\ dag_table[d].used /\ dag_table[d] \in DagEntry
      /\ p2p_table[s] \in P2pEntry
  BY <1>1 DEF Inv, SlotsPaired, TypeOK
<1>3. /\ e \in DagEntry /\ e.used = dag_table[d].used /\ e.p2p = s
      /\ e.joined = dag_table[d].joined /\ e.key = dag_table[d].key
  BY <1>2 DEF DagEntry
<1>4. /\ StoppedSlot(s) \in P2pEntry /\ StoppedSlot(s).dag = p2p_table[s].dag
      /\ StoppedSlot(s).expired = p2p_table[s].expired
      /\ StoppedSlot(s).dro = p2p_table[s].dro
      /\ StoppedSlot(s).dro_wait = p2p_table[s].dro_wait
  BY <1>2 DEF StoppedSlot, P2pEntry
<1>5. p2p_table[s].dro = "pending" => p2p_table[s].dro_wait <= DroWait
  BY <1>2 DEF Inv, DroTimerSafe
<1> HIDE DEF e
<1> QED
  BY <1>1, <1>2, <1>3, <1>4, <1>5, UpdateActive

\* The timer of a target fires: its slot only loses its lifetime.
LEMMA InvSendDros ==
  ASSUME Inv, TypeOK', NEW s \in Slots, SendDros(s)
  PROVE  Inv' /\ Remembers
<1>1. p2p_table[s] \in P2pEntry /\ p2p_table \in [Slots -> P2pEntry]
  BY DEF Inv, TypeOK
<1>2. /\ AnsweredSlot(s).dag = p2p_table[s].dag
      /\ AnsweredSlot(s).expired = p2p_table[s].expired
      /\ AnsweredSlot(s).routes = p2p_table[s].routes
      /\ AnsweredSlot(s).dro = "fired"
  BY <1>1 DEF AnsweredSlot, P2pEntry
<1>3. UNCHANGED dag_table /\ p2p_table' = [p2p_table EXCEPT ![s] = AnsweredSlot(s)]
  BY DEF SendDros
<1>4. \A t \in Slots : /\ p2p_table'[t].dag = p2p_table[t].dag
                       /\ p2p_table'[t].expired = p2p_table[t].expired
                       /\ p2p_table'[t].routes = p2p_table[t].routes
                       /\ p2p_table'[t].dro = "pending" => p2p_table'[t] = p2p_table[t]
  BY <1>1, <1>2, <1>3
<1>5. SlotsPaired' /\ KeyUnique'
  BY <1>3, <1>4 DEF Inv, SlotsPaired, KeyUnique
<1>6. DroTimerSafe' /\ ReleasedIsClean' /\ ExpiredIsSilent'
  BY <1>3, <1>4 DEF Inv, DroTimerSafe, ReleasedIsClean, ExpiredIsSilent
<1>7. Remembers
  <2>1. ASSUME NEW k \in LocalKeys
        PROVE  Phase(k)' = Phase(k)
    <3>1. \A d \in Dags : dag_table[d].joined /\ dag_table[d].key = k
                            => dag_table[d].p2p \in Slots
      BY DEF Inv, SlotsPaired, LocalKeys
    <3> QED
      BY <1>3, <1>4, <3>1, SamePhase
  <2> QED
    BY <2>1, SamePhases
<1> QED
  BY <1>5, <1>6, <1>7 DEF Inv

LEMMA InvStep ==
  ASSUME Inv, [PacedNext]_vars
  PROVE  Inv' /\ Remembers
<1>1. TypeOK'
  BY TypeStep DEF Inv, PacedNext, Next
<1>2. CASE Discover /\ ~Wraps
  BY <1>1, <1>2, InvDiscover
<1>3. CASE Dio
  BY <1>1, <1>3, InvJoin, InvReceive DEF Dio
<1>4. ASSUME NEW d \in Dags, Stop(d)
      PROVE  Inv' /\ Remembers
  BY <1>1, <1>4, InvStop
<1>5. ASSUME NEW d \in Dags, GlobalParents(d)
      PROVE  Inv' /\ Remembers
  <2>1. dag_table[d].joined /\ ~IsP2p(dag_table[d].key)
    BY <1>5 DEF GlobalParents, GlobalDags
  <2>2. /\ dag_table[d].used /\ dag_table[d] \in DagEntry
        /\ dag_table \in [Dags -> DagEntry]
        /\ \A s \in Slots : p2p_table[s].dag # d
    BY <2>1 DEF Inv, TypeOK, SlotsPaired, Dags, None
  <2>3. PICK P, b : dag_table' = [dag_table EXCEPT ![d] = GlobalDag(d, P, b)]
    BY <1>5 DEF GlobalParents
  <2>4. /\ GlobalDag(d, P, b).used = dag_table[d].used
        /\ GlobalDag(d, P, b).key = dag_table[d].key
    BY <2>2 DEF GlobalDag, DagEntry
  <2>5. /\ dag_table'[d].used /\ ~IsP2p(dag_table'[d].key) /\ UNCHANGED p2p_table
        /\ \A x \in Dags \ {d} : dag_table'[x] = dag_table[x]
    BY <1>5, <2>1, <2>2, <2>3, <2>4 DEF GlobalParents
  <2> QED
    BY <1>1, <2>2, <2>5, OutsideSlots
<1>6. ASSUME NEW s \in Slots, SendDros(s)
      PROVE  Inv' /\ Remembers
  BY <1>1, <1>6, InvSendDros
<1>7. CASE Tick
  BY <1>1, <1>7, TickInv
<1>8. CASE SetRoot
  <2> DEFINE dt == DropFirst(GlobalDags)
             e == OriginDag(OwnKey(GlobalInstance), None)
  <2>1. PICK d \in Unused(dt) : dag_table' = [dt EXCEPT ![d] = e]
    BY <1>8 DEF SetRoot
  <2>2. /\ d \in Dags /\ ~dt[d].used
        /\ dag_table'[d] = e /\ \A x \in Dags \ {d} : dag_table'[x] = dt[x]
    BY <2>1 DEF Unused, DropFirst
  <2>3. \A x \in Dags : dt[x] = dag_table[x] \/ (x \in GlobalDags /\ dt[x] = FreeDagEntry)
    BY DEF DropFirst, IsFirst
  <2>4. \A x \in GlobalDags : x \in Dags /\ \A s \in Slots : p2p_table[s].dag # x
    BY DEF Inv, SlotsPaired, GlobalDags, Dags, None
  <2>5. \A s \in Slots : p2p_table[s].dag # d
    BY <2>2, <2>3, <2>4, UnusedIsFree DEF Inv
  <2>6. e.used /\ ~IsP2p(e.key) /\ ~FreeDagEntry.joined
    BY DEF OriginDag, TakenEntry, FreeDagEntry, OwnKey, IsP2p, GlobalInstance
  <2>7. UNCHANGED p2p_table
    BY <1>8 DEF SetRoot
  <2> HIDE DEF dt, e
  <2>8. \A x \in Dags : dag_table'[x] # dag_table[x] =>
          /\ \A s \in Slots : p2p_table[s].dag # x
          /\ dag_table'[x].joined =>
               dag_table'[x].used /\ ~IsP2p(dag_table'[x].key)
    BY <2>2, <2>3, <2>4, <2>5, <2>6
  <2> QED
    BY <1>1, <2>7, <2>8, OutsideSlots
<1>9. CASE UNCHANGED vars
  BY <1>1, <1>9, OutsideSlots DEF vars
<1> QED
  BY <1>2, <1>3, <1>4, <1>5, <1>6, <1>7, <1>8, <1>9
     DEF PacedNext, NextButDiscover

LEMMA InvInit == Init => Inv
<1> SUFFICES ASSUME Init
             PROVE  Inv
  OBVIOUS
<1>1. /\ \A d \in Dags : ~dag_table[d].joined
      /\ \A s \in Slots : /\ p2p_table[s].dag = None /\ p2p_table[s].routes = <<>>
                          /\ p2p_table[s].dro # "pending"
  BY DEF Init, FreeDagEntry, FreeP2pEntry
<1> QED
  BY <1>1, TypeInit DEF Inv, SlotsPaired, KeyUnique, DroTimerSafe,
                        ReleasedIsClean, ExpiredIsSilent

LEMMA Invariance == PacedSpec => []Inv
BY InvInit, InvStep, PTL DEF PacedSpec

\* The tables implement the memory of discoveries: a node never forgets a
\* discovery it is active in, and is never active again in one it remembers.
THEOREM Refinement == PacedSpec => MemorySpec
<1>1. Init => Memory!Init
  BY DEF Init, Memory!Init, Phase, Joined, FreeDagEntry
<1>2. Inv /\ [PacedNext]_vars
        => [Memory!Next]_([k \in LocalKeys |-> Phase(k)])
  BY InvStep DEF Remembers
<1> QED
  BY <1>1, <1>2, Invariance, PTL DEF PacedSpec, MemorySpec, Memory!Spec

\* A slot in use and its DAG point to each other, whatever DIOs and DROs
\* arrive and however the pools run out: the pointers that dio_output,
\* send_dros and the purge follow untested lead to the right entries.
THEOREM Ownership == PacedSpec => []SlotsPaired
BY Invariance, PTL DEF Inv

\* A node never holds two entries for one discovery.
THEOREM OneEntryPerDiscovery == PacedSpec => []KeyUnique
BY Invariance, PTL DEF Inv

\* send_dros never runs on a released slot: KeepTime outlasts DroWait.
THEOREM DroTimerOutlived == PacedSpec => []DroTimerSafe
BY Invariance, PTL DEF Inv

\* An expired discovery sends no DIO and holds no parent.
THEOREM ExpiredSilence == PacedSpec => []ExpiredIsSilent
BY Invariance, PTL DEF Inv

\* No partial route is lost to the address pool: rpl_p2p_alloc_dag zeroes
\* only slots that hold none.
THEOREM NoLeak == PacedSpec => []NoRouteLeak
<1>1. Inv => NoRouteLeak
  BY DEF Inv, NoRouteLeak, ReleasedIsClean, SlotsPaired, Allocatable
<1> QED
  BY <1>1, Invariance, PTL

-----------------------------------------------------------------------------
(* The partial routes of a discovery are pairwise different.               *)

Distinct(routes) == \A i, j \in DOMAIN routes : routes[i] = routes[j] => i = j

\* A route that is not there yet is added to different ones.
LEMMA AddedDistinct ==
  ASSUME NEW s, NEW kept \in Seq(Seq(Nodes)), NEW r \in Seq(Nodes),
         Distinct(kept), \A i \in DOMAIN kept : kept[i] # r
  PROVE  Distinct(AddPartialRoute(s, kept, r))
<1>1. Distinct(Append(kept, r))
  BY DEF Distinct
<1> QED
  BY <1>1 DEF AddPartialRoute

\* The routes that joining, a DIO, a DRO, the DRO timer and a tick leave.
LEMMA SlotRoutes ==
  ASSUME TypeOK, NEW s \in Slots
  PROVE  /\ \A d : OriginSlot(d).routes = <<>>
         /\ \A d \in Dags, k \in HeardKeys, v \in Vectors :
              MemberSlot(d, s, k, v).routes = AddPartialRoute(s, <<>>, Stored(k, v))
         /\ \A cmp : \A k \in HeardKeys, v \in Vectors :
              UpdatedSlot(s, k, v, cmp).routes = RoutesAfter(s, Stored(k, v), cmp)
         /\ StoppedSlot(s).routes = p2p_table[s].routes
         /\ AnsweredSlot(s).routes = p2p_table[s].routes
         /\ CountDown(PurgeP2p(s)).routes \in {<<>>, p2p_table[s].routes}
<1>1. p2p_table[s] \in P2pEntry
  BY DEF TypeOK
<1>2. \A d : OriginSlot(d).routes = <<>>
  BY DEF OriginSlot, FreeP2pEntry
<1>3. \A k : \A e \in P2pEntry : StartDro(e, k).routes = e.routes
  BY DEF StartDro, P2pEntry
<1>4. ASSUME NEW d \in Dags, NEW k \in HeardKeys, NEW v \in Vectors
      PROVE  MemberSlot(d, s, k, v).routes = AddPartialRoute(s, <<>>, Stored(k, v))
  <2> DEFINE r == AddPartialRoute(s, <<>>, Stored(k, v))
             t == RdoLifetime[k]
             e == [FreeP2pEntry EXCEPT !.dag = d, !.lifetime = t,
                     !.rdo_lifetime = t, !.routes = r]
  <2>1. <<>> \in Seq(Seq(Nodes)) /\ k \in Keys
    BY InputsAssumption
  <2>2. Stored(k, v) \in Seq(Nodes)
    BY <2>1, StoredType, InputsAssumption
  <2>3. r \in Seq(Seq(Nodes)) /\ t \in Nat
    BY <2>1, <2>2, AddPartialRouteType, TimesAssumption
  <2> HIDE DEF r, t
  <2>4. e \in P2pEntry /\ e.routes = r
    BY <2>3 DEF FreeP2pEntry, P2pEntry
  <2>5. MemberSlot(d, s, k, v) = StartDro(e, k)
    BY DEF MemberSlot, r, t
  <2> HIDE DEF e
  <2> QED
    BY <1>3, <2>4, <2>5 DEF r
<1>5. ASSUME NEW k \in HeardKeys, NEW v \in Vectors, NEW cmp
      PROVE  UpdatedSlot(s, k, v, cmp).routes = RoutesAfter(s, Stored(k, v), cmp)
  <2> DEFINE q == p2p_table[s]
             r == RoutesAfter(s, Stored(k, v), cmp)
             t == IF cmp = "improved" THEN RdoLifetime[k] ELSE q.rdo_lifetime
  <2>1. UpdatedSlot(s, k, v, cmp) =
          StartDro([q EXCEPT !.routes = r, !.rdo_lifetime = t], k)
    BY DEF UpdatedSlot
  <2> HIDE DEF q, r, t
  <2>2. q \in P2pEntry
    BY <1>1 DEF q
  <2>3. StartDro([q EXCEPT !.routes = r, !.rdo_lifetime = t], k).routes = r
    BY <2>2 DEF StartDro, P2pEntry
  <2> QED
    BY <2>1, <2>3 DEF r
<1>6. /\ StoppedSlot(s).routes = p2p_table[s].routes
      /\ AnsweredSlot(s).routes = p2p_table[s].routes
  BY <1>1 DEF StoppedSlot, AnsweredSlot, P2pEntry
<1>7. CountDown(PurgeP2p(s)).routes \in {<<>>, p2p_table[s].routes}
  <2>1. PurgeP2p(s) \in P2pEntry
    BY <1>1, PurgedSlotType DEF PurgeP2p, Over
  <2>2. CountDown(PurgeP2p(s)).routes = PurgeP2p(s).routes
    BY <2>1 DEF CountDown, P2pEntry
  <2>3. PurgeP2p(s).routes \in {<<>>, p2p_table[s].routes}
    BY <1>1, PurgedSlotFields DEF PurgeP2p
  <2> QED
    BY <2>2, <2>3
<1> QED
  BY <1>2, <1>4, <1>5, <1>6, <1>7

\* A DIO that updates the routes leaves them different: rpl_p2p_update_dag
\* drops the old ones, rpl_p2p_route_differs guards an alternative route.
LEMMA UpdatedDistinct ==
  ASSUME TypeOK, RoutesDistinct, NEW s \in Slots, NEW k \in HeardKeys, NEW v \in Vectors, NEW cmp
  PROVE  Distinct(RoutesAfter(s, Stored(k, v), cmp))
<1> DEFINE r == Stored(k, v)
           routes == p2p_table[s].routes
<1>1. <<>> \in Seq(Seq(Nodes)) /\ Distinct(<<>>) /\ DOMAIN <<>> = {}
  BY DEF Distinct
<1>2. r \in Seq(Nodes)
  BY StoredType, InputsAssumption
<1>3. routes \in Seq(Seq(Nodes)) /\ Distinct(routes)
  BY DEF TypeOK, P2pEntry, RoutesDistinct, Distinct
<1>4. Distinct(AddPartialRoute(s, <<>>, r))
  BY <1>1, <1>2, AddedDistinct
<1>5. (\A i \in DOMAIN routes : routes[i] # r) => Distinct(AddPartialRoute(s, routes, r))
  BY <1>2, <1>3, AddedDistinct
<1> QED
  BY <1>3, <1>4, <1>5 DEF RoutesAfter

\* Every step keeps them so.
LEMMA DistinctStep ==
  ASSUME TypeOK, RoutesDistinct, [Next]_vars
  PROVE  RoutesDistinct'
<1>1. SUFFICES \A s \in Slots : Distinct(p2p_table'[s].routes)
  BY DEF RoutesDistinct, Distinct
<1>2. p2p_table \in [Slots -> P2pEntry] /\ \A s \in Slots : Distinct(p2p_table[s].routes)
  BY DEF TypeOK, RoutesDistinct, Distinct
<1>3. <<>> \in Seq(Seq(Nodes)) /\ Distinct(<<>>) /\ DOMAIN <<>> = {}
  BY DEF Distinct
<1>4. CASE Discover
  <2>1. PICK dt : StartDiscovery(OwnKey(instance'), dt)
    BY <1>4 DEF Discover
  <2>2. \/ UNCHANGED p2p_table
        \/ \E d \in Unused(dt), s \in Slots : p2p_table' = [p2p_table EXCEPT ![s] = OriginSlot(d)]
    BY <2>1 DEF StartDiscovery
  <2> QED
    BY <1>2, <1>3, <2>2, SlotRoutes
<1>5. ASSUME NEW k \in HeardKeys, NEW n, NEW v \in Vectors, NEW ocp, Join(k, n, v, ocp)
      PROVE  \A s \in Slots : Distinct(p2p_table'[s].routes)
  <2>1. PICK d \in Dags : \/ JoinFails(d, n, ocp)
                          \/ JoinGlobal(d, k, n)
                          \/ JoinP2p(d, k, n, v)
    BY <1>5 DEF Join, Unused
  <2>2. CASE UNCHANGED p2p_table
    BY <1>2, <2>2
  <2>3. ASSUME NEW s \in Slots, p2p_table' = [p2p_table EXCEPT ![s] = MemberSlot(d, s, k, v)]
        PROVE  \A t \in Slots : Distinct(p2p_table'[t].routes)
    <3>1. Stored(k, v) \in Seq(Nodes)
      BY StoredType, InputsAssumption
    <3>2. Distinct(MemberSlot(d, s, k, v).routes)
      BY <1>3, <3>1, SlotRoutes, AddedDistinct
    <3> QED
      BY <1>2, <2>3, <3>2
  <2> QED
    BY <2>1, <2>2, <2>3 DEF JoinFails, JoinGlobal, JoinP2p
<1>6. ASSUME NEW d \in Dags, NEW n, NEW v \in Vectors, NEW cmp, Receive(d, n, v, cmp)
      PROVE  \A s \in Slots : Distinct(p2p_table'[s].routes)
  <2> DEFINE k == dag_table[d].key
             s == dag_table[d].p2p
  <2>1. k \in HeardKeys /\ p2p_table' = [p2p_table EXCEPT ![s] = UpdatedSlot(s, k, v, cmp)]
    BY <1>6 DEF Receive
  <2>2. s \in Slots => Distinct(UpdatedSlot(s, k, v, cmp).routes)
    BY <2>1, SlotRoutes, UpdatedDistinct
  <2> HIDE DEF k, s
  <2> QED
    BY <1>2, <2>1, <2>2
<1>7. ASSUME NEW d \in Dags, Stop(d)
      PROVE  \A s \in Slots : Distinct(p2p_table'[s].routes)
  <2> DEFINE s == dag_table[d].p2p
  <2>1. p2p_table' = [p2p_table EXCEPT ![s] = StoppedSlot(s)]
    BY <1>7 DEF Stop
  <2>2. s \in Slots => Distinct(StoppedSlot(s).routes)
    BY <1>2, SlotRoutes
  <2> HIDE DEF s
  <2> QED
    BY <1>2, <2>1, <2>2
<1>8. ASSUME NEW s \in Slots, SendDros(s)
      PROVE  \A t \in Slots : Distinct(p2p_table'[t].routes)
  <2>1. Distinct(AnsweredSlot(s).routes)
    BY <1>2, SlotRoutes
  <2> QED
    BY <1>2, <1>8, <2>1 DEF SendDros
<1>9. CASE Tick
  <2>1. \A s \in Slots : p2p_table'[s] = CountDown(PurgeP2p(s))
    BY <1>9 DEF Tick
  <2> QED
    BY <1>2, <1>3, <2>1, SlotRoutes
<1>10. CASE UNCHANGED p2p_table
  BY <1>2, <1>10
<1> QED
  BY <1>4, <1>5, <1>6, <1>7, <1>8, <1>9, <1>10
     DEF Next, NextButDiscover, Dio, GlobalParents, SetRoot, vars

\* The DROs of one discovery report different routes: rpl_p2p_route_differs
\* keeps the partial routes of a slot pairwise different.
THEOREM RoutesDiffer == Spec => []RoutesDistinct
<1>1. Init => RoutesDistinct
  BY DEF Init, FreeP2pEntry, RoutesDistinct
<1>2. TypeOK /\ RoutesDistinct /\ [Next]_vars => RoutesDistinct'
  BY DistinctStep
<1> QED
  BY <1>1, <1>2, TypeCorrect, PTL DEF Spec

-----------------------------------------------------------------------------
(* The parents of a discovery's DAG: the preferred one and the originator  *)
(* of the last DIO.                                                        *)

Few(e) ==
  \/ e.parents = {} /\ e.preferred = NoNode
  \/ \E x : e.parents = {e.preferred, x}
FewParents ==
  \A d \in Dags : dag_table[d].joined /\ IsP2p(dag_table[d].key) => Few(dag_table[d])

\* rpl_process_dio leaves the preferred parent and the originator, whether the
\* originator is a parent already, or the pool has room for it, or another
\* parent has to make way.
LEMMA ParentsChosen ==
  ASSUME NEW d \in Dags, Few(dag_table[d]), NEW n \in Nodes,
         NEW P \in ParentChoices(d, n),
         NEW b \in {n, dag_table[d].preferred} \ {NoNode}
  PROVE  (P = {n} /\ b = n) \/ P = {n, dag_table[d].preferred}
<1> DEFINE e == dag_table[d]
           spare == e.parents \ {e.preferred}
           added == IF n \in e.parents THEN {e.parents}
                    ELSE IF ParentLeft(dag_table) THEN {e.parents \cup {n}}
                    ELSE {(e.parents \ {w}) \cup {n} : w \in spare}
           Surplus(Q) == Q \ {n, e.preferred}
<1>1. PICK Q \in added : (P = Q /\ Surplus(Q) = {}) \/ \E q \in Surplus(Q) : P = Q \ {q}
  BY DEF ParentChoices
<1>2. CASE e.parents = {} /\ e.preferred = NoNode
  <2>1. Q = {n}
    BY <1>1, <1>2
  <2> QED
    BY <1>1, <1>2, <2>1
<1>3. ASSUME NEW x, e.parents = {e.preferred, x}
      PROVE  P = {n, e.preferred}
  <2>1. CASE n \in e.parents
    BY <1>1, <1>3, <2>1
  <2>2. CASE n \notin e.parents /\ ParentLeft(dag_table)
    <3>1. Q = {e.preferred, x, n}
      BY <1>1, <1>3, <2>2
    <3> QED
      BY <1>1, <3>1
  <2>3. CASE n \notin e.parents /\ ~ParentLeft(dag_table)
    <3>1. Q = {e.preferred, n}
      BY <1>1, <1>3, <2>3
    <3> QED
      BY <1>1, <3>1
  <2> QED
    BY <2>1, <2>2, <2>3
<1> QED
  BY <1>2, <1>3 DEF Few

\* What the entries of the DAG table hold when they are written.
LEMMA DagParents ==
  ASSUME TypeOK, NEW d \in Dags
  PROVE  /\ \A k, s : Few(OriginDag(k, s))
         /\ \A k, n, s : Few(MemberDag(k, n, s))
         /\ ~FreeDagEntry.joined /\ ~TakenEntry.joined
         /\ \A P : ~[TakenEntry EXCEPT !.parents = P].joined
         /\ \A P, b, cmp : /\ UpdatedDag(d, P, b, cmp).parents = P
                           /\ UpdatedDag(d, P, b, cmp).preferred = b
         /\ Few(Silenced(dag_table[d]))
<1>1. dag_table[d] \in DagEntry
  BY DEF TypeOK
<1>2. /\ \A k, s : Few(OriginDag(k, s))
      /\ \A k, n, s : Few(MemberDag(k, n, s))
      /\ ~FreeDagEntry.joined /\ ~TakenEntry.joined
      /\ \A P : ~[TakenEntry EXCEPT !.parents = P].joined
  BY DEF OriginDag, MemberDag, TakenEntry, FreeDagEntry, Few
<1>3. ASSUME NEW P, NEW b, NEW cmp
      PROVE  /\ UpdatedDag(d, P, b, cmp).parents = P
             /\ UpdatedDag(d, P, b, cmp).preferred = b
  <2>1. \A x : \A e \in DagEntry :
          LET y == [e EXCEPT !.parents = P, !.preferred = b, !.dio_timer = x]
          IN  y.parents = P /\ y.preferred = b
    BY DEF DagEntry
  <2> QED
    BY <1>1, <2>1 DEF UpdatedDag
<1>4. Few(Silenced(dag_table[d]))
  <2>1. Silenced(dag_table[d]).parents = {} /\ Silenced(dag_table[d]).preferred = NoNode
    BY <1>1 DEF Silenced, DagEntry
  <2> QED
    BY <2>1 DEF Few
<1> QED
  BY <1>2, <1>3, <1>4

\* A DAG entry is written: the others keep their parents.
LEMMA OneWritten ==
  ASSUME FewParents, NEW d, NEW e,
         dag_table' \in [Dags -> DagEntry],
         \A x \in Dags \ {d} :
           dag_table'[x] = dag_table[x] \/ ~dag_table'[x].joined,
         d \in Dags => dag_table'[d] = e,
         e.joined /\ IsP2p(e.key) => Few(e)
  PROVE  FewParents'
<1> SUFFICES ASSUME NEW x \in Dags, dag_table'[x].joined, IsP2p(dag_table'[x].key)
             PROVE  Few(dag_table'[x])
  BY DEF FewParents, Few, IsP2p
<1>1. CASE x = d
  BY <1>1
<1>2. CASE x # d
  BY <1>2 DEF FewParents
<1> QED
  BY <1>1, <1>2

\* Every step leaves the parents of discoveries few.
LEMMA FewStep ==
  ASSUME TypeOK, FewParents, [Next]_vars
  PROVE  FewParents'
<1>1. dag_table \in [Dags -> DagEntry]
  BY DEF TypeOK
<1>2. dag_table' \in [Dags -> DagEntry]
  BY TypeStep DEF TypeOK
<1>3. \A S : \A x \in Dags : DropFirst(S)[x] = dag_table[x] \/ ~DropFirst(S)[x].joined
  BY DEF DropFirst, FreeDagEntry
<1>4. CASE UNCHANGED dag_table
  BY <1>4 DEF FewParents, Few, IsP2p
<1>5. CASE Discover
  <2> DEFINE k == OwnKey(instance')
             dt == DropFirst(Joined(k))
  <2>1. \/ dag_table' = dt
        \/ \E d \in Dags, s \in Slots : dag_table' = [dt EXCEPT ![d] = OriginDag(k, s)]
    BY <1>5 DEF Discover, StartDiscovery, Unused
  <2>2. DOMAIN dt = Dags /\ dt = [x \in Dags |-> dt[x]]
    BY DEF DropFirst
  <2>d. \A x \in Dags : dt[x] = dag_table[x] \/ ~dt[x].joined
    BY <1>3
  <2> HIDE DEF k, dt
  <2>3. CASE dag_table' = dt
    BY <2>3, <2>d DEF FewParents, Few, IsP2p
  <2>4. ASSUME NEW d \in Dags, NEW s \in Slots, dag_table' = [dt EXCEPT ![d] = OriginDag(k, s)]
        PROVE  FewParents'
    <3>1. \A x \in Dags \ {d} : dag_table'[x] = dag_table[x] \/ ~dag_table'[x].joined
      BY <2>2, <2>4, <2>d
    <3>2. dag_table'[d] = OriginDag(k, s)
      BY <2>2, <2>4
    <3>3. Few(OriginDag(k, s))
      BY DagParents
    <3> QED
      BY <1>2, <3>1, <3>2, <3>3, OneWritten
  <2> QED
    BY <2>1, <2>3, <2>4
<1>6. ASSUME NEW k \in HeardKeys, NEW n, NEW v, NEW ocp, Join(k, n, v, ocp)
      PROVE  FewParents'
  <2>1. PICK d \in Dags : \/ JoinFails(d, n, ocp)
                          \/ JoinGlobal(d, k, n)
                          \/ JoinP2p(d, k, n, v)
    BY <1>6 DEF Join, Unused
  <2>2. PICK e : /\ dag_table' = [dag_table EXCEPT ![d] = e]
                 /\ e.joined => Few(e)
    <3>1. CASE JoinFails(d, n, ocp)
      <4>1. PICK P : dag_table' = [dag_table EXCEPT ![d] = [TakenEntry EXCEPT !.parents = P]]
        BY <3>1 DEF JoinFails
      <4> QED
        BY <4>1, DagParents
    <3>2. CASE JoinGlobal(d, k, n) \/ JoinP2p(d, k, n, v)
      <4>1. PICK s : dag_table' = [dag_table EXCEPT ![d] = MemberDag(k, n, s)]
        BY <3>2 DEF JoinGlobal, JoinP2p
      <4> QED
        BY <4>1, DagParents
    <3> QED
      BY <2>1, <3>1, <3>2
  <2> QED
    BY <1>1, <1>2, <2>2, OneWritten
<1>7. ASSUME NEW d \in Dags, NEW n \in Nodes, NEW v, NEW cmp, Receive(d, n, v, cmp)
      PROVE  FewParents'
  <2>1. PICK P \in ParentChoices(d, n), b \in {n, dag_table[d].preferred} \ {NoNode} :
          dag_table' = [dag_table EXCEPT ![d] = UpdatedDag(d, P, b, cmp)]
    BY <1>7 DEF Receive
  <2>2. Few(dag_table[d])
    BY <1>7 DEF Receive, IsFirst, Joined, FewParents
  <2>3. (P = {n} /\ b = n) \/ P = {n, dag_table[d].preferred}
    BY <2>1, <2>2, ParentsChosen
  <2>4. \E x : P = {b, x}
    BY <2>1, <2>3
  <2>5. Few(UpdatedDag(d, P, b, cmp))
    BY <2>4, DagParents DEF Few
  <2> QED
    BY <1>1, <1>2, <2>1, <2>5, OneWritten
<1>8. ASSUME NEW d \in Dags, Stop(d)
      PROVE  FewParents'
  <2> DEFINE e == [dag_table[d] EXCEPT !.dio_timer = FALSE]
  <2>1. /\ dag_table' = [dag_table EXCEPT ![d] = e]
        /\ dag_table[d].joined /\ IsP2p(dag_table[d].key)
    BY <1>8 DEF Stop, Stoppable
  <2>2. e.parents = dag_table[d].parents /\ e.preferred = dag_table[d].preferred
    BY <1>1 DEF DagEntry
  <2>3. Few(e)
    BY <2>1, <2>2 DEF FewParents, Few
  <2> HIDE DEF e
  <2> QED
    BY <1>1, <1>2, <2>1, <2>3, OneWritten
<1>9. ASSUME NEW d \in Dags, GlobalParents(d)
      PROVE  FewParents'
  <2>1. PICK P, b : dag_table' = [dag_table EXCEPT ![d] = GlobalDag(d, P, b)]
    BY <1>9 DEF GlobalParents
  <2>2. ~IsP2p(GlobalDag(d, P, b).key)
    BY <1>1, <1>9 DEF GlobalParents, GlobalDags, GlobalDag, DagEntry
  <2> QED
    BY <1>1, <1>2, <2>1, <2>2, OneWritten
<1>10. CASE Tick
  <2>1. \A d \in Dags : dag_table'[d] = PurgeDag(d)
    BY <1>10 DEF Tick
  <2>2. \A d \in Dags : dag_table'[d] \in {FreeDagEntry, Silenced(dag_table[d]), dag_table[d]}
    BY <2>1 DEF PurgeDag
  <2>3. \A d \in Dags : \/ ~dag_table'[d].joined
                        \/ Few(dag_table'[d])
                        \/ dag_table'[d] = dag_table[d]
    BY <2>2, DagParents
  <2> QED
    BY <2>3 DEF FewParents, Few, IsP2p
<1>11. CASE SetRoot
  <2> DEFINE dt == DropFirst(GlobalDags)
             e == OriginDag(OwnKey(GlobalInstance), None)
  <2>1. PICK d \in Dags : dag_table' = [dt EXCEPT ![d] = e]
    BY <1>11 DEF SetRoot, Unused
  <2>2. DOMAIN dt = Dags
    BY DEF DropFirst
  <2>d. \A x \in Dags : dt[x] = dag_table[x] \/ ~dt[x].joined
    BY <1>3
  <2>f. Few(e)
    BY DagParents
  <2> HIDE DEF dt, e
  <2>3. \A x \in Dags \ {d} : dag_table'[x] = dag_table[x] \/ ~dag_table'[x].joined
    BY <2>1, <2>2, <2>d
  <2>4. dag_table'[d] = e /\ Few(e)
    BY <2>1, <2>2, <2>f
  <2> QED
    BY <1>2, <2>3, <2>4, OneWritten
<1> QED
  BY <1>4, <1>5, <1>6, <1>7, <1>8, <1>9, <1>10, <1>11
     DEF Next, NextButDiscover, Dio, SendDros, vars

\* "The neighbor set only contains the current preferred parent and the
\* originator of this DIO" (rpl_process_dio): at most two parents, the
\* preferred one among them, however full the shared pool is.
THEOREM ParentsStayFew == Spec => []ParentsOfP2pDag
<1>1. Init => FewParents
  BY DEF Init, FreeDagEntry, FewParents
<1>2. TypeOK /\ FewParents /\ [Next]_vars => FewParents'
  BY FewStep
<1>3. FewParents => ParentsOfP2pDag
  <2> SUFFICES ASSUME FewParents, NEW d \in Dags, dag_table[d].joined, IsP2p(dag_table[d].key)
               PROVE  /\ Cardinality(dag_table[d].parents) <= 2
                      /\ dag_table[d].parents # {} =>
                           dag_table[d].preferred \in dag_table[d].parents
    BY DEF ParentsOfP2pDag
  <2>1. CASE dag_table[d].parents = {}
    BY <2>1, FS_EmptySet
  <2>2. ASSUME NEW p, NEW x, dag_table[d].parents = {p, x}
        PROVE  Cardinality(dag_table[d].parents) <= 2
    <3>1. IsFiniteSet({p}) /\ Cardinality({p}) = 1
      BY FS_Singleton
    <3>2. {p, x} = {p} \cup {x}
      OBVIOUS
    <3>3. Cardinality({p, x}) \in {1, 2}
      BY <3>1, <3>2, FS_AddElement
    <3> QED
      BY <2>2, <3>3
  <2> QED
    BY <2>1, <2>2 DEF FewParents, Few
<1> QED
  BY <1>1, <1>2, <1>3, TypeCorrect, PTL DEF Spec

-----------------------------------------------------------------------------
(* How long a slot lives.  A target answers before its own discovery is    *)
(* over: the DRO timer starts with the entry and is the shorter one.       *)

SameTimes(q, r) ==
  /\ r.dag = q.dag /\ r.expired = q.expired /\ r.lifetime = q.lifetime
  /\ r.dro = q.dro /\ r.dro_wait = q.dro_wait

\* What a step may do to a slot in use that extends the same DAG: nothing to
\* its timers; a STOP; the DRO timer; a tick.
SlotLives(k, q, r) ==
  \/ SameTimes(q, r)
  \/ ~q.expired /\ r.dro = q.dro /\ q.dro # "pending"
  \/ q.dro = "pending" /\ r.dro = "fired"
  \/ /\ q.expired => r.lifetime = q.lifetime - 1
     /\ r.dro = q.dro
     /\ q.dro = "pending" =>
          /\ q.dro_wait > 0 /\ r.dro_wait = q.dro_wait - 1
          /\ \/ q.lifetime <= 1
             \/ r.expired = q.expired /\ r.lifetime = q.lifetime - 1

\* What it may do to a slot it hands out.
SlotBegins(k, r) ==
  /\ ~r.expired
  /\ k \in TargetKeys => r.dro = "pending" /\ r.dro_wait < r.lifetime
  /\ k \notin TargetKeys => r.dro = "unset"

SlotTimed(k, q) ==
  /\ k \in TargetKeys => q.dro # "unset"
  /\ q.dro = "pending" =>
       k \in TargetKeys /\ ~q.expired /\ q.dro_wait < q.lifetime
Timed ==
  \A s \in Slots : p2p_table[s].dag # None =>
    SlotTimed(dag_table[p2p_table[s].dag].key, p2p_table[s])

AnswersInTime == \A k \in TargetKeys : RdoLifetime[k] > DroWait

SlotStep(s) ==
  p2p_table'[s].dag # None =>
    LET k == dag_table[p2p_table[s].dag].key
        j == dag_table'[p2p_table'[s].dag].key
    IN  \/ /\ p2p_table'[s].dag = p2p_table[s].dag /\ j = k
           /\ SlotLives(k, p2p_table[s], p2p_table'[s])
        \/ p2p_table[s].dag = None /\ SlotBegins(j, p2p_table'[s])

\* Where no slot is written, no slot's DAG changes its discovery.
LEMMA SlotsAlone ==
  ASSUME Inv, Inv', NEW s \in Slots,
         p2p_table'[s] = p2p_table[s],
         \A d \in Dags : dag_table'[d] = dag_table[d]
                         \/ dag_table'[d].key = dag_table[d].key
                         \/ ~dag_table[d].joined
                         \/ ~IsP2p(dag_table[d].key)
  PROVE  SlotStep(s)
<1>1. p2p_table[s].dag # None => /\ p2p_table[s].dag \in Dags
                                 /\ dag_table[p2p_table[s].dag].joined
                                 /\ IsP2p(dag_table[p2p_table[s].dag].key)
  BY DEF Inv, TypeOK, SlotsPaired, P2pEntry
<1> QED
  BY <1>1 DEF SlotStep, SlotLives, SameTimes

\* A slot that is handed out.
LEMMA BeginningFields ==
  ASSUME NEW d \in Dags, NEW s \in Slots, AnswersInTime
  PROVE  /\ \A k \in Keys : k.dodag = Self => SlotBegins(k, OriginSlot(d))
         /\ \A k \in HeardKeys, v \in Vectors : SlotBegins(k, MemberSlot(d, s, k, v))
<1>1. ASSUME NEW k \in Keys, k.dodag = Self
      PROVE  SlotBegins(k, OriginSlot(d))
  <2>1. k \notin TargetKeys
    BY <1>1, InputsAssumption
  <2>2. ~OriginSlot(d).expired /\ OriginSlot(d).dro = "unset"
    BY DEF OriginSlot, FreeP2pEntry
  <2> QED
    BY <2>1, <2>2 DEF SlotBegins
<1>2. ASSUME NEW k \in HeardKeys, NEW v \in Vectors
      PROVE  SlotBegins(k, MemberSlot(d, s, k, v))
  <2> DEFINE r == AddPartialRoute(s, <<>>, Stored(k, v))
             e == [FreeP2pEntry EXCEPT !.dag = d, !.lifetime = RdoLifetime[k],
                     !.rdo_lifetime = RdoLifetime[k], !.routes = r]
  <2>1. /\ ~e.expired /\ e.dro = "unset" /\ e.lifetime = RdoLifetime[k]
        /\ DOMAIN e = DOMAIN FreeP2pEntry
    BY DEF FreeP2pEntry
  <2>2. /\ ~StartDro(e, k).expired
        /\ StartDro(e, k).lifetime = RdoLifetime[k]
        /\ k \in TargetKeys => /\ StartDro(e, k).dro = "pending"
                               /\ StartDro(e, k).dro_wait = DroWait
        /\ k \notin TargetKeys => StartDro(e, k).dro = "unset"
    BY <2>1 DEF StartDro, FreeP2pEntry
  <2>3. MemberSlot(d, s, k, v) = StartDro(e, k)
    BY DEF MemberSlot
  <2> HIDE DEF e
  <2>4. k \in TargetKeys => DroWait < RdoLifetime[k]
    BY TimesAssumption, InputsAssumption DEF AnswersInTime
  <2> QED
    BY <2>2, <2>3, <2>4 DEF SlotBegins
<1> QED
  BY <1>1, <1>2

\* A DIO about a discovery the node holds leaves its timers alone: the timer
\* of a target runs already.
LEMMA ReceivedSlot ==
  ASSUME TypeOK, NEW s \in Slots, NEW k, NEW v, NEW cmp, SlotTimed(k, p2p_table[s])
  PROVE  SameTimes(p2p_table[s], UpdatedSlot(s, k, v, cmp))
<1> DEFINE q == p2p_table[s]
           r == RoutesAfter(s, Stored(k, v), cmp)
           t == IF cmp = "improved" THEN RdoLifetime[k] ELSE q.rdo_lifetime
           e == [q EXCEPT !.routes = r, !.rdo_lifetime = t]
<1>1. q \in P2pEntry
  BY DEF TypeOK
<1>2. UpdatedSlot(s, k, v, cmp) = StartDro(e, k)
  BY DEF UpdatedSlot
<1>3. e.dag = q.dag /\ e.expired = q.expired /\ e.lifetime = q.lifetime
      /\ e.dro = q.dro /\ e.dro_wait = q.dro_wait
  BY <1>1 DEF P2pEntry
<1>4. StartDro(e, k) = e
  BY <1>3 DEF StartDro, SlotTimed
<1> HIDE DEF e
<1> QED
  BY <1>2, <1>3, <1>4 DEF SameTimes

LEMMA StoppedFields ==
  ASSUME TypeOK, NEW s \in Slots
  PROVE  /\ StoppedSlot(s).dag = p2p_table[s].dag
         /\ StoppedSlot(s).dro = p2p_table[s].dro
         /\ AnsweredSlot(s).dag = p2p_table[s].dag
         /\ AnsweredSlot(s).dro = "fired"
BY DEF TypeOK, P2pEntry, StoppedSlot, AnsweredSlot

\* A tick ages a slot by a second, or expires it.
LEMMA TickedSlot ==
  ASSUME Inv, Tick, NEW s \in Slots, p2p_table'[s].dag # None, NEW k
  PROVE  /\ p2p_table'[s].dag = p2p_table[s].dag
         /\ dag_table'[p2p_table'[s].dag].key = dag_table[p2p_table[s].dag].key
         /\ SlotLives(k, p2p_table[s], p2p_table'[s])
<1> DEFINE q == p2p_table[s]
           r == p2p_table'[s]
<1>1. q \in P2pEntry /\ r = CountDown(PurgeP2p(s)) /\ TypeOK /\ SlotsPaired
      /\ (q.dro = "pending" => q.dro_wait > 0)
  BY DEF Inv, TypeOK, Tick
<1>2. /\ ~Frees(s) /\ r.dag = q.dag /\ r.dro = q.dro
      /\ r.expired = (q.expired \/ (q.dag # None /\ Over(s)))
      /\ q.dag # None
      /\ dag_table'[q.dag].key = dag_table[q.dag].key
  BY <1>1, TickEffect
<1>3. Visited(s) /\ (Over(s) => ~q.expired)
  BY <1>1, <1>2, PurgeAlone
<1>4. PurgeP2p(s) \in P2pEntry
  BY <1>1, PurgedSlotType DEF PurgeP2p, Over
<1>5. ASSUME NEW x \in P2pEntry
      PROVE  /\ CountDown(x).lifetime = x.lifetime
             /\ x.dro = "pending" => CountDown(x).dro_wait = x.dro_wait - 1
  BY DEF CountDown, P2pEntry
<1>6. CASE Over(s)
  <2>1. PurgeP2p(s) = ExpiredSlot(q)
    BY <1>2, <1>3, <1>6 DEF PurgeP2p, Expires
  <2>2. PurgeP2p(s).dro = q.dro /\ PurgeP2p(s).dro_wait = q.dro_wait
    BY <1>1, <2>1, PurgedSlotFields
  <2>3. q.dro = "pending" => r.dro_wait = q.dro_wait - 1
    BY <1>1, <1>4, <1>5, <2>2
  <2> QED
    BY <1>1, <1>2, <1>3, <1>6, <2>3 DEF SlotLives, Over
<1>7. CASE ~Over(s)
  <2>1. PurgeP2p(s) = Aged(q)
    BY <1>2, <1>3, <1>7 DEF PurgeP2p, Expires
  <2>2. /\ PurgeP2p(s).dro = q.dro /\ PurgeP2p(s).dro_wait = q.dro_wait
        /\ PurgeP2p(s).lifetime = q.lifetime - 1
    BY <1>1, <2>1, PurgedSlotFields
  <2>3. /\ q.dro = "pending" => r.dro_wait = q.dro_wait - 1
        /\ r.lifetime = q.lifetime - 1
    BY <1>1, <1>4, <1>5, <2>2
  <2>4. r.expired = q.expired
    BY <1>1, <1>2, <1>7 DEF P2pEntry
  <2> QED
    BY <1>1, <1>2, <2>3, <2>4 DEF SlotLives
<1> QED
  BY <1>6, <1>7

LEMMA SlotSteps ==
  ASSUME AnswersInTime, Inv, Inv', Timed, [PacedNext]_vars
  PROVE  \A s \in Slots : SlotStep(s)
<1>1. /\ TypeOK /\ TypeOK' /\ SlotsPaired /\ SlotsPaired'
      /\ dag_table \in [Dags -> DagEntry] /\ p2p_table \in [Slots -> P2pEntry]
      /\ dag_table' \in [Dags -> DagEntry]
  BY DEF Inv, TypeOK
<1> DEFINE KeysKept == \A d \in Dags : dag_table'[d] = dag_table[d]
                                       \/ dag_table'[d].key = dag_table[d].key
                                       \/ ~dag_table[d].joined
                                       \/ ~IsP2p(dag_table[d].key)
<1>2. ASSUME UNCHANGED p2p_table, KeysKept
      PROVE  \A s \in Slots : SlotStep(s)
  BY <1>2, SlotsAlone
\* a slot is handed out, or written
<1>3. ASSUME NEW s \in Slots, NEW d \in Dags, p2p_table[s].dag = None,
             ~dag_table[d].joined, p2p_table'[s].dag = d,
             \A x \in Dags \ {d} : dag_table'[x] = dag_table[x],
             \A t \in Slots \ {s} : p2p_table'[t] = p2p_table[t],
             SlotBegins(dag_table'[d].key, p2p_table'[s])
      PROVE  \A t \in Slots : SlotStep(t)
  <2>1. KeysKept
    BY <1>1, <1>3
  <2>2. \A t \in Slots \ {s} : SlotStep(t)
    BY <1>1, <1>3, <2>1, SlotsAlone
  <2>3. SlotStep(s)
    BY <1>1, <1>3 DEF SlotStep
  <2> QED
    BY <2>2, <2>3
<1>4. ASSUME NEW s \in Slots, NEW q, KeysKept,
             p2p_table' = [p2p_table EXCEPT ![s] = q], q.dag = p2p_table[s].dag,
             dag_table'[q.dag].key = dag_table[q.dag].key,
             p2p_table[s].dag # None =>
               SlotLives(dag_table[p2p_table[s].dag].key, p2p_table[s], q)
      PROVE  \A t \in Slots : SlotStep(t)
  <2>2. \A t \in Slots \ {s} : SlotStep(t)
    BY <1>1, <1>4, SlotsAlone
  <2>3. SlotStep(s)
    BY <1>1, <1>4 DEF SlotStep
  <2> QED
    BY <2>2, <2>3
<1>5. CASE Discover /\ ~Wraps
  <2> DEFINE k == OwnKey(instance')
  <2>1. /\ k \in Keys /\ k.dodag = Self
    BY <1>1, NodesAssumption DEF OwnKey, Keys, TypeOK
  <2>2. StartDiscovery(k, dag_table)
    BY <1>1, <1>5 DEF Discover, Wraps, DropFirst, IsFirst
  <2>3. CASE UNCHANGED <<dag_table, p2p_table>>
    BY <1>2, <2>3
  <2>4. ASSUME NEW d \in Dags, NEW s \in Slots, ~dag_table[d].used,
               s \in Allocatable([dag_table EXCEPT ![d] = TakenEntry]),
               dag_table' = [dag_table EXCEPT ![d] = OriginDag(k, s)],
               p2p_table' = [p2p_table EXCEPT ![s] = OriginSlot(d)]
        PROVE  \A t \in Slots : SlotStep(t)
    <3>1. p2p_table[s].dag = None /\ ~dag_table[d].joined
      BY <1>1, <2>4, AllocatableIsReleased, UnusedIsFree
    <3>2. OriginDag(k, s).key = k /\ OriginSlot(d).dag = d
      BY <2>1, OriginFields
    <3>3. SlotBegins(k, OriginSlot(d))
      BY <2>1, BeginningFields
    <3>4. /\ dag_table'[d] = OriginDag(k, s) /\ p2p_table'[s] = OriginSlot(d)
          /\ \A x \in Dags \ {d} : dag_table'[x] = dag_table[x]
          /\ \A t \in Slots \ {s} : p2p_table'[t] = p2p_table[t]
      BY <1>1, <2>4
    <3> HIDE DEF k
    <3> QED
      BY <1>3, <3>1, <3>2, <3>3, <3>4
  <2> HIDE DEF k
  <2> QED
    BY <2>2, <2>3, <2>4 DEF StartDiscovery, Unused, IsFirst
<1>6. ASSUME NEW k \in HeardKeys, NEW n \in Nodes \ {Self},
             NEW v \in Vectors, NEW ocp \in Ocps, Join(k, n, v, ocp)
      PROVE  \A s \in Slots : SlotStep(s)
  <2>1. PICK d \in Dags : /\ ~dag_table[d].used
                          /\ \/ JoinFails(d, n, ocp)
                             \/ JoinGlobal(d, k, n)
                             \/ JoinP2p(d, k, n, v)
    BY <1>6 DEF Join, Unused
  <2>2. ~dag_table[d].joined
    BY <1>1, <2>1, UnusedIsFree
  <2>3. CASE JoinFails(d, n, ocp) \/ JoinGlobal(d, k, n)
    <3>1. /\ UNCHANGED p2p_table
          /\ \A x \in Dags \ {d} : dag_table'[x] = dag_table[x]
      BY <1>1, <2>3 DEF JoinFails, JoinGlobal
    <3> QED
      BY <1>2, <2>2, <3>1
  <2>4. CASE JoinP2p(d, k, n, v)
    <3>1. PICK s \in Slots :
            /\ s \in Allocatable([dag_table EXCEPT ![d] = TakenEntry])
            /\ dag_table' = [dag_table EXCEPT ![d] = MemberDag(k, n, s)]
            /\ p2p_table' = [p2p_table EXCEPT ![s] = MemberSlot(d, s, k, v)]
      BY <2>4 DEF JoinP2p, IsFirst
    <3>2. p2p_table[s].dag = None
      BY <1>1, <3>1, AllocatableIsReleased
    <3>3. MemberDag(k, n, s).key = k /\ MemberSlot(d, s, k, v).dag = d
      BY MemberFields
    <3>4. SlotBegins(k, MemberSlot(d, s, k, v))
      BY BeginningFields
    <3>5. /\ dag_table'[d] = MemberDag(k, n, s) /\ p2p_table'[s] = MemberSlot(d, s, k, v)
          /\ \A x \in Dags \ {d} : dag_table'[x] = dag_table[x]
          /\ \A t \in Slots \ {s} : p2p_table'[t] = p2p_table[t]
      BY <1>1, <3>1
    <3> QED
      BY <1>3, <2>2, <3>2, <3>3, <3>4, <3>5
  <2> QED
    BY <2>1, <2>3, <2>4
<1>7. ASSUME NEW d \in Dags, NEW n \in Nodes \ {Self}, NEW v \in Vectors,
             NEW cmp, Receive(d, n, v, cmp)
      PROVE  \A s \in Slots : SlotStep(s)
  <2> DEFINE k == dag_table[d].key
             s == dag_table[d].p2p
             q == UpdatedSlot(s, k, v, cmp)
  <2>1. PICK P, b : /\ dag_table' = [dag_table EXCEPT ![d] = UpdatedDag(d, P, b, cmp)]
                    /\ p2p_table' = [p2p_table EXCEPT ![s] = q]
                    /\ IsP2p(k) /\ dag_table[d].joined
    BY <1>7 DEF Receive, IsFirst, Joined
  <2>2. UpdatedDag(d, P, b, cmp).key = k
    BY <1>1, UpdatedDagFields
  <2>3. s \in Slots /\ p2p_table[s].dag = d /\ d # None
    BY <1>1, <2>1 DEF SlotsPaired, Dags, None
  <2>4. SameTimes(p2p_table[s], q)
    BY <1>1, <2>3, ReceivedSlot DEF Timed
  <2>5. KeysKept /\ dag_table'[d].key = k
    BY <1>1, <2>1, <2>2
  <2> HIDE DEF q, k, s, KeysKept
  <2> QED
    BY <1>4, <2>1, <2>3, <2>4, <2>5 DEF SameTimes, SlotLives, k, s
<1>8. ASSUME NEW d \in Dags, Stop(d)
      PROVE  \A s \in Slots : SlotStep(s)
  <2> DEFINE s == dag_table[d].p2p
             e == [dag_table[d] EXCEPT !.dio_timer = FALSE]
  <2>1. /\ dag_table' = [dag_table EXCEPT ![d] = e]
        /\ p2p_table' = [p2p_table EXCEPT ![s] = StoppedSlot(s)]
        /\ IsP2p(dag_table[d].key) /\ dag_table[d].joined /\ ~p2p_table[s].expired
        /\ dag_table[d].key \in TargetKeys => p2p_table[s].dro = "fired"
    BY <1>8 DEF Stop, Stoppable
  <2>2. e.key = dag_table[d].key
    BY <1>1 DEF DagEntry
  <2>3. s \in Slots /\ p2p_table[s].dag = d /\ d # None
    BY <1>1, <2>1 DEF SlotsPaired, Dags, None
  <2>4. p2p_table[s].dro # "pending"
    BY <2>1, <2>3 DEF Timed, SlotTimed
  <2>5. StoppedSlot(s).dag = d /\ StoppedSlot(s).dro = p2p_table[s].dro
    BY <1>1, <2>3, StoppedFields
  <2>6. SlotLives(dag_table[d].key, p2p_table[s], StoppedSlot(s))
    BY <2>1, <2>4, <2>5 DEF SlotLives
  <2>7. KeysKept /\ dag_table'[d].key = dag_table[d].key
    BY <1>1, <2>1, <2>2
  <2> HIDE DEF e, s, KeysKept
  <2> QED
    BY <1>4, <2>1, <2>3, <2>5, <2>6, <2>7
<1>9. ASSUME NEW d \in Dags, GlobalParents(d)
      PROVE  \A s \in Slots : SlotStep(s)
  <2>1. PICK P, b : dag_table' = [dag_table EXCEPT ![d] = GlobalDag(d, P, b)]
    BY <1>9 DEF GlobalParents
  <2>2. ~IsP2p(dag_table[d].key) /\ UNCHANGED p2p_table
    BY <1>9 DEF GlobalParents, GlobalDags
  <2> QED
    BY <1>1, <1>2, <2>1, <2>2
<1>10. ASSUME NEW s \in Slots, SendDros(s)
       PROVE  \A t \in Slots : SlotStep(t)
  <2>1. /\ p2p_table' = [p2p_table EXCEPT ![s] = AnsweredSlot(s)]
        /\ dag_table' = dag_table /\ p2p_table[s].dro = "pending"
    BY <1>10 DEF SendDros
  <2>2. AnsweredSlot(s).dag = p2p_table[s].dag /\ AnsweredSlot(s).dro = "fired"
    BY <1>1, StoppedFields
  <2>3. KeysKept
    BY <2>1
  <2> QED
    BY <1>4, <2>1, <2>2, <2>3 DEF SlotLives
<1>11. CASE Tick
  BY <1>11, TickedSlot DEF SlotStep
<1>12. CASE SetRoot
  <2>1. \A x \in Dags : DropFirst(GlobalDags)[x] = dag_table[x] \/ x \in GlobalDags
    BY DEF DropFirst, IsFirst
  <2>2. PICK d \in Unused(DropFirst(GlobalDags)) :
          dag_table' = [DropFirst(GlobalDags) EXCEPT
                          ![d] = OriginDag(OwnKey(GlobalInstance), None)]
    BY <1>12 DEF SetRoot
  <2>3. ~dag_table[d].joined \/ d \in GlobalDags
    BY <1>1, <2>1, <2>2, UnusedIsFree DEF Unused
  <2>4. \A x \in Dags \ {d} : dag_table'[x] = DropFirst(GlobalDags)[x]
    BY <2>2 DEF DropFirst
  <2>5. KeysKept
    BY <2>1, <2>3, <2>4 DEF GlobalDags
  <2> QED
    BY <1>2, <1>12, <2>5 DEF SetRoot
<1>13. CASE UNCHANGED vars
  BY <1>2, <1>13 DEF vars
<1> HIDE DEF KeysKept
<1> QED
  BY <1>5, <1>6, <1>7, <1>8, <1>9, <1>10, <1>11, <1>12, <1>13
     DEF PacedNext, NextButDiscover, Dio

LEMMA TimedStep ==
  ASSUME AnswersInTime, Inv, Inv', Timed, [PacedNext]_vars
  PROVE  Timed'
<1> SUFFICES ASSUME NEW s \in Slots, p2p_table'[s].dag # None
             PROVE  SlotTimed(dag_table'[p2p_table'[s].dag].key, p2p_table'[s])
  BY DEF Timed, SlotTimed
<1>1. SlotStep(s)
  BY SlotSteps
<1>2. p2p_table[s] \in P2pEntry /\ p2p_table'[s] \in P2pEntry
  BY DEF Inv, TypeOK
<1>3. p2p_table[s].dag # None => SlotTimed(dag_table[p2p_table[s].dag].key, p2p_table[s])
  BY DEF Timed
<1> DEFINE q == p2p_table[s]
           r == p2p_table'[s]
           k == dag_table[q.dag].key
           j == dag_table'[r.dag].key
<1>4. CASE q.dag = None /\ SlotBegins(j, r)
  BY <1>4 DEF SlotBegins, SlotTimed
<1>5. CASE q.dag # None /\ SlotLives(k, q, r) /\ j = k
  <2>1. SlotTimed(k, q)
    BY <1>3, <1>5
  <2>2. /\ q.lifetime \in Nat /\ r.lifetime \in Nat
        /\ q.dro_wait \in Nat /\ r.dro_wait \in Nat
    BY <1>2 DEF P2pEntry
  <2> HIDE DEF q, r, k, j
  <2>3. SlotTimed(k, r)
    BY <1>5, <2>1, <2>2 DEF SlotLives, SlotTimed, SameTimes
  <2> QED
    BY <1>5, <2>3 DEF r, j
<1> QED
  BY <1>1, <1>4, <1>5 DEF SlotStep

\* An expired discovery is remembered for its whole period, provided that the
\* discoveries a node answers live longer than its DRO timer: dro_output would
\* otherwise cut an expired entry short, and a late DIO create it again.
THEOREM ExpiredIsRemembered ==
  ASSUME AnswersInTime
  PROVE  PacedSpec => ExpiredKeepsItsTime
<1>1. Init => Timed
  BY DEF Init, Timed, FreeP2pEntry
<1>2. Inv /\ Inv' /\ Timed /\ [PacedNext]_vars => Timed'
  BY TimedStep
<1>3. Inv /\ Inv' /\ Timed /\ [PacedNext]_vars
        => [\A s \in Slots :
              p2p_table[s].dag # None /\ p2p_table[s].expired
              /\ p2p_table'[s].dag = p2p_table[s].dag
              => p2p_table'[s].lifetime >= p2p_table[s].lifetime - 1]_vars
  <2> SUFFICES ASSUME Inv, Inv', Timed, [PacedNext]_vars, NEW s \in Slots,
                      p2p_table[s].dag # None, p2p_table[s].expired,
                      p2p_table'[s].dag = p2p_table[s].dag
               PROVE  p2p_table'[s].lifetime >= p2p_table[s].lifetime - 1
    OBVIOUS
  <2>1. SlotStep(s)
    BY SlotSteps
  <2>2. p2p_table[s].lifetime \in Nat /\ p2p_table'[s].lifetime \in Nat
    BY DEF Inv, TypeOK, P2pEntry
  <2>3. p2p_table[s].dro # "pending"
    BY DEF Timed, SlotTimed
  <2>4. PICK k : SlotLives(k, p2p_table[s], p2p_table'[s])
    BY <2>1 DEF SlotStep
  <2>5. \/ p2p_table'[s].lifetime = p2p_table[s].lifetime
        \/ p2p_table'[s].lifetime = p2p_table[s].lifetime - 1
    BY <2>3, <2>4, Zenon DEF SlotLives, SameTimes
  <2> QED
    BY <2>2, <2>5
<1> QED
  BY <1>1, <1>2, <1>3, Invariance, PTL DEF PacedSpec, ExpiredKeepsItsTime

-----------------------------------------------------------------------------
(* The entry of the global DAG.  Discoveries have one slot less than there *)
(* are DAG entries; a DIO that fails half way takes an entry without one.  *)

Settled == \A d \in Dags : dag_table[d].used => dag_table[d].joined

\* No DIO finds the parent pool empty or asks for an unknown objective function.
EveryJoinSucceeds ==
  [][\A d \in Dags, n \in Nodes, ocp \in Ocps : ~JoinFails(d, n, ocp)]_vars

LEMMA SettledStep ==
  ASSUME Inv, Settled, [PacedNext]_vars,
         [\A d \in Dags, n \in Nodes, ocp \in Ocps : ~JoinFails(d, n, ocp)]_vars
  PROVE  Settled'
<1>1. /\ TypeOK /\ SlotsPaired /\ dag_table \in [Dags -> DagEntry]
  BY DEF Inv, TypeOK
<1> DEFINE Fine(e) == e.used => e.joined
<1>2. /\ \A k, s : Fine(OriginDag(k, s))
      /\ \A k, n, s : Fine(MemberDag(k, n, s))
      /\ Fine(FreeDagEntry)
  BY DEF OriginDag, MemberDag, TakenEntry, FreeDagEntry
<1>3. \A S : \A d \in Dags : Fine(DropFirst(S)[d])
  BY <1>2 DEF Settled, DropFirst
<1>4. ASSUME NEW d \in Dags, NEW e, Fine(e), dag_table' = [dag_table EXCEPT ![d] = e]
      PROVE  Settled'
  BY <1>1, <1>4 DEF Settled
<1>5. CASE UNCHANGED dag_table
  BY <1>5 DEF Settled
<1>6. CASE Discover /\ ~Wraps
  <2>1. StartDiscovery(OwnKey(instance'), dag_table)
    BY <1>1, <1>6 DEF Discover, Wraps, DropFirst, IsFirst
  <2> QED
    BY <1>2, <1>4, <1>5, <2>1 DEF StartDiscovery, Unused
<1>7. ASSUME NEW k \in HeardKeys, NEW n \in Nodes \ {Self},
             NEW v \in Vectors, NEW ocp \in Ocps, Join(k, n, v, ocp)
      PROVE  Settled'
  <2>1. PICK d \in Dags : \/ JoinFails(d, n, ocp)
                          \/ JoinGlobal(d, k, n)
                          \/ JoinP2p(d, k, n, v)
    BY <1>7 DEF Join, Unused
  <2>2. CASE JoinFails(d, n, ocp)
    BY <1>5, <2>2 DEF vars
  <2>3. CASE JoinGlobal(d, k, n) \/ JoinP2p(d, k, n, v)
    <3>1. PICK s : dag_table' = [dag_table EXCEPT ![d] = MemberDag(k, n, s)]
      BY <2>3 DEF JoinGlobal, JoinP2p
    <3> QED
      BY <1>2, <1>4, <3>1
  <2> QED
    BY <2>1, <2>2, <2>3
<1>8. ASSUME NEW d \in Dags, NEW n, NEW v, NEW cmp, Receive(d, n, v, cmp)
      PROVE  Settled'
  <2>1. PICK P, b : dag_table' = [dag_table EXCEPT ![d] = UpdatedDag(d, P, b, cmp)]
    BY <1>8 DEF Receive
  <2>2. Fine(UpdatedDag(d, P, b, cmp))
    BY <1>1, UpdatedDagFields DEF Settled
  <2> QED
    BY <1>4, <2>1, <2>2
<1>9. ASSUME NEW d \in Dags, Stop(d) \/ GlobalParents(d)
      PROVE  Settled'
  <2>1. PICK e : /\ dag_table' = [dag_table EXCEPT ![d] = e]
                 /\ \/ e = [dag_table[d] EXCEPT !.dio_timer = FALSE]
                    \/ \E P, b : e = GlobalDag(d, P, b)
    BY <1>9, Zenon DEF Stop, GlobalParents
  <2>2. e.used = dag_table[d].used /\ e.joined = dag_table[d].joined
    BY <1>1, <2>1 DEF GlobalDag, DagEntry
  <2>3. Fine(e)
    BY <2>2 DEF Settled
  <2> QED
    BY <1>4, <2>1, <2>3
<1>10. CASE Tick
  <2>1. \A d \in Dags : dag_table'[d] \in {FreeDagEntry, Silenced(dag_table[d]), dag_table[d]}
    BY <1>10 DEF Tick, PurgeDag
  <2>2. \A d \in Dags : /\ Silenced(dag_table[d]).used = dag_table[d].used
                        /\ Silenced(dag_table[d]).joined = dag_table[d].joined
    BY <1>1, SilencedFields
  <2>3. \A d \in Dags : Fine(dag_table'[d])
    BY <1>2, <2>1, <2>2 DEF Settled
  <2> QED
    BY <2>3 DEF Settled
<1>11. CASE SetRoot
  <2> DEFINE dt == DropFirst(GlobalDags)
             e == OriginDag(OwnKey(GlobalInstance), None)
  <2>1. PICK d \in Dags : dag_table' = [dt EXCEPT ![d] = e]
    BY <1>11 DEF SetRoot, Unused
  <2>2. DOMAIN dt = Dags
    BY DEF DropFirst
  <2>3. Fine(e) /\ \A x \in Dags : Fine(dt[x])
    BY <1>2, <1>3
  <2> HIDE DEF dt, e
  <2> QED
    BY <2>1, <2>2, <2>3 DEF Settled
<1> QED
  BY <1>5, <1>6, <1>7, <1>8, <1>9, <1>10, <1>11
     DEF PacedNext, NextButDiscover, Dio, SendDros, vars

\* "We use one global DAG for routes to the sink, the remaining DAGs can be
\* used by the P2P extension" (rpl-p2p.h): as long as no DIO fails half way,
\* discoveries leave an entry for the global DAG, for any size of the tables.
THEOREM GlobalDagHasRoom ==
  PacedSpec /\ EveryJoinSucceeds => []GlobalSlotReserved
<1>1. Init => Settled
  BY DEF Init, Settled, FreeDagEntry
<1>2. Inv /\ Settled /\ [PacedNext]_vars
      /\ [\A d \in Dags, n \in Nodes, ocp \in Ocps : ~JoinFails(d, n, ocp)]_vars
      => Settled'
  BY SettledStep
<1>3. Inv /\ Settled => GlobalSlotReserved
  <2> SUFFICES ASSUME Inv, Settled, GlobalDags = {}, Unused(dag_table) = {}
               PROVE  FALSE
    BY DEF GlobalSlotReserved
  <2> DEFINE f == [d \in Dags |-> dag_table[d].p2p]
  <2>1. \A d \in Dags : dag_table[d].joined /\ IsP2p(dag_table[d].key)
    BY DEF Unused, GlobalDags, Settled
  <2>2. f \in [Dags -> Slots]
    BY <2>1 DEF Inv, SlotsPaired
  <2>3. \A d, e \in Dags : f[d] = f[e] => d = e
    BY <2>1 DEF Inv, SlotsPaired
  <2>4. /\ IsFiniteSet(Dags) /\ Cardinality(Dags) = NDags
        /\ IsFiniteSet(Slots) /\ Cardinality(Slots) = NDags - 1
    <3>1. NDags \in Int /\ 1 \in Int /\ NDags - 1 \in Int /\ 1 <= NDags
      BY SizesAssumption
    <3> QED
      BY <3>1, FS_Interval DEF Dags, Slots
  <2>5. \A n \in Nat \ {0} : n > n - 1
    OBVIOUS
  <2> HIDE DEF f
  <2> QED
    BY <2>2, <2>3, <2>4, <2>5, SizesAssumption, FS_PigeonHole
<1> QED
  BY <1>1, <1>2, <1>3, Invariance, PTL DEF PacedSpec, EveryJoinSucceeds
=============================================================================
