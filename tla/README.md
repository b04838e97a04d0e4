# A verification of P2P-RPL

The repository is Contiki OS with an implementation of RPL (RFC 6550) and of
its extension for reactive discovery of point-to-point routes, P2P-RPL. This
directory models the routing protocol in `core/net/rpl/`, P2P-RPL before all,
and the timers it runs on, in TLA+; TLC checks small instances, and TLAPS
proves the safety properties for networks and tables of every size.

## 1. The system

A node that wants a route to a target calls `rpl_discover_route`. It becomes
the root of a *temporary DAG* of a local RPL instance and sends DIOs with a
route discovery option (RDO). Every node that hears one joins the temporary
DAG, appends its address to the address vector of the RDO and repeats the DIO
under a trickle timer, until the lifetime of the DAG is over. The target joins
too, but instead of DIOs it sends, after a wait time, discovery replies (DRO)
that travel back along the vectors. The originator installs a source route
from each DRO, and the nodes on the way hop-by-hop routes if asked.

### Components, their state, operations and hazards

| component (source) | state | operations | what is hard | what makes it correct |
|---|---|---|---|---|
| Discovery DAGs (`rpl-p2p.c`, `rpl-dag.c`) | `dag_table`, `dag_p2p_table`, the pools of parents and route addresses, the DRO timer of each slot | discover, join, process a DIO, STOP bit, DRO timer, purge once a second | two tables point to each other and share entries; pools run out half way; timers outlive what they work on | one-to-one ownership, nothing leaks, expired discoveries stay silent and are forgotten in the end |
| Discovery replies (`rpl-icmp6.c`) | DRO cache with a retransmission timer, `dro_seq` | send, forward, retransmit, acknowledge | loss, duplication, late acknowledgements, a full cache | a reply is retransmitted until acknowledged, at most a bounded number of times |
| Routes (`uip-ds6.c`, `rpl-p2p.c`, `rpl.c`) | source routes and their address pool, hop-by-hop routes | install, replace, age | the pool runs out while a route is being replaced; ageing during use | routes own disjoint addresses, none leaks |
| Global DAG (`rpl-dag.c`, `rpl-of-etx.c`, `rpl.c`) | rank, parents, preferred parent, version, default route | DIO, parent selection, link feedback, lost neighbours, local and global repair | loops, counting to infinity, a router that outlives its parent, a restarted root | rank agrees with the parent's, bounded increase, loops end |
| Spreading of a discovery (`rpl-dag.c`, `rpl-icmp6.c`, `rpl-of-etx.c`) | path metric, parent and partial routes of every node | DIO in and out, periodic timer | everyone counts the lifetime on its own; metrics out of date; an empty address pool | vectors are paths without loops, a discovery does not come back |
| Trickle timer (`rpl-timers.c`) | interval, counter, next delay | new interval, timer, reset | reset while an interval runs | one DIO per interval, interval within bounds |
| DAO and RPL routes (`rpl-icmp6.c`, `rpl.c`) | routes with lifetimes, DAO timer | DAO in and out, no-path, ageing | delayed and reordered DAOs | a no-path removes what the DAO installed |
| Measurement object (`rpl-icmp6.c`) | outstanding requests | request, accumulate, reply | lost reply | an answer belongs to a request |
| Neighbours (`uip-ds6.c`, `uip-nd6.c`) | cache states and timers, default routers | ND messages, periodic | callbacks into RPL while iterating | state machine of RFC 4861 |
| Timers (`process.c`, `etimer.c`, `ctimer.c`, `clock.c`) | event queue, poll flag, timer lists, `next_expiration` | tick, poll, post, set, stop, expire, exit | queue full, clock wraps, timer set again while its expiry is queued | no callback lost, no expiry overlooked |
| Lists and pools (`list.c`, `memb.c`) | links, reference counts | add, remove, alloc, free | double insertion | no element lost |

Components call each other directly in one thread; asynchrony comes from
callback timers, from packets and from the once-a-second periodic timer. So one
handler is one action everywhere below, and interleaving is the order of
handlers.

What is not modelled is in section 9. "Hazards" in `PROJECT.json` lists, at its
line, what in this code a test would hardly reach, with the properties that
cover it.

## 2. Plan

| module | models | abstract specification | state |
|---|---|---|---|
| `RplP2pDags` | the discovery DAGs of one node | `DiscoveryMemory` | checked, proved |
| `P2pReply` | replies, their retransmission and the routes they leave, in a network | delivery unless lost | checked, proved |
| `P2pDiscovery` | the spreading of one discovery through a network | `DiscoveryMemory` at every node | checked, proved |
| `RplDag` | the global DAG of a network: rank, parents, preferred parent with hysteresis, default routers, repairs, restarts | loops end, the root's version spreads | checked, safety proved |
| `EventTimers` | clock interrupt, event timers, callback timers, event queue | a set timer's callback comes | checked, safety proved |

The most specific and most intricate part came first: the tables of
discoveries, which two other subsystems share. `DiscoveryMemory` joins the two
views of a discovery. The tables of a node are proved to implement it, and
`P2pDiscovery` keeps for every node of a network no more than its phases and
the routes it has; that each node of it goes through those phases only, is
checked and proved again there.

Each module has one passing run for each question, and a violating one only for
a disagreement between the code and what is written about it.

Every safety invariant and action property that a passing run checks is also
proved, some of them under a hypothesis that section 8 names and justifies. Left
to TLC are the liveness properties and the counterexamples. Worth doing next:
the DRO-ACK of a hop-by-hop reply, of which nothing is promised so far, and the
ageing of routes.

## 3. Discovery DAGs: `RplP2pDags`, `DiscoveryMemory`

### State

| TLA+ | code |
|---|---|
| `dag_table[d]` | `dag_table[]` of `rpl-dag.c`: used, joined, whether rank is the root's, instance ID with DODAG ID (`key`), `p2p` pointer, whether the DIO timer runs, parents and preferred parent |
| `p2p_table[s]` | `dag_p2p_table[]` of `rpl-p2p.c`: `dag` pointer, lifetime, `expired`, the lifetime in the RDO, partial routes, DRO timer |
| `instance` | the static `instance_id` counter of `rpl_discover_route` |

The parent pool and the pool of route addresses are what the tables hold
(`ParentsUsed`, `AddrsUsed`) against their sizes `NParents` and `NAddrs`.
Pointers are indices, and `None` (0) is `NULL`. A slot keeps a dangling `dag`
where the code does.

### Actions

| action | handler |
|---|---|
| `Discover` | `rpl_discover_route`, with `rpl_free_dag` of a DAG with the same instance ID, `rpl_alloc_dag` and `rpl_p2p_alloc_dag` |
| `Join` | `rpl_process_dio` for an unknown DAG, `join_dag` with its allocations and its early returns (`JoinFails`) |
| `Receive` | `rpl_process_dio` for a discovery joined before: `rpl_p2p_update_dag`, `rpl_p2p_route_differs`, parent replacement, `rpl_p2p_process_target` |
| `Stop` | the STOP bit in `dro_input` |
| `SendDros` | the DRO timer (`send_dros`, and what `dro_output` does to the tables) |
| `Tick` | `handle_periodic_timer`: `rpl_p2p_purge_dags` over all slots in index order, and a second off the DRO timers |
| `SetRoot`, `GlobalParents` | `rpl_set_root`, and any change of the parents of a global DAG |

The other nodes are the environment: any neighbour may send any DIO of
`HeardKeys` with any vector of `Vectors` at any time, late ones included.

Simplifications. The rank of a discovery's DAG is always finite and its version
always 0, as the code never changes them. The comparison of metrics is reduced
to its three outcomes (`improved`, `same`, `worse`) and to whether the preferred
parent moves. Handler outcomes that change nothing are left out. A DRO timer
that has run out fires before the next tick, so timers are served within a
second. `send_dros` sends as many replies as it has routes, up to `num_routes`;
here only whether there is one matters. `GlobalParents` allows more than the
code does, any parent set that fits the pool.

### The abstract specification

`DiscoveryMemory` has one variable, what a node knows of each discovery:
unknown, active, expired, and the steps unknown -> active -> expired -> unknown.
`MemorySpec` instantiates it with the phase the tables give to a discovery. The
promise in it: a discovery is not forgotten while active, and not entered a
second time while there is a record of it, whatever DIOs are still about.

### Runs

| run | what is asked | bounds |
|---|---|---|
| `pair` | tables consistent, expired entries silent, parents bounded, expiry never shortened, refinement of `DiscoveryMemory` | 3 DAG entries and 2 slots for 3 discoveries (own, through, towards), 3 neighbours, 3 parents for up to 4 wanted, supported and unsupported OCP, 2 instances |
| `routes` | partial routes stay distinct and none is lost | 2 routes per slot, 4 addresses in the pool for up to 6 wanted |
| `live` | every discovery is forgotten, DAG entries come back, the global DAG finds its entry, the DRO timer never outlives its slot | lifetime 1 with a DRO wait of 2 and a keep time of 2, the tightest that `DroWaitAssumption` allows; three DAGs heard |
| `stop` | violated: `StoppedIsDetached` | one tick is enough |
| `wrap` | violated: `FreedByItsOwnLifetime` | 2 instances instead of 64, so that the counter wraps |
| `noparent` | violated: `DagsRecovered` | 1 parent |

Three entries for three DAGs, one of them global, and pools below the demand
make every allocation fail somewhere. Lifetimes of 1 and 2 ticks pass through
each branch of the purge; longer ones only repeat the branch that counts down.
Two or three neighbours are needed to evict a parent that is neither preferred
nor the sender.

`PacedSpec` leaves out only the `Discover` that wraps the instance counter round
to a discovery still held. A discovery of 16 s is held for 42 s (its lifetime,
then the lifetime again and 10 s as a record), so the application has to call
`rpl_discover_route` 64 times in that time; calls that fail for want of memory
count too. `wrap` shows what happens then. The type invariant is proved without
the restriction.

Fairness (`live`, `noparent`): weak fairness of `Tick` and of each `SendDros`.
The first is the periodic timer, which is reset in its own handler; the second
is a callback timer. Both are posted by the event timer process, and Contiki
serves every posted event. Nothing is assumed of neighbours or the application.

### What the violations show

- `stop` (`rpl-icmp6.c:1411-1413`). The STOP bit stops the DIO timer and sets the
  lifetime to 0 but not `expired`. Until the next tick an improving DIO restarts
  the timer, and the node that was told to detach advertises the route again.
- `wrap` (`rpl-p2p.c:293`). Dropping a DAG with `rpl_free_dag` keeps its P2P
  slot. The slot points to the entry that is handed out next, and when the old
  lifetime is over the purge frees the new discovery.
- `noparent` (`rpl-dag.c:650`). When no parent is left `join_dag` returns with the
  entry marked used and not joined. Nobody frees it again. The same happens at
  line 659 when the objective function is not supported.

Seen on the way, and not made a run: a discovery whose lifetime (1 s, `L` = 0) is
shorter than the DRO wait time (3 s) is answered after it has expired, and
`dro_output` then sets the lifetime of the record to 0, so that it goes early;
`ExpiredKeepsItsTime` is checked with lifetimes for which this does not occur, and
proved of all of them (`AnswersInTime`). A node can be in two global DAGs, as
`rpl_get_dag` compares DODAG IDs, so `KeyUnique` speaks of discoveries.

## 4. Discovery replies: `P2pReply`

A target has answered or will answer each discovery, with the partial routes it
holds then (a constant here, since `RplP2pDags` is about how they come about).
Each transmission of a DRO is a message for each neighbour that would act on it:
the node at position Rem of the vector, and the origin, which acts on any DRO it
hears. Messages stay on their way as long as they like and overtake each other;
`MaxLost` of them are lost.

| action | code |
|---|---|
| `SendDros` | `send_dros` and `dro_output`: send a DRO for each partial route, keep a copy if it fits a free cache entry, store the backward source route of the first |
| `Rexmit` | `dro_rexmit` |
| `OriginReceives` | `dro_input` at the origin: store the source route or the first hop, send the DRO-ACK |
| `RelayReceives` | `dro_input` at a relay: store the hop-by-hop route, drop or forward |
| `ReceiveAck` | `dro_ack_input` |
| `Lose` | the radio |

`WithSourceRoute` is `rpl_p2p_add_src_route` with the functions of `uip-ds6.c`
it calls: the route known before gives up its addresses first, and a new one
that does not fit the pool is removed, which loses the old one too.

Simplifications. Addresses are nodes, whole: the code cuts them to one byte
(`RPL_P2P_RDO_COMPR` 15). The STOP bit is an action of `RplP2pDags`. Identical
acknowledgements on their way are one; one that never arrives is a lost one. The
cache is a set whose entries are ordered by sequence number within a
discovery, as the list is. Routes do not age, and the table of hop-by-hop routes
is large enough. A root ignores the DIOs of its own discovery, so no node answers
itself: `DiscoveriesAssumption` says so, and there are finitely many nodes.

| run | what is asked | bounds |
|---|---|---|
| `replies` | replies arrive unless every copy is lost; relays' routes lead to the target; both ends hold the same route; an acknowledgement cancels only what has arrived | two origins with the same target, two relays that hear each other; a source route with 2 retransmissions and 2 losses; two hop-by-hop routes of one origin in opposite orders and one of the other, too large to be kept, so that sent-once replies occur; the backward source routes of both origins take five addresses at the target, whose pool has four |
| `ack` | violated: `AckMatchesReply` | two replies, one loss |
| `hopbyhop` | violated: `HopByHopReplyDelivered` | one reply through one relay, one loss |

With more losses than `MaxRexmits` nothing is promised, so one more than 2 adds
nothing. Two relays are the fewest on which routes can cross and form a loop.
The system really stops when all is answered and delivered, hence
`CHECK_DEADLOCK FALSE`. No fairness is needed: delivery is stated for the states
in which nothing is left to send.

- `ack` (`rpl-icmp6.c:1350`). The sequence number in the acknowledgement is
  compared with itself. The ACK of the second reply frees the copy of the first,
  which was lost and is not sent again.
- `hopbyhop` (`rpl-icmp6.c:1522`). A relay that knows the hop-by-hop route drops
  a DRO whose next hop is *equal* to the one it has, and forwards one that
  differs. A retransmission never gets past the first relay that has seen the
  reply, so a loss behind it is final. As routes are looked up by the target
  alone, the same comparison stops the reply to a second origin at a relay whose
  next hop the first one has set.

Seen in the proof of `RelayHopsReachTarget`: relays keep the next hop they have,
but an origin overwrites its own with each reply (`rpl-icmp6.c:1446`), whatever
it has stored as a relay of others. A relay that is itself an origin of
hop-by-hop routes to the same target is therefore left out of the promise, and
the theorem asks that no such relay is on another's route
(`OriginsDoNotRelay`).

## 5. The global DAG: `RplDag`

Every node has one record `node[n]`: its entry of `dag_table` for the default
instance (joined, version, rank, `min_rank`, preferred parent, default route),
its parents with the rank, path metric and `updated` flag of each, and its table
of default routers. `metric[n][m]` is what `neighbor-info.c` of n holds for its
link to m.

| action | code |
|---|---|
| `JoinDag`, `GlobalRepair`, `RootOvertakes`, `CandidateDio` | the branches of `rpl_process_dio`, with `join_dag`, `global_repair`, `rpl_process_parent_event`, `rpl_select_parent`, the ETX objective function and `rpl_set_default_route` |
| `LinkFeedback` | `rpl_link_neighbor_callback` |
| `EvictNeighbor`, `ProbeFailed` | the two ways the neighbour cache loses a neighbour, with `rpl_ipv6_neighbor_callback`; only the second removes the default router |
| `RouterExpires` | `uip_ds6_periodic`: the lifetime of a default router is over |
| `RecalculateRanks` | `rpl_recalculate_ranks`, one parent for each second |
| `RepairDag`, `Restart` | `rpl_repair_dag` at the root; any node loses its memory |

Simplifications. Ranks are counted in hops, as every rank is a multiple of
`MinHopRankIncrease`, and metrics in quarters of an ETX. A DIO has the content
its sender has at that moment; a lost one is a reception that does not happen.
Among candidates of equal metric any may win (the code takes the last of its
list), and otherwise the list order does not matter. The metric is never the 0
of an unknown neighbour. The pool of parents does not run out (it does in
`RplP2pDags`), the version stays below 255, and the redundancy constant of 10
never suppresses a DIO in a small network. `stale` keeps what a freed block of a
parent holds: `rpl_add_parent` does not reset `updated`, so a new parent may
start with the flag of another one. `rpl_ipv6_neighbor_callback`
(`rpl.c:231-234`) also drops the default route of the DAG when its neighbour is
*added*; this is left out, as a router is only set for a neighbour in the cache,
and the removal from it (`EvictNeighbor`, `ProbeFailed`) has dropped the route
already. `taken` is a history variable: the default
route of the preferred parent has been taken from it by neighbour discovery, or
by its lifetime.

Run `line`: the root, its neighbour and a node behind it, one global repair, two
disturbances of any kind (a link change, a lost neighbour, an expired router, a
restart, also of the root) and a table of two default routers. A loop needs two
nodes that have lost the root, and to count to infinity takes two that hear only
each other. Two disturbances are the fewest with which one node restarts while
another is still misled. A link may become too bad to hear anything, and then
the network is at rest: `CHECK_DEADLOCK FALSE`.

- `RankFollowsParent`, `RankIncreaseBounded`, `MinRankOnlyFalls`: the rank
  agrees with the parent's, or a recalculation is due; counting to infinity ends
  at `min_rank + MaxRankInc`, and that bound cannot creep upwards.
- `DefaultRoutersAreParents`, `PreferredIsDefaultRouter`: three tables that are
  changed by four handlers in three files agree.
- `LoopsEnd`, `VersionSpreads`: in the end every preferred parent leads to the
  root, and all nodes are in the version of the root, also after it has
  restarted with version 0.

Fairness: `WF` of each node's recalculation, which the periodic timer calls
every second, and of the reception over each link. Trickle lengthens its
interval up to a maximum and never stops sending; a link that is kept does not
lose every DIO for ever.

Seen on the way. The default router is set with a lifetime of 510 s
(`rpl-dag.c:269`), which nothing renews while the preferred parent stays; after
that the node has a parent and no default route. The same happens when
unreachability detection removes the router and the next DIO of the parent
arrives before the node has chosen another one. A root that hears version 255
goes to version 0, which all nodes take for an old one.

## 6. Timers: `EventTimers`

All handlers above are called by callback timers or by packets. A callback timer
is an event timer of `ctimer_process`; when it expires, `etimer_process` posts
an event to the bounded queue of `process.c`, and when that is delivered the
callback runs.

State: `timerlist` in the order of the list; `age`, `interval` and `owner` of
each timer; `ahead`, which is `next_expiration`; the poll flag; `scan`, where
the loop of `etimer_process` is in the list; the event queue; the list of
callback timers. The clock wraps and the code compares differences of times
only, so all times are kept relative to the clock, modulo `ClockSize`.

| action | code |
|---|---|
| `Tick` | the clock interrupt: counts and, if `next_expiration` is past, asks for a poll |
| `BeginPoll`, `ScanTimer`, `EndPoll` | `do_poll`, one step of the loop of `etimer_process`, its end |
| `Deliver` | `do_event`, with the callback and the reset of a periodic timer |
| `CtimerSet`, `CtimerStop`, `EtimerSet`, `StopPlain` | the interface of timers |
| `AppExit`, `AppStart`, `PostOther` | a process exits and starts; other events fill the queue |

The interrupt may come between any two steps; everything else runs to
completion. `MaxLate` bounds how long the main loop leaves an expiry unserved
(one tick here; the code breaks when an overdue timer falls behind by half the
clock), and `IntervalsAssumption` keeps intervals below that.

Run `clock`: one callback timer that is set and stopped, a periodic one, one
timer of a process that exits and restarts; a clock of 8 values, a queue of 2
events, 4 calls of applications. Three timers and two places fill the queue
while a timer expires, and the clock wraps many times. Deadlock is checked.

- `NoCallbackLost`: a callback timer that is set is running or has its expiry
  queued.
- `ExpiryNoticed`: a timer that has expired is seen, although `next_expiration`
  knows one timer only, an overdue timer hides behind the others (its unsigned
  distance is large), and the removal of an exited process's timers leaves
  `next_expiration` as it was.
- `ListedOnce`, `ExitedHasNoTimer`: the list is not closed into a ring, and a
  process that starts again does not get the timers of its former life.
- `EarlyOnlyWhenSetAgain`: the one way to an early callback. A callback timer
  that is set again while its expiry is queued is called back by the old expiry
  (`ctimer.c:80`), and nothing comes of the new one.
- `CallbackComes`: a running timer expires or is stopped and a queued expiry is
  delivered, with a full queue too.

Fairness: `WF` of the tick and of each step of the main loop. The clock
interrupt is periodic, and `main` of the ports calls `process_run` in a loop.

## 7. The spreading of a discovery: `P2pDiscovery`

One discovery in a network whose target is out of reach, so that it runs its
full course. A node's record holds its phase with the seconds left, the metric
last put in a DIO (`mc`), the preferred parent with its metric, and the partial
routes as address vectors.

| action | code |
|---|---|
| `Send` | `handle_dio_timer` and `dio_output` at the sender, with `rpl_process_dio` at any subset of the neighbours that hear it: joining, parent selection, `p2p_route_cmp`, storing of the route |
| `Periodic` | `rpl_p2p_purge_dags` of one node; the nodes' seconds are not synchronised |
| `LinkFeedback` | a new link metric |

Trickle is reduced to "a node that takes part may send at any time, or never",
so the properties hold under every suppression; nothing is promised about whom a
discovery reaches. The code joins on any DIO of an unknown discovery
(`rpl-dag.c:953-958`), and so does `Receive`. One bound is put on the
environment, `InTime`: nobody hears of the discovery *for the first time* after
second `MaxSpread`. When a node that has forgotten it may hear of it again is
not bounded. `SizesAssumption` asks for `MaxSpread + 1 < KeepTime`; in the code
`KeepTime` is the lifetime and ten seconds (`rpl-p2p.c:225-235`).

Which list `dio_output` takes for the route depends on `random_rand` and on the
number of routes stored (`rpl-icmp6.c:646-654`). With none it is an unused list.
With one it is that route. With more, the largest random numbers give the index
after the last route: with two of three that list is unused (`UnusedVectors`),
and with all three it is `partial_routes[3]`, behind the array, which is the last
member of its struct. What is there is undefined. `StrayVectors` takes it for any
of the lists `Stray`, whose addresses (`Address`) need not be those of nodes. A
read that never ends or overruns the packet is not modelled.

Run `flood`: the origin hears and is heard by the relays a and c, c by b; b hears
a without being heard, and a hears c likewise. The link of c to the origin is bad
or good, one metric may change, the address pool of b may be empty, a node stores
three routes, and stray memory is taken for an unknown address followed by that
of b. The lifetime is 1, records are kept for 4 and `MaxSpread` is 2, the largest
that the assumption permits. It excludes nothing in this network: b and c may be
two hops and two late seconds behind the origin, and nobody is further. With
records kept for 3 seconds `NeverAgain` is violated. In the network there are
routes of equal metric, routes that could turn back, nodes a second late, nodes
with two of three routes that send an unused list, and full ones that send stray
memory (which takes the change of a metric, so that the exemption of `strayed` in
`NoLoops` is there for the theorem).

- `VectorsArePaths`: a stored vector is a path from a neighbour of the origin to
  a neighbour of the node. A vector may also begin with a node that has sent an
  unused list, which hearers take for a route of one hop (`rpl-icmp6.c:651`, and
  `rpl-p2p.c:126` with an empty pool); `truncated` records those. And it may
  begin with stray memory; then it is a path from the node on that has put the
  memory before its own address, which `strayed` records.
- `NoLoops`: no route visits a node twice, although nobody looks for its own
  address in a vector. Metrics alone prevent it, and they do not if a link has
  changed, if a node has judged a DIO by a `mc` that is out of date
  (`rpl-dag.c:1070`), which `misjudged` records, or if stray memory was sent. A
  node that joined a second time would have no metric to judge by; so the
  property also rests on `NeverAgain`.
- `NeverAgain`: who has forgotten the discovery does not take part again. Nothing
  prevents it but the phases of the neighbours: when a node forgets, all of them
  must have stopped sending, the one that joined last and whose timer is late
  included. The first bound at which this fails is `MaxSpread = KeepTime - 1`:
  a second is lost since the periodic timers of two nodes may be a second apart.
  The comment at `rpl-p2p.c:225-233` speaks of "some fixed propagation time",
  and the ten seconds are that time, less two.
- `NodesRemember`: each node goes through the phases of `DiscoveryMemory`, the
  abstraction its tables are proved to implement.

## 8. Proofs

`RplP2pDagsProofs` proves for all table sizes, pool sizes, nodes, keys, vectors
and times allowed by the named assumptions of the module:

| theorem | statement |
|---|---|
| `TypeCorrect` | `Spec => []TypeOK` |
| `Ownership`, `OneEntryPerDiscovery`, `DroTimerOutlived`, `ExpiredSilence`, `NoLeak` | `PacedSpec => []SlotsPaired`, `KeyUnique`, `DroTimerSafe`, `ExpiredIsSilent`, `NoRouteLeak` |
| `Refinement` | `PacedSpec => MemorySpec` |

The inductive invariant is `Inv`, the conjunction of `TypeOK`, `SlotsPaired`,
`KeyUnique`, `DroTimerSafe`, `ReleasedIsClean` and `ExpiredIsSilent`. The pairing
says that a slot which may be allocated is a released one, and that the purge
works on each DAG once. With it and `KeyUnique` a discovery has one slot, so
that its phase is well defined and every step maps to a step of
`DiscoveryMemory`. `DroTimerSafe` is the safety of an untested pointer in
`send_dros`: the timer runs down with the lifetime, and it stays below it after
expiry because `DroWait <= KeepTime` (3 s and 10 s in the code). `NoLeak`
follows from pairing and `ReleasedIsClean`. Each action gets a lemma; those that
enter a discovery (`Enter`), update one (`UpdateActive`) or touch only DAGs
without a slot (`OutsideSlots`) share theirs. `TickEffect` says what the purge of
all slots does to one slot and one DAG, and the rest of the argument uses only
that.

Four more theorems have invariants of their own beside `Inv`:

| theorem | statement | invariant and argument |
|---|---|---|
| `RoutesDiffer` | `Spec => []RoutesDistinct` | `Distinct`, slot by slot: a route is appended only if it differs from all that stay, and the one evicted only leaves |
| `ParentsStayFew` | `Spec => []ParentsOfP2pDag` | `FewParents`: a discovery's parents are none, or the preferred one and one other |
| `ExpiredIsRemembered` | `AnswersInTime` implies `PacedSpec => ExpiredKeepsItsTime` | `Timed`: the DRO timer of a target runs out before the lifetime of the discovery |
| `GlobalDagHasRoom` | `PacedSpec /\ EveryJoinSucceeds => []GlobalSlotReserved` | `Settled`: every entry in use has been joined; then each one but the global DAG's has a slot, and there is a slot less than entries |

Both hypotheses are needed. `AnswersInTime`, that a discovery answered by this
node lives longer than the DRO wait, excludes the record that goes early
(section 3). `EveryJoinSucceeds`, that no DIO is dropped for want of a parent or
of an objective function, excludes the entries that `noparent` shows to be lost:
one of them takes the place of the global DAG.

`P2pReplyProofs` and `P2pReplyDelivery` prove for every network, set of
discoveries, vectors and sizes:

| theorem | statement |
|---|---|
| `TypeCorrect` | `Spec => []TypeOK`, with the positions a relay computes inside the vector |
| `CancelledWasReported` | `Spec => AckCancelsReported` |
| `RoutesAreReversed` | `Spec => []DirectionsAgree` |
| `SourceRepliesArrive` | `VectorsArePaths` implies `Spec => []SourceReplyDelivered` |
| `RelaysReachTargets` | `OriginsDoNotRelay` implies `Spec => []RelayHopsReachTarget` |

The inductive invariant of the first two adds to the types that each DRO is
addressed to a node that acts on it (`DrosAddressed`: this bounds `Rem`) and that
each acknowledgement on its way is of a reply that has reached the origin
(`AcksReported`). A single reply of a discovery is then the only entry an
acknowledgement can match, so the missing comparison of sequence numbers does
no harm there.

`RoutesAreReversed` rests on `RoutesOwned`: between the two ends of a discovery
each end has the route of its only reply, forward or backward, or none. It says
nothing of the other routes, since a route that is stored, or does not fit, may
cost this one its place but never changes it (`StoredRoute`).

`SourceRepliesArrive` counts copies (`Accounted`): of the copies sent so far of
a reply that has not been reported, all but at most `lost` are under way. A copy
is not under way any longer only if it is lost or received, and a relay that
receives it sends it on to a node that hears it. Hence the hypothesis
`VectorsArePaths`, which is the invariant of the same name of `P2pDiscovery`
where links are symmetric, save for the vectors that begin with a node that has
sent an unused list or stray memory. The code does no more for a broken vector
than to transmit into the void, and that is a loss of each copy.

`RelaysReachTargets` orders the relays of each target (`HopsOrdered`): the next
hop of each one is the target or a relay of lower rank. A new relay gets a rank
above all others, as the node it has heard the reply from has a route already
(`SendersRouted`), and next hops are never changed after that. Ranks fall along
the way, so it ends within as many steps as there are nodes (`WalkReaches`).

`RplDagProofs` proves for every network, all link metrics, any number of
disturbances and repairs, and tables of default routers of any size:

| theorem | statement |
|---|---|
| `TypeCorrect` | `Spec => []TypeOK` |
| `RankAgreement`, `CountingIsCut` | `Spec => []RankFollowsParent`, `Spec => []RankIncreaseBounded` |
| `RoutersOwned`, `PreferredIsRouted` | `Spec => []DefaultRoutersAreParents`, `Spec => []PreferredIsDefaultRouter` |
| `MinRankFalls` | `Spec => MinRankOnlyFalls` |

The only assumptions are the named ones, which `line` evaluates: the root is a
node, links join different nodes, metrics are numbers, and there are finitely
many nodes. The inductive invariant `IInv` is `TypeOK` and, for each node,
`Sound` (preferred parent, marked parents and default routers are parents, and a
node that has not joined has none), `Routed`, `Ranked` and, for the root,
`AtRest`. It is needed because a preferred parent outside the list of parents
would never be marked again, so that a stale rank would stay, and because the
room in the table of routers is counted against the neighbours. The operators of
the model have a lemma each (`SetDefaultRouteEffect`, `RemoveParentsEffect`,
`AddParentEffect`, `PreferEffect`, `SettleEffect`); `ParentEventEffect` joins
them: from whatever state of the parents, `rpl_process_parent_event` restores
`Ranked`. A step changes one node (`OneNode`), except `LinkFeedback`, which also
changes its metric and is proved by itself. `NextStep` shows of each step that
it keeps `IInv` and lowers no `min_rank` within a version; invariants and action
property follow.

`P2pDiscoveryProofs` and `P2pDiscoveryLoops` prove for every network, all
metrics, lifetimes and numbers of routes, and any loss of DIOs:

| theorem | statement |
|---|---|
| `TypeCorrect` | `Spec => []TypeOK` |
| `VectorsSpreadAsPaths` | `Spec => []VectorsArePaths` |
| `ForgottenForGood` | `Spec => []NeverAgain` |
| `RecordsImplementMemory` | `Spec => NodesRemember` |
| `RoutesDoNotLoop` | `Spec => []NoLoops` |

A node that sends a stored vector puts its own address behind it
(`PathProlonged`), so it stays a path as long as the origin adds nothing to it:
the origin must remain the root of its own discovery. `SentLists` says what else
may be sent: the node's own address, with the node in `truncated`, or any list
of `Stray` before it, with the node in `strayed`; no property of that list is
used. That the origin does not join is a matter of time, and so is `NeverAgain`.
`IInv` therefore adds `RecordsTimed`, which derives from what is left of a
record when it was made: an active record began within the first `MaxSpread`
seconds, and an expired one lasts until `Lifetime + KeepTime` seconds have
passed on its own timer. Hence `ForgetsLate`: when the first record is dropped,
even by a timer that is a second ahead, every lifetime is over, that of a node a
second behind included. This is where `MaxSpread + 1 < KeepTime` is used.
`NobodyForgot` turns it round: while some node is active, and only then is a DIO
sent, nobody has forgotten the discovery; so whoever joins has not held it
before, and that step is the one `InTime` bounds. `JoinsOrStays` and `Purges`
say all that a reception and the periodic timer do to the phase and the time of
a record.

`RoutesDoNotLoop` is the argument by metrics that the code leaves unsaid, for as
long as no link has changed. `MetricsFall`: the path metric of a relay never
rises, and when it falls, then by `MinDiff` at least; and what a node has
recorded of its parent is its parent's present metric or is worse by `MinDiff`.
So a DIO whose sender takes its route through the hearer has a metric the hearer
is sure to find worse than its own, and the route is not stored. `RoutesFall` is
what remains while no stray memory was sent: a route repeats no node, and each
relay on the route of another has the better path metric of the two. `LinksCost`
(no link is better than one ETX) and `RelaysLinked` (parents have taken part)
make the inequalities strict, and `NamesTook` says that the nodes on a route
have taken part, which by `NobodyForgot` still have a record and a metric when a
DIO is sent.

`EventTimersProofs` proves for any number of timers, size of the clock, of the
queue and of the intervals, however late the main loop within `MaxLate`:

| theorem | statement |
|---|---|
| `TypesHold` | `Spec => []TypeOK` |
| `CallbacksAreKept` | `Spec => []NoCallbackLost` |
| `ExpiriesAreNoticed` | `Spec => []ExpiryNoticed` |
| `TimersAreListedOnce`, `ExitTakesTimersOff` | `Spec => []ListedOnce`, `Spec => []ExitedHasNoTimer` |
| `CallbacksAreTimely` | `Spec => EarlyOnlyWhenSetAgain` |

The inductive invariant `IInv` says besides what the event queue may hold and
when timers expire. `Owned`: an event for a timer is addressed to its owner.
`CallbacksSet`: a callback timer that is set runs, or its time has come and its
event waits; a periodic one is never in both places nor twice in the queue,
because only its own callback resets it. `Dated`: no timer on the list or in the
queue is later than `MaxLate`; with intervals below half the clock the wrapped
differences are then the true ones (`IntervalsAssumption`). `Near`:
`next_expiration` is at, or less than half the clock before, each expiry that is
still to come, so that the interrupt sees it pass in time.

Induction is in `Inductions`. The library's theorems about it take an operator as
a parameter; here it is stated with sets and derived from the well-foundedness
of the natural numbers, with the existence of a function defined by iteration.
The walk along next hops and the list that `AppExit` filters are reasoned about
with it.

Only model-checked are the liveness properties, which are out of reach of the
prover: `SlotsRecovered` and `DagsRecovered` of `RplP2pDags`, `LoopsEnd` and
`VersionSpreads` of `RplDag`, `CallbackComes` of `EventTimers`; and of course the
counterexamples of the violated runs.

## 9. Not modelled

- The Trickle timer of DIOs: intervals, counter and suppression. `P2pDiscovery`
  covers every suppression, `RplDag` none. That the redundancy constant of 1 may
  hide a discovery from a neighbour is listed as a hazard without a property.
- DAOs and the ageing of RPL routes (storing mode, `RPL_CONF_MOP` 2): P2P-RPL
  does not use them.
- Memory reads that do not end or leave the packet, when stray memory is taken
  for a list of addresses (section 7): undefined behaviour without a state.
- The measurement object: a request along a known route, with a table of
  outstanding requests at the origin.
- Ageing and replacement of source and hop-by-hop routes, entry by entry.
- The states of a neighbour and ND messages; 6LoWPAN, TCP and the MAC below the
  messages, which the models send whole, late or not at all.
- Objective function 0; `rpl_set_root` at a node that is in a DAG, and two
  global DAGs at once; the wrap of the version number.
- Broadcast and synchronous events, `etimer_adjust`, and timers set before
  `ctimer_process` runs.
- Contiki's applications, ports, Rime, the file system and Cooja: not part of
  the protocol.

They are about routing and kernel functions that the discoveries of P2P-RPL
do not depend on, or add data and timing that the properties above do not tell
apart; `PROJECT.json` lists each component with its reason.
