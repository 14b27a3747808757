# comnet2, verified

TLA+ models of the router of this repository (`router.cpp`, `router.h`,
`forwarding_table_filler.h/.tpp`, `common.cpp/.h`, about 2,000 lines; the rest of the
tree is a vendored Boost and earlier drafts), the runs that model-check them, and the
theorems that TLAPS proves about them.

One process is one router. It reads its links from a text file, finds its neighbours
with Hello packets, floods its neighbour list, builds a map out of the lists of the
others, and then forwards data packets that have up to three destinations. All of it is
UDP on localhost, with one listening thread per link.

Paragraph numbers of the design document (`docs/attachment-0001.docx`) count the
paragraphs of its text from 1, the empty ones too.

## 1. Inventory

| Component | State | Operations | Interacts with |
|---|---|---|---|
| Constructor (`router.h:76-99`) | phase of the start-up | open receiving ports, open sending ports, spin for the Acks, start link state | starts every thread |
| Thread start-up (`router.cpp:357-372`, `534-583`, `585-593`, `627-651`) | `lop_`, `tdmop_`, `tlpop_thread_index`; two mutexes for each | increment under one mutex, read again under the other, `nbr_tbl.at` | timers reset the counters with no mutex |
| Discovery (`378-403`, `495-558`, `640-651`, `694-708`) | `nhop_hello_ack_rxed`, `txing_ports`, `rxing_ports` | send Hello, answer it, note an Ack, scan for missing Acks | listeners answer over ports that the constructor may not have opened |
| Link-state flooding (`404-422`, `560-638`) | packets in flight, `ls_seq_num` (never sent) | originate, record, pass on with TTL - 1 | listeners of all routers, which pass on over ports that the constructor may not have opened |
| Map building (`434-470`, `181-265`) | `graph_name`, `netnode_nhops`, `num_of_total_nodes` | look up, append, insert, compare, build | all listeners of one router, without a lock |
| Forwarding tables (`forwarding_table_filler.h:153-238`, `.tpp`) | `dest_dist`, `dest_port`, `nhop_dest_dist` | run Dijkstra for the router and for each next hop | written by `build_map`, read by listeners |
| Next-hop choice (`forwarding_table_filler.h:40-152`) | `dest_poss_nhop` | possible next hops, combinations, cost, least cost | called by listeners, shared without a lock |
| Data plane (`router.cpp:43-179`) | packets in flight | keep, split, send on | next-hop choice, sending ports |
| Packets (`common.cpp:18-139`, `common.h:40-140`) | header octets, header length, payload | `setOctet`, `makePacket`, `extractHeader`, `fillPayload` | every sender and receiver |
| UDP ports (`common.cpp:280-499`) | socket, `sendingbuf_`, `tmpBuffer_`, `pkt_` | `init`, `sendPacket`, `receivePacket` | several threads share one sending port |
| Timers (`common.cpp:535-561`, `router.h:153-164`) | delay, thread id | start, expire, run the handler in a thread of its own | handlers start threads and the timer again |
| Topology reader (`router.cpp:282-355`) | `num_neighbors`, `nbr_tbl` | two sequential scans | constructor |

What is hard here: threads find out their own index through a racy counter; listeners run before
the sending ports exist; containers that all listeners use have no lock; nothing is acknowledged
but Hellos, so timers must make up for every loss; link state has neither duplicate suppression
nor sequence numbers; the TTL of data packets is never looked at; a counter of names stands for
a set of names; buffers, packets and tables are shared by threads and never cleared; threads are
neither joined nor detached. `PROJECT.json` lists these hazards with their lines and the
properties that guard them.

What makes each component correct, in short: threads - every port is served, no index is
out of range; discovery - ends, and only when link state has somewhere to go; flooding -
bounded, reaches everybody, dies out; map - complete, once, never changed; tables - those
of shortest paths, whatever else is in memory; data plane - no loops, no duplicates,
everybody served; ports - what goes in at one end comes out at the other.

## 2. Modules

| Module | Models | State and actions in the code |
|---|---|---|
| `ThreadIndex` | thread start-up, the timers and the threads they leak, for any of the three counters | `thread_index` is the counter, `mutex` the mutex around its increment, `reg` the register of a load-add-store, `tid` is `tlocal_tid`, `created` the threads that the system still keeps and `limit` how many it allows. `Spawn`/`SpawnFails` are `pthread_create` and the `exit(-1)`, `StartTimer`/`StartTimerFails` `startTimer` and its throw, `TimerFires` the handler's reset, `OtherThread` the threads of the other counters; `LoadIndex`, `StoreIndex`, `ReadIndex`, `UsePort`/`OutOfRange` are the lines of a thread up to `nbr_tbl.at`. `Sending` is TRUE for the threads that send, which read `*tid` a second time (541, 567). |
| `Discovery` | constructor phases and Hello exchange of all the routers | `pc[r]` is the line of the constructor, `rx`/`tx` the ports (`new` is the gap between 506 and 509), the ports of a router are opened in the order of the topology file (`Line`), `acked` is `nhop_hello_ack_rxed`, `scanned` the iterator of the spinning loop. A Hello that meets an unopened sending port is undefined: nothing is sent (`HelloTooEarly`) or the process dies (`HelloKills`). |
| `LinkState` | flooding and recording, any topology | `graph_name`, `netnode_nhops`, `num_of_total_nodes` as in the code; `net[p]` the datagrams on their way to port p; `opened` the sending ports that the constructor has opened (`OpenTx`), in the order of the topology file. `Originate` is a sending thread, which runs after discovery (`Discovered`), `Receive` a listener's whole handler. A relay over a port that is not open (617) is undefined: nothing is sent, or the process dies. `Dies` is any other end of a process, `Unreachable` a datagram for a socket that is closed or not bound yet. |
| `LinkStateTree` | the same on a network without cycles | adds `Toward`, the way to each node, and the strengthened invariant. |
| `Dissemination` | what flooding promises | `has[r]`, the lists a router has; a router learns a list from a neighbour that has it. `LinkStateTree` maps its state to this one (`Spread`) and implements it. |
| `MapBuild` | one router's listeners inside `extract_ls_info` and `build_map` | each access to a container is a span from a Begin to an End step, the loops that read a container included; overlapping conflicting spans are undefined (`raced`). `Comes[t]` are the sources whose packets come to listener t: listeners of one port share theirs. `Dies` is the exception of `graph_name.at` (201), or what an undefined access leads to. |
| `RouteTables` | `build_map` and `run_dijkstra`, from the record to the tables | `CopyMap`, `BuildGraph` and `Publish` are the parts of `build_map`; an id without a vertex is looked up all the same (223-224), and the number that is read may be a vertex, make the graph grow (`BuildGraphGrown`) or end in an exception (`BuildGraphThrows`); `FillDist`, `PrintPath`, `FillPort` and `FillNhop` the loops of `run_dijkstra`, with a step for each vertex or neighbour and one (`StepBack`) for each link of a walk back. `FillNhopDies` is a neighbour without a vertex. `Tails` are octets that `strlen` may find behind an array. |
| `NextHopQuery` | `forward_to_port`, called by several listeners | `CallUnicast`, `CallMulticast`, `CallTooEarly` begin a call; `BeginEntry`/`EndEntry` are one `dest_poss_nhop[..][..] = ..`, `BeginScan`/`EndScan` the loops over the combinations. |
| `NextHops` | the choice of next hops as a function of the network | what `forward_to_port` gives if the tables are right: `Best` is the first combination of the least cost. |
| `Forwarding` | the data plane of all the routers | `net[p]` is the queue of a socket; `BuildMap` the end of `build_map` with the packet that W sends; `Keep`, `Forward`, `GoAstray`, `ForwardDies` the outcomes of a listener's handler of a data packet. |
| `Ports` | the octets of a link: one sending port, one receiving port | `StartPacket`, `CopyHeader`, `CopyPayload` are `makePacket`, `SendTo` the `sendto`; `Receive`, `ExtractHeader`, `FillPayload` are `receivePacket`; then come the branches of `listen_on_port`, each of which may be the end of the router (`HandlerDies`: the overruns of 162-165 and 102-103, a packet that comes too early). `ttl` is the local of 410, `sendingbuf`, `tmpBuffer`, `info`, `payload` are the arrays, as far as packets reach. |
| `MC...` | small networks for TLC | a port `<<x, y, i>>` is the end at x of the i-th link between x and y. |
| `ThreadIndexProofs`, `DiscoveryProofs`, `LinkStateProofs`, `LinkStateTreeProofs`, `MapBuildProofs`, `PortsProofs`, `NextHopQueryProofs` (for `RouteTables` too), `ForwardingProofs` | theorems | Section 4 |

How they fit: `ThreadIndex` says which ports have a listener; `Discovery` takes that set as its
constant `Served`, and `ServedAssumption` is what the theorem `LastPort` leaves of it: a router
whose port has no listener has one at a later port. `Ports` has more than one listener at a port
for the same reason. `Discovery` shows what a router that has come to link state has behind it
(`SocketsBound`, `NotWithoutListeners`); `LinkState` takes that as the guard `Discovered` of
`Originate`. `LinkState` shows that on a tree a router's own packets do not come back
(`OutwardOnly`); `MapBuild` takes that as `Outward`. `RouteTables` starts from what `LinkState`
and `MapBuild` leave in the record: complete, with a list missing, or with the router itself in
the place of another. It shows that a complete record gives the tables that `NextHops` assumes,
and `NextHopQuery` that listeners then choose what `NextHops` says. `Forwarding` uses that
choice and lets each router become ready at any time.

### Abstractions

* A port is a line of the topology file; `Peer` is the other end of the link.
* `net` of `LinkState` and of `Discovery` is a set of packets per port: equal packets that
  are in a socket at once count as one. Handling a packet twice is what handling it, and
  receiving it again after another sending, does, and both are in the model.
* The neighbours a link-state packet lists are a function of its source, so that only the
  source is in the packet.
* Handlers are single steps in `LinkState` and `Forwarding`; `MapBuild` opens the one of
  link state up. Log output is left out, but for loops that read what others write.
* Boost's Dijkstra is represented in `NextHops` by `Dist` and `First`, any functions that
  satisfy `DijkstraAssumption`: distances of shortest paths in links (all the weights are 1),
  and a first hop on one of them. In `RouteTables` it works on the graph that
  `build_map` makes: the distances are those that no edge could lower and that an edge from
  nearer explains for each vertex that is reached (`Distances`), the
  predecessors any that are one link nearer. `INT_MAX` is a number longer than any path.
* Octets are numbers in `Ports`, with the values of the characters. A `memcpy` is one step;
  two that overlap could also mix octets, and no property speaks of what comes of that. The
  ports that a receiver sends over are like the one that is modelled.
* Undefined behaviour is a choice over what a build can do: an early Hello (above), an append
  that races (`PushBack`), a lookup that races (`EndFind`), next hops read from uninitialised
  memory (`GoAstray`), a relay over an unopened port (`Receive`), what `find()` == `end()` reads
  (`BuildGraph` and the steps after it), the stack overrun of `router.cpp:162-165`. That loop
  runs to the character code of the number of destinations; `Overruns` says whether the stack
  layout lets it do harm, in which case forwarding may kill the router. In `Ports` any handler
  may (`HandlerDies`), so that nothing there rests on a handler that survives.
* A graph that grows has vertices without an id; the octets behind `final_graph_name` that
  `run_dijkstra` reads for their names are no ids (`Junk`). With one more vertex or two, an
  edge leads to each of them or to the last only. Where `nhop_port.find` finds nothing, `FillPort`
  takes 0 for what it reads, which is no port.

## 3. Runs

Run one with `tlc -config X.cfg M`; `PROJECT.json` gives module and cfg.

| Run | Shows | Bounds, and why they are enough |
|---|---|---|
| `ThreadIndexRounds` | `TypeOK`, `AbortOnlyOnOverlap`, `LowPortsNotCrowded`, `LastPortServed`, `ThreadsGetThere`, `RoundsGoOn` | 2 threads, 2 rounds: two threads that read one value, and the shortest overlap of a reset with a load and a store. `Limits`: 5 threads, one too few for the second round and its timer, and 6, of which other threads may take any. The theorems are for any number of all of them. |
| `ThreadIndexPorts` | **violated** `EveryPortServed` | 3 threads, one round |
| `DiscoveryGaps` | `TypeOK`, `LspFindsSocket`, `DoneNeedsListeners`, `AllDiscovered` | 3 routers, two links between A and B as between D and X in `deneme.txt`, two ports of B before its last that the race above left out, one loss: A can get through discovery, B and C cannot |
| `LinkStateTree` | `OutwardOnly`, `CompleteMap`, `MapFrozen`, `EveryMapBuilt`, `Disseminates` (the refinement) | a line of 3, TTL 1, one loss, one death: the middle router passes on what the outer ones need, with no TTL to spare, and one of its ports is open before the other. The safety theorems are for any tree. |
| `LinkStateFlood` | `TypeOK`, `TTLBoundsReach`, `FloodDies` | a cycle of 4 with a tail, TTL 2, two losses: packets that meet, and a node out of reach |
| `LinkStateCycle` | **violated** `CompleteMap` | a cycle of 3, TTL 2 |
| `MapBuildThree` | `TypeOK`, `NamesPerListener`, `NoMissedBuild`, `OneCompleteMap` | 3 listeners, two of which share a port and its source, and a source at the other port; one race; 4 names: both sources, the one that is named twice, and the router |
| `MapBuildEarly` | **violated** `BuiltFromAll` | 2 listeners, 3 sources |
| `ForwardingDiamond` | `TypeOK`, `HopsBounded`, `NoDuplicates`, `EveryDestServed` | 4 routers, two of them linked and equally far from two others; a packet for two destinations where the wrong cost would send it round between the two, and one for three that goes astray; one loss, overruns possible |
| `ForwardingInner` | **violated** `ArbitraryDests` | `sample_network.txt`, a packet for X and D |
| `NextHopQuery` | `TypeOK`, `QueryTypeOK`, `TablesRight`, `CleanSurvives`, `AnswersRight`, `Settles`, `RaceOnlyWhileNew` | a router with two links to one neighbour and three neighbours in all; a complete record, one without a list, one with the router itself in it; an octet or none behind each array; 5 vertices, so that the graph grows by one (`MaxGrown`); 2 listeners and 2 calls, for one, two and three destinations: entries that overlap, and entries that were there before |
| `Ports` | `TypeOK`, `ArrivesWhole`, `RecordedAsSent`, `RelayedRight`, `PayloadKept`, `ReceiveDiesOnlyOfOverlap` | 2 senders, 2 listeners, which are interchangeable; 3 packets out of a Hello, link-state packets with TTL 1 and 0 and data packets with payloads of two lengths; 2 datagrams under way; new arrays that are zero or not: any two overlap, and a short packet comes after a long one |

The code starts link-state packets with TTL 8 in networks whose routers are at most 4
links apart. The runs use a TTL that is short for their networks on purpose, except where
a property needs every router to be reached, where it is just enough. Bounds in guards:
`MaxRounds`, `MaxLosses`, `MaxDeaths`, `MaxNames`, `MaxRaces`, `MaxGrown`, `MaxAstray`, `MaxCalls`,
`MaxSends`, `Room`.

Deadlock is not checked where the system may stop: threads that all listen, routers that
are dead, packets that have all arrived, calls and sends at their bound. `LinkState`, whose
timers never stop, is checked for it in `LinkStateFlood`, where no router dies.

The violated properties are what a line of the documentation or of the program's output
says: see "findings" in `PROJECT.json`. All four are bugs: a port without a thread; a map
with a node missing on a cycle; a map built before all is recorded; a destination on the
way to another one not served.

The fifth finding is a divergence from the design: paragraph 46 wants Hellos resent only
until the Acks have come, and the code never stops. Each round of Hellos starts the next
whatever has been acknowledged (`RoundsGoOn`, and in `Discovery` the sending of a port does
not look at `acked`). That is more traffic than the design has, and threads that are never
joined, until the process can create no more and ends; but the models and the liveness
properties below count on no more than that rounds go on while something is missing. One more
divergence has no run of its own: the TTL of data packets is a digit that turns into a
number and wraps (`NextTTL` of `Forwarding`, `DataTTL` of `Ports`; paragraph 97 has it
decremented by each router), and is never looked at.

What the passing runs say of the code beyond that: a router dies of a datagram that its
neighbour's threads have mixed up (without `Undisturbed`, `ReceiveDiesOnlyOfOverlap` fails), its
tables depend on octets behind two arrays (without `Clean`, `CleanSurvives` fails), and
listeners race for `dest_poss_nhop` for as long as there are destinations they have not
been called for.

### Fairness

* `ThreadIndex!FairSpec`: the kernel runs every thread; acquiring a mutex is strongly fair,
  since others may take it in between.
* `Discovery!FairSpec`, `LinkState!FairSpec`: constructor and listeners run, and sending is
  weakly fair for the last port of each router: each round of a timer serves it (`LastPort`)
  unless the timer overtakes the threads of a round, and the rounds go on (`RoundsGoOn`) or the
  process dies. Assumed is that not all rounds are overtaken: there are 10 or 13 seconds from
  one to the next. That the rounds come to serve
  another port again and again is more than the index race gives (`ThreadIndexPorts`), so
  `AllDiscovered` and `EveryMapBuilt` have it as a hypothesis, for the links that they need. For
  the listeners, which are started once, `Served` is a constant; `EveryMapBuilt` is about
  networks where all ports are served.
* `LinkState!DeliverySpec`: what is not lost gets handled; the losses are finitely many.
  `FloodDies` assumes no fairness of the timers, only of handling.
* `ThreadIndex!FairSpec` also lets timers expire and `startTimer` return or throw.
* `NextHopQuery!FairSpec`: the listener that builds the map runs. The calls need not go on.
* `Forwarding!FairSpec`: each router gets its map or dies, each listener handles what it has.

Liveness properties allow for what the code does not prevent: the death of a process
(`ThreadsGetThere`, `RoundsGoOn`, `AllDiscovered`, `EveryMapBuilt`, `Settles`, `EveryDestServed`),
and, in the data plane, where nothing is sent again, a loss or a packet gone astray.
`FloodDies` is checked without deaths; a router that is dead sends nothing on.

## 4. Theorems

All are checked by TLAPS for every value of the constants that satisfies the modules'
assumptions. Liveness stays with TLC.

* **`ThreadIndexProofs`** (any number of ports and rounds). `IInv` says where the counter
  can be: it is the number of finished increments less one while no reset overlapped
  (`Counting`), the holder of the mutex is the only thread between load and store, and a
  thread that has read has a value that is at least the number of increments up to its own,
  so those with a value up to v have all incremented while the counter was at most v. That
  yields `LowPorts`; the last to increment reads the last index, which yields `LastPort`;
  and an index is in range, which yields `NoAbortWithoutOverlap`. The bound on
  each low port is not inductive without counting the threads that have incremented, nor the
  count without `TimerLast`: a timer runs only when its round has all its threads.
* **`DiscoveryProofs`** (any topology, parallel links too, any set of ports without a
  listener). `SocketsBound`: a Hello-Ack in flight, or noted, implies that its sender had
  opened its sending port, which is after it had bound all its receiving ports; and a scanned
  neighbour is an acknowledged one. The chain rx - tx - ack - scanned is the invariant. With
  each Ack goes, besides, that both ends of its link have a listener, one that answered the
  Hello and one that took the Ack: `NotWithoutListeners`.
* **`LinkStateProofs`** (any network, with cycles or without, any TTL, any losses).
  `ReachBounded`: the links that a packet has crossed are a chain (`Chains`) one longer than
  its TTL has gone down; passing it on adds a link (`AwayOneMore`). Cycles do no harm to
  that, they only break `CompleteMap`, which needs the tree of the next module.
* **`LinkStateTreeProofs`** (any finite tree, any TTL, any losses). `TreeInv` adds to the
  types that packets only travel outward and that the list is exact: as many names as
  entries and never the router's own before the map is built. `MapComplete` follows by
  counting: a list of distinct other nodes that is as long as there are other nodes has
  all of them. `CompleteMap` alone is not inductive, as nothing in it says how the count
  comes about. `Frozen` is an action property from the same invariant. `Refinement` is the step
  simulation of `Dissemination`: a packet that goes outward was sent by a neighbour that
  has what it says (`SentByKnower`), so that recording it is a `Learn`; all the other steps
  are stutters, and the map is built in the step that completes the list.
* **`MapBuildProofs`** (any number of listeners and sources, any pattern of sources at them).
  Two listeners of one port may both look a source up before either appends it, so that
  it is named twice without any overlap. But a listener that has found nothing appends
  once, and finds the source ever after: the places of a source, together with the listeners
  about to append it, each belong to a listener of its own, to which its packets come:
  `NamedOncePerListener`. Until somebody appends the router itself, and while
  no source is there twice, the length of the list is the number of sources in it, so that
  the listener that completes them finds the number it compares with, unless another one is
  building already: `SomebodyBuilds`. With one listener at a time, whoever builds finds all
  that the others left, and nobody begins again: `MapComplete`. None of the three properties
  is inductive; each needs to know which listener stands between an append and what follows it.
* **`PortsProofs`** (any number of threads, any packets that the code can make and that fit
  the arrays). A packet is followed octet by octet, from `sendingbuf` (`Assembled`) into a
  datagram (`InFlight`), `tmpBuffer` and the arrays of `pkt_` (`Handled`). A thread without
  the mark of a disturbance is the only one at work (`OneSender`, `OneListener`), which is
  what makes the arrays its own: `Intact`, `RecordsTrue`, `RelaysTrue`, `PayloadWhole`
  (behind the longest payload so far the array is as it was, `Behind`, so that `strlen` ends
  there). Two facts hold even of disturbed threads, and keep every copy within the
  arrays (`TypeCorrect`): the first octet of a buffer is the length of some packet, since
  only whole packets start there, and listeners that relay at once count at most one octet
  each before the next header is extracted (`Grown`). `DeathOfOverlap` is an action property:
  no header has a negative length, whoever shares the arrays, and no undisturbed payload has. What
  comes after that, the handler, may always be the end of the router (`HandlerDies`).
* **`NextHopQueryProofs`** (any connected network, any number of listeners, any lists of
  destinations, any record and any octets behind the arrays). A clean map is the network:
  vertices are nodes, edges are links (`CleanEdges`), so that any solution of Dijkstra's
  equations is `Dist`. `DistancesClean` shows that by a least counterexample on either side,
  which stands in for the induction over the distance. Each predecessor is one link nearer, so a
  walk back stays on a shortest path (`OnPath`) and has not come to a vertex that is its own
  predecessor before the router, and every id has a vertex: `WalksEnd`. The vertex before the
  router is then a neighbour one link nearer to where the walk began: `TablesOfCleanMap`. Calls
  enter the possible next hops of a destination in one and the same order, whoever enters them
  (`Entered`), and every entry that a call needs is there or still to be written by that call,
  unless insertions raced (`Unraced`). Hence a scan finds all the combinations; the first of the
  least cost in the order of the loops is the one that `NextHops` calls `Best` (`ScanIsBest`):
  `Answers`. `Entered` has to speak of all the calls at once: a scan tries what others have left
  for its destinations, too. `RaceOver` is an action property: an insertion that begins is one
  of an entry that its destination lacks, and the entries are never more than the choices.
* **`ForwardingProofs`** (any connected network, any trial packets). `NoForwardingLoop`: for
  each copy, the links it has crossed plus the distance of where it is from all its destinations
  taken together is at most that distance at its source, as long as no packet of that source has
  gone astray. The lemma `BestProgress` is the argument: replacing all the next hops of one part
  by a first node of a shortest path would be a combination that was tried too, so the least
  cost is low enough for each part to get nearer in all, though a single destination of it may
  not. This is why the missing check of the TTL does no harm here, and why the weight of the
  links alone (the mutant of `Cost`) would not do. `DeliveredOnce`, on a network without
  parallel links: the copies that a router sends share out the destinations, so there is at most
  one on its way to each (`Single`), also for a destination that a packet names twice: two ways
  to it would cost more than the better of them (`Merge`).

How the theorems fit together: `LastPort` is `ServedAssumption` of `Discovery`;
`LinkStateTreeProofs!Outward` is why the assumption `Outward` of `MapBuild` holds on a tree;
`TablesOfCleanMap` and `Answers` give `Forwarding` the choice that `NoForwardingLoop` and
`DeliveredOnce` rest on.

Every safety invariant and every action property that a passing run checks is stated by a
theorem. Only model-checked are the liveness properties: `ThreadsGetThere`, `RoundsGoOn`,
`AllDiscovered`, `EveryMapBuilt`, `FloodDies`, `Settles`, `EveryDestServed`. Assumed and not
proved are the assumptions about Boost's Dijkstra (`DijkstraAssumption`, `Distances`,
`Predecessors`). That `Distances` has a solution at all takes an induction over the graph
and is left to TLC: `Settles` fails where a step of the tables cannot be taken.

## 5. Plan

Done, in the order of importance: `ThreadIndex`, `LinkState`, `LinkStateTree`, `Discovery`,
`MapBuild`, `Forwarding`; then the timers and the limit of threads, `Dissemination` and its
refinement, `RouteTables`, `NextHopQuery` and `Ports`, their runs, and theorems for every
safety property of the passing runs.

What is left are statements between modules, in this order:

1. `MapBuild`: listeners that record one at a time implement the single step that
   `LinkState` makes of the handler (`ExtractLsInfo`).
2. `ThreadIndex` and `Discovery`: `LastPort` as the source of `ServedAssumption`, by a lemma.
3. `Ports`: undisturbed threads implement a queue that loses nothing.

## 6. Not modelled

* Boost (vendored): 99.9% of the lines of the tree, so that the share of all its lines that the
  models cover is next to nothing. Of the router itself, the models cover all that changes
  state.
* `routing.cpp`, `host1.cpp`, `newport1.h`, `deneme.cpp`, `boost_deneme.cpp`: drafts and trials
  that the Makefile's `final` does not use.
* The topology reader: sequential parsing; its result is a constant. The fall-through of its
  switch (336-341) stores each field in all the later ones first and ends with the right values.
* Address conversion, socket options and the exceptions of failing system calls;
  `LossyReceivingPort` (never instantiated), the setters and getters of integers in a header
  (never called), print functions.
* `wait_for_all_threads`, `stopTimer` and `simple_exp` (never called).
* A data packet's copies over the ports of `Ports`: the split by next hop is in `Forwarding`.
