------------------------------ MODULE LinkState ------------------------------
(***************************************************************************)
(* Link-state flooding: how each router collects the neighbour lists of    *)
(* all the others and then builds its map of the network.                  *)
(*                                                                         *)
(* Every router sends a link-state packet (LSP) with its neighbours over   *)
(* each of its ports, and sends it again at every expiry of a timer that   *)
(* never stops.  A router that receives an LSP records the neighbours it   *)
(* lists unless it knows the source already, and passes the LSP on, known  *)
(* or not, over every port but the one it came by, until its TTL is zero.  *)
(* The map is built when as many sources are recorded as the topology file *)
(* has other nodes; ls_seq_num is counted but never sent, so no receiver   *)
(* can tell a repeated LSP from a new one.                                 *)
(*                                                                         *)
(* A port is one line of the topology file.  A router listens, records and *)
(* passes on from the start of its listening threads on, while it opens    *)
(* its sending ports one after the other, and sends its own LSP once it    *)
(* has discovered its neighbours (Discovery).  Its process may end at any  *)
(* time.                                                                   *)
(*                                                                         *)
(* The handler of a datagram is one step here; what the listeners of one   *)
(* router do to each other inside it is the subject of MapBuild.           *)
(***************************************************************************)
EXTENDS Integers, FiniteSets, Sequences, Functions

CONSTANTS
  Node,        \* router ids
  Port,        \* lines of the topology file: the ports of all the routers
  Owner,       \* Owner[p]: the router that has port p
  Peer,        \* Peer[p]: the port at the other end of p's link
  Line,        \* Line[p]: the line of the topology file that p is
  Served,      \* receiving ports that have a listening thread (see ThreadIndex)
  Originator,  \* routers whose sending threads run (all of them, or some)
  InitialTTL,  \* TTL of a new LSP: '8' in the code
  MaxLosses,   \* bound on the datagrams that get lost
  MaxDeaths    \* bound on the routers that die

ASSUME NodeAssumption == IsFiniteSet(Node)
ASSUME LinkAssumption ==
  /\ Owner \in [Port -> Node]
  /\ Peer \in [Port -> Port]
  /\ \A p \in Port : Peer[Peer[p]] = p /\ Owner[Peer[p]] # Owner[p]
ASSUME FileAssumption ==
  Line \in [Port -> Nat] /\ \A p, q \in Port : Line[p] = Line[q] => p = q
ASSUME ServedAssumption == Served \subseteq Port
ASSUME OriginatorAssumption == Originator \subseteq Node
ASSUME InitialTTLAssumption == InitialTTL \in Nat
ASSUME MaxLossesAssumption == MaxLosses \in Nat
ASSUME MaxDeathsAssumption == MaxDeaths \in Nat

VARIABLES
  net,                 \* net[p]: LSPs on their way to port p
  graph_name,          \* graph_name[r]: sources recorded, in order of arrival
  netnode_nhops,       \* netnode_nhops[r]: nodes whose neighbours are recorded
  num_of_total_nodes,  \* what r compares the number of sources with
  built,               \* built[r]: build_map has run
  opened,              \* sending ports that are open
  dead,                \* routers whose process has ended
  losses               \* datagrams lost so far

known == <<graph_name, netnode_nhops, num_of_total_nodes, built>>
vars == <<net, known, opened, dead, losses>>

\* The header of an LSP.  The neighbours it lists are those of its source.
LSP == [src : Node, ttl : 0 .. InitialTTL]

PortsOf(r) == {p \in Port : Owner[p] = r}
Neighbors(r) == {Owner[Peer[p]] : p \in PortsOf(r)}
Names(r) == Range(graph_name[r])

\* The ports of p's router that come before p in the file, and its last port.
Earlier(p) == {q \in PortsOf(Owner[p]) : Line[q] < Line[p]}
IsLast(p) == \A q \in PortsOf(Owner[p]) : Line[q] <= Line[p]

TypeOK ==
  /\ net \in [Port -> SUBSET LSP]
  /\ graph_name \in [Node -> Seq(Node)]
  /\ netnode_nhops \in [Node -> SUBSET Node]
  /\ num_of_total_nodes \in [Node -> Nat]
  /\ built \in [Node -> BOOLEAN]
  /\ opened \subseteq Port
  /\ dead \subseteq Node
  /\ losses \in 0 .. MaxLosses

Init_OneShort ==
  /\ net = [p \in Port |-> {}]
  /\ graph_name = [r \in Node |-> <<>>]
  /\ netnode_nhops = [r \in Node |-> {}]
  /\ num_of_total_nodes = [r \in Node |-> Cardinality(Node) - 2]
  /\ built = [r \in Node |-> FALSE]
  /\ opened = {}
  /\ dead = {}
  /\ losses = 0

\* num_of_total_nodes leaves the router itself out until it builds the map.
Init ==
  /\ net = [p \in Port |-> {}]
  /\ graph_name = [r \in Node |-> <<>>]
  /\ netnode_nhops = [r \in Node |-> {}]
  /\ num_of_total_nodes = [r \in Node |-> Cardinality(Node) - 1]
  /\ built = [r \in Node |-> FALSE]
  /\ opened = {}
  /\ dead = {}
  /\ losses = 0

-----------------------------------------------------------------------------
\* The constructor opens the sending ports in the order of the file.
OpenTx(p) ==
  /\ Owner[p] \notin dead
  /\ p \notin opened /\ Earlier(p) \subseteq opened
  /\ opened' = opened \cup {p}
  /\ UNCHANGED <<net, known, dead, losses>>

\* What the end of discovery presupposes: r has opened its ports, and some link to
\* each neighbour has listeners at both ends and an open sending port at the other
\* (theorems NotWithoutListeners and SocketsBound of DiscoveryProofs).
Discovered(r) ==
  /\ PortsOf(r) \subseteq opened
  /\ \A n \in Neighbors(r) : \E p \in PortsOf(r) :
       Owner[Peer[p]] = n /\ {p, Peer[p]} \subseteq Served /\ Peer[p] \in opened

\* A sending thread of Owner[p] sends its LSP over p, at first or after a timer.
Originate(p) ==
  /\ Owner[p] \in Originator \ dead
  /\ Discovered(Owner[p])
  /\ net' = [net EXCEPT ![Peer[p]] = @ \cup {[src |-> Owner[p], ttl |-> InitialTTL]}]
  /\ UNCHANGED <<known, opened, dead, losses>>

\* extract_ls_info of router r: record the source unless it is recorded, and
\* build the map, which adds r itself to it, when the count is reached.
ExtractLsInfo_NoFind(r, src) ==
  LET complete == Len(graph_name[r]) + 1 = num_of_total_nodes[r]
  IN  /\ graph_name' = [graph_name EXCEPT ![r] =
                          @ \o IF complete THEN <<src, r>> ELSE <<src>>]
      /\ netnode_nhops' = [netnode_nhops EXCEPT ![r] =
                             @ \cup IF complete THEN {src, r} ELSE {src}]
      /\ num_of_total_nodes' = [num_of_total_nodes EXCEPT ![r] =
                                  IF complete THEN @ + 1 ELSE @]
      /\ built' = [built EXCEPT ![r] = @ \/ complete]

ExtractLsInfo(r, src) ==
  IF src \in Names(r)
  THEN UNCHANGED known
  ELSE LET complete == Len(graph_name[r]) + 1 = num_of_total_nodes[r]
       IN  /\ graph_name' = [graph_name EXCEPT ![r] =
                               @ \o IF complete THEN <<src, r>> ELSE <<src>>]
           /\ netnode_nhops' = [netnode_nhops EXCEPT ![r] =
                                  @ \cup IF complete THEN {src, r} ELSE {src}]
           /\ num_of_total_nodes' = [num_of_total_nodes EXCEPT ![r] =
                                       IF complete THEN @ + 1 ELSE @]
           /\ built' = [built EXCEPT ![r] = @ \/ complete]

OnwardPorts_All == [p \in Port |-> {Peer[o] : o \in PortsOf(Owner[p])}]

\* Where the router of port p sends what comes in by p: all its other ports.
OnwardPorts == [p \in Port |-> {Peer[o] : o \in PortsOf(Owner[p]) \ {p}}]

Forwarded_KeepsTTL(m) == IF m.ttl = 0 THEN {} ELSE {m}
Forwarded_Unchecked(m) == {[m EXCEPT !.ttl = @ - 1]}
Forwarded_StopsEarly(m) == IF m.ttl <= 1 THEN {} ELSE {[m EXCEPT !.ttl = @ - 1]}

\* What a router sends on of an LSP it handles.
Forwarded(m) == IF m.ttl = 0 THEN {} ELSE {[m EXCEPT !.ttl = @ - 1]}

\* The listener of port p handles an LSP.  It goes on over the sending ports that
\* are open; one that is not is read uninitialised, and either nothing more is sent
\* or the process dies of it.
Receive(p, m) ==
  /\ Owner[p] \notin dead /\ p \in Served
  /\ m \in net[p]
  /\ ExtractLsInfo(Owner[p], m.src)
  /\ net' = [q \in Port |->
               IF q = p THEN net[q] \ {m}
               ELSE IF q \in OnwardPorts[p] /\ Peer[q] \in opened THEN net[q] \cup Forwarded(m)
               ELSE net[q]]
  /\ \/ UNCHANGED dead
     \/ /\ Forwarded(m) # {} /\ \E q \in OnwardPorts[p] : Peer[q] \notin opened
        /\ Cardinality(dead) < MaxDeaths
        /\ dead' = dead \cup {Owner[p]}
  /\ UNCHANGED <<opened, losses>>

\* The process of r ends: it runs out of threads (ThreadIndex), or dies of a Hello
\* that comes too early (Discovery) or of a datagram (Ports).
Dies(r) ==
  /\ r \notin dead
  /\ Cardinality(dead) < MaxDeaths
  /\ dead' = dead \cup {r}
  /\ UNCHANGED <<net, known, opened, losses>>

\* A datagram for a socket that is closed, or may not be bound yet, disappears ...
Unreachable(p, m) ==
  /\ m \in net[p]
  /\ Owner[p] \in dead \/ PortsOf(Owner[p]) \cap opened = {}
  /\ net' = [net EXCEPT ![p] = @ \ {m}]
  /\ UNCHANGED <<known, opened, dead, losses>>

\* ... and so may any other: UDP.
Lose(p, m) ==
  /\ losses < MaxLosses
  /\ m \in net[p]
  /\ net' = [net EXCEPT ![p] = @ \ {m}]
  /\ losses' = losses + 1
  /\ UNCHANGED <<known, opened, dead>>

Next ==
  \/ \E p \in Port : OpenTx(p) \/ Originate(p)
  \/ \E p \in Port : \E m \in net[p] : Receive(p, m) \/ Unreachable(p, m) \/ Lose(p, m)
  \/ \E r \in Node : Dies(r)

Spec == Init /\ [][Next]_vars

\* A datagram that is not lost is handled, where there is a listener, or disappears.
DeliverySpec ==
  /\ Spec
  /\ \A p \in Served, x \in Node :
       WF_vars(\E m \in net[p] : m.src = x /\ (Receive(p, m) \/ Unreachable(p, m)))

\* Besides, the constructors go on, and so do the timers, whose rounds serve the last
\* port of a router again and again (theorem LastPort of ThreadIndexProofs).
FairSpec ==
  /\ DeliverySpec
  /\ \A p \in Port : WF_vars(OpenTx(p))
  /\ \A p \in Port : IsLast(p) => WF_vars(Originate(p))

-----------------------------------------------------------------------------
(* Properties.                                                             *)

\* Chains of k links, and the pairs of nodes that they lead from and to.
Linked(x, y) == \E p \in Port : Owner[p] = x /\ Owner[Peer[p]] = y
Chains(k) == {c \in [0 .. k -> Node] : \A i \in 1 .. k : Linked(c[i - 1], c[i])}
Away == [k \in 0 .. InitialTTL + 1 |-> {<<c[0], c[k]>> : c \in Chains(k)}]

\* The TTL is the distance the LSP has left, on any topology: an LSP has crossed a
\* link more than its TTL has gone down, and none is recorded by a router that is
\* more than InitialTTL + 1 links away from its source (router.cpp:413-418).
TTLBoundsReach ==
  /\ \A p \in Port : \A m \in net[p] :
       <<m.src, Owner[p]>> \in Away[InitialTTL - m.ttl + 1]
  /\ \A r \in Node : \A x \in Names(r) :
       \E k \in 0 .. InitialTTL + 1 : <<x, r>> \in Away[k]

\* A map is built from every node exactly once: "CONNECTIVITY INFO FROM EACH NODE
\* IS EXTRACTED" (router.cpp:466-469), so that every neighbour named in it has a
\* vertex (the unchecked find() of 219-220).
CompleteMap ==
  \A r \in Node : built[r] =>
    /\ Len(graph_name[r]) = Cardinality(Node)
    /\ Names(r) = Node
    /\ netnode_nhops[r] = Node

\* A map that has been built never changes: no late LSP adds a name (router.cpp:445).
MapFrozen ==
  [][\A r \in Node : built[r] => built'[r] /\ graph_name'[r] = graph_name[r]]_vars

\* Where each port has a listener, a router builds its map in the end, once the
\* rounds of the other routers come to serve each of their ports, which for a port
\* that is not the last the thread indices leave open: however many LSPs are lost,
\* are relayed before the ports are open (router.cpp:617) or come before a socket is
\* bound, unless a router dies.
EveryMapBuilt ==
  \A r \in Node :
    (Served = Port /\ \A p \in Port \ PortsOf(r) : WF_vars(Originate(p)))
      => <>(built[r] \/ dead # {})

\* A flood that nothing feeds any more dies out, though no router suppresses
\* duplicates: if the LSPs stop being sent, the network drains (router.cpp:413).
FloodDies ==
  <>[][\A p \in Port : ~Originate(p)]_vars => <>[](\A p \in Served : net[p] = {})
=============================================================================
