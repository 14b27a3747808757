------------------------------ MODULE NextHops ------------------------------
(***************************************************************************)
(* The choice of next hops for the destinations of a packet, as a function *)
(* of the network: what forward_to_port works out of tables that are right.*)
(*                                                                         *)
(* For one destination the next hop is the first node of Dijkstra's path;  *)
(* for more, every combination of possible next hops is tried, and the     *)
(* first of the least cost is taken.  How the tables come to be right, and *)
(* what listeners that choose at once do to each other, is the subject of  *)
(* RouteTables and NextHopQuery; Forwarding uses the choice.               *)
(***************************************************************************)
EXTENDS Integers, FiniteSets, Sequences, Functions

CONSTANTS
  Node,       \* router ids
  NoNode,     \* an empty slot of a packet, or no next hop
  Port,       \* lines of the topology file: the ports of all the routers
  Owner,      \* Owner[p]: the router that has port p
  Peer,       \* Peer[p]: the port at the other end of p's link
  Dist,       \* Dist[x][y]: length of a shortest path from x to y
  First,      \* First[x][y]: the node after x on the path that Dijkstra keeps
  Letter      \* the order of the ids, which std::map iterates in

PortsOf(r) == {p \in Port : Owner[p] = r}
Neighbors(r) == {Owner[Peer[p]] : p \in PortsOf(r)}

\* The places for destinations in a packet: "at most 3 MC receivers".
Slot == 1 .. 3
DestList == [Slot -> Node \cup {NoNode}]
NoDests == [i \in Slot |-> NoNode]
Dests(ds) == Range(ds) \ {NoNode}

ASSUME NodeAssumption == NoNode \notin Node
ASSUME LinkAssumption ==
  /\ Owner \in [Port -> Node]
  /\ Peer \in [Port -> Port]
  /\ \A p \in Port : Peer[Peer[p]] = p /\ Owner[Peer[p]] # Owner[p]
ASSUME DijkstraAssumption ==
  /\ Dist \in [Node -> [Node -> Nat]]
  /\ First \in [Node -> [Node -> Node]]
  /\ \A x, y \in Node :
       /\ x = y => Dist[x][y] = 0
       /\ x # y => First[x][y] \in Neighbors(x) /\ Dist[x][y] = Dist[First[x][y]][y] + 1
       /\ \A n \in Neighbors(x) : Dist[x][y] <= Dist[n][y] + 1
ASSUME LetterAssumption ==
  Letter \in [Node -> Nat] /\ \A x, y \in Node : Letter[x] = Letter[y] => x = y

-----------------------------------------------------------------------------
Sum(t) == t[1] + t[2] + t[3]

\* The next hops from which d is no further than it is from r.
Possible(r, d) == {n \in Neighbors(r) : Dist[r][d] >= Dist[n][d]}

\* One possible next hop for each destination.
Combinations(r, ds) ==
  {f \in [Slot -> Neighbors(r) \cup {NoNode}] :
     \A i \in Slot : IF ds[i] = NoNode THEN f[i] = NoNode
                                       ELSE f[i] \in Possible(r, ds[i])}

\* A next hop is paid for once, where it is first used.
LinkCost(f, i) == IF \E j \in 1 .. i - 1 : f[j] = f[i] THEN 0 ELSE 1

Cost_LinksOnly(ds, f) ==
  Sum([i \in Slot |-> IF ds[i] = NoNode THEN 0 ELSE LinkCost(f, i)])

Cost(ds, f) ==
  Sum([i \in Slot |-> IF ds[i] = NoNode THEN 0
                                        ELSE Dist[f[i]][ds[i]] + LinkCost(f, i)])

\* The loops try combination f before g.
TriedBefore(ds, f, g) ==
  \E i \in Slot : /\ ds[i] # NoNode
                  /\ Letter[f[i]] < Letter[g[i]]
                  /\ \A j \in 1 .. i - 1 : f[j] = g[j]

\* What min_indexes is when the loops end.
Best(r, ds) ==
  LET tried == Combinations(r, ds)
  IN  {f \in tried :
         \A g \in tried \ {f} :
           \/ Cost(ds, f) < Cost(ds, g)
           \/ Cost(ds, f) = Cost(ds, g) /\ TriedBefore(ds, f, g)}

Unicast(ds) == Cardinality({i \in Slot : ds[i] # NoNode}) = 1

\* forward_to_port: the next hops of the destinations.
NextHops(r, ds) ==
  IF Unicast(ds)
  THEN {[i \in Slot |-> IF ds[i] = NoNode THEN NoNode ELSE First[r][ds[i]]]}
  ELSE Best(r, ds)
=============================================================================
