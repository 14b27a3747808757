----------------------------- MODULE RouteTables -----------------------------
(***************************************************************************)
(* build_map: how one router turns the neighbour lists it has recorded     *)
(* into a graph, and the graph into the tables that next hops are chosen   *)
(* from.                                                                   *)
(*                                                                         *)
(* The ids are copied to a char array that nothing terminates, and so are  *)
(* the router's own neighbours: strlen may find more octets behind them,   *)
(* each of which becomes a vertex, or an edge.  An id that no vertex has   *)
(* is looked up in vname_vindex all the same, and its find() == end() is   *)
(* read as if it were an entry: a number that may be a vertex or not.      *)
(* run_dijkstra then walks from each vertex back to the source, twice: to  *)
(* print the path and to note the first hop. The walk has no other end     *)
(* than the source.                                                        *)
(*                                                                         *)
(* Boost's Dijkstra is external: least distances, the predecessor of each  *)
(* vertex on some shortest path, and itself for one that is not reached.   *)
(***************************************************************************)
EXTENDS NextHops

CONSTANTS
  Self,      \* the router
  NbrTbl,    \* nbr_tbl: the neighbours at its ports, in the order of its file
  Junk,      \* an octet that is no id
  Recorded,  \* what may be recorded when build_map is called: the sources in
             \* order, and those whose lists are in netnode_nhops
  Tails,     \* octets that strlen may find behind an array without terminator
  MaxGrown   \* bound: vertices of a graph that has grown

NumNodes == Cardinality(Node)
\* The distance of what is not reached: longer than any path.  Costs are doubles,
\* so that adding to it does not overflow.
INT_MAX == 100 * NumNodes

\* build_map is called by a listener, at some port.
ASSUME SelfAssumption ==
  /\ IsFiniteSet(Node) /\ Self \in Node /\ Junk \notin Node
  /\ NbrTbl \in Seq(Node) \ {<<>>} /\ Range(NbrTbl) = Neighbors(Self)
\* Distinct sources, one less than there are nodes (LinkState); the lists of some
\* of them may be missing (MapBuild).
ASSUME RecordedAssumption ==
  \A m \in Recorded :
    /\ m.names \in Seq(Node) /\ Len(m.names) = NumNodes - 1
    /\ \A i, j \in DOMAIN m.names : m.names[i] = m.names[j] => i = j
    /\ m.lists \subseteq Range(m.names)
ASSUME MaxGrownAssumption == MaxGrown \in Nat
ASSUME TailsAssumption == \A t \in Tails : t \in Seq(Node \cup {Junk})

VARIABLES
  graph_name,      \* ids in the order in which they were recorded
  netnode_nhops,   \* netnode_nhops[x]: the ids that x lists, by x
  pc,              \* where the listener that builds the map is; "dead" if that was the end
                   \* of the router, "killed" if another listener was
  names,           \* final_graph_name, as far as there are vertices: vertex 0 first
  edges,           \* edge_array
  pred, dist,      \* p and d of the last run of Dijkstra
  vi,              \* the vertex whose path is being walked
  current, temp,   \* how far the walk back has come, and where it was before
  dest_dist, dest_port, nhop_dest_dist  \* the tables

tables == <<dest_dist, dest_port, nhop_dest_dist>>
walk == <<vi, current, temp>>
graph == <<graph_name, netnode_nhops, names, edges>>
mapVars == <<graph, pc, pred, dist, walk, tables>>

Id == Node \cup {Junk}
Vertices == 0 .. Len(names) - 1
NameOf(v) == names[v + 1]

TypeOK ==
  /\ graph_name \in Seq(Node) /\ Len(graph_name) \in {NumNodes - 1, NumNodes}
  /\ DOMAIN netnode_nhops \subseteq Node
  /\ \A x \in DOMAIN netnode_nhops : netnode_nhops[x] \subseteq Id
  /\ pc \in {"copy", "graph", "publish", "dijkstra", "print", "port", "nhop", "done",
            "dead", "killed"}
  /\ names \in Seq(Id)
  /\ edges \subseteq Vertices \X Vertices
  /\ DOMAIN dist = DOMAIN pred
  /\ \A v \in DOMAIN dist : dist[v] \in Vertices \cup {INT_MAX} /\ pred[v] \in Vertices
  /\ pc \in {"print", "port"} => {vi, current, temp} \subseteq Vertices
  /\ \A c \in DOMAIN dest_dist : c \in Id /\ dest_dist[c] \in Vertices \cup {INT_MAX}
  /\ \A c \in DOMAIN dest_port : c \in Id /\ dest_port[c] \in 0 .. Len(NbrTbl)
  /\ DOMAIN nhop_dest_dist \subseteq Range(NbrTbl)

BuildInit ==
  /\ \E m \in Recorded :
       /\ graph_name = m.names
       /\ netnode_nhops = [x \in m.lists |-> Neighbors(x)]
  /\ pc = "copy"
  /\ names = <<>> /\ edges = {}
  /\ pred = <<>> /\ dist = <<>>
  /\ vi = 0 /\ current = 0 /\ temp = 0
  /\ dest_dist = <<>> /\ dest_port = <<>> /\ nhop_dest_dist = <<>>

-----------------------------------------------------------------------------
(* The graph.                                                              *)

\* nhop_port: of several ports to a neighbour, insert() keeps the first.
NhopPort ==
  [n \in Range(NbrTbl) |-> CHOOSE i \in DOMAIN NbrTbl :
     NbrTbl[i] = n /\ \A j \in 1 .. i - 1 : NbrTbl[j] # n]

\* vname_vindex: of several vertices with a name, insert() keeps the first; what
\* find() == end() gives is w.
VertexOf(c, w) ==
  IF c \in Range(names)
  THEN CHOOSE v \in Vertices : NameOf(v) = c /\ \A u \in 0 .. v - 1 : NameOf(u) # c
  ELSE w

CopyMap_NoOwnList ==
  /\ pc = "copy"
  /\ graph_name' = Append(graph_name, Self)
  /\ \E t \in Tails : names' = graph_name' \o t
  /\ pc' = "graph"
  /\ UNCHANGED <<netnode_nhops, edges, pred, dist, walk, tables>>

\* The router adds itself and its own neighbours, which insert() leaves out if
\* its own LSP has been recorded, and copies the ids.
CopyMap ==
  /\ pc = "copy"
  /\ graph_name' = Append(graph_name, Self)
  /\ IF Self \in DOMAIN netnode_nhops
     THEN netnode_nhops' = netnode_nhops
     ELSE \E t \in Tails :
            netnode_nhops' = [x \in DOMAIN netnode_nhops \cup {Self} |->
                                IF x = Self THEN Neighbors(Self) \cup Range(t)
                                            ELSE netnode_nhops[x]]
  /\ \E t \in Tails : names' = graph_name' \o t
  /\ pc' = "graph"
  /\ UNCHANGED <<edges, pred, dist, walk, tables>>

\* An edge for each neighbour that each node lists; w is what find() == end() gives.
EdgesBy(w) ==
  UNION {{<<VertexOf(x, w), VertexOf(y, w)>> : y \in netnode_nhops[x]} :
           x \in DOMAIN netnode_nhops}

BuildGraph ==
  /\ pc = "graph"
  /\ \E w \in Vertices : edges' = EdgesBy(w)
  /\ pc' = "publish"
  /\ UNCHANGED <<graph_name, netnode_nhops, names, pred, dist, walk, tables>>

AllKnown == \A x \in DOMAIN netnode_nhops : netnode_nhops[x] \cup {x} \subseteq Range(names)

\* Where it gives no vertex, the graph gets more of them, and octets behind the array
\* for their names: the next one, or one with others between that no edge leads to ...
BuildGraphGrown ==
  /\ pc = "graph" /\ ~AllKnown
  /\ \E k \in 1 .. 2 :
       /\ Len(names) + k <= MaxGrown
       /\ edges' = EdgesBy(Len(names) + k - 1)
       /\ names' = names \o [i \in 1 .. k |-> Junk]
  /\ pc' = "publish"
  /\ UNCHANGED <<graph_name, netnode_nhops, pred, dist, walk, tables>>

\* ... or, of a number that is negative or too large, an exception.
BuildGraphThrows ==
  /\ pc = "graph" /\ ~AllKnown
  /\ pc' = "dead"
  /\ UNCHANGED <<graph, pred, dist, walk, tables>>

\* ftf_p = new ...: from here on listeners find tables, which are empty yet.
Publish ==
  /\ pc = "publish"
  /\ pc' = "dijkstra"
  /\ UNCHANGED <<graph, pred, dist, walk, tables>>

Published == pc \in {"dijkstra", "print", "port", "nhop", "done"}

-----------------------------------------------------------------------------
(* The tables.                                                             *)

\* dijkstra_shortest_paths with all the weights 1: no edge leads any further than one
\* from what is reached, and to each vertex that is reached an edge leads from nearer.
Distances(s) ==
  {d \in [Vertices -> Vertices \cup {INT_MAX}] :
     /\ d[s] = 0
     /\ \A e \in edges : d[e[1]] # INT_MAX => d[e[2]] # INT_MAX /\ d[e[2]] <= d[e[1]] + 1
     /\ \A v \in Vertices \ {s} :
          d[v] # INT_MAX => \E e \in edges : e[2] = v /\ d[v] = d[e[1]] + 1}

Predecessors(s, d) ==
  {p \in [Vertices -> Vertices] :
     \A v \in Vertices :
       IF v = s \/ d[v] = INT_MAX THEN p[v] = v
       ELSE <<p[v], v>> \in edges /\ d[p[v]] + 1 = d[v]}

Source == VertexOf(Self, 0)

\* Starts the walk back from vertex v, in the pass of run_dijkstra named by step.
WalkFrom(v, step) == pc' = step /\ vi' = v /\ current' = v /\ temp' = v

NextWalk_SameVertex(next) == WalkFrom(vi, pc)
NextWalk_PastEnd(next) ==
  IF vi + 1 <= Len(names) THEN WalkFrom(vi + 1, pc) ELSE WalkFrom(0, next)

\* The next vertex of this pass, or the first one of the next.
NextWalk(next) ==
  IF vi + 1 \in Vertices THEN WalkFrom(vi + 1, pc) ELSE WalkFrom(0, next)

\* run_dijkstra up to the loop that prints the paths: insert() keeps the distance
\* of the first vertex with a name.
FillDist ==
  /\ pc = "dijkstra"
  /\ dist' \in Distances(Source)
  /\ pred' \in Predecessors(Source, dist')
  /\ dest_dist' = [c \in Range(names) |-> dist'[VertexOf(c, 0)]]
  /\ WalkFrom(0, "print")
  /\ UNCHANGED <<graph, dest_port, nhop_dest_dist>>

StepBack ==
  /\ pc \in {"print", "port"}
  /\ current # Source /\ pred[current] # current
  /\ current' = pred[current]
  /\ temp' = current
  /\ UNCHANGED <<graph, pc, pred, dist, vi, tables>>

\* current stays where it is and is added to the path again and again, until
\* there is no memory for it: an exception that nothing catches.
PathNeverEnds ==
  /\ pc = "print"
  /\ current # Source /\ pred[current] = current
  /\ pc' = "dead"
  /\ UNCHANGED <<graph, pred, dist, walk, tables>>

PrintPath ==
  /\ pc = "print" /\ current = Source
  /\ NextWalk("port")
  /\ UNCHANGED <<graph, pred, dist, tables>>

\* The port to the first hop of the path; 0 is what nhop_port.find() == end()
\* gives, as for the router itself.
FillPort ==
  /\ pc = "port" /\ current = Source
  /\ LET port == IF NameOf(temp) \in DOMAIN NhopPort THEN NhopPort[NameOf(temp)] ELSE 0
     IN  dest_port' = [c \in DOMAIN dest_port \cup {NameOf(vi)} |->
                         IF c \in DOMAIN dest_port THEN dest_port[c] ELSE port]
  /\ NextWalk("nhop")
  /\ UNCHANGED <<graph, pred, dist, dest_dist, nhop_dest_dist>>

\* The next neighbour in the order of nhop_port.
NextNeighbor ==
  CHOOSE n \in DOMAIN NhopPort \ DOMAIN nhop_dest_dist :
    \A m \in DOMAIN NhopPort \ DOMAIN nhop_dest_dist : Letter[n] <= Letter[m]

\* The last of the vertices with name c.
LastVertexOf(c) == CHOOSE v \in Vertices : NameOf(v) = c /\ \A u \in v + 1 .. Len(names) - 1 : NameOf(u) # c

\* The row of the next neighbour, of distances from vertex s: operator[] keeps that
\* of the last vertex with a name.
FillRow(s) ==
  /\ dist' \in Distances(s)
  /\ nhop_dest_dist' = [n \in DOMAIN nhop_dest_dist \cup {NextNeighbor} |->
       IF n \in DOMAIN nhop_dest_dist THEN nhop_dest_dist[n]
       ELSE [c \in Range(names) |-> dist'[LastVertexOf(c)]]]
  /\ pc' = IF DOMAIN nhop_dest_dist' = DOMAIN NhopPort THEN "done" ELSE pc
  /\ UNCHANGED <<graph, pred, walk, dest_dist, dest_port>>

FillNhop_FromSelf == pc = "nhop" /\ FillRow(Source)

\* Dijkstra again from each neighbour.
FillNhop == pc = "nhop" /\ \E s \in {VertexOf(NextNeighbor, w) : w \in Vertices} : FillRow(s)

\* A neighbour that has no vertex: distances are written behind the arrays.
FillNhopDies ==
  /\ pc = "nhop" /\ NextNeighbor \notin Range(names)
  /\ pc' = "dead"
  /\ UNCHANGED <<graph, pred, dist, walk, tables>>

BuildStep ==
  \/ CopyMap \/ BuildGraph \/ BuildGraphGrown \/ BuildGraphThrows \/ Publish
  \/ FillDist \/ StepBack \/ PathNeverEnds \/ PrintPath \/ FillPort
  \/ FillNhop \/ FillNhopDies

-----------------------------------------------------------------------------
(* Properties.                                                             *)

\* Every other node is recorded with its list, and nothing is behind the arrays.
Clean ==
  /\ Range(graph_name) = Node /\ names = graph_name
  /\ Node \ {Self} \subseteq DOMAIN netnode_nhops
  /\ \A x \in DOMAIN netnode_nhops : netnode_nhops[x] = Neighbors(x)

\* Tables made from a clean map are what NextHops assumes of Dijkstra: distances
\* from the router and from each neighbour, and for each other node a port to a
\* neighbour that is one link nearer to it (forwarding_table_filler.h:153-229).
TablesRight ==
  pc = "done" /\ Clean =>
    /\ dest_dist = Dist[Self]
    /\ nhop_dest_dist = [n \in Neighbors(Self) |-> Dist[n]]
    /\ \A d \in Node \ {Self} :
         /\ dest_port[d] \in DOMAIN NbrTbl
         /\ Dist[Self][d] = Dist[NbrTbl[dest_port[d]]][d] + 1

\* A router with a clean map never gets stuck on a walk or looks for an id in vain: it
\* only dies of a vertex that nothing leads to or an id without one, of a node whose
\* list is missing, of its own id recorded twice, or of an octet behind an array
\* (router.cpp:205, 223-224, 437; forwarding_table_filler.h:178, 213).
CleanSurvives == pc = "dead" => ~Clean

\* The tables get filled, or the router dies trying.
Settles == <>(pc \in {"done", "dead", "killed"})
=============================================================================
