------------------------- MODULE NextHopQueryProofs -------------------------
(***************************************************************************)
(* Proofs about RouteTables and NextHopQuery, for any connected network,   *)
(* any number of listeners and any lists of destinations.                  *)
(*                                                                         *)
(* A clean map is the network: its vertices are the nodes and its edges    *)
(* the links, so that what Dijkstra finds there is Dist, the walk back     *)
(* from a vertex ends at the router, and the tables are right (CleanMap).  *)
(* Calls that use them enter the choices they have for each destination,   *)
(* always in the same order (Entered); as long as no insertions race,      *)
(* each call finds at the end all it needs (Unraced), whoever has entered  *)
(* it, and the combination of least cost is the one that NextHops gives.   *)
(***************************************************************************)
EXTENDS NextHopQuery, TLAPS, FiniteSetTheorems, SequenceTheorems, WellFoundedInduction

-----------------------------------------------------------------------------
(* The inductive invariant.                                                *)

\* The next hops of d in the order in which the loops try them.
Choices(d) == InOrder(Possible(Self, d))

Entry == [dest : Node, index : Index, nhop : Range(NbrTbl)]

\* How far the map is, and what is set when.
Progress ==
  /\ Len(graph_name) = IF pc = "copy" THEN NumNodes - 1 ELSE NumNodes
  /\ pc = "copy" => names = <<>>
  /\ pc # "copy" => Self \in Range(names) /\ Self \in DOMAIN netnode_nhops
  /\ pc \in {"print", "port", "nhop", "done"} => pred \in [Vertices -> Vertices]
  /\ pc \in {"print", "port", "nhop", "done"} => DOMAIN dest_dist = Range(names)
  /\ pc = "nhop" => DOMAIN nhop_dest_dist # Range(NbrTbl)
  /\ pc = "done" => DOMAIN nhop_dest_dist = Range(NbrTbl)
  /\ pc \in {"copy", "graph", "publish", "dijkstra", "print", "port"} => nhop_dest_dist = <<>>
  /\ pc \in {"copy", "graph", "publish", "dijkstra", "print"} => dest_port = <<>>
  /\ nhop_dest_dist \in [DOMAIN nhop_dest_dist -> [Range(names) -> Nat]]
  /\ pc = "port" => \A u \in 0 .. vi - 1 : NameOf(u) \in DOMAIN dest_port
  /\ pc \in {"nhop", "done"} => Range(names) \subseteq DOMAIN dest_port

\* The edges of a clean graph are the links.
CleanEdges == {e \in Vertices \X Vertices : NameOf(e[2]) \in Neighbors(NameOf(e[1]))}

\* What the walk back from vertex vi has come by lies on a shortest path.
OnPath(v) ==
  Dist[Self][NameOf(v)] + Dist[NameOf(v)][NameOf(vi)] <= Dist[Self][NameOf(vi)]

Towards(c, n) == Dist[Self][c] = Dist[n][c] + 1

\* What is true of a clean map as it is turned into tables.
CleanMap ==
  Clean =>
    /\ pc # "dead"
    /\ pc \in {"publish", "dijkstra", "print", "port", "nhop", "done"} => edges = CleanEdges
    /\ pc \in {"print", "port", "nhop", "done"} => dest_dist = Dist[Self]
    /\ pc \in {"print", "port"} =>
         /\ \A v \in Vertices \ {Source} :
              <<pred[v], v>> \in edges
              /\ Dist[Self][NameOf(pred[v])] + 1 = Dist[Self][NameOf(v)]
         /\ OnPath(current) /\ OnPath(temp)
         /\ (temp # Source /\ current = pred[temp]) \/ (current = vi /\ temp = vi)
    /\ \A c \in DOMAIN dest_port : c \in Node
         /\ (c # Self => dest_port[c] \in DOMAIN NbrTbl /\ Towards(c, NbrTbl[dest_port[c]]))
    /\ \A n \in DOMAIN nhop_dest_dist : nhop_dest_dist[n] = Dist[n]

MapInv == TypeOK /\ Progress /\ CleanMap

\* Where the call of listener t is.
CallOK(t) ==
  /\ pc = "copy" => at[t] = "idle"
  /\ at[t] \in {"fill", "scan"} => /\ pc \in {"done", "killed"}
                                   /\ asked[t] \in Query /\ ~Unicast(asked[t]) /\ Listed(asked[t])
  /\ at[t] = "answered" => asked[t] \in Query
  /\ at[t] = "fill" => /\ \A j \in DOMAIN todo[t] : todo[t][j].dest \in Dests(asked[t])
                       /\ span[t] # "scan" /\ (span[t] # "none" => todo[t] # <<>>)
  /\ at[t] = "scan" => span[t] = "scan"
  /\ at[t] \notin {"fill", "scan"} => span[t] = "none"

Calls ==
  /\ \A t \in Listener : CallOK(t)
  /\ pc = "copy" => \A d \in Node : dest_poss_nhop[d] = <<>>

\* What dest_poss_nhop holds, and what the calls still write there, are the choices.
Entered ==
  Clean /\ ~early =>
    /\ \A d \in Node : \A i \in DOMAIN dest_poss_nhop[d] :
         i \in DOMAIN Choices(d) /\ dest_poss_nhop[d][i] = Choices(d)[i]
    /\ \A t \in Listener : at[t] = "fill" => \A j \in DOMAIN todo[t] :
         LET e == todo[t][j]
         IN  e.index \in DOMAIN Choices(e.dest) /\ e.nhop = Choices(e.dest)[e.index]

\* What the call of t needs is there, or about to be written.
Provided(t) ==
  at[t] \in {"fill", "scan"} =>
    \A d \in Dests(asked[t]) : \A i \in DOMAIN Choices(d) :
      \/ i \in DOMAIN dest_poss_nhop[d]
      \/ /\ at[t] = "fill"
         /\ \E j \in DOMAIN todo[t] : todo[t][j].dest = d /\ todo[t][j].index = i

\* If the call of t is inserting a key, it is alone with the map.
Alone(t) ==
  span[t] = "insert" =>
    /\ \A u \in Listener \ {t} : span[u] = "none"
    /\ Head(todo[t]).index \notin DOMAIN dest_poss_nhop[Head(todo[t]).dest]

Unraced == Clean /\ ~early /\ ~raced => \A t \in Listener : Provided(t) /\ Alone(t)

QueryInv == QueryTypeOK /\ Calls /\ Entered /\ Unraced /\ AnswersRight

IInv == MapInv /\ QueryInv
-----------------------------------------------------------------------------
(* The network.                                                            *)

LEMMA LeastNumber ==
  ASSUME NEW T, T \subseteq Nat, T # {}
  PROVE  \E n \in T : \A m \in T : n <= m
<1>1. PICK n \in T : \A m \in T : ~(<<m, n>> \in OpToRel(<, Nat))
  BY NatLessThanWellFounded, WFMin
<1>2. \A m \in T : ~(m < n)
  BY <1>1 DEF OpToRel
<1>3. QED
  BY <1>2

\* Links lead both ways.
LEMMA NeighborFacts ==
  ASSUME NEW x \in Node, NEW y \in Neighbors(x)
  PROVE  y \in Node /\ x \in Neighbors(y) /\ x # y
<1>1. PICK p \in Port : Owner[p] = x /\ y = Owner[Peer[p]]
  BY DEF Neighbors, PortsOf
<1>2. Peer[p] \in Port /\ Owner[Peer[p]] = y /\ Peer[Peer[p]] = p /\ y \in Node /\ y # x
  BY <1>1, LinkAssumption
<1>3. x \in Neighbors(y)
  BY <1>1, <1>2 DEF Neighbors, PortsOf
<1>4. QED
  BY <1>2, <1>3

LEMMA DistFacts ==
  ASSUME NEW x \in Node, NEW y \in Node
  PROVE  /\ Dist[x][y] \in Nat /\ First[x][y] \in Node
         /\ x = y => Dist[x][y] = 0
         /\ x # y => First[x][y] \in Neighbors(x) /\ Dist[x][y] = Dist[First[x][y]][y] + 1
         /\ \A n \in Neighbors(x) : Dist[x][y] <= Dist[n][y] + 1
<1>1. Dist[x][y] \in Nat /\ First[x][y] \in Node
  BY DijkstraAssumption
<1>2. QED
  BY <1>1, DijkstraAssumption

\* A link at the far end makes a path one longer at most.
LEMMA LinkAtTheEnd ==
  ASSUME NEW x \in Node, NEW n \in Node, NEW y \in Neighbors(n)
  PROVE  Dist[x][y] <= Dist[x][n] + 1
<1> DEFINE Bad(a, k) == a \in Node /\ Dist[a][n] = k /\ ~(Dist[a][y] <= Dist[a][n] + 1)
           T == {k \in Nat : \E a \in Node : Bad(a, k)}
<1> SUFFICES ASSUME ~(Dist[x][y] <= Dist[x][n] + 1) PROVE FALSE
  OBVIOUS
<1>1. y \in Node /\ n \in Neighbors(y)
  BY NeighborFacts
<1>2. T \subseteq Nat /\ Dist[x][n] \in T
  BY DistFacts
<1>3. PICK k \in T : \A m \in T : k <= m
  BY <1>2, LeastNumber
<1>4. PICK a \in Node : Bad(a, k)
  BY <1>3
<1> DEFINE f == First[a][n]
<1>5. /\ Dist[a][y] \in Nat /\ Dist[a][n] \in Nat /\ Dist[n][y] \in Nat /\ Dist[y][y] = 0
      /\ Dist[n][n] = 0 /\ Dist[n][y] <= Dist[y][y] + 1
  BY <1>1, DistFacts
<1>6. a # n
  BY <1>4, <1>5
<1>7. /\ f \in Node /\ f \in Neighbors(a) /\ Dist[a][n] = Dist[f][n] + 1
      /\ Dist[a][y] <= Dist[f][y] + 1
  BY <1>1, <1>6, DistFacts
<1>8. Dist[f][n] \in Nat /\ Dist[f][y] \in Nat
  BY <1>1, <1>7, DistFacts
<1> HIDE DEF f
<1>9. Dist[f][n] \notin T
  BY <1>3, <1>4, <1>7, <1>8
<1>10. Dist[f][y] <= Dist[f][n] + 1
  BY <1>7, <1>8, <1>9
<1>11. QED
  BY <1>4, <1>5, <1>7, <1>8, <1>10

LEMMA DistSymmetric ==
  ASSUME NEW x \in Node, NEW y \in Node
  PROVE  Dist[x][y] = Dist[y][x]
<1>1. ASSUME NEW b \in Node, NEW c \in Node PROVE Dist[b][c] <= Dist[c][b]
  <2> DEFINE Bad(a, k) == a \in Node /\ Dist[a][b] = k /\ ~(Dist[b][a] <= Dist[a][b])
             T == {k \in Nat : \E a \in Node : Bad(a, k)}
  <2> SUFFICES ASSUME ~(Dist[b][c] <= Dist[c][b]) PROVE FALSE
    OBVIOUS
  <2>1. T \subseteq Nat /\ Dist[c][b] \in T
    BY DistFacts
  <2>2. PICK k \in T : \A m \in T : k <= m
    BY <2>1, LeastNumber
  <2>3. PICK a \in Node : Bad(a, k)
    BY <2>2
  <2> DEFINE f == First[a][b]
  <2>4. Dist[a][b] \in Nat /\ Dist[b][a] \in Nat /\ Dist[b][b] = 0
    BY DistFacts
  <2>5. a # b
    BY <2>3, <2>4
  <2>6. f \in Node /\ f \in Neighbors(a) /\ Dist[a][b] = Dist[f][b] + 1
    BY <2>5, DistFacts
  <2>7. Dist[f][b] \in Nat /\ Dist[b][f] \in Nat /\ a \in Neighbors(f)
    BY <2>6, DistFacts, NeighborFacts
  <2>8. Dist[b][a] <= Dist[b][f] + 1
    BY <2>6, <2>7, LinkAtTheEnd
  <2> HIDE DEF f
  <2>9. Dist[f][b] \notin T
    BY <2>2, <2>3, <2>6, <2>7
  <2>10. Dist[b][f] <= Dist[f][b]
    BY <2>6, <2>7, <2>9
  <2>11. QED
    BY <2>3, <2>4, <2>6, <2>7, <2>8, <2>10
<1>2. Dist[x][y] <= Dist[y][x] /\ Dist[y][x] <= Dist[x][y]
  BY <1>1
<1>3. Dist[x][y] \in Nat /\ Dist[y][x] \in Nat
  BY DistFacts
<1>4. QED
  BY <1>2, <1>3

-----------------------------------------------------------------------------
(* Vertices and their names.                                               *)

LEMMA NumNodesType == NumNodes \in Nat \ {0}
<1>1. NumNodes \in Nat /\ Node # {}
  BY FS_CardinalityType, SelfAssumption DEF NumNodes
<1>2. NumNodes # 0
  BY <1>1, FS_EmptySet, SelfAssumption DEF NumNodes
<1>3. QED
  BY <1>1, <1>2

\* The first and the last vertex with a name.
LEMMA VertexFacts ==
  ASSUME names \in Seq(Id), NEW c \in Range(names), NEW w
  PROVE  /\ VertexOf(c, w) \in Vertices /\ NameOf(VertexOf(c, w)) = c
         /\ LastVertexOf(c) \in Vertices /\ NameOf(LastVertexOf(c)) = c
<1> DEFINE T == {v \in Vertices : NameOf(v) = c}
           U == {k \in Nat : \E v \in T : v + k = Len(names)}
<1>1. Len(names) \in Nat /\ DOMAIN names = 1 .. Len(names)
  OBVIOUS
<1>2. PICK i \in 1 .. Len(names) : names[i] = c
  BY <1>1 DEF Range
<1>3. i - 1 \in Vertices /\ NameOf(i - 1) = c
  BY <1>1, <1>2 DEF Vertices, NameOf
<1>4. T \subseteq Nat /\ T # {}
  BY <1>1, <1>3 DEF Vertices
<1>5. PICK v \in T : \A u \in T : v <= u
  BY <1>4, LeastNumber
<1>6. \A u \in 0 .. v - 1 : NameOf(u) # c
  <2> SUFFICES ASSUME NEW u \in 0 .. v - 1, NameOf(u) = c PROVE FALSE
    OBVIOUS
  <2>1. u \in T
    BY <1>1 DEF Vertices
  <2>2. QED
    BY <1>1, <1>5, <2>1 DEF Vertices
<1>7. \E x \in Vertices : NameOf(x) = c /\ \A u \in 0 .. x - 1 : NameOf(u) # c
  BY <1>5, <1>6
<1>8. VertexOf(c, w) \in Vertices /\ NameOf(VertexOf(c, w)) = c
  BY <1>7 DEF VertexOf
<1>9. Len(names) - (i - 1) \in U
  <2>1. Len(names) - (i - 1) \in Nat /\ (i - 1) + (Len(names) - (i - 1)) = Len(names)
    BY <1>1
  <2>2. QED
    BY <1>3, <2>1
<1>10. PICK k \in U : \A m \in U : k <= m
  <2>1. U \subseteq Nat /\ U # {}
    BY <1>9
  <2>2. QED
    BY <2>1, LeastNumber
<1>11. PICK x \in T : x + k = Len(names)
  BY <1>10
<1>12. k \in Nat /\ x \in 0 .. Len(names) - 1 /\ Len(names) \in Nat
  <2>1. k \in Nat
    BY <1>10
  <2>2. x \in Vertices
    BY <1>11
  <2>3. x \in 0 .. Len(names) - 1
    BY <2>2 DEF Vertices
  <2>4. QED
    BY <2>1, <2>3
<1>13. \A u \in x + 1 .. Len(names) - 1 : NameOf(u) # c
  <2> SUFFICES ASSUME NEW u \in x + 1 .. Len(names) - 1, NameOf(u) = c PROVE FALSE
    OBVIOUS
  <2>1. u \in 0 .. Len(names) - 1 /\ x < u
    BY <1>12
  <2>2. u \in T
    BY <2>1 DEF Vertices
  <2>3. Len(names) - u \in Nat /\ u + (Len(names) - u) = Len(names)
    BY <1>12, <2>1
  <2>4. Len(names) - u < k
    BY <1>11, <1>12, <2>1
  <2>5. Len(names) - u \in U
    BY <2>2, <2>3
  <2> HIDE DEF U
  <2>6. k <= Len(names) - u
    BY <1>10, <2>5
  <2>7. QED
    BY <1>12, <2>3, <2>4, <2>6
<1>14. \E y \in Vertices : NameOf(y) = c /\ \A u \in y + 1 .. Len(names) - 1 : NameOf(u) # c
  BY <1>11, <1>12, <1>13
<1>15. LastVertexOf(c) \in Vertices /\ NameOf(LastVertexOf(c)) = c
  BY <1>14 DEF LastVertexOf
<1>16. QED
  BY <1>8, <1>15

\* The vertices of a clean graph are the nodes, each of them once.
LEMMA CleanNames ==
  ASSUME graph_name \in Seq(Node), Len(graph_name) = NumNodes, Clean
  PROVE  /\ names \in Seq(Id) /\ Range(names) = Node
         /\ Vertices = 0 .. NumNodes - 1 /\ 0 \in Vertices
         /\ \A v \in Vertices : NameOf(v) \in Node
         /\ \A u, v \in Vertices : NameOf(u) = NameOf(v) => u = v
<1>1. /\ names \in Seq(Node) /\ Len(names) = NumNodes /\ DOMAIN names = 1 .. NumNodes
      /\ Range(names) = Node /\ NumNodes \in Nat \ {0}
  BY NumNodesType DEF Clean
<1>2. names \in Seq(Id)
  BY <1>1 DEF Id
<1>3. Vertices = 0 .. NumNodes - 1 /\ 0 \in Vertices
  BY <1>1 DEF Vertices
<1>4. \A v \in Vertices : v + 1 \in 1 .. NumNodes /\ NameOf(v) \in Node
  BY <1>1, <1>3 DEF NameOf
<1>5. IsFiniteSet(1 .. NumNodes) /\ Cardinality(1 .. NumNodes) = Cardinality(Node)
  <2>1. /\ IsFiniteSet(1 .. NumNodes)
        /\ Cardinality(1 .. NumNodes) = IF 1 > NumNodes THEN 0 ELSE NumNodes - 1 + 1
    BY <1>1, FS_Interval
  <2>2. QED
    BY <1>1, <2>1 DEF NumNodes
<1>6. names \in Surjection(1 .. NumNodes, Node)
  BY <1>1 DEF Surjection, Range
<1>7. names \in Injection(1 .. NumNodes, Node)
  BY <1>5, <1>6, FS_SurjSameCardinalityImpliesInj
<1>8. \A u, v \in Vertices : NameOf(u) = NameOf(v) => u = v
  <2> SUFFICES ASSUME NEW u \in Vertices, NEW v \in Vertices, NameOf(u) = NameOf(v)
               PROVE  u = v
    OBVIOUS
  <2>1. u + 1 = v + 1
    BY <1>4, <1>7 DEF Injection, IsInjective, NameOf
  <2>2. QED
    BY <1>1, <1>3, <2>1
<1>9. QED
  BY <1>1, <1>2, <1>3, <1>4, <1>8

LEMMA CleanVertices ==
  ASSUME graph_name \in Seq(Node), Len(graph_name) = NumNodes, Clean, NEW w
  PROVE  /\ \A c \in Node :
              /\ VertexOf(c, w) \in Vertices /\ NameOf(VertexOf(c, w)) = c
              /\ LastVertexOf(c) \in Vertices /\ NameOf(LastVertexOf(c)) = c
         /\ \A v \in Vertices : VertexOf(NameOf(v), w) = v
<1>1. \A c \in Node :
        /\ VertexOf(c, w) \in Vertices /\ NameOf(VertexOf(c, w)) = c
        /\ LastVertexOf(c) \in Vertices /\ NameOf(LastVertexOf(c)) = c
  BY CleanNames, VertexFacts
<1>2. \A v \in Vertices : VertexOf(NameOf(v), w) = v
  BY <1>1, CleanNames
<1>3. QED
  BY <1>1, <1>2

-----------------------------------------------------------------------------
(* Dijkstra on a clean graph.                                              *)

LEMMA IntMaxType == INT_MAX \in Nat \ {0} /\ INT_MAX \notin 0 .. NumNodes - 1
<1>1. NumNodes \in Nat \ {0}
  BY NumNodesType
<1>2. \A n \in Nat \ {0} : 100 * n \in Nat \ {0} /\ 100 * n \notin 0 .. n - 1
  OBVIOUS
<1>3. QED
  BY <1>1, <1>2 DEF INT_MAX

CleanGraph ==
  graph_name \in Seq(Node) /\ Len(graph_name) = NumNodes /\ Clean /\ edges = CleanEdges

LEMMA CleanEdgeFacts ==
  ASSUME CleanGraph, NEW u \in Vertices, NEW v \in Vertices
  PROVE  <<u, v>> \in edges <=> NameOf(v) \in Neighbors(NameOf(u))
BY DEF CleanGraph, CleanEdges

\* What Dijkstra finds in a clean graph is how far the nodes are.
LEMMA DistancesClean ==
  ASSUME CleanGraph, NEW s \in Vertices, NEW d \in Distances(s), NEW v \in Vertices
  PROVE  d[v] # INT_MAX /\ d[v] = Dist[NameOf(v)][NameOf(s)]
<1> DEFINE N(x) == NameOf(x)
           D(x) == Dist[NameOf(x)][NameOf(s)]
<1>1. /\ Vertices = 0 .. NumNodes - 1
      /\ \A x \in Vertices : N(x) \in Node
      /\ \A x, y \in Vertices : N(x) = N(y) => x = y
  BY CleanNames DEF CleanGraph
<1>2. \A x \in Vertices : D(x) \in Nat
  BY <1>1, DistFacts
<1>3. \A x \in Vertices : d[x] \in Nat
  <2>1. \A x \in Vertices : d[x] \in 0 .. NumNodes - 1 \cup {INT_MAX}
    BY <1>1 DEF Distances
  <2>2. QED
    BY <2>1, IntMaxType, NumNodesType
<1>4. d[s] = 0 /\ D(s) = 0
  BY <1>1, DistFacts DEF Distances
<1>5. \A x, y \in Vertices : N(y) \in Neighbors(N(x)) /\ d[x] # INT_MAX =>
        d[y] # INT_MAX /\ d[y] <= d[x] + 1
  <2> SUFFICES ASSUME NEW x \in Vertices, NEW y \in Vertices,
                      N(y) \in Neighbors(N(x)), d[x] # INT_MAX
               PROVE  d[y] # INT_MAX /\ d[y] <= d[x] + 1
    OBVIOUS
  <2>1. <<x, y>> \in edges
    BY CleanEdgeFacts
  <2>2. d[<<x, y>>[1]] # INT_MAX => d[<<x, y>>[2]] # INT_MAX /\ d[<<x, y>>[2]] <= d[<<x, y>>[1]] + 1
    BY <2>1 DEF Distances
  <2>3. QED
    BY <2>2
<1>6. \A y \in Vertices \ {s} : d[y] # INT_MAX =>
        \E x \in Vertices : N(y) \in Neighbors(N(x)) /\ d[y] = d[x] + 1
  <2> SUFFICES ASSUME NEW y \in Vertices \ {s}, d[y] # INT_MAX
               PROVE  \E x \in Vertices : N(y) \in Neighbors(N(x)) /\ d[y] = d[x] + 1
    OBVIOUS
  <2>1. PICK e \in edges : e[2] = y /\ d[y] = d[e[1]] + 1
    BY DEF Distances
  <2>2. e \in Vertices \X Vertices /\ NameOf(e[2]) \in Neighbors(NameOf(e[1]))
    BY <2>1 DEF CleanGraph, CleanEdges
  <2>3. QED
    BY <2>1, <2>2
<1>7. \A y \in Vertices \ {s} : \E x \in Vertices : N(y) \in Neighbors(N(x)) /\ D(y) = D(x) + 1
  <2> SUFFICES ASSUME NEW y \in Vertices \ {s}
               PROVE  \E x \in Vertices : N(y) \in Neighbors(N(x)) /\ D(y) = D(x) + 1
    OBVIOUS
  <2>1. N(y) \in Node /\ N(s) \in Node /\ N(y) # N(s)
    BY <1>1
  <2> DEFINE f == First[N(y)][N(s)]
             x == VertexOf(f, 0)
  <2>2. f \in Neighbors(N(y)) /\ Dist[N(y)][N(s)] = Dist[f][N(s)] + 1
    BY <2>1, DistFacts
  <2>3. f \in Node /\ N(y) \in Neighbors(f)
    BY <2>1, <2>2, NeighborFacts
  <2>4. x \in Vertices /\ N(x) = f
    BY <2>3, CleanVertices DEF CleanGraph
  <2>5. QED
    BY <2>2, <2>3, <2>4
<1>8. \A x, y \in Vertices : N(y) \in Neighbors(N(x)) => D(y) <= D(x) + 1
  <2> SUFFICES ASSUME NEW x \in Vertices, NEW y \in Vertices, N(y) \in Neighbors(N(x))
               PROVE  D(y) <= D(x) + 1
    OBVIOUS
  <2>1. N(x) \in Node /\ N(y) \in Node /\ N(s) \in Node /\ N(x) \in Neighbors(N(y))
    BY <1>1, NeighborFacts
  <2>2. QED
    BY <2>1, DistFacts
<1> HIDE DEF N, D
<1>9. \A y \in Vertices : d[y] # INT_MAX /\ d[y] <= D(y)
  <2> DEFINE Bad(y) == ~(d[y] # INT_MAX /\ d[y] <= D(y))
             T == {k \in Nat : \E y \in Vertices : D(y) = k /\ Bad(y)}
  <2> SUFFICES ASSUME NEW z \in Vertices, Bad(z) PROVE FALSE
    OBVIOUS
  <2>1. T \subseteq Nat /\ D(z) \in T
    BY <1>2
  <2>2. PICK k \in T : \A m \in T : k <= m
    BY <2>1, LeastNumber
  <2>3. PICK y \in Vertices : D(y) = k /\ Bad(y)
    BY <2>2
  <2>4. y # s
    BY <1>4, <2>3, IntMaxType
  <2>5. PICK x \in Vertices : N(y) \in Neighbors(N(x)) /\ D(y) = D(x) + 1
    BY <1>7, <2>4
  <2>6. D(x) \in Nat /\ D(y) \in Nat /\ d[x] \in Nat /\ d[y] \in Nat
    BY <1>2, <1>3
  <2>7. D(x) \notin T
    BY <2>2, <2>3, <2>5, <2>6
  <2>8. ~Bad(x)
    BY <2>6, <2>7
  <2>9. d[y] # INT_MAX /\ d[y] <= d[x] + 1
    BY <1>5, <2>5, <2>8
  <2>10. QED
    BY <2>3, <2>5, <2>6, <2>8, <2>9
<1>10. \A y \in Vertices : D(y) <= d[y]
  <2> DEFINE Bad(y) == ~(D(y) <= d[y])
             T == {k \in Nat : \E y \in Vertices : d[y] = k /\ Bad(y)}
  <2> SUFFICES ASSUME NEW z \in Vertices, Bad(z) PROVE FALSE
    OBVIOUS
  <2>1. T \subseteq Nat /\ d[z] \in T
    BY <1>3
  <2>2. PICK k \in T : \A m \in T : k <= m
    BY <2>1, LeastNumber
  <2>3. PICK y \in Vertices : d[y] = k /\ Bad(y)
    BY <2>2
  <2>4. y # s
    BY <1>4, <2>3
  <2>5. PICK x \in Vertices : N(y) \in Neighbors(N(x)) /\ d[y] = d[x] + 1
    BY <1>6, <1>9, <2>4
  <2>6. D(x) \in Nat /\ D(y) \in Nat /\ d[x] \in Nat /\ d[y] \in Nat
    BY <1>2, <1>3
  <2>7. d[x] \notin T
    BY <2>2, <2>3, <2>5, <2>6
  <2>8. ~Bad(x)
    BY <2>6, <2>7
  <2>9. D(y) <= D(x) + 1
    BY <1>8, <2>5
  <2>10. QED
    BY <2>3, <2>5, <2>6, <2>8, <2>9
<1>11. d[v] = D(v)
  BY <1>2, <1>3, <1>9, <1>10
<1>12. QED
  BY <1>9, <1>11 DEF D

-----------------------------------------------------------------------------
(* The neighbours of the router.                                           *)

LEMMA OwnNeighbors ==
  /\ Range(NbrTbl) = Neighbors(Self) /\ Range(NbrTbl) \subseteq Node /\ Range(NbrTbl) # {}
  /\ Self \notin Range(NbrTbl) /\ IsFiniteSet(Range(NbrTbl))
<1>1. Range(NbrTbl) = Neighbors(Self)
  BY SelfAssumption
<1>2. \A n \in Neighbors(Self) : n \in Node /\ n # Self
  BY NeighborFacts, SelfAssumption
<1>3. Range(NbrTbl) # {}
  BY SelfAssumption DEF Range
<1>4. IsFiniteSet(Range(NbrTbl))
  BY <1>1, <1>2, FS_Subset, SelfAssumption
<1>5. QED
  BY <1>1, <1>2, <1>3, <1>4

LEMMA NhopPortFacts ==
  /\ DOMAIN NhopPort = Range(NbrTbl)
  /\ \A n \in Range(NbrTbl) : NhopPort[n] \in DOMAIN NbrTbl /\ NbrTbl[NhopPort[n]] = n
<1>1. ASSUME NEW n \in Range(NbrTbl)
      PROVE  NhopPort[n] \in DOMAIN NbrTbl /\ NbrTbl[NhopPort[n]] = n
  <2> DEFINE T == {i \in DOMAIN NbrTbl : NbrTbl[i] = n}
  <2>1. T \subseteq Nat /\ T # {} /\ DOMAIN NbrTbl = 1 .. Len(NbrTbl) /\ Len(NbrTbl) \in Nat
    BY SelfAssumption DEF Range
  <2>2. PICK i \in T : \A j \in T : i <= j
    BY <2>1, LeastNumber
  <2>3. \A j \in 1 .. i - 1 : NbrTbl[j] # n
    <3> SUFFICES ASSUME NEW j \in 1 .. i - 1, NbrTbl[j] = n PROVE FALSE
      OBVIOUS
    <3>1. i \in 1 .. Len(NbrTbl)
      BY <2>1, <2>2
    <3>2. j \in 1 .. Len(NbrTbl) /\ j < i
      BY <2>1, <3>1
    <3>3. j \in T
      BY <2>1, <3>2
    <3>4. QED
      BY <2>2, <3>1, <3>2, <3>3
  <2>4. \E k \in DOMAIN NbrTbl : NbrTbl[k] = n /\ \A j \in 1 .. k - 1 : NbrTbl[j] # n
    BY <2>2, <2>3
  <2>5. QED
    BY <2>4 DEF NhopPort
<1>2. DOMAIN NhopPort = Range(NbrTbl)
  BY DEF NhopPort
<1>3. QED
  BY <1>1, <1>2

LEMMA NextNeighborFacts ==
  ASSUME DOMAIN nhop_dest_dist \subseteq Range(NbrTbl), DOMAIN nhop_dest_dist # Range(NbrTbl)
  PROVE  NextNeighbor \in Range(NbrTbl) \ DOMAIN nhop_dest_dist
<1> DEFINE R == Range(NbrTbl) \ DOMAIN nhop_dest_dist
           T == {Letter[n] : n \in R}
<1>1. R # {} /\ R \subseteq Node
  BY OwnNeighbors
<1>2. T \subseteq Nat /\ T # {}
  BY <1>1, LetterAssumption
<1>3. PICK k \in T : \A m \in T : k <= m
  BY <1>2, LeastNumber
<1>4. PICK n \in R : Letter[n] = k
  BY <1>3
<1>5. \E x \in R : \A m \in R : Letter[x] <= Letter[m]
  BY <1>3, <1>4
<1>6. DOMAIN NhopPort = Range(NbrTbl)
  BY NhopPortFacts
<1>7. NextNeighbor \in R
  BY <1>5, <1>6 DEF NextNeighbor
<1>8. QED
  BY <1>7

-----------------------------------------------------------------------------
(* The steps that build the map keep MapInv.                               *)

LEMMA MapInit ==
  ASSUME BuildInit
  PROVE  MapInv
<1>1. PICK m \in Recorded :
        graph_name = m.names /\ netnode_nhops = [x \in m.lists |-> Neighbors(x)]
  BY DEF BuildInit
<1>2. graph_name \in Seq(Node) /\ Len(graph_name) = NumNodes - 1 /\ m.lists \subseteq Node
  <2>1. m.names \in Seq(Node) /\ Len(m.names) = NumNodes - 1 /\ m.lists \subseteq Range(m.names)
    BY <1>1, RecordedAssumption
  <2>2. Range(m.names) \subseteq Node
    BY <2>1 DEF Range
  <2>3. QED
    BY <1>1, <2>1, <2>2
<1>3. \A x \in m.lists : Neighbors(x) \subseteq Id
  BY <1>2, NeighborFacts DEF Id
<1>4. TypeOK
  <2>1. names = <<>> /\ edges = {} /\ names \in Seq(Id)
    BY DEF BuildInit
  <2>2. DOMAIN netnode_nhops \subseteq Node /\ \A x \in DOMAIN netnode_nhops : netnode_nhops[x] \subseteq Id
    BY <1>1, <1>2, <1>3
  <2>3. /\ pc = "copy" /\ DOMAIN dist = {} /\ DOMAIN pred = {} /\ DOMAIN dest_dist = {}
        /\ DOMAIN dest_port = {} /\ DOMAIN nhop_dest_dist = {}
    BY DEF BuildInit
  <2>4. QED
    BY <1>2, <2>1, <2>2, <2>3 DEF TypeOK
<1>5. Progress
  <2>1. nhop_dest_dist \in [DOMAIN nhop_dest_dist -> [Range(names) -> Nat]]
    BY DEF BuildInit
  <2>2. QED
    BY <1>2, <2>1 DEF BuildInit, Progress
<1>6. CleanMap
  BY DEF BuildInit, CleanMap
<1>7. QED
  BY <1>4, <1>5, <1>6 DEF MapInv

LEMMA CopyMapStep ==
  ASSUME MapInv, CopyMap
  PROVE  MapInv'
<1> USE DEF MapInv, CopyMap
<1>1. /\ graph_name' \in Seq(Node) /\ Len(graph_name') = NumNodes
      /\ Len(graph_name') \in Nat \ {0} /\ Self \in Range(graph_name')
  <2>1. graph_name \in Seq(Node) /\ Len(graph_name) = NumNodes - 1 /\ Self \in Node
    BY SelfAssumption DEF TypeOK, Progress
  <2>2. /\ graph_name' \in Seq(Node) /\ Len(graph_name') = NumNodes - 1 + 1
        /\ Len(graph_name') \in 1 .. Len(graph_name') /\ graph_name'[Len(graph_name')] = Self
    BY <2>1
  <2>3. QED
    BY <2>2, NumNodesType DEF Range
<1>2. names' \in Seq(Id) /\ Self \in Range(names')
  <2>1. PICK t \in Tails : names' = graph_name' \o t
    OBVIOUS
  <2>2. t \in Seq(Id) /\ graph_name' \in Seq(Id)
    BY <1>1, TailsAssumption DEF Id
  <2>3. PICK i \in 1 .. Len(graph_name') : graph_name'[i] = Self
    BY <1>1 DEF Range
  <2>4. \A s, r \in Seq(Id) : \A j \in 1 .. Len(s) :
          s \o r \in Seq(Id) /\ j \in DOMAIN (s \o r) /\ (s \o r)[j] = s[j]
    OBVIOUS
  <2>5. names' \in Seq(Id) /\ i \in DOMAIN names' /\ names'[i] = graph_name'[i]
    BY <2>1, <2>2, <2>3, <2>4
  <2>6. QED
    BY <2>3, <2>5 DEF Range
<1>3. /\ DOMAIN netnode_nhops' \subseteq Node /\ Self \in DOMAIN netnode_nhops'
      /\ \A x \in DOMAIN netnode_nhops' : netnode_nhops'[x] \subseteq Id
  <2>1. CASE Self \in DOMAIN netnode_nhops
    BY <2>1 DEF TypeOK
  <2>2. CASE Self \notin DOMAIN netnode_nhops
    <3>1. PICK t \in Tails :
            netnode_nhops' = [x \in DOMAIN netnode_nhops \cup {Self} |->
                                IF x = Self THEN Neighbors(Self) \cup Range(t)
                                            ELSE netnode_nhops[x]]
      BY <2>2
    <3>2. Neighbors(Self) \cup Range(t) \subseteq Id
      BY OwnNeighbors, TailsAssumption DEF Range, Id
    <3>3. QED
      BY <3>1, <3>2, SelfAssumption DEF TypeOK
  <2>3. QED
    BY <2>1, <2>2
<1>4. Vertices = {}
  BY DEF Progress, Vertices
<1>5. TypeOK'
  <2>1. edges' = {} /\ pc' = "graph"
    BY <1>4 DEF TypeOK
  <2>2. /\ DOMAIN dist' = DOMAIN pred'
        /\ \A v \in DOMAIN dist' : dist'[v] \in Vertices' \cup {INT_MAX} /\ pred'[v] \in Vertices'
    BY <1>4 DEF TypeOK
  <2>3. /\ \A c \in DOMAIN dest_dist' : c \in Id /\ dest_dist'[c] \in Vertices' \cup {INT_MAX}
        /\ \A c \in DOMAIN dest_port' : c \in Id /\ dest_port'[c] \in 0 .. Len(NbrTbl)
        /\ DOMAIN nhop_dest_dist' \subseteq Range(NbrTbl)
    BY <1>4 DEF TypeOK, tables
  <2>4. QED
    BY <1>1, <1>2, <1>3, <2>1, <2>2, <2>3 DEF TypeOK
<1>6. nhop_dest_dist' = <<>> /\ dest_port' = <<>> /\ pc' = "graph"
  BY DEF Progress, tables
<1>7. Progress'
  BY <1>1, <1>2, <1>3, <1>6 DEF Progress
<1>8. CleanMap'
  BY <1>6 DEF CleanMap
<1>9. QED
  BY <1>5, <1>7, <1>8

LEMMA BuildGraphStep ==
  ASSUME MapInv, BuildGraph
  PROVE  MapInv'
<1> USE DEF MapInv, BuildGraph
<1>1. /\ names' = names /\ graph_name' = graph_name /\ netnode_nhops' = netnode_nhops
      /\ pc = "graph" /\ pc' = "publish"
      /\ Vertices' = Vertices /\ (Clean' <=> Clean)
  BY DEF Vertices, Clean
<1>2. PICK w \in Vertices :
        edges' = UNION {{<<VertexOf(x, w), VertexOf(y, w)>> : y \in netnode_nhops[x]} :
                          x \in DOMAIN netnode_nhops}
  BY DEF EdgesBy
<1>3. \A c : VertexOf(c, w) \in Vertices
  <2> SUFFICES ASSUME NEW c PROVE VertexOf(c, w) \in Vertices
    OBVIOUS
  <2>1. CASE c \in Range(names)
    BY <2>1, VertexFacts DEF TypeOK
  <2>2. CASE c \notin Range(names)
    BY <2>2 DEF VertexOf
  <2>3. QED
    BY <2>1, <2>2
<1>4. edges' \subseteq Vertices \X Vertices
  BY <1>2, <1>3
<1>5. TypeOK'
  BY <1>1, <1>4 DEF TypeOK, tables, walk
<1>6. Progress'
  BY <1>1 DEF Progress, tables, walk
<1>7. Clean => edges' = CleanEdges
  <2> SUFFICES ASSUME Clean PROVE edges' = CleanEdges
    OBVIOUS
  <2>1. graph_name \in Seq(Node) /\ Len(graph_name) = NumNodes
    BY <1>1 DEF TypeOK, Progress
  <2>2. DOMAIN netnode_nhops = Node /\ \A x \in Node : netnode_nhops[x] = Neighbors(x)
    BY <1>1 DEF TypeOK, Progress, Clean
  <2>3. ASSUME NEW x \in Node, NEW y \in Neighbors(x)
        PROVE  <<VertexOf(x, w), VertexOf(y, w)>> \in CleanEdges
    <3>1. y \in Node
      BY NeighborFacts
    <3>2. /\ VertexOf(x, w) \in Vertices /\ NameOf(VertexOf(x, w)) = x
          /\ VertexOf(y, w) \in Vertices /\ NameOf(VertexOf(y, w)) = y
      BY <2>1, <3>1, CleanVertices
    <3>3. QED
      BY <3>2 DEF CleanEdges
  <2>4. ASSUME NEW e \in CleanEdges
        PROVE  e \in edges'
    <3> DEFINE x == NameOf(e[1])
               y == NameOf(e[2])
    <3>1. e \in Vertices \X Vertices /\ y \in Neighbors(x)
      BY DEF CleanEdges
    <3>2. x \in Node /\ VertexOf(x, w) = e[1] /\ VertexOf(y, w) = e[2]
      BY <2>1, <3>1, CleanNames, CleanVertices
    <3>3. e = <<VertexOf(x, w), VertexOf(y, w)>>
      BY <3>1, <3>2
    <3>4. QED
      BY <1>2, <2>2, <3>1, <3>2, <3>3
  <2>5. edges' \subseteq CleanEdges
    BY <1>2, <2>2, <2>3
  <2>6. QED
    BY <2>4, <2>5
<1>8. CleanEdges' = CleanEdges
  BY <1>1 DEF CleanEdges, NameOf
<1>9. DOMAIN dest_port' = {} /\ DOMAIN nhop_dest_dist' = {}
  BY <1>1 DEF Progress, tables
<1>10. CleanMap'
  BY <1>1, <1>7, <1>8, <1>9 DEF CleanMap
<1>11. QED
  BY <1>5, <1>6, <1>10

\* All ids of a clean graph have vertices.
LEMMA UnknownUnclean ==
  ASSUME MapInv, pc = "graph", ~AllKnown
  PROVE  ~Clean
<1> SUFFICES ASSUME Clean PROVE FALSE
  OBVIOUS
<1>1. DOMAIN netnode_nhops \subseteq Node /\ \A x \in DOMAIN netnode_nhops : netnode_nhops[x] = Neighbors(x)
  BY DEF MapInv, TypeOK, Clean
<1>2. Range(names) = Node
  BY DEF Clean
<1>3. \A x \in Node : Neighbors(x) \subseteq Node
  BY NeighborFacts
<1>4. QED
  BY <1>1, <1>2, <1>3 DEF AllKnown

LEMMA BuildGraphGrownStep ==
  ASSUME MapInv, BuildGraphGrown
  PROVE  MapInv' /\ ~Clean /\ ~Clean'
<1> USE DEF MapInv
<1>1. PICK k \in 1 .. 2 :
        /\ edges' = EdgesBy(Len(names) + k - 1)
        /\ names' = names \o [i \in 1 .. k |-> Junk]
  BY DEF BuildGraphGrown
<1>2. /\ graph_name' = graph_name /\ netnode_nhops' = netnode_nhops
      /\ pred' = pred /\ dist' = dist /\ vi' = vi /\ current' = current /\ temp' = temp
      /\ dest_dist' = dest_dist /\ dest_port' = dest_port /\ nhop_dest_dist' = nhop_dest_dist
      /\ pc = "graph" /\ ~AllKnown /\ pc' = "publish"
  BY DEF BuildGraphGrown, tables, walk
<1>3. /\ names' \in Seq(Id) /\ Len(names') = Len(names) + k
      /\ Range(names) \subseteq Range(names') /\ Junk \in Range(names')
  <2> DEFINE junk == [i \in 1 .. k |-> Junk]
  <2>1. junk \in Seq(Id) /\ Len(junk) = k /\ 1 \in 1 .. k /\ junk[1] = Junk
    <3>1. Junk \in Id
      BY DEF Id
    <3>2. QED
      BY <3>1
  <2>2. names \in Seq(Id)
    BY DEF TypeOK
  <2> HIDE DEF junk
  <2>3. \A s, r \in Seq(Id) :
          /\ s \o r \in Seq(Id) /\ Len(s \o r) = Len(s) + Len(r)
          /\ \A j \in 1 .. Len(s) : j \in DOMAIN (s \o r) /\ (s \o r)[j] = s[j]
          /\ \A j \in 1 .. Len(r) : Len(s) + j \in DOMAIN (s \o r) /\ (s \o r)[Len(s) + j] = r[j]
    OBVIOUS
  <2>4. names' = names \o junk
    BY <1>1 DEF junk
  <2>5. names' \in Seq(Id) /\ Len(names') = Len(names) + k
    BY <2>1, <2>2, <2>3, <2>4
  <2>6. Len(names) + 1 \in DOMAIN names' /\ names'[Len(names) + 1] = Junk
    BY <2>1, <2>2, <2>3, <2>4
  <2>7. \A j \in DOMAIN names : j \in DOMAIN names' /\ names'[j] = names[j]
    BY <2>1, <2>2, <2>3, <2>4
  <2>8. QED
    BY <2>5, <2>6, <2>7 DEF Range
<1>4. Len(names) + k - 1 \in Vertices' /\ Vertices \subseteq Vertices'
  <2>1. Len(names) \in Nat
    BY DEF TypeOK
  <2>2. QED
    BY <1>3, <2>1 DEF Vertices
<1>5. \A c : VertexOf(c, Len(names) + k - 1) \in Vertices'
  <2> SUFFICES ASSUME NEW c PROVE VertexOf(c, Len(names) + k - 1) \in Vertices'
    OBVIOUS
  <2>1. CASE c \in Range(names)
    BY <1>4, <2>1, VertexFacts DEF TypeOK
  <2>2. CASE c \notin Range(names)
    BY <1>4, <2>2 DEF VertexOf
  <2>3. QED
    BY <2>1, <2>2
<1>6. edges' \subseteq Vertices' \X Vertices'
  BY <1>1, <1>5 DEF EdgesBy
<1>7. TypeOK'
  <2>1. \A v \in DOMAIN dist' : dist'[v] \in Vertices' \cup {INT_MAX} /\ pred'[v] \in Vertices'
    BY <1>2, <1>4 DEF TypeOK
  <2>2. \A c \in DOMAIN dest_dist' : c \in Id /\ dest_dist'[c] \in Vertices' \cup {INT_MAX}
    BY <1>2, <1>4 DEF TypeOK
  <2>3. QED
    BY <1>2, <1>3, <1>6, <2>1, <2>2 DEF TypeOK
<1>8. nhop_dest_dist' = <<>> /\ dest_port' = <<>>
  BY <1>2 DEF Progress
<1>9. Progress'
  BY <1>2, <1>3, <1>8 DEF Progress
<1>10. ~Clean
  BY <1>2, UnknownUnclean
<1>11. ~Clean'
  <2> SUFFICES ASSUME Clean' PROVE FALSE
    OBVIOUS
  <2>1. Range(names') = Node
    BY DEF Clean
  <2>2. QED
    BY <1>3, <2>1, SelfAssumption
<1>12. QED
  BY <1>7, <1>9, <1>10, <1>11 DEF CleanMap

\* The router dies of what is in the graph or not.
LEMMA DiesUnclean ==
  ASSUME MapInv, ~Clean, pc' = "dead", pc # "copy", UNCHANGED <<graph, pred, dist, walk, tables>>
  PROVE  MapInv'
<1> USE DEF MapInv, graph, walk, tables
<1>1. Vertices' = Vertices /\ Source' = Source /\ ~Clean'
  BY DEF Vertices, Source, VertexOf, NameOf, Clean
<1>2. TypeOK'
  BY <1>1 DEF TypeOK
<1>3. Progress'
  BY <1>1 DEF Progress, NameOf
<1>4. QED
  BY <1>1, <1>2, <1>3 DEF CleanMap

LEMMA BuildGraphThrowsStep ==
  ASSUME MapInv, BuildGraphThrows
  PROVE  MapInv'
<1>1. pc = "graph" /\ ~AllKnown /\ pc' = "dead" /\ UNCHANGED <<graph, pred, dist, walk, tables>>
  BY DEF BuildGraphThrows
<1>2. QED
  BY <1>1, UnknownUnclean, DiesUnclean

LEMMA PublishStep ==
  ASSUME MapInv, Publish
  PROVE  MapInv'
<1> USE DEF MapInv, Publish, graph, walk, tables
<1>1. Vertices' = Vertices /\ (Clean' <=> Clean) /\ CleanEdges' = CleanEdges
  BY DEF Vertices, Clean, CleanEdges, NameOf
<1>2. TypeOK'
  BY <1>1 DEF TypeOK
<1>3. Progress'
  BY DEF Progress
<1>4. DOMAIN dest_port' = {} /\ DOMAIN nhop_dest_dist' = {}
  BY DEF Progress
<1>5. CleanMap'
  BY <1>1, <1>4 DEF CleanMap
<1>6. QED
  BY <1>2, <1>3, <1>5

\* What a clean graph offers to the steps after BuildGraph.
LEMMA CleanSoFar ==
  ASSUME MapInv, Clean, pc \in {"publish", "dijkstra", "print", "port", "nhop", "done"}
  PROVE  /\ CleanGraph /\ Range(names) = Node
         /\ \A v \in Vertices : NameOf(v) \in Node
         /\ Source \in Vertices /\ NameOf(Source) = Self
         /\ \A v \in Vertices : NameOf(v) = Self => v = Source
<1>1. CleanGraph
  BY DEF MapInv, TypeOK, Progress, CleanMap, CleanGraph
<1>2. /\ Range(names) = Node /\ \A v \in Vertices : NameOf(v) \in Node
      /\ \A u, v \in Vertices : NameOf(u) = NameOf(v) => u = v
  BY <1>1, CleanNames DEF CleanGraph
<1>3. Source \in Vertices /\ NameOf(Source) = Self
  BY <1>1, CleanVertices, SelfAssumption DEF CleanGraph, Source
<1>4. QED
  BY <1>1, <1>2, <1>3

LEMMA FillDistStep ==
  ASSUME MapInv, FillDist
  PROVE  MapInv'
<1> USE DEF MapInv, graph
<1>1. /\ names' = names /\ edges' = edges /\ pc = "dijkstra" /\ pc' = "print"
      /\ vi' = 0 /\ current' = 0 /\ temp' = 0
      /\ graph_name' = graph_name /\ netnode_nhops' = netnode_nhops
      /\ dest_port' = dest_port /\ nhop_dest_dist' = nhop_dest_dist
      /\ dest_dist' = [c \in Range(names) |-> dist'[VertexOf(c, 0)]]
      /\ dist' \in Distances(Source) /\ pred' \in Predecessors(Source, dist')
  BY DEF FillDist, WalkFrom
<1>2. Vertices' = Vertices /\ (Clean' <=> Clean) /\ CleanEdges' = CleanEdges /\ Source' = Source
  BY <1>1 DEF Vertices, Clean, CleanEdges, NameOf, Source, VertexOf
<1>3. 0 \in Vertices
  BY <1>1 DEF TypeOK, Progress, Vertices, Range
<1>4. dist' \in [Vertices -> Vertices \cup {INT_MAX}] /\ pred' \in [Vertices -> Vertices]
  BY <1>1 DEF Distances, Predecessors
<1>5. \A c \in Range(names) : c \in Id /\ VertexOf(c, 0) \in Vertices
  <2>1. \A c \in Range(names) : c \in Id
    BY DEF TypeOK, Range
  <2>2. QED
    BY <2>1, VertexFacts DEF TypeOK
<1>6. TypeOK'
  <2>1. /\ \A v \in DOMAIN dist' : dist'[v] \in Vertices \cup {INT_MAX} /\ pred'[v] \in Vertices
        /\ DOMAIN dist' = DOMAIN pred'
    BY <1>4
  <2>2. \A c \in DOMAIN dest_dist' : c \in Id /\ dest_dist'[c] \in Vertices \cup {INT_MAX}
    BY <1>1, <1>4, <1>5
  <2>3. QED
    BY <1>1, <1>2, <1>3, <2>1, <2>2 DEF TypeOK
<1>7. Progress'
  BY <1>1, <1>2, <1>4 DEF Progress
<1>8. ASSUME Clean PROVE CleanMap'
  <2>1. /\ CleanGraph /\ Range(names) = Node /\ \A v \in Vertices : NameOf(v) \in Node
        /\ Source \in Vertices /\ NameOf(Source) = Self /\ Self \in Node
    BY <1>1, <1>8, CleanSoFar, SelfAssumption
  <2>2. \A v \in Vertices : dist'[v] # INT_MAX /\ dist'[v] = Dist[NameOf(v)][Self]
    BY <1>1, <2>1, DistancesClean
  <2>3. \A c \in Node : dist'[VertexOf(c, 0)] = Dist[Self][c]
    <3>1. \A c \in Node : VertexOf(c, 0) \in Vertices /\ NameOf(VertexOf(c, 0)) = c
      BY <2>1, CleanVertices DEF CleanGraph
    <3>2. QED
      BY <2>1, <2>2, <3>1, DistSymmetric
  <2>4. dest_dist' = Dist[Self]
    <3>1. Dist[Self] \in [Node -> Nat]
      BY <2>1, DijkstraAssumption
    <3>2. QED
      BY <1>1, <2>1, <2>3, <3>1
  <2>5. ASSUME NEW v \in Vertices \ {Source}
        PROVE  /\ <<pred'[v], v>> \in edges
               /\ Dist[Self][NameOf(pred'[v])] + 1 = Dist[Self][NameOf(v)]
    <3>1. <<pred'[v], v>> \in edges /\ dist'[pred'[v]] + 1 = dist'[v] /\ pred'[v] \in Vertices
      BY <1>1, <1>4, <2>2 DEF Predecessors
    <3>2. QED
      BY <2>1, <2>2, <3>1, DistSymmetric
  <2>6. OnPath(0)'
    <3>1. NameOf(0)' \in Node
      BY <1>1, <1>3, <2>1 DEF NameOf
    <3>2. Dist[Self][NameOf(0)'] \in Nat /\ Dist[NameOf(0)'][NameOf(0)'] = 0
      BY <2>1, <3>1, DistFacts
    <3>3. QED
      BY <1>1, <3>2 DEF OnPath, NameOf
  <2>7. OnPath(current)' /\ OnPath(temp)' /\ current' = vi' /\ temp' = vi'
    BY <1>1, <2>6 DEF OnPath, NameOf
  <2>8. edges' = CleanEdges' /\ DOMAIN dest_port' = {} /\ DOMAIN nhop_dest_dist' = {}
    BY <1>1, <1>2, <2>1 DEF CleanGraph, Progress
  <2>9. \A v \in Vertices' \ {Source'} :
          /\ <<pred'[v], v>> \in edges'
          /\ Dist[Self][NameOf(pred[v])'] + 1 = Dist[Self][NameOf(v)']
    BY <1>1, <1>2, <2>5 DEF NameOf
  <2>10. QED
    BY <1>1, <2>4, <2>7, <2>8, <2>9 DEF CleanMap
<1>9. CleanMap'
  BY <1>2, <1>8 DEF CleanMap
<1>10. QED
  BY <1>6, <1>7, <1>9

LEMMA StepBackStep ==
  ASSUME MapInv, StepBack
  PROVE  MapInv'
<1> USE DEF MapInv, StepBack, graph, tables
<1>1. /\ Vertices' = Vertices /\ (Clean' <=> Clean) /\ CleanEdges' = CleanEdges
      /\ Source' = Source /\ pc' = pc /\ pc \in {"print", "port"}
  BY DEF Vertices, Clean, CleanEdges, NameOf, Source, VertexOf
<1>2. current \in Vertices /\ vi \in Vertices /\ pred[current] \in Vertices
  BY DEF TypeOK, Progress
<1>3. TypeOK'
  BY <1>1, <1>2 DEF TypeOK
<1>4. Progress'
  BY <1>1 DEF Progress, NameOf
<1>5. ASSUME Clean PROVE CleanMap'
  <2> DEFINE p == pred[current]
  <2>1. CleanGraph /\ \A v \in Vertices : NameOf(v) \in Node
    BY <1>1, <1>5, CleanSoFar
  <2>2. /\ <<p, current>> \in edges
        /\ Dist[Self][NameOf(p)] + 1 = Dist[Self][NameOf(current)]
        /\ Dist[Self][NameOf(current)] + Dist[NameOf(current)][NameOf(vi)] <= Dist[Self][NameOf(vi)]
    BY <1>1, <1>2, <1>5 DEF CleanMap, OnPath
  <2>3. NameOf(current) \in Neighbors(NameOf(p))
    BY <1>2, <2>1, <2>2, CleanEdgeFacts
  <2>4. NameOf(p) \in Node /\ NameOf(current) \in Node /\ NameOf(vi) \in Node /\ Self \in Node
    BY <1>2, <2>1, SelfAssumption
  <2>5. Dist[NameOf(p)][NameOf(vi)] <= Dist[NameOf(current)][NameOf(vi)] + 1
    BY <2>3, <2>4, DistFacts
  <2>6. /\ Dist[Self][NameOf(p)] \in Nat /\ Dist[Self][NameOf(current)] \in Nat
        /\ Dist[NameOf(current)][NameOf(vi)] \in Nat /\ Dist[NameOf(p)][NameOf(vi)] \in Nat
        /\ Dist[Self][NameOf(vi)] \in Nat
    BY <2>4, DistFacts
  <2>7. \A a, b, c, d, e \in Nat : a + 1 = b /\ b + c <= e /\ d <= c + 1 => a + d <= e
    OBVIOUS
  <2>8. Dist[Self][NameOf(p)] + Dist[NameOf(p)][NameOf(vi)] <= Dist[Self][NameOf(vi)]
    BY <2>2, <2>5, <2>6, <2>7
  <2>9. OnPath(current)' /\ OnPath(temp)'
    BY <2>2, <2>8 DEF OnPath, NameOf
  <2>10. temp' # Source' /\ current' = pred'[temp']
    BY <1>1
  <2>11. \A v \in Vertices' \ {Source'} :
           /\ <<pred'[v], v>> \in edges'
           /\ Dist[Self][NameOf(pred[v])'] + 1 = Dist[Self][NameOf(v)']
    BY <1>1, <1>5 DEF CleanMap, NameOf
  <2>12. QED
    BY <1>1, <1>5, <2>9, <2>10, <2>11 DEF CleanMap
<1>6. CleanMap'
  BY <1>1, <1>5 DEF CleanMap
<1>7. QED
  BY <1>3, <1>4, <1>6

\* The graph is not clean if a walk does not end.
LEMMA PathNeverEndsStep ==
  ASSUME MapInv, PathNeverEnds
  PROVE  MapInv'
<1> USE DEF MapInv, PathNeverEnds, graph, walk, tables
<1>1. Vertices' = Vertices /\ (Clean' <=> Clean) /\ current \in Vertices
  BY DEF Vertices, Clean, TypeOK
<1>2. TypeOK'
  BY <1>1 DEF TypeOK
<1>3. Progress'
  BY DEF Progress
<1>4. ASSUME Clean PROVE FALSE
  <2>1. Dist[Self][NameOf(current)] + 1 = Dist[Self][NameOf(current)]
    BY <1>1, <1>4 DEF CleanMap
  <2>2. NameOf(current) \in Node
    BY <1>1, <1>4, CleanSoFar
  <2>3. Dist[Self][NameOf(current)] \in Nat
    BY <2>2, DistFacts, SelfAssumption
  <2>4. QED
    BY <2>1, <2>3
<1>5. CleanMap'
  BY <1>1, <1>4 DEF CleanMap
<1>6. QED
  BY <1>2, <1>3, <1>5

LEMMA PrintPathStep ==
  ASSUME MapInv, PrintPath
  PROVE  MapInv'
<1> USE DEF MapInv, graph, tables
<1>1. /\ graph_name' = graph_name /\ netnode_nhops' = netnode_nhops /\ names' = names
      /\ edges' = edges /\ pred' = pred /\ dist' = dist /\ UNCHANGED tables /\ pc = "print"
  BY DEF PrintPath
<1>2. /\ Vertices' = Vertices /\ (Clean' <=> Clean) /\ CleanEdges' = CleanEdges
      /\ Source' = Source
  BY <1>1 DEF Vertices, Clean, CleanEdges, NameOf, Source, VertexOf
<1>3. PICK v \in Vertices :
        pc' \in {"print", "port"} /\ vi' = v /\ current' = v /\ temp' = v
        /\ (pc' = "port" => v = 0)
  <2>1. CASE vi + 1 \in Vertices
    BY <1>1, <2>1 DEF PrintPath, NextWalk, WalkFrom
  <2>2. CASE vi + 1 \notin Vertices
    <3>1. 0 \in Vertices
      BY <1>1 DEF TypeOK, Vertices
    <3>2. QED
      BY <1>1, <2>2, <3>1 DEF PrintPath, NextWalk, WalkFrom
  <2>3. QED
    BY <2>1, <2>2
<1>4. TypeOK'
  BY <1>1, <1>2, <1>3 DEF TypeOK
<1>5. Progress'
  BY <1>1, <1>2, <1>3 DEF Progress
<1>6. ASSUME Clean PROVE CleanMap'
  <2>1. NameOf(v) \in Node /\ Self \in Node
    BY <1>1, <1>6, CleanSoFar, SelfAssumption
  <2>2. Dist[Self][NameOf(v)] \in Nat /\ Dist[NameOf(v)][NameOf(v)] = 0
    BY <2>1, DistFacts
  <2>3. OnPath(current)' /\ OnPath(temp)'
    BY <1>1, <1>3, <2>2 DEF OnPath, NameOf
  <2>4. \A u \in Vertices' \ {Source'} :
           /\ <<pred'[u], u>> \in edges'
           /\ Dist[Self][NameOf(pred[u])'] + 1 = Dist[Self][NameOf(u)']
    BY <1>1, <1>2, <1>6 DEF CleanMap, NameOf
  <2>5. /\ edges' = CleanEdges' /\ dest_dist' = Dist[Self] /\ DOMAIN dest_port' = {}
        /\ DOMAIN nhop_dest_dist' = {}
    BY <1>1, <1>2, <1>6 DEF CleanMap, Progress
  <2>6. QED
    BY <1>2, <1>3, <1>6, <2>3, <2>4, <2>5 DEF CleanMap
<1>7. CleanMap'
  BY <1>2, <1>6 DEF CleanMap
<1>8. QED
  BY <1>4, <1>5, <1>7

\* The port that is filled in for vertex vi.
FirstPort == IF NameOf(temp) \in DOMAIN NhopPort THEN NhopPort[NameOf(temp)] ELSE 0

\* On a clean graph it leads to a neighbour that is one link nearer.
LEMMA FirstPortTowards ==
  ASSUME MapInv, Clean, pc = "port", current = Source, NameOf(vi) # Self
  PROVE  /\ FirstPort \in DOMAIN NbrTbl /\ Towards(NameOf(vi), NbrTbl[FirstPort])
<1> DEFINE n == NameOf(temp)
<1>1. /\ CleanGraph /\ \A v \in Vertices : NameOf(v) \in Node
      /\ NameOf(Source) = Self /\ Self \in Node
  BY CleanSoFar, SelfAssumption
<1>2. temp \in Vertices /\ vi \in Vertices /\ Source \in Vertices
  BY CleanSoFar DEF MapInv, TypeOK
<1>3. temp # Source /\ current = pred[temp]
  BY <1>1 DEF MapInv, CleanMap
<1>4. <<Source, temp>> \in edges /\ Dist[Self][Self] + 1 = Dist[Self][n] /\ OnPath(temp)
  BY <1>1, <1>2, <1>3 DEF MapInv, CleanMap
<1>5. n \in Neighbors(Self)
  BY <1>1, <1>2, <1>4, CleanEdgeFacts
<1>6. n \in Node /\ NameOf(vi) \in Node
  BY <1>1, <1>2
<1>7. /\ Dist[Self][Self] = 0 /\ Dist[Self][n] \in Nat /\ Dist[Self][NameOf(vi)] \in Nat
      /\ Dist[n][NameOf(vi)] \in Nat /\ Dist[Self][NameOf(vi)] <= Dist[n][NameOf(vi)] + 1
  BY <1>1, <1>5, <1>6, DistFacts
<1>8. Dist[Self][n] + Dist[n][NameOf(vi)] <= Dist[Self][NameOf(vi)]
  BY <1>4 DEF OnPath
<1>9. \A a, b, c \in Nat : a = 1 /\ a + b <= c /\ c <= b + 1 => c = b + 1
  OBVIOUS
<1>10. Dist[Self][n] = 1
  BY <1>4, <1>7
<1>11. Dist[Self][NameOf(vi)] = Dist[n][NameOf(vi)] + 1
  BY <1>7, <1>8, <1>9, <1>10
<1>12. FirstPort = NhopPort[n] /\ NhopPort[n] \in DOMAIN NbrTbl /\ NbrTbl[NhopPort[n]] = n
  BY <1>5, NhopPortFacts, OwnNeighbors DEF FirstPort
<1>13. QED
  BY <1>11, <1>12 DEF Towards

LEMMA FillPortStep ==
  ASSUME MapInv, FillPort
  PROVE  MapInv'
<1> USE DEF MapInv, graph
<1> DEFINE c0 == NameOf(vi)
<1>1. /\ graph_name' = graph_name /\ netnode_nhops' = netnode_nhops /\ names' = names
      /\ edges' = edges /\ pred' = pred /\ dist' = dist /\ dest_dist' = dest_dist
      /\ nhop_dest_dist' = nhop_dest_dist /\ pc = "port" /\ current = Source
      /\ dest_port' = [c \in DOMAIN dest_port \cup {c0} |->
                         IF c \in DOMAIN dest_port THEN dest_port[c] ELSE FirstPort]
  BY DEF FillPort, FirstPort
<1>2. /\ Vertices' = Vertices /\ (Clean' <=> Clean) /\ CleanEdges' = CleanEdges
      /\ Source' = Source
  BY <1>1 DEF Vertices, Clean, CleanEdges, NameOf, Source, VertexOf
<1>3. vi \in Vertices /\ Len(names) \in Nat /\ vi \in 0 .. Len(names) - 1
  BY <1>1 DEF TypeOK, Vertices
<1>4. PICK v \in Vertices :
        /\ vi' = v /\ current' = v /\ temp' = v
        /\ \/ pc' = "port" /\ v = vi + 1
           \/ pc' = "nhop" /\ vi + 1 \notin Vertices
  <2>1. CASE vi + 1 \in Vertices
    BY <1>1, <2>1 DEF FillPort, NextWalk, WalkFrom
  <2>2. CASE vi + 1 \notin Vertices
    <3>1. 0 \in Vertices
      BY <1>3 DEF Vertices
    <3>2. QED
      BY <1>1, <2>2, <3>1 DEF FillPort, NextWalk, WalkFrom
  <2>3. QED
    BY <2>1, <2>2
<1>5. c0 \in Range(names) /\ c0 \in Id /\ FirstPort \in 0 .. Len(NbrTbl)
  <2>1. vi + 1 \in DOMAIN names /\ names \in Seq(Id)
    BY <1>3 DEF TypeOK
  <2>2. c0 \in Range(names) /\ c0 \in Id
    BY <2>1 DEF NameOf, Range
  <2>3. DOMAIN NbrTbl = 1 .. Len(NbrTbl) /\ Len(NbrTbl) \in Nat
    BY SelfAssumption
  <2>4. FirstPort \in 0 .. Len(NbrTbl)
    BY <2>3, NhopPortFacts DEF FirstPort
  <2>5. QED
    BY <2>2, <2>4
<1>6. TypeOK'
  <2>1. \A c \in DOMAIN dest_port' : c \in Id /\ dest_port'[c] \in 0 .. Len(NbrTbl)
    BY <1>1, <1>5 DEF TypeOK
  <2>2. QED
    BY <1>1, <1>2, <1>4, <2>1 DEF TypeOK
<1>7. \A u \in 0 .. vi : NameOf(u) \in DOMAIN dest_port'
  <2> SUFFICES ASSUME NEW u \in 0 .. vi PROVE NameOf(u) \in DOMAIN dest_port'
    OBVIOUS
  <2>1. u = vi \/ u \in 0 .. vi - 1
    BY <1>3
  <2>2. \A x \in 0 .. vi - 1 : NameOf(x) \in DOMAIN dest_port
    BY <1>1 DEF Progress
  <2>3. QED
    BY <1>1, <2>1, <2>2
<1>8. Progress'
  <2>1. pc' = "port" => \A u \in 0 .. vi' - 1 : NameOf(u)' \in DOMAIN dest_port'
    <3> SUFFICES ASSUME pc' = "port", NEW u \in 0 .. vi' - 1
                 PROVE  NameOf(u)' \in DOMAIN dest_port'
      OBVIOUS
    <3>1. u \in 0 .. vi
      BY <1>3, <1>4
    <3>2. QED
      BY <1>1, <1>7, <3>1 DEF NameOf
  <2>2. pc' = "nhop" => Range(names') \subseteq DOMAIN dest_port'
    <3> SUFFICES ASSUME pc' = "nhop", NEW i \in DOMAIN names
                 PROVE  names[i] \in DOMAIN dest_port'
      BY <1>1 DEF Range
    <3>1. i \in 1 .. Len(names) /\ vi + 1 \notin Vertices
      BY <1>4 DEF TypeOK
    <3>2. vi + 1 = Len(names)
      BY <1>3, <3>1 DEF Vertices
    <3>3. i - 1 \in 0 .. vi /\ NameOf(i - 1) = names[i]
      BY <1>3, <3>1, <3>2 DEF NameOf
    <3>4. QED
      BY <1>7, <3>3
  <2>3. DOMAIN nhop_dest_dist' # Range(NbrTbl) /\ nhop_dest_dist' = <<>>
    BY <1>1, OwnNeighbors DEF Progress
  <2>4. /\ Len(graph_name') = NumNodes /\ Self \in Range(names') /\ Self \in DOMAIN netnode_nhops'
        /\ pred' \in [Vertices' -> Vertices'] /\ DOMAIN dest_dist' = Range(names')
        /\ pc' \in {"port", "nhop"}
    BY <1>1, <1>2, <1>4 DEF Progress
  <2>5. QED
    BY <2>1, <2>2, <2>3, <2>4 DEF Progress
<1>9. ASSUME Clean PROVE CleanMap'
  <2>1. NameOf(v) \in Node /\ Self \in Node /\ c0 \in Node
    BY <1>1, <1>3, <1>9, CleanSoFar, SelfAssumption
  <2>2. Dist[Self][NameOf(v)] \in Nat /\ Dist[NameOf(v)][NameOf(v)] = 0
    BY <2>1, DistFacts
  <2>3. OnPath(current)' /\ OnPath(temp)'
    BY <1>1, <1>4, <2>2 DEF OnPath, NameOf
  <2>4. \A u \in Vertices' \ {Source'} :
           /\ <<pred'[u], u>> \in edges'
           /\ Dist[Self][NameOf(pred[u])'] + 1 = Dist[Self][NameOf(u)']
    BY <1>1, <1>2, <1>9 DEF CleanMap, NameOf
  <2>5. \A c \in DOMAIN dest_port' : c \in Node
           /\ (c # Self => dest_port'[c] \in DOMAIN NbrTbl /\ Towards(c, NbrTbl[dest_port'[c]]))
    <3>1. c0 # Self => FirstPort \in DOMAIN NbrTbl /\ Towards(c0, NbrTbl[FirstPort])
      BY <1>1, <1>9, FirstPortTowards
    <3>2. \A c \in DOMAIN dest_port : c \in Node
           /\ (c # Self => dest_port[c] \in DOMAIN NbrTbl /\ Towards(c, NbrTbl[dest_port[c]]))
      BY <1>9 DEF CleanMap
    <3>3. QED
      BY <1>1, <2>1, <3>1, <3>2
  <2>6. /\ edges' = CleanEdges' /\ dest_dist' = Dist[Self] /\ DOMAIN nhop_dest_dist' = {}
    BY <1>1, <1>2, <1>9 DEF CleanMap, Progress
  <2>7. \A c \in DOMAIN dest_port' : c \in Node
           /\ (c # Self => /\ dest_port'[c] \in DOMAIN NbrTbl
                          /\ Dist[Self][c] = Dist[NbrTbl[dest_port'[c]]][c] + 1)
    BY <2>5 DEF Towards
  <2>8. QED
    BY <1>2, <1>4, <1>9, <2>3, <2>4, <2>6, <2>7 DEF CleanMap, Towards
<1>10. CleanMap'
  BY <1>2, <1>9 DEF CleanMap
<1>11. QED
  BY <1>6, <1>8, <1>10

LEMMA FillNhopStep ==
  ASSUME MapInv, FillNhop
  PROVE  MapInv'
<1> USE DEF MapInv, graph, walk
<1> DEFINE n0 == NextNeighbor
           D == DOMAIN nhop_dest_dist
<1>1. PICK w \in Vertices : FillRow(VertexOf(n0, w))
  BY DEF FillNhop
<1> DEFINE s == VertexOf(n0, w)
           row == [c \in Range(names) |-> dist'[LastVertexOf(c)]]
<1>2. /\ graph_name' = graph_name /\ netnode_nhops' = netnode_nhops /\ names' = names
      /\ edges' = edges /\ pred' = pred /\ dest_dist' = dest_dist /\ dest_port' = dest_port
      /\ vi' = vi /\ current' = current /\ temp' = temp /\ pc = "nhop"
      /\ dist' \in Distances(s)
      /\ nhop_dest_dist' = [n \in D \cup {n0} |-> IF n \in D THEN nhop_dest_dist[n] ELSE row]
      /\ pc' = IF DOMAIN nhop_dest_dist' = Range(NbrTbl) THEN "done" ELSE "nhop"
  BY <1>1, NhopPortFacts DEF FillRow, FillNhop
<1>3. /\ Vertices' = Vertices /\ (Clean' <=> Clean) /\ CleanEdges' = CleanEdges
      /\ Source' = Source
  BY <1>2 DEF Vertices, Clean, CleanEdges, NameOf, Source, VertexOf
<1>4. n0 \in Range(NbrTbl) \ D
  BY <1>2, NextNeighborFacts DEF TypeOK, Progress
<1>5. dist' \in [Vertices -> Vertices \cup {INT_MAX}] /\ pred \in [Vertices -> Vertices]
  BY <1>2 DEF Distances, Progress
<1>6. DOMAIN nhop_dest_dist' = D \cup {n0} /\ D \subseteq Range(NbrTbl)
  BY <1>2 DEF TypeOK
<1>7. TypeOK'
  <2>1. \A v \in DOMAIN dist' : dist'[v] \in Vertices \cup {INT_MAX} /\ pred'[v] \in Vertices
    BY <1>2, <1>5
  <2>2. DOMAIN dist' = DOMAIN pred'
    BY <1>2, <1>5
  <2>3. pc' \in {"done", "nhop"}
    BY <1>2
  <2>4. QED
    BY <1>2, <1>3, <1>4, <1>6, <2>1, <2>2, <2>3 DEF TypeOK
<1>8. Progress'
  <2>1. \A c \in Range(names) : LastVertexOf(c) \in Vertices
    BY VertexFacts DEF TypeOK
  <2>2. \A v \in Vertices : dist'[v] \in Nat
    <3>1. \A v \in Vertices : v \in Nat
      BY DEF Vertices
    <3>2. QED
      BY <1>5, <3>1, IntMaxType
  <2>3. row \in [Range(names) -> Nat]
    BY <2>1, <2>2
  <2>4. nhop_dest_dist' \in [DOMAIN nhop_dest_dist' -> [Range(names) -> Nat]]
    BY <1>2, <2>3 DEF Progress
  <2>5. QED
    BY <1>2, <1>3, <2>4 DEF Progress
<1>9. ASSUME Clean PROVE CleanMap'
  <2>1. CleanGraph /\ Range(names) = Node /\ n0 \in Node
    BY <1>2, <1>4, <1>9, CleanSoFar, OwnNeighbors
  <2>2. s \in Vertices /\ NameOf(s) = n0
    BY <2>1, CleanVertices DEF CleanGraph
  <2>3. \A v \in Vertices : dist'[v] = Dist[NameOf(v)][NameOf(s)]
    BY <1>2, <2>1, <2>2, DistancesClean
  <2>4. \A c \in Node : dist'[LastVertexOf(c)] = Dist[n0][c]
    <3> SUFFICES ASSUME NEW c \in Node PROVE dist'[LastVertexOf(c)] = Dist[n0][c]
      OBVIOUS
    <3>1. LastVertexOf(c) \in Vertices /\ NameOf(LastVertexOf(c)) = c
      BY <2>1, CleanVertices DEF CleanGraph
    <3>2. QED
      BY <2>1, <2>2, <2>3, <3>1, DistSymmetric
  <2>5. row = Dist[n0]
    BY <2>1, <2>4, DijkstraAssumption
  <2>6. \A n \in DOMAIN nhop_dest_dist' : nhop_dest_dist'[n] = Dist[n]
    BY <1>2, <1>9, <2>5 DEF CleanMap
  <2>7. edges' = CleanEdges' /\ dest_dist' = Dist[Self]
    BY <1>2, <1>3, <1>9 DEF CleanMap
  <2>8. \A c \in DOMAIN dest_port' : c \in Node
           /\ (c # Self => /\ dest_port'[c] \in DOMAIN NbrTbl
                          /\ Dist[Self][c] = Dist[NbrTbl[dest_port'[c]]][c] + 1)
    BY <1>2, <1>9 DEF CleanMap, Towards
  <2>9. pc' \in {"done", "nhop"}
    BY <1>2
  <2>10. QED
    BY <2>6, <2>7, <2>8, <2>9 DEF CleanMap, Towards
<1>10. CleanMap'
  BY <1>3, <1>9 DEF CleanMap
<1>11. QED
  BY <1>7, <1>8, <1>10

LEMMA FillNhopDiesStep ==
  ASSUME MapInv, FillNhopDies
  PROVE  MapInv'
<1>1. /\ pc = "nhop" /\ NextNeighbor \notin Range(names)
      /\ pc' = "dead" /\ UNCHANGED <<graph, pred, dist, walk, tables>>
  BY DEF FillNhopDies
<1>2. ~Clean
  <2> SUFFICES ASSUME Clean PROVE FALSE
    OBVIOUS
  <2>1. NextNeighbor \in Range(NbrTbl)
    BY <1>1, NextNeighborFacts DEF MapInv, TypeOK, Progress
  <2>2. QED
    BY <1>1, <2>1, CleanSoFar, OwnNeighbors
<1>3. QED
  BY <1>1, <1>2, DiesUnclean

LEMMA BuildSteps ==
  ASSUME MapInv, BuildStep
  PROVE  MapInv'
BY CopyMapStep, BuildGraphStep, BuildGraphGrownStep, BuildGraphThrowsStep, PublishStep,
   FillDistStep, StepBackStep, PathNeverEndsStep, PrintPathStep, FillPortStep, FillNhopStep,
   FillNhopDiesStep DEF BuildStep

\* What calls leave of the map.
LEMMA MapLeftAlone ==
  ASSUME MapInv,
         \/ UNCHANGED mapVars
         \/ pc # "copy" /\ pc' = "killed" /\ UNCHANGED <<graph, pred, dist, walk, tables>>
  PROVE  MapInv'
<1> USE DEF MapInv, mapVars, graph, walk, tables
<1>1. /\ graph_name' = graph_name /\ netnode_nhops' = netnode_nhops /\ names' = names
      /\ edges' = edges /\ pred' = pred /\ dist' = dist
      /\ vi' = vi /\ current' = current /\ temp' = temp /\ dest_dist' = dest_dist
      /\ dest_port' = dest_port /\ nhop_dest_dist' = nhop_dest_dist
      /\ pc' = pc \/ (pc # "copy" /\ pc' = "killed")
  OBVIOUS
<1>2. /\ Vertices' = Vertices /\ (Clean' <=> Clean) /\ CleanEdges' = CleanEdges
      /\ Source' = Source
  BY <1>1 DEF Vertices, Clean, CleanEdges, NameOf, Source, VertexOf
<1>3. TypeOK'
  BY <1>1, <1>2 DEF TypeOK
<1>4. Progress'
  BY <1>1, <1>2 DEF Progress, NameOf
<1>5. CleanMap'
  BY <1>1, <1>2 DEF CleanMap, OnPath, Towards, NameOf
<1>6. QED
  BY <1>3, <1>4, <1>5

-----------------------------------------------------------------------------
(* The order in which the loops try next hops.                             *)

Ordered(ns, s) ==
  /\ s \in [1 .. Cardinality(ns) -> ns]
  /\ \A i, j \in DOMAIN s : i < j => Letter[s[i]] < Letter[s[j]]

LEMMA OrderedExists ==
  ASSUME NEW ns \in SUBSET Node
  PROVE  \E s : Ordered(ns, s)
<1> DEFINE Bad(m, k) == m \in SUBSET Node /\ Cardinality(m) = k /\ ~\E s : Ordered(m, s)
           T == {k \in Nat : \E m \in SUBSET Node : Bad(m, k)}
<1> SUFFICES ASSUME ~\E s : Ordered(ns, s) PROVE FALSE
  OBVIOUS
<1>1. \A m \in SUBSET Node : IsFiniteSet(m) /\ Cardinality(m) \in Nat
  BY SelfAssumption, FS_Subset, FS_CardinalityType
<1>2. T \subseteq Nat /\ Cardinality(ns) \in T
  BY <1>1
<1>3. PICK k \in T : \A l \in T : k <= l
  BY <1>2, LeastNumber
<1>4. PICK m \in SUBSET Node : Bad(m, k)
  BY <1>3
<1>5. m # {}
  <2> SUFFICES ASSUME m = {} PROVE FALSE
    OBVIOUS
  <2>1. Cardinality(m) = 0
    BY FS_EmptySet
  <2>2. Ordered(m, <<>>)
    BY <2>1 DEF Ordered
  <2>3. QED
    BY <1>4, <2>2
<1>6. \A x \in m : Letter[x] \in Nat
  BY LetterAssumption
<1> DEFINE L == {Letter[x] : x \in m}
<1>7. L \subseteq Nat /\ L # {}
  BY <1>5, <1>6
<1>8. PICK a \in L : \A b \in L : a <= b
  BY <1>7, LeastNumber
<1>9. PICK x \in m : Letter[x] = a
  BY <1>8
<1>10. \A y \in m \ {x} : Letter[x] < Letter[y]
  <2> SUFFICES ASSUME NEW y \in m \ {x} PROVE Letter[x] < Letter[y]
    OBVIOUS
  <2>1. Letter[x] <= Letter[y]
    BY <1>8, <1>9
  <2>2. Letter[x] # Letter[y]
    BY LetterAssumption
  <2>3. QED
    BY <1>6, <2>1, <2>2
<1> DEFINE r == m \ {x}
<1>11. k \in Nat \ {0} /\ Cardinality(m) = k /\ Cardinality(r) = k - 1
  <2>1. Cardinality(m) = k /\ k \in Nat /\ IsFiniteSet(m)
    BY <1>1, <1>4
  <2>2. k # 0
    BY <1>5, <2>1, FS_EmptySet
  <2>3. Cardinality(r) = Cardinality(m) - 1
    BY <2>1, FS_RemoveElement
  <2>4. QED
    BY <2>1, <2>2, <2>3
<1>12. k - 1 \notin T
  BY <1>3, <1>11
<1>13. PICK s : Ordered(r, s)
  BY <1>11, <1>12
<1> DEFINE q == [i \in 1 .. k |-> IF i = 1 THEN x ELSE s[i - 1]]
<1>14. /\ s \in [1 .. k - 1 -> r]
       /\ \A i, j \in 1 .. k - 1 : i < j => Letter[s[i]] < Letter[s[j]]
  BY <1>11, <1>13 DEF Ordered
<1>15. \A i \in 2 .. k : i - 1 \in 1 .. k - 1 /\ q[i] = s[i - 1]
  BY <1>11
<1>16. 1 \in 1 .. k /\ q[1] = x
  BY <1>11
<1>17. \A i \in 1 .. k : q[i] \in m
  <2> SUFFICES ASSUME NEW i \in 1 .. k PROVE q[i] \in m
    OBVIOUS
  <2>1. i = 1 \/ i \in 2 .. k
    BY <1>11
  <2>2. QED
    BY <1>9, <1>14, <1>15, <1>16, <2>1
<1>18. \A i, j \in 1 .. k : i < j => Letter[q[i]] < Letter[q[j]]
  <2> SUFFICES ASSUME NEW i \in 1 .. k, NEW j \in 1 .. k, i < j
               PROVE  Letter[q[i]] < Letter[q[j]]
    OBVIOUS
  <2>1. j \in 2 .. k /\ (i = 1 \/ i \in 2 .. k) /\ i - 1 < j - 1
    BY <1>11
  <2> HIDE DEF q
  <2>2. CASE i = 1
    BY <1>10, <1>14, <1>15, <1>16, <2>1, <2>2
  <2>3. CASE i \in 2 .. k
    BY <1>14, <1>15, <2>1, <2>3
  <2>4. QED
    BY <2>1, <2>2, <2>3
<1>19. q \in [1 .. k -> m] /\ DOMAIN q = 1 .. k
  BY <1>17
<1> HIDE DEF q
<1>20. Ordered(m, q)
  BY <1>11, <1>18, <1>19 DEF Ordered
<1>21. QED
  BY <1>4, <1>20

LEMMA InOrderFacts ==
  ASSUME NEW ns \in SUBSET Node
  PROVE  /\ Cardinality(ns) \in Nat
         /\ InOrder(ns) \in [1 .. Cardinality(ns) -> ns]
         /\ DOMAIN InOrder(ns) = 1 .. Cardinality(ns)
         /\ \A i, j \in DOMAIN InOrder(ns) :
              i < j => Letter[InOrder(ns)[i]] < Letter[InOrder(ns)[j]]
         /\ \A n \in ns : \E i \in DOMAIN InOrder(ns) : InOrder(ns)[i] = n
<1> DEFINE s == InOrder(ns)
           D == 1 .. Cardinality(ns)
<1>1. Cardinality(ns) \in Nat /\ IsFiniteSet(ns)
  BY SelfAssumption, FS_Subset, FS_CardinalityType
<1>2. Ordered(ns, s)
  <2>1. \E q \in [1 .. Cardinality(ns) -> ns] :
          \A i, j \in DOMAIN q : i < j => Letter[q[i]] < Letter[q[j]]
    BY OrderedExists DEF Ordered
  <2>2. QED
    BY <2>1 DEF InOrder, Ordered
<1>3. s \in [D -> ns] /\ \A i, j \in D : i < j => Letter[s[i]] < Letter[s[j]]
  BY <1>2 DEF Ordered
<1> HIDE DEF s
<1>4. s \in Injection(D, ns)
  <2> SUFFICES ASSUME NEW i \in D, NEW j \in D, s[i] = s[j] PROVE i = j
    BY <1>3 DEF Injection, IsInjective
  <2>1. i \in Nat /\ j \in Nat /\ Letter[s[i]] \in Nat
    BY <1>1, <1>3, LetterAssumption
  <2>2. ~(i < j) /\ ~(j < i)
    BY <1>3, <2>1
  <2>3. QED
    BY <2>1, <2>2
<1>5. Cardinality(D) = Cardinality(ns) /\ IsFiniteSet(D)
  <2>1. IsFiniteSet(D) /\ Cardinality(D) = IF 1 > Cardinality(ns) THEN 0 ELSE Cardinality(ns) - 1 + 1
    BY <1>1, FS_Interval
  <2>2. QED
    BY <1>1, <2>1
<1>6. s \in Surjection(D, ns)
  BY <1>1, <1>4, <1>5, FS_Injection
<1>7. \A n \in ns : \E i \in D : s[i] = n
  BY <1>6 DEF Surjection
<1>8. QED
  BY <1>1, <1>3, <1>7 DEF s

\* Some of the neighbours in order: no more than there are indices.
LEMMA SomeInOrder ==
  ASSUME NEW ns \in SUBSET Range(NbrTbl)
  PROVE  /\ ns \in SUBSET Node /\ DOMAIN InOrder(ns) \subseteq Index
         /\ DOMAIN InOrder(ns) = 1 .. Cardinality(ns) /\ Cardinality(ns) \in Nat
         /\ \A i \in DOMAIN InOrder(ns) : InOrder(ns)[i] \in ns
<1>1. ns \in SUBSET Node
  BY OwnNeighbors
<1>2. /\ Cardinality(ns) <= Cardinality(Range(NbrTbl))
      /\ Cardinality(ns) \in Nat /\ Cardinality(Range(NbrTbl)) \in Nat
  BY OwnNeighbors, FS_Subset, FS_CardinalityType
<1>3. /\ InOrder(ns) \in [1 .. Cardinality(ns) -> ns]
      /\ DOMAIN InOrder(ns) = 1 .. Cardinality(ns)
  BY <1>1, InOrderFacts
<1>4. DOMAIN InOrder(ns) \subseteq Index
  BY <1>2, <1>3 DEF Index
<1>5. QED
  BY <1>1, <1>2, <1>3, <1>4

LEMMA ChoicesFacts ==
  ASSUME NEW d
  PROVE  /\ Possible(Self, d) \in SUBSET Range(NbrTbl)
         /\ DOMAIN Choices(d) \subseteq Index
         /\ DOMAIN Choices(d) = 1 .. Cardinality(Possible(Self, d))
         /\ Cardinality(Possible(Self, d)) \in Nat
         /\ \A i \in DOMAIN Choices(d) : Choices(d)[i] \in Possible(Self, d)
         /\ \A i, j \in DOMAIN Choices(d) : i < j => Letter[Choices(d)[i]] < Letter[Choices(d)[j]]
         /\ \A n \in Possible(Self, d) : \E i \in DOMAIN Choices(d) : Choices(d)[i] = n
<1>1. Possible(Self, d) \in SUBSET Range(NbrTbl)
  BY OwnNeighbors DEF Possible
<1>2. Possible(Self, d) \in SUBSET Node
  BY <1>1, SomeInOrder
<1>3. /\ DOMAIN Choices(d) \subseteq Index
      /\ DOMAIN Choices(d) = 1 .. Cardinality(Possible(Self, d))
      /\ Cardinality(Possible(Self, d)) \in Nat
      /\ \A i \in DOMAIN Choices(d) : Choices(d)[i] \in Possible(Self, d)
  BY <1>1, SomeInOrder DEF Choices
<1>4. /\ \A i, j \in DOMAIN Choices(d) : i < j => Letter[Choices(d)[i]] < Letter[Choices(d)[j]]
      /\ \A n \in Possible(Self, d) : \E i \in DOMAIN Choices(d) : Choices(d)[i] = n
  BY <1>2, InOrderFacts DEF Choices
<1>5. QED
  BY <1>1, <1>3, <1>4

\* By the tables of a clean map the possible next hops are those of NextHops.
LEMMA PossibleOfClean ==
  ASSUME MapInv, Clean, pc = "done", NEW d \in Node
  PROVE  PossibleOf(d) = Choices(d)
<1>1. /\ DOMAIN nhop_dest_dist = Neighbors(Self) /\ dest_dist = Dist[Self]
      /\ \A n \in DOMAIN nhop_dest_dist : nhop_dest_dist[n] = Dist[n]
  BY OwnNeighbors DEF MapInv, Progress, CleanMap
<1>2. {n \in DOMAIN nhop_dest_dist : dest_dist[d] >= nhop_dest_dist[n][d]} = Possible(Self, d)
  BY <1>1 DEF Possible
<1>3. QED
  BY <1>2 DEF PossibleOf, Choices

LEMMA EntriesForFacts ==
  ASSUME TypeOK, NEW d \in Node
  PROVE  /\ EntriesFor(d) \in Seq(Entry)
         /\ \A m \in DOMAIN EntriesFor(d) :
              /\ EntriesFor(d)[m].dest = d /\ EntriesFor(d)[m].index \in DOMAIN PossibleOf(d)
              /\ EntriesFor(d)[m].nhop = PossibleOf(d)[EntriesFor(d)[m].index]
         /\ \A i \in DOMAIN PossibleOf(d) :
              \E m \in DOMAIN EntriesFor(d) : EntriesFor(d)[m].dest = d /\ EntriesFor(d)[m].index = i
<1> DEFINE ns == {n \in DOMAIN nhop_dest_dist : dest_dist[d] >= nhop_dest_dist[n][d]}
           s == PossibleOf(d)
<1>1. ns \in SUBSET Range(NbrTbl)
  BY DEF TypeOK
<1>2. s = InOrder(ns)
  BY DEF PossibleOf
<1>3. /\ DOMAIN s \subseteq Index /\ \A i \in DOMAIN s : s[i] \in Range(NbrTbl)
      /\ DOMAIN s = 1 .. Cardinality(ns) /\ Cardinality(ns) \in Nat
  <2> HIDE DEF ns
  <2>1. QED
    BY <1>1, <1>2, SomeInOrder
<1> HIDE DEF s
<1>4. EntriesFor(d) = [i \in DOMAIN s |-> [dest |-> d, index |-> i, nhop |-> s[i]]]
  BY DEF EntriesFor, s
<1>5. \A i \in DOMAIN s : [dest |-> d, index |-> i, nhop |-> s[i]] \in Entry
  BY <1>3 DEF Entry
<1>6. EntriesFor(d) \in [1 .. Cardinality(ns) -> Entry]
  BY <1>3, <1>4, <1>5
<1>7. EntriesFor(d) \in Seq(Entry)
  <2>1. \A n \in Nat : \A f \in [1 .. n -> Entry] : f \in Seq(Entry)
    OBVIOUS
  <2>2. QED
    BY <1>3, <1>6, <2>1
<1>8. QED
  BY <1>4, <1>7 DEF s

\* s holds what a and b hold.
Holds(s, a, b) ==
  /\ \A j \in DOMAIN s : (\E m \in DOMAIN a : s[j] = a[m]) \/ (\E m \in DOMAIN b : s[j] = b[m])
  /\ \A m \in DOMAIN a : \E j \in DOMAIN s : s[j] = a[m]
  /\ \A m \in DOMAIN b : \E j \in DOMAIN s : s[j] = b[m]

LEMMA Joined ==
  ASSUME NEW S, NEW a \in Seq(S), NEW b \in Seq(S)
  PROVE  a \o b \in Seq(S) /\ Holds(a \o b, a, b)
<1>1. /\ a \o b \in Seq(S) /\ Len(a) \in Nat /\ Len(b) \in Nat
      /\ DOMAIN a = 1 .. Len(a) /\ DOMAIN b = 1 .. Len(b)
      /\ DOMAIN (a \o b) = 1 .. Len(a) + Len(b)
      /\ \A i \in 1 .. Len(a) + Len(b) :
           (a \o b)[i] = IF i <= Len(a) THEN a[i] ELSE b[i - Len(a)]
  BY ConcatProperties
<1>2. ASSUME NEW j \in DOMAIN (a \o b)
      PROVE  \/ \E m \in DOMAIN a : (a \o b)[j] = a[m]
             \/ \E m \in DOMAIN b : (a \o b)[j] = b[m]
  <2>1. CASE j <= Len(a)
    BY <1>1, <2>1
  <2>2. CASE j > Len(a)
    <3>1. j - Len(a) \in 1 .. Len(b) /\ ~(j <= Len(a))
      BY <1>1, <2>2
    <3>2. QED
      BY <1>1, <3>1
  <2>3. QED
    BY <1>1, <2>1, <2>2
<1>3. ASSUME NEW m \in DOMAIN a
      PROVE  \E j \in DOMAIN (a \o b) : (a \o b)[j] = a[m]
  <2>1. m \in 1 .. Len(a) + Len(b) /\ m <= Len(a)
    BY <1>1
  <2>2. QED
    BY <1>1, <2>1
<1>4. ASSUME NEW m \in DOMAIN b
      PROVE  \E j \in DOMAIN (a \o b) : (a \o b)[j] = b[m]
  <2>1. /\ m + Len(a) \in 1 .. Len(a) + Len(b) /\ ~(m + Len(a) <= Len(a))
        /\ (m + Len(a)) - Len(a) = m
    BY <1>1
  <2>2. (a \o b)[m + Len(a)] = b[m]
    BY <1>1, <2>1
  <2>3. QED
    BY <1>1, <2>1, <2>2
<1>5. QED
  BY <1>1, <1>2, <1>3, <1>4 DEF Holds

LEMMA HoldsAll ==
  ASSUME NEW s, NEW ab, NEW a, NEW b, NEW c, Holds(ab, a, b), Holds(s, ab, c)
  PROVE  /\ \A j \in DOMAIN s : \E x \in {a, b, c} : \E m \in DOMAIN x : s[j] = x[m]
         /\ \A x \in {a, b, c} : \A m \in DOMAIN x : \E j \in DOMAIN s : s[j] = x[m]
<1>1. ASSUME NEW j \in DOMAIN s
      PROVE  \E x \in {a, b, c} : \E m \in DOMAIN x : s[j] = x[m]
  <2>1. CASE \E m \in DOMAIN ab : s[j] = ab[m]
    BY <2>1 DEF Holds
  <2>2. CASE \E m \in DOMAIN c : s[j] = c[m]
    BY <2>2
  <2>3. QED
    BY <2>1, <2>2 DEF Holds
<1>2. ASSUME NEW x \in {a, b, c}, NEW m \in DOMAIN x
      PROVE  \E j \in DOMAIN s : s[j] = x[m]
  <2>1. CASE x = c
    BY <2>1 DEF Holds
  <2>2. CASE x \in {a, b}
    <3>1. PICK k \in DOMAIN ab : ab[k] = x[m]
      BY <2>2 DEF Holds
    <3>2. QED
      BY <3>1 DEF Holds
  <2>3. QED
    BY <2>1, <2>2
<1>3. QED
  BY <1>1, <1>2

LEMMA EntriesFacts ==
  ASSUME TypeOK, NEW ds \in DestList
  PROVE  /\ Entries(ds) \in Seq(Entry)
         /\ \A j \in DOMAIN Entries(ds) :
              LET e == Entries(ds)[j]
              IN  /\ e.dest \in Dests(ds) /\ e.dest \in Node
                  /\ e.index \in DOMAIN PossibleOf(e.dest) /\ e.nhop = PossibleOf(e.dest)[e.index]
         /\ \A d \in Dests(ds) : \A i \in DOMAIN PossibleOf(d) :
              \E j \in DOMAIN Entries(ds) : Entries(ds)[j].dest = d /\ Entries(ds)[j].index = i
<1> DEFINE of(i) == IF ds[i] = NoNode THEN <<>> ELSE EntriesFor(ds[i])
           Right(e) == /\ e.dest \in Dests(ds) /\ e.dest \in Node
                       /\ e.index \in DOMAIN PossibleOf(e.dest)
                       /\ e.nhop = PossibleOf(e.dest)[e.index]
<1>1. \A i \in Slot : /\ of(i) \in Seq(Entry)
                      /\ \A m \in DOMAIN of(i) : Right(of(i)[m])
                      /\ ds[i] # NoNode =>
                           \A k \in DOMAIN PossibleOf(ds[i]) :
                             \E m \in DOMAIN of(i) : of(i)[m].dest = ds[i] /\ of(i)[m].index = k
  <2> SUFFICES ASSUME NEW i \in Slot
               PROVE  /\ of(i) \in Seq(Entry)
                      /\ \A m \in DOMAIN of(i) : Right(of(i)[m])
                      /\ ds[i] # NoNode =>
                           \A k \in DOMAIN PossibleOf(ds[i]) :
                             \E m \in DOMAIN of(i) : of(i)[m].dest = ds[i] /\ of(i)[m].index = k
    OBVIOUS
  <2>1. CASE ds[i] = NoNode
    BY <2>1
  <2>2. CASE ds[i] # NoNode
    <3>1. ds[i] \in Node /\ ds[i] \in Dests(ds)
      BY <2>2 DEF DestList, Dests, Range
    <3>2. /\ EntriesFor(ds[i]) \in Seq(Entry)
          /\ \A m \in DOMAIN EntriesFor(ds[i]) :
               /\ EntriesFor(ds[i])[m].dest = ds[i]
               /\ EntriesFor(ds[i])[m].index \in DOMAIN PossibleOf(ds[i])
               /\ EntriesFor(ds[i])[m].nhop = PossibleOf(ds[i])[EntriesFor(ds[i])[m].index]
          /\ \A k \in DOMAIN PossibleOf(ds[i]) : \E m \in DOMAIN EntriesFor(ds[i]) :
               EntriesFor(ds[i])[m].dest = ds[i] /\ EntriesFor(ds[i])[m].index = k
      BY <3>1, EntriesForFacts
    <3>3. QED
      BY <2>2, <3>1, <3>2
  <2>3. QED
    BY <2>1, <2>2
<1>2. Entries(ds) = of(1) \o of(2) \o of(3)
  BY DEF Entries
<1> HIDE DEF of, Right
<1> DEFINE es == Entries(ds)
<1>3. of(1) \in Seq(Entry) /\ of(2) \in Seq(Entry) /\ of(3) \in Seq(Entry) /\ Slot = {1, 2, 3}
  BY <1>1 DEF Slot
<1>4. of(1) \o of(2) \in Seq(Entry) /\ Holds(of(1) \o of(2), of(1), of(2))
  BY <1>3, Joined
<1>5. es \in Seq(Entry) /\ Holds(es, of(1) \o of(2), of(3))
  BY <1>2, <1>3, <1>4, Joined
<1> HIDE DEF es
<1>6. /\ \A j \in DOMAIN es : \E i \in Slot : \E m \in DOMAIN of(i) : es[j] = of(i)[m]
      /\ \A i \in Slot : \A m \in DOMAIN of(i) : \E j \in DOMAIN es : es[j] = of(i)[m]
  BY <1>3, <1>4, <1>5, HoldsAll
<1>7. \A j \in DOMAIN es : Right(es[j])
  BY <1>1, <1>6
<1>8. \A d \in Dests(ds) : \A i \in DOMAIN PossibleOf(d) :
        \E j \in DOMAIN es : es[j].dest = d /\ es[j].index = i
  <2> SUFFICES ASSUME NEW d \in Dests(ds), NEW i \in DOMAIN PossibleOf(d)
               PROVE  \E j \in DOMAIN es : es[j].dest = d /\ es[j].index = i
    OBVIOUS
  <2>1. PICK k \in Slot : ds[k] = d /\ d # NoNode
    BY DEF Dests, Range, DestList
  <2>2. PICK m \in DOMAIN of(k) : of(k)[m].dest = d /\ of(k)[m].index = i
    BY <1>1, <2>1
  <2>3. \E j \in DOMAIN es : es[j] = of(k)[m]
    BY <1>6
  <2>4. QED
    BY <2>2, <2>3
<1>9. QED
  BY <1>5, <1>7, <1>8 DEF Right, es

-----------------------------------------------------------------------------
(* The combination that is left when the loops end.                        *)

LEMMA LexLeast ==
  ASSUME NEW S \in SUBSET [Slot -> Nat], S # {}
  PROVE  \E x \in S : \A y \in S \ {x} : Earlier(x, y)
<1> DEFINE T1 == {x[1] : x \in S}
<1>1. Slot = {1, 2, 3} /\ \A x \in S : x \in [Slot -> Nat]
  BY DEF Slot
<1>2. T1 \subseteq Nat /\ T1 # {}
  BY <1>1
<1>3. PICK a \in T1 : \A m \in T1 : a <= m
  BY <1>2, LeastNumber
<1> DEFINE S1 == {x \in S : x[1] = a}
           T2 == {x[2] : x \in S1}
<1>4. T2 \subseteq Nat /\ T2 # {}
  BY <1>1, <1>3
<1>5. PICK b \in T2 : \A m \in T2 : b <= m
  BY <1>4, LeastNumber
<1> DEFINE S2 == {x \in S1 : x[2] = b}
           T3 == {x[3] : x \in S2}
<1>6. T3 \subseteq Nat /\ T3 # {}
  BY <1>1, <1>5
<1>7. PICK c \in T3 : \A m \in T3 : c <= m
  BY <1>6, LeastNumber
<1>8. PICK x \in S2 : x[3] = c
  BY <1>7
<1>9. x \in S /\ x[1] = a /\ x[2] = b /\ x[3] = c
  BY <1>8
<1>10. ASSUME NEW y \in S \ {x} PROVE Earlier(x, y)
  <2>1. /\ x[1] \in Nat /\ x[2] \in Nat /\ x[3] \in Nat
        /\ y[1] \in Nat /\ y[2] \in Nat /\ y[3] \in Nat
    BY <1>1, <1>9
  <2>2. a <= y[1] /\ (y[1] = a => b <= y[2]) /\ (y[1] = a /\ y[2] = b => c <= y[3])
    BY <1>3, <1>5, <1>7
  <2>3. ~(y[1] = x[1] /\ y[2] = x[2] /\ y[3] = x[3])
    BY <1>1, <1>9
  <2>4. \/ x[1] < y[1]
        \/ x[1] = y[1] /\ x[2] < y[2]
        \/ x[1] = y[1] /\ x[2] = y[2] /\ x[3] < y[3]
    BY <1>9, <2>1, <2>2, <2>3
  <2>5. 1 .. 1 - 1 = {} /\ 1 .. 2 - 1 = {1} /\ 1 .. 3 - 1 = {1, 2}
    OBVIOUS
  <2>6. CASE x[1] < y[1]
    BY <1>1, <2>5, <2>6 DEF Earlier
  <2>7. CASE x[1] = y[1] /\ x[2] < y[2]
    BY <1>1, <2>5, <2>7 DEF Earlier
  <2>8. CASE x[1] = y[1] /\ x[2] = y[2] /\ x[3] < y[3]
    BY <1>1, <2>5, <2>8 DEF Earlier
  <2>9. QED
    BY <2>4, <2>6, <2>7, <2>8
<1>11. QED
  BY <1>9, <1>10

CostAt(ds, x) == CostOf(ds, Combination(ds, x))

LEMMA MinIndexesFacts ==
  ASSUME NEW ds, Indexes(ds) # {}, \A x \in Indexes(ds) : CostAt(ds, x) \in Nat
  PROVE  /\ MinIndexes(ds) \in Indexes(ds)
         /\ \A y \in Indexes(ds) \ {MinIndexes(ds)} :
              \/ CostAt(ds, MinIndexes(ds)) < CostAt(ds, y)
              \/ CostAt(ds, MinIndexes(ds)) = CostAt(ds, y) /\ Earlier(MinIndexes(ds), y)
<1> DEFINE T == {CostAt(ds, x) : x \in Indexes(ds)}
<1>1. T \subseteq Nat /\ T # {}
  OBVIOUS
<1>2. PICK k \in T : \A m \in T : k <= m
  BY <1>1, LeastNumber
<1> DEFINE S == {x \in Indexes(ds) : CostAt(ds, x) = k}
<1>3. S # {} /\ S \in SUBSET [Slot -> Nat]
  <2>1. S # {}
    BY <1>2
  <2>2. Index \subseteq Nat
    BY DEF Index
  <2>3. QED
    BY <2>1, <2>2 DEF Indexes
<1>4. PICK x \in S : \A y \in S \ {x} : Earlier(x, y)
  BY <1>3, LexLeast
<1>5. ASSUME NEW y \in Indexes(ds) \ {x}
      PROVE  CostAt(ds, x) < CostAt(ds, y) \/ (CostAt(ds, x) = CostAt(ds, y) /\ Earlier(x, y))
  <2>1. CostAt(ds, x) = k /\ k <= CostAt(ds, y) /\ CostAt(ds, y) \in Nat /\ k \in Nat
    BY <1>1, <1>2
  <2>2. CASE CostAt(ds, y) = k
    BY <1>4, <2>1, <2>2
  <2>3. CASE CostAt(ds, y) # k
    BY <2>1, <2>3
  <2>4. QED
    BY <2>2, <2>3
<1>6. \E z \in Indexes(ds) : \A y \in Indexes(ds) \ {z} :
        \/ CostOf(ds, Combination(ds, z)) < CostOf(ds, Combination(ds, y))
        \/ /\ CostOf(ds, Combination(ds, z)) = CostOf(ds, Combination(ds, y))
           /\ Earlier(z, y)
  BY <1>5 DEF CostAt
<1>7. QED
  BY <1>6 DEF MinIndexes, CostAt

LEMMA IndexType ==
  /\ Cardinality(Range(NbrTbl)) \in Nat \ {0} /\ Index \subseteq Nat /\ IsFiniteSet(Index)
  /\ 1 \in Index
<1>1. Cardinality(Range(NbrTbl)) \in Nat /\ Cardinality(Range(NbrTbl)) # 0
  BY OwnNeighbors, FS_CardinalityType, FS_EmptySet
<1>2. IsFiniteSet(Index)
  BY <1>1, FS_Interval DEF Index
<1>3. QED
  BY <1>1, <1>2 DEF Index

\* The combinations for a call that has found an entry for each destination.
LEMMA ChoosableFacts ==
  ASSUME QueryTypeOK, NEW ds \in DestList, Choosable(ds)
  PROVE  /\ \A i \in Slot : Size(ds, i) \in Nat /\ 1 <= Size(ds, i)
         /\ Indexes(ds) # {}
         /\ \A x \in Indexes(ds) : \A i \in Slot :
              IF ds[i] = NoNode THEN Combination(ds, x)[i] = NoNode
              ELSE x[i] \in DOMAIN dest_poss_nhop[ds[i]] /\ Combination(ds, x)[i] \in Range(NbrTbl)
<1>1. \A i \in Slot : ds[i] = NoNode \/ ds[i] \in Node
  BY DEF DestList
<1>2. ASSUME NEW i \in Slot PROVE Size(ds, i) \in Nat
  <2>1. CASE ds[i] = NoNode
    BY <2>1 DEF Size
  <2>2. CASE ds[i] # NoNode
    <3>1. DOMAIN dest_poss_nhop[ds[i]] \in SUBSET Index
      BY <1>1, <2>2 DEF QueryTypeOK
    <3>2. Cardinality(DOMAIN dest_poss_nhop[ds[i]]) \in Nat
      BY <3>1, IndexType, FS_Subset, FS_CardinalityType
    <3>3. QED
      BY <2>2, <3>2 DEF Size
  <2>3. QED
    BY <2>1, <2>2
<1>3. \A i \in Slot : Size(ds, i) \in Nat /\ 1 <= Size(ds, i)
  <2>1. \A i \in Slot : Size(ds, i) > 0
    BY DEF Choosable
  <2>2. QED
    BY <1>2, <2>1
<1>4. [i \in Slot |-> 1] \in Indexes(ds)
  BY <1>3, IndexType DEF Indexes
<1>5. ASSUME NEW x \in Indexes(ds), NEW i \in Slot
      PROVE  IF ds[i] = NoNode THEN Combination(ds, x)[i] = NoNode
             ELSE x[i] \in DOMAIN dest_poss_nhop[ds[i]] /\ Combination(ds, x)[i] \in Range(NbrTbl)
  <2>1. CASE ds[i] = NoNode
    BY <2>1 DEF Combination
  <2>2. CASE ds[i] # NoNode
    <3>1. x[i] \in Index /\ x[i] <= Size(ds, i)
      BY DEF Indexes
    <3>2. x[i] \in 1 .. Size(ds, i)
      BY <1>3, <3>1, IndexType DEF Index
    <3>3. x[i] \in DOMAIN dest_poss_nhop[ds[i]]
      BY <2>2, <3>2 DEF Choosable
    <3>4. dest_poss_nhop[ds[i]][x[i]] \in Range(NbrTbl)
      <4>1. Range(dest_poss_nhop[ds[i]]) \subseteq Range(NbrTbl)
        BY <1>1, <2>2 DEF QueryTypeOK
      <4>2. dest_poss_nhop[ds[i]][x[i]] \in Range(dest_poss_nhop[ds[i]])
        BY <3>3 DEF Range
      <4>3. QED
        BY <4>1, <4>2
    <3>5. QED
      BY <2>2, <3>3, <3>4 DEF Combination
  <2>3. QED
    BY <2>1, <2>2
<1>6. QED
  BY <1>3, <1>4, <1>5

LEMMA CostType ==
  ASSUME MapInv, QueryTypeOK, pc = "done", NEW ds \in DestList, Choosable(ds), Listed(ds),
         NEW x \in Indexes(ds)
  PROVE  CostAt(ds, x) \in Nat
<1> DEFINE f == Combination(ds, x)
           cost(i) == IF ds[i] = NoNode THEN 0 ELSE nhop_dest_dist[f[i]][ds[i]] + LinkCost(f, i)
<1>1. ASSUME NEW i \in Slot PROVE cost(i) \in Nat
  <2>1. CASE ds[i] = NoNode
    BY <2>1
  <2>2. CASE ds[i] # NoNode
    <3>1. f[i] \in Range(NbrTbl)
      BY <2>2, ChoosableFacts
    <3>2. ds[i] \in DOMAIN dest_dist
      BY <2>2 DEF Listed, Dests, Range, DestList
    <3>3. nhop_dest_dist[f[i]] \in [Range(names) -> Nat] /\ DOMAIN dest_dist = Range(names)
      BY <3>1 DEF MapInv, Progress
    <3>4. nhop_dest_dist[f[i]][ds[i]] \in Nat
      BY <3>2, <3>3
    <3>5. LinkCost(f, i) \in Nat
      BY DEF LinkCost
    <3>6. QED
      BY <2>2, <3>4, <3>5
  <2>3. QED
    BY <2>1, <2>2
<1>2. CostAt(ds, x) = cost(1) + cost(2) + cost(3)
  BY DEF CostAt, CostOf, Sum, Slot
<1>3. cost(1) \in Nat /\ cost(2) \in Nat /\ cost(3) \in Nat
  BY <1>1 DEF Slot
<1> HIDE DEF cost
<1>4. QED
  BY <1>2, <1>3

\* When the entries for the destinations are the choices, the combinations that the
\* loops try are those of NextHops, and in the same order.
LEMMA CombinationFacts ==
  ASSUME MapInv, QueryTypeOK, pc = "done", Clean, NEW ds \in DestList, Choosable(ds),
         \A i \in Slot : ds[i] # NoNode =>
           /\ DOMAIN dest_poss_nhop[ds[i]] = DOMAIN Choices(ds[i])
           /\ \A k \in DOMAIN Choices(ds[i]) : dest_poss_nhop[ds[i]][k] = Choices(ds[i])[k]
  PROVE  /\ \A x \in Indexes(ds) : /\ Combination(ds, x) \in Combinations(Self, ds)
                                   /\ CostAt(ds, x) = Cost(ds, Combination(ds, x))
         /\ \A g \in Combinations(Self, ds) : \E y \in Indexes(ds) : Combination(ds, y) = g
         /\ \A x, y \in Indexes(ds) : Earlier(x, y) =>
              TriedBefore(ds, Combination(ds, x), Combination(ds, y))
<1>1. ASSUME NEW x \in Indexes(ds), NEW i \in Slot
      PROVE  IF ds[i] = NoNode THEN Combination(ds, x)[i] = NoNode /\ x[i] = 1
             ELSE /\ x[i] \in DOMAIN Choices(ds[i])
                  /\ Combination(ds, x)[i] = Choices(ds[i])[x[i]]
                  /\ Combination(ds, x)[i] \in Possible(Self, ds[i])
  <2>1. CASE ds[i] = NoNode
    <3>1. x[i] \in Index /\ x[i] <= 1
      BY <2>1 DEF Indexes, Size
    <3>2. x[i] = 1
      BY <3>1, IndexType DEF Index
    <3>3. QED
      BY <2>1, <3>2 DEF Combination
  <2>2. CASE ds[i] # NoNode
    <3>1. x[i] \in DOMAIN Choices(ds[i])
      BY <2>2, ChoosableFacts
    <3>2. Combination(ds, x)[i] = Choices(ds[i])[x[i]]
      BY <2>2, <3>1 DEF Combination
    <3>3. QED
      BY <2>2, <3>1, <3>2, ChoicesFacts
  <2>3. QED
    BY <2>1, <2>2
<1>2. ASSUME NEW x \in Indexes(ds)
      PROVE  Combination(ds, x) \in Combinations(Self, ds)
  <2>1. \A i \in Slot : Possible(Self, ds[i]) \subseteq Neighbors(Self)
    BY DEF Possible
  <2>2. Combination(ds, x) \in [Slot -> Neighbors(Self) \cup {NoNode}]
    <3>1. \A i \in Slot : Combination(ds, x)[i] \in Neighbors(Self) \cup {NoNode}
      BY <1>1, <2>1
    <3>2. Combination(ds, x) = [i \in Slot |-> Combination(ds, x)[i]]
      BY DEF Combination
    <3>3. QED
      BY <3>1, <3>2
  <2>3. QED
    BY <1>1, <2>2 DEF Combinations
<1>3. ASSUME NEW x \in Indexes(ds)
      PROVE  CostAt(ds, x) = Cost(ds, Combination(ds, x))
  <2> DEFINE f == Combination(ds, x)
  <2>1. \A i \in Slot : ds[i] # NoNode => nhop_dest_dist[f[i]] = Dist[f[i]]
    <3> SUFFICES ASSUME NEW i \in Slot, ds[i] # NoNode
                 PROVE  nhop_dest_dist[f[i]] = Dist[f[i]]
      OBVIOUS
    <3>1. f[i] \in Range(NbrTbl)
      BY ChoosableFacts
    <3>2. QED
      BY <3>1 DEF MapInv, Progress, CleanMap
  <2>2. [i \in Slot |-> IF ds[i] = NoNode THEN 0
                        ELSE nhop_dest_dist[f[i]][ds[i]] + LinkCost(f, i)]
        = [i \in Slot |-> IF ds[i] = NoNode THEN 0 ELSE Dist[f[i]][ds[i]] + LinkCost(f, i)]
    BY <2>1
  <2>3. QED
    BY <2>2 DEF CostAt, CostOf, Cost
<1>4. ASSUME NEW g \in Combinations(Self, ds)
      PROVE  \E y \in Indexes(ds) : Combination(ds, y) = g
  <2> DEFINE At(i, k) == IF ds[i] = NoNode THEN k = 1
                         ELSE k \in DOMAIN Choices(ds[i]) /\ Choices(ds[i])[k] = g[i]
  <2>1. \A i \in Slot : \E k \in Index : At(i, k)
    <3> SUFFICES ASSUME NEW i \in Slot PROVE \E k \in Index : At(i, k)
      OBVIOUS
    <3>1. CASE ds[i] = NoNode
      BY <3>1, IndexType
    <3>2. CASE ds[i] # NoNode
      <4>1. g[i] \in Possible(Self, ds[i])
        BY <3>2 DEF Combinations
      <4>2. \E k \in DOMAIN Choices(ds[i]) : Choices(ds[i])[k] = g[i]
        BY <4>1, ChoicesFacts
      <4>3. DOMAIN Choices(ds[i]) \subseteq Index
        BY ChoicesFacts
      <4>4. QED
        BY <3>2, <4>2, <4>3
    <3>3. QED
      BY <3>1, <3>2
  <2> DEFINE y == [i \in Slot |-> CHOOSE k \in Index : At(i, k)]
  <2> HIDE DEF At
  <2>2. \A i \in Slot : y[i] \in Index /\ At(i, y[i])
    BY <2>1
  <2>3. y \in [Slot -> Index]
    BY <2>2
  <2> HIDE DEF y
  <2>4. y \in Indexes(ds)
    <3> SUFFICES ASSUME NEW i \in Slot PROVE y[i] <= Size(ds, i)
      BY <2>3 DEF Indexes
    <3>1. CASE ds[i] = NoNode
      BY <2>2, <3>1 DEF At, Size
    <3>2. CASE ds[i] # NoNode
      <4>1. y[i] \in DOMAIN dest_poss_nhop[ds[i]]
        BY <2>2, <3>2 DEF At
      <4>2. y[i] \in 1 .. Size(ds, i) /\ Size(ds, i) \in Nat
        BY <3>2, <4>1, ChoosableFacts DEF Choosable
      <4>3. QED
        BY <4>2
    <3>3. QED
      BY <3>1, <3>2
  <2>5. \A i \in Slot : Combination(ds, y)[i] = g[i]
    <3> SUFFICES ASSUME NEW i \in Slot PROVE Combination(ds, y)[i] = g[i]
      OBVIOUS
    <3>1. CASE ds[i] = NoNode
      BY <3>1 DEF Combination, Combinations
    <3>2. CASE ds[i] # NoNode
      BY <1>1, <2>2, <2>4, <3>2 DEF At
    <3>3. QED
      BY <3>1, <3>2
  <2>6. Combination(ds, y) = g
    <3>1. g \in [Slot -> Neighbors(Self) \cup {NoNode}]
      BY DEF Combinations
    <3>2. Combination(ds, y) = [i \in Slot |-> Combination(ds, y)[i]]
      BY DEF Combination
    <3>3. QED
      BY <2>5, <3>1, <3>2
  <2>7. QED
    BY <2>4, <2>6
<1>5. ASSUME NEW x \in Indexes(ds), NEW y \in Indexes(ds), Earlier(x, y)
      PROVE  TriedBefore(ds, Combination(ds, x), Combination(ds, y))
  <2>1. PICK i \in Slot : x[i] < y[i] /\ \A j \in 1 .. i - 1 : x[j] = y[j]
    BY <1>5 DEF Earlier
  <2>2. x[i] \in Nat /\ y[i] \in Nat
    BY IndexType DEF Indexes
  <2>3. ds[i] # NoNode
    <3> SUFFICES ASSUME ds[i] = NoNode PROVE FALSE
      OBVIOUS
    <3>1. x[i] = 1 /\ y[i] = 1
      BY <1>1
    <3>2. QED
      BY <2>1, <3>1
  <2>4. Letter[Combination(ds, x)[i]] < Letter[Combination(ds, y)[i]]
    <3>1. /\ x[i] \in DOMAIN Choices(ds[i]) /\ y[i] \in DOMAIN Choices(ds[i])
          /\ Combination(ds, x)[i] = Choices(ds[i])[x[i]]
          /\ Combination(ds, y)[i] = Choices(ds[i])[y[i]]
      BY <1>1, <2>3
    <3>2. Letter[Choices(ds[i])[x[i]]] < Letter[Choices(ds[i])[y[i]]]
      BY <2>1, <3>1, ChoicesFacts
    <3>3. QED
      BY <3>1, <3>2
  <2>5. \A j \in 1 .. i - 1 : Combination(ds, x)[j] = Combination(ds, y)[j]
    <3> SUFFICES ASSUME NEW j \in 1 .. i - 1
                 PROVE  Combination(ds, x)[j] = Combination(ds, y)[j]
      OBVIOUS
    <3>1. j \in Slot /\ x[j] = y[j]
      BY <2>1 DEF Slot
    <3>2. QED
      BY <3>1 DEF Combination
  <2>6. QED
    BY <2>3, <2>4, <2>5 DEF TriedBefore
<1>6. QED
  BY <1>2, <1>3, <1>4, <1>5

\* What a scan finds is the best.
LEMMA ScanIsBest ==
  ASSUME MapInv, QueryTypeOK, pc = "done", Clean, NEW ds \in DestList, Choosable(ds), Listed(ds),
         \A i \in Slot : ds[i] # NoNode =>
           /\ DOMAIN dest_poss_nhop[ds[i]] = DOMAIN Choices(ds[i])
           /\ \A k \in DOMAIN Choices(ds[i]) : dest_poss_nhop[ds[i]][k] = Choices(ds[i])[k]
  PROVE  Combination(ds, MinIndexes(ds)) \in Best(Self, ds)
<1> DEFINE m == MinIndexes(ds)
           f == Combination(ds, m)
<1>1. Indexes(ds) # {} /\ \A x \in Indexes(ds) : CostAt(ds, x) \in Nat
  BY ChoosableFacts, CostType
<1>2. /\ m \in Indexes(ds)
      /\ \A y \in Indexes(ds) \ {m} : \/ CostAt(ds, m) < CostAt(ds, y)
                                      \/ CostAt(ds, m) = CostAt(ds, y) /\ Earlier(m, y)
  BY <1>1, MinIndexesFacts
<1> HIDE DEF m
<1>3. /\ \A x \in Indexes(ds) : /\ Combination(ds, x) \in Combinations(Self, ds)
                                /\ CostAt(ds, x) = Cost(ds, Combination(ds, x))
      /\ \A g \in Combinations(Self, ds) : \E y \in Indexes(ds) : Combination(ds, y) = g
      /\ \A x, y \in Indexes(ds) : Earlier(x, y) =>
           TriedBefore(ds, Combination(ds, x), Combination(ds, y))
  BY CombinationFacts
<1>4. ASSUME NEW g \in Combinations(Self, ds) \ {f}
      PROVE  \/ Cost(ds, f) < Cost(ds, g)
             \/ Cost(ds, f) = Cost(ds, g) /\ TriedBefore(ds, f, g)
  <2>1. PICK y \in Indexes(ds) : Combination(ds, y) = g
    BY <1>3
  <2>2. y # m
    BY <2>1
  <2>3. CostAt(ds, m) < CostAt(ds, y) \/ (CostAt(ds, m) = CostAt(ds, y) /\ Earlier(m, y))
    BY <1>2, <2>2
  <2>4. CostAt(ds, m) = Cost(ds, f) /\ CostAt(ds, y) = Cost(ds, g)
    BY <1>2, <1>3, <2>1
  <2>5. Earlier(m, y) => TriedBefore(ds, f, g)
    BY <1>2, <1>3, <2>1
  <2>6. QED
    BY <2>3, <2>4, <2>5
<1>5. f \in Combinations(Self, ds)
  BY <1>2, <1>3
<1> HIDE DEF f
<1>6. f \in Best(Self, ds)
  BY <1>4, <1>5 DEF Best
<1>7. QED
  BY <1>6 DEF f, m

-----------------------------------------------------------------------------
(* The steps keep what is said of the calls.                               *)

LEMMA QueryInit ==
  ASSUME Init
  PROVE  QueryInv
<1> USE DEF Init
<1>1. NoAnswer \in [Slot -> 0 .. Len(NbrTbl)]
  <2>1. Len(NbrTbl) \in Nat
    BY SelfAssumption
  <2>2. QED
    BY <2>1 DEF NoAnswer
<1>2. \A d \in Node : dest_poss_nhop[d] = <<>> /\ DOMAIN <<>> = {} /\ Range(<<>>) = {}
  BY DEF Range
<1>3. QueryTypeOK
  <2>1. /\ DOMAIN dest_poss_nhop = Node
        /\ \A d \in Node : /\ DOMAIN dest_poss_nhop[d] \subseteq Index
                           /\ Range(dest_poss_nhop[d]) \subseteq Range(NbrTbl)
    BY <1>2
  <2>2. todo \in [Listener -> Seq(Entry)]
    OBVIOUS
  <2>3. /\ at \in [Listener -> {"idle", "fill", "scan", "answered", "astray"}]
        /\ asked \in [Listener -> Query \cup {NoDests}]
        /\ span \in [Listener -> Span] /\ answer \in [Listener -> [Slot -> 0 .. Len(NbrTbl)]]
    BY <1>1 DEF Span
  <2>4. calls \in 0 .. MaxCalls
    BY MaxCallsAssumption
  <2>5. early \in BOOLEAN /\ raced \in BOOLEAN
    OBVIOUS
  <2>6. QED
    BY <2>1, <2>2, <2>3, <2>4, <2>5 DEF QueryTypeOK, Entry
<1>4. Calls
  BY <1>2 DEF Calls, CallOK
<1>5. Entered
  BY <1>2 DEF Entered
<1>6. Unraced
  BY DEF Unraced, Provided, Alone
<1>7. AnswersRight
  BY DEF AnswersRight
<1>8. QED
  BY <1>3, <1>4, <1>5, <1>6, <1>7 DEF QueryInv

\* A step that builds the map meets no call that uses the tables.
LEMMA BuildLeavesCalls ==
  ASSUME IInv, BuildStep, UNCHANGED queryVars
  PROVE  QueryInv'
<1> USE DEF IInv, QueryInv, queryVars, callVars
<1>1. pc \notin {"done", "dead", "killed"} /\ pc' # "copy"
  BY DEF BuildStep, CopyMap, BuildGraph, BuildGraphGrown, BuildGraphThrows, Publish, FillDist,
         StepBack, PathNeverEnds, PrintPath, FillPort, FillNhop, FillRow, FillNhopDies,
         NextWalk, WalkFrom
<1>2. pc # "copy" => (Clean' <=> Clean)
  <2>1. CASE BuildGraphGrown
    BY <2>1, BuildGraphGrownStep
  <2>2. CASE ~BuildGraphGrown
    BY <2>2 DEF BuildStep, CopyMap, BuildGraph, BuildGraphThrows, Publish, FillDist, StepBack,
                PathNeverEnds, PrintPath, FillPort, FillNhop, FillRow, FillNhopDies, Clean, graph
  <2>3. QED
    BY <2>1, <2>2
<1>3. \A t \in Listener :
        /\ at[t] \notin {"fill", "scan"} /\ span[t] = "none"
        /\ pc = "copy" => at[t] = "idle"
  BY <1>1 DEF Calls, CallOK
<1>4. QueryTypeOK'
  BY DEF QueryTypeOK
<1>5. Calls'
  BY <1>1, <1>3 DEF Calls, CallOK
<1>6. Entered'
  <2>1. CASE pc = "copy"
    <3>1. \A d \in Node : DOMAIN dest_poss_nhop[d] = {}
      BY <2>1 DEF Calls
    <3>2. QED
      BY <1>3, <3>1 DEF Entered
  <2>2. CASE pc # "copy"
    BY <1>2, <1>3, <2>2 DEF Entered
  <2>3. QED
    BY <2>1, <2>2
<1>7. Unraced'
  BY <1>3 DEF Unraced, Provided, Alone
<1>8. AnswersRight'
  <2>1. CASE pc = "copy"
    BY <1>3, <2>1 DEF AnswersRight
  <2>2. CASE pc # "copy"
    BY <1>2, <2>2 DEF AnswersRight, RightAnswer
  <2>3. QED
    BY <2>1, <2>2
<1>9. QED
  BY <1>4, <1>5, <1>6, <1>7, <1>8

LEMMA QueryLists ==
  ASSUME NEW ds \in Query
  PROVE  /\ ds \in DestList /\ Self \notin Dests(ds)
         /\ \A i \in Slot : ds[i] # NoNode => ds[i] \in Node /\ ds[i] \in Dests(ds)
         /\ \A d \in Dests(ds) : d \in Node /\ \E i \in Slot : ds[i] = d
<1>1. ds \in DestList /\ Self \notin Dests(ds)
  BY QueryAssumption
<1>2. QED
  BY <1>1 DEF DestList, Dests, Range

\* A step of one call leaves the others where they are.
LEMMA OtherCalls ==
  ASSUME Calls, NEW t \in Listener, CallOK(t)', dest_dist' = dest_dist,
         pc # "copy", pc' = pc \/ pc' = "killed",
         \A u \in Listener \ {t} : /\ at'[u] = at[u] /\ asked'[u] = asked[u]
                                   /\ todo'[u] = todo[u] /\ span'[u] = span[u]
  PROVE  Calls'
<1>1. ASSUME NEW u \in Listener \ {t} PROVE CallOK(u)'
  BY DEF Calls, CallOK, Listed
<1>2. QED
  BY <1>1 DEF Calls

\* What has been answered stays right.
LEMMA AnswersStay ==
  ASSUME AnswersRight, Clean' => Clean, raced => raced', early => early',
         \A u \in Listener : at'[u] = "answered" =>
           at[u] = "answered" /\ asked'[u] = asked[u] /\ answer'[u] = answer[u]
  PROVE  AnswersRight'
BY DEF AnswersRight, RightAnswer

LEMMA CallUnicastStep ==
  ASSUME IInv, NEW t \in Listener, NEW ds \in Query, CallUnicast(t, ds)
  PROVE  QueryInv'
<1> USE DEF IInv, QueryInv
<1>1. /\ pc = "done" /\ Listed(ds) /\ Unicast(ds) /\ at[t] \in {"idle", "answered"}
      /\ at' = [at EXCEPT ![t] = "answered"] /\ asked' = [asked EXCEPT ![t] = ds]
      /\ answer' = [answer EXCEPT ![t] = [i \in Slot |-> IF ds[i] = NoNode THEN 0 ELSE dest_port[ds[i]]]]
      /\ calls' = calls + 1 /\ calls < MaxCalls
      /\ UNCHANGED <<pc, dest_dist, dest_poss_nhop, todo, span, early, raced>> /\ (Clean' <=> Clean)
  BY DEF CallUnicast, CanCall, mapVars, tables, graph, Clean
<1>2. /\ ds \in DestList /\ Self \notin Dests(ds)
      /\ \A i \in Slot : ds[i] # NoNode => /\ ds[i] \in Node /\ ds[i] # Self
                                           /\ ds[i] \in DOMAIN dest_port
  <2>1. /\ ds \in DestList /\ Self \notin Dests(ds)
        /\ \A i \in Slot : ds[i] # NoNode => ds[i] \in Node /\ ds[i] \in Dests(ds)
    BY QueryLists
  <2>2. \A d \in Dests(ds) : d \in DOMAIN dest_port
    BY <1>1 DEF Listed, MapInv, Progress
  <2>3. QED
    BY <2>1, <2>2
<1>3. \A i \in Slot : (IF ds[i] = NoNode THEN 0 ELSE dest_port[ds[i]]) \in 0 .. Len(NbrTbl)
  <2>1. Len(NbrTbl) \in Nat
    BY SelfAssumption
  <2>2. QED
    BY <1>2, <2>1 DEF MapInv, TypeOK
<1>4. QueryTypeOK'
  <2>1. calls' \in 0 .. MaxCalls
    BY <1>1, MaxCallsAssumption DEF QueryTypeOK
  <2>2. /\ at' \in [Listener -> {"idle", "fill", "scan", "answered", "astray"}]
        /\ asked' \in [Listener -> Query \cup {NoDests}]
        /\ answer' \in [Listener -> [Slot -> 0 .. Len(NbrTbl)]]
    BY <1>1, <1>3 DEF QueryTypeOK
  <2>3. QED
    BY <1>1, <2>1, <2>2 DEF QueryTypeOK
<1>5. \A u \in Listener : /\ at'[u] = IF u = t THEN "answered" ELSE at[u]
                          /\ asked'[u] = IF u = t THEN ds ELSE asked[u]
                          /\ u # t => answer'[u] = answer[u]
  BY <1>1 DEF QueryTypeOK
<1>6. Calls'
  <2>1. span[t] = "none"
    BY <1>1 DEF Calls, CallOK
  <2>2. at'[t] = "answered" /\ asked'[t] = ds /\ todo'[t] = todo[t] /\ span'[t] = span[t]
    BY <1>1, <1>5
  <2>3. CallOK(t)'
    BY <1>1, <2>1, <2>2 DEF CallOK
  <2>4. QED
    BY <1>1, <1>5, <2>3, OtherCalls
<1>7. Entered'
  BY <1>1, <1>5 DEF Entered
<1>8. Unraced'
  <2>1. span[t] = "none"
    BY <1>1 DEF Calls, CallOK
  <2>2. QED
    BY <1>1, <1>5, <2>1 DEF Unraced, Provided, Alone
<1>9. AnswersRight'
  <2> SUFFICES ASSUME NEW u \in Listener, at'[u] = "answered", Clean, ~raced, ~early
               PROVE  RightAnswer(u)'
    BY <1>1 DEF AnswersRight
  <2>1. CASE u # t
    BY <1>5, <2>1 DEF AnswersRight, RightAnswer
  <2>2. CASE u = t
    <3>1. asked'[u] = ds
      BY <1>5, <2>2
    <3>2. answer'[u] = [i \in Slot |-> IF ds[i] = NoNode THEN 0 ELSE dest_port[ds[i]]]
      BY <1>1, <2>2 DEF QueryTypeOK
    <3>3. \A i \in Slot : ds[i] # NoNode => Towards(ds[i], NbrTbl[dest_port[ds[i]]])
      BY <1>2 DEF MapInv, CleanMap
    <3>4. QED
      BY <1>1, <3>1, <3>2, <3>3 DEF Towards, RightAnswer
  <2>3. QED
    BY <2>1, <2>2
<1>10. QED
  BY <1>4, <1>6, <1>7, <1>8, <1>9

LEMMA CallMulticastStep ==
  ASSUME IInv, NEW t \in Listener, NEW ds \in Query, CallMulticast(t, ds)
  PROVE  QueryInv'
<1> USE DEF IInv, QueryInv
<1>1. /\ pc = "done" /\ Listed(ds) /\ ~Unicast(ds) /\ at[t] \in {"idle", "answered"}
      /\ at' = [at EXCEPT ![t] = "fill"] /\ asked' = [asked EXCEPT ![t] = ds]
      /\ todo' = [todo EXCEPT ![t] = Entries(ds)]
      /\ answer' = [answer EXCEPT ![t] = NoAnswer]
      /\ calls' = calls + 1 /\ calls < MaxCalls
      /\ UNCHANGED <<pc, dest_dist, dest_poss_nhop, span, early, raced>> /\ (Clean' <=> Clean)
  BY DEF CallMulticast, CanCall, mapVars, tables, graph, Clean
<1>2. ds \in DestList
  BY QueryLists
<1> DEFINE es == Entries(ds)
<1>3. /\ es \in Seq(Entry)
      /\ \A j \in DOMAIN es : /\ es[j].dest \in Dests(ds) /\ es[j].dest \in Node
                              /\ es[j].index \in DOMAIN PossibleOf(es[j].dest)
                              /\ es[j].nhop = PossibleOf(es[j].dest)[es[j].index]
      /\ \A d \in Dests(ds) : \A i \in DOMAIN PossibleOf(d) :
           \E j \in DOMAIN es : es[j].dest = d /\ es[j].index = i
  BY <1>2, EntriesFacts DEF MapInv
<1> HIDE DEF es
<1>4. \A u \in Listener : /\ at'[u] = IF u = t THEN "fill" ELSE at[u]
                          /\ asked'[u] = IF u = t THEN ds ELSE asked[u]
                          /\ u # t => answer'[u] = answer[u]
  BY <1>1 DEF QueryTypeOK
<1>5. span[t] = "none"
  BY <1>1 DEF Calls, CallOK
<1>6. todo \in [Listener -> Seq(Entry)]
  BY DEF QueryTypeOK, Entry
<1>7. todo'[t] = es /\ \A u \in Listener : u # t => todo'[u] = todo[u]
  BY <1>1, <1>6 DEF es
<1>8. QueryTypeOK'
  <2>1. calls' \in 0 .. MaxCalls
    BY <1>1, MaxCallsAssumption DEF QueryTypeOK
  <2>2. /\ at' \in [Listener -> {"idle", "fill", "scan", "answered", "astray"}]
        /\ asked' \in [Listener -> Query \cup {NoDests}]
    BY <1>1 DEF QueryTypeOK
  <2>3. answer' \in [Listener -> [Slot -> 0 .. Len(NbrTbl)]]
    <3>1. Len(NbrTbl) \in Nat
      BY SelfAssumption
    <3>2. NoAnswer \in [Slot -> 0 .. Len(NbrTbl)]
      BY <3>1 DEF NoAnswer
    <3>3. QED
      BY <1>1, <3>2 DEF QueryTypeOK
  <2>4. todo' \in [Listener -> Seq(Entry)]
    BY <1>1, <1>3, <1>6 DEF es
  <2>5. QED
    BY <1>1, <2>1, <2>2, <2>3, <2>4 DEF QueryTypeOK, Entry
<1>9. Calls'
  <2>1. at'[t] = "fill" /\ asked'[t] = ds /\ span'[t] = "none" /\ pc' = "done" /\ Listed(ds)'
    BY <1>1, <1>4, <1>5 DEF Listed
  <2>2. CallOK(t)'
    <3>1. Listed(asked[t])'
      BY <1>1, <2>1 DEF Listed
    <3>2. QED
      BY <1>1, <1>3, <1>7, <2>1, <3>1 DEF CallOK
  <2>3. QED
    BY <1>1, <1>4, <1>7, <2>2, OtherCalls
<1>10. ASSUME Clean PROVE \A d \in Node : PossibleOf(d) = Choices(d)
  BY <1>1, <1>10, PossibleOfClean
<1>11. Entered'
  <2> SUFFICES ASSUME Clean, ~early
               PROVE  /\ \A d \in Node : \A i \in DOMAIN dest_poss_nhop[d] :
                           i \in DOMAIN Choices(d) /\ dest_poss_nhop[d][i] = Choices(d)[i]
                      /\ \A u \in Listener : at'[u] = "fill" => \A j \in DOMAIN todo'[u] :
                           /\ todo'[u][j].index \in DOMAIN Choices(todo'[u][j].dest)
                           /\ todo'[u][j].nhop = Choices(todo'[u][j].dest)[todo'[u][j].index]
    BY <1>1 DEF Entered
  <2>1. \A j \in DOMAIN es : /\ es[j].index \in DOMAIN Choices(es[j].dest)
                             /\ es[j].nhop = Choices(es[j].dest)[es[j].index]
    BY <1>3, <1>10
  <2>2. ASSUME NEW u \in Listener, at'[u] = "fill", NEW j \in DOMAIN todo'[u]
        PROVE  /\ todo'[u][j].index \in DOMAIN Choices(todo'[u][j].dest)
               /\ todo'[u][j].nhop = Choices(todo'[u][j].dest)[todo'[u][j].index]
    <3>1. CASE u = t
      BY <1>7, <2>1, <3>1
    <3>2. CASE u # t
      BY <1>4, <1>7, <2>2, <3>2 DEF Entered
    <3>3. QED
      BY <3>1, <3>2
  <2>3. QED
    BY <2>2 DEF Entered
<1>12. Unraced'
  <2> SUFFICES ASSUME Clean, ~early, ~raced, NEW u \in Listener
               PROVE  /\ at'[u] \in {"fill", "scan"} =>
                           \A d \in Dests(asked'[u]) : \A i \in DOMAIN Choices(d) :
                             \/ i \in DOMAIN dest_poss_nhop[d]
                             \/ /\ at'[u] = "fill"
                                /\ \E j \in DOMAIN todo'[u] :
                                     todo'[u][j].dest = d /\ todo'[u][j].index = i
                      /\ span[u] = "insert" =>
                           /\ \A v \in Listener \ {u} : span[v] = "none"
                           /\ Head(todo'[u]).index \notin DOMAIN dest_poss_nhop[Head(todo'[u]).dest]
    BY <1>1 DEF Unraced, Provided, Alone
  <2>1. CASE u = t
    <3>1. \A d \in Dests(ds) : d \in Node
      BY QueryLists
    <3>2. QED
      BY <1>3, <1>4, <1>5, <1>7, <1>10, <2>1, <3>1
  <2>2. CASE u # t
    BY <1>4, <1>7, <2>2 DEF Unraced, Provided, Alone
  <2>3. QED
    BY <2>1, <2>2
<1>13. AnswersRight'
  BY <1>1, <1>4, AnswersStay
<1>14. QED
  BY <1>8, <1>9, <1>11, <1>12, <1>13

LEMMA RangeOf ==
  ASSUME NEW f, NEW i \in DOMAIN f
  PROVE  f[i] \in Range(f)
BY DEF Range

\* Entries written over entries are entries.
LEMMA WrittenType ==
  ASSUME NEW old, NEW new, NEW I, NEW N,
         DOMAIN old \subseteq I, \A i \in DOMAIN old : old[i] \in N,
         DOMAIN new \subseteq I, \A i \in DOMAIN new : new[i] \in N
  PROVE  DOMAIN Written(old, new) \subseteq I /\ Range(Written(old, new)) \subseteq N
BY DEF Written, Range

LEMMA CallTooEarlyStep ==
  ASSUME IInv, NEW t \in Listener, NEW ds \in Query, CallTooEarly(t, ds)
  PROVE  QueryInv'
<1> USE DEF IInv, QueryInv
<1>1. PICK ns \in SUBSET Range(NbrTbl) :
        dest_poss_nhop' =
          [d \in Node |-> IF Unicast(ds) \/ d \notin Dests(ds) THEN dest_poss_nhop[d]
                          ELSE Written(dest_poss_nhop[d], InOrder(ns))]
  BY DEF CallTooEarly
<1>2. /\ Published /\ at[t] \in {"idle", "answered"}
      /\ at' = [at EXCEPT ![t] = "astray"] /\ asked' = [asked EXCEPT ![t] = ds]
      /\ calls' = calls + 1 /\ calls < MaxCalls /\ early' = TRUE
      /\ UNCHANGED <<pc, dest_dist, todo, span, answer, raced>>
  BY DEF CallTooEarly, CanCall, mapVars, tables
<1>3. \A u \in Listener : /\ at'[u] = IF u = t THEN "astray" ELSE at[u]
                          /\ asked'[u] = IF u = t THEN ds ELSE asked[u]
  BY <1>2 DEF QueryTypeOK
<1>4. QueryTypeOK'
  <2>1. calls' \in 0 .. MaxCalls
    BY <1>2, MaxCallsAssumption DEF QueryTypeOK
  <2>2. /\ at' \in [Listener -> {"idle", "fill", "scan", "answered", "astray"}]
        /\ asked' \in [Listener -> Query \cup {NoDests}]
    BY <1>2 DEF QueryTypeOK
  <2>3. \A i \in DOMAIN InOrder(ns) : i \in Index /\ InOrder(ns)[i] \in Range(NbrTbl)
    BY SomeInOrder
  <2>4. ASSUME NEW d \in Node
        PROVE  /\ DOMAIN dest_poss_nhop'[d] \subseteq Index
               /\ Range(dest_poss_nhop'[d]) \subseteq Range(NbrTbl)
    <3>1. /\ DOMAIN dest_poss_nhop[d] \subseteq Index
          /\ Range(dest_poss_nhop[d]) \subseteq Range(NbrTbl)
      BY DEF QueryTypeOK
    <3>2. \A i \in DOMAIN dest_poss_nhop[d] : dest_poss_nhop[d][i] \in Range(NbrTbl)
      BY <3>1, RangeOf
    <3>3. CASE dest_poss_nhop'[d] = dest_poss_nhop[d]
      BY <3>1, <3>3
    <3>4. CASE dest_poss_nhop'[d] = Written(dest_poss_nhop[d], InOrder(ns))
      BY <2>3, <3>1, <3>2, <3>4, WrittenType
    <3>5. QED
      BY <1>1, <3>3, <3>4
  <2>5. DOMAIN dest_poss_nhop' = Node
    BY <1>1
  <2>6. early' \in BOOLEAN
    BY <1>2
  <2>7. QED
    BY <1>2, <2>1, <2>2, <2>4, <2>5, <2>6 DEF QueryTypeOK
<1>5. Calls'
  <2>1. span[t] = "none" /\ pc # "copy"
    BY <1>2 DEF Calls, CallOK, Published
  <2>2. CallOK(t)'
    BY <1>2, <1>3, <2>1 DEF CallOK
  <2>3. QED
    BY <1>2, <1>3, <2>1, <2>2, OtherCalls
<1>6. Entered' /\ Unraced' /\ AnswersRight'
  BY <1>2 DEF Entered, Unraced, Provided, Alone, AnswersRight
<1>7. QED
  BY <1>4, <1>5, <1>6

LEMMA CallTooEarlyDiesStep ==
  ASSUME IInv, NEW t \in Listener, NEW ds \in Query, CallTooEarlyDies(t, ds)
  PROVE  QueryInv'
<1> USE DEF IInv, QueryInv
<1>1. /\ pc # "copy" /\ pc' = "killed" /\ early' = TRUE
      /\ UNCHANGED <<dest_dist, dest_poss_nhop, at, asked, todo, span, answer, calls, raced>>
  BY DEF CallTooEarlyDies, CanCall, Published, tables, callVars
<1>2. QueryTypeOK'
  <2>1. early' \in BOOLEAN
    BY <1>1
  <2>2. QED
    BY <1>1, <2>1 DEF QueryTypeOK
<1>3. Calls'
  BY <1>1 DEF Calls, CallOK, Listed
<1>4. Entered' /\ Unraced' /\ AnswersRight'
  BY <1>1 DEF Entered, Unraced, Provided, Alone, AnswersRight
<1>5. QED
  BY <1>2, <1>3, <1>4

LEMMA BeginEntryStep ==
  ASSUME IInv, NEW t \in Listener, BeginEntry(t)
  PROVE  QueryInv'
<1> USE DEF IInv, QueryInv
<1> DEFINE e == Head(todo[t])
           kind == IF e.index \notin DOMAIN dest_poss_nhop[e.dest] THEN "insert" ELSE "read"
<1>1. /\ at[t] = "fill" /\ todo[t] # <<>> /\ span[t] = "none"
      /\ span' = [span EXCEPT ![t] = kind] /\ raced' = (raced \/ Conflict(t, kind))
      /\ UNCHANGED <<pc, dest_dist, dest_poss_nhop, at, asked, todo, answer, calls, early>>
      /\ (Clean' <=> Clean)
  BY DEF BeginEntry, Begins, mapVars, tables, graph, Clean
<1>2. /\ kind \in {"insert", "read"}
      /\ kind = "insert" => e.index \notin DOMAIN dest_poss_nhop[e.dest]
  OBVIOUS
<1> HIDE DEF kind, e
<1>3. \A u \in Listener : span'[u] = IF u = t THEN kind ELSE span[u]
  BY <1>1 DEF QueryTypeOK
<1>4. QueryTypeOK'
  <2>1. span' \in [Listener -> Span]
    BY <1>1, <1>2 DEF QueryTypeOK, Span
  <2>2. raced' \in BOOLEAN
    BY <1>1 DEF Conflict
  <2>3. QED
    BY <1>1, <2>1, <2>2 DEF QueryTypeOK
<1>5. Calls'
  <2>1. CallOK(t) /\ pc # "copy"
    BY <1>1 DEF Calls, CallOK
  <2>2. CallOK(t)'
    BY <1>1, <1>2, <1>3, <2>1 DEF CallOK, Listed
  <2>3. QED
    BY <1>1, <1>3, <2>1, <2>2, OtherCalls
<1>6. Entered'
  BY <1>1 DEF Entered
<1>7. Unraced'
  <2> SUFFICES ASSUME Clean, ~early, ~raced', NEW u \in Listener
               PROVE  /\ at[u] \in {"fill", "scan"} =>
                           \A d \in Dests(asked[u]) : \A i \in DOMAIN Choices(d) :
                             \/ i \in DOMAIN dest_poss_nhop[d]
                             \/ /\ at[u] = "fill"
                                /\ \E j \in DOMAIN todo[u] : todo[u][j].dest = d /\ todo[u][j].index = i
                      /\ span'[u] = "insert" =>
                           /\ \A v \in Listener \ {u} : span'[v] = "none"
                           /\ Head(todo[u]).index \notin DOMAIN dest_poss_nhop[Head(todo[u]).dest]
    BY <1>1 DEF Unraced, Provided, Alone
  <2>1. ~raced /\ ~Conflict(t, kind)
    BY <1>1
  <2>2. \A v \in Listener \ {t} : span[v] # "insert" /\ (kind = "insert" => span[v] = "none")
    BY <1>2, <2>1 DEF Conflict
  <2>3. span'[u] = "insert" =>
          /\ \A v \in Listener \ {u} : span'[v] = "none"
          /\ Head(todo[u]).index \notin DOMAIN dest_poss_nhop[Head(todo[u]).dest]
    <3>1. CASE u = t
      BY <1>2, <1>3, <2>2, <3>1 DEF e
    <3>2. CASE u # t
      BY <1>3, <2>2, <3>2
    <3>3. QED
      BY <3>1, <3>2
  <2>4. QED
    BY <2>1, <2>3 DEF Unraced, Provided, Alone
<1>8. AnswersRight'
  BY <1>1, AnswersStay
<1>9. QED
  BY <1>4, <1>5, <1>6, <1>7, <1>8

LEMMA EndEntryStep ==
  ASSUME IInv, NEW t \in Listener, EndEntry(t)
  PROVE  QueryInv'
<1> USE DEF IInv, QueryInv
<1> DEFINE e == Head(todo[t])
           es == todo[t]
           map == [dest_poss_nhop EXCEPT ![e.dest] =
                     Written(dest_poss_nhop[e.dest], [i \in {e.index} |-> e.nhop])]
<1>1. /\ at[t] = "fill" /\ span[t] # "none"
      /\ dest_poss_nhop' = map \/ (raced /\ dest_poss_nhop' = dest_poss_nhop)
      /\ span' = [span EXCEPT ![t] = "none"] /\ todo' = [todo EXCEPT ![t] = Tail(es)]
      /\ UNCHANGED <<pc, dest_dist, at, asked, answer, calls, early, raced>>
      /\ (Clean' <=> Clean)
  BY DEF EndEntry, mapVars, tables, graph, Clean
<1>2. es \in Seq(Entry) /\ es # <<>> /\ CallOK(t) /\ pc # "copy"
  BY <1>1 DEF Calls, CallOK, QueryTypeOK, Entry
<1>3. /\ 1 \in DOMAIN es /\ e = es[1] /\ e \in Entry /\ Tail(es) \in Seq(Entry)
      /\ \A j \in DOMAIN Tail(es) : j + 1 \in DOMAIN es /\ Tail(es)[j] = es[j + 1]
      /\ \A j \in DOMAIN es \ {1} : j - 1 \in DOMAIN Tail(es) /\ Tail(es)[j - 1] = es[j]
  <2>1. \A s \in Seq(Entry) : s # <<>> =>
          /\ 1 \in DOMAIN s /\ Head(s) = s[1] /\ s[1] \in Entry /\ Tail(s) \in Seq(Entry)
          /\ \A j \in DOMAIN Tail(s) : j + 1 \in DOMAIN s /\ Tail(s)[j] = s[j + 1]
          /\ \A j \in DOMAIN s \ {1} : j - 1 \in DOMAIN Tail(s) /\ Tail(s)[j - 1] = s[j]
    OBVIOUS
  <2>2. QED
    BY <1>2, <2>1
<1>4. e.dest \in Node /\ e.index \in Index /\ e.nhop \in Range(NbrTbl)
  BY <1>3 DEF Entry
<1> HIDE DEF e, es
<1>5. /\ DOMAIN map = Node
      /\ \A d \in Node \ {e.dest} : map[d] = dest_poss_nhop[d]
      /\ map[e.dest] = Written(dest_poss_nhop[e.dest], [i \in {e.index} |-> e.nhop])
  BY <1>4 DEF QueryTypeOK
<1>6. \A u \in Listener : /\ span'[u] = IF u = t THEN "none" ELSE span[u]
                          /\ todo'[u] = IF u = t THEN Tail(es) ELSE todo[u]
  BY <1>1 DEF QueryTypeOK
<1> HIDE DEF map
<1>7. QueryTypeOK'
  <2>1. span' \in [Listener -> Span]
    BY <1>1 DEF QueryTypeOK, Span
  <2>2. todo' \in [Listener -> Seq(Entry)]
    BY <1>1, <1>3 DEF QueryTypeOK, Entry
  <2>3. ASSUME NEW d \in Node
        PROVE  DOMAIN map[d] \subseteq Index /\ Range(map[d]) \subseteq Range(NbrTbl)
    <3>1. /\ DOMAIN dest_poss_nhop[d] \subseteq Index
          /\ Range(dest_poss_nhop[d]) \subseteq Range(NbrTbl)
      BY DEF QueryTypeOK
    <3>2. \A i \in DOMAIN dest_poss_nhop[d] : dest_poss_nhop[d][i] \in Range(NbrTbl)
      BY <3>1, RangeOf
    <3>3. CASE d = e.dest
      <4> DEFINE new == [i \in {e.index} |-> e.nhop]
      <4>1. DOMAIN new \subseteq Index /\ \A i \in DOMAIN new : new[i] \in Range(NbrTbl)
        BY <1>4
      <4> HIDE DEF new
      <4>2. DOMAIN Written(dest_poss_nhop[d], new) \subseteq Index
            /\ Range(Written(dest_poss_nhop[d], new)) \subseteq Range(NbrTbl)
        BY <3>1, <3>2, <4>1, WrittenType
      <4>3. QED
        BY <1>5, <3>3, <4>2 DEF new
    <3>4. CASE d # e.dest
      BY <1>5, <3>1, <3>4
    <3>5. QED
      BY <3>3, <3>4
  <2>4. /\ DOMAIN dest_poss_nhop' = Node
        /\ \A d \in Node : /\ DOMAIN dest_poss_nhop'[d] \subseteq Index
                           /\ Range(dest_poss_nhop'[d]) \subseteq Range(NbrTbl)
    BY <1>1, <1>5, <2>3 DEF QueryTypeOK
  <2>5. QED
    BY <1>1, <2>1, <2>2, <2>4 DEF QueryTypeOK, Entry
<1>8. Calls'
  <2>1. \A j \in DOMAIN Tail(es) : Tail(es)[j].dest \in Dests(asked[t])
    BY <1>1, <1>2, <1>3 DEF CallOK, es
  <2>2. CallOK(t)'
    BY <1>1, <1>2, <1>6, <2>1 DEF CallOK, Listed
  <2>3. QED
    BY <1>1, <1>2, <1>6, <2>2, OtherCalls
<1>9. \A d \in Node : \A i : i \in DOMAIN map[d] =>
        \/ i \in DOMAIN dest_poss_nhop[d] /\ map[d][i] = dest_poss_nhop[d][i]
        \/ d = e.dest /\ i = e.index /\ map[d][i] = e.nhop
  <2> SUFFICES ASSUME NEW d \in Node, NEW i, i \in DOMAIN map[d]
               PROVE  \/ i \in DOMAIN dest_poss_nhop[d] /\ map[d][i] = dest_poss_nhop[d][i]
                      \/ d = e.dest /\ i = e.index /\ map[d][i] = e.nhop
    OBVIOUS
  <2>1. CASE d # e.dest
    BY <1>5, <2>1
  <2>2. CASE d = e.dest
    BY <1>5, <2>2 DEF Written
  <2>3. QED
    BY <2>1, <2>2
<1>10. /\ \A d \in Node : DOMAIN dest_poss_nhop[d] \subseteq DOMAIN map[d]
       /\ e.index \in DOMAIN map[e.dest]
  <2>1. DOMAIN map[e.dest] = DOMAIN dest_poss_nhop[e.dest] \cup {e.index}
    BY <1>5 DEF Written
  <2>2. QED
    BY <1>5, <2>1
<1>11. Entered'
  <2> SUFFICES ASSUME Clean, ~early
               PROVE  /\ \A d \in Node : \A i \in DOMAIN dest_poss_nhop'[d] :
                           i \in DOMAIN Choices(d) /\ dest_poss_nhop'[d][i] = Choices(d)[i]
                      /\ \A u \in Listener : at[u] = "fill" => \A j \in DOMAIN todo'[u] :
                           /\ todo'[u][j].index \in DOMAIN Choices(todo'[u][j].dest)
                           /\ todo'[u][j].nhop = Choices(todo'[u][j].dest)[todo'[u][j].index]
    BY <1>1 DEF Entered
  <2>1. \A j \in DOMAIN es : /\ es[j].index \in DOMAIN Choices(es[j].dest)
                             /\ es[j].nhop = Choices(es[j].dest)[es[j].index]
    BY <1>1 DEF Entered, es
  <2>2. e.index \in DOMAIN Choices(e.dest) /\ e.nhop = Choices(e.dest)[e.index]
    BY <1>3, <2>1
  <2>3. \A d \in Node : \A i \in DOMAIN map[d] :
          i \in DOMAIN Choices(d) /\ map[d][i] = Choices(d)[i]
    BY <1>9, <2>2 DEF Entered
  <2>4. \A d \in Node : \A i \in DOMAIN dest_poss_nhop'[d] :
          i \in DOMAIN Choices(d) /\ dest_poss_nhop'[d][i] = Choices(d)[i]
    BY <1>1, <2>3 DEF Entered
  <2>5. ASSUME NEW u \in Listener, at[u] = "fill", NEW j \in DOMAIN todo'[u]
        PROVE  /\ todo'[u][j].index \in DOMAIN Choices(todo'[u][j].dest)
               /\ todo'[u][j].nhop = Choices(todo'[u][j].dest)[todo'[u][j].index]
    <3>1. CASE u = t
      <4>1. j \in DOMAIN Tail(es) /\ todo'[u][j] = Tail(es)[j]
        BY <1>6, <2>5, <3>1
      <4>2. QED
        BY <1>3, <2>1, <4>1
    <3>2. CASE u # t
      BY <1>6, <2>5, <3>2 DEF Entered
    <3>3. QED
      BY <3>1, <3>2
  <2>6. QED
    BY <2>4, <2>5
<1>12. Unraced'
  <2> SUFFICES ASSUME Clean, ~early, ~raced, NEW u \in Listener
               PROVE  Provided(u)' /\ Alone(u)'
    BY <1>1 DEF Unraced
  <2>1. dest_poss_nhop' = map
    BY <1>1
  <2>2. span'[u] # "insert"
    <3>1. CASE u = t
      BY <1>6, <3>1
    <3>2. CASE u # t
      BY <1>1, <1>6, <3>2 DEF Unraced, Provided, Alone
    <3>3. QED
      BY <3>1, <3>2
  <2>3. ASSUME at[u] \in {"fill", "scan"}, NEW d \in Dests(asked[u]), NEW i \in DOMAIN Choices(d),
               i \notin DOMAIN map[d]
        PROVE  /\ at[u] = "fill"
               /\ \E j \in DOMAIN todo'[u] : todo'[u][j].dest = d /\ todo'[u][j].index = i
    <3>1. d \in Node
      BY <2>3, QueryLists DEF Calls, CallOK
    <3>2. i \notin DOMAIN dest_poss_nhop[d]
      BY <1>10, <2>3, <3>1
    <3>3. /\ at[u] = "fill"
          /\ \E j \in DOMAIN todo[u] : todo[u][j].dest = d /\ todo[u][j].index = i
      BY <2>3, <3>2 DEF Unraced, Provided, Alone
    <3>4. CASE u # t
      BY <1>6, <3>3, <3>4
    <3>5. CASE u = t
      <4>1. PICK j \in DOMAIN es : es[j].dest = d /\ es[j].index = i
        BY <3>3, <3>5 DEF es
      <4>2. j # 1
        BY <1>3, <1>10, <2>3, <4>1
      <4>3. j - 1 \in DOMAIN Tail(es) /\ Tail(es)[j - 1] = es[j]
        BY <1>3, <4>2
      <4>4. QED
        BY <1>6, <3>3, <3>5, <4>1, <4>3
    <3>6. QED
      BY <3>4, <3>5
  <2>4. at[u] \in {"fill", "scan"} =>
          \A d \in Dests(asked[u]) : \A i \in DOMAIN Choices(d) :
            i \notin DOMAIN map[d] =>
              /\ at[u] = "fill"
              /\ \E j \in DOMAIN todo'[u] : todo'[u][j].dest = d /\ todo'[u][j].index = i
    BY <2>3
  <2>5. Provided(u)'
    BY <1>1, <2>1, <2>4 DEF Provided
  <2>6. Alone(u)'
    BY <2>2 DEF Alone
  <2>7. QED
    BY <2>5, <2>6
<1>13. AnswersRight'
  BY <1>1, AnswersStay
<1>14. QED
  BY <1>7, <1>8, <1>11, <1>12, <1>13

LEMMA BeginScanStep ==
  ASSUME IInv, NEW t \in Listener, BeginScan(t)
  PROVE  QueryInv'
<1> USE DEF IInv, QueryInv
<1>1. /\ at[t] = "fill" /\ todo[t] = <<>> /\ span[t] = "none"
      /\ span' = [span EXCEPT ![t] = "scan"] /\ raced' = (raced \/ Conflict(t, "scan"))
      /\ at' = [at EXCEPT ![t] = "scan"]
      /\ UNCHANGED <<pc, dest_dist, dest_poss_nhop, asked, todo, answer, calls, early>>
      /\ (Clean' <=> Clean)
  BY DEF BeginScan, Begins, mapVars, tables, graph, Clean
<1>2. \A u \in Listener : /\ span'[u] = IF u = t THEN "scan" ELSE span[u]
                          /\ at'[u] = IF u = t THEN "scan" ELSE at[u]
  BY <1>1 DEF QueryTypeOK
<1>3. QueryTypeOK'
  <2>1. /\ span' \in [Listener -> Span]
        /\ at' \in [Listener -> {"idle", "fill", "scan", "answered", "astray"}]
    BY <1>1 DEF QueryTypeOK, Span
  <2>2. raced' \in BOOLEAN
    BY <1>1 DEF Conflict
  <2>3. QED
    BY <1>1, <2>1, <2>2 DEF QueryTypeOK
<1>4. Calls'
  <2>1. CallOK(t) /\ pc # "copy"
    BY <1>1 DEF Calls, CallOK
  <2>2. CallOK(t)'
    BY <1>1, <1>2, <2>1 DEF CallOK, Listed
  <2>3. QED
    BY <1>1, <1>2, <2>1, <2>2, OtherCalls
<1>5. Entered'
  BY <1>1, <1>2 DEF Entered
<1>6. Unraced'
  <2> SUFFICES ASSUME Clean, ~early, ~raced', NEW u \in Listener
               PROVE  Provided(u)' /\ Alone(u)'
    BY <1>1 DEF Unraced
  <2>1. ~raced /\ \A v \in Listener \ {t} : span[v] # "insert"
    BY <1>1 DEF Conflict
  <2>2. Provided(u)
    BY <2>1 DEF Unraced
  <2>3. Provided(u)'
    <3>1. CASE u = t
      BY <1>1, <1>2, <2>2, <3>1 DEF Provided
    <3>2. CASE u # t
      BY <1>1, <1>2, <2>2, <3>2 DEF Provided
    <3>3. QED
      BY <3>1, <3>2
  <2>4. span'[u] # "insert"
    BY <1>2, <2>1
  <2>5. Alone(u)'
    BY <2>4 DEF Alone
  <2>6. QED
    BY <2>3, <2>5
<1>7. AnswersRight'
  <2>1. \A u \in Listener : at'[u] = "answered" =>
          at[u] = "answered" /\ asked'[u] = asked[u] /\ answer'[u] = answer[u]
    BY <1>1, <1>2
  <2>2. raced => raced'
    BY <1>1
  <2>3. QED
    BY <1>1, <2>1, <2>2, AnswersStay
<1>8. QED
  BY <1>3, <1>4, <1>5, <1>6, <1>7

\* A call ends, or gives up, its scan.
LEMMA ScanEnds ==
  ASSUME QueryInv, NEW t \in Listener, at[t] = "scan",
         NEW where \in {"answered", "astray"}, at' = [at EXCEPT ![t] = where],
         span' = [span EXCEPT ![t] = "none"], answer' \in [Listener -> [Slot -> 0 .. Len(NbrTbl)]],
         UNCHANGED <<pc, dest_dist, dest_poss_nhop, asked, todo, calls, early, raced>>,
         Clean' <=> Clean
  PROVE  /\ \A u \in Listener : at'[u] = IF u = t THEN where ELSE at[u]
         /\ QueryTypeOK' /\ Calls' /\ Entered' /\ Unraced'
<1> USE DEF QueryInv
<1>1. \A u \in Listener : /\ span'[u] = IF u = t THEN "none" ELSE span[u]
                          /\ at'[u] = IF u = t THEN where ELSE at[u]
  BY DEF QueryTypeOK
<1>2. QueryTypeOK'
  <2>1. /\ span' \in [Listener -> Span]
        /\ at' \in [Listener -> {"idle", "fill", "scan", "answered", "astray"}]
    BY DEF QueryTypeOK, Span
  <2>2. QED
    BY <2>1 DEF QueryTypeOK
<1>3. Calls'
  <2>1. CallOK(t) /\ pc # "copy"
    BY DEF Calls, CallOK
  <2>2. CallOK(t)'
    BY <1>1, <2>1 DEF CallOK, Listed
  <2>3. QED
    BY <1>1, <2>1, <2>2, OtherCalls
<1>4. Entered'
  BY <1>1 DEF Entered
<1>5. Unraced'
  <2> SUFFICES ASSUME Clean, ~early, ~raced, NEW u \in Listener
               PROVE  Provided(u)' /\ Alone(u)'
    BY DEF Unraced
  <2>1. Provided(u) /\ Alone(u)
    BY DEF Unraced
  <2>2. Provided(u)'
    <3>1. CASE u = t
      BY <1>1, <3>1 DEF Provided
    <3>2. CASE u # t
      BY <1>1, <2>1, <3>2 DEF Provided
    <3>3. QED
      BY <3>1, <3>2
  <2>3. Alone(u)'
    BY <1>1, <2>1 DEF Alone
  <2>4. QED
    BY <2>2, <2>3
<1>6. QED
  BY <1>1, <1>2, <1>3, <1>4, <1>5

LEMMA EndScanStep ==
  ASSUME IInv, NEW t \in Listener, EndScan(t)
  PROVE  QueryInv'
<1> USE DEF IInv, QueryInv
<1> DEFINE ds == asked[t]
           f == Combination(ds, MinIndexes(ds))
           ports == [i \in Slot |-> IF f[i] = NoNode THEN 0 ELSE NhopPort[f[i]]]
<1>1. /\ at[t] = "scan" /\ pc \notin {"dead", "killed"} /\ Choosable(ds)
      /\ at' = [at EXCEPT ![t] = "answered"] /\ span' = [span EXCEPT ![t] = "none"]
      /\ answer' = [answer EXCEPT ![t] = ports]
      /\ UNCHANGED <<pc, dest_dist, dest_poss_nhop, asked, todo, calls, early, raced>>
      /\ (Clean' <=> Clean)
  BY DEF EndScan, Dead, mapVars, tables, graph, Clean
<1>2. CallOK(t)
  BY DEF Calls
<1>3. pc = "done" /\ ds \in Query /\ Listed(ds) /\ ~Unicast(ds) /\ ds \in DestList
      /\ \A i \in Slot : ds[i] # NoNode => ds[i] \in Node /\ ds[i] \in Dests(ds)
  <2>1. pc = "done" /\ ds \in Query /\ Listed(ds) /\ ~Unicast(ds)
    BY <1>1, <1>2 DEF CallOK
  <2>2. QED
    BY <2>1, QueryLists
<1>4. MinIndexes(ds) \in Indexes(ds)
  BY <1>1, <1>3, ChoosableFacts, CostType, MinIndexesFacts
<1>5. \A i \in Slot : IF ds[i] = NoNode THEN f[i] = NoNode ELSE f[i] \in Range(NbrTbl)
  BY <1>1, <1>3, <1>4, ChoosableFacts
<1>6. f = [i \in Slot |-> f[i]]
  BY DEF Combination
<1> HIDE DEF f
<1>7. \A i \in Slot : /\ ports[i] \in 0 .. Len(NbrTbl)
                      /\ ds[i] # NoNode => NbrTbl[ports[i]] = f[i]
  <2> SUFFICES ASSUME NEW i \in Slot
               PROVE  /\ ports[i] \in 0 .. Len(NbrTbl)
                      /\ ds[i] # NoNode => NbrTbl[ports[i]] = f[i]
    OBVIOUS
  <2>1. DOMAIN NbrTbl = 1 .. Len(NbrTbl) /\ Len(NbrTbl) \in Nat
    BY SelfAssumption
  <2>2. CASE ds[i] = NoNode
    BY <1>5, <2>1, <2>2
  <2>3. CASE ds[i] # NoNode
    <3>1. f[i] \in Range(NbrTbl) /\ f[i] # NoNode
      BY <1>5, <2>3, OwnNeighbors, NodeAssumption
    <3>2. NhopPort[f[i]] \in DOMAIN NbrTbl /\ NbrTbl[NhopPort[f[i]]] = f[i]
      BY <3>1, NhopPortFacts
    <3>3. QED
      BY <2>1, <3>1, <3>2
  <2>4. QED
    BY <2>2, <2>3
<1>8. answer' \in [Listener -> [Slot -> 0 .. Len(NbrTbl)]]
  <2>1. ports \in [Slot -> 0 .. Len(NbrTbl)]
    BY <1>7
  <2>2. QED
    BY <1>1, <2>1 DEF QueryTypeOK
<1>9. answer'[t] = ports /\ \A u \in Listener \ {t} : answer'[u] = answer[u]
  BY <1>1 DEF QueryTypeOK
<1> HIDE DEF ports
<1>10. /\ \A u \in Listener : at'[u] = IF u = t THEN "answered" ELSE at[u]
       /\ QueryTypeOK' /\ Calls' /\ Entered' /\ Unraced'
  BY <1>1, <1>8, ScanEnds
<1>11. AnswersRight'
  <2> SUFFICES ASSUME NEW u \in Listener, at'[u] = "answered", Clean, ~raced, ~early
               PROVE  RightAnswer(u)'
    BY <1>1 DEF AnswersRight
  <2>1. CASE u # t
    BY <1>1, <1>9, <1>10, <2>1 DEF AnswersRight, RightAnswer
  <2>2. CASE u = t
    <3>1. ASSUME NEW i \in Slot, ds[i] # NoNode
          PROVE  /\ DOMAIN dest_poss_nhop[ds[i]] = DOMAIN Choices(ds[i])
                 /\ \A k \in DOMAIN Choices(ds[i]) : dest_poss_nhop[ds[i]][k] = Choices(ds[i])[k]
      <4>1. ds[i] \in Node /\ ds[i] \in Dests(ds)
        BY <1>3, <3>1
      <4>2. \A k \in DOMAIN dest_poss_nhop[ds[i]] :
              k \in DOMAIN Choices(ds[i]) /\ dest_poss_nhop[ds[i]][k] = Choices(ds[i])[k]
        BY <4>1 DEF Entered
      <4>3. \A k \in DOMAIN Choices(ds[i]) : k \in DOMAIN dest_poss_nhop[ds[i]]
        BY <1>1, <4>1 DEF Unraced, Provided
      <4>4. QED
        BY <4>2, <4>3
    <3>2. f \in Best(Self, ds)
      BY <1>1, <1>3, <3>1, ScanIsBest DEF f
    <3>3. [i \in Slot |-> IF ds[i] = NoNode THEN NoNode ELSE NbrTbl[ports[i]]] = f
      BY <1>5, <1>6, <1>7
    <3>4. QED
      BY <1>1, <1>3, <1>9, <2>2, <3>2, <3>3 DEF RightAnswer
  <2>3. QED
    BY <2>1, <2>2
<1>12. QED
  BY <1>10, <1>11

LEMMA EndScanAstrayStep ==
  ASSUME IInv, NEW t \in Listener, EndScanAstray(t)
  PROVE  QueryInv'
<1> USE DEF IInv, QueryInv
<1>1. /\ at[t] = "scan"
      /\ at' = [at EXCEPT ![t] = "astray"] /\ span' = [span EXCEPT ![t] = "none"]
      /\ UNCHANGED <<pc, dest_dist, dest_poss_nhop, asked, todo, answer, calls, early, raced>>
      /\ (Clean' <=> Clean)
  BY DEF EndScanAstray, mapVars, tables, graph, Clean
<1>2. answer' \in [Listener -> [Slot -> 0 .. Len(NbrTbl)]]
  BY <1>1 DEF QueryTypeOK
<1>3. /\ \A u \in Listener : at'[u] = IF u = t THEN "astray" ELSE at[u]
      /\ QueryTypeOK' /\ Calls' /\ Entered' /\ Unraced'
  BY <1>1, <1>2, ScanEnds
<1>4. AnswersRight'
  BY <1>1, <1>3, AnswersStay
<1>5. QED
  BY <1>3, <1>4

LEMMA CallDiesStep ==
  ASSUME IInv, NEW t \in Listener, CallDies(t)
  PROVE  QueryInv' /\ pc # "copy"
<1> USE DEF IInv, QueryInv
<1>1. /\ pc' = "killed" /\ (Clean' <=> Clean)
      /\ UNCHANGED <<dest_dist, dest_poss_nhop, at, asked, todo, span, answer, calls, early, raced>>
      /\ span[t] # "none" \/ at[t] = "scan"
  BY DEF CallDies, tables, graph, queryVars, callVars, Clean
<1>2. at[t] \in {"fill", "scan"} /\ pc # "copy"
  BY <1>1 DEF Calls, CallOK
<1>3. QueryTypeOK'
  BY <1>1 DEF QueryTypeOK
<1>4. Calls'
  BY <1>1, <1>2 DEF Calls, CallOK, Listed
<1>5. Entered'
  BY <1>1 DEF Entered
<1>6. Unraced'
  BY <1>1 DEF Unraced, Provided, Alone
<1>7. AnswersRight'
  BY <1>1, AnswersStay
<1>8. QED
  BY <1>2, <1>3, <1>4, <1>5, <1>6, <1>7

LEMMA QuerySteps ==
  ASSUME IInv, NEW t \in Listener, QueryStep(t)
  PROVE  IInv'
<1> USE DEF IInv
<1>1. CASE \E ds \in Query : CallUnicast(t, ds) \/ CallMulticast(t, ds) \/ CallTooEarly(t, ds)
  <2>1. UNCHANGED mapVars
    BY <1>1 DEF CallUnicast, CallMulticast, CallTooEarly
  <2>2. MapInv'
    BY <2>1, MapLeftAlone
  <2>3. QueryInv'
    BY <1>1, CallUnicastStep, CallMulticastStep, CallTooEarlyStep
  <2>4. QED
    BY <2>2, <2>3
<1>2. CASE \E ds \in Query : CallTooEarlyDies(t, ds)
  <2>1. pc # "copy" /\ pc' = "killed" /\ UNCHANGED <<graph, pred, dist, walk, tables>>
    BY <1>2 DEF CallTooEarlyDies, CanCall, Published
  <2>2. MapInv'
    BY <2>1, MapLeftAlone
  <2>3. QueryInv'
    BY <1>2, CallTooEarlyDiesStep
  <2>4. QED
    BY <2>2, <2>3
<1>3. CASE BeginEntry(t) \/ EndEntry(t) \/ BeginScan(t) \/ EndScan(t) \/ EndScanAstray(t)
  <2>1. UNCHANGED mapVars
    BY <1>3 DEF BeginEntry, EndEntry, BeginScan, EndScan, EndScanAstray
  <2>2. MapInv'
    BY <2>1, MapLeftAlone
  <2>3. QueryInv'
    BY <1>3, BeginEntryStep, EndEntryStep, BeginScanStep, EndScanStep, EndScanAstrayStep
  <2>4. QED
    BY <2>2, <2>3
<1>4. CASE CallDies(t)
  <2>1. pc' = "killed" /\ UNCHANGED <<graph, pred, dist, walk, tables>>
    BY <1>4 DEF CallDies
  <2>2. QueryInv' /\ pc # "copy"
    BY <1>4, CallDiesStep
  <2>3. MapInv'
    BY <2>1, <2>2, MapLeftAlone
  <2>4. QED
    BY <2>2, <2>3
<1>5. QED
  BY <1>1, <1>2, <1>3, <1>4 DEF QueryStep

LEMMA Stutter ==
  ASSUME IInv, UNCHANGED vars
  PROVE  IInv'
<1>1. UNCHANGED mapVars /\ UNCHANGED queryVars
  BY DEF vars
<1>2. MapInv'
  BY <1>1, MapLeftAlone DEF IInv
<1>3. /\ UNCHANGED <<pc, dest_dist, dest_poss_nhop, at, asked, todo, span, answer, calls, early, raced>>
      /\ (Clean' <=> Clean)
  BY <1>1 DEF mapVars, queryVars, callVars, graph, tables, Clean
<1>4. QueryTypeOK'
  BY <1>3 DEF IInv, QueryInv, QueryTypeOK
<1>5. Calls'
  BY <1>3 DEF IInv, QueryInv, Calls, CallOK, Listed
<1>6. Entered'
  BY <1>3 DEF IInv, QueryInv, Entered
<1>7. Unraced'
  BY <1>3 DEF IInv, QueryInv, Unraced, Provided, Alone
<1>8. AnswersRight'
  BY <1>3, AnswersStay DEF IInv, QueryInv
<1>9. QED
  BY <1>2, <1>4, <1>5, <1>6, <1>7, <1>8 DEF IInv, QueryInv

-----------------------------------------------------------------------------
(* What follows.                                                           *)

\* The invariant holds in every state.
THEOREM Invariance == Spec => []IInv
<1>1. Init => IInv
  BY MapInit, QueryInit DEF Init, IInv
<1>2. IInv /\ [Next]_vars => IInv'
  <2> SUFFICES ASSUME IInv, [Next]_vars PROVE IInv'
    OBVIOUS
  <2>1. CASE BuildStep /\ UNCHANGED queryVars
    BY <2>1, BuildSteps, BuildLeavesCalls DEF IInv
  <2>2. CASE \E t \in Listener : QueryStep(t)
    BY <2>2, QuerySteps
  <2>3. CASE UNCHANGED vars
    BY <2>3, Stutter
  <2>4. QED
    BY <2>1, <2>2, <2>3 DEF Next
<1>3. QED
  BY <1>1, <1>2, PTL DEF Spec

\* The map keeps its types, whatever is recorded and whatever strlen finds behind the
\* arrays (router.cpp, build_map).
THEOREM TypeCorrect == Spec => []TypeOK
<1>1. IInv => TypeOK
  BY DEF IInv, MapInv
<1>2. QED
  BY <1>1, Invariance, PTL

\* So does the state of the calls, races and calls that come too early included
\* (forwarding_table_filler.h:40-152).
THEOREM CallsTyped == Spec => []QueryTypeOK
<1>1. IInv => QueryTypeOK
  BY DEF IInv, QueryInv
<1>2. QED
  BY <1>1, Invariance, PTL

\* On a clean map every walk back ends at the router (forwarding_table_filler.h:178).
THEOREM WalksEnd == Spec => []CleanSurvives
<1>1. IInv => CleanSurvives
  BY DEF IInv, MapInv, CleanMap, CleanSurvives
<1>2. QED
  BY <1>1, Invariance, PTL

\* Of a clean map, whichever shortest paths Dijkstra keeps, run_dijkstra and set_all
\* make the tables that NextHops assumes (forwarding_table_filler.h:153-229).
THEOREM TablesOfCleanMap == Spec => []TablesRight
<1>1. IInv => TablesRight
  <2> SUFFICES ASSUME IInv, pc = "done", Clean
               PROVE  /\ dest_dist = Dist[Self]
                      /\ nhop_dest_dist = [n \in Neighbors(Self) |-> Dist[n]]
                      /\ \A d \in Node \ {Self} :
                           /\ dest_port[d] \in DOMAIN NbrTbl
                           /\ Dist[Self][d] = Dist[NbrTbl[dest_port[d]]][d] + 1
    BY DEF TablesRight
  <2> USE DEF IInv, MapInv
  <2>1. dest_dist = Dist[Self]
    BY DEF CleanMap
  <2>2. nhop_dest_dist = [n \in Neighbors(Self) |-> Dist[n]]
    BY OwnNeighbors DEF CleanMap, Progress
  <2>3. \A d \in Node : d \in DOMAIN dest_port
    BY CleanSoFar DEF Progress
  <2>4. \A d \in Node \ {Self} : /\ dest_port[d] \in DOMAIN NbrTbl
                                 /\ Dist[Self][d] = Dist[NbrTbl[dest_port[d]]][d] + 1
    BY <2>3 DEF CleanMap, Towards
  <2>5. QED
    BY <2>1, <2>2, <2>4
<1>2. QED
  BY <1>1, Invariance, PTL

\* Whatever other calls have left in the map that none of them clears, or are just
\* writing there, a call gives what NextHops says (forwarding_table_filler.h:40-152).
THEOREM Answers == Spec => []AnswersRight
<1>1. IInv => AnswersRight
  BY DEF IInv, QueryInv
<1>2. QED
  BY <1>1, Invariance, PTL

\* A step that races begins to insert an entry that some call misses.
RaceIsFresh ==
  (~raced /\ raced' /\ ~early /\ Clean) =>
    \E t \in Listener : \E d \in Dests(asked[t]) :
      at[t] \in {"fill", "scan"}
      /\ Cardinality(DOMAIN dest_poss_nhop[d]) < Cardinality(Possible(Self, d))

\* An insertion that races is one of an entry that the destinations of some call under
\* way do not have yet (forwarding_table_filler.h:56).
THEOREM RaceOver == Spec => RaceOnlyWhileNew
<1> DEFINE Fresh == \E t \in Listener : \E d \in Dests(asked[t]) :
             /\ at[t] \in {"fill", "scan"}
             /\ Cardinality(DOMAIN dest_poss_nhop[d]) < Cardinality(Possible(Self, d))
<1>1. IInv /\ [Next]_vars => [RaceIsFresh]_vars
  <2> SUFFICES ASSUME IInv, Next, ~raced, raced', ~early, Clean PROVE Fresh
    BY DEF RaceIsFresh
  <2>1. PICK t \in Listener : BeginEntry(t) \/ BeginScan(t)
    <3>1. PICK t \in Listener : QueryStep(t)
      BY DEF Next, queryVars
    <3>2. BeginEntry(t) \/ BeginScan(t)
      BY <3>1 DEF QueryStep, CallUnicast, CallMulticast, CallTooEarly, CallTooEarlyDies,
                  EndEntry, EndScan, EndScanAstray, CallDies, queryVars
    <3>3. QED
      BY <3>2
  <2>2. ASSUME NEW u \in Listener, at[u] = "fill", todo[u] # <<>>,
               Head(todo[u]).index \notin DOMAIN dest_poss_nhop[Head(todo[u]).dest]
        PROVE  Fresh
    <3> DEFINE e == Head(todo[u])
    <3>1. 1 \in DOMAIN todo[u] /\ e = todo[u][1]
      <4>1. todo[u] \in Seq(Entry)
        BY DEF IInv, QueryInv, QueryTypeOK, Entry
      <4>2. \A s \in Seq(Entry) : s # <<>> => 1 \in DOMAIN s /\ Head(s) = s[1]
        OBVIOUS
      <4>3. QED
        BY <2>2, <4>1, <4>2
    <3>2. e.dest \in Dests(asked[u]) /\ asked[u] \in Query
      BY <2>2, <3>1 DEF IInv, QueryInv, Calls, CallOK
    <3>3. e.dest \in Node
      BY <3>2, QueryLists
    <3>4. e.index \in DOMAIN Choices(e.dest)
      BY <2>2, <3>1 DEF IInv, QueryInv, Entered
    <3>5. DOMAIN dest_poss_nhop[e.dest] \subseteq DOMAIN Choices(e.dest)
      BY <3>3 DEF IInv, QueryInv, Entered
    <3> HIDE DEF e
    <3>6. /\ DOMAIN Choices(e.dest) = 1 .. Cardinality(Possible(Self, e.dest))
          /\ Cardinality(Possible(Self, e.dest)) \in Nat
      BY ChoicesFacts
    <3>7. /\ IsFiniteSet(DOMAIN Choices(e.dest))
          /\ Cardinality(DOMAIN Choices(e.dest)) = Cardinality(Possible(Self, e.dest))
      BY <3>6, FS_Interval
    <3>8. Cardinality(DOMAIN dest_poss_nhop[e.dest]) < Cardinality(DOMAIN Choices(e.dest))
      BY <2>2, <3>4, <3>5, <3>7, FS_Subset, FS_CardinalityType DEF e
    <3>9. QED
      BY <2>2, <3>2, <3>7, <3>8
  <2>3. \A u \in Listener : span[u] = "insert" =>
          /\ at[u] = "fill" /\ todo[u] # <<>>
          /\ Head(todo[u]).index \notin DOMAIN dest_poss_nhop[Head(todo[u]).dest]
    BY DEF IInv, QueryInv, Calls, CallOK, Unraced, Alone
  <2>4. CASE \E u \in Listener : span[u] = "insert"
    BY <2>2, <2>3, <2>4
  <2>5. CASE ~\E u \in Listener : span[u] = "insert"
    <3>1. /\ BeginEntry(t) /\ at[t] = "fill" /\ todo[t] # <<>>
          /\ Head(todo[t]).index \notin DOMAIN dest_poss_nhop[Head(todo[t]).dest]
      BY <2>1, <2>5 DEF BeginEntry, BeginScan, Begins, Conflict
    <3>2. QED
      BY <2>2, <3>1
  <2>6. QED
    BY <2>4, <2>5
<1>2. Spec => [][RaceIsFresh]_vars
  BY Invariance, <1>1, PTL DEF Spec
<1>3. QED
  BY <1>2 DEF RaceOnlyWhileNew, RaceIsFresh
=============================================================================
