-------------------------- MODULE ForwardingProofs --------------------------
(***************************************************************************)
(* Proofs about Forwarding, for every network and every trial packet: the  *)
(* types, that no copy of a packet is forwarded for ever, and that no      *)
(* destination gets a packet twice.                                        *)
(*                                                                         *)
(* Both arguments are by exchange.  If a combination of next hops sent     *)
(* some group of destinations to a router n that is no nearer to any of    *)
(* them, then sending each of them to its own first hop on a shortest path *)
(* would be cheaper: the distances shrink by one per destination, n is not *)
(* paid for any more, and at most one link per destination is              *)
(* (BestProgress).  And if it sent two copies towards one destination,     *)
(* sending both of them the better way would be cheaper (Merge).  So the   *)
(* combination was not one of the least cost.                              *)
(***************************************************************************)
EXTENDS Forwarding, TLAPS, FiniteSetTheorems

LEMMA NeighborsAreNodes == \A r \in Node : Neighbors(r) \subseteq Node
BY LinkAssumption DEF Neighbors, PortsOf

\* A sum of three is monotonic.
LEMMA SumMonotonic ==
  ASSUME NEW s \in [Slot -> Int], NEW t \in [Slot -> Int], \A i \in Slot : s[i] <= t[i]
  PROVE  /\ Sum(s) <= Sum(t)
         /\ (\E i \in Slot : s[i] < t[i]) => Sum(s) < Sum(t)
BY DEF Sum, Slot

LEMMA TotalType ==
  ASSUME NEW r \in Node, NEW ds \in DestList
  PROVE  Total(r, ds) \in Nat
<1>. DEFINE t == [i \in Slot |-> IF ds[i] = NoNode THEN 0 ELSE Dist[r][ds[i]]]
<1>1. t \in [Slot -> Nat]
  BY DijkstraAssumption DEF DestList
<1>2. Sum(t) \in Nat
  BY <1>1 DEF Sum, Slot
<1>. QED  BY <1>2 DEF Total

LEMMA CombinationFacts ==
  ASSUME NEW r \in Node, NEW ds \in DestList, NEW f \in Combinations(r, ds)
  PROVE  /\ f \in [Slot -> Node \cup {NoNode}]
         /\ \A i \in Slot : f[i] = NoNode <=> ds[i] = NoNode
         /\ \A i \in Slot : ds[i] # NoNode =>
              f[i] \in Node /\ ds[i] \in Node /\ Dist[f[i]][ds[i]] <= Dist[r][ds[i]]
<1>1. Neighbors(r) \subseteq Node
  BY NeighborsAreNodes
<1>2. f \in [Slot -> Neighbors(r) \cup {NoNode}]
  BY DEF Combinations
<1>3. ASSUME NEW i \in Slot
      PROVE  /\ ds[i] = NoNode => f[i] = NoNode
             /\ ds[i] # NoNode => f[i] \in Possible(r, ds[i])
  BY DEF Combinations
<1>4. ASSUME NEW i \in Slot, ds[i] # NoNode
      PROVE  f[i] \in Node /\ ds[i] \in Node /\ Dist[f[i]][ds[i]] <= Dist[r][ds[i]]
  <2>1. ds[i] \in Node
    BY <1>4 DEF DestList
  <2>2. f[i] \in Node /\ Dist[r][ds[i]] >= Dist[f[i]][ds[i]]
    BY <1>1, <1>3, <1>4 DEF Possible
  <2>. QED  BY <2>1, <2>2, DijkstraAssumption
<1>. QED  BY <1>1, <1>2, <1>3, <1>4, NodeAssumption

LEMMA LinkCostIs01 == \A f, i : LinkCost(f, i) \in {0, 1}
BY DEF LinkCost

\* The next hops of least cost: each of them is nearer to a destination it gets.
LEMMA BestProgress ==
  ASSUME NEW r \in Node, NEW ds \in DestList, r \notin Dests(ds),
         NEW f \in Best(r, ds), NEW n \in Node, n \in Range(f)
  PROVE  \E i \in Slot : f[i] = n /\ ds[i] # NoNode /\ Dist[n][ds[i]] < Dist[r][ds[i]]
<1>. SUFFICES ASSUME \A i \in Slot : f[i] = n /\ ds[i] # NoNode =>
                        ~(Dist[n][ds[i]] < Dist[r][ds[i]])
              PROVE  FALSE
  OBVIOUS
<1>. DEFINE g == [i \in Slot |-> IF f[i] = n THEN First[r][ds[i]] ELSE f[i]]
            term(h) == [i \in Slot |-> IF ds[i] = NoNode THEN 0
                                       ELSE Dist[h[i]][ds[i]] + LinkCost(h, i)]
<1>1. f \in Combinations(r, ds)
  BY DEF Best
<1>2. /\ f \in [Slot -> Node \cup {NoNode}]
      /\ \A i \in Slot : f[i] = NoNode <=> ds[i] = NoNode
      /\ \A i \in Slot : ds[i] # NoNode =>
           f[i] \in Node /\ ds[i] \in Node /\ Dist[f[i]][ds[i]] <= Dist[r][ds[i]]
  BY <1>1, CombinationFacts
<1>3. ASSUME NEW i \in Slot, f[i] = n
      PROVE  /\ ds[i] \in Node
             /\ First[r][ds[i]] \in Neighbors(r) /\ First[r][ds[i]] \in Node
             /\ Dist[n][ds[i]] = Dist[First[r][ds[i]]][ds[i]] + 1
             /\ Dist[r][ds[i]] = Dist[First[r][ds[i]]][ds[i]] + 1
             /\ Dist[First[r][ds[i]]][ds[i]] \in Nat
  <2>1. ds[i] # NoNode /\ ds[i] \in Node
    BY <1>2, <1>3, NodeAssumption
  <2>2. ds[i] # r
    BY <2>1 DEF Dests, Range, DestList
  <2>3. First[r][ds[i]] \in Neighbors(r) /\ First[r][ds[i]] \in Node
    BY <2>1, <2>2, DijkstraAssumption
  <2>4. Dist[r][ds[i]] = Dist[First[r][ds[i]]][ds[i]] + 1
    BY <2>1, <2>2, DijkstraAssumption
  <2>5. Dist[n][ds[i]] = Dist[r][ds[i]]
    BY <2>1, <1>2, <1>3, DijkstraAssumption
  <2>6. Dist[First[r][ds[i]]][ds[i]] \in Nat
    BY <2>1, <2>3, DijkstraAssumption
  <2>. QED  BY <2>1, <2>3, <2>4, <2>5, <2>6
<1>4. PICK k \in Slot : f[k] = n /\ \A j \in 1 .. k - 1 : f[j] # n
  <2>1. PICK i \in Slot : f[i] = n
    BY <1>2 DEF Range
  <2>2. CASE f[1] = n
    BY <2>2 DEF Slot
  <2>3. CASE f[1] # n /\ f[2] = n
    BY <2>3 DEF Slot
  <2>4. CASE f[1] # n /\ f[2] # n
    <3>1. i = 3
      BY <2>1, <2>4 DEF Slot
    <3>2. \A j \in 1 .. 3 - 1 : f[j] # n
      BY <2>4
    <3>. QED  BY <2>1, <3>1, <3>2
  <2>. QED  BY <2>2, <2>3, <2>4
<1>5. g \in Combinations(r, ds)
  <2>1. f \in [Slot -> Neighbors(r) \cup {NoNode}]
    BY <1>1 DEF Combinations
  <2>2. g \in [Slot -> Neighbors(r) \cup {NoNode}]
    BY <2>1, <1>3
  <2>3. ASSUME NEW i \in Slot, ds[i] = NoNode
        PROVE  g[i] = NoNode
    BY <2>3, <1>2, NodeAssumption
  <2>4. ASSUME NEW i \in Slot, ds[i] # NoNode
        PROVE  g[i] \in Possible(r, ds[i])
    <3>1. CASE f[i] = n
      <4>1. g[i] = First[r][ds[i]]
        BY <3>1
      <4>2. Dist[r][ds[i]] >= Dist[First[r][ds[i]]][ds[i]]
        BY <3>1, <1>3
      <4>. QED  BY <4>1, <4>2, <3>1, <1>3 DEF Possible
    <3>2. CASE f[i] # n
      <4>1. g[i] = f[i]
        BY <3>2
      <4>2. f[i] \in Possible(r, ds[i])
        BY <1>1, <2>4 DEF Combinations
      <4>. QED  BY <4>1, <4>2
    <3>. QED  BY <3>1, <3>2
  <2>. QED  BY <2>2, <2>3, <2>4 DEF Combinations
<1>6. g # f
  <2>1. g[k] = First[r][ds[k]]
    BY <1>4
  <2>2. Dist[n][ds[k]] # Dist[First[r][ds[k]]][ds[k]]
    BY <1>3, <1>4
  <2>. QED  BY <2>1, <2>2, <1>4
<1>7. ASSUME NEW i \in Slot
      PROVE  /\ term(f)[i] \in Int /\ term(g)[i] \in Int
             /\ term(g)[i] <= term(f)[i]
             /\ i = k => term(g)[i] < term(f)[i]
  <2>1. CASE ds[i] = NoNode
    <3>1. i # k
      BY <2>1, <1>2, <1>4, NodeAssumption
    <3>. QED  BY <2>1, <3>1
  <2>2. CASE ds[i] # NoNode /\ f[i] # n
    <3>1. g[i] = f[i] /\ i # k
      BY <2>2, <1>4
    <3>2. LinkCost(g, i) <= LinkCost(f, i)
      <4>1. CASE \E j \in 1 .. i - 1 : f[j] = f[i]
        <5>1. PICK j \in 1 .. i - 1 : f[j] = f[i]
          BY <4>1
        <5>2. j \in Slot
          BY <5>1 DEF Slot
        <5>3. g[j] = g[i]
          BY <5>1, <5>2, <3>1, <2>2
        <5>. QED  BY <5>1, <5>3, <4>1 DEF LinkCost
      <4>2. CASE ~\E j \in 1 .. i - 1 : f[j] = f[i]
        <5>1. LinkCost(f, i) = 1
          BY <4>2 DEF LinkCost
        <5>. QED  BY <5>1, LinkCostIs01
      <4>. QED  BY <4>1, <4>2
    <3>3. Dist[f[i]][ds[i]] \in Nat
      BY <2>2, <1>2, DijkstraAssumption
    <3>4. /\ term(f)[i] = Dist[f[i]][ds[i]] + LinkCost(f, i)
          /\ term(g)[i] = Dist[f[i]][ds[i]] + LinkCost(g, i)
      BY <2>2, <3>1
    <3>5. LinkCost(f, i) \in {0, 1} /\ LinkCost(g, i) \in {0, 1}
      BY LinkCostIs01
    <3>. HIDE DEF term, g
    <3>. QED  BY <3>1, <3>2, <3>3, <3>4, <3>5
  <2>3. CASE ds[i] # NoNode /\ f[i] = n
    <3>1. g[i] = First[r][ds[i]]
      BY <2>3
    <3>2. /\ term(f)[i] = Dist[n][ds[i]] + LinkCost(f, i)
          /\ term(g)[i] = Dist[First[r][ds[i]]][ds[i]] + LinkCost(g, i)
      BY <2>3, <3>1
    <3>3. LinkCost(f, i) \in {0, 1} /\ LinkCost(g, i) \in {0, 1}
      BY LinkCostIs01
    <3>4. i = k => LinkCost(f, i) = 1
      BY <1>4, <2>3 DEF LinkCost
    <3>5. /\ Dist[n][ds[i]] = Dist[First[r][ds[i]]][ds[i]] + 1
          /\ Dist[First[r][ds[i]]][ds[i]] \in Nat
      BY <1>3, <2>3
    <3>. HIDE DEF term, g
    <3>. QED  BY <3>2, <3>3, <3>4, <3>5
  <2>. QED  BY <2>1, <2>2, <2>3
<1>8. Sum(term(g)) < Sum(term(f)) /\ Sum(term(g)) \in Int /\ Sum(term(f)) \in Int
  <2>1. term(g) \in [Slot -> Int] /\ term(f) \in [Slot -> Int]
    <3>1. term(g) = [i \in Slot |-> term(g)[i]] /\ term(f) = [i \in Slot |-> term(f)[i]]
      OBVIOUS
    <3>. HIDE DEF term, g
    <3>. QED  BY <3>1, <1>7
  <2>2. \A i \in Slot : term(g)[i] <= term(f)[i]
    BY <1>7
  <2>3. \E i \in Slot : term(g)[i] < term(f)[i]
    BY <1>7, <1>4
  <2>. HIDE DEF term, g
  <2>4. Sum(term(g)) < Sum(term(f))
    BY <2>1, <2>2, <2>3, SumMonotonic
  <2>5. Sum(term(g)) \in Int /\ Sum(term(f)) \in Int
    BY <2>1 DEF Sum, Slot
  <2>. QED  BY <2>4, <2>5
<1>9. Cost(ds, g) = Sum(term(g)) /\ Cost(ds, f) = Sum(term(f))
  BY DEF Cost
<1>10. Cost(ds, f) < Cost(ds, g) \/ Cost(ds, f) = Cost(ds, g)
  BY <1>5, <1>6 DEF Best
<1>. HIDE DEF term, g
<1>. QED  BY <1>8, <1>9, <1>10

\* Whatever the next hops are chosen by: the part of the packet that goes to n is
\* nearer to its destinations at n than the whole packet is at r.
LEMMA Progress ==
  ASSUME NEW r \in Node, NEW ds \in DestList, r \notin Dests(ds),
         NEW f \in NextHops(r, ds), NEW n \in Node, n \in Range(f)
  PROVE  /\ Part(ds, f, n) \in DestList
         /\ Total(n, Part(ds, f, n)) + 1 <= Total(r, ds)
<1>. DEFINE t(x, l) == [i \in Slot |-> IF l[i] = NoNode THEN 0 ELSE Dist[x][l[i]]]
<1>1. /\ f \in [Slot -> Node \cup {NoNode}]
      /\ \A i \in Slot : f[i] = n =>
           ds[i] \in Node /\ Dist[n][ds[i]] <= Dist[r][ds[i]]
      /\ \E i \in Slot : f[i] = n /\ ds[i] # NoNode /\ Dist[n][ds[i]] < Dist[r][ds[i]]
  <2>1. CASE Unicast(ds)
    <3>1. f = [i \in Slot |-> IF ds[i] = NoNode THEN NoNode ELSE First[r][ds[i]]]
      BY <2>1 DEF NextHops
    <3>2. ASSUME NEW i \in Slot, ds[i] # NoNode
          PROVE  /\ ds[i] \in Node /\ f[i] \in Node
                 /\ Dist[f[i]][ds[i]] < Dist[r][ds[i]]
      <4>1. ds[i] \in Node /\ ds[i] # r
        BY <3>2 DEF Dests, Range, DestList
      <4>2. f[i] = First[r][ds[i]] /\ f[i] \in Node
        BY <3>1, <3>2, <4>1, DijkstraAssumption
      <4>3. Dist[r][ds[i]] = Dist[f[i]][ds[i]] + 1 /\ Dist[f[i]][ds[i]] \in Nat
        BY <4>1, <4>2, DijkstraAssumption
      <4>. QED  BY <4>1, <4>2, <4>3
    <3>3. ASSUME NEW i \in Slot, f[i] = n
          PROVE  ds[i] # NoNode
      BY <3>1, <3>3, NodeAssumption
    <3>4. f \in [Slot -> Node \cup {NoNode}]
      BY <3>1, <3>2
    <3>5. PICK k \in Slot : f[k] = n
      BY <3>1 DEF Range
    <3>6. \A i \in Slot : f[i] = n =>
            ds[i] \in Node /\ Dist[n][ds[i]] <= Dist[r][ds[i]]
      BY <3>2, <3>3, DijkstraAssumption
    <3>. QED  BY <3>2, <3>3, <3>4, <3>5, <3>6
  <2>2. CASE ~Unicast(ds)
    <3>1. f \in Best(r, ds) /\ f \in Combinations(r, ds)
      BY <2>2 DEF NextHops, Best
    <3>. QED  BY <3>1, CombinationFacts, BestProgress, NodeAssumption
  <2>. QED  BY <2>1, <2>2
<1>2. Part(ds, f, n) \in DestList
  BY DEF Part, DestList
<1>3. ASSUME NEW i \in Slot
      PROVE  /\ t(n, Part(ds, f, n))[i] \in Int /\ t(r, ds)[i] \in Int
             /\ t(n, Part(ds, f, n))[i] <= t(r, ds)[i]
             /\ (f[i] = n /\ ds[i] # NoNode /\ Dist[n][ds[i]] < Dist[r][ds[i]]) =>
                  t(n, Part(ds, f, n))[i] < t(r, ds)[i]
  <2>1. ds[i] # NoNode => ds[i] \in Node /\ Dist[r][ds[i]] \in Nat /\ Dist[n][ds[i]] \in Nat
    BY DijkstraAssumption DEF DestList
  <2>2. Part(ds, f, n)[i] = IF f[i] = n THEN ds[i] ELSE NoNode
    BY DEF Part
  <2>3. CASE f[i] = n
    <3>1. Dist[n][ds[i]] <= Dist[r][ds[i]] /\ ds[i] # NoNode
      BY <1>1, <2>3, NodeAssumption
    <3>. QED  BY <2>1, <2>2, <2>3, <3>1
  <2>4. CASE f[i] # n
    <3>1. t(n, Part(ds, f, n))[i] = 0
      BY <2>2, <2>4
    <3>. QED  BY <3>1, <2>1, <2>4
  <2>. QED  BY <2>3, <2>4
<1>4. t(n, Part(ds, f, n)) \in [Slot -> Int] /\ t(r, ds) \in [Slot -> Int]
  <2>1. /\ t(n, Part(ds, f, n)) = [i \in Slot |-> t(n, Part(ds, f, n))[i]]
        /\ t(r, ds) = [i \in Slot |-> t(r, ds)[i]]
    OBVIOUS
  <2>. HIDE DEF t
  <2>. QED  BY <2>1, <1>3
<1>5. \E i \in Slot : t(n, Part(ds, f, n))[i] < t(r, ds)[i]
  <2>. HIDE DEF t
  <2>. QED  BY <1>1, <1>3
<1>6. Sum(t(n, Part(ds, f, n))) < Sum(t(r, ds))
  <2>. HIDE DEF t
  <2>. QED  BY <1>3, <1>4, <1>5, SumMonotonic
<1>7. Total(n, Part(ds, f, n)) = Sum(t(n, Part(ds, f, n))) /\ Total(r, ds) = Sum(t(r, ds))
  BY DEF Total
<1>8. Total(n, Part(ds, f, n)) \in Nat /\ Total(r, ds) \in Nat
  BY <1>2, TotalType
<1>. HIDE DEF t
<1>. QED  BY <1>2, <1>6, <1>7, <1>8

-----------------------------------------------------------------------------
(* Sequences.                                                              *)

LEMMA TailFacts ==
  ASSUME NEW S, NEW s \in Seq(S), s # <<>>
  PROVE  /\ Head(s) \in S /\ 1 \in DOMAIN s /\ Head(s) = s[1]
         /\ Tail(s) \in Seq(S)
         /\ \A i \in DOMAIN Tail(s) : i + 1 \in DOMAIN s /\ Tail(s)[i] = s[i + 1]
OBVIOUS

LEMMA AppendFacts ==
  ASSUME NEW S, NEW s \in Seq(S), NEW e \in S
  PROVE  /\ Append(s, e) \in Seq(S)
         /\ \A i \in DOMAIN Append(s, e) :
              Append(s, e)[i] = e \/ (i \in DOMAIN s /\ Append(s, e)[i] = s[i])
OBVIOUS

-----------------------------------------------------------------------------
(* The invariant.                                                          *)

\* The bound on packet m at router r, when the packets of each s have gone astray
\* a[s] times; and that of all the packets in the sockets.
Bounded(r, m, a) ==
  a[m.src] = 0 => m.hops + Total(r, m.dests) <= Total(m.src, Trial[m.src])
AllBounded(sockets, a) ==
  \A p \in Port : \A i \in DOMAIN sockets[p] : Bounded(Owner[p], sockets[p][i], a)

IInv == TypeOK /\ AllBounded(net, astray)

LEMMA NextTTLType == \A c \in 0 .. 255 : NextTTL(c) \in 0 .. 255
BY DEF NextTTL

LEMMA CombinationsType ==
  ASSUME NEW r \in Node, NEW ds \in DestList, NEW f \in NextHops(r, ds)
  PROVE  f \in [Slot -> Node \cup {NoNode}]
<1>1. CASE Unicast(ds)
  BY <1>1, DijkstraAssumption DEF NextHops, DestList
<1>2. CASE ~Unicast(ds)
  BY <1>2, CombinationFacts DEF NextHops, Best
<1>. QED  BY <1>1, <1>2

\* What is sent is typed, whatever the next hops.
LEMMA SendToType ==
  ASSUME NEW sockets \in [Port -> Seq(Packet)], NEW r \in Node, NEW m \in Packet, NEW f
  PROVE  SendTo(sockets, r, m, f) \in [Port -> Seq(Packet)]
<1>1. ASSUME NEW q \in Port
      PROVE  [src |-> m.src, dests |-> Part(m.dests, f, Owner[q]),
              ttl |-> NextTTL(m.ttl), hops |-> m.hops + 1] \in Packet
  <2>1. Part(m.dests, f, Owner[q]) \in DestList
    BY DEF Part, DestList, Packet
  <2>2. NextTTL(m.ttl) \in 0 .. 255
    BY NextTTLType DEF Packet
  <2>. QED  BY <2>1, <2>2 DEF Packet
<1>. QED  BY <1>1, AppendFacts DEF SendTo

\* What is sent is bounded, if the next hops are those of forward_to_port.
LEMMA SendToBounded ==
  ASSUME NEW a, NEW sockets \in [Port -> Seq(Packet)], AllBounded(sockets, a),
         NEW r \in Node, NEW m \in Packet, Bounded(r, m, a), NEW f,
         a[m.src] = 0 => r \notin Dests(m.dests) /\ f \in NextHops(r, m.dests)
  PROVE  AllBounded(SendTo(sockets, r, m, f), a)
<1>. SUFFICES ASSUME NEW q \in Port, NEW i \in DOMAIN SendTo(sockets, r, m, f)[q]
              PROVE  Bounded(Owner[q], SendTo(sockets, r, m, f)[q][i], a)
  BY DEF AllBounded
<1>. DEFINE e == [src |-> m.src, dests |-> Part(m.dests, f, Owner[q]),
                  ttl |-> NextTTL(m.ttl), hops |-> m.hops + 1]
<1>1. CASE Owner[Peer[q]] = r /\ Owner[q] \in Range(f) /\ Owner[q] \notin dead
  <2>1. SendTo(sockets, r, m, f)[q] = Append(sockets[q], e)
    BY <1>1 DEF SendTo
  <2>2. e \in Packet
    <3>1. Part(m.dests, f, Owner[q]) \in DestList
      BY DEF Part, DestList, Packet
    <3>2. NextTTL(m.ttl) \in 0 .. 255
      BY NextTTLType DEF Packet
    <3>. QED  BY <3>1, <3>2 DEF Packet
  <2>3. Bounded(Owner[q], e, a)
    <3>. SUFFICES ASSUME a[m.src] = 0
                  PROVE  m.hops + 1 + Total(Owner[q], Part(m.dests, f, Owner[q]))
                           <= Total(m.src, Trial[m.src])
      BY DEF Bounded
    <3>1. m.dests \in DestList /\ m.hops \in Nat /\ m.src \in Node
      BY DEF Packet
    <3>2. Owner[q] \in Node
      BY LinkAssumption
    <3>3. /\ Part(m.dests, f, Owner[q]) \in DestList
          /\ Total(Owner[q], Part(m.dests, f, Owner[q])) + 1 <= Total(r, m.dests)
      BY <1>1, <3>1, <3>2, Progress
    <3>4. /\ Total(Owner[q], Part(m.dests, f, Owner[q])) \in Nat
          /\ Total(r, m.dests) \in Nat
          /\ Total(m.src, Trial[m.src]) \in Nat
      BY <3>1, <3>2, <3>3, TotalType, TrialAssumption
    <3>5. m.hops + Total(r, m.dests) <= Total(m.src, Trial[m.src])
      BY DEF Bounded
    <3>. QED  BY <3>1, <3>3, <3>4, <3>5
  <2>4. SendTo(sockets, r, m, f)[q][i] = e
          \/ (i \in DOMAIN sockets[q] /\ SendTo(sockets, r, m, f)[q][i] = sockets[q][i])
    <3>. HIDE DEF e
    <3>. QED  BY <2>1, <2>2, AppendFacts
  <2>. QED  BY <2>3, <2>4 DEF AllBounded
<1>2. CASE ~(Owner[Peer[q]] = r /\ Owner[q] \in Range(f) /\ Owner[q] \notin dead)
  <2>1. SendTo(sockets, r, m, f)[q] = sockets[q]
    BY <1>2 DEF SendTo
  <2>. QED  BY <2>1 DEF AllBounded
<1>. QED  BY <1>1, <1>2

LEMMA ReceivedFacts ==
  ASSUME TypeOK, AllBounded(net, astray), NEW p \in Port, net[p] # <<>>
  PROVE  /\ Head(net[p]) \in Packet
         /\ Received(p) \in [Port -> Seq(Packet)]
         /\ AllBounded(Received(p), astray)
         /\ Bounded(Owner[p], Head(net[p]), astray)
<1>1. net[p] \in Seq(Packet)
  BY DEF TypeOK
<1>2. Head(net[p]) \in Packet /\ Received(p) \in [Port -> Seq(Packet)]
  BY <1>1, TailFacts DEF TypeOK, Received
<1>3. Bounded(Owner[p], Head(net[p]), astray)
  BY <1>1, TailFacts DEF AllBounded
<1>4. ASSUME NEW q \in Port, NEW i \in DOMAIN Received(p)[q]
      PROVE  Bounded(Owner[q], Received(p)[q][i], astray)
  <2>1. CASE q = p
    <3>1. Received(p)[q] = Tail(net[p])
      BY <2>1 DEF Received, TypeOK
    <3>2. i + 1 \in DOMAIN net[p] /\ Received(p)[q][i] = net[p][i + 1]
      BY <3>1, <1>1, TailFacts
    <3>. QED  BY <2>1, <3>2 DEF AllBounded
  <2>2. CASE q # p
    <3>1. Received(p)[q] = net[q]
      BY <2>2 DEF Received, TypeOK
    <3>. QED  BY <3>1 DEF AllBounded
  <2>. QED  BY <2>1, <2>2
<1>. QED  BY <1>2, <1>3, <1>4 DEF AllBounded

LEMMA InitInvariant == Init => IInv
<1>. SUFFICES ASSUME Init PROVE IInv
  OBVIOUS
<1>1. TypeOK
  BY BoundsAssumption DEF Init, TypeOK
<1>2. AllBounded(net, astray)
  BY DEF Init, AllBounded
<1>. QED  BY <1>1, <1>2 DEF IInv

LEMMA DieInvariant ==
  ASSUME IInv, NEW r \in Node, Die(r)
  PROVE  IInv'
<1>1. /\ dead' = dead \cup {r}
      /\ net' = [q \in Port |-> IF Owner[q] = r THEN <<>> ELSE net[q]]
      /\ UNCHANGED <<ready, rxed, losses, astray>>
  BY DEF Die
<1>2. TypeOK'
  BY <1>1 DEF IInv, TypeOK
<1>3. AllBounded(net', astray)
  <2>1. ASSUME NEW q \in Port, NEW i \in DOMAIN net'[q]
        PROVE  net'[q] = net[q]
    BY <1>1, <2>1
  <2>. QED  BY <2>1 DEF IInv, AllBounded
<1>. QED  BY <1>1, <1>2, <1>3 DEF IInv, AllBounded, Bounded

LEMMA NextInvariant == IInv /\ [Next]_vars => IInv'
<1>. SUFFICES ASSUME IInv, [Next]_vars
              PROVE  IInv'
  OBVIOUS
<1>. USE DEF IInv
<1>1. ASSUME NEW r \in Node, BuildMap(r)
      PROVE  IInv'
  <2>1. ready' \in [Node -> BOOLEAN] /\ UNCHANGED <<rxed, dead, losses, astray>>
    BY <1>1 DEF BuildMap, TypeOK
  <2>2. CASE Trial[r] = NoDests
    <3>1. net' = net
      BY <1>1, <2>2 DEF BuildMap
    <3>. QED  BY <2>1, <3>1 DEF TypeOK, AllBounded, Bounded
  <2>3. CASE Trial[r] # NoDests
    <3>1. PICK f \in NextHops(r, Trial[r]) : net' = SendTo(net, r, TrialPacket(r), f)
      BY <1>1, <2>3 DEF BuildMap
    <3>2. TrialPacket(r) \in Packet
      BY TrialAssumption DEF TrialPacket, Packet
    <3>3. Bounded(r, TrialPacket(r), astray)
      <4>1. Total(r, Trial[r]) \in Nat
        BY TrialAssumption, TotalType
      <4>. QED  BY <4>1 DEF Bounded, TrialPacket
    <3>4. net' \in [Port -> Seq(Packet)]
      BY <3>1, <3>2, SendToType DEF TypeOK
    <3>5. AllBounded(net', astray)
      <4>1. /\ TrialPacket(r).dests = Trial[r]
            /\ r \notin Dests(Trial[r])
        BY TrialAssumption DEF TrialPacket
      <4>2. net \in [Port -> Seq(Packet)]
        BY DEF TypeOK
      <4>. QED  BY <3>1, <3>2, <3>3, <4>1, <4>2, SendToBounded
    <3>. QED  BY <2>1, <3>4, <3>5 DEF TypeOK, AllBounded, Bounded
  <2>. QED  BY <2>2, <2>3
<1>2. ASSUME NEW r \in Node, BuildMapDies(r)
      PROVE  IInv'
  BY <1>2, DieInvariant DEF BuildMapDies
<1>3. ASSUME NEW p \in Port, Keep(p)
      PROVE  IInv'
  <2>1. net[p] # <<>> /\ net' = Received(p) /\ UNCHANGED <<ready, dead, losses, astray>>
    BY <1>3 DEF Keep
  <2>2. /\ net' \in [Port -> Seq(Packet)]
        /\ AllBounded(net', astray)
        /\ Head(net[p]) \in Packet
    BY <2>1, ReceivedFacts
  <2>3. rxed' \in [Node -> [Node -> Nat]]
    <3>1. Owner[p] \in Node /\ Head(net[p]).src \in Node
      BY <2>2, LinkAssumption DEF Packet
    <3>. QED  BY <1>3, <3>1 DEF Keep, TypeOK
  <2>. QED  BY <2>1, <2>2, <2>3 DEF TypeOK, AllBounded, Bounded
<1>4. ASSUME NEW p \in Port, Forward(p)
      PROVE  IInv'
  <2>1. /\ net[p] # <<>> /\ Owner[p] \notin Dests(Head(net[p]).dests)
        /\ UNCHANGED <<ready, rxed, dead, losses, astray>>
    BY <1>4 DEF Forward
  <2>2. PICK f \in NextHops(Owner[p], Head(net[p]).dests) :
          net' = SendTo(Received(p), Owner[p], Head(net[p]), f)
    BY <1>4 DEF Forward
  <2>3. /\ Head(net[p]) \in Packet
        /\ Received(p) \in [Port -> Seq(Packet)]
        /\ AllBounded(Received(p), astray)
        /\ Bounded(Owner[p], Head(net[p]), astray)
    BY <2>1, ReceivedFacts
  <2>4. Owner[p] \in Node
    BY LinkAssumption
  <2>5. net' \in [Port -> Seq(Packet)]
    BY <2>2, <2>3, <2>4, SendToType
  <2>6. AllBounded(net', astray)
    BY <2>1, <2>2, <2>3, <2>4, SendToBounded
  <2>. QED  BY <2>1, <2>5, <2>6 DEF TypeOK, AllBounded, Bounded
<1>5. ASSUME NEW p \in Port, GoAstray(p)
      PROVE  IInv'
  <2>. DEFINE m == Head(net[p])
  <2>1. /\ net[p] # <<>> /\ astray[m.src] < MaxAstray
        /\ astray' = [astray EXCEPT ![m.src] = @ + 1]
        /\ UNCHANGED <<ready, rxed, dead, losses>>
    BY <1>5 DEF GoAstray
  <2>2. PICK f : net' = SendTo(Received(p), Owner[p], m, f)
    BY <1>5 DEF GoAstray
  <2>3. /\ m \in Packet /\ m.src \in Node
        /\ Received(p) \in [Port -> Seq(Packet)]
        /\ AllBounded(Received(p), astray)
    BY <2>1, ReceivedFacts DEF Packet
  <2>4. net' \in [Port -> Seq(Packet)]
    BY <2>2, <2>3, LinkAssumption, SendToType
  <2>5. /\ astray' \in [Node -> 0 .. MaxAstray]
        /\ astray'[m.src] # 0
        /\ \A s \in Node : astray'[s] = 0 => astray[s] = 0
    <3>. HIDE DEF m
    <3>. QED  BY <2>1, <2>3, BoundsAssumption DEF TypeOK
  <2>6. AllBounded(Received(p), astray')
    <3>1. ASSUME NEW q \in Port, NEW i \in DOMAIN Received(p)[q]
          PROVE  Received(p)[q][i].src \in Node
      <4>1. Received(p)[q] \in Seq(Packet)
        BY <2>3
      <4>2. Received(p)[q][i] \in Packet
        BY <4>1, TailFacts
      <4>. QED  BY <4>2 DEF Packet
    <3>. QED  BY <2>3, <2>5, <3>1 DEF AllBounded, Bounded
  <2>7. AllBounded(net', astray')
    <3>1. Bounded(Owner[p], m, astray')
      BY <2>5 DEF Bounded
    <3>. HIDE DEF m
    <3>. QED  BY <2>2, <2>3, <2>5, <2>6, <3>1, LinkAssumption, SendToBounded
  <2>. QED  BY <2>1, <2>4, <2>5, <2>7 DEF TypeOK, AllBounded, Bounded
<1>6. ASSUME NEW p \in Port, ForwardDies(p)
      PROVE  IInv'
  BY <1>6, DieInvariant, LinkAssumption DEF ForwardDies
<1>7. ASSUME NEW p \in Port, Lose(p)
      PROVE  IInv'
  <2>1. /\ net[p] # <<>> /\ net' = Received(p)
        /\ losses < MaxLosses /\ losses' = losses + 1
        /\ UNCHANGED <<ready, rxed, dead, astray>>
    BY <1>7 DEF Lose
  <2>2. net' \in [Port -> Seq(Packet)] /\ AllBounded(net', astray)
    BY <2>1, ReceivedFacts
  <2>3. losses' \in 0 .. MaxLosses
    BY <2>1, BoundsAssumption DEF TypeOK
  <2>. QED  BY <2>1, <2>2, <2>3 DEF TypeOK, AllBounded, Bounded
<1>8. CASE UNCHANGED vars
  BY <1>8 DEF vars, TypeOK, AllBounded, Bounded
<1>. QED  BY <1>1, <1>2, <1>3, <1>4, <1>5, <1>6, <1>7, <1>8 DEF Next, Handle

\* The inductive invariant of the data plane: types, and the bound on each copy.
THEOREM Invariance == Spec => []IInv
BY InitInvariant, NextInvariant, PTL DEF Spec

\* Every variable has its type: in particular the TTL stays an octet
\* (router.cpp:104).
THEOREM TypeCorrect == Spec => []TypeOK
<1>1. IInv => TypeOK
  BY DEF IInv
<1>. QED  BY <1>1, Invariance, PTL

\* No copy crosses more links than its destinations were away, in any network and
\* for any trial packets, although no router looks at the TTL.
THEOREM NoForwardingLoop == Spec => []HopsBounded
<1>1. IInv => HopsBounded
  BY DEF IInv, HopsBounded, AllBounded, Bounded
<1>. QED  BY <1>1, Invariance, PTL

-----------------------------------------------------------------------------
(* A destination has one next hop, also if a packet names it more than     *)
(* once.                                                                   *)

\* Of two next hops for a destination, the one that could take over from the other.
LEMMA Merge ==
  ASSUME NEW r \in Node, NEW ds \in DestList, NEW f \in Best(r, ds),
         NEW i \in Slot, NEW j \in Slot, ds[i] # NoNode, ds[i] = ds[j], f[i] # f[j],
         Dist[f[i]][ds[i]] <= Dist[f[j]][ds[j]],
         Dist[f[i]][ds[i]] = Dist[f[j]][ds[j]] => \A k \in Slot \ {j} : f[k] # f[j]
  PROVE  FALSE
<1>. DEFINE g == [f EXCEPT ![j] = f[i]]
            term(h) == [k \in Slot |-> IF ds[k] = NoNode THEN 0
                                       ELSE Dist[h[k]][ds[k]] + LinkCost(h, k)]
<1>1. f \in Combinations(r, ds)
  BY DEF Best
<1>2. /\ f \in [Slot -> Node \cup {NoNode}]
      /\ \A k \in Slot : f[k] = NoNode <=> ds[k] = NoNode
      /\ \A k \in Slot : ds[k] # NoNode => f[k] \in Node /\ ds[k] \in Node
  BY <1>1, CombinationFacts
<1>3. g \in Combinations(r, ds)
  <2>1. f \in [Slot -> Neighbors(r) \cup {NoNode}]
    BY <1>1 DEF Combinations
  <2>2. g \in [Slot -> Neighbors(r) \cup {NoNode}]
    BY <2>1
  <2>3. f[i] \in Possible(r, ds[i])
    BY <1>1 DEF Combinations
  <2>4. ASSUME NEW k \in Slot
        PROVE  IF ds[k] = NoNode THEN g[k] = NoNode ELSE g[k] \in Possible(r, ds[k])
    <3>1. CASE k = j
      BY <2>1, <2>3, <3>1
    <3>2. CASE k # j
      BY <2>1, <3>2, <1>1 DEF Combinations
    <3>. QED  BY <3>1, <3>2
  <2>. QED  BY <2>2, <2>4 DEF Combinations
<1>4. g # f /\ g[j] = f[i] /\ \A k \in Slot \ {j} : g[k] = f[k]
  BY <1>2
<1>. HIDE DEF g
<1>5. Cost(ds, g) = Sum(term(g)) /\ Cost(ds, f) = Sum(term(f))
  BY DEF Cost
<1>6. Cost(ds, f) <= Cost(ds, g) \/ ~(Cost(ds, f) \in Int /\ Cost(ds, g) \in Int)
  BY <1>3, <1>4 DEF Best
\* What is paid for the links.
<1>. DEFINE link(h, k) == IF ds[k] = NoNode THEN 0 ELSE LinkCost(h, k)
            dist(h, k) == IF ds[k] = NoNode THEN 0 ELSE Dist[h[k]][ds[k]]
<1>7. \A h : /\ LinkCost(h, 1) = 1
             /\ LinkCost(h, 2) = IF h[1] = h[2] THEN 0 ELSE 1
             /\ LinkCost(h, 3) = IF h[1] = h[3] \/ h[2] = h[3] THEN 0 ELSE 1
  <2>1. 1 .. 1 - 1 = {} /\ 1 .. 2 - 1 = {1} /\ 1 .. 3 - 1 = {1, 2}
    OBVIOUS
  <2>. QED  BY <2>1 DEF LinkCost
<1>8. /\ link(g, 1) + link(g, 2) + link(g, 3) <= link(f, 1) + link(f, 2) + link(f, 3)
      /\ (\A k \in Slot \ {j} : f[k] # f[j]) =>
            link(g, 1) + link(g, 2) + link(g, 3) < link(f, 1) + link(f, 2) + link(f, 3)
  BY <1>2, <1>4, <1>7, NodeAssumption DEF Slot
<1>9. \A k \in Slot : dist(f, k) \in Nat /\ dist(g, k) \in Nat
  <2>1. \A k \in Slot : ds[k] # NoNode => g[k] \in Node
    BY <1>2, <1>4
  <2>. QED  BY <1>2, <2>1, DijkstraAssumption
<1>10. /\ \A k \in Slot \ {j} : dist(g, k) = dist(f, k)
       /\ dist(g, j) = Dist[f[i]][ds[i]] /\ dist(f, j) = Dist[f[j]][ds[j]]
  BY <1>2, <1>4
<1>11. /\ dist(g, 1) + dist(g, 2) + dist(g, 3) <= dist(f, 1) + dist(f, 2) + dist(f, 3)
       /\ Dist[f[i]][ds[i]] # Dist[f[j]][ds[j]] =>
            dist(g, 1) + dist(g, 2) + dist(g, 3) < dist(f, 1) + dist(f, 2) + dist(f, 3)
  <2>. HIDE DEF dist
  <2>1. dist(f, 1) \in Nat /\ dist(f, 2) \in Nat /\ dist(f, 3) \in Nat
        /\ dist(g, 1) \in Nat /\ dist(g, 2) \in Nat /\ dist(g, 3) \in Nat
    BY <1>9 DEF Slot
  <2>2. dist(g, j) <= dist(f, j) /\ (Dist[f[i]][ds[i]] # Dist[f[j]][ds[j]] => dist(g, j) < dist(f, j))
    <3>1. Dist[f[i]][ds[i]] \in Nat /\ Dist[f[j]][ds[j]] \in Nat
      BY <1>9, <1>10
    <3>. QED  BY <1>10, <3>1
  <2>. QED  BY <2>1, <2>2, <1>10 DEF Slot
<1>12. \A k \in Slot : /\ term(f)[k] = dist(f, k) + link(f, k) /\ term(g)[k] = dist(g, k) + link(g, k)
                       /\ link(f, k) \in Nat /\ link(g, k) \in Nat
  <2>1. \A h, k : LinkCost(h, k) \in {0, 1}
    BY LinkCostIs01
  <2>. QED  BY <1>2, <1>4, <1>9, <2>1
<1>13. Sum(term(g)) < Sum(term(f)) /\ Sum(term(f)) \in Int /\ Sum(term(g)) \in Int
  <2>. HIDE DEF term, dist, link
  <2>1. /\ Sum(term(f)) = dist(f, 1) + link(f, 1) + dist(f, 2) + link(f, 2) + dist(f, 3) + link(f, 3)
        /\ Sum(term(g)) = dist(g, 1) + link(g, 1) + dist(g, 2) + link(g, 2) + dist(g, 3) + link(g, 3)
    BY <1>9, <1>12 DEF Sum, Slot
  <2>2. \A k \in {1, 2, 3} : dist(f, k) \in Nat /\ link(f, k) \in Nat /\ dist(g, k) \in Nat /\ link(g, k) \in Nat
    BY <1>9, <1>12 DEF Slot
  <2>. QED  BY <1>8, <1>11, <2>1, <2>2
<1>. HIDE DEF term
<1>. QED  BY <1>5, <1>6, <1>13

LEMMA OneNextHop ==
  ASSUME NEW r \in Node, NEW ds \in DestList, NEW f \in NextHops(r, ds),
         NEW i \in Slot, NEW j \in Slot, ds[i] # NoNode, ds[i] = ds[j]
  PROVE  f[i] = f[j]
<1>1. CASE Unicast(ds)
  BY <1>1 DEF NextHops
<1>2. CASE ~Unicast(ds)
  <2>. SUFFICES ASSUME f[i] # f[j] PROVE FALSE
    OBVIOUS
  <2>1. f \in Best(r, ds) /\ f \in Combinations(r, ds)
    BY <1>2 DEF NextHops, Best
  <2>2. Dist[f[i]][ds[i]] \in Nat /\ Dist[f[j]][ds[j]] \in Nat
    BY <2>1, CombinationFacts, DijkstraAssumption
  <2>3. CASE Dist[f[i]][ds[i]] < Dist[f[j]][ds[j]]
    BY <2>1, <2>2, <2>3, Merge
  <2>4. CASE Dist[f[j]][ds[j]] < Dist[f[i]][ds[i]]
    BY <2>1, <2>2, <2>4, Merge
  <2>5. CASE Dist[f[j]][ds[j]] = Dist[f[i]][ds[i]]
    <3>1. (\A k \in Slot \ {j} : f[k] # f[j]) \/ (\A k \in Slot \ {i} : f[k] # f[i])
      BY DEF Slot
    <3>. QED  BY <2>1, <2>2, <2>5, <3>1, Merge
  <2>. QED  BY <2>2, <2>3, <2>4, <2>5
<1>. QED  BY <1>1, <1>2

-----------------------------------------------------------------------------
(* The copies of a packet that are on their way to a destination.          *)

Carries(m, s, d) == m.src = s /\ d \in Dests(m.dests)

None(sockets, s, d) == \A p \in Port : \A i \in DOMAIN sockets[p] : ~Carries(sockets[p][i], s, d)

AtMostOne(sockets, s, d) ==
  \A p, q \in Port : \A i \in DOMAIN sockets[p], j \in DOMAIN sockets[q] :
    Carries(sockets[p][i], s, d) /\ Carries(sockets[q][j], s, d) => p = q /\ i = j

\* A router sends its packet when it gets its map, which is once.
NotYet == \A s, d \in Node : ~ready[s] => None(net, s, d) /\ rxed[d][s] = 0

Single == NoParallelLinks =>
  \A s, d \in Node : astray[s] = 0 =>
    /\ AtMostOne(net, s, d)
    /\ rxed[d][s] = 0 \/ (rxed[d][s] = 1 /\ None(net, s, d))

\* Where the elements of a sequence are after Tail and Append.
LEMMA TailPlaces ==
  ASSUME NEW S, NEW t \in Seq(S), t # <<>>
  PROVE  /\ DOMAIN t = 1 .. Len(t) /\ Len(t) \in Nat \ {0}
         /\ \A i \in DOMAIN Tail(t) : i \in Nat /\ i >= 1 /\ i + 1 \in DOMAIN t /\ Tail(t)[i] = t[i + 1]
OBVIOUS

LEMMA AppendPlaces ==
  ASSUME NEW S, NEW t \in Seq(S), NEW e \in S
  PROVE  \A i \in DOMAIN Append(t, e) :
           \/ i \in DOMAIN t /\ Append(t, e)[i] = t[i]
           \/ i = Len(t) + 1 /\ i \notin DOMAIN t /\ Append(t, e)[i] = e
OBVIOUS

\* To receive a packet neither moves nor adds another.
LEMMA ReceivedCopies ==
  ASSUME TypeOK, NEW p \in Port, net[p] # <<>>, NEW s, NEW d
  PROVE  /\ None(net, s, d) => None(Received(p), s, d)
         /\ AtMostOne(net, s, d) => AtMostOne(Received(p), s, d)
         /\ AtMostOne(net, s, d) /\ Carries(Head(net[p]), s, d) => None(Received(p), s, d)
         /\ None(net, s, d) => ~Carries(Head(net[p]), s, d)
<1>1. net[p] \in Seq(Packet)
  BY DEF TypeOK
<1>2. Received(p)[p] = Tail(net[p]) /\ \A q \in Port \ {p} : Received(p)[q] = net[q]
  BY DEF Received, TypeOK
<1>3. Head(net[p]) = net[p][1] /\ 1 \in DOMAIN net[p]
  BY <1>1, TailFacts
<1>. DEFINE from(q, i) == IF q = p THEN i + 1 ELSE i
<1>4. \A q \in Port : \A i \in DOMAIN Received(p)[q] :
        /\ from(q, i) \in DOMAIN net[q] /\ Received(p)[q][i] = net[q][from(q, i)]
        /\ q = p => from(q, i) # 1 /\ i \in Nat
  <2>. SUFFICES ASSUME NEW q \in Port, NEW i \in DOMAIN Received(p)[q]
                PROVE  /\ from(q, i) \in DOMAIN net[q] /\ Received(p)[q][i] = net[q][from(q, i)]
                       /\ q = p => from(q, i) # 1 /\ i \in Nat
    OBVIOUS
  <2>1. CASE q = p
    <3>1. i \in DOMAIN Tail(net[p]) /\ Received(p)[q][i] = Tail(net[p])[i]
      BY <1>2, <2>1
    <3>2. i \in Nat /\ i >= 1 /\ i + 1 \in DOMAIN net[p] /\ Tail(net[p])[i] = net[p][i + 1]
      BY <1>1, <3>1, TailPlaces
    <3>3. from(q, i) = i + 1
      BY <2>1
    <3>. QED  BY <2>1, <3>1, <3>2, <3>3
  <2>2. CASE q # p
    BY <1>2, <2>2
  <2>. QED  BY <2>1, <2>2
<1>5. \A q \in Port : \A i, j \in DOMAIN Received(p)[q] : from(q, i) = from(q, j) => i = j
  BY <1>4
<1>. HIDE DEF from
<1>6. None(net, s, d) => None(Received(p), s, d)
  BY <1>4 DEF None
<1>7. AtMostOne(net, s, d) => AtMostOne(Received(p), s, d)
  <2>. SUFFICES ASSUME AtMostOne(net, s, d), NEW q \in Port, NEW u \in Port,
                       NEW i \in DOMAIN Received(p)[q], NEW j \in DOMAIN Received(p)[u],
                       Carries(Received(p)[q][i], s, d), Carries(Received(p)[u][j], s, d)
                PROVE  q = u /\ i = j
    BY DEF AtMostOne
  <2>1. q = u /\ from(q, i) = from(u, j)
    BY <1>4 DEF AtMostOne
  <2>. QED  BY <1>5, <2>1
<1>8. AtMostOne(net, s, d) /\ Carries(Head(net[p]), s, d) => None(Received(p), s, d)
  <2>. SUFFICES ASSUME AtMostOne(net, s, d), Carries(Head(net[p]), s, d), NEW q \in Port,
                       NEW i \in DOMAIN Received(p)[q], Carries(Received(p)[q][i], s, d)
                PROVE  FALSE
    BY DEF None
  <2>1. q = p /\ from(q, i) = 1
    BY <1>3, <1>4 DEF AtMostOne
  <2>. QED  BY <1>4, <2>1
<1>9. None(net, s, d) => ~Carries(Head(net[p]), s, d)
  BY <1>3 DEF None
<1>. QED  BY <1>6, <1>7, <1>8, <1>9

\* What a router sends of packet m shares out the destinations of m.
LEMMA SendToCopies ==
  ASSUME NEW sockets \in [Port -> Seq(Packet)], NEW r \in Node, NEW m \in Packet, NEW f,
         NEW s, NEW d
  PROVE  /\ ~Carries(m, s, d) /\ None(sockets, s, d) => None(SendTo(sockets, r, m, f), s, d)
         /\ ~Carries(m, s, d) /\ AtMostOne(sockets, s, d) => AtMostOne(SendTo(sockets, r, m, f), s, d)
         /\ NoParallelLinks /\ f \in NextHops(r, m.dests) /\ None(sockets, s, d)
              => AtMostOne(SendTo(sockets, r, m, f), s, d)
<1>. DEFINE after == SendTo(sockets, r, m, f)
            to(q) == Owner[Peer[q]] = r /\ Owner[q] \in Range(f) /\ Owner[q] \notin dead
            copy(q) == [src |-> m.src, dests |-> Part(m.dests, f, Owner[q]),
                        ttl |-> NextTTL(m.ttl), hops |-> m.hops + 1]
<1>1. \A q \in Port : copy(q) \in Packet
  <2>1. \A q \in Port : Part(m.dests, f, Owner[q]) \in DestList
    BY DEF Part, DestList, Packet
  <2>2. NextTTL(m.ttl) \in 0 .. 255
    BY NextTTLType DEF Packet
  <2>. QED  BY <2>1, <2>2 DEF Packet
<1>2. \A q \in Port : after[q] = IF to(q) THEN Append(sockets[q], copy(q)) ELSE sockets[q]
  BY DEF SendTo
<1>3. \A q \in Port : Carries(copy(q), s, d) =>
        Carries(m, s, d) /\ \E i \in Slot : f[i] = Owner[q] /\ m.dests[i] = d /\ d # NoNode
  <2>. SUFFICES ASSUME NEW q \in Port, Carries(copy(q), s, d)
                PROVE  Carries(m, s, d) /\ \E i \in Slot : f[i] = Owner[q] /\ m.dests[i] = d /\ d # NoNode
    OBVIOUS
  <2>1. m.src = s /\ d \in Dests(Part(m.dests, f, Owner[q]))
    BY DEF Carries
  <2>2. PICK i \in Slot : Part(m.dests, f, Owner[q])[i] = d /\ d # NoNode
    BY <2>1 DEF Dests, Range, Part
  <2>3. f[i] = Owner[q] /\ m.dests[i] = d
    BY <2>2 DEF Part
  <2>4. m.dests \in [Slot -> Node \cup {NoNode}]
    BY DEF Packet, DestList
  <2>. QED  BY <2>1, <2>2, <2>3, <2>4 DEF Carries, Dests, Range
<1>. HIDE DEF copy, after
<1>4. \A q \in Port : \A i \in DOMAIN after[q] :
        \/ i \in DOMAIN sockets[q] /\ after[q][i] = sockets[q][i]
        \/ to(q) /\ i = Len(sockets[q]) + 1 /\ after[q][i] = copy(q)
  <2>. SUFFICES ASSUME NEW q \in Port, NEW i \in DOMAIN after[q]
                PROVE  \/ i \in DOMAIN sockets[q] /\ after[q][i] = sockets[q][i]
                       \/ to(q) /\ i = Len(sockets[q]) + 1 /\ after[q][i] = copy(q)
    OBVIOUS
  <2>1. CASE to(q)
    <3>1. after[q] = Append(sockets[q], copy(q)) /\ copy(q) \in Packet
      BY <1>1, <1>2, <2>1
    <3>. HIDE DEF to
    <3>. QED  BY <2>1, <3>1, AppendPlaces
  <2>2. CASE ~to(q)
    BY <1>2, <2>2
  <2>. QED  BY <2>1, <2>2
<1>. HIDE DEF to
<1>5. ~Carries(m, s, d) /\ None(sockets, s, d) => None(after, s, d)
  BY <1>3, <1>4 DEF None
<1>6. ~Carries(m, s, d) /\ AtMostOne(sockets, s, d) => AtMostOne(after, s, d)
  <2>. SUFFICES ASSUME ~Carries(m, s, d), AtMostOne(sockets, s, d), NEW q \in Port, NEW u \in Port,
                       NEW i \in DOMAIN after[q], NEW j \in DOMAIN after[u],
                       Carries(after[q][i], s, d), Carries(after[u][j], s, d)
                PROVE  q = u /\ i = j
    BY DEF AtMostOne
  <2>1. /\ i \in DOMAIN sockets[q] /\ after[q][i] = sockets[q][i]
        /\ j \in DOMAIN sockets[u] /\ after[u][j] = sockets[u][j]
    BY <1>3, <1>4
  <2>. QED  BY <2>1 DEF AtMostOne
<1>7. ASSUME NoParallelLinks, f \in NextHops(r, m.dests), None(sockets, s, d)
      PROVE  AtMostOne(after, s, d)
  <2>. SUFFICES ASSUME NEW q \in Port, NEW u \in Port,
                       NEW i \in DOMAIN after[q], NEW j \in DOMAIN after[u],
                       Carries(after[q][i], s, d), Carries(after[u][j], s, d)
                PROVE  q = u /\ i = j
    BY DEF AtMostOne
  <2>1. /\ to(q) /\ i = Len(sockets[q]) + 1 /\ Carries(copy(q), s, d)
        /\ to(u) /\ j = Len(sockets[u]) + 1 /\ Carries(copy(u), s, d)
    BY <1>4, <1>7 DEF None
  <2>2. PICK k \in Slot : f[k] = Owner[q] /\ m.dests[k] = d /\ d # NoNode
    BY <1>3, <2>1
  <2>3. PICK l \in Slot : f[l] = Owner[u] /\ m.dests[l] = d
    BY <1>3, <2>1
  <2>4. m.dests \in DestList
    BY DEF Packet
  <2>5. Owner[q] = Owner[u]
    BY <1>7, <2>2, <2>3, <2>4, OneNextHop
  <2>6. q = u
    BY <1>7, <2>1, <2>5 DEF to, NoParallelLinks
  <2>. QED  BY <2>1, <2>6
<1>. QED  BY <1>5, <1>6, <1>7 DEF after

\* A step by which r sends m, which it has just received or is the first to send.
LEMMA ReceiveAndSend ==
  ASSUME TypeOK, NEW p \in Port, net[p] # <<>>, NEW f, NEW s, NEW d
  PROVE  LET after == SendTo(Received(p), Owner[p], Head(net[p]), f)
         IN  /\ None(net, s, d) => None(after, s, d)
             /\ AtMostOne(net, s, d) =>
                  \/ AtMostOne(after, s, d)
                  \/ NoParallelLinks /\ Head(net[p]).src = s
                       /\ f \notin NextHops(Owner[p], Head(net[p]).dests)
                  \/ ~NoParallelLinks
<1>. DEFINE m == Head(net[p])
            after == SendTo(Received(p), Owner[p], m, f)
<1>1. m \in Packet /\ Received(p) \in [Port -> Seq(Packet)]
  <2>1. net[p] \in Seq(Packet)
    BY DEF TypeOK
  <2>. QED  BY <2>1, TailFacts DEF TypeOK, Received
<1>2. Owner[p] \in Node
  BY LinkAssumption
<1>3. /\ None(net, s, d) => None(Received(p), s, d) /\ ~Carries(m, s, d)
      /\ AtMostOne(net, s, d) => AtMostOne(Received(p), s, d)
      /\ AtMostOne(net, s, d) /\ Carries(m, s, d) => None(Received(p), s, d)
  BY ReceivedCopies
<1>4. Carries(m, s, d) => m.src = s
  BY DEF Carries
<1>. HIDE DEF m
<1>5. /\ ~Carries(m, s, d) /\ None(Received(p), s, d) => None(after, s, d)
      /\ ~Carries(m, s, d) /\ AtMostOne(Received(p), s, d) => AtMostOne(after, s, d)
      /\ NoParallelLinks /\ f \in NextHops(Owner[p], m.dests) /\ None(Received(p), s, d)
           => AtMostOne(after, s, d)
  BY <1>1, <1>2, SendToCopies
<1>. HIDE DEF after
<1>6. /\ None(net, s, d) => None(after, s, d)
      /\ AtMostOne(net, s, d) =>
           \/ AtMostOne(after, s, d)
           \/ NoParallelLinks /\ m.src = s /\ f \notin NextHops(Owner[p], m.dests)
           \/ ~NoParallelLinks
  BY <1>3, <1>4, <1>5
<1>. QED  BY <1>6 DEF after, m

\* A socket that is closed holds nothing.
LEMMA DieOnce ==
  ASSUME NotYet, Single, NEW r \in Node, Die(r)
  PROVE  NotYet' /\ Single'
<1>1. /\ \A q \in Port : net'[q] = net[q] \/ DOMAIN net'[q] = {}
      /\ UNCHANGED <<ready, rxed, astray>>
  BY DEF Die
<1>2. \A s, d : (None(net, s, d) => None(net', s, d)) /\ (AtMostOne(net, s, d) => AtMostOne(net', s, d))
  BY <1>1 DEF None, AtMostOne
<1>. QED  BY <1>1, <1>2 DEF NotYet, Single

LEMMA OnceStep ==
  ASSUME TypeOK, NotYet, Single, [Next]_vars
  PROVE  NotYet' /\ Single'
<1>1. ASSUME NEW r \in Node, BuildMap(r)
      PROVE  NotYet' /\ Single'
  <2>1. ~ready[r] /\ ready' = [ready EXCEPT ![r] = TRUE] /\ UNCHANGED <<rxed, astray>>
    BY <1>1 DEF BuildMap
  <2>2. CASE net' = net
    BY <2>1, <2>2 DEF NotYet, Single, TypeOK
  <2>3. CASE \E f \in NextHops(r, Trial[r]) : net' = SendTo(net, r, TrialPacket(r), f)
    <3>1. PICK f \in NextHops(r, Trial[r]) : net' = SendTo(net, r, TrialPacket(r), f)
      BY <2>3
    <3>2. TrialPacket(r) \in Packet /\ TrialPacket(r).dests = Trial[r] /\ TrialPacket(r).src = r
      BY TrialAssumption DEF TrialPacket, Packet
    <3>3. net \in [Port -> Seq(Packet)]
      BY DEF TypeOK
    <3>4. ASSUME NEW s \in Node, NEW d \in Node, s # r
          PROVE  /\ None(net, s, d) => None(net', s, d)
                 /\ AtMostOne(net, s, d) => AtMostOne(net', s, d)
      <4>1. ~Carries(TrialPacket(r), s, d)
        BY <3>2, <3>4 DEF Carries
      <4>. QED  BY <3>1, <3>2, <3>3, <4>1, SendToCopies
    <3>5. \A d \in Node : NoParallelLinks => AtMostOne(net', r, d)
      BY <2>1, <3>1, <3>2, <3>3, SendToCopies DEF NotYet
    <3>6. \A d \in Node : rxed[d][r] = 0
      BY <2>1 DEF NotYet
    <3>7. \A s \in Node : s # r => ready'[s] = ready[s]
      BY <2>1 DEF TypeOK
    <3>8. NotYet'
      <4>1. ready'[r]
        BY <2>1 DEF TypeOK
      <4>. QED  BY <2>1, <3>4, <3>7, <4>1 DEF NotYet
    <3>9. Single'
      BY <2>1, <3>4, <3>5, <3>6 DEF Single
    <3>. QED  BY <3>8, <3>9
  <2>. QED  BY <1>1, <2>2, <2>3 DEF BuildMap
<1>2. ASSUME NEW r \in Node, BuildMapDies(r)
      PROVE  NotYet' /\ Single'
  BY <1>2, DieOnce DEF BuildMapDies
<1>3. ASSUME NEW p \in Port, Keep(p)
      PROVE  NotYet' /\ Single'
  <2>. DEFINE m == Head(net[p])
              r == Owner[p]
  <2>1. /\ net[p] # <<>> /\ ForMe(r, m) /\ net' = Received(p)
        /\ rxed' = [rxed EXCEPT ![r][m.src] = @ + 1]
        /\ UNCHANGED <<ready, astray>>
    BY <1>3 DEF Keep
  <2>2. m.src \in Node /\ r \in Node
    <3>1. net[p] \in Seq(Packet)
      BY DEF TypeOK
    <3>2. m \in Packet
      BY <2>1, <3>1, TailFacts
    <3>. QED  BY <3>2, LinkAssumption DEF Packet
  <2>3. Carries(m, m.src, r)
    BY <2>1 DEF ForMe, Carries
  <2>4. \A s, d \in Node :
          /\ None(net, s, d) => None(net', s, d)
          /\ AtMostOne(net, s, d) => AtMostOne(net', s, d)
          /\ AtMostOne(net, s, d) /\ Carries(m, s, d) => None(net', s, d)
          /\ None(net, s, d) => ~Carries(m, s, d)
    BY <2>1, ReceivedCopies
  <2>. HIDE DEF m, r
  <2>5. \A s, d \in Node : rxed'[d][s] = IF d = r /\ s = m.src THEN rxed[d][s] + 1 ELSE rxed[d][s]
    BY <2>1, <2>2 DEF TypeOK
  <2>6. NotYet'
    BY <2>1, <2>2, <2>3, <2>4, <2>5 DEF NotYet
  <2>7. Single'
    <3>. SUFFICES ASSUME NoParallelLinks, NEW s \in Node, NEW d \in Node, astray[s] = 0
                  PROVE  /\ AtMostOne(net', s, d)
                         /\ rxed'[d][s] = 0 \/ (rxed'[d][s] = 1 /\ None(net', s, d))
      BY <2>1 DEF Single
    <3>1. /\ AtMostOne(net, s, d)
          /\ rxed[d][s] = 0 \/ (rxed[d][s] = 1 /\ None(net, s, d))
      BY DEF Single
    <3>2. CASE d = r /\ s = m.src
      BY <2>3, <2>4, <2>5, <3>1, <3>2
    <3>3. CASE ~(d = r /\ s = m.src)
      BY <2>4, <2>5, <3>1, <3>3
    <3>. QED  BY <3>2, <3>3
  <2>. QED  BY <2>6, <2>7
<1>4. ASSUME NEW p \in Port, Forward(p)
      PROVE  NotYet' /\ Single'
  <2>1. net[p] # <<>> /\ UNCHANGED <<ready, rxed, astray>>
    BY <1>4 DEF Forward
  <2>2. PICK f \in NextHops(Owner[p], Head(net[p]).dests) :
          net' = SendTo(Received(p), Owner[p], Head(net[p]), f)
    BY <1>4 DEF Forward
  <2>3. \A s, d \in Node : /\ None(net, s, d) => None(net', s, d)
                           /\ NoParallelLinks /\ AtMostOne(net, s, d) => AtMostOne(net', s, d)
    BY <2>1, <2>2, ReceiveAndSend
  <2>. QED  BY <2>1, <2>3 DEF NotYet, Single
<1>5. ASSUME NEW p \in Port, GoAstray(p)
      PROVE  NotYet' /\ Single'
  <2>. DEFINE m == Head(net[p])
  <2>1. /\ net[p] # <<>> /\ astray' = [astray EXCEPT ![m.src] = @ + 1]
        /\ UNCHANGED <<ready, rxed>>
    BY <1>5 DEF GoAstray
  <2>2. PICK f : net' = SendTo(Received(p), Owner[p], m, f)
    BY <1>5 DEF GoAstray
  <2>3. \A s, d \in Node :
          /\ None(net, s, d) => None(net', s, d)
          /\ NoParallelLinks /\ AtMostOne(net, s, d) => AtMostOne(net', s, d) \/ m.src = s
    BY <2>1, <2>2, ReceiveAndSend
  <2>. HIDE DEF m
  <2>4. \A s \in Node : astray'[s] = 0 => astray[s] = 0 /\ s # m.src
    BY <2>1, BoundsAssumption DEF TypeOK
  <2>5. NotYet'
    BY <2>1, <2>3 DEF NotYet
  <2>6. Single'
    BY <2>1, <2>3, <2>4 DEF Single
  <2>. QED  BY <2>5, <2>6
<1>6. ASSUME NEW p \in Port, ForwardDies(p)
      PROVE  NotYet' /\ Single'
  BY <1>6, DieOnce, LinkAssumption DEF ForwardDies
<1>7. ASSUME NEW p \in Port, Lose(p)
      PROVE  NotYet' /\ Single'
  <2>1. net[p] # <<>> /\ net' = Received(p) /\ UNCHANGED <<ready, rxed, astray>>
    BY <1>7 DEF Lose
  <2>2. \A s, d \in Node : /\ None(net, s, d) => None(net', s, d)
                           /\ AtMostOne(net, s, d) => AtMostOne(net', s, d)
    BY <2>1, ReceivedCopies
  <2>. QED  BY <2>1, <2>2 DEF NotYet, Single
<1>8. CASE UNCHANGED vars
  BY <1>8 DEF vars, NotYet, Single, None, AtMostOne
<1>. QED  BY <1>1, <1>2, <1>3, <1>4, <1>5, <1>6, <1>7, <1>8 DEF Next, Handle

\* On any network without parallel links, and for any trial packets: no destination
\* gets a packet twice, and there is never more than one copy on its way to it
\* (router.cpp:86-114), unless its next hops came out of uninitialised memory.
THEOREM DeliveredOnce == Spec => []NoDuplicates
<1>1. Init => NotYet /\ Single
  BY DEF Init, NotYet, Single, None, AtMostOne
<1>2. TypeOK /\ NotYet /\ Single /\ [Next]_vars => NotYet' /\ Single'
  BY OnceStep
<1>3. TypeOK /\ Single => NoDuplicates
  <2>. SUFFICES ASSUME TypeOK, Single, NoParallelLinks, NEW s \in Node, NEW d \in Node, astray[s] = 0
                PROVE  rxed[d][s] + Cardinality(CopiesFor(s, d)) <= 1
    BY DEF NoDuplicates
  <2>1. \A c \in CopiesFor(s, d) : \E p \in Port : \E i \in DOMAIN net[p] :
          c = <<p, i>> /\ Carries(net[p][i], s, d)
    BY DEF CopiesFor, Carries
  <2>2. /\ AtMostOne(net, s, d)
        /\ rxed[d][s] = 0 \/ (rxed[d][s] = 1 /\ None(net, s, d))
    BY DEF Single
  <2>3. CASE CopiesFor(s, d) = {}
    BY <2>2, <2>3, FS_EmptySet
  <2>4. CASE CopiesFor(s, d) # {}
    <3>1. PICK c : c \in CopiesFor(s, d)
      BY <2>4
    <3>2. CopiesFor(s, d) = {c}
      BY <2>1, <2>2, <3>1 DEF AtMostOne
    <3>3. rxed[d][s] = 0
      BY <2>1, <2>2, <3>1 DEF None
    <3>4. Cardinality({c}) = 1
      BY FS_Singleton
    <3>. QED  BY <3>2, <3>3, <3>4
  <2>. QED  BY <2>3, <2>4
<1>. QED  BY <1>1, <1>2, <1>3, TypeCorrect, PTL DEF Spec
=============================================================================
