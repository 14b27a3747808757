------------------------- MODULE LinkStateTreeProofs -------------------------
(***************************************************************************)
(* Proofs about LinkStateTree, for every tree, every TTL and any losses.   *)
(*                                                                         *)
(* Across a link that does not lead to x, the way to x is back over it:    *)
(* hence an LSP only travels outward (OutwardOnly), a router never records *)
(* itself before it builds its map, and the names it records are distinct  *)
(* (ListExact).  When their number is that of the other nodes they are     *)
(* therefore all the other nodes, and the map is complete.                 *)
(***************************************************************************)
EXTENDS LinkStateTree, TLAPS, FiniteSetTheorems

USE NodeAssumption, LinkAssumption, InitialTTLAssumption, MaxLossesAssumption

-----------------------------------------------------------------------------
(* Facts about lists of names and about the tree.                          *)

\* The elements of a sequence that gets one or two more.
LEMMA NamesAppend ==
  ASSUME NEW S, NEW s \in Seq(S), NEW x \in S
  PROVE  /\ s \o <<x>> \in Seq(S)
         /\ Len(s \o <<x>>) = Len(s) + 1
         /\ Range(s \o <<x>>) = Range(s) \cup {x}
<1> DEFINE t == s \o <<x>>
<1>1. t \in Seq(S) /\ Len(t) = Len(s) + 1 /\ Len(s) \in Nat
  OBVIOUS
<1>2. DOMAIN t = 1 .. Len(s) + 1 /\ DOMAIN s = 1 .. Len(s)
  BY <1>1
<1>3. t[Len(s) + 1] = x /\ \A i \in 1 .. Len(s) : t[i] = s[i]
  BY <1>1
<1> HIDE DEF t
<1>4. Range(t) \subseteq Range(s) \cup {x}
  BY <1>1, <1>2, <1>3 DEF Range
<1>5. Range(s) \cup {x} \subseteq Range(t)
  BY <1>1, <1>2, <1>3 DEF Range
<1>6. QED
  BY <1>1, <1>4, <1>5 DEF t

LEMMA NamesAppendTwo ==
  ASSUME NEW S, NEW s \in Seq(S), NEW x \in S, NEW y \in S
  PROVE  /\ s \o <<x, y>> \in Seq(S)
         /\ Len(s \o <<x, y>>) = Len(s) + 2
         /\ Range(s \o <<x, y>>) = Range(s) \cup {x, y}
<1> DEFINE t == s \o <<x, y>>
<1>1. t \in Seq(S) /\ Len(t) = Len(s) + 2 /\ Len(s) \in Nat
  OBVIOUS
<1>2. DOMAIN t = 1 .. Len(s) + 2 /\ DOMAIN s = 1 .. Len(s)
  BY <1>1
<1>3. t[Len(s) + 1] = x /\ t[Len(s) + 2] = y /\ \A i \in 1 .. Len(s) : t[i] = s[i]
  BY <1>1
<1> HIDE DEF t
<1>4. Range(t) \subseteq Range(s) \cup {x, y}
  BY <1>1, <1>2, <1>3 DEF Range
<1>5. Range(s) \cup {x, y} \subseteq Range(t)
  BY <1>1, <1>2, <1>3 DEF Range
<1>6. QED
  BY <1>1, <1>4, <1>5 DEF t

\* The nodes other than r.
LEMMA OthersSize ==
  ASSUME NEW r \in Node
  PROVE  /\ IsFiniteSet(Node \ {r})
         /\ Cardinality(Node) \in Nat
         /\ Cardinality(Node \ {r}) = Cardinality(Node) - 1
BY FS_RemoveElement, FS_CardinalityType

\* An LSP sent over a link that does not lead to its source goes outward.
LEMMA OutwardLink ==
  ASSUME NEW p \in Port, NEW x \in Node, x = Owner[p] \/ Toward[Owner[p]][x] # p
  PROVE  x # Owner[Peer[p]] /\ Toward[Owner[Peer[p]]][x] = Peer[p]
BY TreeAssumption
-----------------------------------------------------------------------------
(* The inductive invariant, TreeInv.                                       *)

LEMMA InitInvariant == Init => TreeInv
<1> SUFFICES ASSUME Init PROVE TreeInv
  OBVIOUS
<1>1. \A r \in Node : Cardinality(Node) - 1 \in Nat
  BY FS_CardinalityType, FS_EmptySet
<1>2. TypeOK
  BY <1>1 DEF Init, TypeOK
<1>3. Range(<<>>) = {} /\ Cardinality({}) = 0 /\ Len(<<>>) = 0
  BY FS_EmptySet DEF Range
<1>4. ListExact
  BY <1>3 DEF Init, ListExact, Names
<1>5. OutwardOnly /\ CompleteMap
  BY DEF Init, OutwardOnly, CompleteMap
<1>6. QED
  BY <1>2, <1>4, <1>5 DEF TreeInv

LEMMA OriginateStep ==
  ASSUME TreeInv, NEW p \in Port, Originate(p)
  PROVE  TreeInv'
<1> DEFINE m == [src |-> Owner[p], ttl |-> InitialTTL]
<1>1. m \in LSP /\ Peer[p] \in Port
  BY DEF LSP
<1>2. TypeOK'
  BY <1>1 DEF TreeInv, TypeOK, Originate, known
<1>3. OutwardOnly'
  <2>1. Owner[p] \in Node /\ Peer[Peer[p]] = p
    OBVIOUS
  <2>2. m.src # Owner[Peer[p]] /\ Toward[Owner[Peer[p]]][m.src] = Peer[p]
    BY <2>1, OutwardLink
  <2>3. ASSUME NEW q \in Port, NEW n \in net'[q]
        PROVE  n \in net[q] \/ (n = m /\ q = Peer[p])
    BY <2>3 DEF Originate, TreeInv, TypeOK
  <2>4. QED
    BY <2>2, <2>3 DEF TreeInv, OutwardOnly
<1>4. ListExact' /\ CompleteMap'
  BY DEF TreeInv, ListExact, CompleteMap, Originate, known, Names
<1>5. QED
  BY <1>2, <1>3, <1>4 DEF TreeInv

LEMMA DropStep ==
  ASSUME TreeInv, NEW p \in Port, NEW m \in net[p], Lose(p, m) \/ Unreachable(p, m)
  PROVE  TreeInv'
<1>1. /\ net' = [net EXCEPT ![p] = @ \ {m}]
      /\ UNCHANGED <<known, opened, dead>> /\ losses' \in 0 .. MaxLosses
  <2>1. CASE Lose(p, m)
    BY <2>1 DEF Lose, TreeInv, TypeOK
  <2>2. CASE Unreachable(p, m)
    BY <2>2 DEF Unreachable, TreeInv, TypeOK
  <2>3. QED
    BY <2>1, <2>2
<1>2. TypeOK'
  BY <1>1 DEF TreeInv, TypeOK, known
<1>3. OutwardOnly'
  BY <1>1 DEF TreeInv, TypeOK, OutwardOnly
<1>4. ListExact' /\ CompleteMap'
  BY <1>1 DEF TreeInv, ListExact, CompleteMap, known, Names
<1>5. QED
  BY <1>2, <1>3, <1>4 DEF TreeInv

LEMMA ProcessStep ==
  ASSUME TreeInv, (\E p \in Port : OpenTx(p)) \/ (\E r \in Node : Dies(r))
  PROVE  TreeInv'
<1>1. TypeOK'
  BY DEF TreeInv, TypeOK, OpenTx, Dies, known
<1>2. OutwardOnly' /\ ListExact' /\ CompleteMap'
  BY DEF TreeInv, OutwardOnly, ListExact, CompleteMap, OpenTx, Dies, known, Names
<1>3. QED
  BY <1>1, <1>2 DEF TreeInv

\* Recording a source other than r itself keeps the list of r exact.
LEMMA ExtractStep ==
  ASSUME TreeInv, NEW r \in Node, NEW src \in Node, src # r, ExtractLsInfo(r, src)
  PROVE  /\ graph_name' \in [Node -> Seq(Node)]
         /\ netnode_nhops' \in [Node -> SUBSET Node]
         /\ num_of_total_nodes' \in [Node -> Nat]
         /\ built' \in [Node -> BOOLEAN]
         /\ ListExact'
         /\ CompleteMap'
<1>1. TypeOK /\ ListExact /\ CompleteMap
  BY DEF TreeInv
<1>2. CASE src \in Names(r)
  BY <1>1, <1>2 DEF ExtractLsInfo, known, TypeOK, ListExact, CompleteMap, Names
<1>3. CASE src \notin Names(r)
  <2> DEFINE g == graph_name[r]
             complete == Len(g) + 1 = num_of_total_nodes[r]
  <2>1. g \in Seq(Node) /\ Len(g) \in Nat
    BY <1>1 DEF TypeOK
  <2>2. ~built[r] /\ r \notin Names(r)
    BY <1>1, <1>3 DEF CompleteMap, ListExact
  <2>3. Names(r) \subseteq Node /\ IsFiniteSet(Names(r))
    <3>1. Names(r) \subseteq Node
      BY <2>1 DEF Names, Range
    <3>2. QED
      BY <3>1, FS_Subset
  <2>4. /\ Cardinality(Names(r)) = Len(g)
        /\ netnode_nhops[r] = Names(r)
        /\ num_of_total_nodes[r] = Cardinality(Node) - 1
    BY <1>1, <2>2 DEF ListExact
  <2>5. Cardinality(Names(r) \cup {src}) = Len(g) + 1 /\ IsFiniteSet(Names(r) \cup {src})
    BY <1>3, <2>3, <2>4, FS_AddElement
  <2>6. \A s \in Node \ {r} :
          /\ graph_name'[s] = graph_name[s]
          /\ netnode_nhops'[s] = netnode_nhops[s]
          /\ num_of_total_nodes'[s] = num_of_total_nodes[s]
          /\ built'[s] = built[s]
          /\ Names(s)' = Names(s)
    BY <1>1, <1>3 DEF ExtractLsInfo, TypeOK, Names
  <2>7. CASE ~complete
    <3>1. /\ graph_name' = [graph_name EXCEPT ![r] = g \o <<src>>]
          /\ netnode_nhops' = [netnode_nhops EXCEPT ![r] = @ \cup {src}]
          /\ num_of_total_nodes' = [num_of_total_nodes EXCEPT ![r] = @]
          /\ built' = [built EXCEPT ![r] = @ \/ FALSE]
      BY <1>3, <2>7 DEF ExtractLsInfo
    <3>2. /\ g \o <<src>> \in Seq(Node)
          /\ Len(g \o <<src>>) = Len(g) + 1
          /\ Range(g \o <<src>>) = Names(r) \cup {src}
      BY <2>1, NamesAppend DEF Names
    <3>3. /\ graph_name' \in [Node -> Seq(Node)]
          /\ netnode_nhops' \in [Node -> SUBSET Node]
          /\ num_of_total_nodes' \in [Node -> Nat]
          /\ built' \in [Node -> BOOLEAN]
      BY <1>1, <3>1, <3>2 DEF TypeOK
    <3>4. /\ graph_name'[r] = g \o <<src>>
          /\ netnode_nhops'[r] = Names(r) \cup {src}
          /\ num_of_total_nodes'[r] = Cardinality(Node) - 1
          /\ ~built'[r]
      BY <1>1, <2>2, <2>4, <3>1 DEF TypeOK
    <3>5. Names(r)' = Names(r) \cup {src}
      BY <3>2, <3>4 DEF Names
    <3>6. ListExact'
      <4>1. ASSUME NEW s \in Node, s # r
            PROVE  /\ Cardinality(Names(s)') = Len(graph_name'[s])
                   /\ netnode_nhops'[s] = Names(s)'
                   /\ num_of_total_nodes'[s] = Cardinality(Node) - IF built'[s] THEN 0 ELSE 1
                   /\ ~built'[s] => s \notin Names(s)'
        BY <1>1, <2>6, <4>1 DEF ListExact
      <4>2. /\ Cardinality(Names(r)') = Len(graph_name'[r])
            /\ netnode_nhops'[r] = Names(r)'
            /\ num_of_total_nodes'[r] = Cardinality(Node) - IF built'[r] THEN 0 ELSE 1
            /\ ~built'[r] => r \notin Names(r)'
        BY <2>2, <2>5, <3>2, <3>4, <3>5
      <4>3. QED
        BY <4>1, <4>2 DEF ListExact
    <3>7. CompleteMap'
      BY <1>1, <2>6, <3>4 DEF CompleteMap
    <3>8. QED
      BY <3>3, <3>6, <3>7
  <2>8. CASE complete
    <3>1. /\ graph_name' = [graph_name EXCEPT ![r] = g \o <<src, r>>]
          /\ netnode_nhops' = [netnode_nhops EXCEPT ![r] = @ \cup {src, r}]
          /\ num_of_total_nodes' = [num_of_total_nodes EXCEPT ![r] = @ + 1]
          /\ built' = [built EXCEPT ![r] = @ \/ TRUE]
      BY <1>3, <2>8 DEF ExtractLsInfo
    <3>2. /\ g \o <<src, r>> \in Seq(Node)
          /\ Len(g \o <<src, r>>) = Len(g) + 2
          /\ Range(g \o <<src, r>>) = Names(r) \cup {src, r}
      BY <2>1, NamesAppendTwo DEF Names
    <3>3. Names(r) \cup {src} = Node \ {r}
      <4>1. Names(r) \cup {src} \in SUBSET (Node \ {r})
        BY <2>2, <2>3
      <4>2. Cardinality(Names(r) \cup {src}) = Cardinality(Node \ {r})
        BY <2>4, <2>5, <2>8, OthersSize
      <4>3. QED
        BY <4>1, <4>2, OthersSize, FS_Subset
    <3>4. Names(r) \cup {src, r} = Node
      BY <3>3
    <3>5. /\ graph_name' \in [Node -> Seq(Node)]
          /\ netnode_nhops' \in [Node -> SUBSET Node]
          /\ num_of_total_nodes' \in [Node -> Nat]
          /\ built' \in [Node -> BOOLEAN]
      BY <1>1, <3>1, <3>2 DEF TypeOK
    <3>6. /\ graph_name'[r] = g \o <<src, r>>
          /\ netnode_nhops'[r] = Node
          /\ num_of_total_nodes'[r] = Cardinality(Node)
          /\ built'[r]
      <4>1. Cardinality(Node) \in Nat
        BY OthersSize
      <4>2. num_of_total_nodes'[r] = (Cardinality(Node) - 1) + 1
        BY <1>1, <2>4, <3>1 DEF TypeOK
      <4>3. num_of_total_nodes'[r] = Cardinality(Node)
        BY <4>1, <4>2
      <4>4. graph_name'[r] = g \o <<src, r>> /\ built'[r]
        BY <1>1, <3>1 DEF TypeOK
      <4>5. netnode_nhops'[r] = Node
        <5>1. netnode_nhops'[r] = netnode_nhops[r] \cup {src, r}
          BY <1>1, <3>1 DEF TypeOK
        <5>2. QED
          BY <2>4, <3>4, <5>1
      <4>6. QED
        BY <4>3, <4>4, <4>5
    <3>7. Names(r)' = Node /\ Len(graph_name'[r]) = Cardinality(Node)
      <4>1. Names(r)' = Node
        BY <3>2, <3>4, <3>6 DEF Names
      <4>2. Len(g) + 2 = Cardinality(Node)
        <5>1. Cardinality(Node) \in Nat
          BY OthersSize
        <5>2. Len(g) + 1 = Cardinality(Node) - 1
          BY <2>4, <2>8
        <5>3. QED
          BY <2>1, <5>1, <5>2
      <4>3. QED
        BY <3>2, <3>6, <4>1, <4>2
    <3>8. Cardinality(Node) \in Nat
      BY OthersSize
    <3>9. ListExact'
      BY <1>1, <2>6, <3>6, <3>7, <3>8 DEF ListExact
    <3>10. CompleteMap'
      BY <1>1, <2>6, <3>6, <3>7 DEF CompleteMap
    <3>11. QED
      BY <3>5, <3>9, <3>10
  <2>9. QED
    BY <2>7, <2>8
<1>4. QED
  BY <1>2, <1>3

LEMMA ReceiveStep ==
  ASSUME TreeInv, NEW p \in Port, NEW m \in net[p], Receive(p, m)
  PROVE  TreeInv'
<1>1. m \in LSP /\ m.src \in Node /\ Owner[p] \in Node
  BY DEF TreeInv, TypeOK, LSP
<1>2. m.src # Owner[p] /\ Toward[Owner[p]][m.src] = p
  BY DEF TreeInv, OutwardOnly
<1>3. Forwarded(m) \subseteq LSP /\ \A n \in Forwarded(m) : n.src = m.src
  BY <1>1 DEF Forwarded, LSP
<1>4. \A q \in Port : net'[q] \subseteq net[q] \cup IF q \in OnwardPorts[p] THEN Forwarded(m) ELSE {}
  BY DEF Receive
<1>5. net' \in [Port -> SUBSET LSP]
  BY <1>3 DEF Receive, TreeInv, TypeOK
<1>6. OutwardOnly'
  <2> SUFFICES ASSUME NEW q \in Port, NEW n \in net'[q]
               PROVE  n.src # Owner[q] /\ Toward[Owner[q]][n.src] = q
    BY DEF OutwardOnly
  <2>1. CASE n \in net[q]
    BY <2>1 DEF TreeInv, OutwardOnly
  <2>2. CASE n \notin net[q]
    <3>1. q \in OnwardPorts[p] /\ n.src = m.src
      BY <1>3, <1>4, <2>2
    <3>2. PICK o \in Port : Owner[o] = Owner[p] /\ o # p /\ q = Peer[o]
      BY <3>1 DEF OnwardPorts, PortsOf
    <3>3. Toward[Owner[o]][m.src] # o
      BY <1>2, <3>2
    <3>4. QED
      BY <1>1, <3>1, <3>2, <3>3, OutwardLink
  <2>3. QED
    BY <2>1, <2>2
<1>7. /\ ExtractLsInfo(Owner[p], m.src)
      /\ losses' = losses /\ opened' = opened /\ dead' \subseteq Node
  BY <1>1 DEF Receive, TreeInv, TypeOK
<1>8. /\ graph_name' \in [Node -> Seq(Node)]
      /\ netnode_nhops' \in [Node -> SUBSET Node]
      /\ num_of_total_nodes' \in [Node -> Nat]
      /\ built' \in [Node -> BOOLEAN]
      /\ ListExact'
      /\ CompleteMap'
  BY <1>1, <1>2, <1>7, ExtractStep
<1>9. QED
  BY <1>5, <1>6, <1>7, <1>8 DEF TreeInv, TypeOK

LEMMA InvariantStep == TreeInv /\ [Next]_vars => TreeInv'
<1> SUFFICES ASSUME TreeInv, [Next]_vars PROVE TreeInv'
  OBVIOUS
<1>1. CASE UNCHANGED vars
  BY <1>1 DEF vars, known, TreeInv, TypeOK, OutwardOnly, ListExact, CompleteMap, Names
<1>2. QED
  BY <1>1, ProcessStep, OriginateStep, ReceiveStep, DropStep DEF Next

-----------------------------------------------------------------------------
(* What a step does, seen from Dissemination.                              *)

\* ExtractLsInfo(r, src) leaves the other routers alone and r, if it knows src,
\* too; else r knows src besides, and has a map if these are all the routers.
LEMMA ExtractLearns ==
  ASSUME TreeInv, NEW r \in Node, NEW src \in Node, src # r, ExtractLsInfo(r, src)
  PROVE  /\ src \in Names(r) => UNCHANGED known
         /\ src \notin Names(r) =>
              /\ graph_name' = [graph_name EXCEPT ![r] = graph_name'[r]]
              /\ Names(r)' \cup {r} = Names(r) \cup {src, r}
              /\ src \in Names(r)'
              /\ built' = [built EXCEPT ![r] = Names(r) \cup {r} \cup {src} = Node]
<1>1. TypeOK /\ ListExact /\ CompleteMap
  BY DEF TreeInv
<1>2. src \in Names(r) => UNCHANGED known
  BY DEF ExtractLsInfo
<1>3. ASSUME src \notin Names(r)
      PROVE  /\ graph_name' = [graph_name EXCEPT ![r] = graph_name'[r]]
             /\ Names(r)' \cup {r} = Names(r) \cup {src, r}
             /\ src \in Names(r)'
             /\ built' = [built EXCEPT ![r] = Names(r) \cup {r} \cup {src} = Node]
  <2> DEFINE g == graph_name[r]
             complete == Len(g) + 1 = num_of_total_nodes[r]
  <2>1. g \in Seq(Node) /\ Len(g) \in Nat
    BY <1>1 DEF TypeOK
  <2>2. ~built[r] /\ r \notin Names(r)
    BY <1>1, <1>3 DEF CompleteMap, ListExact
  <2>3. Names(r) \subseteq Node /\ IsFiniteSet(Names(r))
    <3>1. Names(r) \subseteq Node
      BY <2>1 DEF Names, Range
    <3>2. QED
      BY <3>1, FS_Subset
  <2>4. /\ Cardinality(Names(r)) = Len(g)
        /\ num_of_total_nodes[r] = Cardinality(Node) - 1
    BY <1>1, <2>2 DEF ListExact
  <2>5. Cardinality(Names(r) \cup {src}) = Len(g) + 1 /\ IsFiniteSet(Names(r) \cup {src})
    BY <1>3, <2>3, <2>4, FS_AddElement
  <2>6. complete <=> Cardinality(Names(r) \cup {src}) = Cardinality(Node \ {r})
    BY <2>1, <2>4, <2>5, OthersSize
  <2>7. complete <=> Names(r) \cup {src} = Node \ {r}
    <3>1. Names(r) \cup {src} \in SUBSET (Node \ {r})
      BY <2>2, <2>3
    <3>2. QED
      BY <2>6, <3>1, OthersSize, FS_Subset
  <2>8. complete <=> Names(r) \cup {r} \cup {src} = Node
    BY <2>2, <2>3, <2>7
  <2>9. /\ graph_name' = [graph_name EXCEPT ![r] = g \o IF complete THEN <<src, r>> ELSE <<src>>]
        /\ built' = [built EXCEPT ![r] = built[r] \/ complete]
    BY <1>3 DEF ExtractLsInfo
  <2>10. Range(g \o <<src, r>>) = Names(r) \cup {src, r} /\ Range(g \o <<src>>) = Names(r) \cup {src}
    BY <2>1, NamesAppend, NamesAppendTwo DEF Names
  <2>11. graph_name'[r] = g \o IF complete THEN <<src, r>> ELSE <<src>>
    BY <1>1, <2>9 DEF TypeOK
  <2>12. Names(r)' \cup {r} = Names(r) \cup {src, r} /\ src \in Names(r)'
    <3>1. CASE complete
      BY <2>10, <2>11, <3>1 DEF Names
    <3>2. CASE ~complete
      BY <2>10, <2>11, <3>2 DEF Names
    <3>3. QED
      BY <3>1, <3>2
  <2>13. built' = [built EXCEPT ![r] = Names(r) \cup {r} \cup {src} = Node]
    <3>1. (built[r] \/ complete) = (Names(r) \cup {r} \cup {src} = Node)
      BY <2>2, <2>8
    <3>2. QED
      BY <2>9, <3>1
  <2>14. QED
    BY <2>9, <2>11, <2>12, <2>13
<1>4. QED
  BY <1>2, <1>3

\* What a router has recorded it never forgets.
LEMMA NamesGrow ==
  ASSUME TreeInv, [Next]_vars, NEW r \in Node
  PROVE  Names(r) \subseteq Names(r)'
<1>1. ASSUME NEW p \in Port, NEW m \in net[p], Receive(p, m)
      PROVE  Names(r) \subseteq Names(r)'
  <2>1. m.src \in Node /\ m.src # Owner[p] /\ Owner[p] \in Node
    BY DEF TreeInv, TypeOK, LSP, OutwardOnly
  <2>2. ExtractLsInfo(Owner[p], m.src)
    BY <1>1 DEF Receive
  <2>3. CASE m.src \in Names(Owner[p])
    BY <2>1, <2>2, <2>3, ExtractLearns DEF known, Names
  <2>4. CASE m.src \notin Names(Owner[p]) /\ r # Owner[p]
    <3>1. graph_name'[r] = graph_name[r]
      BY <2>1, <2>2, <2>4, ExtractLearns DEF TreeInv, TypeOK
    <3>2. QED
      BY <3>1 DEF Names
  <2>5. CASE m.src \notin Names(Owner[p]) /\ r = Owner[p]
    <3>1. r \notin Names(r)
      BY <2>5, <2>1 DEF TreeInv, ListExact, CompleteMap
    <3>2. QED
      BY <2>1, <2>2, <2>5, <3>1, ExtractLearns
  <2>6. QED
    BY <2>3, <2>4, <2>5
<1>2. QED
  BY <1>1 DEF Next, OpenTx, Originate, Unreachable, Lose, Dies, known, vars, Names

LEMMA SentByKnowerStep ==
  TreeInv /\ SentByKnower /\ [Next]_vars => SentByKnower'
<1> SUFFICES ASSUME TreeInv, SentByKnower, [Next]_vars,
                    NEW q \in Port, NEW n \in net'[q]
             PROVE  n.src \in Names(Owner[Peer[q]])' \cup {Owner[Peer[q]]}
  BY DEF SentByKnower
<1>1. CASE n \in net[q]
  <2>1. n.src \in Names(Owner[Peer[q]]) \cup {Owner[Peer[q]]}
    BY <1>1 DEF SentByKnower
  <2>2. QED
    BY <2>1, NamesGrow
<1>2. CASE n \notin net[q]
  <2>1. ASSUME NEW p \in Port, Originate(p)
        PROVE  n.src = Owner[Peer[q]]
    BY <1>2, <2>1 DEF Originate, TreeInv, TypeOK
  <2>2. ASSUME NEW p \in Port, NEW m \in net[p], Receive(p, m)
        PROVE  n.src \in Names(Owner[Peer[q]])'
    <3>1. q \in OnwardPorts[p] /\ n \in Forwarded(m)
      BY <1>2, <2>2 DEF Receive
    <3>2. m \in LSP /\ m.src # Owner[p]
      BY DEF TreeInv, TypeOK, OutwardOnly
    <3>3. n.src = m.src /\ Owner[Peer[q]] = Owner[p]
      BY <3>1, <3>2 DEF Forwarded, OnwardPorts, PortsOf, LSP
    <3>4. m.src \in Names(Owner[p])'
      <4>1. ExtractLsInfo(Owner[p], m.src)
        BY <2>2 DEF Receive
      <4>2. m.src \in Node /\ Owner[p] \in Node
        BY <3>2 DEF LSP
      <4>3. CASE m.src \in Names(Owner[p])
        BY <3>2, <4>1, <4>2, <4>3, NamesGrow
      <4>4. CASE m.src \notin Names(Owner[p])
        BY <3>2, <4>1, <4>2, <4>4, ExtractLearns
      <4>5. QED
        BY <4>3, <4>4
    <3>5. QED
      BY <3>3, <3>4
  <2>3. ASSUME NEW p \in Port, NEW m \in net[p], Lose(p, m) \/ Unreachable(p, m)
        PROVE  FALSE
    BY <1>2, <2>3 DEF Lose, Unreachable, TreeInv, TypeOK
  <2>4. net' # net
    BY <1>2
  <2>5. QED
    BY <2>1, <2>2, <2>3, <2>4 DEF Next, vars, OpenTx, Dies
<1>3. QED
  BY <1>1, <1>2

\* A step of LinkState is one of Dissemination, or leaves what it sees alone.
LEMMA StepRefined ==
  TreeInv /\ SentByKnower /\ [Next]_vars => [Spread!Next]_Spread!vars
<1> SUFFICES ASSUME TreeInv, SentByKnower, [Next]_vars
             PROVE  [Spread!Next]_Spread!vars
  OBVIOUS
<1> DEFINE has == [r \in Node |-> Names(r) \cup {r}]
<1>1. UNCHANGED known => UNCHANGED Spread!vars
  BY DEF known, Spread!vars, Names
<1>2. ASSUME NEW p \in Port, NEW m \in net[p], Receive(p, m), ~ UNCHANGED known
      PROVE  Spread!Next
  <2> DEFINE r == Owner[p]
             x == m.src
  <2>1. x \in Node /\ r \in Node /\ x # r /\ ExtractLsInfo(r, x)
    BY <1>2 DEF TreeInv, TypeOK, OutwardOnly, LSP, Receive
  <2>2. /\ x \notin Names(r)
        /\ graph_name' = [graph_name EXCEPT ![r] = graph_name'[r]]
        /\ Names(r)' \cup {r} = Names(r) \cup {x, r}
        /\ built' = [built EXCEPT ![r] = Names(r) \cup {r} \cup {x} = Node]
    BY <1>2, <2>1, ExtractLearns
  <2>3. x \notin has[r]
    BY <2>1, <2>2
  <2>4. \E n \in [s \in Node |-> Neighbors(s)][r] : x \in has[n]
    <3>1. Owner[Peer[p]] \in Neighbors(r) /\ Owner[Peer[p]] \in Node
      BY DEF Neighbors, PortsOf
    <3>2. x \in has[Owner[Peer[p]]]
      BY <3>1 DEF SentByKnower
    <3>3. QED
      BY <2>1, <3>1, <3>2
  <2>5. has' = [has EXCEPT ![r] = has[r] \cup {x}]
    <3>1. \A s \in Node \ {r} : Names(s)' = Names(s)
      BY <2>2 DEF Names, TreeInv, TypeOK
    <3>2. ASSUME NEW s \in Node
          PROVE  has'[s] = IF s = r THEN has[r] \cup {x} ELSE has[s]
      <4>1. CASE s = r
        BY <2>1, <2>2, <4>1
      <4>2. CASE s # r
        BY <3>1, <4>2
      <4>3. QED
        BY <4>1, <4>2
    <3>3. has' = [s \in Node |-> has'[s]] /\ has = [s \in Node |-> has[s]]
      OBVIOUS
    <3> HIDE DEF has, x
    <3>4. QED
      BY <3>2, <3>3
  <2>6. built' = [built EXCEPT ![r] = has[r] \cup {x} = Node]
    BY <2>1, <2>2
  <2>7. Spread!Learn(r, x)
    BY <2>3, <2>4, <2>5, <2>6 DEF Spread!Learn
  <2>8. QED
    BY <2>1, <2>7 DEF Spread!Next
<1>3. QED
  BY <1>1, <1>2 DEF Next, OpenTx, Originate, Unreachable, Lose, Dies, vars

-----------------------------------------------------------------------------
(* The theorems.                                                           *)

THEOREM Invariance == Spec => []TreeInv
<1>1. QED
  BY InitInvariant, InvariantStep, PTL DEF Spec

\* For every tree, every TTL and any losses: the state only takes the values
\* that TypeOK names.
THEOREM TypeCorrect == Spec => []TypeOK
<1>1. TreeInv => TypeOK
  BY DEF TreeInv
<1>2. QED
  BY <1>1, Invariance, PTL

\* For every tree: a map is built only when every other node has been recorded,
\* and has each node once (router.cpp:445-469, 181-236).
THEOREM MapComplete == Spec => []CompleteMap
<1>1. TreeInv => CompleteMap
  BY DEF TreeInv
<1>2. QED
  BY <1>1, Invariance, PTL

\* For every tree: no LSP comes back to the router that sent it, and those of one
\* source come by one port (router.cpp:608-625).
THEOREM Outward == Spec => []OutwardOnly
<1>1. TreeInv => OutwardOnly
  BY DEF TreeInv
<1>2. QED
  BY <1>1, Invariance, PTL

\* For every tree: what is recorded after the map is built changes nothing
\* (router.cpp:437-444), so the forwarding tables stay those of the whole network.
THEOREM Frozen == Spec => MapFrozen
<1> DEFINE Keep == \A r \in Node : built[r] => built'[r] /\ graph_name'[r] = graph_name[r]
<1>1. TreeInv /\ [Next]_vars => [Keep]_vars
  <2> SUFFICES ASSUME TreeInv, [Next]_vars, NEW r \in Node, built[r]
               PROVE  built'[r] /\ graph_name'[r] = graph_name[r]
    OBVIOUS
  <2>1. ASSUME NEW p \in Port, NEW m \in net[p], Receive(p, m)
        PROVE  built'[r] /\ graph_name'[r] = graph_name[r]
    <3>1. m.src \in Node
      BY <2>1 DEF TreeInv, TypeOK, LSP
    <3>2. CASE Owner[p] = r
      <4>1. m.src \in Names(r)
        BY <3>1 DEF TreeInv, CompleteMap
      <4>2. QED
        BY <2>1, <3>2, <4>1 DEF Receive, ExtractLsInfo, known
    <3>3. CASE Owner[p] # r
      BY <2>1, <3>3 DEF Receive, ExtractLsInfo, known, TreeInv, TypeOK
    <3>4. QED
      BY <3>2, <3>3
  <2>2. QED
    BY <2>1 DEF Next, OpenTx, Originate, Unreachable, Lose, Dies, known, vars
<1>2. QED
  BY <1>1, Invariance, PTL DEF Spec, MapFrozen

\* For every tree, every TTL and any losses: flooding does what Dissemination says;
\* in particular a router builds its map in the step that completes what it knows
\* (router.cpp:404-422, 434-470).
THEOREM Refinement == Spec => Disseminates
<1>1. Init => Spread!Init
  <2>1. Range(<<>>) = {}
    BY DEF Range
  <2>2. QED
    BY <2>1 DEF Init, Spread!Init, Names
<1>2. Init => SentByKnower
  BY DEF Init, SentByKnower
<1>3. QED
  BY <1>1, <1>2, Invariance, SentByKnowerStep, StepRefined, PTL
     DEF Spec, Disseminates, Spread!Spec
=============================================================================
