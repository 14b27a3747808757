--------------------------- MODULE LinkStateProofs ---------------------------
(***************************************************************************)
(* Proofs about LinkState, for every network, with cycles or without,      *)
(* every TTL, any losses and deaths: the types, and how far an LSP gets.   *)
(*                                                                         *)
(* The links that an LSP has crossed are a chain from its source to the    *)
(* router that it is on its way to, one link longer than its TTL has gone  *)
(* down.  A router that passes it on makes the chain longer by a link, and *)
(* the TTL less by one.                                                    *)
(***************************************************************************)
EXTENDS LinkState, TLAPS, FiniteSetTheorems

USE NodeAssumption, LinkAssumption, OriginatorAssumption, InitialTTLAssumption,
    MaxLossesAssumption

-----------------------------------------------------------------------------
(* Chains of links.                                                        *)

LEMMA AwayDef ==
  ASSUME NEW k \in 0 .. InitialTTL + 1
  PROVE  Away[k] = {<<c[0], c[k]>> : c \in Chains(k)}
BY DEF Away

LEMMA AwayFromSelf == \A x \in Node : <<x, x>> \in Away[0]
<1> SUFFICES ASSUME NEW x \in Node PROVE <<x, x>> \in Away[0]
  OBVIOUS
<1> DEFINE c == [i \in 0 .. 0 |-> x]
<1>1. c \in Chains(0) /\ c[0] = x
  BY DEF Chains
<1>2. QED
  BY <1>1, AwayDef

\* A chain that goes on over one link more.
LEMMA AwayOneMore ==
  ASSUME NEW k \in 0 .. InitialTTL, NEW x \in Node, NEW p \in Port,
         <<x, Owner[p]>> \in Away[k]
  PROVE  <<x, Owner[Peer[p]]>> \in Away[k + 1]
<1>1. PICK c \in Chains(k) : c[0] = x /\ c[k] = Owner[p]
  BY AwayDef
<1> DEFINE y == Owner[Peer[p]]
           d == [i \in 0 .. k + 1 |-> IF i <= k THEN c[i] ELSE y]
<1>2. y \in Node /\ c \in [0 .. k -> Node] /\ \A i \in 1 .. k : Linked(c[i - 1], c[i])
  BY DEF Chains
<1>3. d \in [0 .. k + 1 -> Node] /\ d[0] = x /\ d[k + 1] = y /\ d[k] = Owner[p]
  BY <1>1, <1>2
<1>4. ASSUME NEW i \in 1 .. k + 1 PROVE Linked(d[i - 1], d[i])
  <2>1. CASE i <= k
    <3>1. d[i - 1] = c[i - 1] /\ d[i] = c[i]
      BY <2>1
    <3>2. QED
      BY <2>1, <3>1, <1>2
  <2>2. CASE i = k + 1
    BY <2>2, <1>3 DEF Linked
  <2>3. QED
    BY <2>1, <2>2
<1>5. d \in Chains(k + 1)
  BY <1>3, <1>4 DEF Chains
<1> HIDE DEF d
<1>6. QED
  BY <1>3, <1>5, AwayDef
-----------------------------------------------------------------------------
(* The inductive invariant.                                                *)

ReachInv == TypeOK /\ TTLBoundsReach

LEMMA RecordType ==
  ASSUME TypeOK, NEW r \in Node, NEW x \in Node, ExtractLsInfo(r, x)
  PROVE  /\ graph_name' \in [Node -> Seq(Node)]
         /\ netnode_nhops' \in [Node -> SUBSET Node]
         /\ num_of_total_nodes' \in [Node -> Nat]
         /\ built' \in [Node -> BOOLEAN]
<1>1. CASE UNCHANGED known
  BY <1>1 DEF TypeOK, known
<1>2. CASE ~UNCHANGED known
  <2> DEFINE complete == Len(graph_name[r]) + 1 = num_of_total_nodes[r]
             s == IF complete THEN <<x, r>> ELSE <<x>>
  <2>1. /\ graph_name' = [graph_name EXCEPT ![r] = @ \o s]
        /\ netnode_nhops' = [netnode_nhops EXCEPT ![r] = @ \cup IF complete THEN {x, r} ELSE {x}]
        /\ num_of_total_nodes' = [num_of_total_nodes EXCEPT ![r] = IF complete THEN @ + 1 ELSE @]
        /\ built' = [built EXCEPT ![r] = @ \/ complete]
    BY <1>2 DEF ExtractLsInfo
  <2>2. s \in Seq(Node)
    OBVIOUS
  <2> HIDE DEF s, complete
  <2>3. graph_name[r] \o s \in Seq(Node)
    BY <2>2 DEF TypeOK
  <2>4. graph_name' \in [Node -> Seq(Node)]
    BY <2>1, <2>3 DEF TypeOK
  <2>5. complete \in BOOLEAN
    BY DEF complete
  <2>6. QED
    BY <2>1, <2>4, <2>5 DEF TypeOK
<1>3. QED
  BY <1>1, <1>2

\* Recording adds the source, and maybe the router, to the names it knows.
LEMMA RecordNames ==
  ASSUME TypeOK, NEW r \in Node, NEW x \in Node, ExtractLsInfo(r, x),
         NEW q \in Node, NEW y \in Names(q)'
  PROVE  y \in Names(q) \/ (q = r /\ y \in {x, r})
<1>1. CASE graph_name' = graph_name
  BY <1>1 DEF Names
<1>2. CASE graph_name' # graph_name
  <2>1. PICK s \in {<<x, r>>, <<x>>} : graph_name' = [graph_name EXCEPT ![r] = @ \o s]
    BY <1>2 DEF ExtractLsInfo, known
  <2>2. CASE q # r
    BY <2>1, <2>2 DEF Names, TypeOK
  <2>3. CASE q = r
    <3>1. graph_name[r] \in Seq(Node) /\ graph_name'[r] = graph_name[r] \o s
      BY <2>1 DEF TypeOK
    <3>2. PICK i \in DOMAIN (graph_name[r] \o s) : y = (graph_name[r] \o s)[i]
      BY <2>3, <3>1 DEF Names, Range
    <3>3. CASE i \in DOMAIN graph_name[r]
      <4>1. y = graph_name[r][i]
        BY <3>1, <3>2, <3>3
      <4>2. QED
        BY <4>1, <2>3, <3>3 DEF Names, Range
    <3>4. CASE i \notin DOMAIN graph_name[r]
      <4>1. s \in Seq(Node)
        <5>1. <<x, r>> \in Seq(Node) /\ <<x>> \in Seq(Node)
          OBVIOUS
        <5>2. QED
          BY <5>1, Zenon
      <4>2. i - Len(graph_name[r]) \in DOMAIN s /\ y = s[i - Len(graph_name[r])]
        BY <3>1, <3>2, <3>4, <4>1
      <4>3. y \in {x, r}
        BY <2>1, <4>2
      <4>4. QED
        BY <4>3, <2>3
    <3>5. QED
      BY <3>3, <3>4
  <2>4. QED
    BY <2>2, <2>3
<1>3. QED
  BY <1>1, <1>2

LEMMA InitInvariant == Init => ReachInv
<1> SUFFICES ASSUME Init PROVE ReachInv
  OBVIOUS
<1>1. \A r \in Node : Cardinality(Node) - 1 \in Nat
  BY FS_CardinalityType, FS_EmptySet
<1>2. TypeOK
  BY <1>1 DEF Init, TypeOK
<1>3. TTLBoundsReach
  BY DEF Init, TTLBoundsReach, Names, Range
<1>4. QED
  BY <1>2, <1>3 DEF ReachInv

LEMMA OriginateStep ==
  ASSUME ReachInv, NEW p \in Port, Originate(p)
  PROVE  ReachInv'
<1> DEFINE m == [src |-> Owner[p], ttl |-> InitialTTL]
<1>1. m \in LSP /\ Peer[p] \in Port
  BY DEF LSP
<1>2. TypeOK'
  BY <1>1 DEF ReachInv, TypeOK, Originate, known
<1>3. <<Owner[p], Owner[Peer[p]]>> \in Away[0 + 1]
  <2>1. Owner[p] \in Node /\ 0 \in 0 .. InitialTTL /\ <<Owner[p], Owner[p]>> \in Away[0]
    BY AwayFromSelf
  <2>2. QED
    BY <2>1, AwayOneMore
<1>4. ASSUME NEW q \in Port, NEW n \in net'[q]
      PROVE  n \in net[q] \/ (n = m /\ q = Peer[p])
  BY <1>4 DEF Originate, ReachInv, TypeOK
<1>5. InitialTTL - m.ttl + 1 = 0 + 1 /\ m.src = Owner[p]
  OBVIOUS
<1> HIDE DEF m
<1>6. TTLBoundsReach'
  BY <1>3, <1>4, <1>5 DEF ReachInv, TTLBoundsReach, Originate, known, Names
<1>7. QED
  BY <1>2, <1>6 DEF ReachInv

LEMMA ReceiveStep ==
  ASSUME ReachInv, NEW p \in Port, NEW m \in net[p], Receive(p, m)
  PROVE  ReachInv'
<1>1. /\ m \in LSP /\ m.src \in Node /\ m.ttl \in 0 .. InitialTTL
      /\ Owner[p] \in Node /\ ExtractLsInfo(Owner[p], m.src)
  BY DEF ReachInv, TypeOK, Receive, LSP
<1>2. <<m.src, Owner[p]>> \in Away[InitialTTL - m.ttl + 1]
  BY DEF ReachInv, TTLBoundsReach
<1>3. Forwarded(m) \subseteq LSP
  BY <1>1 DEF Forwarded, LSP
<1>4. TypeOK'
  <2>1. net' \in [Port -> SUBSET LSP]
    BY <1>3 DEF Receive, ReachInv, TypeOK
  <2>2. dead' \subseteq Node /\ opened' \subseteq Port /\ losses' \in 0 .. MaxLosses
    BY <1>1 DEF Receive, ReachInv, TypeOK
  <2>3. QED
    BY <1>1, <2>1, <2>2, RecordType DEF ReachInv, TypeOK
<1>5. ASSUME NEW q \in Port, NEW n \in net'[q], n \notin net[q]
      PROVE  <<n.src, Owner[q]>> \in Away[InitialTTL - n.ttl + 1]
  <2>1. q \in OnwardPorts[p] /\ n \in Forwarded(m)
    BY <1>5 DEF Receive
  <2>2. PICK o \in Port : Owner[o] = Owner[p] /\ q = Peer[o]
    BY <2>1 DEF OnwardPorts, PortsOf
  <2>3. n.src = m.src /\ m.ttl # 0 /\ n.ttl = m.ttl - 1
    BY <2>1, <1>1 DEF Forwarded, LSP
  <2>4. <<m.src, Owner[Peer[o]]>> \in Away[(InitialTTL - m.ttl + 1) + 1]
    BY <1>1, <1>2, <2>2, <2>3, AwayOneMore
  <2>5. InitialTTL - n.ttl + 1 = (InitialTTL - m.ttl + 1) + 1
    BY <2>3, <1>1
  <2>6. QED
    BY <2>2, <2>3, <2>4, <2>5
<1>6. ASSUME NEW r \in Node, NEW x \in Names(r)'
      PROVE  \E k \in 0 .. InitialTTL + 1 : <<x, r>> \in Away[k]
  <2>1. CASE x \in Names(r)
    BY <2>1 DEF ReachInv, TTLBoundsReach
  <2>2. CASE r = Owner[p] /\ x = m.src
    <3>1. InitialTTL - m.ttl + 1 \in 0 .. InitialTTL + 1
      BY <1>1
    <3>2. QED
      BY <2>2, <3>1, <1>2
  <2>3. CASE r = Owner[p] /\ x = r
    BY <2>3, AwayFromSelf
  <2>4. QED
    BY <2>1, <2>2, <2>3, <1>1, RecordNames DEF ReachInv
<1>7. TTLBoundsReach'
  BY <1>5, <1>6 DEF ReachInv, TTLBoundsReach
<1>8. QED
  BY <1>4, <1>7 DEF ReachInv

LEMMA DropStep ==
  ASSUME ReachInv, NEW p \in Port, NEW m \in net[p], Lose(p, m) \/ Unreachable(p, m)
  PROVE  ReachInv'
<1>1. /\ net' = [net EXCEPT ![p] = @ \ {m}]
      /\ UNCHANGED <<known, opened, dead>> /\ losses' \in 0 .. MaxLosses
  <2>1. CASE Lose(p, m)
    BY <2>1 DEF Lose, ReachInv, TypeOK
  <2>2. CASE Unreachable(p, m)
    BY <2>2 DEF Unreachable, ReachInv, TypeOK
  <2>3. QED
    BY <2>1, <2>2
<1>2. TypeOK'
  BY <1>1 DEF ReachInv, TypeOK, known
<1>3. \A q \in Port : net'[q] \subseteq net[q]
  BY <1>1 DEF ReachInv, TypeOK
<1>4. TTLBoundsReach'
  BY <1>1, <1>3 DEF ReachInv, TTLBoundsReach, known, Names
<1>5. QED
  BY <1>2, <1>4 DEF ReachInv

LEMMA ProcessStep ==
  ASSUME ReachInv, (\E p \in Port : OpenTx(p)) \/ (\E r \in Node : Dies(r))
  PROVE  ReachInv'
<1>1. TypeOK'
  BY DEF ReachInv, TypeOK, OpenTx, Dies, known
<1>2. TTLBoundsReach'
  BY DEF ReachInv, TTLBoundsReach, OpenTx, Dies, known, Names
<1>3. QED
  BY <1>1, <1>2 DEF ReachInv

LEMMA NextInvariant == ReachInv /\ [Next]_vars => ReachInv'
<1> SUFFICES ASSUME ReachInv, [Next]_vars PROVE ReachInv'
  OBVIOUS
<1>1. CASE UNCHANGED vars
  BY <1>1 DEF vars, known, ReachInv, TypeOK, TTLBoundsReach, Names
<1>2. QED
  BY <1>1, ProcessStep, OriginateStep, ReceiveStep, DropStep DEF Next

-----------------------------------------------------------------------------
(* The theorems.                                                           *)

THEOREM Invariance == Spec => []ReachInv
BY InitInvariant, NextInvariant, PTL DEF Spec

\* On any network the variables only take the values TypeOK names: the TTL of an
\* LSP never goes below zero (router.cpp:413-418).
THEOREM TypeCorrect == Spec => []TypeOK
<1>1. ReachInv => TypeOK
  BY DEF ReachInv
<1>2. QED
  BY <1>1, Invariance, PTL

\* On any network, however often LSPs are sent again and whatever gets lost: no
\* router records a node that is more links away than the TTL and one
\* (router.cpp:413-418).
THEOREM ReachBounded == Spec => []TTLBoundsReach
<1>1. ReachInv => TTLBoundsReach
  BY DEF ReachInv
<1>2. QED
  BY <1>1, Invariance, PTL
=============================================================================
