--------------------------- MODULE DiscoveryProofs ---------------------------
(***************************************************************************)
(* Proofs about Discovery, for every topology, every set of ports that     *)
(* have a listener, and any losses.                                        *)
(*                                                                         *)
(* A sending port is usable only after the constructor of its router is    *)
(* past open_rx_channels, and so are therefore the routers whose Acks are  *)
(* under way or recorded.  No step goes back to that phase.  And an Ack    *)
(* that is recorded was sent by one listener and received by another.      *)
(***************************************************************************)
EXTENDS Discovery, TLAPS

USE LinkAssumption, ServedAssumption, MaxLossesAssumption

\* Past open_rx_channels a router has all its sockets bound, until it dies.
RxOpen ==
  \A p \in Port : pc[Owner[p]] \in {"open_tx", "wait", "lsp"} => rx[p]

\* Sending ports belong to routers that are past open_rx_channels ...
TxAfterRx == \A p \in Port : tx[p] # "none" => pc[Owner[p]] # "open_rx"

\* ... and so do the Acks, under way or recorded.
AckAfterRx ==
  /\ \A p \in Port : "1" \in net[p] => pc[Neighbor(p)] # "open_rx"
  /\ \A r \in Node : \A n \in acked[r] : pc[n] # "open_rx"

\* What the spinning loop has seen stays true.
ScannedAcked ==
  \A r \in Node :
    /\ scanned[r] \subseteq acked[r]
    /\ pc[r] = "lsp" => Neighbors(r) \subseteq acked[r]

\* An Ack, under way or recorded, comes over a link whose far end has a listener,
\* and is recorded by a listener at the near end.
AckOverListeners ==
  /\ \A p \in Port : "1" \in net[p] => Peer[p] \in Served
  /\ \A r \in Node : \A n \in acked[r] : ListenersOver(r, n)

IInv == TypeOK /\ RxOpen /\ TxAfterRx /\ AckAfterRx /\ ScannedAcked /\ AckOverListeners
-----------------------------------------------------------------------------
(* The inductive invariant.                                                *)

LEMMA InitInvariant == Init => IInv
BY DEF Init, IInv, TypeOK, RxOpen, TxAfterRx, AckAfterRx, ScannedAcked, AckOverListeners,
       Neighbor

LEMMA TypeStep == TypeOK /\ [Next]_vars => TypeOK'
<1> SUFFICES ASSUME TypeOK, [Next]_vars PROVE TypeOK'
  OBVIOUS
<1> USE DEF TypeOK
<1>1. ASSUME NEW p \in Port, OpenRx(p) PROVE TypeOK'
  BY <1>1 DEF OpenRx
<1>2. ASSUME NEW p \in Port, NewTx(p) PROVE TypeOK'
  BY <1>2 DEF NewTx
<1>3. ASSUME NEW p \in Port, InitTx(p) PROVE TypeOK'
  BY <1>3 DEF InitTx
<1>4. ASSUME NEW r \in Node, NEW n \in Neighbors(r), ScanNext(r, n) PROVE TypeOK'
  BY <1>4 DEF ScanNext, Neighbors, Neighbor, PortsOf
<1>5. ASSUME NEW p \in Port, SendHello(p) PROVE TypeOK'
  BY <1>5 DEF SendHello
<1>6. ASSUME NEW p \in Port, AnswerHello(p) PROVE TypeOK'
  BY <1>6 DEF AnswerHello
<1>7. ASSUME NEW p \in Port, HelloTooEarly(p) PROVE TypeOK'
  BY <1>7 DEF HelloTooEarly
<1>8. ASSUME NEW p \in Port, HelloKills(p) PROVE TypeOK'
  BY <1>8 DEF HelloKills
<1>9. ASSUME NEW p \in Port, HandleAck(p) PROVE TypeOK'
  BY <1>9 DEF HandleAck, Neighbor
<1>10. ASSUME NEW p \in Port, NEW k \in {"d", "1"}, Unreachable(p, k) \/ Lose(p, k)
       PROVE  TypeOK'
  BY <1>10 DEF Unreachable, Lose
<1>11. CASE UNCHANGED vars
  BY <1>11 DEF vars
<1>12. QED
  BY <1>1, <1>2, <1>3, <1>4, <1>5, <1>6, <1>7, <1>8, <1>9, <1>10, <1>11
     DEF Next, Constructor, Listener, PortsOf

\* A phase is never left backwards.
LEMMA NeverBack ==
  TypeOK /\ [Next]_vars => \A r \in Node : pc[r] # "open_rx" => pc'[r] # "open_rx"
BY DEF TypeOK, Next, vars, Constructor, Listener, PortsOf, OpenRx, NewTx, InitTx, ScanNext,
       SendHello, AnswerHello, HelloTooEarly, HelloKills, HandleAck, Unreachable, Lose

LEMMA RxOpenStep == TypeOK /\ RxOpen /\ TxAfterRx /\ [Next]_vars => RxOpen'
<1> SUFFICES ASSUME TypeOK, RxOpen, TxAfterRx, [Next]_vars PROVE RxOpen'
  OBVIOUS
<1> USE DEF TypeOK, RxOpen, PortsOf
<1>1. ASSUME NEW p \in Port, OpenRx(p) PROVE RxOpen'
  BY <1>1 DEF OpenRx
<1>2. ASSUME NEW p \in Port, InitTx(p) PROVE RxOpen'
  BY <1>2 DEF InitTx
<1>3. ASSUME NEW r \in Node, NEW n \in Neighbors(r), ScanNext(r, n) PROVE RxOpen'
  BY <1>3 DEF ScanNext
<1>4. ASSUME NEW p \in Port, HelloKills(p) PROVE RxOpen'
  BY <1>4 DEF HelloKills
<1>5. CASE UNCHANGED <<pc, rx>>
  BY <1>5
<1>6. QED
  BY <1>1, <1>2, <1>3, <1>4, <1>5
     DEF Next, vars, Constructor, Listener, NewTx, SendHello, AnswerHello, HelloTooEarly,
         HandleAck, Unreachable, Lose

LEMMA TxAfterRxStep == TypeOK /\ TxAfterRx /\ [Next]_vars => TxAfterRx'
<1> SUFFICES ASSUME TypeOK, TxAfterRx, [Next]_vars, NEW q \in Port, tx'[q] # "none"
             PROVE  pc'[Owner[q]] # "open_rx"
  BY DEF TxAfterRx
<1>1. Owner[q] \in Node
  OBVIOUS
<1>2. pc[Owner[q]] # "open_rx"
  <2>1. CASE tx[q] # "none"
    BY <2>1 DEF TxAfterRx
  <2>2. CASE tx[q] = "none"
    BY <2>2
       DEF TypeOK, Next, vars, Constructor, Listener, PortsOf, OpenRx, NewTx, InitTx, ScanNext,
           SendHello, AnswerHello, HelloTooEarly, HelloKills, HandleAck, Unreachable, Lose
  <2>3. QED
    BY <2>1, <2>2
<1>3. QED
  BY <1>1, <1>2, NeverBack

LEMMA AckAfterRxStep ==
  TypeOK /\ TxAfterRx /\ AckAfterRx /\ [Next]_vars => AckAfterRx'
<1> SUFFICES ASSUME TypeOK, TxAfterRx, AckAfterRx, [Next]_vars PROVE AckAfterRx'
  OBVIOUS
<1>1. ASSUME NEW q \in Port, "1" \in net'[q] PROVE pc'[Neighbor(q)] # "open_rx"
  <2>1. Neighbor(q) \in Node
    BY DEF Neighbor
  <2>2. CASE "1" \in net[q]
    BY <2>1, <2>2, NeverBack DEF AckAfterRx
  <2>3. CASE "1" \notin net[q]
    <3>1. \E p \in Port : AnswerHello(p) /\ q = Peer[p]
      BY <1>1, <2>3
         DEF TypeOK, Next, vars, Constructor, Listener, PortsOf, OpenRx, NewTx, InitTx, ScanNext,
             SendHello, AnswerHello, HelloTooEarly, HelloKills, HandleAck, Unreachable, Lose
    <3>2. PICK p \in Port : AnswerHello(p) /\ q = Peer[p]
      BY <3>1
    <3>3. Neighbor(q) = Owner[p] /\ tx[p] = "open"
      BY <3>2 DEF Neighbor, AnswerHello
    <3>4. pc[Neighbor(q)] # "open_rx"
      BY <3>3 DEF TxAfterRx
    <3>5. QED
      BY <2>1, <3>4, NeverBack
  <2>4. QED
    BY <2>2, <2>3
<1>2. ASSUME NEW r \in Node, NEW n \in acked'[r] PROVE pc'[n] # "open_rx"
  <2>1. CASE n \in acked[r]
    BY <2>1, NeverBack DEF AckAfterRx, TypeOK
  <2>2. CASE n \notin acked[r]
    <3>1. \E p \in Port : HandleAck(p) /\ n = Neighbor(p)
      BY <1>2, <2>2
         DEF TypeOK, Next, vars, Constructor, Listener, PortsOf, OpenRx, NewTx, InitTx, ScanNext,
             SendHello, AnswerHello, HelloTooEarly, HelloKills, HandleAck, Unreachable, Lose
    <3>2. pc[n] # "open_rx" /\ n \in Node
      BY <3>1 DEF HandleAck, Takes, AckAfterRx, Neighbor
    <3>3. QED
      BY <3>2, NeverBack
  <2>3. QED
    BY <2>1, <2>2
<1>3. QED
  BY <1>1, <1>2 DEF AckAfterRx, Neighbor

LEMMA ScannedAckedStep == TypeOK /\ ScannedAcked /\ [Next]_vars => ScannedAcked'
<1> SUFFICES ASSUME TypeOK, ScannedAcked, [Next]_vars PROVE ScannedAcked'
  OBVIOUS
<1> USE DEF TypeOK, ScannedAcked
<1>1. ASSUME NEW r \in Node, NEW n \in Neighbors(r), ScanNext(r, n) PROVE ScannedAcked'
  BY <1>1 DEF ScanNext, Neighbors, Neighbor, PortsOf
<1>2. ASSUME NEW p \in Port, HandleAck(p) PROVE ScannedAcked'
  BY <1>2 DEF HandleAck, Neighbors, Neighbor, PortsOf
<1>3. ASSUME NEW p \in Port, OpenRx(p) \/ NewTx(p) \/ InitTx(p) PROVE ScannedAcked'
  BY <1>3 DEF OpenRx, NewTx, InitTx, Neighbors, Neighbor, PortsOf
<1>4. ASSUME NEW p \in Port, HelloKills(p) PROVE ScannedAcked'
  BY <1>4 DEF HelloKills, Neighbors, Neighbor, PortsOf
<1>5. CASE UNCHANGED <<pc, acked, scanned>>
  BY <1>5 DEF Neighbors, Neighbor, PortsOf
<1>6. QED
  BY <1>1, <1>2, <1>3, <1>4, <1>5
     DEF Next, vars, Constructor, Listener, PortsOf, SendHello, AnswerHello, HelloTooEarly,
         Unreachable, Lose

LEMMA AckOverListenersStep ==
  TypeOK /\ AckOverListeners /\ [Next]_vars => AckOverListeners'
<1> SUFFICES ASSUME TypeOK, AckOverListeners, [Next]_vars PROVE AckOverListeners'
  OBVIOUS
<1>1. ASSUME NEW q \in Port, "1" \in net'[q] PROVE Peer[q] \in Served
  <2>1. CASE "1" \in net[q]
    BY <2>1 DEF AckOverListeners
  <2>2. CASE "1" \notin net[q]
    <3>1. \E p \in Port : AnswerHello(p) /\ q = Peer[p]
      BY <1>1, <2>2
         DEF TypeOK, Next, vars, Constructor, Listener, PortsOf, OpenRx, NewTx, InitTx, ScanNext,
             SendHello, AnswerHello, HelloTooEarly, HelloKills, HandleAck, Unreachable, Lose
    <3>2. QED
      BY <3>1 DEF AnswerHello, Takes
  <2>3. QED
    BY <2>1, <2>2
<1>2. ASSUME NEW r \in Node, NEW n \in acked'[r] PROVE ListenersOver(r, n)
  <2>1. CASE n \in acked[r]
    BY <2>1 DEF AckOverListeners
  <2>2. CASE n \notin acked[r]
    <3>1. \E p \in Port : HandleAck(p) /\ n = Neighbor(p) /\ r = Owner[p]
      BY <1>2, <2>2
         DEF TypeOK, Next, vars, Constructor, Listener, PortsOf, OpenRx, NewTx, InitTx, ScanNext,
             SendHello, AnswerHello, HelloTooEarly, HelloKills, HandleAck, Unreachable, Lose
    <3>2. PICK p \in Port : HandleAck(p) /\ n = Neighbor(p) /\ r = Owner[p]
      BY <3>1
    <3>3. p \in Served /\ Peer[p] \in Served
      BY <3>2 DEF HandleAck, Takes, AckOverListeners
    <3>4. QED
      BY <3>2, <3>3 DEF ListenersOver, PortsOf
  <2>3. QED
    BY <2>1, <2>2
<1>3. QED
  BY <1>1, <1>2 DEF AckOverListeners, ListenersOver, Neighbor, PortsOf

-----------------------------------------------------------------------------
(* The theorems.                                                           *)

THEOREM Invariance == Spec => []IInv
<1>1. IInv /\ [Next]_vars => IInv'
  BY TypeStep, RxOpenStep, TxAfterRxStep, AckAfterRxStep, ScannedAckedStep,
     AckOverListenersStep DEF IInv
<1>2. QED
  BY <1>1, InitInvariant, PTL DEF Spec

\* For every topology: the variables only take the values TypeOK names.
THEOREM TypeCorrect == Spec => []TypeOK
<1>1. IInv => TypeOK
  BY DEF IInv
<1>2. QED
  BY <1>1, Invariance, PTL

\* For every topology, any set of listeners and any losses: a router sends link
\* state only to sockets that are bound, or to a neighbour that died
\* (router.h:103-107).
THEOREM SocketsBound == Spec => []LspFindsSocket
<1>1. IInv => LspFindsSocket
  <2> SUFFICES ASSUME IInv, NEW p \in Port, pc[Owner[p]] = "lsp", pc[Neighbor(p)] # "dead"
               PROVE  rx[Peer[p]]
    BY DEF LspFindsSocket
  <2>1. Neighbor(p) \in Neighbors(Owner[p]) /\ Owner[p] \in Node /\ Neighbor(p) \in Node
    BY DEF Neighbors, Neighbor, PortsOf
  <2>2. Neighbor(p) \in acked[Owner[p]]
    BY <2>1 DEF IInv, ScannedAcked
  <2>3. pc[Neighbor(p)] # "open_rx"
    BY <2>1, <2>2 DEF IInv, AckAfterRx
  <2>4. pc[Neighbor(p)] \in {"open_tx", "wait", "lsp"}
    BY <2>1, <2>3 DEF IInv, TypeOK
  <2>5. QED
    BY <2>4 DEF IInv, RxOpen, Neighbor
<1>2. QED
  BY <1>1, Invariance, PTL

\* For every topology and any set of listeners: a router gets through discovery
\* only if each of its neighbours is behind a link that has a listener at both ends
\* (router.cpp:694-706).
THEOREM NotWithoutListeners == Spec => []DoneNeedsListeners
<1>1. IInv => DoneNeedsListeners
  BY DEF IInv, ScannedAcked, AckOverListeners, DoneNeedsListeners
<1>2. QED
  BY <1>1, Invariance, PTL
=============================================================================
