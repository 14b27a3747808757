----------------------------- MODULE Forwarding -----------------------------
(***************************************************************************)
(* Data packets: how the routers that have built their map forward a       *)
(* packet with up to three destinations.                                   *)
(*                                                                         *)
(* A router chooses a next hop for each destination (NextHops), sends one  *)
(* copy to each next hop it has chosen, with the destinations it chose it  *)
(* for, and keeps a packet whose only destination it is.  A copy goes over *)
(* every link to its next hop.  The TTL is never looked at.                *)
(*                                                                         *)
(* Boost's Dijkstra is external: what it computes is given as Dist and     *)
(* First.  What happens to a map before it is built is in LinkState.       *)
(***************************************************************************)
EXTENDS NextHops

CONSTANTS
  Trial,      \* Trial[r]: destinations of the packet r sends when it has its map
  Overruns,   \* the build's stack layout lets the overrun of line 162 do harm
  MaxLosses,  \* bound on the datagrams that get lost
  MaxAstray   \* bound on how often the packets of a source go astray

ASSUME TrialAssumption ==
  Trial \in [Node -> DestList] /\ \A r \in Node : r \notin Dests(Trial[r])
ASSUME OverrunsAssumption == Overruns \in BOOLEAN
ASSUME BoundsAssumption == MaxLosses \in Nat /\ MaxAstray \in Nat

VARIABLES
  net,     \* net[p]: data packets in the receiving socket of port p, in order
  ready,   \* ready[r]: r has built its map and its forwarding tables
  rxed,    \* rxed[r][s]: packets of s that were targeted to r and got there
  dead,    \* routers whose process has died
  losses,  \* datagrams lost so far
  astray   \* history: how often the next hops of a packet of a source came out
           \* of uninitialised memory

vars == <<net, ready, rxed, dead, losses, astray>>

\* hops counts the links a packet has crossed: it is not in the code.
Packet == [src : Node, dests : DestList, ttl : 0 .. 255, hops : Nat]

TypeOK ==
  /\ net \in [Port -> Seq(Packet)]
  /\ ready \in [Node -> BOOLEAN]
  /\ rxed \in [Node -> [Node -> Nat]]
  /\ dead \subseteq Node
  /\ losses \in 0 .. MaxLosses
  /\ astray \in [Node -> 0 .. MaxAstray]

Init ==
  /\ net = [p \in Port |-> <<>>]
  /\ ready = [r \in Node |-> FALSE]
  /\ rxed = [r \in Node |-> [s \in Node |-> 0]]
  /\ dead = {}
  /\ losses = 0
  /\ astray = [s \in Node |-> 0]

-----------------------------------------------------------------------------
(* Sending.                                                                *)

NextTTL_Unwrapped(c) == c - 48 - 1

\* (char)((int)(ttl - '0') - 1): the digit becomes a number and not a digit again.
NextTTL(c) == (c - 48 - 1) % 256

Part_Whole(ds, f, n) == ds
Part_FirstOnly(ds, f, n) ==
  [i \in Slot |-> IF f[i] = n /\ \A j \in 1 .. i - 1 : f[j] # n THEN ds[i] ELSE NoNode]

\* The destinations that next hop n was chosen for.
Part(ds, f, n) == [i \in Slot |-> IF f[i] = n THEN ds[i] ELSE NoNode]

\* The sockets when router r has sent packet m to the next hops f: one copy to
\* each, over all the links to it.  Nothing reaches a dead router.
SendTo(sockets, r, m, f) ==
  [q \in Port |->
     IF Owner[Peer[q]] = r /\ Owner[q] \in Range(f) /\ Owner[q] \notin dead
     THEN Append(sockets[q], [src |-> m.src, dests |-> Part(m.dests, f, Owner[q]),
                              ttl |-> NextTTL(m.ttl), hops |-> m.hops + 1])
     ELSE sockets[q]]

\* The sockets without the head of that of p, which its listener has received.
Received(p) == [net EXCEPT ![p] = Tail(@)]

\* The process of r dies, and its sockets are closed.
Die(r) ==
  /\ dead' = dead \cup {r}
  /\ net' = [q \in Port |-> IF Owner[q] = r THEN <<>> ELSE net[q]]
  /\ UNCHANGED <<ready, rxed, losses, astray>>

TrialPacket(r) == [src |-> r, dests |-> Trial[r], ttl |-> 57, hops |-> 0]

\* The end of build_map: the tables are filled, and a router with a trial packet
\* (W in the code) sends it.
BuildMap(r) ==
  /\ ~ready[r] /\ r \notin dead
  /\ ready' = [ready EXCEPT ![r] = TRUE]
  /\ IF Trial[r] = NoDests THEN net' = net
     ELSE \E f \in NextHops(r, Trial[r]) : net' = SendTo(net, r, TrialPacket(r), f)
  /\ UNCHANGED <<rxed, dead, losses, astray>>

BuildMapDies(r) ==
  /\ ~ready[r] /\ r \notin dead
  /\ Trial[r] # NoDests /\ Overruns
  /\ Die(r)

ForMe(r, m) == Unicast(m.dests) /\ r \in Dests(m.dests)

\* A packet for the router alone: no table is needed.
Keep(p) ==
  /\ net[p] # <<>> /\ ForMe(Owner[p], Head(net[p]))
  /\ net' = Received(p)
  /\ rxed' = [rxed EXCEPT ![Owner[p]][Head(net[p]).src] = @ + 1]
  /\ UNCHANGED <<ready, dead, losses, astray>>

Forward(p) ==
  /\ net[p] # <<>> /\ ready[Owner[p]]
  /\ Owner[p] \notin Dests(Head(net[p]).dests)
  /\ \E f \in NextHops(Owner[p], Head(net[p]).dests) :
       net' = SendTo(Received(p), Owner[p], Head(net[p]), f)
  /\ UNCHANGED <<ready, rxed, dead, losses, astray>>

\* The router is one of several destinations: no next hop is possible for itself,
\* min_indexes is never set, and any port or none may be taken for each.
GoAstray(p) ==
  LET m == Head(net[p])
  IN  /\ net[p] # <<>> /\ ready[Owner[p]]
      /\ astray[m.src] < MaxAstray
      /\ ~Unicast(m.dests) /\ Owner[p] \in Dests(m.dests)
      /\ \E f \in [Slot -> Neighbors(Owner[p]) \cup {NoNode}] :
           /\ \A i \in Slot : m.dests[i] = NoNode => f[i] = NoNode
           /\ net' = SendTo(Received(p), Owner[p], m, f)
      /\ astray' = [astray EXCEPT ![m.src] = @ + 1]
      /\ UNCHANGED <<ready, rxed, dead, losses>>

\* A packet that is to be forwarded kills the router: before there is a map ftf_p
\* points nowhere; the copy of the destinations overruns its array; or there is no
\* next hop to look up.
ForwardDies(p) ==
  /\ net[p] # <<>>
  /\ ~ForMe(Owner[p], Head(net[p]))
  /\ ~ready[Owner[p]] \/ Overruns \/ Owner[p] \in Dests(Head(net[p]).dests)
  /\ Die(Owner[p])

\* UDP: a datagram may not arrive.
Lose(p) ==
  /\ losses < MaxLosses
  /\ net[p] # <<>>
  /\ net' = Received(p)
  /\ losses' = losses + 1
  /\ UNCHANGED <<ready, rxed, dead, astray>>

Handle(p) == Keep(p) \/ Forward(p) \/ GoAstray(p) \/ ForwardDies(p)

Next ==
  \/ \E r \in Node : BuildMap(r) \/ BuildMapDies(r)
  \/ \E p \in Port : Handle(p) \/ Lose(p)

Spec == Init /\ [][Next]_vars

\* Every router gets its map in the end, as LinkState promises, or dies; and a
\* listener handles what lies in its socket.
FairSpec ==
  /\ Spec
  /\ \A r \in Node : WF_vars(BuildMap(r) \/ BuildMapDies(r))
  /\ \A p \in Port : WF_vars(Handle(p))

-----------------------------------------------------------------------------
(* Properties.                                                             *)

\* How far r is from the destinations, in all.
Total(r, ds) == Sum([i \in Slot |-> IF ds[i] = NoNode THEN 0 ELSE Dist[r][ds[i]]])

\* No copy is forwarded for ever, though the TTL is not looked at
\* (router.cpp:104): the cost of forward_to_port makes each copy get nearer to
\* its destinations taken together, so that it crosses no more links than they
\* were away from its source.
HopsBounded ==
  \A p \in Port : \A i \in DOMAIN net[p] :
    LET m == net[p][i]
    IN  astray[m.src] = 0 =>
          m.hops + Total(Owner[p], m.dests) <= Total(m.src, Trial[m.src])

NoParallelLinks ==
  \A p, q \in Port : Owner[p] = Owner[q] /\ Owner[Peer[p]] = Owner[Peer[q]] => p = q

\* Copies of the packet of s on their way to d.
CopiesFor(s, d) ==
  UNION {{<<p, i>> : i \in {j \in DOMAIN net[p] : net[p][j].src = s
                                                  /\ d \in Dests(net[p][j].dests)}} : p \in Port}

\* A destination gets a packet once, whichever ways its copies go: the copies that
\* a router sends share out the destinations (router.cpp:86-114).
NoDuplicates ==
  NoParallelLinks =>
    \A s, d \in Node :
      astray[s] = 0 => rxed[d][s] + Cardinality(CopiesFor(s, d)) <= 1

\* A packet gets to each of its destinations, unless a datagram is lost, a router
\* dies, or one of several destinations is on the way to another.
EveryDestServed ==
  \A s \in Node : \A d \in Dests(Trial[s]) :
    <>(rxed[d][s] > 0 \/ losses > 0 \/ dead # {} \/ astray[s] > 0)

\* A packet gets to each of its destinations, any destinations, if none of its
\* datagrams is lost and no router is reached before it has a map.
ArbitraryDests ==
  \A s \in Node : \A d \in Dests(Trial[s]) :
    <>(rxed[d][s] > 0 \/ losses > 0 \/ \E r \in dead : ~ready[r])
=============================================================================
