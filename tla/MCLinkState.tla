----------------------------- MODULE MCLinkState -----------------------------
(***************************************************************************)
(* Small topologies for LinkState, with cycles.  The port <<x, y, i>> is   *)
(* the end at x of the i-th link between x and y.                          *)
(***************************************************************************)
EXTENDS LinkState, TLC

CONSTANTS A, B, C, D, E, F

PortsOver(links) ==
  {<<l[1], l[2], l[3]>> : l \in links} \cup {<<l[2], l[1], l[3]>> : l \in links}
OwnerIn(ports) == [p \in ports |-> p[1]]
PeerIn(ports) == [p \in ports |-> <<p[2], p[1], p[3]>>]

\* The line of a port in a file that lists the links in the order of Rank.
Rank == (A :> 1) @@ (B :> 2) @@ (C :> 3) @@ (D :> 4) @@ (E :> 5) @@ (F :> 6)
LineIn(ports) == [p \in ports |-> 10 * Rank[p[1]] + Rank[p[2]]]

\* What deneme.txt has besides its tree parts: a cycle.
Cycle3 == PortsOver({<<A, B, 1>>, <<B, C, 1>>, <<C, A, 1>>})
OwnerCycle3 == OwnerIn(Cycle3)
PeerCycle3 == PeerIn(Cycle3)
LineCycle3 == LineIn(Cycle3)

\* A cycle of four nodes with a tail of two: A and F are four links apart.
Kite == PortsOver({<<A, B, 1>>, <<B, C, 1>>, <<C, D, 1>>, <<D, A, 1>>,
                   <<C, E, 1>>, <<E, F, 1>>})
OwnerKite == OwnerIn(Kite)
PeerKite == PeerIn(Kite)
LineKite == LineIn(Kite)
=============================================================================
