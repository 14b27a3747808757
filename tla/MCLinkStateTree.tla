--------------------------- MODULE MCLinkStateTree ---------------------------
(***************************************************************************)
(* A small tree for LinkStateTree: three nodes in a line.                  *)
(***************************************************************************)
EXTENDS LinkStateTree, MCLinkState

\* In a line, the port toward x is the one whose neighbour is on the side of x.
TowardIn(ports, nodes) ==
  [r \in nodes |-> [x \in nodes |->
     CHOOSE p \in ports :
       p[1] = r /\ (x # r => (Rank[p[2]] > Rank[r] <=> Rank[x] > Rank[r]))]]

Line3 == PortsOver({<<A, B, 1>>, <<B, C, 1>>})
OwnerLine3 == OwnerIn(Line3)
PeerLine3 == PeerIn(Line3)
LineLine3 == LineIn(Line3)
TowardLine3 == TowardIn(Line3, {A, B, C})
=============================================================================
