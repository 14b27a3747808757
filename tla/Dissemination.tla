---------------------------- MODULE Dissemination ----------------------------
(***************************************************************************)
(* What flooding promises, without packets, ports, TTLs or losses: a       *)
(* router learns the neighbour list of another from a neighbour that has   *)
(* it, each list once, and is ready when, and as soon as, it has them all. *)
(* LinkStateTree implements it.                                            *)
(***************************************************************************)
EXTENDS FiniteSets

CONSTANTS
  Node,     \* routers
  Adjacent  \* Adjacent[r]: neighbours of r

VARIABLES
  has,      \* has[r]: the routers whose neighbour lists r has
  ready     \* ready[r]: r has a map of the network

vars == <<has, ready>>

\* A router knows its own neighbours from its topology file.
Init ==
  /\ has = [r \in Node |-> {r}]
  /\ ready = [r \in Node |-> FALSE]

Learn(r, x) ==
  /\ x \notin has[r]
  /\ \E n \in Adjacent[r] : x \in has[n]
  /\ has' = [has EXCEPT ![r] = @ \cup {x}]
  /\ ready' = [ready EXCEPT ![r] = has[r] \cup {x} = Node]

Next == \E r, x \in Node : Learn(r, x)

Spec == Init /\ [][Next]_vars
=============================================================================
