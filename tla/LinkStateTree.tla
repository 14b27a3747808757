---------------------------- MODULE LinkStateTree ----------------------------
(***************************************************************************)
(* LinkState on a network without cycles, as the one of                    *)
(* sample_network.txt, the file that main gives to the router.             *)
(***************************************************************************)
EXTENDS LinkState

CONSTANT Toward  \* Toward[r][x]: the port of r on the way to x

\* Across a link that does not lead from r to x, the way to x is back over it.
ASSUME TreeAssumption ==
  /\ Toward \in [Node -> [Node -> Port]]
  /\ \A p \in Port, x \in Node :
       (x = Owner[p] \/ Toward[Owner[p]][x] # p)
         => /\ x # Owner[Peer[p]]
            /\ Toward[Owner[Peer[p]]][x] = Peer[p]

\* LSPs only travel away from their source: none comes back to the router that
\* sent it, and all those of one source reach a router over one port
\* (router.cpp:608-625, which compares only the port it came by).
OutwardOnly ==
  \A p \in Port : \A m \in net[p] :
    m.src # Owner[p] /\ Toward[Owner[p]][m.src] = p

\* A router that has not built its map yet knows as many nodes as its list is
\* long, and not itself.
ListExact ==
  \A r \in Node :
    /\ Cardinality(Names(r)) = Len(graph_name[r])
    /\ netnode_nhops[r] = Names(r)
    /\ num_of_total_nodes[r] = Cardinality(Node) - IF built[r] THEN 0 ELSE 1
    /\ ~built[r] => r \notin Names(r)

\* An LSP on its way over a link comes from its source, or from a router that
\* has recorded it.
SentByKnower ==
  \A p \in Port : \A m \in net[p] :
    m.src \in Names(Owner[Peer[p]]) \cup {Owner[Peer[p]]}

TreeInv ==
  /\ TypeOK
  /\ OutwardOnly
  /\ ListExact
  /\ CompleteMap

Spread == INSTANCE Dissemination WITH
       Adjacent <- [r \in Node |-> Neighbors(r)],
       has <- [r \in Node |-> Names(r) \cup {r}],
       ready <- built

\* What the routers know spreads from neighbour to neighbour, and each of them
\* builds its map in the very step that it comes to know all the others, and never
\* again (router.cpp:404-422, 434-470).
Disseminates == Spread!Spec
=============================================================================
