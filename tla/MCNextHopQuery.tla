--------------------------- MODULE MCNextHopQuery ---------------------------
(***************************************************************************)
(* A small network for NextHopQuery and RouteTables, seen from one router. *)
(* The port <<x, y, i>> is the end at x of the i-th link between x and y.  *)
(***************************************************************************)
EXTENDS NextHopQuery

CONSTANTS A, B, W, Z, J

\* W, with two links to A, one to B and one to Z; Z is linked to A and B as well.
Links == {<<W, Z, 1>>, <<W, A, 1>>, <<W, A, 2>>, <<W, B, 1>>, <<Z, A, 1>>, <<Z, B, 1>>}
Diamond == Links \cup {<<l[2], l[1], l[3]>> : l \in Links}
OwnerDiamond == [p \in Diamond |-> p[1]]
PeerDiamond == [p \in Diamond |-> <<p[2], p[1], p[3]>>]
DistDiamond ==
  [x \in Node |-> [y \in Node |->
     IF x = y THEN 0 ELSE IF {x, y} = {A, B} THEN 2 ELSE 1]]
FirstDiamond ==
  [x \in Node |-> [y \in Node |->
     IF {x, y} = {A, B} THEN Z ELSE y]]
LetterDiamond ==
  [x \in Node |-> CASE x = A -> 1 [] x = B -> 2 [] x = W -> 3 [] x = Z -> 4]

NbrTblW == <<A, Z, A, B>>

\* Everything; the list of B not yet; B not at all, but W itself.
RecordedW ==
  {[names |-> <<Z, A, B>>, lists |-> {A, B, Z}],
   [names |-> <<A, B, Z>>, lists |-> {A, Z}],
   [names |-> <<A, W, Z>>, lists |-> {A, W, Z}]}
TailsW == {<<>>, <<J>>}

QueryW == {<<A, B, NoNode>>, <<B, Z, A>>, <<B, NoNode, NoNode>>}
=============================================================================
