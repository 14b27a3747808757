---------------------------- MODULE MCForwarding ----------------------------
(***************************************************************************)
(* Networks for Forwarding.  The port <<x, y, i>> is the end at x of the   *)
(* i-th link between x and y.                                              *)
(***************************************************************************)
EXTENDS Forwarding, TLC

CONSTANTS A, B, C, D, W, X, Y, Z

PortsOver(links) ==
  {<<l[1], l[2], l[3]>> : l \in links} \cup {<<l[2], l[1], l[3]>> : l \in links}
OwnerIn(ports) == [p \in ports |-> p[1]]
PeerIn(ports) == [p \in ports |-> <<p[2], p[1], p[3]>>]

\* The distances of a table whose rows and columns are in the order of ids.
TableIn(ids, table) ==
  LET at == [n \in Range(ids) |-> CHOOSE i \in DOMAIN ids : ids[i] = n]
  IN  [x \in Range(ids) |-> [y \in Range(ids) |-> table[at[x]][at[y]]]]
FirstIn(dist) ==
  [x \in Node |-> [y \in Node |->
     CHOOSE n \in Neighbors(x) : x # y => dist[x][y] = dist[n][y] + 1]]
LetterIn(ids) == [n \in Range(ids) |-> CHOOSE i \in DOMAIN ids : ids[i] = n]

\* The trial packets of the routers of a function from ids to destination lists.
TrialsOf(t) == [r \in Node |-> IF r \in DOMAIN t THEN t[r] ELSE NoDests]

\* sample_network.txt, and the packet that W sends.
Sample == PortsOver({<<W, A, 1>>, <<A, B, 1>>, <<B, D, 1>>, <<B, C, 1>>,
                     <<D, X, 1>>, <<C, Y, 1>>, <<C, Z, 1>>})
OwnerSample == OwnerIn(Sample)
PeerSample == PeerIn(Sample)
IdsSample == <<A, B, C, D, W, X, Y, Z>>
DistSample == TableIn(IdsSample, <<
  <<0, 1, 2, 2, 1, 3, 3, 3>>,
  <<1, 0, 1, 1, 2, 2, 2, 2>>,
  <<2, 1, 0, 2, 3, 3, 1, 1>>,
  <<2, 1, 2, 0, 3, 1, 3, 3>>,
  <<1, 2, 3, 3, 0, 4, 4, 4>>,
  <<3, 2, 3, 1, 4, 0, 4, 4>>,
  <<3, 2, 1, 3, 4, 4, 0, 2>>,
  <<3, 2, 1, 3, 4, 4, 2, 0>> >>)
FirstSample == FirstIn(DistSample)
LetterSample == LetterIn(IdsSample)
TrialInner == TrialsOf(W :> <<X, D, NoNode>>)

\* W and Z, linked to each other, are both linked to A and to B, and equally far
\* from each.
Diamond == PortsOver({<<W, Z, 1>>, <<W, A, 1>>, <<W, B, 1>>, <<Z, A, 1>>, <<Z, B, 1>>})
OwnerDiamond == OwnerIn(Diamond)
PeerDiamond == PeerIn(Diamond)
IdsDiamond == <<A, B, W, Z>>
DistDiamond == TableIn(IdsDiamond, <<
  <<0, 2, 1, 1>>,
  <<2, 0, 1, 1>>,
  <<1, 1, 0, 1>>,
  <<1, 1, 1, 0>> >>)
FirstDiamond == FirstIn(DistDiamond)
LetterDiamond == LetterIn(IdsDiamond)
\* The packet of A is for two routers that are on the way to a third.
TrialDiamond == TrialsOf((W :> <<A, B, NoNode>>) @@ (A :> <<B, Z, W>>))
=============================================================================
