---------------------------- MODULE MCDiscovery ----------------------------
(***************************************************************************)
(* Small topologies for Discovery.  The port <<x, y, i>> is the end at x   *)
(* of the i-th link between x and y.                                       *)
(***************************************************************************)
EXTENDS Discovery, Functions

CONSTANTS A, B, C

OwnerIn(ports) == [p \in ports |-> p[1]]
PeerIn(ports) == [p \in ports |-> <<p[2], p[1], p[3]>>]

\* The line of a file, a sequence of ports, that a port is.
LineIn(file) == [p \in Range(file) |-> CHOOSE i \in DOMAIN file : file[i] = p]

\* B is linked to C, and then twice to A; all its ports but the last are left
\* without a listener.
GapsFile == << <<A, B, 1>>, <<B, C, 1>>, <<C, B, 1>>, <<B, A, 1>>, <<A, B, 2>>, <<B, A, 2>> >>
Gaps == Range(GapsFile)
OwnerGaps == OwnerIn(Gaps)
PeerGaps == PeerIn(Gaps)
LineGaps == LineIn(GapsFile)
ServedGaps == Gaps \ {<<B, C, 1>>, <<B, A, 1>>}
=============================================================================
