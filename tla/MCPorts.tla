------------------------------- MODULE MCPorts -------------------------------
(***************************************************************************)
(* Router A (65) sends to B (66), which has a neighbour C (67).            *)
(***************************************************************************)
EXTENDS Ports, TLC

\* A Hello; an LSP of A, new, and one of D that A relays with its last TTL but
\* one used up; a data packet, and one that A forwards, with a shorter payload.
PacketsAB ==
  {Hello(65),
   LSP(65, 1, <<66>>),
   [LSP(68, 0, <<65>>) EXCEPT !.hdr = Append(@, 7)],
   Data(57, 65, <<67>>, <<120, 121>>),
   Data(8, 65, <<67>>, <<122>>)}

Threads == Permutations(Sender) \cup Permutations(Listener)
=============================================================================
