----------------------------- MODULE MCMapBuild -----------------------------
(***************************************************************************)
(* MapBuild for a router between nodes: T1 serves the port behind which    *)
(* two nodes are, T2 that of one node; or T1 and T2 serve the first of the *)
(* two ports and T3 the second.                                            *)
(***************************************************************************)
EXTENDS MapBuild, TLC

CONSTANTS A, B, C, D, T1, T2, T3

ComesToTwo == (T1 :> {A, B}) @@ (T2 :> {C})
ComesToThree == (T1 :> {A}) @@ (T2 :> {A}) @@ (T3 :> {B})
=============================================================================
