--------------------------- MODULE MCOrinScheduler ---------------------------
(***************************************************************************)
(* Model-checking instance of OrinScheduler: one node with two boards,    *)
(* board 0 with SoCs 1 and 2 (decimal map 11) and board 1 with SoC 1      *)
(* (decimal map 1), and two pods that each request SoC 1.  Binpack sends   *)
(* the first to the tighter board 1 and the second to board 0, so every   *)
(* placement, release and conflict of the protocol is reachable.  The      *)
(* device plugin may republish board 1 as holding SoC 2 only (10), which  *)
(* shrinks capacity under a running pod, or add a board 2 with SoC 1.    *)
(***************************************************************************)
EXTENDS OrinScheduler

CONSTANTS p1, p2, n1

MCPods == {p1, p2}
MCNodes == {n1}
MCRequest == [p \in MCPods |-> {1}]
MCInitCapacity == [n \in MCNodes |-> (0 :> 11) @@ (1 :> 1)]
MCAltCapacity == [n \in MCNodes |-> {(0 :> 11) @@ (1 :> 10)}]

\* Requests that no binpack choice can make collide (SoC 1 and SoC 2).
MCDisjointRequest == (p1 :> {1}) @@ (p2 :> {2})

\* A republication that only adds a board (board 2 with SoC 1).
MCGrowCapacity == [n \in MCNodes |-> {(0 :> 11) @@ (1 :> 1) @@ (2 :> 1)}]

=============================================================================
