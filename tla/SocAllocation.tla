---------------------------- MODULE SocAllocation ----------------------------
(***************************************************************************)
(* What the scheduler extender promises, without caches, informers or API  *)
(* calls: a pod is placed on one board of one node, only when that board   *)
(* of the node's published capacity holds every SoC it requests and no     *)
(* other placed pod on the same board requests any of them; a placed pod  *)
(* may be released at any time (it completed or was deleted).  (spec,      *)
(* sections 1 and 4.5: single-board containment, exclusive SoCs.)          *)
(***************************************************************************)
EXTENDS FiniteSets

CONSTANTS
    Pods,       \* pod UIDs
    Nodes,      \* node names
    Request,    \* Request[p]: the SoC IDs pod p asks for
    Capacity,   \* Capacity[n]: board ID -> the node's SoC IDs on that board
    Unplaced    \* the placement of a pod that holds nothing

VARIABLE placement  \* pod -> [node, board], or Unplaced

Placed(p) == placement[p] # Unplaced

\* The SoCs of board b of node n held by placed pods other than p.
HeldOn(n, b, p) ==
    UNION {Request[q] : q \in {x \in Pods \ {p} :
                                 Placed(x) /\ placement[x] = [node |-> n, board |-> b]}}

Init == placement = [p \in Pods |-> Unplaced]

Place(p, n, b) ==
    /\ ~Placed(p)
    /\ b \in DOMAIN Capacity[n]
    /\ Request[p] \subseteq Capacity[n][b]
    /\ Request[p] \cap HeldOn(n, b, p) = {}
    /\ placement' = [placement EXCEPT ![p] = [node |-> n, board |-> b]]

Release(p) ==
    /\ Placed(p)
    /\ placement' = [placement EXCEPT ![p] = Unplaced]

Next ==
    \E p \in Pods :
        \/ Release(p)
        \/ \E n \in Nodes : \E b \in DOMAIN Capacity[n] : Place(p, n, b)

Spec == Init /\ [][Next]_placement

=============================================================================
