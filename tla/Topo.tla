-------------------------------- MODULE Topo --------------------------------
(***************************************************************************)
(* The value types of pkg/scheduler/manager/topo: a BoardDetails is a Go   *)
(* map from board ID to an OrinDetails, itself a map from SoC ID to an     *)
(* OrinInfo that only repeats the board ID.  The OrinInfo carries nothing  *)
(* the scheduler reads, so an OrinDetails is modelled by its key set and a *)
(* BoardDetails by a function from a finite set of board IDs to sets of    *)
(* SoC IDs.  The domain matters: a board present with no SoCs is distinct  *)
(* from an absent board (DifferenceFromSuperset keeps emptied boards).     *)
(***************************************************************************)
EXTENDS Integers, FiniteSets, TLC

\* NewBoardDetails(): the empty map.
NewBoardDetails == [b \in {} |-> {}]

\* BoardSet(): the key set of the map.
BoardSet(d) == DOMAIN d

\* OrinSet of board b, with the Go zero value (nil map) for a missing key,
\* as in Equal's dst[mid].OrinSet() and DifferenceFromSuperset's src[subMID].
OrinSetOf(d, b) == IF b \in DOMAIN d THEN d[b] ELSE {}

\* Equal: same board set and the same SoC set on every board.
BDEqual(src, dst) ==
    /\ BoardSet(src) = BoardSet(dst)
    /\ \A b \in BoardSet(src) : OrinSetOf(src, b) = OrinSetOf(dst, b)

\* The precondition DifferenceFromSuperset checks before it builds a result:
\* superset at board level, then at SoC level on every board of sub.
IsSupersetBD(src, sub) ==
    /\ BoardSet(sub) \subseteq BoardSet(src)
    /\ \A b \in BoardSet(sub) : sub[b] \subseteq OrinSetOf(src, b)

\* DifferenceFromSuperset, when defined: boards of src absent from sub are
\* copied, boards of both get the SoC-level difference (emptied boards stay).
DifferenceFromSuperset(src, sub) ==
    [b \in BoardSet(src) |->
        IF b \in BoardSet(sub) THEN src[b] \ sub[b] ELSE src[b]]

\* BoardDetails.Add(boardID, od): insert a new board, or union the SoCs
\* into the existing one.
AddBD(d, b, socs) ==
    IF b \in DOMAIN d
    THEN [d EXCEPT ![b] = @ \cup socs]
    ELSE [x \in DOMAIN d \cup {b} |-> IF x = b THEN socs ELSE d[x]]

=============================================================================
