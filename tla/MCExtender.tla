----------------------------- MODULE MCExtender -----------------------------
(***************************************************************************)
(* Three nodes, a request for SoC 1, and cached Allocatables: one board    *)
(* with SoC 1, two boards with SoC 1 among more, a board without SoC 1,    *)
(* or the node missing from the cache.                                     *)
(***************************************************************************)
EXTENDS Extender

LOCAL Seqs == INSTANCE SequencesExt

CONSTANTS a, b, c

MCNodeList == <<a, b, c>>
MCRequest == {1}
MCAllocChoices == {(0 :> {1}), (0 :> {1, 2}) @@ (1 :> {1}), (0 :> {2})}

\* Inputs of the allocator reference check: every available-SoC map over
\* boards 0..2 with SoCs from {1, 2}, and every request from {1, 2}.
MCCanAllocs == UNION {[D -> SUBSET {1, 2}] : D \in SUBSET {0, 1, 2}}

\* Binpack reference check: for the cached Allocatable of every node in
\* the cache and for every small map, and every request, the boards the Go
\* loop of BinpackAllocator.Allocate returns over all iteration orders of
\* the map are exactly the fitting boards with the fewest available SoCs,
\* the choice Extender uses, and -1 when no board fits.
BinpackMatchesReference ==
    \A ca \in MCCanAllocs \cup {alloc[n] : n \in {m \in NodeNames : alloc[m] # NotInCache}},
       req \in SUBSET {1, 2} :
        {BinpackAllocate(ca, req, o) : o \in Seqs!SetToSeqs(DOMAIN ca)}
            = IF BinpackBoards(ca, req) = {} THEN {BoardIDNotFount}
              ELSE BinpackBoards(ca, req)

=============================================================================
