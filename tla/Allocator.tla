------------------------------ MODULE Allocator ------------------------------
(***************************************************************************)
(* The binpack policy of pkg/scheduler/manager/allocator.go and the score  *)
(* normalisation of util.go.  Allocate iterates a Go map, whose order is   *)
(* unspecified: with the strict "<" the first board of minimal size met    *)
(* wins, so every board of minimal size is a possible answer.              *)
(***************************************************************************)
EXTENDS Integers, FiniteSets, Sequences, Topo

BoardIDNotFount == -1

\* The boards whose available SoCs cover the request.
FittingBoards(canAlloc, orinRequest) ==
    {b \in DOMAIN canAlloc : orinRequest \subseteq canAlloc[b]}

\* BinpackAllocator.Allocate, board part: the fitting boards with the
\* fewest available SoCs ({} when none fits, i.e. boardID = -1).
BinpackBoards(canAlloc, orinRequest) ==
    LET fits == FittingBoards(canAlloc, orinRequest)
    IN {b \in fits : \A c \in fits :
            Cardinality(canAlloc[b]) <= Cardinality(canAlloc[c])}

\* math.MaxInt, the initial bestFitBoardScore: any value above every board
\* size makes the same comparisons, so TLC's largest integer stands for it.
GoMaxInt == 2147483647

\* The loop of BinpackAllocator.Allocate over canAlloc in one iteration
\* order: a board whose available SoCs cover the request replaces the best
\* one only when it has strictly fewer available SoCs.
RECURSIVE BinpackLoop(_, _, _, _, _)
BinpackLoop(canAlloc, orinRequest, order, bestID, bestScore) ==
    IF order = <<>> THEN bestID
    ELSE LET b == Head(order)
             tmpScore == Cardinality(canAlloc[b])
         IN IF orinRequest \subseteq canAlloc[b] /\ tmpScore < bestScore
            THEN BinpackLoop(canAlloc, orinRequest, Tail(order), b, tmpScore)
            ELSE BinpackLoop(canAlloc, orinRequest, Tail(order), bestID, bestScore)

\* Fault-injection variant: bestFitBoardScore starts at 0.
BinpackAllocateZeroStart(canAlloc, orinRequest, order) ==
    BinpackLoop(canAlloc, orinRequest, order, BoardIDNotFount, 0)

\* Allocate's board choice for one iteration order of the map.
BinpackAllocate(canAlloc, orinRequest, order) ==
    BinpackLoop(canAlloc, orinRequest, order, BoardIDNotFount, GoMaxInt)

\* BinpackAllocator.Allocate, score part: 100 minus every available SoC of
\* the node when some board fits, 0 otherwise.
RECURSIVE SumSizes(_, _)
SumSizes(d, bs) ==
    IF bs = {} THEN 0
    ELSE LET b == CHOOSE x \in bs : TRUE
         IN Cardinality(d[b]) + SumSizes(d, bs \ {b})

BinpackScore(canAlloc, orinRequest) ==
    IF BinpackBoards(canAlloc, orinRequest) = {} THEN 0
    ELSE 100 - SumSizes(canAlloc, DOMAIN canAlloc)

\* Normalize(maxPriority, scores): maxCount starts at 0, so only positive
\* scores raise it; when it stays 0 the scores are returned unchanged;
\* otherwise each becomes maxPriority * score / maxCount (Go division
\* truncates toward zero, TLA+ \div floors: they differ for negatives).
GoDiv(a, b) == IF a >= 0 THEN a \div b ELSE -((-a) \div b)

\* Fault-injection variant of Normalize: the search for maxCount stops
\* one index early.
NormalizeSkipsLast(maxPriority, scores) ==
    LET head == {i \in DOMAIN scores : i < Len(scores)}
        maxCount == IF \E i \in head : scores[i] > 0
                    THEN CHOOSE m \in {scores[i] : i \in head} :
                            \A i \in head : scores[i] <= m
                    ELSE 0
    IN IF maxCount = 0 THEN scores
       ELSE [i \in DOMAIN scores |-> GoDiv(maxPriority * scores[i], maxCount)]

Normalize(maxPriority, scores) ==
    LET maxCount == IF \E i \in DOMAIN scores : scores[i] > 0
                    THEN CHOOSE m \in {scores[i] : i \in DOMAIN scores} :
                            \A i \in DOMAIN scores : scores[i] <= m
                    ELSE 0
    IN IF maxCount = 0 THEN scores
       ELSE [i \in DOMAIN scores |-> GoDiv(maxPriority * scores[i], maxCount)]

=============================================================================
