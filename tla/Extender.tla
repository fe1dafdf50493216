------------------------------ MODULE Extender ------------------------------
(***************************************************************************)
(* Manager.Predicate and Manager.Priority (manager.go), the extender       *)
(* endpoints of kube-scheduler (routes/predicates.go, priorities.go).      *)
(* Predicate fans the node list out with Parallelize (util.go): the        *)
(* pieces 0..N-1 sit in a buffered channel, min(16, N) goroutines take     *)
(* them in channel order and run checkNodes, which appends a passing node  *)
(* at the slot atomic.AddInt32 hands out and records a failing one in      *)
(* failNodes under a mutex; the call returns after wg.Wait().  Priority    *)
(* writes scores[i] for its own index only, so its fan-out order cannot    *)
(* matter and its result is an operator of the cache.                      *)
(***************************************************************************)
EXTENDS Integers, Sequences, FiniteSets, Allocator

CONSTANTS
    NodeList,     \* the node names kube-scheduler passes, a sequence
    Request,      \* BuildRequestOrinSet(pod)
    AllocChoices, \* the cached Allocatable a node may have
    NotInCache,   \* GetNode returned nil
    EmptyName     \* the zero value "" of a string slot

ASSUME NotInCache \notin AllocChoices

N == Len(NodeList)

\* Parallelize(16, N, ...): min(workers, pieces) goroutines.
Workers == 1 .. (IF N < 16 THEN N ELSE 16)

NoPiece == -1

VARIABLES
    alloc,        \* node name -> its cached Allocatable, or NotInCache
    next,         \* the next piece the channel hands out
    held,         \* goroutine -> the piece it is working on, or NoPiece
    filteredLen,  \* the counter of atomic.AddInt32
    filterdNodes, \* the slice make([]string, N): slot -> node name
    failNodes     \* the names recorded in the failNodes map

vars == <<alloc, next, held, filteredLen, filterdNodes, failNodes>>

NodeNames == {NodeList[i] : i \in 1..N}

Init ==
    /\ alloc \in [NodeNames -> AllocChoices \cup {NotInCache}]
    /\ next = 0
    /\ held = [w \in Workers |-> NoPiece]
    /\ filteredLen = 0
    /\ filterdNodes = [i \in 0..N-1 |-> EmptyName]
    /\ failNodes = {}

\* A goroutine receives the next piece from the channel.
TakePiece(w) ==
    /\ held[w] = NoPiece /\ next < N
    /\ held' = [held EXCEPT ![w] = next]
    /\ next' = next + 1
    /\ UNCHANGED <<alloc, filteredLen, filterdNodes, failNodes>>

\* The allocator's answer for a node: BoardIDNotFount unless a board fits.
Fits(n) == alloc[n] # NotInCache /\ BinpackBoards(alloc[n], Request) # {}

\* Fault-injection variant of checkNodes: the slot index is read without
\* the atomic increment, so passing nodes share slot 0.
CheckNodesNoIncrement(w) ==
    /\ held[w] # NoPiece
    /\ LET name == NodeList[held[w] + 1]
       IN IF Fits(name)
          THEN /\ filterdNodes' = [filterdNodes EXCEPT ![filteredLen] = name]
               /\ UNCHANGED <<filteredLen, failNodes>>
          ELSE /\ failNodes' = failNodes \cup {name}
               /\ UNCHANGED <<filteredLen, filterdNodes>>
    /\ held' = [held EXCEPT ![w] = NoPiece]
    /\ UNCHANGED <<alloc, next>>

\* checkNodes(i): GetNode, Allocate, then record the node.
CheckNodes(w) ==
    /\ held[w] # NoPiece
    /\ LET name == NodeList[held[w] + 1]
       IN IF Fits(name)
          THEN /\ filterdNodes' = [filterdNodes EXCEPT ![filteredLen] = name]
               /\ filteredLen' = filteredLen + 1
               /\ UNCHANGED failNodes
          ELSE /\ failNodes' = failNodes \cup {name}
               /\ UNCHANGED <<filteredLen, filterdNodes>>
    /\ held' = [held EXCEPT ![w] = NoPiece]
    /\ UNCHANGED <<alloc, next>>

\* wg.Wait() has returned: every piece taken and every goroutine done.
Returned == next = N /\ \A w \in Workers : held[w] = NoPiece

\* Predicate returns the whole slice: (filterdNodes, failNodes, nil).
PredicateResult == [i \in 1..N |-> filterdNodes[i - 1]]

\* Priority: the allocator's score for a node that fits, 0 otherwise, then
\* Normalize(10, scores).
RawScore(n) == IF Fits(n) THEN BinpackScore(alloc[n], Request) ELSE 0

PriorityResult == Normalize(10, [i \in 1..N |-> RawScore(NodeList[i])])

\* kube-scheduler's next Predicate call, for a cache that may have changed
\* in between: a fresh slice, counter, map and channel.
NewCall ==
    /\ Returned
    /\ alloc' \in [NodeNames -> AllocChoices \cup {NotInCache}]
    /\ next' = 0
    /\ filteredLen' = 0
    /\ filterdNodes' = [i \in 0..N-1 |-> EmptyName]
    /\ failNodes' = {}
    /\ UNCHANGED held

Next == NewCall \/ \E w \in Workers : TakePiece(w) \/ CheckNodes(w)

\* Only safety is checked: Parallelize fills and closes the channel before
\* the goroutines start, so the fan-out ends by construction.
Spec == Init /\ [][Next]_vars

-----------------------------------------------------------------------------
(* Properties.                                                             *)

\* Predicate is complete: once the fan-out has returned, the slots
\* 0..filteredLen-1 hold every node whose cached Allocatable has a fitting
\* board, each exactly once (as many slots as fitting nodes), the other
\* slots are still empty, and every other node is in failNodes: no two
\* concurrent checkNodes wrote the same slot or lost a node.
PredicateComplete ==
    LET fitting == {n \in NodeNames : Fits(n)}
    IN Returned =>
        /\ filteredLen = Cardinality(fitting)
        /\ {filterdNodes[i] : i \in 0..filteredLen-1} = fitting
        /\ \A i \in filteredLen..N-1 : filterdNodes[i] = EmptyName
        /\ failNodes = {n \in NodeNames : ~Fits(n)}

\* Predicate soundness (spec, section 7): every name Predicate returns is a
\* node on which some board holds the request.
PredicateSound ==
    Returned => \A i \in 1..N : PredicateResult[i] \in NodeNames /\ Fits(PredicateResult[i])

\* Priority normalisation (spec, section 7): after Normalize every score
\* lies in 0..maxPriority and the largest is 0 or maxPriority.
PriorityNormalised ==
    LET s == PriorityResult
    IN /\ \A i \in 1..N : s[i] \in 0..10
       /\ \E i \in 1..N : s[i] = 10 \/ \A j \in 1..N : s[j] = 0

=============================================================================
