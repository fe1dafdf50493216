---------------------------- MODULE ScheduleCache ----------------------------
(***************************************************************************)
(* NodeInfo and scheduleCache of pkg/scheduler/manager/cache.go.          *)
(*                                                                         *)
(* Every operation is an operator from a cache value to a record          *)
(* [c |-> new cache, ok |-> returned error = nil], so that a caller that   *)
(* makes two calls in one handler (assignPod: AddNode then AddPod; Bind:   *)
(* ForgetPod then an API write) composes them in one action.              *)
(*                                                                         *)
(* A cache value has                                                      *)
(*   nodeCache : node name -> the NodeInfo object it points to (a gen),    *)
(*   infos     : gen -> NodeInfo, every object ever built.  Bind keeps a   *)
(*               *NodeInfo across API calls; when AddNode or UpdateNode    *)
(*               replaces the map entry the old object lives on, frozen,   *)
(*               and the holder keeps reading it,                          *)
(*   podMaps, assumePods, releasedPod : sets of pod UIDs (only the keys    *)
(*               of these Go maps are ever read).                          *)
(* A NodeInfo has total, requested, allocatable (BoardDetails, see Topo)   *)
(* and pods: UID -> the board annotation of the stored pod object, and    *)
(* amap, awrites: which Go map object Allocatable is (the number of times *)
(* the NodeInfo replaced it by a fresh map) and how many in-place writes  *)
(* that object has had; Predicate iterates it without the lock.            *)
(* A pod object passed in is [uid, node, board]: its UID, Spec.NodeName    *)
(* (NoNode for "") and its BindToBoard annotation (NoBoard when absent).   *)
(***************************************************************************)
EXTENDS Integers, FiniteSets, TLC, Topo, DecimalMap

CONSTANTS
    Pods,       \* pod UIDs
    Request,    \* Request[p]: BuildRequestOrinSet(pod), the SoC IDs it asks for
    NoNode,     \* Spec.NodeName = ""
    NoBoard     \* no BindToBoard annotation

DefaultOrinStartBit == 1

Result(c, ok) == [c |-> c, ok |-> ok]

EmptyNodeInfo(total) ==
    [total |-> total, requested |-> NewBoardDetails,
     allocatable |-> total, pods |-> [q \in {} |-> NoBoard],
     amap |-> 0, awrites |-> 0]

-----------------------------------------------------------------------------
(* NodeInfo methods: operators from a NodeInfo to [ni, ok].               *)

NIResult(ni, ok) == [ni |-> ni, ok |-> ok]

\* Fault-injection variants of deletePod (see the mutants of the runs):
\* releasing without adding the SoCs back to Allocatable, and releasing
\* without dropping the pod from Pods.
deletePodNoRestore(ni, pod) ==
    LET b == pod.board
        release == [x \in {b} |-> Request[pod.uid]]
    IN IF b = NoBoard \/ pod.uid \notin DOMAIN ni.pods \/ ~IsSupersetBD(ni.requested, release)
       THEN NIResult(ni, b = NoBoard)
       ELSE NIResult([ni EXCEPT !.requested = DifferenceFromSuperset(ni.requested, release),
                                !.pods = [q \in DOMAIN ni.pods \ {pod.uid} |-> ni.pods[q]]], TRUE)

deletePodKeepsEntry(ni, pod) ==
    LET b == pod.board
        release == [x \in {b} |-> Request[pod.uid]]
    IN IF b = NoBoard \/ pod.uid \notin DOMAIN ni.pods \/ ~IsSupersetBD(ni.requested, release)
       THEN NIResult(ni, b = NoBoard)
       ELSE NIResult([ni EXCEPT !.requested = DifferenceFromSuperset(ni.requested, release),
                                !.allocatable = AddBD(ni.allocatable, b, Request[pod.uid]),
                                !.awrites = @ + 1], TRUE)

\* deletePod: no annotation -> nil; not cached -> error; then subtract the
\* pod's SoCs from Requested (error if not a superset) and add them back
\* into Allocatable directly (the fast path), and drop the pod.
deletePod(ni, pod) ==
    LET b == pod.board
        release == [x \in {b} |-> Request[pod.uid]]
    IN IF b = NoBoard THEN NIResult(ni, TRUE)
       ELSE IF pod.uid \notin DOMAIN ni.pods THEN NIResult(ni, FALSE)
       ELSE IF ~IsSupersetBD(ni.requested, release) THEN NIResult(ni, FALSE)
       ELSE NIResult([ni EXCEPT
                        !.requested = DifferenceFromSuperset(ni.requested, release),
                        !.allocatable = AddBD(ni.allocatable, b, Request[pod.uid]),
                        !.awrites = @ + 1,
                        !.pods = [q \in DOMAIN ni.pods \ {pod.uid} |-> ni.pods[q]]],
                     TRUE)

\* Fault-injection variant of addPod: the pod's SoCs never reach Requested.
addPodDroppedUnion(ni, pod) ==
    LET b == pod.board
        n1 == IF pod.uid \in DOMAIN ni.pods THEN deletePod(ni, pod).ni ELSE ni
    IN IF b = NoBoard THEN NIResult(ni, TRUE)
       ELSE NIResult([n1 EXCEPT !.allocatable = DifferenceFromSuperset(n1.total, n1.requested),
                                !.amap = @ + 1,
                                !.pods = (pod.uid :> b) @@ n1.pods], TRUE)

\* addPod: no annotation -> nil; an already cached pod is first deleted
\* (with the annotation of the new object); the pod's SoCs are unioned
\* into Requested[board] in place; then Allocatable = Total - Requested, and
\* when that fails the error is returned with Requested already changed.
addPod(ni, pod) ==
    LET b == pod.board
        del == IF pod.uid \in DOMAIN ni.pods THEN deletePod(ni, pod)
               ELSE NIResult(ni, TRUE)
        n1 == del.ni
        req == AddBD(n1.requested, b, Request[pod.uid])
    IN IF b = NoBoard THEN NIResult(ni, TRUE)
       ELSE IF ~del.ok THEN del
       ELSE IF ~IsSupersetBD(n1.total, req)
            THEN NIResult([n1 EXCEPT !.requested = req], FALSE)
       ELSE NIResult([n1 EXCEPT
                        !.requested = req,
                        !.allocatable = DifferenceFromSuperset(n1.total, req),
                        !.amap = @ + 1,
                        !.pods = (pod.uid :> b) @@ n1.pods],
                     TRUE)

\* The Total of NewNodeInfo: each capacity key board-<id> whose value
\* parses as a decimal map gives board id with the parsed SoC set; a value
\* that does not parse is skipped.  cap: board ID -> int64 quantity.
TotalFromCapacity(cap) ==
    LET good == {b \in DOMAIN cap : Parse(cap[b], DefaultOrinStartBit).ok}
    IN [b \in good |-> Parse(cap[b], DefaultOrinStartBit).set]

\* NewNodeInfo replays addPod over the given pods, ignoring errors.  The
\* lister returns them in map order; the model replays them in one fixed
\* order.
RECURSIVE ReplayPods(_, _)
ReplayPods(ni, pods) ==
    IF pods = {} THEN ni
    ELSE LET pod == CHOOSE x \in pods : TRUE
         IN ReplayPods(addPod(ni, pod).ni, pods \ {pod})

NewNodeInfo(cap, pods) == ReplayPods(EmptyNodeInfo(TotalFromCapacity(cap)), pods)

-----------------------------------------------------------------------------
(* scheduleCache methods.  Each runs under c.mu, so each is one step.     *)

NewScheduleCache ==
    [nodeCache |-> [n \in {} |-> 0], infos |-> [g \in {} |-> EmptyNodeInfo(NewBoardDetails)],
     podMaps |-> {}, assumePods |-> {}, releasedPod |-> {}]

GetNodeGen(c, n) == IF n \in DOMAIN c.nodeCache THEN c.nodeCache[n] ELSE 0

SetInfo(c, g, ni) == [c EXCEPT !.infos[g] = ni]

\* Store a freshly built NodeInfo object under node name n.
PutNode(c, n, ni) ==
    LET g == Cardinality(DOMAIN c.infos) + 1
    IN [c EXCEPT !.infos = (g :> ni) @@ c.infos,
                 !.nodeCache = (n :> g) @@ c.nodeCache]

CacheAddPod(c, pod) ==
    LET g == GetNodeGen(c, pod.node)
        r == addPod(c.infos[g], pod)
    IN IF pod.node = NoNode \/ pod.board = NoBoard THEN Result(c, TRUE)
       ELSE IF pod.uid \in c.podMaps THEN Result(c, TRUE)
       ELSE IF g = 0 THEN Result(c, TRUE)
       ELSE IF ~r.ok THEN Result(SetInfo(c, g, r.ni), FALSE)
       ELSE Result([SetInfo(c, g, r.ni) EXCEPT !.podMaps = @ \cup {pod.uid}], TRUE)

CacheDeletePod(c, pod) ==
    LET g == GetNodeGen(c, pod.node)
        r == deletePod(c.infos[g], pod)
    IN IF pod.node = NoNode \/ pod.board = NoBoard THEN Result(c, TRUE)
       ELSE IF g = 0 THEN Result(c, TRUE)
       ELSE IF ~r.ok THEN Result(c, FALSE)
       ELSE IF pod.uid \in c.podMaps
            THEN Result([SetInfo(c, g, r.ni) EXCEPT !.podMaps = @ \ {pod.uid},
                                                    !.releasedPod = @ \cup {pod.uid}], TRUE)
       ELSE Result(SetInfo(c, g, r.ni), TRUE)

CacheAddNode(c, n, cap, pods) == Result(PutNode(c, n, NewNodeInfo(cap, pods)), TRUE)

\* Fault-injection variants of UpdateNode: Allocatable taken as the new
\* Total without subtracting Requested, and the new NodeInfo built
\* without replaying the listed pods.
CacheUpdateNodeNoSubtract(c, n, oldCap, newCap, pods) ==
    LET oldNi == NewNodeInfo(oldCap, pods)
        newNi == NewNodeInfo(newCap, pods)
    IN IF BDEqual(oldNi.total, newNi.total) THEN Result(c, TRUE)
       ELSE Result(PutNode(c, n, [newNi EXCEPT !.requested = oldNi.requested,
                                               !.allocatable = newNi.total,
                                               !.amap = @ + 1]), TRUE)

CacheUpdateNodeWithoutPods(c, n, oldCap, newCap, pods) ==
    LET oldNi == NewNodeInfo(oldCap, pods)
        newNi == NewNodeInfo(newCap, {})
    IN IF BDEqual(oldNi.total, newNi.total) THEN Result(c, TRUE)
       ELSE Result(PutNode(c, n, [newNi EXCEPT !.requested = oldNi.requested,
               !.allocatable = IF IsSupersetBD(newNi.total, oldNi.requested)
                               THEN DifferenceFromSuperset(newNi.total, oldNi.requested)
                               ELSE NewBoardDetails,
               !.amap = @ + 1]), TRUE)

\* UpdateNode rebuilds both the old and the new NodeInfo from the listed
\* pods; when their Totals differ the new one takes the old one's Requested
\* and Allocatable = Total - Requested, or empty when that is undefined.
CacheUpdateNode(c, n, oldCap, newCap, pods) ==
    LET oldNi == NewNodeInfo(oldCap, pods)
        newNi == NewNodeInfo(newCap, pods)
        alloc == IF IsSupersetBD(newNi.total, oldNi.requested)
                 THEN DifferenceFromSuperset(newNi.total, oldNi.requested)
                 ELSE NewBoardDetails
    IN IF BDEqual(oldNi.total, newNi.total) THEN Result(c, TRUE)
       ELSE Result(PutNode(c, n, [newNi EXCEPT !.requested = oldNi.requested,
                                               !.allocatable = alloc,
                                               !.amap = @ + 1]), TRUE)

\* DeleteNode: the node's entry leaves nodeCache (a holder of its NodeInfo
\* keeps the object); an unknown node is an error.  podMaps is untouched.
CacheDeleteNode(c, n) ==
    IF n \notin DOMAIN c.nodeCache THEN Result(c, FALSE)
    ELSE Result([c EXCEPT !.nodeCache = [m \in DOMAIN @ \ {n} |-> @[m]]], TRUE)

\* Fault-injection variant of AssumePod: the pod is recorded in podMaps
\* and assumePods but its node's NodeInfo is left as it was.
CacheAssumePodOnCopy(c, pod, n) ==
    IF GetNodeGen(c, n) = 0 \/ pod.uid \in c.podMaps THEN Result(c, FALSE)
    ELSE Result([c EXCEPT !.assumePods = @ \cup {pod.uid},
                          !.podMaps = @ \cup {pod.uid}], TRUE)

CacheAssumePod(c, pod, n) ==
    LET g == GetNodeGen(c, n)
        r == addPod(c.infos[g], pod)
    IN IF g = 0 THEN Result(c, FALSE)
       ELSE IF pod.uid \in c.podMaps THEN Result(c, FALSE)
       ELSE IF ~r.ok THEN Result(SetInfo(c, g, r.ni), FALSE)
       ELSE Result([SetInfo(c, g, r.ni) EXCEPT !.assumePods = @ \cup {pod.uid},
                                               !.podMaps = @ \cup {pod.uid}], TRUE)

\* ForgetPod removes the pod from its node but leaves podMaps and
\* assumePods as they are.
CacheForgetPod(c, pod, n) ==
    LET g == GetNodeGen(c, n)
        r == deletePod(c.infos[g], pod)
    IN IF g = 0 THEN Result(c, FALSE)
       ELSE IF pod.uid \notin c.podMaps THEN Result(c, FALSE)
       ELSE IF ~r.ok THEN Result(c, FALSE)
       ELSE Result(SetInfo(c, g, r.ni), TRUE)

KnownPod(c, uid) == uid \in c.podMaps

=============================================================================
