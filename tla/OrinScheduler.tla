---------------------------- MODULE OrinScheduler ----------------------------
(***************************************************************************)
(* The scheduler extender of cmd/scheduler: the schedule cache            *)
(* (ScheduleCache), Manager.Bind (manager.go), the Controller's informer   *)
(* handlers and work-queue workers (controller.go), and the environment   *)
(* they talk to: the API server's pod and node objects, the watch streams *)
(* that feed the informers, kube-scheduler (Predicate then Bind), the     *)
(* kubelet completing pods, users deleting them, and the device plugin    *)
(* republishing a node's board capacity.                                  *)
(*                                                                         *)
(* A pod object (API, watch event, lister) is a record                    *)
(*   [exists, node, board, done, rv]:                                      *)
(* whether it exists, Spec.NodeName, the BindToBoard annotation,          *)
(* IsCompletedPod (phase Succeeded/Failed or a deletion timestamp) and     *)
(* its resourceVersion.  A node object is its board capacity: board ID ->  *)
(* the int64 decimal map the device plugin publishes.                     *)
(***************************************************************************)
EXTENDS Integers, Sequences, FiniteSets, TLC, ScheduleCache, Allocator

CONSTANTS
    Nodes,          \* node names
    InitCapacity,   \* InitCapacity[n]: board ID -> decimal map, as first published
    AltCapacity,    \* AltCapacity[n]: capacities the device plugin may republish
    Enabled,        \* environment behaviours switched on for a run, a subset of
                    \*   {"ConcurrentBind", "ApiError", "DeleteDuringBind",
                    \*    "CapacityChange", "Relist", "Restart", "NodeDelete"}
    MaxBindCalls,   \* bound on kube-scheduler's Bind calls per pod
    MaxCapChanges,  \* bound on capacity republications
    MaxRestarts     \* bound on restarts of the scheduler process

ASSUME
    /\ NoNode \notin Nodes
    /\ \A p \in Pods : Request[p] # {}
    /\ MaxBindCalls \in Nat /\ MaxCapChanges \in Nat /\ MaxRestarts \in Nat

\* retry.Attempts(3) in Manager.Bind.
BindAttempts == 3

VARIABLES
    apiPod,      \* the API server's pod objects
    podWatch,    \* per pod, the watch events not yet delivered to the informer
    lister,      \* the pod informer's store (podLister)
    queue,       \* podQueue: keys waiting for syncPod
    apiNode,     \* the API server's node capacities
    nodeState,   \* per node: "live", "deleting" (DeletionTimestamp set) or "gone"
    nodeWatch,   \* per node, undelivered node events
    nodeLister,  \* the node informer's store: known node -> capacity
    cache,       \* the scheduleCache (see ScheduleCache)
    bind,        \* per pod, the state of an in-flight Manager.Bind call
    sched,       \* per pod, the node kube-scheduler chose after Predicate
    bindCalls,   \* per pod, Bind calls made so far
    lastBind,    \* per pod, the result of its last finished Bind call
    capChanges,  \* capacity republications so far
    reading,     \* per pod, the node whose Allocatable Predicate is iterating
    started,     \* NewController returned: workers and the HTTP server are running
    restarts     \* restarts of the scheduler process so far

vars == <<apiPod, podWatch, lister, queue, apiNode, nodeState, nodeWatch, nodeLister,
          cache, bind, sched, bindCalls, lastBind, capChanges, reading,
          started, restarts>>

PodRec == [exists : BOOLEAN, node : Nodes \cup {NoNode},
           board : Int \cup {NoBoard}, done : BOOLEAN, rv : Nat]

AbsentPod == [exists |-> FALSE, node |-> NoNode, board |-> NoBoard, done |-> FALSE, rv |-> 0]

IdleBind == [pc |-> "idle", node |-> NoNode, gen |-> 0, attempt |-> 0,
             board |-> NoBoard, fetched |-> AbsentPod]

\* The pod object handed to a cache operation.
PodObj(p, rec) == [uid |-> p, node |-> rec.node, board |-> rec.board]

\* Outcomes of an API call: it may fail only in runs that allow it.
ApiOutcomes == IF "ApiError" \in Enabled THEN BOOLEAN ELSE {TRUE}

\* A node watch event: the node object's capacity, whether its
\* DeletionTimestamp is set, and whether it is the delete event (which
\* carries the final object).
NodeEvent(cap, del) == [gone |-> FALSE, deleting |-> del, cap |-> cap]
NodeDeleted(cap) == [gone |-> TRUE, deleting |-> TRUE, cap |-> cap]

NodeAlloc(n) == cache.infos[GetNodeGen(cache, n)].allocatable

\* No Predicate read in progress for the pod.
NoRead == [node |-> NoNode, gen |-> 0, amap |-> 0, awrites |-> 0, fits |-> FALSE]

-----------------------------------------------------------------------------
(* API server writes: every change of a pod is also a watch event.        *)

ApiWrite(p, rec) ==
    /\ apiPod' = [apiPod EXCEPT ![p] = rec]
    /\ podWatch' = [podWatch EXCEPT ![p] = Append(@, rec)]

Init ==
    /\ apiPod = [p \in Pods |-> [exists |-> TRUE, node |-> NoNode, board |-> NoBoard,
                                 done |-> FALSE, rv |-> 1]]
    /\ podWatch = [p \in Pods |-> <<apiPod[p]>>]
    /\ lister = [p \in Pods |-> AbsentPod]
    /\ queue = {}
    /\ apiNode = InitCapacity
    /\ nodeState = [n \in Nodes |-> "live"]
    /\ nodeWatch = [n \in Nodes |-> <<NodeEvent(InitCapacity[n], FALSE)>>]
    /\ nodeLister = [n \in {} |-> InitCapacity[n]]
    /\ cache = NewScheduleCache
    /\ bind = [p \in Pods |-> IdleBind]
    /\ sched = [p \in Pods |-> NoNode]
    /\ bindCalls = [p \in Pods |-> 0]
    /\ lastBind = [p \in Pods |-> "none"]
    /\ capChanges = 0
    /\ reading = [p \in Pods |-> NoRead]
    /\ started = FALSE
    /\ restarts = 0

-----------------------------------------------------------------------------
(* Controller: informer handlers and syncPod.                             *)

\* getActivePodInNode: listed pods on the node, not completed, annotated.
ActivePods(n) ==
    {PodObj(p, lister[p]) :
        p \in {q \in Pods : /\ lister[q].exists /\ lister[q].node = n
                            /\ ~lister[q].done /\ lister[q].board # NoBoard}}

\* Fault-injection variant of the pod handlers: the update handler never
\* enqueues the pod.
HandlePodEventNoRequeue(p, old, new, gone) ==
    \/ /\ ~old.exists /\ new.exists
       /\ queue' = queue \cup {p}
       /\ UNCHANGED cache
    \/ /\ old.exists /\ new.exists
       /\ UNCHANGED <<queue, cache>>
    \/ /\ old.exists /\ ~new.exists
       /\ cache' = CacheDeletePod(cache, PodObj(p, gone)).c
       /\ UNCHANGED queue
    \/ /\ ~old.exists /\ ~new.exists
       /\ UNCHANGED <<queue, cache>>

\* Fault-injection variant of the pod handlers: the add handler does not
\* enqueue the pod.
HandlePodEventAddIgnored(p, old, new, gone) ==
    \/ /\ ~old.exists /\ new.exists
       /\ UNCHANGED <<queue, cache>>
    \/ /\ old.exists /\ new.exists
       /\ queue' = IF KnownPod(cache, p) /\ new.done /\ new.board # NoBoard
                   THEN queue \cup {p} ELSE queue
       /\ UNCHANGED cache
    \/ /\ old.exists /\ ~new.exists
       /\ cache' = CacheDeletePod(cache, PodObj(p, gone)).c
       /\ UNCHANGED queue
    \/ /\ ~old.exists /\ ~new.exists
       /\ UNCHANGED <<queue, cache>>

\* The pod handlers, for an event taking the store from old to new;
\* gone is the object a delete handler receives.
\* addPodToCache enqueues; updatePodInCache enqueues only a known pod that
\* has just completed and carries a board; deletePodFromCache releases
\* the pod synchronously, ignoring the error.
HandlePodEvent(p, old, new, gone) ==
    \/ /\ ~old.exists /\ new.exists
       /\ queue' = queue \cup {p}
       /\ UNCHANGED cache
    \/ /\ old.exists /\ new.exists
       /\ queue' = IF KnownPod(cache, p) /\ new.done /\ new.board # NoBoard
                   THEN queue \cup {p} ELSE queue
       /\ UNCHANGED cache
    \/ /\ old.exists /\ ~new.exists
       /\ cache' = CacheDeletePod(cache, PodObj(p, gone)).c
       /\ UNCHANGED queue
    \/ /\ ~old.exists /\ ~new.exists
       /\ UNCHANGED <<queue, cache>>

\* The watch delivers the next change; a delete event carries the final
\* object.
PodWatchEvent(p) ==
    /\ podWatch[p] # <<>>
    /\ LET ev == Head(podWatch[p])
       IN /\ HandlePodEvent(p, lister[p], ev, ev)
          /\ lister' = [lister EXCEPT ![p] = ev]
    /\ podWatch' = [podWatch EXCEPT ![p] = Tail(@)]
    /\ UNCHANGED <<apiPod, apiNode, nodeState, nodeWatch, nodeLister, bind, sched,
                   bindCalls, lastBind, capChanges, reading, started, restarts>>

\* After a broken watch the informer relists: intermediate changes are
\* skipped, and a vanished pod is deleted as DeletedFinalStateUnknown with
\* the last object the store had.
PodRelist(p) ==
    /\ "Relist" \in Enabled
    /\ podWatch[p] # <<>>
    /\ LET ev == podWatch[p][Len(podWatch[p])]
       IN /\ HandlePodEvent(p, lister[p], ev, lister[p])
          /\ lister' = [lister EXCEPT ![p] = ev]
    /\ podWatch' = [podWatch EXCEPT ![p] = <<>>]
    /\ UNCHANGED <<apiPod, apiNode, nodeState, nodeWatch, nodeLister, bind, sched,
                   bindCalls, lastBind, capChanges, reading, started, restarts>>

\* assignPod: a pod without a board is ignored; a node missing from the
\* cache is fetched and, unless the Get fails (getOk is FALSE, or the node
\* is gone), hydrated with its active pods; a failed Get is only logged,
\* and AddPod then fails on the missing node.
AssignPod(c, pod, getOk) ==
    LET c1 == IF GetNodeGen(c, pod.node) = 0 /\ nodeState[pod.node] # "gone" /\ getOk
              THEN CacheAddNode(c, pod.node, apiNode[pod.node], ActivePods(pod.node)).c
              ELSE c
    IN IF pod.board = NoBoard THEN Result(c, TRUE) ELSE CacheAddPod(c1, pod)

\* processNextWorkItem + syncPod on the listed object: gone -> nothing;
\* completed -> DeletePod, error only logged; unscheduled -> nothing;
\* else assignPod, whose error puts the key back (AddRateLimited).
SyncPod(p) ==
    /\ started
    /\ p \in queue
    /\ \E getOk \in ApiOutcomes :
       LET pod == lister[p]
           r == AssignPod(cache, PodObj(p, pod), getOk)
       IN IF ~pod.exists THEN /\ queue' = queue \ {p}
                              /\ UNCHANGED cache
          ELSE IF pod.done THEN /\ cache' = CacheDeletePod(cache, PodObj(p, pod)).c
                                /\ queue' = queue \ {p}
          ELSE IF pod.node = NoNode THEN /\ queue' = queue \ {p}
                                         /\ UNCHANGED cache
          ELSE /\ cache' = r.c
               /\ queue' = IF r.ok THEN queue \ {p} ELSE queue
    /\ UNCHANGED <<apiPod, podWatch, lister, apiNode, nodeState, nodeWatch, nodeLister,
                   bind, sched, bindCalls, lastBind, capChanges, reading, started, restarts>>

\* addNodeToCache / updateNodeInCache: DeleteNode for an object pending
\* deletion, else AddNode / UpdateNode with the node's active listed pods;
\* deleteNodeFromCache: DeleteNode.  DeleteNode's error is only logged.
NodeWatchEvent(n) ==
    /\ nodeWatch[n] # <<>>
    /\ LET ev == Head(nodeWatch[n])
       IN IF ev.gone
          THEN /\ cache' = CacheDeleteNode(cache, n).c
               /\ nodeLister' = [m \in DOMAIN nodeLister \ {n} |-> nodeLister[m]]
          ELSE /\ cache' = IF ev.deleting THEN CacheDeleteNode(cache, n).c
                           ELSE IF n \in DOMAIN nodeLister
                           THEN CacheUpdateNode(cache, n, nodeLister[n], ev.cap, ActivePods(n)).c
                           ELSE CacheAddNode(cache, n, ev.cap, ActivePods(n)).c
               /\ nodeLister' = (n :> ev.cap) @@ nodeLister
    /\ nodeWatch' = [nodeWatch EXCEPT ![n] = Tail(@)]
    /\ UNCHANGED <<apiPod, podWatch, lister, queue, apiNode, nodeState, bind, sched,
                   bindCalls, lastBind, capChanges, reading, started, restarts>>

\* NewController returns once WaitForCacheSync has seen the node informer
\* and then the pod informer synced (their initial lists delivered); main
\* then starts controller.Run (the syncPod workers) in a goroutine and at
\* once serves Predicate, Prioritize and Bind.  Nothing waits for the
\* workers to have replayed the listed pods into the cache.
CachesSynced ==
    /\ ~started
    /\ \A n \in Nodes : nodeWatch[n] = <<>>
    /\ \A p \in Pods : podWatch[p] = <<>>
    /\ started' = TRUE
    /\ UNCHANGED <<apiPod, podWatch, lister, queue, apiNode, nodeState, nodeWatch, nodeLister,
                   cache, bind, sched, bindCalls, lastBind, capChanges, reading,
                   restarts>>

\* The scheduler process exits and is started again: the cache, the
\* informer stores and the queue are in memory only and start empty; a
\* Bind in flight dies and kube-scheduler sees it fail.  The new informers
\* list what the API server holds now.
SchedulerRestart ==
    /\ "Restart" \in Enabled
    /\ restarts < MaxRestarts
    /\ podWatch' = [p \in Pods |-> IF apiPod[p].exists THEN <<apiPod[p]>> ELSE <<>>]
    /\ lister' = [p \in Pods |-> AbsentPod]
    /\ queue' = {}
    /\ nodeWatch' = [n \in Nodes |-> IF nodeState[n] = "gone" THEN <<>>
                                       ELSE <<NodeEvent(apiNode[n], nodeState[n] = "deleting")>>]
    /\ nodeLister' = [n \in {} |-> apiNode[n]]
    /\ cache' = NewScheduleCache
    /\ bind' = [p \in Pods |-> IdleBind]
    /\ lastBind' = [p \in Pods |-> IF bind[p].pc # "idle" THEN "failed" ELSE lastBind[p]]
    /\ sched' = [p \in Pods |-> NoNode]
    /\ reading' = [p \in Pods |-> NoRead]
    /\ started' = FALSE
    /\ restarts' = restarts + 1
    /\ UNCHANGED <<apiPod, apiNode, nodeState, bindCalls, capChanges>>

-----------------------------------------------------------------------------
(* kube-scheduler and Manager.Bind.                                       *)

BindUnchanged == UNCHANGED <<lister, queue, apiNode, nodeState, nodeWatch, nodeLister,
                             sched, bindCalls, capChanges, reading, started, restarts>>

\* Predicate's checkNodes for one node: ni := m.Cache.GetNode(node) under
\* the read lock, then allocator.Allocate(ni.Allocatable, ...) outside it.
\* The read of the map spans from FilterBegin to FilterEnd; its outcome is
\* that of the map as it was when the read began.
FilterBegin(p, n) ==
    /\ started
    /\ sched[p] = NoNode /\ bind[p].pc = "idle" /\ reading[p] = NoRead
    /\ apiPod[p].exists /\ apiPod[p].node = NoNode /\ ~apiPod[p].done
    /\ bindCalls[p] < MaxBindCalls
    /\ GetNodeGen(cache, n) # 0
    /\ LET ni == cache.infos[GetNodeGen(cache, n)]
       IN reading' = [reading EXCEPT ![p] =
                        [node |-> n, gen |-> GetNodeGen(cache, n), amap |-> ni.amap,
                         awrites |-> ni.awrites,
                         fits |-> BinpackBoards(ni.allocatable, Request[p]) # {}]]
    /\ UNCHANGED <<apiPod, podWatch, lister, queue, apiNode, nodeState, nodeWatch,
                   nodeLister, cache, bind, sched, bindCalls, lastBind, capChanges,
                   started, restarts>>

\* The read ends; kube-scheduler chooses the node when a board fitted.
FilterEnd(p) ==
    /\ reading[p] # NoRead
    /\ sched' = IF reading[p].fits THEN [sched EXCEPT ![p] = reading[p].node] ELSE sched
    /\ reading' = [reading EXCEPT ![p] = NoRead]
    /\ UNCHANGED <<apiPod, podWatch, lister, queue, apiNode, nodeState, nodeWatch,
                   nodeLister, cache, bind, bindCalls, lastBind, capChanges,
                   started, restarts>>

\* kube-scheduler calls Bind(node, ...): ni := m.GetNode(node), failing at
\* once when it is nil.  Unless the run allows it, Binds do not overlap.
BindStart(p) ==
    /\ started
    /\ sched[p] # NoNode /\ bind[p].pc = "idle"
    /\ "ConcurrentBind" \in Enabled \/ \A q \in Pods : bind[q].pc = "idle"
    /\ LET n == sched[p]
           g == GetNodeGen(cache, n)
       IN IF g = 0
          THEN /\ lastBind' = [lastBind EXCEPT ![p] = "failed"]
               /\ UNCHANGED bind
          ELSE /\ bind' = [bind EXCEPT ![p] = [IdleBind EXCEPT !.pc = "attempt",
                                  !.node = n, !.gen = g, !.attempt = 1]]
               /\ UNCHANGED lastBind
    /\ sched' = [sched EXCEPT ![p] = NoNode]
    /\ bindCalls' = [bindCalls EXCEPT ![p] = @ + 1]
    /\ UNCHANGED <<apiPod, podWatch, lister, queue, apiNode, nodeState, nodeWatch,
                   nodeLister, cache, capChanges, reading, started, restarts>>

\* Fault-injection variant of the retry loop: one attempt too many.
AttemptFailedExtraRetry(p) ==
    IF bind[p].attempt <= BindAttempts
    THEN /\ bind' = [bind EXCEPT ![p].pc = "attempt", ![p].attempt = @ + 1]
         /\ UNCHANGED lastBind
    ELSE /\ bind' = [bind EXCEPT ![p] = IdleBind]
         /\ lastBind' = [lastBind EXCEPT ![p] = "failed"]

\* An attempt of bindPod returned an error: retry.Do runs the next one, or
\* Bind returns the error after the last.
AttemptFailed(p) ==
    IF bind[p].attempt < BindAttempts
    THEN /\ bind' = [bind EXCEPT ![p].pc = "attempt", ![p].attempt = @ + 1]
         /\ UNCHANGED lastBind
    ELSE /\ bind' = [bind EXCEPT ![p] = IdleBind]
         /\ lastBind' = [lastBind EXCEPT ![p] = "failed"]

\* bindPod, first part: GetPodFromApiserver, then Allocate on the
\* Allocatable of the NodeInfo object Bind holds (read without the lock).
BindAllocate(p) ==
    /\ bind[p].pc = "attempt"
    /\ \E getOk \in ApiOutcomes :
         LET boards == BinpackBoards(cache.infos[bind[p].gen].allocatable, Request[p])
         IN IF ~getOk \/ ~apiPod[p].exists \/ boards = {}
            THEN AttemptFailed(p)
            ELSE /\ \E b \in boards :
                      bind' = [bind EXCEPT ![p].pc = "assume", ![p].board = b,
                                           ![p].fetched = apiPod[p]]
                 /\ UNCHANGED lastBind
    /\ UNCHANGED <<apiPod, podWatch, cache>>
    /\ BindUnchanged

\* AssumePod(AddPodBindAnnotation(pod, board), node) on the current entry.
BindAssume(p) ==
    /\ bind[p].pc = "assume"
    /\ LET newPod == [uid |-> p, node |-> bind[p].fetched.node, board |-> bind[p].board]
           r == CacheAssumePod(cache, newPod, bind[p].node)
       IN /\ cache' = r.c
          /\ IF r.ok THEN /\ bind' = [bind EXCEPT ![p].pc = "update"]
                          /\ UNCHANGED lastBind
                     ELSE AttemptFailed(p)
    /\ UNCHANGED <<apiPod, podWatch>>
    /\ BindUnchanged

\* Update(newPod): succeeds when the object is unchanged since the Get
\* (same resourceVersion).  On error, ForgetPod(pod, node) with the pod as
\* fetched, then the attempt fails.
BindUpdate(p) ==
    /\ bind[p].pc = "update"
    /\ \E wOk \in ApiOutcomes :
         LET b == bind[p]
         IN IF wOk /\ apiPod[p].exists /\ apiPod[p].rv = b.fetched.rv
            THEN /\ ApiWrite(p, [apiPod[p] EXCEPT !.board = b.board, !.rv = @ + 1])
                 /\ bind' = [bind EXCEPT ![p].pc = "binding"]
                 /\ UNCHANGED <<cache, lastBind>>
            ELSE /\ cache' = CacheForgetPod(cache, PodObj(p, b.fetched), b.node).c
                 /\ AttemptFailed(p)
                 /\ UNCHANGED <<apiPod, podWatch>>
    /\ BindUnchanged

\* The Binding to the node.  On error: ForgetPod(newPod, node), then
\* Update(RemovePodBindAnnotation(newPod)), where newPod still carries the
\* resourceVersion of the Get; Bind returns an error either way.
BindBinding(p) ==
    /\ bind[p].pc = "binding"
    /\ \E wOk \in ApiOutcomes, rOk \in ApiOutcomes :
         LET b == bind[p]
             newPod == [uid |-> p, node |-> b.fetched.node, board |-> b.board]
         IN IF wOk /\ apiPod[p].exists /\ apiPod[p].node = NoNode
            THEN /\ ApiWrite(p, [apiPod[p] EXCEPT !.node = b.node, !.rv = @ + 1])
                 /\ lastBind' = [lastBind EXCEPT ![p] = "ok"]
                 /\ UNCHANGED cache
            ELSE /\ cache' = CacheForgetPod(cache, newPod, b.node).c
                 /\ IF rOk /\ apiPod[p].exists /\ apiPod[p].rv = b.fetched.rv
                    THEN ApiWrite(p, [apiPod[p] EXCEPT !.board = NoBoard, !.rv = @ + 1])
                    ELSE UNCHANGED <<apiPod, podWatch>>
                 /\ lastBind' = [lastBind EXCEPT ![p] = "failed"]
    /\ bind' = [bind EXCEPT ![p] = IdleBind]
    /\ BindUnchanged

BindStep(p) == BindAllocate(p) \/ BindAssume(p) \/ BindUpdate(p) \/ BindBinding(p)

-----------------------------------------------------------------------------
(* The rest of the cluster.                                                *)

EnvUnchanged == UNCHANGED <<lister, queue, cache, bind, sched, bindCalls, lastBind,
                             reading, started, restarts>>

\* The kubelet finishes a bound pod (or a deletion timestamp is set).
PodComplete(p) ==
    /\ apiPod[p].exists /\ apiPod[p].node # NoNode /\ ~apiPod[p].done
    /\ ApiWrite(p, [apiPod[p] EXCEPT !.done = TRUE, !.rv = @ + 1])
    /\ UNCHANGED <<apiNode, nodeState, nodeWatch, nodeLister, capChanges>>
    /\ EnvUnchanged

\* A user deletes the pod; the delete event carries its final state.
PodDelete(p) ==
    /\ apiPod[p].exists
    /\ bind[p].pc = "idle" \/ "DeleteDuringBind" \in Enabled
    /\ ApiWrite(p, [apiPod[p] EXCEPT !.exists = FALSE, !.rv = @ + 1])
    /\ UNCHANGED <<apiNode, nodeState, nodeWatch, nodeLister, capChanges>>
    /\ EnvUnchanged

\* The device plugin republishes the node's boards (patchNodeExtraResource).
CapacityChange(n) ==
    /\ "CapacityChange" \in Enabled
    /\ capChanges < MaxCapChanges
    /\ nodeState[n] # "gone"
    /\ \E cap \in AltCapacity[n] \ {apiNode[n]} :
         /\ apiNode' = [apiNode EXCEPT ![n] = cap]
         /\ nodeWatch' = [nodeWatch EXCEPT ![n] = Append(@, NodeEvent(cap, nodeState[n] = "deleting"))]
    /\ capChanges' = capChanges + 1
    /\ UNCHANGED <<apiPod, podWatch, nodeLister, nodeState>>
    /\ EnvUnchanged

\* The node is deleted while a finalizer holds it: the API server sets its
\* DeletionTimestamp, an update event, and keeps serving the object.
NodeMarkDeleting(n) ==
    /\ "NodeDelete" \in Enabled
    /\ nodeState[n] = "live"
    /\ nodeState' = [nodeState EXCEPT ![n] = "deleting"]
    /\ nodeWatch' = [nodeWatch EXCEPT ![n] = Append(@, NodeEvent(apiNode[n], TRUE))]
    /\ UNCHANGED <<apiPod, podWatch, apiNode, nodeLister, capChanges>>
    /\ EnvUnchanged

\* The node is removed from the API server, at once or when its finalizer
\* is done; the delete event carries its last object.
NodeDelete(n) ==
    /\ "NodeDelete" \in Enabled
    /\ nodeState[n] # "gone"
    /\ nodeState' = [nodeState EXCEPT ![n] = "gone"]
    /\ nodeWatch' = [nodeWatch EXCEPT ![n] = Append(@, NodeDeleted(apiNode[n]))]
    /\ UNCHANGED <<apiPod, podWatch, apiNode, nodeLister, capChanges>>
    /\ EnvUnchanged

\* The pod garbage collector of kube-controller-manager deletes a pod
\* bound to a node that no longer exists.
PodGC(p) ==
    /\ apiPod[p].exists /\ apiPod[p].node \in Nodes /\ nodeState[apiPod[p].node] = "gone"
    /\ ApiWrite(p, [apiPod[p] EXCEPT !.exists = FALSE, !.rv = @ + 1])
    /\ UNCHANGED <<apiNode, nodeState, nodeWatch, nodeLister, capChanges>>
    /\ EnvUnchanged

-----------------------------------------------------------------------------

Next ==
    \/ \E p \in Pods :
         \/ PodWatchEvent(p) \/ PodRelist(p) \/ SyncPod(p)
         \/ BindStart(p) \/ BindStep(p)
         \/ PodComplete(p) \/ PodDelete(p) \/ PodGC(p)
         \/ FilterEnd(p) \/ \E n \in Nodes : FilterBegin(p, n)
    \/ \E n \in Nodes : NodeWatchEvent(n) \/ CapacityChange(n) \/ NodeMarkDeleting(n) \/ NodeDelete(n)
    \/ CachesSynced \/ SchedulerRestart

\* The informers, the queue workers and a started Bind call all keep
\* running; kube-scheduler calls Bind for the node it chose; the pod
\* garbage collector removes the pods of a deleted node.  Nothing else
\* forces a pod to be scheduled, to complete or to be deleted.
Fairness ==
    /\ \A p \in Pods : /\ WF_vars(PodWatchEvent(p))
                       /\ WF_vars(SyncPod(p))
                       /\ WF_vars(BindStart(p))
                       /\ WF_vars(BindStep(p))
                       /\ WF_vars(PodGC(p))
    /\ \A n \in Nodes : WF_vars(NodeWatchEvent(n))
    /\ WF_vars(CachesSynced)

Spec == Init /\ [][Next]_vars /\ Fairness

-----------------------------------------------------------------------------
(* Properties.                                                             *)

CachedNodeInfos == {cache.infos[cache.nodeCache[n]] : n \in DOMAIN cache.nodeCache}

\* The pod holds a board on a node according to the API server: it exists,
\* is bound, carries BindToBoard and has not completed.
Live(p) ==
    /\ apiPod[p].exists /\ ~apiPod[p].done
    /\ apiPod[p].node # NoNode /\ apiPod[p].board # NoBoard

TypeOK ==
    /\ apiPod \in [Pods -> PodRec]
    /\ lister \in [Pods -> PodRec]
    /\ \A p \in Pods : \A i \in 1..Len(podWatch[p]) : podWatch[p][i] \in PodRec
    /\ queue \subseteq Pods
    /\ DOMAIN nodeLister \subseteq Nodes
    /\ nodeState \in [Nodes -> {"live", "deleting", "gone"}]
    /\ DOMAIN cache.nodeCache \subseteq Nodes
    /\ cache.podMaps \cup cache.assumePods \cup cache.releasedPod \subseteq Pods
    /\ \A p \in Pods : /\ bind[p].pc \in {"idle", "attempt", "assume", "update", "binding"}
                       /\ bind[p].attempt \in 0..BindAttempts
    /\ sched \in [Pods -> Nodes \cup {NoNode}]
    /\ bindCalls \in [Pods -> 0..MaxBindCalls]
    /\ lastBind \in [Pods -> {"none", "ok", "failed"}]
    /\ capChanges \in 0..MaxCapChanges
    /\ \A p \in Pods : reading[p] = NoRead \/ reading[p].node \in Nodes
    /\ started \in BOOLEAN
    /\ restarts \in 0..MaxRestarts

\* No SoC is given to two workloads: two pods the API server has bound to
\* the same board of the same node request disjoint SoC sets.  Bind picks
\* the board from the cached Allocatable, so this rests on every earlier
\* bind, release and node rebuild having kept the cache right.
NoSharedSoc ==
    \A p, q \in Pods :
        (/\ p # q /\ Live(p) /\ Live(q)
         /\ apiPod[p].node = apiPod[q].node /\ apiPod[p].board = apiPod[q].board)
        => Request[p] \cap Request[q] = {}

\* Every pod the API server has bound to a board is in the cache of its
\* node, on that board: no bind, release, informer event or node rebuild
\* (AddNode, UpdateNode) loses a reservation that is still in use.
BoundPodsAccounted ==
    \A p \in Pods : Live(p) =>
        LET g == GetNodeGen(cache, apiPod[p].node)
        IN /\ g # 0
           /\ p \in DOMAIN cache.infos[g].pods
           /\ cache.infos[g].pods[p] = apiPod[p].board

\* The pod is in the cache of the node it is bound to, on its board.
Accounted(p) ==
    LET g == GetNodeGen(cache, apiPod[p].node)
    IN g # 0 /\ p \in DOMAIN cache.infos[g].pods /\ cache.infos[g].pods[p] = apiPod[p].board

\* After a restart the cache starts empty while pods stay bound: every
\* live pod is eventually accounted for again, through the informer's
\* initial list, addPodToCache's enqueue and syncPod's assignPod (which
\* hydrates a missing node and retries on error), unless it stops being
\* live first.
RecoveredEventually == \A p \in Pods : Live(p) ~> (Accounted(p) \/ ~Live(p))

\* In every cached NodeInfo, Requested is exactly the union of the
\* requests of the pods it holds, board by board: addPod's in-place union,
\* deletePod's subtraction and UpdateNode's copy of Requested agree with
\* the Pods map.
RequestedMatchesPods ==
    \A ni \in CachedNodeInfos :
        \A b \in DOMAIN ni.requested \cup {ni.pods[q] : q \in DOMAIN ni.pods} :
            OrinSetOf(ni.requested, b) =
                UNION {Request[q] : q \in {x \in DOMAIN ni.pods : ni.pods[x] = b}}

\* Allocatable equals Total.DifferenceFromSuperset(Requested) whenever that
\* is defined, and is empty otherwise (spec, NodeInfo): deletePod's fast
\* path, which adds the released SoCs back without recomputing, must land
\* on the same value.
AllocatableConsistent ==
    \A ni \in CachedNodeInfos :
        IF IsSupersetBD(ni.total, ni.requested)
        THEN ni.allocatable = DifferenceFromSuperset(ni.total, ni.requested)
        ELSE ni.allocatable = NewBoardDetails

\* Go maps are not safe for a read concurrent with a write: while
\* Predicate's Allocate iterates the Allocatable map of a NodeInfo it got
\* from GetNode, no cache operation writes that same map in place
\* (deletePod's ni.Allocatable.Add under the cache lock).  A map that addPod
\* or UpdateNode replaced is no longer reachable by writers.
NoConcurrentMapWrite ==
    \A p \in Pods : reading[p] # NoRead =>
        LET ni == cache.infos[reading[p].gen]
        IN ni.amap = reading[p].amap => ni.awrites = reading[p].awrites

\* Bind atomicity (spec): once a Bind call has returned an error, neither
\* podMaps nor any node's Pods holds the pod.
BindAtomicity ==
    \A p \in Pods :
        (bind[p].pc = "idle" /\ lastBind[p] = "failed") =>
            /\ p \notin cache.podMaps
            /\ \A ni \in CachedNodeInfos : p \notin DOMAIN ni.pods

\* A failed Bind is undone (spec: Bind atomicity, and "remove the
\* annotation" when the Binding fails): once Bind returned an error, the
\* cache holds no reservation for the pod and a pod the API server still
\* has unbound carries no BindToBoard annotation, which would otherwise
\* pin it to a board no one reserved.
FailedBindUndone ==
    /\ BindAtomicity
    /\ \A p \in Pods :
         (/\ bind[p].pc = "idle" /\ lastBind[p] = "failed"
          /\ apiPod[p].exists /\ apiPod[p].node = NoNode) => apiPod[p].board = NoBoard

\* The abstract allocation the API server's pods realise: a pod holds the
\* board it is bound to while it is live.  Node capacities are those first
\* published.
Placement ==
    [p \in Pods |-> IF Live(p) THEN [node |-> apiPod[p].node, board |-> apiPod[p].board]
                   ELSE NoNode]

Alloc == INSTANCE SocAllocation WITH
    placement <- Placement,
    Capacity <- [n \in Nodes |-> TotalFromCapacity(InitCapacity[n])],
    Unplaced <- NoNode

\* The scheduler implements SocAllocation: every Binding that makes a pod
\* live places it on a board of its node's capacity holding its request and
\* disjoint from the other live pods there, and only completion or deletion
\* ends a placement.
AllocRefinement == Alloc!Spec

\* A pod in use: a Bind call for it is running, or it is bound and running.
Active(p) ==
    \/ bind[p].pc # "idle"
    \/ apiPod[p].exists /\ ~apiPod[p].done /\ apiPod[p].node # NoNode

Holding(p) ==
    \/ p \in cache.podMaps
    \/ \E ni \in CachedNodeInfos : p \in DOMAIN ni.pods

\* Whenever a pod is not in use (never bound, its Bind failed, completed or
\* deleted) the cache eventually lets go of it, in podMaps and in its node,
\* through the update/delete handlers and syncPod's release.
ReleasedEventually == \A p \in Pods : ~Active(p) ~> ~Holding(p)

=============================================================================
