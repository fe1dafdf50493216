# TLA+ models of the Orin device scheduler

This directory holds TLA+ models of the scheduler extender in
`src/pkg/scheduler/manager` and of the device plugin's capacity publication in
`src/pkg/device` (capacity publication and the plugin's serve/register loop), together with the TLC configurations that check them. Each
run in `PROJECT.json` was checked with `tlc -workers 2 -config <cfg> <MC module>`.

## The system

The system has these parts and interactions:

- **C1. topo** (`topo/mazuinfo.go`)
  - A `BoardDetails` maps a board ID to an `OrinDetails`.
  - An `OrinDetails` maps a SoC ID to an `OrinInfo`.
  - Operations: `Equal`, `DifferenceFromSuperset` and `Add`.
- **C2. decimal-map codec** (`decimalmap.go`)
  - It publishes a board's SoC set as an int64 whose decimal digits are 1 at the positions `ID - startBit`.
  - The device plugin writes it with `BuildDecimalMap`. The scheduler reads it with `Parse`.
- **C3. NodeInfo** (`cache.go`)
  - A NodeInfo holds `Total`, `Requested`, `Allocatable` and `Pods`.
  - `addPod` unions the pod's SoCs into `Requested` in place, then replaces `Allocatable` with a freshly computed map.
  - `deletePod` subtracts the pod's SoCs from `Requested` and adds them back into the existing `Allocatable` map, in place.
  - `NewNodeInfo` parses the node capacity and replays `addPod` over the pods it is given.
- **C4. scheduleCache** (`cache.go`)
  - It holds `nodeCache`, `podMaps`, `assumePods` and `releasedPod`.
  - Every method runs under one mutex.
  - `GetNode` returns a `*NodeInfo`. The caller then reads it without the lock.
- **C5. allocator and Normalize** (`allocator.go`, `util.go`)
  - Binpack picks the fitting board with the fewest free SoCs. It iterates a Go map, so ties are broken in an unspecified order.
  - The node score is 100 minus the node's free SoCs. `Normalize` scales the scores to 0..10.
- **C6. manager** (`manager.go`)
  - `Predicate` and `Priority` fan out over the node list with `Parallelize` (16 goroutines draining a channel of indices).
  - `Predicate` writes a passing node at the slot an atomic counter hands out, and a failing node into a mutex-guarded map.
  - `Bind` runs these steps:
    1. `GetNode`.
    2. A `retry.Do` loop of 3 attempts, each running: Get the pod from the API server, `Allocate` on the held NodeInfo, `AssumePod`, then `Update` the pod with the BindToBoard annotation. If the `Update` fails, it calls `ForgetPod`.
    3. The `Binding` call. If it fails, Bind calls `ForgetPod` and then a rollback `Update`.
- **C7. controller** (`controller.go`)
  - Pod informer handlers:
    - add: enqueue the pod.
    - update: enqueue the pod if it is known, completed and bound to a board.
    - delete: `DeletePod`.
  - Workers run `syncPod`:
    - a completed pod is released with `DeletePod`;
    - a scheduled pod goes through `assignPod`, which hydrates a missing node from the lister, then calls `AddPod`.
  - Node informer handlers: `AddNode` or `UpdateNode`, using the lister's active pods of the node; `DeleteNode` for a delete event, and also for an add or update whose object has a `DeletionTimestamp` (a node pending deletion).
- **C8. device plugin and provider** (`pkg/device`, `cmd/deviceplugin`)
  - At start-up, `patchNodeExtraResource` encodes each board's SoC IDs from the provider file and publishes them as node capacities.
  - `DevicePluginServer.Run` (`plugin.go`) serves the gRPC socket, waits until it answers, and registers with the kubelet. It then waits in a `select` on `errChan` (a Register error) and on fsnotify events. A Create of `kubelet.sock`, which a restarted kubelet makes, or an error sends it back to the `restart:` label, where it closes the previous stop channel, sleeps one second and serves again. `errChan` has a buffer of one, and `Serve` starts a goroutine that, once its stop channel closes, runs `GracefulStop` and closes the listener, which unlinks the socket path.
- **C9. HTTP routes and main** (`routes/`, `cmd/scheduler`)
  - They decode JSON and call C6. The Predicate route returns the manager's slice unchanged.
  - `main` builds a fresh cache, runs `NewController` (which waits for the node and pod informers' caches), starts `controller.Run` in a goroutine and serves HTTP at once.

The hard behaviours come from interleavings:

- Bind's steps interleave with the informer handlers and the workers.
- Binds of different pods overlap, because kube-scheduler binds asynchronously.
- `Predicate` reads a node's `Allocatable` map while the workers change the cache.
- API calls fail.
- The informer's view lags the API server. It may relist, which coalesces events into one and delivers a tombstone for a deleted pod.
- The device plugin can republish a node's capacity at any time.
- The scheduler process can restart. Everything it knew is in memory and is rebuilt from fresh lists.
- The node can be deleted. The pod GC controller then deletes its pods.
- The kubelet can restart, which forgets the plugin's registration.

## Modules

| module | models | state / actions |
|---|---|---|
| `Topo` | C1 | `BoardDetails` as a function from board IDs to sets of SoC IDs. The function's domain matters, because an emptied board stays in the map. |
| `DecimalMap` | C2 | `Parse` goes through `strconv.FormatInt`, including the sign. `BuildDecimalMap` is parameterised by the integer width `w`: the sum wraps modulo `2^w`, and `int64(math.Pow10(k))` is exact up to `ExactDigits(w)` and then has the outcomes the amd64 and arm64 conversions give. |
| `DevicePlugin` | C8, C2 | The provider's board-to-SoC lists, `PatchNodeExtraResource`, a plugin `Restart` with an edited provider file, and `DecodedTotal`, which is `NewNodeInfo`'s decoding of the published capacity. `Run`'s loop is a program counter `pc` (start, restart, serve, wait, register, loop, blocked) with one action per step: `StopServer` (close the old stop channel), `Serve` (after the sleep), `Wait`, `Register` (which sends a failure on `errChan`, and blocks when it is full), `LoopRegisterError` and `LoopKubeletCreated`. `OldServerStop` is the previous server's stop goroutine, which unlinks whatever socket the path names when it runs. The kubelet is `KubeletStop` and `KubeletStart`; a start removes the plugin socket and queues the fsnotify Create event. |
| `Allocator` | C5 | `BinpackLoop` translates the loop of `BinpackAllocator.Allocate` over one iteration order of the map. `BinpackBoards` is its declarative reference: every minimal fitting board, so the map-order choice is nondeterministic. `BinpackScore`, `Normalize` and `GoDiv`, which truncates toward zero. |
| `Extender` | C6 (Predicate, Priority), C9 | Each goroutine of `Parallelize` is a process: `TakePiece` receives an index from the channel, and `CheckNodes` runs `checkNodes` for it. `NewCall` is kube-scheduler's next call. `PredicateResult` and `PriorityResult` are what the routes return. |
| `ScheduleCache` | C3, C4 | Every method of scheduleCache, `DeleteNode` included, as operators from a cache value to `[c, ok]`, so that one handler can make several calls in one step. NodeInfo objects live in a heap `infos` keyed by generation: a holder of an old `*NodeInfo` keeps reading that object after `AddNode` or `UpdateNode` replaces the map entry. `amap` counts the times the NodeInfo replaced its `Allocatable` map, and `awrites` counts the in-place writes to it. |
| `OrinScheduler` | C6, C7, and C8's capacity patch | The variables and actions listed below. |
| `SocAllocation` | the spec's allocation promise | Abstract: `placement` maps a pod to a node and board. `Place` requires the board to hold the request, disjoint from the other pods placed there. `Release` is the other action. |
| `MCOrinScheduler`, `MCDevicePlugin`, `MCExtender` | | Constants for TLC. |

`OrinScheduler` has these variables:

- API server: `apiPod` and `apiNode`.
- Watch streams: `podWatch` and `nodeWatch`. A node event is `[gone, cap]`; `gone` is a delete event.
- `nodeState`: per node, live, deleting (its `DeletionTimestamp` is set and a finalizer holds it) or gone.
- `started`: whether the informers' caches have synced since the last start, and `restarts`, the restarts so far.
- Informer stores: `lister` and `nodeLister`.
- The work queue: `queue`.
- The cache: `cache`.
- Per pod:
  - `bind`: the Bind program counter, the held NodeInfo generation, the attempt number, the chosen board and the fetched object;
  - `sched`: the node chosen after Predicate;
  - `reading`: the NodeInfo whose `Allocatable` Predicate is iterating, with its `amap` and `awrites` when the read began;
  - `bindCalls` and `lastBind`: the Bind calls made so far and the result of the last one.

A pod object is `[exists, node, board, done, rv]`. `rv` is its resourceVersion. Update fails on an rv mismatch, which is the API server's optimistic concurrency.

`OrinScheduler` has these actions:

- **Controller:** `PodWatchEvent`, `PodRelist`, `SyncPod` and `NodeWatchEvent` (add, update, or `deleteNodeFromCache` on a delete event). `HandlePodEvent` is the three pod handlers. `assignPod` hydrates a missing node only while the node exists and its Get succeeds. `SyncPod` runs `assignPod` as one step, although the code releases the cache lock between `GetNode`, the node Get, `AddNode` and `AddPod`; a Bind or a node event between them is not modelled.
- **Start-up:** `SchedulerRestart` empties every in-memory store and lets the informers relist: the pod watch replays the existing pods, the node watch the existing nodes. `CachesSynced` is `WaitForCacheSync`: once both watches have been drained, `started` is set, and only then do the workers (`SyncPod`) and the HTTP server (`FilterBegin`, `BindStart`) run. This is stronger than client-go, whose `HasSynced` does not wait for the event handlers to finish. The model thus narrows the window after a restart in which the workers and the HTTP server run before the handlers have caught up; the restart run is violated even so. A Bind in flight at the restart is lost, and kube-scheduler sees it fail.
- **kube-scheduler and Predicate:** `FilterBegin` takes the NodeInfo with `GetNode` and starts `Allocate` on its map. `FilterEnd` ends that read and chooses the node if a board fitted. `BindStart` starts a Bind.
- **Bind, one step per API call:** `BindAllocate` (Get and Allocate), `BindAssume`, `BindUpdate` and `BindBinding`. `AttemptFailed` is the `retry.Do` loop.
- **Environment:** `PodComplete`, `PodDelete`, `CapacityChange`, `NodeMarkDeleting` (a deletion held by a finalizer), `NodeDelete`, and `PodGC`, the pod GC controller deleting a pod bound to a deleted node.

The environment behaviours that exercise a specific failure are switched on per run through the constant `Enabled`:

- `ConcurrentBind` lets Binds of different pods overlap.
- `ApiError` lets any API call fail: each of Bind's calls, and the node Get of `assignPod`, after which `AddPod` fails on the missing node and the key is requeued. No run combines `ApiError` with a node missing from the cache, so that Get failure is modelled but not reached.
- `DeleteDuringBind` lets a user delete a pod while its Bind is running.
- `CapacityChange` lets the device plugin republish the node's capacity.
- `Relist` lets the pod informer relist after a broken watch.
- `Restart` lets the scheduler process restart, at most `MaxRestarts` times.
- `NodeDelete` lets the node be deleted, with or without a pending-deletion phase.

### Refinement

`OrinScheduler` defines `Placement`. A pod is placed on `[node, board]` while the API server shows it bound, annotated, not completed and not deleted. `Alloc == INSTANCE SocAllocation WITH placement <- Placement, ...` uses the capacities first published as `Capacity`. The property `AllocRefinement == Alloc!Spec` says that every step of the scheduler is one of these:

- a step that changes no placement;
- a `Place` that respects capacity and exclusivity;
- a `Release`.

The serial run checks it.

## Properties

| property | module | what it says |
|---|---|---|
| `NoSharedSoc` | OrinScheduler | Two live pods bound to the same node and board request disjoint SoCs. |
| `BoundPodsAccounted` | OrinScheduler | Every live bound pod is in its node's cached NodeInfo, on its board. |
| `RequestedMatchesPods` | OrinScheduler | In every cached NodeInfo, `Requested` is the union of the requests of its `Pods`, board by board. |
| `AllocatableConsistent` | OrinScheduler | `Allocatable = Total - Requested`, or empty when that is undefined (spec §NodeInfo). |
| `FailedBindUndone` | OrinScheduler | After a Bind returns an error, neither `podMaps` nor any NodeInfo holds the pod, and the pod, if it still exists unbound, carries no BindToBoard annotation (spec: a failed Bind is rolled back). |
| `NoConcurrentMapWrite` | OrinScheduler | While Predicate iterates a NodeInfo's `Allocatable` map, no cache operation writes that same map in place. |
| `ReleasedEventually` | OrinScheduler | A pod no longer in use is eventually dropped from the cache. |
| `RecoveredEventually` | OrinScheduler | A live bound pod is eventually accounted in its node's NodeInfo again (or stops being live), in particular after a restart emptied the cache. |
| `RegisteredEventually` | DevicePlugin | From some point on, the running kubelet holds the plugin's registration and the plugin's socket is served: `<>[](registered /\ listening)`. |
| `RegisteredUnlessBlocked` | DevicePlugin | `RegisteredEventually`, unless `Run` blocks on its full `errChan`. It rules out in particular an old server's stop goroutine unlinking the next server's socket. |
| `AllocRefinement` | OrinScheduler | The refinement above. |
| `PublishedRoundTrip` | DevicePlugin | For a board whose SoC IDs the encoding can carry, `NewNodeInfo` decodes exactly the SoCs the provider lists. |
| `PredicateComplete` | Extender | Once the fan-out returns, `filteredLen` equals the number of fitting nodes, the slots below it hold each fitting node exactly once, the slots above it are empty, and `failNodes` holds exactly the other nodes. |
| `PredicateSound` | Extender | Every name Predicate returns is a fitting node (spec §7). |
| `PriorityNormalised` | Extender | Every normalised score lies in 0..10, and the largest is 10 unless all are 0 (spec §7). |
| `BinpackMatchesReference` | MCExtender | For every map of boards 0..2 with SoCs from {1, 2}, every cached map of the state, and every request, the boards `BinpackLoop` returns over all iteration orders are exactly `BinpackBoards`, or -1 when none fits. A wrong start value of `bestFitBoardScore` or a missing superset test breaks it. A non-strict comparison does not, because it still picks a board of the smallest size. |
| `TypeOK` | OrinScheduler | The type invariant. |

## Runs

The `OrinScheduler` runs use one node (`n1`) and two pods that both request SoC 1, except `recover`, whose pods request SoCs 1 and 2. Each pod gets at most 2 Bind calls (`MaxBindCalls`, 1 in `recover`), and each Bind makes 3 attempts.

Every pass run has a mutant for each of its properties. A mutant is an operator placed just before the definition it replaces, and TLC finds the property violated under that run's config.

| run | cfg | expect | shows |
|---|---|---|---|
| serial | `MCOrinScheduler.cfg` | pass | With serial Binds, reliable API calls, a fixed capacity and relists (which coalesce events and deliver tombstones): no shared SoC, bound pods stay accounted, NodeInfo stays consistent, and the scheduler refines `SocAllocation`. 8352 states. |
| grow | `MCOrinScheduler_grow.cfg` | pass | With requests that cannot collide, adding a board and deleting the node (also through a pending-deletion phase, after which `assignPod` can put the node back) keep each rebuilt NodeInfo consistent. |
| recover | `MCOrinScheduler_recover.cfg` | pass | After one restart the rebuilt cache accounts every bound pod again, and pods no longer in use are still released (about 2 min, liveness). |
| devplugin | `MCDevicePlugin.cfg` | pass | Every encodable provider entry survives publication and parsing across plugin restarts. After kubelet restarts and Register errors, the plugin ends up registered on a served socket unless `Run` blocks on `errChan` (313088 states, about 1.5 min). |
| extender | `MCExtender.cfg` | pass | Under every interleaving of the goroutines, Predicate fills one slot per fitting node and lists every other node in `failNodes`, and Priority's scores are normalised. The Go binpack loop matches its reference over every small input and every map iteration order. |
| concurrent | `MCOrinScheduler_concurrent.cfg` | violation | Overlapping Binds both get SoC 1 of board 1 (`NoSharedSoc`). |
| apierror | `MCOrinScheduler_apierror.cfg` | violation | After a failed Binding the pod stays in `podMaps`, and the rollback Update conflicts, so the unbound pod keeps its annotation (`FailedBindUndone`). |
| deletebind | `MCOrinScheduler_deletebind.cfg` | violation | A pod deleted mid-Bind has no NodeName, so `DeletePod` returns early and the reservation leaks (`ReleasedEventually`). |
| race | `MCOrinScheduler_race.cfg` | violation | Predicate iterates n1's `Allocatable` while the delete handler's `deletePod` adds released SoCs into that map in place (`NoConcurrentMapWrite`). |
| restart | `MCOrinScheduler_restart.cfg` | violation | p1 is bound, the scheduler restarts, the node informer's `AddNode` builds n1's NodeInfo before the pod lister lists p1, the caches sync, and p2 is bound to SoC 1 of board 1 before a worker replays p1 (`NoSharedSoc`). |
| devblock | `MCDevicePlugin_block.cfg` | violation | Register fails while the kubelet is down; the kubelet starts and the select takes the kubelet.sock event, leaving the error in `errChan`; the next Register fails and `Run` blocks on the send for good (`RegisteredEventually`). |
| predsound | `MCExtender_sound.cfg` | violation | A node fails, and Predicate returns an empty name among the filtered nodes (`PredicateSound`). |

### Findings

These are bugs in the code. The README gives a short version; PROJECT.json has the full text of each.

1. Concurrent Binds can allocate the same SoC to two pods. `Allocatable` is read without the lock, and `addPod` does not re-check it.
2. `ForgetPod` never removes the pod from `podMaps` or `assumePods`. A pod whose Bind failed can never be assumed again.
3. The rollback `Update` after a failed Binding (manager.go:195) carries the resourceVersion of Bind's first Get, which the annotation `Update` has superseded. It always conflicts, so the annotation stays on an unbound pod.
4. `DeletePod`'s early return on an empty NodeName leaks the reservation of a pod deleted mid-Bind.
5. `deletePod` (cache.go:107) writes the `Allocatable` map in place under the cache lock, while `Predicate` and `Bind` iterate it without the lock. Go aborts the process on a detected concurrent map iteration and write.
6. After a restart (scheduler.go:76), `main` serves Bind as soon as the informers have synced, while the NodeInfo was built by `AddNode` from a pod lister that may not yet have listed the bound pods (controller.go:339), and the workers have not yet replayed them. A new pod can be given a SoC a bound pod holds.
7. `Predicate` returns all `len(nodes)` slots of `filterdNodes`, not the first `filteredLen` (manager.go:70). Whenever a node fails, kube-scheduler receives `""` names.
8. The device plugin's `Run` can block for good on `errChan <- err` (plugin.go:42). The channel holds one error; when the select takes a kubelet.sock event while an error is still buffered, the next failing Register blocks, and the plugin never registers again until the process restarts.

There are more problems the model points at. No run states them, because the spec leaves the behaviour open, the case is outside realistic inputs, or a run already shows the same defect:

- **`UpdateNode` drops reservations** (cache.go:255). It rebuilds `Requested` from the pods the lister shows as bound, so a pod the lister does not yet show as bound loses its reservation, although the spec says `UpdateNode` preserves `Requested`. With a capacity growth, TLC finds `NoSharedSoc` violated: the next Bind puts another pod on the same SoC. An earlier run showed it; its run slot now holds the devblock run (finding 8), and finding 6 is the same mechanism in `AddNode`. The grow run uses disjoint requests for this reason: a colliding double booking that `addPod`'s union hides, followed by one pod's release, also breaks `RequestedMatchesPods`.
- **A node pending deletion comes back** (controller.go:441). The update handler drops a node whose `DeletionTimestamp` is set, but a pod sync that finds the node missing Gets it from the API server, where it still exists, and `AddNode` puts it back until the delete event arrives. The spec does not say whether such a node may receive pods.
- **Relist tombstones** (controller.go:306). A tombstone carries the store's last object. When the store never saw the bound, annotated version, `DeletePod` releases nothing; TLC shows this leak with relists and `ReleasedEventually`. It is the same early return as finding 4.
- **Node deletion leaks pods** (cache.go:216). After the node's delete event removes its NodeInfo, `DeletePod` returns nil for the missing node and the pod stays in `podMaps`. With `NodeDelete` enabled in the recover instance, TLC finds `ReleasedEventually` violated.
- **`addPod` leaves `Requested` modified when it fails** (cache.go:60). This happens when a Bind holding the pre-shrink NodeInfo allocates a board that a capacity shrink has removed. `AllocatableConsistent` checks the consequence in the pass runs, with the shrink disabled.
- **The codec loses IDs outside its range** (decimalmap.go:46). A SoC ID below `startBit` is encoded as `int64(Pow10(-1)) = 0` and dropped without an error. An ID 19 or more above `startBit` overflows. `PublishedRoundTrip` is stated for the range the encoding carries.
- **Negative priorities** (allocator.go:54). A node with more than 100 free SoCs scores below 0, and `Normalize` leaves that score negative. The extender run's nodes stay below 100 SoCs, as real boards do.
- **`ForgetPod` is given the wrong pod after an Update failure.** It receives the unannotated pod, so it releases nothing. `FailedBindUndone` covers this, but only the Binding-failure trace is reported, because TLC shows the shortest counterexample.
- **Workers restart about once a second.** `processNextWorkItem` returns `false` after every success, so each worker exits and `wait.Until` restarts it a second later. This is a throughput problem only.
- **The old plugin server's listener close** (plugin.go:98) runs in a goroutine and unlinks the socket path. If it ran after the next `Serve`'s `Listen`, it would remove the new socket. The model assumes the one-second sleep outlasts it (`Serve` waits for `OldServerStop`); a `Serve` without that wait, the `ServeNoSleep` mutant, violates `RegisteredUnlessBlocked`.

## Bounds, symmetry and fairness

**OrinScheduler.** One node with boards 0 (SoCs 1 and 2) and 1 (SoC 1) is enough for these cases:

- binpack's tie-breaking;
- a board becoming full;
- a growth that adds a board 2.

Two pods are the fewest that can contend for a SoC. `MaxCapChanges = 1` allows one republication, and a rebuild can only happen after one. `MaxRestarts = 1` is enough for a restart between any two steps of a bound pod's life. The `recover` run gives the pods disjoint requests: with colliding ones, the double booking of finding 6 makes `addPod`'s union and `deletePod`'s subtraction corrupt `Requested`, and the liveness properties would fail for that reason only.

**DevicePlugin.** TLC's integers are 32-bit, so the codec is checked at width 16 instead of 64:

- The largest exact power of ten is `10^4`, so IDs 1..5 are carried. At width 64 the largest is `10^18`, and IDs 1..19 are carried.
- `MCSocIDs = 0..7` covers the three regimes of the code: an ID below the start bit, IDs inside the range, and IDs that overflow.
- One board suffices, because boards are encoded independently.

The lifecycle allows one plugin restart (`MaxRestarts`), two kubelet restarts (`MaxKubeletRestarts`), enough for a restart during a re-registration, and one failing Register with the kubelet up (`MaxRegisterFailures`); a Register against a stopped kubelet always fails. The devblock run needs only one kubelet restart and no plugin restart to reach the blocked send.

**Extender.** Three nodes give three goroutines, enough for two passing writers to race for a slot. The cached `Allocatable` of each node is one of four choices:

- a board that fits;
- two boards that fit;
- a board without SoC 1;
- not in the cache.

**No symmetry.** No symmetry set is declared. The runs check liveness, and TLC's symmetry reduction is unsound for liveness.

**Deadlock checking.** The OrinScheduler runs set `CHECK_DEADLOCK FALSE`, because the system really stops: once every pod has completed or been deleted and every Bind budget is spent, nothing is left to do. The DevicePlugin runs set it too: when the restart budgets are spent, `Run` blocks in its `select` for good, as the real process does. The Extender run checks deadlock, because kube-scheduler can always call again.

**Weak fairness** is assumed for:

- **Watch delivery and node events.** The informers keep reading their watches.
- **`CachesSynced`.** `WaitForCacheSync` returns once the initial lists are delivered.
- **`SyncPod`.** The workers run forever under `wait.Until`.
- **`BindStart` and the Bind steps.** A Bind call, once kube-scheduler has issued it, runs to its end.
- **`PodGC`.** The pod GC controller deletes the pods of a deleted node.
- **`PatchNodeExtraResource` and `PluginStep`.** The plugin process runs its start-up and its loop.
- **`OldServerStop`.** The stop goroutine runs once its channel is closed.
- **`KubeletStart`.** A stopped kubelet is restarted by its service manager.

Nothing forces a pod to be scheduled, to complete or to be deleted. Nothing forces kube-scheduler to call again. The lifecycle model assumes that the old server's `GracefulStop` closes its listener within `Run`'s one-second sleep. `GracefulStop` closes the listeners before it waits for open streams, so this only fails when the goroutine is not scheduled for a second. `Serve` is therefore guarded by `~stopping`.

## Not modelled (yet)

- **The device plugin's gRPC handlers and the file provider's parsing (C8):** `ListAndWatch`, `Allocate` and `PreStartContainer` are request/response I/O with the kubelet and the filesystem, and hold no state the scheduler reads. The plugin's `stop` channel (process shutdown) is not modelled.
- **HTTP decoding and flag parsing (C9):** I/O with no state of its own.
- **The Spread allocator:** an empty stub that panics.
- **Bind's unlocked read of `Allocatable`.** It is one step, so the race of finding 5 is shown for `Predicate` only.

## Further work

1. **Refinement under more environments.** Check `AllocRefinement` with restarts and node deletion, with requests that cannot collide.
2. **Bind's read as two steps.** This shows the same race for `Bind`.
3. **More run slots.** The `UpdateNode` reservation loss and the node-deletion leak each deserve a violation run of their own.
