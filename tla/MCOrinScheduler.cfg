\* Serial binds, reliable API calls and a fixed capacity, with watch relists
\* that coalesce events and deliver tombstones: the protocol itself, under
\* every interleaving of informer events, queue workers, Bind steps,
\* completions and deletions.
CONSTANTS
    p1 = p1
    p2 = p2
    n1 = n1
    NoNode = NoNode
    NoBoard = NoBoard
    Pods <- MCPods
    Nodes <- MCNodes
    Request <- MCRequest
    InitCapacity <- MCInitCapacity
    AltCapacity <- MCAltCapacity
    Enabled = {"Relist"}
    MaxBindCalls = 2
    MaxCapChanges = 0
    MaxRestarts = 0
SPECIFICATION Spec

CHECK_DEADLOCK FALSE
INVARIANTS
    TypeOK
    NoSharedSoc
    BoundPodsAccounted
    RequestedMatchesPods
    AllocatableConsistent
PROPERTIES
    AllocRefinement
