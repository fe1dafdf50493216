\* The scheduler process restarts once while pods are bound, with requests that
\* cannot collide: the rebuilt cache recovers every bound pod and still releases
\* every pod no longer in use.
CONSTANTS
    p1 = p1
    p2 = p2
    n1 = n1
    NoNode = NoNode
    NoBoard = NoBoard
    Pods <- MCPods
    Nodes <- MCNodes
    Request <- MCDisjointRequest
    InitCapacity <- MCInitCapacity
    AltCapacity <- MCAltCapacity
    Enabled = {"Restart"}
    MaxBindCalls = 1
    MaxCapChanges = 0
    MaxRestarts = 1
SPECIFICATION Spec

CHECK_DEADLOCK FALSE
INVARIANTS
    AllocatableConsistent
PROPERTIES
    RecoveredEventually
    ReleasedEventually
