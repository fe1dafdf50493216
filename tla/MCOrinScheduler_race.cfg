\* Serial binds and reliable API calls: Predicate for one pod reads a
\* node's Allocatable while syncPod releases another pod on that node.
CONSTANTS
    p1 = p1
    p2 = p2
    n1 = n1
    NoNode = NoNode
    NoBoard = NoBoard
    Pods <- MCPods
    Nodes <- MCNodes
    Request <- MCRequest
    InitCapacity <- MCInitCapacity
    AltCapacity <- MCAltCapacity
    Enabled = {}
    MaxBindCalls = 2
    MaxCapChanges = 0
    MaxRestarts = 0
SPECIFICATION Spec

CHECK_DEADLOCK FALSE
INVARIANT NoConcurrentMapWrite
