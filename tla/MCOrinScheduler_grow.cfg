\* One capacity growth of the node while pods are bound, and the node's
\* deletion: every rebuilt NodeInfo keeps its own bookkeeping consistent.
CONSTANTS
    p1 = p1
    p2 = p2
    n1 = n1
    NoNode = NoNode
    NoBoard = NoBoard
    Pods <- MCPods
    Nodes <- MCNodes
    Request <- MCDisjointRequest
    InitCapacity <- MCInitCapacity
    AltCapacity <- MCGrowCapacity
    Enabled = {"CapacityChange", "NodeDelete"}
    MaxBindCalls = 2
    MaxCapChanges = 1
    MaxRestarts = 0
SPECIFICATION Spec

CHECK_DEADLOCK FALSE
INVARIANTS
    RequestedMatchesPods
    AllocatableConsistent
