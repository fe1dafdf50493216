\* kube-scheduler runs binding cycles concurrently: two Bind calls overlap.
CONSTANTS
    p1 = p1
    p2 = p2
    n1 = n1
    NoNode = NoNode
    NoBoard = NoBoard
    Pods <- MCPods
    Nodes <- MCNodes
    Request <- MCRequest
    InitCapacity <- MCInitCapacity
    AltCapacity <- MCAltCapacity
    Enabled = {"ConcurrentBind"}
    MaxBindCalls = 2
    MaxCapChanges = 0
    MaxRestarts = 0
SPECIFICATION Spec
CHECK_DEADLOCK FALSE
INVARIANT NoSharedSoc
