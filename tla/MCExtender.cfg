\* Predicate's parallel fan-out over three nodes, and Priority's scores.
CONSTANTS
    a = a
    b = b
    c = c
    NotInCache = NotInCache
    EmptyName = EmptyName
    NodeList <- MCNodeList
    Request <- MCRequest
    AllocChoices <- MCAllocChoices
SPECIFICATION Spec
INVARIANTS
    PredicateComplete
    PriorityNormalised
    BinpackMatchesReference
