\* Whether every name Predicate returns is a fitting node.
CONSTANTS
    a = a
    b = b
    c = c
    NotInCache = NotInCache
    EmptyName = EmptyName
    NodeList <- MCNodeList
    Request <- MCRequest
    AllocChoices <- MCAllocChoices
SPECIFICATION Spec
INVARIANT PredicateSound
