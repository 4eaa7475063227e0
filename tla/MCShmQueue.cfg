CONSTANTS
    Node = {n1, n2, n3, n4}
    Value = {v1, v2}
    Null = Null
    None = None
    Nothing = Nothing
    QueMax = 3
    UserMax = 2
SYMMETRY Addresses
SPECIFICATION Spec
INVARIANTS Chain Ownership TraversalExact
PROPERTY Refines
