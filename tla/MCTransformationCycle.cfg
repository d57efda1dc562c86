SPECIFICATION Spec
CONSTANTS
    EdgeIds = {"edge_a", "edge_b", "edge_c"}
    MaxEdges = 3
    Values = {0, 1}
    Nodes <- MCNodes
    Recompute <- MCRecompute
    Unresolved = Unresolved
    Null = Null
    Broken = Broken
INVARIANTS
    TypeOK
    NonErasure
    EdgesCompose
    FailureIsLocal
    AggregateTellsHowFar
PROPERTIES
    ImplementsEdgewise
CHECK_DEADLOCK FALSE
