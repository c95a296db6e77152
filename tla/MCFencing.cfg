SPECIFICATION Spec
CONSTANTS
    n1 = n1
    n2 = n2
    p1 = p1
    p2 = p2
    p3 = p3
    voter = voter
    generation = generation
    None = None
    Node = {n1, n2}
    Pod = {p1, p2, p3}
    Run = {r1, r2}
    WAL = {w1, w2}
    Fence = {voter, generation}
    NodeOfPod <- MCNodeOfPod
    OpID <- MCOpID
    Targets <- MCTargets
INVARIANTS FenceProofHolds OneWriter OneHistory
SYMMETRY Symmetry
CHECK_DEADLOCK FALSE
