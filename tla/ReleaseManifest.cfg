SPECIFICATION Spec
CONSTANTS
    a1 = a1
    o1 = o1
    p1 = p1
    p2 = p2
    p3 = p3
    p4 = p4
    Asset = {a1}
    Object = {o1}
    Proposal = {p1, p2, p3, p4}
    Target <- MCTarget
    Value = {v1, v2, v3}
    Operator = {op1, op2}
    MaxAppends = 1
    MaxReleases = 4
SYMMETRY MCSymmetry
CHECK_DEADLOCK FALSE
INVARIANT TypeOK
INVARIANT ManifestIsCurrent
INVARIANT RollbackRestoresContent
PROPERTY UnreleasedEditStays
