CONSTANTS
    Operands = {Projection, Limit, Selection}
    OperandAny = Any
    ChildGroups = {g1, g2}
    Impls = {impl1, impl2}
    NotFound = NotFound
    PhysProps <- MCPhysProps

SPECIFICATION Spec

SYMMETRY MCSymmetry

INVARIANT FirstExprIsEarliestSurvivor
INVARIANT FingerprintsMatchMembers

PROPERTY AbstractSpec
