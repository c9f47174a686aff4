SPECIFICATION Spec
CONSTANTS
    Keys = {k1, k2, k3}
    Values = {v1, v2, v3, v4}
    Cells = {n1, n2, n3}
    NULL = NULL
INVARIANT TypeOK
INVARIANT WellLinked
INVARIANT ValuesOwned
PROPERTY ImplementsTable
