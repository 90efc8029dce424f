SPECIFICATION Spec
CONSTANTS
    Nodes = {n1, n2, n3}
    Calls = {c1, c2}
    MaxEpoch = 4
    NoRow = NoRow
    Idle = Idle
SYMMETRY Symmetry
INVARIANTS
    TypeOK
    OneOwnerPerEpoch
PROPERTY
    TakeoverNamed
