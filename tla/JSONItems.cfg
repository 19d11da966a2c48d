SPECIFICATION ViewSpec
CONSTANTS
    long = long
    short = short
    Vars = {x, y}
    Boxes = {long, short}
    Kinds <- MCKinds
    Scalars <- MCScalars
    Nodes = {n1, n2, n3}
    MaxLength <- MCLength
    nullptr = nullptr
SYMMETRY Interchangeable
INVARIANTS OwnedOnce
PROPERTIES ImplementsValues
