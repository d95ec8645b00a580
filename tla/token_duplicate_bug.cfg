SPECIFICATION Spec
CONSTANTS
    Creates = {c1, c2}
    Cancels = {x1}
    Users <- MCOneUser
    Players <- MCOneUser
    HasAgent <- MCOneUser
    Amounts = {1}
    MaxGrant = 2
    Opening <- MCOpening
    MaxHeld = 2
    c1 = c1
    c2 = c2
    x1 = x1
    p1 = p1
    p2 = p2
SYMMETRY Symmetry
INVARIANTS
    OneOpenRequestPerKind
