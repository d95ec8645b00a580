SPECIFICATION Spec
CONSTANTS
    Creates = {c1, c2}
    Cancels = {x1, x2}
    Users <- MCUsers
    Players <- MCOneUser
    HasAgent <- MCOneUser
    Amounts = {1, 3}
    MaxGrant = 2
    Opening <- MCOpening
    MaxHeld = 2
    c1 = c1
    c2 = c2
    x1 = x1
    x2 = x2
    p1 = p1
    p2 = p2
SYMMETRY Symmetry
INVARIANTS
    TypeOK
    DuplicatesOnlyByRace
    TokensFollowApproval
PROPERTIES
    ResolvedOnce
