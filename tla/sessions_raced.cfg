SPECIFICATION Spec
CONSTANTS
    Calls = {c1, c2}
    Old = {o1, o2}
    Owner0 <- MCOwner0
    Users = {u1, u2}
    Browsers = {b1}
    Portals = {"player", "agent"}
    Base = "base"
    Headers = {"player", "absent"}
    Jar0 <- MCJar0
    None = none
    u1 = u1
    u2 = u2
    b1 = b1
    o1 = o1
    o2 = o2
    c1 = c1
    c2 = c2
SYMMETRY Symmetry
INVARIANTS
    TypeOK
    ListedOrNew
PROPERTIES
    OnlyOwnersEnd
    LogoutEndsWhatItClears
