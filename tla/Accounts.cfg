\* One account, two requests at a time, a counter that locks at two.
SPECIFICATION Spec
CONSTANTS
    User = {u1}
    Staff = {u1}
    Password = {p1, p2}
    Link = {k1, k2}
    Worker = {w1, w2}
    None = None
    LoginLimit = 2
    ViewLimit = 3
    Recent = 0
    ResetLife = 0
    VerifyLife = 0
    LastTick = 1
    Required = TRUE
SYMMETRY Symmetric
INVARIANTS
    TypeOK
    TriesBounded
    VerifiedByLink
    ClosedLinksSetNoPassword
PROPERTIES
    UndoneOnlyByStaleCopies
