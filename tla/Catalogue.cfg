\* Five groups of tables with two desk requests each; three pictures of two
\* places; two bookings of one guest.
SPECIFICATION CatalogueSpec
CONSTANTS
    h1 = h1
    h2 = h2
    t1 = t1
    r1 = r1
    b1 = b1
    a1 = a1
    ta1 = ta1
    x1 = x1
    s1 = s1
    p1 = p1
    c1 = c1
    o1 = o1
    g1 = g1
    l1 = l1
    Row = {h1, h2, t1, r1, b1, a1, ta1, x1, s1, p1, c1, o1, g1, l1}
    Kind <- Kinds
    Batch <- Batches
    User = {w1, w2}
    NoRow = NoRow
    Image = {i1, i2, i3}
    Place = {h1, h2}
    Editor = {w1, w2}
    Nothing = Nothing
    Stay = {h1, h2}
    Request = {w1, w2}
    Idle = Idle
SYMMETRY Alike
INVARIANTS
    CatalogueTypeOK
    NoDangling
    HotelOfRoom
    PrimariesBounded
    NumbersWereExact
PROPERTIES
    RowsGoWithParents
    QuietRecountIsExact
\* The keys of a batch run out, and then nothing is left to do.
CHECK_DEADLOCK FALSE
