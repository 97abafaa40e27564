\* One booking and two requests, two mail tasks; one refund and two clerks;
\* one offer over three days; one room with two bookings over three days.
SPECIFICATION OfficeSpec
CONSTANTS
    Booking = {b1}
    Worker = {w1, w2}
    Task = {t1, t2}
    MaxRetries = 1
    MaxSaves = 2
    Nil = Nil
    Ended = Ended
    Case = {b1}
    Clerk = {c1, c2}
    Absent = Absent
    Null = Null
    NoOffer = NoOffer
    LastDay = 2
    LastToday = 1
    Week = 3
    Percent = {0, 100}
    Amount = {3}
    Length = {2}
    Limit = {1}
    BasePrice <- Prices
    Slot = {s1, s2}
    Room = {r1}
    NoRow = NoRow
    MaxCapacity = 2
INVARIANTS
    OfficeTypeOK
    AnswerKept
    ConfirmationsBounded
    RefundsInOrder
    QuoteBounded
    SearchAgrees
    FailsOnlyIncomplete
    SearchMatchesReserve
PROPERTIES
    TasksEnd
    DateLostOnlyByStaleCopies
\* A desk with nothing left to do and a mail that was given up both stop.
CHECK_DEADLOCK FALSE
