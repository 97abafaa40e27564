\* Four days, long enough to expire, cancel, revive and purge a booking.
SPECIFICATION FairSpec
CONSTANTS
    Booking = {b1}
    NoRow = NoRow
    Purged = Purged
    LastTick = 7
    TicksPerDay = 2
    ExpiryAge = 2
    Retention = 1
    FreeDays = 2
    Schedule <- TwoTiers
INVARIANTS
    TypeOK
PROPERTIES
    OverdueExpires
    GuestCancellationKept
\* The clock of the model stops.
CHECK_DEADLOCK FALSE
