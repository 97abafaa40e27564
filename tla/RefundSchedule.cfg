\* A paid guest who cancels inside the schedule's period.
SPECIFICATION Spec
CONSTANTS
    Booking = {b1}
    NoRow = NoRow
    Purged = Purged
    LastTick = 7
    TicksPerDay = 2
    ExpiryAge = 2
    Retention = 1
    FreeDays = 2
    Schedule <- TwoTiers
INVARIANTS
    ScheduleHonoured
\* The clock of the model stops.
CHECK_DEADLOCK FALSE
