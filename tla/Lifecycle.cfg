\* One booking, every request but the ones that purge it, two at a time.
SPECIFICATION Spec
CONSTANTS
    Booking = {b1}
    Room = {r1}
    Day <- ThreeDays
    Worker = {w1, w2}
    Ops <- KeepsRows
    NoRow = NoRow
    Idle = Idle
INVARIANTS
    TypeOK
    CancelledOnce
\* The keys and the days of the model run out, and then nothing is left to do.
CHECK_DEADLOCK FALSE
