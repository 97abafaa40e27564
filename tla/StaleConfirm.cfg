\* A confirmation that loaded its booking before it was cancelled.
SPECIFICATION Spec
CONSTANTS
    Booking = {b1, b2}
    Room = {r1}
    Day <- TwoDays
    Worker = {w1, w2}
    Ops <- GuestApi
    NoRow = NoRow
    Idle = Idle
INVARIANTS
    NoDoubleBooking
\* The keys and the days of the model run out, and then nothing is left to do.
CHECK_DEADLOCK FALSE
