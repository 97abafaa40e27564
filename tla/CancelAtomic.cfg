\* cancel_booking, which saves the status before it creates the refund.
SPECIFICATION Spec
CONSTANTS
    Booking = {b1}
    Room = {r1}
    Day <- TwoDays
    Worker = {w1, w2}
    Ops <- CancelOnly
    NoRow = NoRow
    Idle = Idle
INVARIANTS
    CancelledHasRefund
\* The keys and the days of the model run out, and then nothing is left to do.
CHECK_DEADLOCK FALSE
