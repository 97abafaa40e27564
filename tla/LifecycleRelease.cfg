\* Two bookings of one night, three requests at a time, none of which
\* takes a night but through reserve_room.
SPECIFICATION Spec
CONSTANTS
    Booking = {b1, b2}
    Room = {r1}
    Day <- TwoDays
    Worker = {w1, w2, w3}
    Ops <- Releasing
    NoRow = NoRow
    Idle = Idle
INVARIANTS
    NoDoubleBooking
PROPERTIES
    NightsStayReleased
\* The keys and the days of the model run out, and then nothing is left to do.
CHECK_DEADLOCK FALSE
