\* Two requests at a time on two rooms and two nights: every pair of stays
\* that are apart, adjacent, nested or equal occurs.
SPECIFICATION FairSpec
CONSTANTS
    Booking = {b1, b2}
    Room = {r1, r2}
    Day <- DaysOfTwoNights
    Client = {c1, c2}
    NoRow = NoRow
    NoClient = NoClient
    NoStay = NoStay
    NoBooking = NoBooking
INVARIANTS
    TypeOK
    NoDoubleBooking
    CheckStaysValid
    CreationAudited
PROPERTIES
    ImplementsLedger
    EveryRequestAnswered
