\* Two bookings and two charges, two requests or webhooks at a time.
SPECIFICATION Spec
CONSTANTS
    Booking = {b1, b2}
    Charge = {c1, c2}
    Worker = {w1, w2}
    Posted = {"confirmed"}
    Idle = Idle
    NoPayment = NoPayment
    Nobody = Nobody
    NoCharge = NoCharge
SYMMETRY Symmetry
INVARIANTS
    TypeOK
    PaidMeansCaptured
    PaymentBacked
    RefundedMeansReturned
\* The charges of the model run out, and then nothing may be left to do.
CHECK_DEADLOCK FALSE
