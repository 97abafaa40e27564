\* The guest's request to pay arrives twice.
SPECIFICATION Spec
CONSTANTS
    Booking = {b1}
    Charge = {c1, c2}
    Worker = {w1, w2}
    Posted = {"confirmed"}
    Idle = Idle
    NoPayment = NoPayment
    Nobody = Nobody
    NoCharge = NoCharge
SYMMETRY Symmetry
INVARIANTS
    ChargedOnce
\* The charges of the model run out, and then nothing may be left to do.
CHECK_DEADLOCK FALSE
