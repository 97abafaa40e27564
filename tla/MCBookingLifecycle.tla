------------------------- MODULE MCBookingLifecycle -------------------------
(* BookingLifecycle on small instances, one choice of requests per run.    *)
EXTENDS BookingLifecycle

TwoDays == 0..1
ThreeDays == 0..2

(* Without deletion for good, after which a booking starts anew.           *)
KeepsRows == AllOps \ {"purge"}

GuestApi == {"reserve", "confirm", "cancel"}
CancelOnly == {"reserve", "cancel"}
=============================================================================
