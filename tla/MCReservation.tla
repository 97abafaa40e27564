--------------------------- MODULE MCReservation ---------------------------
(* Reservation on a small instance: two clients, two rooms, two nights.    *)
EXTENDS Reservation

DaysOfTwoNights == 0..2
=============================================================================
