----------------------------- MODULE MCPayments -----------------------------
(* Payments on a small instance: its constants are model values, given in  *)
(* the configurations.  Nothing in Payments tells bookings, charges or     *)
(* workers apart, so states that differ by a renaming count once.          *)
EXTENDS Payments, TLC

Symmetry == Permutations(Booking) \cup Permutations(Charge) \cup Permutations(Worker)
=============================================================================
