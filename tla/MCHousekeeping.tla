--------------------------- MODULE MCHousekeeping ---------------------------
(* Housekeeping with two ticks to a day and one day of retention.          *)
EXTENDS Housekeeping

(* Three quarters back one day before the free period, nothing later.      *)
TwoTiers == [d \in {0, 1} |-> IF d = 1 THEN 75 ELSE 0]
=============================================================================
