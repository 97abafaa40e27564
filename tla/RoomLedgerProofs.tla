-------------------------- MODULE RoomLedgerProofs --------------------------
(* The abstract ledger keeps its promise, whatever the days and rooms.     *)
EXTENDS RoomLedger, TLAPS

(* No night of a room is entered for two bookings: with RefinesLedger of   *)
(* ReservationProofs, what the abstract system guarantees to its guests.   *)
THEOREM LedgerIsExclusive == Spec => []Exclusive
<1>1. Init => Exclusive
  BY DEF Init, Exclusive
<1>2. Exclusive /\ [Next]_ledger => Exclusive'
  <2> SUFFICES ASSUME Exclusive, [Next]_ledger PROVE Exclusive'
    OBVIOUS
  <2>1. ASSUME NEW b \in Booking, NEW room, NEW nights, Take(b, room, nights)
        PROVE  Exclusive'
    <3> SUFFICES ASSUME NEW e \in ledger', NEW f \in ledger',
                        e[2] = f[2], e[3] = f[3]
                 PROVE  e[1] = f[1]
      BY DEF Exclusive
    <3>1. ASSUME NEW g \in ledger', g \notin ledger
          PROVE  g[1] = b /\ g[2] = room /\ g[3] \in nights
      BY <2>1, <3>1 DEF Take
    <3>2. ASSUME NEW g \in ledger, NEW h \in ledger', h \notin ledger
          PROVE  ~(g[2] = h[2] /\ g[3] = h[3])
      BY <2>1, <3>1, <3>2 DEF Take, Free
    <3>3. QED
      BY <3>1, <3>2 DEF Exclusive
  <2>2. ASSUME NEW b \in Booking, GiveBack(b)
        PROVE  Exclusive'
    BY <2>2 DEF GiveBack, Exclusive
  <2>3. QED
    BY <2>1, <2>2 DEF Next, Exclusive
<1>3. QED
  BY <1>1, <1>2, PTL DEF Spec
=============================================================================
