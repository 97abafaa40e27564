----------------------------- MODULE RoomLedger -----------------------------
(***************************************************************************)
(* What a reservation system promises, with nothing of how it keeps it:    *)
(* a ledger of room nights, in which a booking takes all the nights of its *)
(* stay in one step, each of them free until then, and gives them back     *)
(* together.  Reservation.tla implements it under the mapping that enters  *)
(* the nights of every live row.                                           *)
(***************************************************************************)
EXTENDS Integers

CONSTANTS Booking, Room, Day

VARIABLE ledger     \* set of <<booking, room, night>>

TypeOK == ledger \subseteq Booking \X Room \X Int

Init == ledger = {}

Free(room, nights) ==
    \A e \in ledger : ~(e[2] = room /\ e[3] \in nights)

Take(b, room, nights) ==
    /\ \A e \in ledger : e[1] # b
    /\ Free(room, nights)
    /\ ledger' = ledger \cup ({b} \X {room} \X nights)

GiveBack(b) ==
    ledger' = {e \in ledger : e[1] # b}

Next ==
    \E b \in Booking :
        \/ \E room \in Room : \E from, to \in Day :
                Take(b, room, from .. (to - 1))
        \/ GiveBack(b)

Spec == Init /\ [][Next]_ledger

(* A night of a room is in the ledger for one booking at most.             *)
Exclusive ==
    \A e, f \in ledger : e[2] = f[2] /\ e[3] = f[3] => e[1] = f[1]
=============================================================================
