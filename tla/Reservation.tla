---------------------------- MODULE Reservation ----------------------------
(***************************************************************************)
(* Guests reserving rooms at the same time: RoomReservationService.        *)
(* reserve_room (bookings/booking_services.py), one database transaction   *)
(* per request that locks the room's row, looks for overlapping bookings   *)
(* and inserts the booking with its first audit entry.  PostgreSQL runs it *)
(* at READ COMMITTED, so the look-up sees every row committed before it,   *)
(* and no row another transaction has inserted and not committed.          *)
(*                                                                         *)
(* The other actors here are the writers that change rows with one SQL     *)
(* statement: the admin's actions, the Celery expiry and clean-up jobs,    *)
(* the manager's soft and bulk deletion.  The writers that load a row,     *)
(* change it in memory and save all of it are in BookingLifecycle.tla.     *)
(***************************************************************************)
EXTENDS BookingRecord

CONSTANTS
    Client,     \* requests that may be in progress at the same time
    NoClient,   \* the holder of a lock nobody holds
    NoStay,     \* the request of a client that has none
    NoBooking   \* the draft of a client that has none

ASSUME NoValues ==
    /\ NoClient \notin Client
    /\ NoStay \notin Stay
    /\ NoBooking \notin Booking

VARIABLES
    table,      \* committed rows of table booking, by primary key
    created,    \* keys that have a committed audit entry 'created'
    lock,       \* holder of each room's row lock (SELECT ... FOR UPDATE)
    pc,         \* where each client's request is
    request,    \* the stay each client asks for
    draft       \* the key of the row each transaction has inserted

vars == <<table, created, lock, pc, request, draft>>

InTransaction == {"locked", "inserted", "logged"}

TypeOK ==
    /\ table \in [Booking -> Row \cup {NoRow}]
    /\ created \subseteq Booking
    /\ lock \in [Room -> Client \cup {NoClient}]
    /\ pc \in [Client -> {"idle", "waiting"} \cup InTransaction]
    /\ request \in [Client -> Stay \cup {NoStay}]
    /\ draft \in [Client -> Booking \cup {NoBooking}]

Init ==
    /\ table = [b \in Booking |-> NoRow]
    /\ created = {}
    /\ lock = [r \in Room |-> NoClient]
    /\ pc = [c \in Client |-> "idle"]
    /\ request = [c \in Client |-> NoStay]
    /\ draft = [c \in Client |-> NoBooking]

----------------------------------------------------------------------------
(* The reservation transaction.                                            *)

(* A live row of the room overlaps the requested stay.                     *)
Conflicting(s) == \E b \in Booking : Live(table[b]) /\ Overlaps(table[b].stay, s)

(* The transaction of c is over: its lock is released and its rows are no  *)
(* longer its own, whether they were committed or rolled back.             *)
End(c) ==
    /\ lock' = [r \in Room |-> IF lock[r] = c THEN NoClient ELSE lock[r]]
    /\ pc' = [pc EXCEPT ![c] = "idle"]
    /\ request' = [request EXCEPT ![c] = NoStay]
    /\ draft' = [draft EXCEPT ![c] = NoBooking]

(* POST /bookings/create/ passes the serializer and opens the transaction. *)
Submit(c, s) ==
    /\ pc[c] = "idle"
    /\ pc' = [pc EXCEPT ![c] = "waiting"]
    /\ request' = [request EXCEPT ![c] = s]
    /\ UNCHANGED <<table, created, lock, draft>>

(* Mutant: Room.objects.get(id=room_id), without select_for_update.        *)
LockRoom_NoLock(c) ==
    /\ pc[c] = "waiting"
    /\ pc' = [pc EXCEPT ![c] = "locked"]
    /\ UNCHANGED <<table, created, lock, request, draft>>

(* Step 1: Room.objects.select_for_update().get(id=room_id).               *)
LockRoom(c) ==
    /\ pc[c] = "waiting"
    /\ lock[request[c].room] = NoClient
    /\ lock' = [lock EXCEPT ![request[c].room] = c]
    /\ pc' = [pc EXCEPT ![c] = "locked"]
    /\ UNCHANGED <<table, created, request, draft>>

(* Mutant: the transaction of a refused request is left open.              *)
Refuse_LeftOpen(c) ==
    /\ pc[c] = "locked"
    /\ Conflicting(request[c])
    /\ pc' = [pc EXCEPT ![c] = "idle"]
    /\ UNCHANGED <<table, created, lock, request, draft>>

(* Step 2 finds a conflict: the request is answered with 409.              *)
Refuse(c) ==
    /\ pc[c] = "locked"
    /\ Conflicting(request[c])
    /\ End(c)
    /\ UNCHANGED <<table, created>>

(* Mutant: the conflict is logged and not returned.                        *)
Insert_Unchecked(c, b) ==
    /\ pc[c] = "locked"
    /\ table[b] = NoRow
    /\ \A d \in Client : draft[d] # b
    /\ draft' = [draft EXCEPT ![c] = b]
    /\ pc' = [pc EXCEPT ![c] = "inserted"]
    /\ UNCHANGED <<table, created, lock, request>>

(* Mutant: the booking is built and not inserted.                          *)
Insert_NotSaved(c, b) ==
    /\ pc[c] = "locked"
    /\ ~Conflicting(request[c])
    /\ table[b] = NoRow
    /\ pc' = [pc EXCEPT ![c] = "inserted"]
    /\ UNCHANGED <<table, created, lock, request, draft>>

(* Mutant: no transaction.atomic, the row is visible as it is inserted.    *)
Insert_Autocommit(c, b) ==
    /\ pc[c] = "locked"
    /\ ~Conflicting(request[c])
    /\ table[b] = NoRow
    /\ table' = [table EXCEPT ![b] =
            [stay |-> request[c], status |-> "pending", deleted |-> FALSE]]
    /\ draft' = [draft EXCEPT ![c] = b]
    /\ pc' = [pc EXCEPT ![c] = "inserted"]
    /\ UNCHANGED <<created, lock, request>>

(* Step 2 finds none and step 3 inserts the row under a key of its own,    *)
(* which the sequence of the table gives to no other transaction.          *)
Insert(c, b) ==
    /\ pc[c] = "locked"
    /\ ~Conflicting(request[c])
    /\ table[b] = NoRow
    /\ \A d \in Client : draft[d] # b
    /\ draft' = [draft EXCEPT ![c] = b]
    /\ pc' = [pc EXCEPT ![c] = "inserted"]
    /\ UNCHANGED <<table, created, lock, request>>

(* Step 4 inserts the audit entry 'created'.                               *)
LogCreation(c) ==
    /\ pc[c] = "inserted"
    /\ pc' = [pc EXCEPT ![c] = "logged"]
    /\ UNCHANGED <<table, created, lock, request, draft>>

(* The atomic block is left: both rows become visible, the lock is free.   *)
Commit(c) ==
    /\ pc[c] = "logged"
    /\ table' = [table EXCEPT ![draft[c]] =
            [stay |-> request[c], status |-> "pending", deleted |-> FALSE]]
    /\ created' = created \cup {draft[c]}
    /\ End(c)

(* Any exception (no such room, a ValidationError of Booking.clean, an     *)
(* IntegrityError, a lost connection) rolls the transaction back.          *)
Fail(c) ==
    /\ pc[c] # "idle"
    /\ End(c)
    /\ UNCHANGED <<table, created>>

----------------------------------------------------------------------------
(* Writers that change rows with one statement.                            *)

Write(b, r) ==
    /\ table' = [table EXCEPT ![b] = r]
    /\ UNCHANGED <<created, lock, pc, request, draft>>

(* The Celery job check_pending_booking_expiry, on a pending row; how old  *)
(* the row is belongs to Housekeeping.                                     *)
ExpirePending(b) ==
    /\ Visible(table[b]) /\ table[b].status = "pending"
    /\ Write(b, [table[b] EXCEPT !.status = "cancelled"])

(* The admin's action mark_confirmed.                                      *)
MarkConfirmed(b) ==
    /\ Visible(table[b]) /\ table[b].status = "pending"
    /\ Write(b, [table[b] EXCEPT !.status = "confirmed"])

(* The admin's action mark_cancelled.                                      *)
MarkCancelled(b) ==
    /\ Visible(table[b]) /\ table[b].status \notin {"cancelled", "completed"}
    /\ Write(b, [table[b] EXCEPT !.status = "cancelled"])

(* Booking.soft_delete, which saves the soft-delete columns only.          *)
SoftDelete(b) ==
    /\ Visible(table[b])
    /\ Write(b, [table[b] EXCEPT !.deleted = TRUE])

(* The row is gone for good, and its audit entries with it (on_delete=     *)
(* CASCADE): bulk deletion in the manager's list, or the Celery clean-up.  *)
HardDelete(b) ==
    /\ Visible(table[b])
    /\ table' = [table EXCEPT ![b] = NoRow]
    /\ created' = created \ {b}
    /\ UNCHANGED <<lock, pc, request, draft>>

----------------------------------------------------------------------------

ClientNext(c) ==
    \/ \E s \in Stay : Submit(c, s)
    \/ LockRoom(c)
    \/ Refuse(c)
    \/ \E b \in Booking : Insert(c, b)
    \/ LogCreation(c)
    \/ Commit(c)
    \/ Fail(c)

WriterNext(b) ==
    \/ ExpirePending(b)
    \/ MarkConfirmed(b)
    \/ MarkCancelled(b)
    \/ SoftDelete(b)
    \/ HardDelete(b)

Next ==
    \/ \E c \in Client : ClientNext(c)
    \/ \E b \in Booking : WriterNext(b)

Spec == Init /\ [][Next]_vars

(* A worker runs its transaction to the end, and PostgreSQL grants a row   *)
(* lock to its waiters in turn: a waiter is not passed over for ever.      *)
Fairness ==
    \A c \in Client :
        /\ SF_vars(LockRoom(c))
        /\ WF_vars(Refuse(c) \/ (\E b \in Booking : Insert(c, b)))
        /\ WF_vars(LogCreation(c))
        /\ WF_vars(Commit(c))

FairSpec == Spec /\ Fairness

----------------------------------------------------------------------------
(* Properties.                                                             *)

(* No two live bookings of a room share a night: what reserve_room says it *)
(* prevents (booking_services.py:3), for any interleaving of requests with *)
(* each other and with the single-statement writers.                       *)
NoDoubleBooking ==
    \A a, b \in Booking :
        a # b /\ Live(table[a]) /\ Live(table[b])
            => ~Overlaps(table[a].stay, table[b].stay)

(* Between the check of step 2 and the commit nothing makes it stale: no   *)
(* live row overlaps the stay of a transaction that has passed it.         *)
CheckStaysValid ==
    \A c \in Client : pc[c] \in {"inserted", "logged"} => ~Conflicting(request[c])

(* Where a client is says what it holds: a stay asked for, the lock of its *)
(* room inside the transaction, and once inserted a key nobody else has.   *)
HoldsWhatItNeeds ==
    \A c \in Client :
        /\ pc[c] # "idle" => request[c] \in Stay
        /\ pc[c] \in InTransaction => lock[request[c].room] = c
        /\ IF pc[c] \in {"inserted", "logged"}
           THEN /\ draft[c] \in Booking
                /\ table[draft[c]] = NoRow
                /\ \A d \in Client : d # c => draft[d] # draft[c]
           ELSE draft[c] = NoBooking

(* A booking made here and its audit entry 'created' come and go together: *)
(* a failure between steps 3 and 4 leaves neither, a deletion takes both.  *)
CreationAudited == created = {b \in Booking : table[b] # NoRow}

(* Every key of the model has a row or is some transaction's draft: the    *)
(* bound of the model, which the sequence of the real table does not have. *)
KeysExhausted ==
    \A b \in Booking : table[b] # NoRow \/ \E c \in Client : draft[c] = b

(* A request that waits for a room is eventually answered, whoever else    *)
(* keeps asking for the same room.                                         *)
EveryRequestAnswered ==
    \A c \in Client : (pc[c] = "waiting") ~> (pc[c] = "idle" \/ KeysExhausted)

(* The ledger entries of the table: the nights of every live row.          *)
Entered ==
    UNION {{b} \X {table[b].stay.room} \X Nights(table[b].stay) :
              b \in {x \in Booking : Live(table[x])}}

Ledger == INSTANCE RoomLedger WITH ledger <- Entered

(* The transaction and its lock implement the ledger of room nights: a     *)
(* stay is taken whole, in one step, and only where it is free.            *)
ImplementsLedger == Ledger!Spec
=============================================================================
