-------------------------- MODULE BookingLifecycle --------------------------
(***************************************************************************)
(* What happens to a booking after it was reserved.  The API's endpoints   *)
(* and the manager's views load a row, decide on what they loaded, change  *)
(* it in memory and save it: nothing locks the row in between, nothing     *)
(* compares its "version" column, and each statement commits on its own.   *)
(* So a request works on a copy that may be out of date when it is saved,  *)
(* and save() without update_fields writes every column of the copy.       *)
(*                                                                         *)
(* Ops says which requests a run contains, so that a run can ask which     *)
(* combinations of them are harmless.                                      *)
(***************************************************************************)
EXTENDS BookingRecord

CONSTANTS
    Worker,     \* requests that may be in progress at the same time
    Ops,        \* the requests the run contains, a subset of AllOps
    Idle        \* the job of a worker that has none

AllOps == {"reserve", "confirm", "cancel", "update", "destroy",
           "bulk", "softdelete", "create", "edit", "admin", "expire", "purge"}

(* When the instance was loaded or built, when the check of its dates has  *)
(* passed, when its row was saved, when its refund record was created.     *)
Stage == {"loaded", "checked", "saved", "refunded"}

(* A request in progress: the key and the in-memory instance of its row.   *)
Job == [op : Ops, at : Stage, key : Booking, row : Row]

ASSUME OpsAssumption == Ops \subseteq AllOps /\ Idle \notin Job

VARIABLES
    table,      \* committed rows of table booking
    refunded,   \* keys that have a row in table booking_refund
    recorded,   \* audit entries 'cancelled' of each booking
    today,      \* timezone.now().date()
    job         \* what each worker is doing

vars == <<table, refunded, recorded, today, job>>

TypeOK ==
    /\ table \in [Booking -> Row \cup {NoRow}]
    /\ refunded \subseteq Booking
    /\ recorded \in [Booking -> Nat]
    /\ today \in Day
    /\ job \in [Worker -> Job \cup {Idle}]

Init ==
    /\ table = [b \in Booking |-> NoRow]
    /\ refunded = {}
    /\ recorded = [b \in Booking |-> 0]
    /\ today \in {d \in Day : \A e \in Day : d <= e}
    /\ job = [w \in Worker |-> Idle]

----------------------------------------------------------------------------
Terminal == {"cancelled", "completed"}

(* valid_transitions of BookingUpdateSerializer.validate_status.           *)
ValidTransition ==
    {<<"pending", "confirmed">>, <<"pending", "cancelled">>,
     <<"confirmed", "completed">>, <<"confirmed", "cancelled">>}

(* Mutant: a status the table does not know.                               *)
WithStatus_Misspelt(r, st) ==
    [r EXCEPT !.status = IF st = "cancelled" THEN "canceled" ELSE st]

WithStatus(r, st) == [r EXCEPT !.status = st]

(* Booking.clean refuses a check-in date in the past, at every save.       *)
Clean(r) == today <= r.stay.checkIn

(* Mutant: the form looks for confirmed bookings only.                     *)
ConflictsBeside_Confirmed(s, b) ==
    \E x \in Booking \ {b} :
        Live(table[x]) /\ table[x].status = "confirmed" /\ Overlaps(table[x].stay, s)

(* A live row other than b's overlaps the stay.                            *)
ConflictsBeside(s, b) ==
    \E x \in Booking \ {b} : Live(table[x]) /\ Overlaps(table[x].stay, s)

(* A key the sequence of the table has not given to anybody.               *)
Unused(b) ==
    table[b] = NoRow /\ \A w \in Worker : job[w] # Idle => job[w].key # b

(* reserve_room holds SELECT ... FOR UPDATE on the room's row.             *)
RoomLocked(room) ==
    \E w \in Worker :
        job[w] # Idle /\ job[w].op = "reserve" /\ job[w].row.stay.room = room

Begin(w, op, at, b, r) ==
    /\ op \in Ops
    /\ job[w] = Idle
    /\ job' = [job EXCEPT ![w] = [op |-> op, at |-> at, key |-> b, row |-> r]]
    /\ UNCHANGED <<table, refunded, recorded, today>>

Advance(w, at) == job' = [job EXCEPT ![w].at = at]

End(w) == job' = [job EXCEPT ![w] = Idle]

----------------------------------------------------------------------------
(* Requests that load a row and decide.                                    *)

(* POST .../confirm/: confirm_booking of a pending booking.                *)
LoadToConfirm(w, b) ==
    /\ Visible(table[b]) /\ table[b].status = "pending"
    /\ Begin(w, "confirm", "checked", b, WithStatus(table[b], "confirmed"))

(* POST .../cancel/: cancel_booking, not after the check-in date.          *)
LoadToCancel(w, b) ==
    /\ Visible(table[b]) /\ table[b].status \notin Terminal
    /\ today <= table[b].stay.checkIn
    /\ Begin(w, "cancel", "checked", b, WithStatus(table[b], "cancelled"))

(* PATCH .../update/, with the status as it is or a valid transition.      *)
LoadToUpdate(w, b, st) ==
    /\ Visible(table[b])
    /\ st = table[b].status \/ <<table[b].status, st>> \in ValidTransition
    /\ Begin(w, "update", "checked", b, WithStatus(table[b], st))

(* Mutant: the instance is saved before its status is set.                 *)
LoadToDestroy_SavedFirst(w, b) ==
    /\ Visible(table[b]) /\ table[b].status # "cancelled"
    /\ Begin(w, "destroy", "checked", b, table[b])

(* DELETE .../delete/: anything but a cancelled booking is cancelled.      *)
LoadToDestroy(w, b) ==
    /\ Visible(table[b]) /\ table[b].status # "cancelled"
    /\ Begin(w, "destroy", "checked", b, WithStatus(table[b], "cancelled"))

(* The manager's bulk status change, which knows no transitions.           *)
LoadToBulk(w, b, st) ==
    /\ Visible(table[b]) /\ table[b].status # st
    /\ Begin(w, "bulk", "checked", b, WithStatus(table[b], st))

(* The manager's delete view, Booking.delete and soft_delete.              *)
LoadToSoftDelete(w, b) ==
    /\ Visible(table[b])
    /\ Begin(w, "softdelete", "checked", b, [table[b] EXCEPT !.deleted = TRUE])

(* The manager's booking form on a row: it posts the stay and the status.  *)
LoadToEdit(w, b, s, st) ==
    /\ Visible(table[b])
    /\ Begin(w, "edit", "loaded", b, [stay |-> s, status |-> st, deleted |-> FALSE])

(* The manager's booking form for a new row.                               *)
OpenCreate(w, b, s, st) ==
    /\ Unused(b)
    /\ Begin(w, "create", "loaded", b, [stay |-> s, status |-> st, deleted |-> FALSE])

(* BookingForm.clean: no live row of another booking overlaps.             *)
CheckForm(w) ==
    /\ job[w] # Idle /\ job[w].at = "loaded"
    /\ ~ConflictsBeside(job[w].row.stay, job[w].key)
    /\ Advance(w, "checked")
    /\ UNCHANGED <<table, refunded, recorded, today>>

(* reserve_room up to its insertion, see Reservation.tla.                  *)
Reserve(w, b, s) ==
    /\ Unused(b)
    /\ ~RoomLocked(s.room)
    /\ ~ConflictsBeside(s, b)
    /\ Begin(w, "reserve", "checked", b,
             [stay |-> s, status |-> "pending", deleted |-> FALSE])

----------------------------------------------------------------------------
(* The save, and what cancel_booking does after it.                        *)

(* The row a save leaves: the columns named by update_fields, or all.      *)
Saved(j) ==
    CASE j.op = "bulk" -> [table[j.key] EXCEPT !.status = j.row.status]
      [] j.op = "softdelete" -> [table[j.key] EXCEPT !.deleted = TRUE]
      [] OTHER -> j.row

(* save() validates the instance, then updates the row.  Without a row,    *)
(* update_fields is an error and a full save inserts the instance anew.    *)
(* A new reference to a room waits for whoever has locked the room.        *)
Save(w) ==
    LET j == job[w] IN
    /\ j # Idle /\ j.at = "checked"
    /\ Clean(j.row)
    /\ j.op \in {"bulk", "softdelete"} => table[j.key] # NoRow
    /\ \/ j.op = "reserve"
       \/ table[j.key] # NoRow /\ table[j.key].stay.room = Saved(j).stay.room
       \/ ~RoomLocked(j.row.stay.room)
    /\ table' = [table EXCEPT ![j.key] = Saved(j)]
    /\ IF j.op = "cancel" THEN Advance(w, "saved") ELSE End(w)
    /\ UNCHANGED <<refunded, recorded, today>>

(* Mutant: booking is a ForeignKey of BookingRefund.                       *)
CreateRefund_AnyNumber(w) ==
    /\ job[w] # Idle /\ job[w].at = "saved"
    /\ table[job[w].key] # NoRow
    /\ refunded' = refunded \cup {job[w].key}
    /\ Advance(w, "refunded")
    /\ UNCHANGED <<table, recorded, today>>

(* BookingRefund.objects.create: one refund per booking (OneToOneField).   *)
CreateRefund(w) ==
    /\ job[w] # Idle /\ job[w].at = "saved"
    /\ table[job[w].key] # NoRow
    /\ job[w].key \notin refunded
    /\ refunded' = refunded \cup {job[w].key}
    /\ Advance(w, "refunded")
    /\ UNCHANGED <<table, recorded, today>>

(* The audit entry 'cancelled', and cancel_booking answers success.        *)
RecordCancellation(w) ==
    /\ job[w] # Idle /\ job[w].at = "refunded"
    /\ table[job[w].key] # NoRow
    /\ recorded' = [recorded EXCEPT ![job[w].key] = @ + 1]
    /\ End(w)
    /\ UNCHANGED <<table, refunded, today>>

(* A validation or database error, or the end of the process: what was     *)
(* saved before stays, the rest is not done.                               *)
Break(w) ==
    /\ job[w] # Idle
    /\ End(w)
    /\ UNCHANGED <<table, refunded, recorded, today>>

----------------------------------------------------------------------------
(* Writers that change rows with one statement, and the calendar.          *)

Write(b, r) ==
    /\ table' = [table EXCEPT ![b] = r]
    /\ UNCHANGED <<refunded, recorded, today, job>>

(* Mutant: mark_confirmed does not filter on status='pending'.             *)
MarkConfirmed_Any(b) ==
    /\ "admin" \in Ops
    /\ Visible(table[b])
    /\ Write(b, WithStatus(table[b], "confirmed"))

(* The admin's actions mark_confirmed and mark_cancelled.                  *)
MarkConfirmed(b) ==
    /\ "admin" \in Ops
    /\ Visible(table[b]) /\ table[b].status = "pending"
    /\ Write(b, WithStatus(table[b], "confirmed"))

MarkCancelled(b) ==
    /\ "admin" \in Ops
    /\ Visible(table[b]) /\ table[b].status \notin Terminal
    /\ Write(b, WithStatus(table[b], "cancelled"))

(* The Celery job check_pending_booking_expiry, on a row old enough.       *)
ExpirePending(b) ==
    /\ "expire" \in Ops
    /\ Visible(table[b]) /\ table[b].status = "pending"
    /\ Write(b, WithStatus(table[b], "cancelled"))

(* Deletion for good, with the rows that refer to the booking (CASCADE).   *)
HardDelete(b) ==
    /\ "purge" \in Ops
    /\ Visible(table[b])
    /\ table' = [table EXCEPT ![b] = NoRow]
    /\ refunded' = refunded \ {b}
    /\ recorded' = [recorded EXCEPT ![b] = 0]
    /\ UNCHANGED <<today, job>>

Midnight ==
    /\ today + 1 \in Day
    /\ today' = today + 1
    /\ UNCHANGED <<table, refunded, recorded, job>>

----------------------------------------------------------------------------

Request(w, b) ==
    \/ LoadToConfirm(w, b)
    \/ LoadToCancel(w, b)
    \/ LoadToDestroy(w, b)
    \/ LoadToSoftDelete(w, b)
    \/ \E st \in Status : LoadToUpdate(w, b, st) \/ LoadToBulk(w, b, st)
    \/ \E s \in Stay, st \in Status : LoadToEdit(w, b, s, st) \/ OpenCreate(w, b, s, st)
    \/ \E s \in Stay : Reserve(w, b, s)

WorkerNext(w) ==
    \/ \E b \in Booking : Request(w, b)
    \/ CheckForm(w)
    \/ Save(w)
    \/ CreateRefund(w)
    \/ RecordCancellation(w)
    \/ Break(w)

StatementNext(b) ==
    \/ MarkConfirmed(b)
    \/ MarkCancelled(b)
    \/ ExpirePending(b)
    \/ HardDelete(b)

Next ==
    \/ \E w \in Worker : WorkerNext(w)
    \/ \E b \in Booking : StatementNext(b)
    \/ Midnight

Spec == Init /\ [][Next]_vars

----------------------------------------------------------------------------
(* Properties.                                                             *)

(* Requests that take no night but through reserve_room.                   *)
Releasing == {"reserve", "cancel", "destroy", "softdelete", "admin", "expire", "purge"}

(* Two live bookings of a room never share a night.  It holds for the      *)
(* requests of Releasing, however old their copies are; it fails as soon   *)
(* as a stale copy can put nights back, or a form is used.                 *)
NoDoubleBooking ==
    \A a, b \in Booking :
        a # b /\ Live(table[a]) /\ Live(table[b])
            => ~Overlaps(table[a].stay, table[b].stay)

(* A booking that has given its nights back never takes them again: only   *)
(* reserve_room makes a row live, and only a new one.  Requests that save  *)
(* the whole of an old copy keep this as long as the copy they save is     *)
(* itself not live, also over a row that was deleted in between.           *)
NightsStayReleased ==
    [][\A b \in Booking :
          Live(table'[b]) /\ ~Live(table[b])
            => table[b] = NoRow /\ table'[b].status = "pending"]_vars

(* cancel_booking succeeds once for a booking, however many callers race   *)
(* and whoever brings it back to life in between; and a success has its    *)
(* refund record.                                                          *)
CancelledOnce ==
    \A b \in Booking :
        /\ recorded[b] <= 1
        /\ recorded[b] = 1 => b \in refunded

(* The receiver of post_save mails "Thank You for Staying" (signals.py:31) *)
(* when a booking is saved as completed, as if the stay were over by then. *)
(* It never is: Booking.clean refuses every save after the check-in date,  *)
(* so 'completed' is only ever written up to the day the guest arrives.    *)
(* Only the bulk change, which saves the status alone, may write it later: *)
(* when an edit has moved the stay to days before those of the copy that   *)
(* was validated.                                                          *)
CompletedOnlyBeforeArrival ==
    [][\A b \in Booking :
          /\ table'[b] # NoRow /\ table'[b].status = "completed"
          /\ table[b] = NoRow \/ table[b].status # "completed"
          => \/ today <= table'[b].stay.checkIn
             \/ \E w \in Worker :
                   /\ job[w] # Idle /\ job[w].key = b /\ job[w].op = "bulk"
                   /\ job'[w] = Idle /\ today <= job[w].row.stay.checkIn]_vars

(* A cancelled booking has its refund record unless a cancellation of it   *)
(* is still running: the "transactional safety" booking_services.py:2      *)
(* announces for its services.                                             *)
CancelledHasRefund ==
    \A b \in Booking :
        table[b] # NoRow /\ table[b].status = "cancelled" =>
            \/ b \in refunded
            \/ \E w \in Worker : job[w] # Idle /\ job[w].key = b /\ job[w].op = "cancel"
=============================================================================
