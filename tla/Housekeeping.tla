---------------------------- MODULE Housekeeping ----------------------------
(***************************************************************************)
(* Bookings and the calendar: how old a row is decides when the Celery     *)
(* jobs of bookings/tasks.py expire it or purge it, and how far away its   *)
(* check-in is decides what a guest who cancels gets back.                 *)
(*                                                                         *)
(* What matters here is which writes touch "updated_at".  It is an auto_now*)
(* column: a save() of the whole row sets it, a save(update_fields=...)    *)
(* that does not name it and a queryset.update() leave it alone.           *)
(*                                                                         *)
(* Requests are single steps here; their stale copies are in               *)
(* BookingLifecycle.tla.  The purge is two steps, because a queryset whose *)
(* rows are referred to by others is deleted by first selecting the rows   *)
(* and then deleting them by primary key.                                  *)
(***************************************************************************)
EXTENDS Integers, FiniteSets

CONSTANTS
    Booking,        \* primary keys of table booking
    NoRow,          \* the value of a key that was never used
    Purged,         \* the value of a key whose row was deleted for good
    LastTick,       \* bound of the model: the clock stops here
    TicksPerDay,    \* resolution of the clock
    ExpiryAge,      \* ticks a booking may stay pending, 24 hours
    Retention,      \* days a cancelled booking is kept, 30 in the code
    FreeDays,       \* RefundPolicy.free_cancellation_days
    Schedule        \* RefundPolicy.refund_schedule, percentage by days

Tick == 0..LastTick
Day == 0..(LastTick \div TicksPerDay)
Percent == 0..100
Status == {"pending", "confirmed", "cancelled", "completed"}

(* since and saved are history: when the status last changed, and whether  *)
(* by a save of the whole row.  The code has no such columns.              *)
Row == [status : Status, paid : BOOLEAN, checkIn : Day,
        created : Tick, updated : Tick, since : Tick, saved : BOOLEAN]

ASSUME HousekeepingAssumption ==
    /\ LastTick \in Nat /\ TicksPerDay \in Nat \ {0}
    /\ ExpiryAge \in Nat /\ Retention \in Nat /\ FreeDays \in Nat
    /\ DOMAIN Schedule \subseteq Nat
    /\ \A d \in DOMAIN Schedule : Schedule[d] \in Percent
    /\ NoRow \notin Row /\ Purged \notin Row /\ NoRow # Purged

VARIABLES
    table,      \* rows of table booking, by primary key
    now,        \* timezone.now()
    doomed,     \* keys the running purge has selected
    revived     \* history: keys brought back to life since then

vars == <<table, now, doomed, revived>>

TypeOK ==
    /\ table \in [Booking -> Row \cup {NoRow, Purged}]
    /\ now \in Tick
    /\ doomed \subseteq Booking
    /\ revived \subseteq Booking

Init ==
    /\ table = [b \in Booking |-> NoRow]
    /\ now = 0
    /\ doomed = {}
    /\ revived = {}

DayOf(t) == t \div TicksPerDay
Today == DayOf(now)

Exists(b) == table[b] \notin {NoRow, Purged}

(* Booking.clean, called by every save: the check-in day is not past.      *)
Clean(b) == Today <= table[b].checkIn

----------------------------------------------------------------------------
(* RefundPolicy.calculate_refund; Raises stands for the TypeError.         *)

Raises == -1

DaysUntilCheckIn(b) == table[b].checkIn - Today

(* The percentage of the longest notice that days reaches, 0 if none.      *)
Tier(days) ==
    LET reached == {d \in DOMAIN Schedule : d <= days}
    IN  IF reached = {} THEN 0
        ELSE Schedule[CHOOSE d \in reached : \A e \in reached : e <= d]

(* What the guest gets back, in percent of the total.  The amount of a     *)
(* tier is total_amount * (percentage / 100): a Decimal times a float,     *)
(* which Python refuses whatever the percentage.                           *)
calculate_refund(b) ==
    IF ~table[b].paid THEN 0
    ELSE IF DaysUntilCheckIn(b) >= FreeDays THEN 100
    ELSE Raises

(* What the schedule promises to a paid guest who cancels today.           *)
Promised(b) == IF DaysUntilCheckIn(b) >= FreeDays THEN 100 ELSE Tier(DaysUntilCheckIn(b))

----------------------------------------------------------------------------
(* A save of the whole row, a statement that names one column.             *)

Changed(r, st, whole) ==
    [r EXCEPT !.status = st,
              !.updated = IF whole THEN now ELSE @,
              !.since = IF r.status = st THEN @ ELSE now,
              !.saved = IF r.status = st THEN @ ELSE whole]

SetStatus(b, st, whole) ==
    /\ table' = [table EXCEPT ![b] = Changed(table[b], st, whole)]
    /\ revived' = IF table[b].status = "cancelled" /\ st # "cancelled"
                  THEN revived \cup {b} ELSE revived
    /\ UNCHANGED <<now, doomed>>

(* Mutant: a new booking has a status the table does not know.             *)
Reserve_Draft(b, d) ==
    /\ table[b] = NoRow
    /\ Today <= d
    /\ table' = [table EXCEPT ![b] =
            [status |-> "draft", paid |-> FALSE, checkIn |-> d,
             created |-> now, updated |-> now, since |-> now, saved |-> TRUE]]
    /\ UNCHANGED <<now, doomed, revived>>

(* A guest books a stay that does not begin in the past.                   *)
Reserve(b, d) ==
    /\ table[b] = NoRow
    /\ Today <= d
    /\ table' = [table EXCEPT ![b] =
            [status |-> "pending", paid |-> FALSE, checkIn |-> d,
             created |-> now, updated |-> now, since |-> now, saved |-> TRUE]]
    /\ UNCHANGED <<now, doomed, revived>>

(* confirm_booking saves the whole row.                                    *)
Confirm(b) ==
    /\ Exists(b) /\ table[b].status = "pending" /\ Clean(b)
    /\ SetStatus(b, "confirmed", TRUE)

(* cancel_booking, unless calculate_refund raises.                         *)
CancelByGuest(b) ==
    /\ Exists(b) /\ table[b].status \notin {"cancelled", "completed"}
    /\ Clean(b)
    /\ calculate_refund(b) # Raises
    /\ SetStatus(b, "cancelled", TRUE)

(* The DELETE endpoint, which asks no policy.                              *)
Destroy(b) ==
    /\ Exists(b) /\ table[b].status # "cancelled" /\ Clean(b)
    /\ SetStatus(b, "cancelled", TRUE)

(* The manager's bulk change: update_fields=['status'].                    *)
BulkStatus(b, st) ==
    /\ Exists(b) /\ table[b].status # st /\ Clean(b)
    /\ SetStatus(b, st, FALSE)

(* The webhook of a captured charge, which looks at no status.             *)
Capture(b) ==
    /\ Exists(b) /\ Clean(b)
    /\ table' = [table EXCEPT ![b] =
            [Changed(table[b], "confirmed", TRUE) EXCEPT !.paid = TRUE]]
    /\ revived' = IF table[b].status = "cancelled" THEN revived \cup {b} ELSE revived
    /\ UNCHANGED <<now, doomed>>

(* The admin's actions: statements on the selected rows.                   *)
MarkConfirmed(b) ==
    /\ Exists(b) /\ table[b].status = "pending"
    /\ SetStatus(b, "confirmed", FALSE)

MarkCancelled(b) ==
    /\ Exists(b) /\ table[b].status \notin {"cancelled", "completed"}
    /\ SetStatus(b, "cancelled", FALSE)

MarkPaid(b) ==
    /\ Exists(b) /\ ~table[b].paid
    /\ table' = [table EXCEPT ![b].paid = TRUE]
    /\ UNCHANGED <<now, doomed, revived>>

(* The manager's bulk deletion, the administrator's delete_selected, or the*)
(* cascade of a deleted hotel, room or user: queryset.delete() of rows in  *)
(* any state, not Booking.delete.                                          *)
HardDelete(b) ==
    /\ Exists(b)
    /\ table' = [table EXCEPT ![b] = Purged]
    /\ UNCHANGED <<now, doomed, revived>>

----------------------------------------------------------------------------
(* The Celery jobs.                                                        *)

(* status='pending', created_at__lt=now - 24 hours.                        *)
Overdue(b) ==
    /\ Exists(b) /\ table[b].status = "pending"
    /\ table[b].created < now - ExpiryAge

(* Mutant: the job leaves paid bookings pending.                           *)
ExpirePending_Unpaid ==
    /\ \E b \in Booking : Overdue(b) /\ ~table[b].paid
    /\ table' = [b \in Booking |->
            IF Overdue(b) /\ ~table[b].paid
            THEN Changed(table[b], "cancelled", FALSE) ELSE table[b]]
    /\ UNCHANGED <<now, doomed, revived>>

(* check_pending_booking_expiry: one UPDATE for all overdue rows.          *)
ExpirePending ==
    /\ \E b \in Booking : Overdue(b)
    /\ table' = [b \in Booking |->
            IF Overdue(b) THEN Changed(table[b], "cancelled", FALSE) ELSE table[b]]
    /\ UNCHANGED <<now, doomed, revived>>

(* Mutant: updated_at__date__lte.                                          *)
Purgeable_OnTheDay(b) ==
    /\ Exists(b) /\ table[b].status = "cancelled"
    /\ DayOf(table[b].updated) <= Today - Retention

(* status='cancelled', updated_at__date__lt=today - 30 days.               *)
Purgeable(b) ==
    /\ Exists(b) /\ table[b].status = "cancelled"
    /\ DayOf(table[b].updated) < Today - Retention

(* cleanup_cancelled_bookings selects, then deletes what it selected.      *)
SelectForPurge ==
    /\ doomed = {}
    /\ \E b \in Booking : Purgeable(b)
    /\ doomed' = {b \in Booking : Purgeable(b)}
    /\ revived' = {}
    /\ UNCHANGED <<table, now>>

(* What somebody else deleted in between stays deleted.                    *)
Purge ==
    /\ doomed # {}
    /\ table' = [b \in Booking |-> IF b \in doomed THEN Purged ELSE table[b]]
    /\ doomed' = {}
    /\ UNCHANGED <<now, revived>>

(* The worker dies, or the transaction of the deletion is rolled back.     *)
PurgeFails ==
    /\ doomed # {}
    /\ doomed' = {}
    /\ UNCHANGED <<table, now, revived>>

TimePasses ==
    /\ now < LastTick
    /\ now' = now + 1
    /\ UNCHANGED <<table, doomed, revived>>

----------------------------------------------------------------------------

Request(b) ==
    \/ \E d \in Day : Reserve(b, d)
    \/ Confirm(b)
    \/ CancelByGuest(b)
    \/ Destroy(b)
    \/ \E st \in Status : BulkStatus(b, st)
    \/ Capture(b)
    \/ MarkConfirmed(b)
    \/ MarkCancelled(b)
    \/ MarkPaid(b)
    \/ HardDelete(b)

Job ==
    \/ ExpirePending
    \/ SelectForPurge
    \/ Purge
    \/ PurgeFails

Next ==
    \/ \E b \in Booking : Request(b)
    \/ Job
    \/ TimePasses

Spec == Init /\ [][Next]_vars

(* Celery Beat runs the expiry job again and again.                        *)
FairSpec == Spec /\ WF_vars(ExpirePending)

----------------------------------------------------------------------------
(* Properties.                                                             *)

(* The step deletes b for good, and no person asked for that.              *)
PurgedNow(b) == Exists(b) /\ table'[b] = Purged /\ ~HardDelete(b)

(* A booking does not stay pending past its 24 hours for ever.             *)
OverdueExpires == \A b \in Booking : Overdue(b) ~> ~Overdue(b)

(* What a guest cancelled is kept for the retention period, counted from   *)
(* the cancellation: cancel_booking and the DELETE endpoint save the whole *)
(* row, so updated_at is never older than the cancellation.  Excepted are  *)
(* a booking somebody brought back to life while the purge was running,    *)
(* and the deletions of a manager, which look at no period.                *)
GuestCancellationKept ==
    [][\A b \in Booking :
          PurgedNow(b) /\ b \notin revived /\ table[b].saved
            => DayOf(table[b].since) + Retention < Today]_vars

(* A paid guest who may cancel gets what the schedule says.                *)
ScheduleHonoured ==
    \A b \in Booking :
        /\ Exists(b) /\ table[b].paid /\ Clean(b)
        /\ table[b].status \notin {"cancelled", "completed"}
        => calculate_refund(b) = Promised(b)
=============================================================================
