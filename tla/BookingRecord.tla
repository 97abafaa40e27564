--------------------------- MODULE BookingRecord ---------------------------
(***************************************************************************)
(* The row of table "booking" (bookings/models.py, class Booking), reduced *)
(* to the columns that decide who may sleep where: room, stay, status and  *)
(* the soft-delete flag.  The module has no state: it names the row type,  *)
(* the statuses and the two tests every writer of the table shares.        *)
(***************************************************************************)
EXTENDS Integers

CONSTANTS
    Booking,    \* primary keys of table booking
    Room,       \* primary keys of table room
    Day,        \* calendar days, a set of integers
    NoRow       \* the value of a key that has no row

ASSUME DayAssumption == Day \subseteq Int

Status == {"pending", "confirmed", "cancelled", "completed"}

(* The statuses that occupy a room: status__in=['confirmed', 'pending'].   *)
LiveStatus == {"pending", "confirmed"}

(* A stay is a room for the nights from checkIn up to, but not including,  *)
(* checkOut; the serializer refuses check_in >= check_out.                 *)
Stay == {s \in [room : Room, checkIn : Day, checkOut : Day] :
            s.checkIn < s.checkOut}

Row == [stay : Stay, status : Status, deleted : BOOLEAN]

ASSUME NoRowAssumption == NoRow \notin Row

(* What Booking.objects sees: BookingManager filters is_deleted=False.     *)
Visible(r) == r # NoRow /\ r.deleted = FALSE

Live(r) == Visible(r) /\ r.status \in LiveStatus

(* Mutant: only a row that begins within the new stay counts.              *)
Overlaps_BeginsWithin(s, t) ==
    /\ s.room = t.room
    /\ s.checkIn >= t.checkIn
    /\ s.checkIn < t.checkOut

(* check_in_date__lt=check_out_date, check_out_date__gt=check_in_date.     *)
Overlaps(s, t) ==
    /\ s.room = t.room
    /\ s.checkIn < t.checkOut
    /\ s.checkOut > t.checkIn

Nights(s) == s.checkIn .. (s.checkOut - 1)
=============================================================================
