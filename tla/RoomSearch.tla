----------------------------- MODULE RoomSearch ----------------------------
(***************************************************************************)
(* What the public searches show of a hotel's rooms, next to what the      *)
(* reservation then accepts (core/views.py; bookings/serializers.py and    *)
(* booking_services.py).  The two were written apart: they test different  *)
(* columns and other statuses.  One hotel and one room type; every request *)
(* is one step here, the races between writers of bookings being the       *)
(* matter of Reservation and BookingLifecycle.                             *)
(***************************************************************************)
EXTENDS BookingRecord

CONSTANTS
    MaxCapacity,    \* capacities are 1 .. MaxCapacity, a number above 0
    LastToday       \* the model's last "today"

Guests == 1..MaxCapacity

VARIABLES
    today,
    openHotel,      \* Hotel.is_active
    typeMax,        \* RoomType.max_capacity
    lowered,        \* history: typeMax has been lowered
    room,           \* rows of table room
    table           \* rows of table booking

searchVars == <<today, openHotel, typeMax, lowered, room, table>>

RoomRow == [active : BOOLEAN, maintenance : BOOLEAN, capacity : Guests]

SearchTypeOK ==
    /\ today \in 0..LastToday
    /\ openHotel \in BOOLEAN
    /\ typeMax \in Guests
    /\ lowered \in BOOLEAN
    /\ room \in [Room -> RoomRow]
    /\ table \in [Booking -> Row \cup {NoRow}]

SearchInit ==
    /\ today = 0
    /\ openHotel = TRUE
    /\ typeMax = MaxCapacity
    /\ lowered = FALSE
    /\ room = [r \in Room |-> [active |-> TRUE, maintenance |-> FALSE, capacity |-> MaxCapacity]]
    /\ table = [b \in Booking |-> NoRow]

----------------------------------------------------------------------------
(* Bookings that a room has for a stay.                                    *)

Holding(s, statuses) ==
    {b \in Booking : /\ Visible(table[b])
                     /\ table[b].status \in statuses
                     /\ Overlaps(table[b].stay, s)}

(* The searches: what each shows of a room for a stay and a party.         *)

Bookable(r) == room[r].active /\ ~room[r].maintenance

(* Mutant: a stay that ends on the day of arrival is in the way.           *)
Found_Touching(s, guests) ==
    /\ openHotel
    /\ guests <= typeMax
    /\ Bookable(s.room)
    /\ ~\E b \in Booking :
            /\ Visible(table[b]) /\ table[b].status = "confirmed"
            /\ table[b].stay.room = s.room
            /\ table[b].stay.checkIn < s.checkOut
            /\ table[b].stay.checkOut >= s.checkIn

(* GET hotels/search-availability/: 'checked_in' is among the statuses it  *)
(* asks for and no booking can have it; pending is not.                    *)
Found(s, guests) ==
    /\ openHotel
    /\ guests <= typeMax
    /\ Bookable(s.room)
    /\ Holding(s, {"confirmed", "checked_in"}) = {}

(* GET hotels/search-capacity/, without a hotel: of every hotel, open or   *)
(* not, and of rooms in maintenance, too.  With the hotel's id it answers  *)
(* 400, for the id is no integer.                                          *)
FoundByCapacity(r, guests) == room[r].active /\ guests <= room[r].capacity

(* GET hotels/search-flexible/ without dates.  With dates it fails for     *)
(* every hotel that has a room type large enough: it filters bookings by   *)
(* columns they do not have.                                               *)
FoundFlexibly(r, guests) ==
    /\ openHotel
    /\ guests <= typeMax
    /\ Bookable(r)
    /\ guests <= room[r].capacity

(* GET hotels/<hotel>/rooms/                                               *)
Listed(r) == openHotel /\ Bookable(r)

(* POST bookings/create/: what the serializer and reserve_room ask.  None  *)
(* of them looks at the hotel's or the room's flags.                       *)
Accepted(s, guests) ==
    /\ today <= s.checkIn
    /\ guests <= room[s.room].capacity
    /\ Holding(s, LiveStatus) = {}

----------------------------------------------------------------------------
Put(b, r) ==
    /\ table' = [table EXCEPT ![b] = r]
    /\ UNCHANGED <<today, openHotel, typeMax, lowered, room>>

ApiReserve(b, s, guests) ==
    /\ table[b] = NoRow
    /\ Accepted(s, guests)
    /\ Put(b, [stay |-> s, status |-> "pending", deleted |-> FALSE])

(* BookingForm, for a new booking or one that is there: an overlap with    *)
(* another live booking is refused whatever the status to be saved is; no  *)
(* flag is looked at here either.                                          *)
DeskSave(b, s, status) ==
    /\ table[b] = NoRow \/ Visible(table[b])
    /\ today <= s.checkIn
    /\ Holding(s, LiveStatus) \ {b} = {}
    /\ Put(b, [stay |-> s, status |-> status, deleted |-> FALSE])

(* The bulk update and other saves, up to the day of arrival (after it     *)
(* Booking.clean refuses them), and the admin's and the jobs' updates.     *)
SetStatus(b, status) ==
    /\ Visible(table[b])
    /\ \/ today <= table[b].stay.checkIn
       \/ table[b].status = "pending" /\ status = "confirmed"
       \/ table[b].status \in LiveStatus /\ status = "cancelled"
    /\ Put(b, [table[b] EXCEPT !.status = status])

(* Soft deletion: the row stays and none of the queries above sees it.     *)
Remove(b) ==
    /\ Visible(table[b])
    /\ Put(b, [table[b] EXCEPT !.deleted = TRUE])

(* RoomForm and the admin's form run Room.clean.                           *)
SaveRoom(r, row) ==
    /\ row.capacity <= typeMax
    /\ room' = [room EXCEPT ![r] = row]
    /\ UNCHANGED <<today, openHotel, typeMax, lowered, table>>

(* The admin's actions on rooms: queryset.update(), which runs no clean(). *)
SetFlags(r, active, maintenance) ==
    /\ room' = [room EXCEPT ![r].active = active, ![r].maintenance = maintenance]
    /\ UNCHANGED <<today, openHotel, typeMax, lowered, table>>

(* RoomTypeForm does not look at the rooms of the type.                    *)
SaveType(max) ==
    /\ typeMax' = max
    /\ lowered' = (lowered \/ max < typeMax)
    /\ UNCHANGED <<today, openHotel, room, table>>

SaveHotel(active) ==
    /\ openHotel' = active
    /\ UNCHANGED <<today, typeMax, lowered, room, table>>

NextDay ==
    /\ today < LastToday
    /\ today' = today + 1
    /\ UNCHANGED <<openHotel, typeMax, lowered, room, table>>

SearchNext ==
    \/ \E b \in Booking, s \in Stay, guests \in Guests : ApiReserve(b, s, guests)
    \/ \E b \in Booking, s \in Stay, status \in Status : DeskSave(b, s, status)
    \/ \E b \in Booking, status \in Status : SetStatus(b, status)
    \/ \E b \in Booking : Remove(b)
    \/ \E r \in Room, row \in RoomRow : SaveRoom(r, row)
    \/ \E r \in Room, active, maintenance \in BOOLEAN : SetFlags(r, active, maintenance)
    \/ \E max \in Guests : SaveType(max)
    \/ \E active \in BOOLEAN : SaveHotel(active)
    \/ NextDay

SearchSpec == SearchInit /\ [][SearchNext]_searchVars

----------------------------------------------------------------------------
(* Properties.                                                             *)

(* core/views.py 1459-1478 and booking_services.py 50-55 decide on the     *)
(* same table by different tests.  A room that may be reserved and is in   *)
(* order is shown, unless the party is larger than its type admits, which  *)
(* needs a type that was lowered under its rooms.  A room that is shown    *)
(* and not to be had is held by a booking that is not yet confirmed, is    *)
(* too small, or is asked for a day that is over.  And a room shown for a  *)
(* stay and large enough is shown by the searches without dates.           *)
SearchMatchesReserve ==
    \A s \in Stay, guests \in Guests :
        /\ Accepted(s, guests) /\ Listed(s.room) =>
              Found(s, guests) \/ (lowered /\ guests > typeMax)
        /\ Found(s, guests) /\ ~Accepted(s, guests) =>
              \/ Holding(s, {"pending"}) # {}
              \/ guests > room[s.room].capacity
              \/ s.checkIn < today
        /\ Found(s, guests) /\ guests <= room[s.room].capacity =>
              FoundFlexibly(s.room, guests) /\ FoundByCapacity(s.room, guests)
=============================================================================
