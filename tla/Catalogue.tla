----------------------------- MODULE Catalogue ------------------------------
(***************************************************************************)
(* The rows the desk maintains: hotels, room types, rooms and what belongs *)
(* to them, up to bookings and offers.  Forms load a row (or none), check  *)
(* the rows they refer to, and save all columns; deleting collects what    *)
(* refers to the selected rows through foreign keys with on_delete=CASCADE *)
(* and removes it in a second step.  The database refuses, at the commit,  *)
(* a row that refers to none.                                              *)
(*                                                                         *)
(* History: touched, in a request that deletes, is the set of rows other   *)
(* requests have saved since it collected; parted holds the bookings and   *)
(* rooms the desk's forms have given a hotel or room of their own choice.  *)
(***************************************************************************)
EXTENDS FiniteSets

CONSTANTS
    Row,            \* primary keys of all tables
    Kind,           \* the table each belongs to
    Batch,          \* sets of keys; the keys of one are handed out in a run
    User,           \* requests of the desk that may be in progress
    NoRow           \* no row, no request

(* The tables a table refers to with on_delete=CASCADE.                    *)
HotelRefs == {}
RoomTypeRefs == {}
RoomRefs == {"hotel", "room_type"}
AmenityRefs == {}
TypeAmenityRefs == {"room_type", "amenity"}
ExtraRefs == {"hotel"}
SeasonRefs == {"hotel", "room_type"}
BookingRefs == {"hotel", "room"}
PolicyRefs == {"hotel"}
CategoryRefs == {}
OfferRefs == {"hotel"}
HighlightRefs == {"offer"}
ApplicationRefs == {"offer"}

Refs == [hotel |-> HotelRefs, room_type |-> RoomTypeRefs, room |-> RoomRefs,
         amenity |-> AmenityRefs, type_amenity |-> TypeAmenityRefs,
         extra |-> ExtraRefs, season |-> SeasonRefs, booking |-> BookingRefs,
         policy |-> PolicyRefs, category |-> CategoryRefs, offer |-> OfferRefs,
         highlight |-> HighlightRefs, application |-> ApplicationRefs]

ASSUME CatalogueAssumption == Kind \in [Row -> DOMAIN Refs] /\ Batch \subseteq SUBSET Row

(* parts: a form has chosen the parents of a booking, or other parents for *)
(* a room.                                                                 *)
Saving == [op : {"save"}, key : Row, copy : SUBSET Row, parts : BOOLEAN]
Deleting == [op : {"delete"}, roots : SUBSET Row, doomed : SUBSET Row, touched : SUBSET Row]

ASSUME NoRowAssumption ==
    /\ NoRow \notin Row \cup Saving \cup Deleting
    /\ \A rows \in SUBSET Row : rows # NoRow

VARIABLES
    keys,           \* the batch of this run
    used,           \* keys handed out (uuid4: none is handed out twice)
    table,          \* the rows; of a row, the rows it refers to
    desk,           \* the requests
    parted

catVars == <<keys, used, table, desk, parted>>

In(k) == table[k] # NoRow

CatTypeOK ==
    /\ keys \in Batch
    /\ used \subseteq keys
    /\ DOMAIN table = Row /\ \A k \in Row : In(k) => table[k] \subseteq Row
    /\ desk \in [User -> Saving \cup Deleting \cup {NoRow}]
    /\ parted \subseteq Row

CatInit ==
    /\ keys \in Batch
    /\ used = {}
    /\ table = [k \in Row |-> NoRow]
    /\ desk = [w \in User |-> NoRow]
    /\ parted = {}

----------------------------------------------------------------------------
OfKind(t) == {k \in keys : Kind[k] = t}

(* One row of each table a row of this table refers to.                    *)
Choices(k) ==
    {parents \in SUBSET {p \in keys : In(p) /\ Kind[p] \in Refs[Kind[k]]} :
        \A t \in Refs[Kind[k]] : Cardinality(parents \cap OfKind(t)) = 1}

(* The rows that refer to one of ks, and so on: no chain of foreign keys   *)
(* is longer than hotel, room, booking.                                    *)
Children(ks) == {k \in Row : In(k) /\ table[k] \cap ks # {}}

(* Mutant: a row takes the rows it refers to with it.                      *)
Below_Upwards(ks) ==
    ks \cup Children(ks) \cup UNION {table[k] : k \in {c \in ks : In(c)}}

Below(ks) ==
    LET one == ks \cup Children(ks)
        two == one \cup Children(one)
    IN two \cup Children(two)

Saved(k) ==
    [w \in User |->
        IF desk[w] # NoRow /\ desk[w].op = "delete"
        THEN [desk[w] EXCEPT !.touched = @ \cup {k}] ELSE desk[w]]

----------------------------------------------------------------------------
Load(w, k, copy, parts) ==
    /\ desk[w] = NoRow
    /\ In(k) \/ k \notin used
    /\ used' = used \cup {k}
    /\ desk' = [desk EXCEPT ![w] = [op |-> "save", key |-> k, copy |-> copy, parts |-> parts]]
    /\ UNCHANGED <<keys, table, parted>>

(* A form of the desk, for a new row or one that exists: its choice fields *)
(* accept rows that exist when it is checked.                              *)
LoadForm(w, k, parents) ==
    Load(w, k, parents, \/ Kind[k] = "booking"
                        \/ Kind[k] = "room" /\ In(k) /\ table[k] # parents)

(* Mutant: the serializer accepts any hotel beside the room.               *)
ApiBooking_AnyHotel(w, k, parents) ==
    /\ Kind[k] = "booking" /\ ~In(k)
    /\ Load(w, k, parents, FALSE)

(* The API's booking: the serializer has compared room.hotel with hotel.   *)
ApiBooking(w, k, parents) ==
    /\ Kind[k] = "booking" /\ ~In(k)
    /\ \A r \in parents \cap OfKind("room") : table[r] \cap parents # {}
    /\ Load(w, k, parents, FALSE)

(* update_housekeeping_status('clean') of a room in the list: the instance *)
(* is saved whole.                                                         *)
MarkClean(w, k) ==
    /\ Kind[k] = "room" /\ In(k)
    /\ Load(w, k, table[k], FALSE)

Parted(w) == IF desk[w].parts THEN parted \cup {desk[w].key} ELSE parted

(* Mutant: the foreign keys are not constraints of the database.           *)
SaveForm_Unchecked(w) ==
    /\ desk[w] # NoRow /\ desk[w].op = "save"
    /\ table' = [table EXCEPT ![desk[w].key] = desk[w].copy]
    /\ parted' = Parted(w)
    /\ desk' = [Saved(desk[w].key) EXCEPT ![w] = NoRow]
    /\ UNCHANGED <<keys, used>>

(* Mutant: a foreign key may be null.                                      *)
SaveForm_Null(w) ==
    /\ desk[w] # NoRow /\ desk[w].op = "save"
    /\ \A p \in desk[w].copy : In(p)
    /\ table' = [table EXCEPT ![desk[w].key] = desk[w].copy \cup {NoRow}]
    /\ parted' = Parted(w)
    /\ desk' = [Saved(desk[w].key) EXCEPT ![w] = NoRow]
    /\ UNCHANGED <<keys, used>>

(* save(): an update of all columns, or a new row when there is none (any  *)
(* more).  A parent that has gone meanwhile is an IntegrityError, which    *)
(* the views turn into a message: a Leave.                                 *)
SaveForm(w) ==
    /\ desk[w] # NoRow /\ desk[w].op = "save"
    /\ \A p \in desk[w].copy : In(p)
    /\ table' = [table EXCEPT ![desk[w].key] = desk[w].copy]
    /\ parted' = Parted(w)
    /\ desk' = [Saved(desk[w].key) EXCEPT ![w] = NoRow]
    /\ UNCHANGED <<keys, used>>

(* delete() of some rows: the collector reads what hangs below them.       *)
Collect(w, roots) ==
    /\ desk[w] = NoRow
    /\ roots # {} /\ \A k \in roots : In(k)
    /\ desk' = [desk EXCEPT ![w] =
            [op |-> "delete", roots |-> roots, doomed |-> Below(roots), touched |-> {}]]
    /\ UNCHANGED <<keys, used, table, parted>>

(* The rows collected are deleted by key, in one transaction, which fails  *)
(* when a row added or moved since refers to one of them: a Leave.         *)
Remove(w) ==
    /\ desk[w] # NoRow /\ desk[w].op = "delete"
    /\ \A k \in Row \ desk[w].doomed : In(k) => table[k] \cap desk[w].doomed = {}
    /\ table' = [k \in Row |-> IF k \in desk[w].doomed THEN NoRow ELSE table[k]]
    /\ desk' = [desk EXCEPT ![w] = NoRow]
    /\ UNCHANGED <<keys, used, parted>>

(* A refusal, an error, or the end of the process.                         *)
Leave(w) ==
    /\ desk[w] # NoRow
    /\ desk' = [desk EXCEPT ![w] = NoRow]
    /\ UNCHANGED <<keys, used, table, parted>>

----------------------------------------------------------------------------
(* The desk's pages: create, update and delete views, and the list with    *)
(* its deletion of all rows selected.                                      *)
FormViews(w, t) ==
    \E k \in OfKind(t) : \E parents \in Choices(k) : LoadForm(w, k, parents)

DeleteView(w, t) == \E k \in OfKind(t) : Collect(w, {k})

BulkDelete(w, t) == \E ks \in SUBSET OfKind(t) : Collect(w, ks)

Views(w, t) == FormViews(w, t) \/ DeleteView(w, t) \/ BulkDelete(w, t)

HotelViews(w) == Views(w, "hotel")
RoomTypeViews(w) == Views(w, "room_type")
RoomViews(w) == Views(w, "room")
ExtraViews(w) == Views(w, "extra")
AmenityViews(w) == Views(w, "amenity")
TypeAmenityViews(w) == Views(w, "type_amenity")
SeasonViews(w) == Views(w, "season")
OfferViews(w) == Views(w, "offer")
CategoryViews(w) == Views(w, "category")
HighlightViews(w) == Views(w, "highlight")

(* The page that deletes one booking only hides it (Booking.delete()); the *)
(* list's deletion is the queryset's, which removes it.                    *)
BookingViews(w) == FormViews(w, "booking") \/ BulkDelete(w, "booking")

(* The policy of a hotel is made when it is looked at.                     *)
PolicyView(w) == FormViews(w, "policy")

(* An offer is applied for through the API.                                *)
ApplicationView(w) == FormViews(w, "application")

(* seed_demo: all other hotels go, and all rooms of its own (to be made    *)
(* again), with whatever hangs below them.                                 *)
Seed(w) ==
    \E h \in OfKind("hotel") :
        \/ Collect(w, {k \in OfKind("hotel") : In(k)} \ {h})
        \/ Collect(w, Children({h}) \cap OfKind("room"))

CatNext ==
    \E w \in User :
           \/ HotelViews(w) \/ RoomTypeViews(w) \/ RoomViews(w) \/ ExtraViews(w)
           \/ AmenityViews(w) \/ TypeAmenityViews(w) \/ SeasonViews(w)
           \/ BookingViews(w) \/ PolicyView(w) \/ OfferViews(w) \/ CategoryViews(w)
           \/ HighlightViews(w) \/ ApplicationView(w) \/ Seed(w)
           \/ \E k \in keys : MarkClean(w, k)
           \/ \E k \in keys : \E parents \in Choices(k) : ApiBooking(w, k, parents)
           \/ SaveForm(w)
           \/ Remove(w)
           \/ Leave(w)

CatSpec == CatInit /\ [][CatNext]_catVars

----------------------------------------------------------------------------
(* Properties.                                                             *)

(* Whatever is deleted, added, moved and saved late at the same time, each *)
(* row's hotel, room, room type or offer exists: a deletion that missed a  *)
(* new row fails as a whole, and a form saved after its hotel went fails.  *)
NoDangling == \A k \in Row : In(k) => \A p \in table[k] : In(p)

(* A row disappears because it was selected, with a row it refers to, or - *)
(* as the keys to delete are collected first - although another request    *)
(* has moved it elsewhere meanwhile; the rows beside it stay.              *)
RowsGoWithParents ==
    [][\A k \in Row : (In(k) /\ table'[k] = NoRow) =>
          \E w \in User :
              /\ desk[w] # NoRow /\ desk[w].op = "delete" /\ desk'[w] = NoRow
              /\ \/ k \in desk[w].roots \cup desk[w].touched
                 \/ \E p \in table[k] : table'[p] = NoRow]_catVars

(* The hotel of a booking is the hotel of its room, unless a form of the   *)
(* desk has entered the booking or moved the room: the form compares the   *)
(* two nowhere, and deleting either hotel then deletes the booking.        *)
HotelOfRoom ==
    \A b \in OfKind("booking") : In(b) =>
        \/ b \in parted
        \/ \E r \in table[b] \cap OfKind("room") :
               r \in parted \/ table[r] \cap table[b] # {}
=============================================================================
