------------------------------ MODULE MCOffice ------------------------------
(* Four components that share no state but the clock, checked in one run:  *)
(* the topic of a behaviour is chosen at the start, so their state spaces  *)
(* add up.                                                                 *)
EXTENDS Notifications, RefundDesk, Offers

CONSTANTS Slot, Room, NoRow, MaxCapacity

(* The serializer of the calculation has no least price.                   *)
Prices == {-2, 2}

ASSUME SlotAssumption == MaxCapacity \in Nat \ {0}

VARIABLES topic, openHotel, typeMax, lowered, room, table

Rooms == INSTANCE RoomSearch WITH Booking <- Slot

searchRest == <<openHotel, typeMax, lowered, room, table>>
offerRest == <<offer, checked>>

OfficeInit ==
    /\ topic \in {"mail", "refunds", "offers", "rooms"}
    /\ MailInit
    /\ DeskInit
    /\ OffersInit
    /\ Rooms!SearchInit
    /\ topic # "refunds" => \A b \in Case : payment_status[b] = "pending"

OfficeNext ==
    /\ UNCHANGED topic
    /\ \/ /\ topic = "mail"
          /\ MailNext
          /\ UNCHANGED <<deskVars, offerVars, searchRest>>
       \/ /\ topic = "refunds"
          /\ DeskNext
          /\ UNCHANGED <<mailVars, offerVars, searchRest>>
       \/ /\ topic = "offers"
          /\ OffersNext
          /\ UNCHANGED <<mailVars, deskVars, searchRest>>
       \/ /\ topic = "rooms"
          /\ Rooms!SearchNext
          /\ UNCHANGED <<mailVars, deskVars, offerRest>>

officeVars == <<topic, mailVars, deskVars, offerVars, searchRest>>

OfficeSpec == OfficeInit /\ [][OfficeNext]_officeVars /\ MailFairness

(* Each component's own type invariant.                                    *)
OfficeTypeOK == MailTypeOK /\ DeskTypeOK /\ OffersTypeOK /\ Rooms!SearchTypeOK

(* The property of RoomSearch, of the rooms and bookings of this run.      *)
SearchMatchesReserve == Rooms!SearchMatchesReserve
=============================================================================
