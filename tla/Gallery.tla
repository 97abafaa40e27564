------------------------------- MODULE Gallery ------------------------------
(***************************************************************************)
(* The primary picture of a room, a room type or an offer.  Saving a       *)
(* picture that is to be primary first takes the flag from the others of   *)
(* its place and then saves the row: two statements, in no transaction     *)
(* when they come from a form of the desk.                                 *)
(***************************************************************************)
EXTENDS Integers, FiniteSets

CONSTANTS
    Image,          \* rows of RoomImage and OfferImage
    Place,          \* rooms, room types and offers
    Editor,         \* requests that save a picture at the same time
    Nothing         \* no row, no request

Picture == [place : Place, primary : BOOLEAN]
Edit == [key : Image, copy : Picture, at : {"clear", "save"}]

ASSUME NothingAssumption == Nothing \notin Picture \cup Edit
ASSUME EditorAssumption == IsFiniteSet(Editor)

VARIABLES
    picture,        \* rows
    edit            \* requests

galleryVars == <<picture, edit>>

GalleryTypeOK ==
    /\ picture \in [Image -> Picture \cup {Nothing}]
    /\ edit \in [Editor -> Edit \cup {Nothing}]

GalleryInit ==
    /\ picture = [i \in Image |-> Nothing]
    /\ edit = [e \in Editor |-> Nothing]

Primaries(place) ==
    {i \in Image : picture[i] # Nothing /\ picture[i].place = place /\ picture[i].primary}

----------------------------------------------------------------------------
(* A form, or the API's serializer: for a new picture or one that exists.  *)
Open(e, i, copy) ==
    /\ edit[e] = Nothing
    /\ edit' = [edit EXCEPT ![e] =
            [key |-> i, copy |-> copy, at |-> IF copy.primary THEN "clear" ELSE "save"]]
    /\ UNCHANGED picture

(* Mutant: the flag is taken from the picture that is saved, not from the  *)
(* others.                                                                 *)
ClearOthers_ClearsItself(e) ==
    /\ edit[e] # Nothing /\ edit[e].at = "clear"
    /\ picture' = [i \in Image |->
            IF i \in Primaries(edit[e].copy.place) /\ i = edit[e].key
            THEN [picture[i] EXCEPT !.primary = FALSE] ELSE picture[i]]
    /\ edit' = [edit EXCEPT ![e].at = "save"]

(* filter(place, is_primary=True).exclude(id).update(is_primary=False)     *)
ClearOthers(e) ==
    /\ edit[e] # Nothing /\ edit[e].at = "clear"
    /\ picture' = [i \in Image |->
            IF i \in Primaries(edit[e].copy.place) \ {edit[e].key}
            THEN [picture[i] EXCEPT !.primary = FALSE] ELSE picture[i]]
    /\ edit' = [edit EXCEPT ![e].at = "save"]

(* super().save(): the whole row, whose place may have changed.            *)
SavePicture(e) ==
    /\ edit[e] # Nothing /\ edit[e].at = "save"
    /\ picture' = [picture EXCEPT ![edit[e].key] = edit[e].copy]
    /\ edit' = [edit EXCEPT ![e] = Nothing]

(* The row is refused (display_order is unique), or the process ends; what *)
(* the first statement did stays, and the place has no primary picture.    *)
Close(e) ==
    /\ edit[e] # Nothing
    /\ edit' = [edit EXCEPT ![e] = Nothing]
    /\ UNCHANGED picture

DeletePicture(i) ==
    /\ picture[i] # Nothing
    /\ picture' = [picture EXCEPT ![i] = Nothing]
    /\ UNCHANGED edit

(* The two forms that edit pictures; an offer's also through the API.      *)
RoomImageViews(e) == \E i \in Image, copy \in Picture : Open(e, i, copy)
OfferImageViews(e) == \E i \in Image, copy \in Picture : Open(e, i, copy)

GalleryNext ==
    \/ \E e \in Editor :
           \/ RoomImageViews(e)
           \/ OfferImageViews(e)
           \/ ClearOthers(e)
           \/ SavePicture(e)
           \/ Close(e)
    \/ \E i \in Image : DeletePicture(i)

GallerySpec == GalleryInit /\ [][GalleryNext]_galleryVars

----------------------------------------------------------------------------
(* Properties.                                                             *)

(* "Only one primary image per room" holds for requests that come one at a *)
(* time; saves that overlap may leave one for each of them, never more,    *)
(* and the pages that show the first primary picture show any of these.    *)
PrimariesBounded ==
    \A place \in Place : Cardinality(Primaries(place)) <= Cardinality(Editor)
=============================================================================
