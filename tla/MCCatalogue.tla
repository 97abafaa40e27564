----------------------------- MODULE MCCatalogue ----------------------------
(* The catalogue, the primary pictures and the numbers of a profile, in    *)
(* one run: the topic of a behaviour is chosen at the start.               *)
EXTENDS Catalogue, Gallery, ProfileStats, TLC

CONSTANTS h1, h2, t1, r1, b1, a1, ta1, x1, s1, p1, c1, o1, g1, l1

Kinds == [k \in Row |->
    CASE k \in {h1, h2} -> "hotel"
      [] k = t1 -> "room_type"   [] k = r1 -> "room"
      [] k = b1 -> "booking"     [] k = a1 -> "amenity"
      [] k = ta1 -> "type_amenity" [] k = x1 -> "extra"
      [] k = s1 -> "season"      [] k = p1 -> "policy"
      [] k = c1 -> "category"    [] k = o1 -> "offer"
      [] k = g1 -> "highlight"   [] k = l1 -> "application"]

(* Tables that refer to one another are together in a batch.               *)
Batches == {{h1, h2, t1, r1, b1}, {h1, t1, s1, x1}, {t1, a1, ta1, c1},
            {h1, o1, g1, l1}, {h1, p1}}

VARIABLE topic

Init ==
    /\ topic \in {"catalogue", "gallery", "profile"}
    /\ CatInit /\ (topic # "catalogue" => keys = CHOOSE b \in Batch : {h1, h2} \cap b = {})
    /\ GalleryInit
    /\ StatsInit

Next ==
    /\ UNCHANGED topic
    /\ \/ topic = "catalogue" /\ CatNext /\ UNCHANGED <<galleryVars, statsVars>>
       \/ topic = "gallery" /\ GalleryNext /\ UNCHANGED <<catVars, statsVars>>
       \/ topic = "profile" /\ StatsNext /\ UNCHANGED <<catVars, galleryVars>>

CatalogueSpec == Init /\ [][Next]_<<topic, catVars, galleryVars, statsVars>>

(* Each component's own type invariant.                                    *)
CatalogueTypeOK == CatTypeOK /\ GalleryTypeOK /\ StatsTypeOK

(* Two requests and a pair of like things take part in every topic, so the *)
(* configuration names them alike: w1 and w2 are requests of the desk,     *)
(* editors and requests of guests, h1 and h2 hotels, places of pictures    *)
(* and bookings.                                                           *)
Alike == Permutations(User) \cup Permutations({h1, h2})
=============================================================================
