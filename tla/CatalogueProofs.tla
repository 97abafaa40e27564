--------------------------- MODULE CatalogueProofs --------------------------
(***************************************************************************)
(* For any tables' rows, requests, pictures and bookings: no row refers to *)
(* one that is gone, deletions take only what was selected and what hangs  *)
(* below it, a booking's hotel is its room's unless the desk parted them,  *)
(* there are no more primary pictures than requests, and the numbers of a  *)
(* profile were right at some moment.  Three components, one after the     *)
(* other; each argument is about what the requests hold.                   *)
(***************************************************************************)
EXTENDS MCCatalogue, FiniteSetTheorems, TLAPS

----------------------------------------------------------------------------
(* The catalogue: types and references.                                    *)

(* A row that was collected, neither selected itself nor saved since,      *)
(* refers to another row that was collected.                               *)
CollectedWhole(d) ==
    \A k \in d.doomed :
        In(k) => k \in d.roots \cup d.touched \/ table[k] \cap d.doomed # {}

CInv ==
    /\ CatTypeOK
    /\ NoDangling
    /\ \A w \in User : desk[w] # NoRow /\ desk[w].op = "delete" => CollectedWhole(desk[w])

LEMMA Rows == /\ NoRow \notin Row /\ NoRow \notin SUBSET Row
              /\ NoRow \notin Saving /\ NoRow \notin Deleting
  BY NoRowAssumption

LEMMA SavingTypes ==
    ASSUME CatTypeOK, NEW w \in User, desk[w] # NoRow, desk[w].op = "save"
    PROVE  /\ desk[w] \in Saving
           /\ desk[w].key \in Row /\ desk[w].copy \in SUBSET Row /\ desk[w].parts \in BOOLEAN
<1>1. desk[w] \in Saving \cup Deleting
  BY DEF CatTypeOK
<1>2. desk[w] \notin Deleting
  BY DEF Deleting
<1>3. QED
  BY <1>1, <1>2 DEF Saving

LEMMA DeletingTypes ==
    ASSUME CatTypeOK, NEW w \in User, desk[w] # NoRow, desk[w].op = "delete"
    PROVE  /\ desk[w] \in Deleting
           /\ desk[w].roots \in SUBSET Row /\ desk[w].doomed \in SUBSET Row
           /\ desk[w].touched \in SUBSET Row
<1>1. desk[w] \in Saving \cup Deleting
  BY DEF CatTypeOK
<1>2. desk[w] \notin Saving
  BY DEF Saving
<1>3. QED
  BY <1>1, <1>2 DEF Deleting

(* What is collected are rows, and each but the roots refers to another.   *)
LEMMA BelowCloses ==
    ASSUME NEW roots \in SUBSET Row
    PROVE  /\ roots \subseteq Below(roots) /\ Below(roots) \subseteq Row
           /\ \A k \in Below(roots) \ roots : In(k) /\ table[k] \cap Below(roots) # {}
<1> DEFINE one == roots \cup Children(roots)
           two == one \cup Children(one)
<1>1. Below(roots) = two \cup Children(two)
  BY DEF Below
<1>2. /\ roots \subseteq one /\ one \subseteq two /\ two \subseteq Below(roots)
  BY <1>1
<1>3. ASSUME NEW ks, ks \subseteq Below(roots), NEW k \in Children(ks)
      PROVE  k \in Row /\ In(k) /\ table[k] \cap Below(roots) # {}
  BY <1>3 DEF Children
<1>4. one \subseteq Row /\ two \subseteq Row /\ Below(roots) \subseteq Row
  BY <1>1 DEF Children
<1>5. ASSUME NEW k \in Below(roots) \ roots PROVE In(k) /\ table[k] \cap Below(roots) # {}
  <2>1. k \in Children(roots) \/ k \in Children(one) \/ k \in Children(two)
    BY <1>1, <1>5
  <2>2. QED
    BY <2>1, <1>2, <1>3
<1>6. QED
  BY <1>2, <1>4, <1>5

(* A request of the desk begins with a form.                               *)
LEMMA LoadStep ==
    ASSUME CInv, NEW w \in User, NEW k \in keys, keys \subseteq Row,
           NEW copy \in SUBSET Row, NEW parts \in BOOLEAN, Load(w, k, copy, parts)
    PROVE  CInv'
<1> DEFINE j == [op |-> "save", key |-> k, copy |-> copy, parts |-> parts]
<1>1. UNCHANGED <<keys, table, parted>> /\ used' = used \cup {k} /\ desk' = [desk EXCEPT ![w] = j]
  BY DEF Load
<1>2. j \in Saving /\ j.op = "save"
  BY DEF Saving
<1>3. CatTypeOK'
  BY <1>1, <1>2 DEF CInv, CatTypeOK, In
<1>4. NoDangling'
  BY <1>1 DEF CInv, NoDangling, In
<1>5. ASSUME NEW v \in User, desk'[v] # NoRow, desk'[v].op = "delete"
      PROVE  CollectedWhole(desk[v])'
  <2>1. v # w /\ desk'[v] = desk[v]
    BY <1>1, <1>2, <1>5 DEF CInv, CatTypeOK
  <2>2. QED
    BY <2>1, <1>1, <1>5 DEF CInv, CollectedWhole, In
<1>6. QED
  BY <1>3, <1>4, <1>5 DEF CInv, CollectedWhole, In

LEMMA SaveStep ==
    ASSUME CInv, NEW w \in User, SaveForm(w)
    PROVE  CInv'
<1> DEFINE k == desk[w].key
           c == desk[w].copy
<1>1. /\ desk[w] # NoRow /\ desk[w].op = "save"
      /\ \A p \in c : In(p)
      /\ table' = [table EXCEPT ![k] = c]
      /\ desk' = [Saved(k) EXCEPT ![w] = NoRow]
      /\ UNCHANGED <<keys, used>>
  BY DEF SaveForm
<1>2. k \in Row /\ c \in SUBSET Row /\ desk[w].parts \in BOOLEAN /\ c # NoRow
  BY <1>1, SavingTypes, Rows DEF CInv
<1>3. parted' \subseteq Row
  BY <1>2 DEF SaveForm, Parted, CInv, CatTypeOK
<1>4. DOMAIN table' = Row /\ \A x \in Row : table'[x] = IF x = k THEN c ELSE table[x]
  BY <1>1, <1>2 DEF CInv, CatTypeOK
<1>5. \A x \in Row : In(x) => In(x)'
  BY <1>2, <1>4 DEF In
<1>6. ASSUME NEW v \in User
      PROVE  /\ v = w => desk'[v] = NoRow
             /\ v # w /\ desk[v] # NoRow /\ desk[v].op = "delete"
                  => desk'[v] = [desk[v] EXCEPT !.touched = @ \cup {k}]
             /\ v # w /\ ~(desk[v] # NoRow /\ desk[v].op = "delete") => desk'[v] = desk[v]
  BY <1>1 DEF Saved
<1>7. ASSUME NEW v \in User, desk[v] # NoRow, desk[v].op = "delete", v # w
      PROVE  /\ desk'[v] \in Deleting /\ desk'[v].op = "delete"
             /\ desk'[v].roots = desk[v].roots /\ desk'[v].doomed = desk[v].doomed
             /\ desk'[v].touched = desk[v].touched \cup {k}
  <2> DEFINE d == desk[v]
  <2>1. /\ d \in Deleting /\ d.op = "delete" /\ d.roots \in SUBSET Row
        /\ d.doomed \in SUBSET Row /\ d.touched \in SUBSET Row
    BY <1>7, DeletingTypes DEF CInv
  <2>2. desk'[v] = [d EXCEPT !.touched = d.touched \cup {k}]
    BY <1>7, <1>6
  <2>3. d.touched \cup {k} \in SUBSET Row
    BY <2>1, <1>2
  <2> HIDE DEF d
  <2>4. /\ [d EXCEPT !.touched = d.touched \cup {k}] \in Deleting
        /\ [d EXCEPT !.touched = d.touched \cup {k}].op = "delete"
        /\ [d EXCEPT !.touched = d.touched \cup {k}].roots = d.roots
        /\ [d EXCEPT !.touched = d.touched \cup {k}].doomed = d.doomed
        /\ [d EXCEPT !.touched = d.touched \cup {k}].touched = d.touched \cup {k}
    BY <2>1, <2>3 DEF Deleting
  <2>5. QED
    BY <2>2, <2>4 DEF d
<1>8. CatTypeOK'
  <2>1. DOMAIN desk' = User
    BY <1>1 DEF Saved
  <2>2. \A v \in User : desk'[v] \in Saving \cup Deleting \cup {NoRow}
    BY <1>6, <1>7 DEF CInv, CatTypeOK
  <2>3. desk' \in [User -> Saving \cup Deleting \cup {NoRow}]
    BY <2>2, <1>1 DEF Saved
  <2>4. QED
    BY <2>3, <1>1, <1>2, <1>3, <1>4 DEF CInv, CatTypeOK, In
<1>9. NoDangling'
  <2> SUFFICES ASSUME NEW x \in Row, In(x)', NEW p \in table'[x] PROVE In(p)'
    BY DEF NoDangling
  <2>1. In(p) /\ p \in Row
    BY <1>1, <1>2, <1>4 DEF CInv, CatTypeOK, NoDangling, In
  <2>2. QED
    BY <2>1, <1>5
<1>10. ASSUME NEW v \in User, desk'[v] # NoRow, desk'[v].op = "delete"
       PROVE  CollectedWhole(desk[v])'
  <2>1. v # w /\ desk[v] # NoRow /\ desk[v].op = "delete"
    BY <1>6, <1>10
  <2>2. CollectedWhole(desk[v]) /\ desk[v].doomed \subseteq Row
    BY <2>1, DeletingTypes DEF CInv
  <2>3. QED
    BY <2>1, <2>2, <1>4, <1>7 DEF CollectedWhole, In
<1>11. QED
  BY <1>8, <1>9, <1>10 DEF CInv, CollectedWhole, In

LEMMA CollectStep ==
    ASSUME CInv, NEW w \in User, NEW roots \in SUBSET Row, Collect(w, roots)
    PROVE  CInv'
<1> DEFINE d == [op |-> "delete", roots |-> roots, doomed |-> Below(roots), touched |-> {}]
<1>1. UNCHANGED <<keys, used, table, parted>> /\ desk' = [desk EXCEPT ![w] = d]
  BY DEF Collect
<1>2. d \in Deleting
  BY BelowCloses DEF Deleting
<1>3. CatTypeOK'
  BY <1>1, <1>2 DEF CInv, CatTypeOK, In
<1>4. NoDangling'
  BY <1>1 DEF CInv, NoDangling, In
<1>5. ASSUME NEW v \in User, desk'[v] # NoRow, desk'[v].op = "delete"
      PROVE  CollectedWhole(desk[v])'
  <2>1. CASE v # w
    BY <2>1, <1>1, <1>5 DEF CInv, CatTypeOK, CollectedWhole, In
  <2>2. CASE v = w
    <3>1. desk'[v] = d
      BY <2>2, <1>1 DEF CInv, CatTypeOK
    <3>2. \A k \in Below(roots) : In(k) => k \in roots \/ table[k] \cap Below(roots) # {}
      BY BelowCloses
    <3>3. /\ d.roots = roots /\ d.doomed = Below(roots) /\ d.touched = {}
      OBVIOUS
    <3> HIDE DEF d
    <3>4. QED
      BY <3>1, <3>2, <3>3, <1>1 DEF CollectedWhole, In
  <2>3. QED
    BY <2>1, <2>2
<1>6. QED
  BY <1>3, <1>4, <1>5 DEF CInv

LEMMA RemoveStep ==
    ASSUME CInv, NEW w \in User, Remove(w)
    PROVE  CInv'
<1> DEFINE doomed == desk[w].doomed
<1>1. /\ desk[w] # NoRow /\ desk[w].op = "delete"
      /\ \A k \in Row \ doomed : In(k) => table[k] \cap doomed = {}
      /\ table' = [k \in Row |-> IF k \in doomed THEN NoRow ELSE table[k]]
      /\ desk' = [desk EXCEPT ![w] = NoRow]
      /\ UNCHANGED <<keys, used, parted>>
  BY DEF Remove
<1>2. CatTypeOK'
  BY <1>1 DEF CInv, CatTypeOK, In
<1>3. \A k \in Row : In(k)' => In(k) /\ table'[k] = table[k] /\ k \notin doomed
  BY <1>1 DEF In
<1>4. NoDangling'
  <2> SUFFICES ASSUME NEW k \in Row, In(k)', NEW p \in table'[k] PROVE In(p)'
    BY DEF NoDangling
  <2>1. In(p) /\ p \in Row /\ p \notin doomed
    BY <1>1, <1>3 DEF CInv, CatTypeOK, NoDangling
  <2>2. QED
    BY <2>1, <1>1 DEF In
<1>5. ASSUME NEW v \in User, desk'[v] # NoRow, desk'[v].op = "delete"
      PROVE  CollectedWhole(desk[v])'
  <2>1. v # w /\ desk'[v] = desk[v] /\ CollectedWhole(desk[v]) /\ desk[v].doomed \subseteq Row
    BY <1>1, <1>5, DeletingTypes DEF CInv, CatTypeOK
  <2>2. QED
    BY <2>1, <1>3 DEF CollectedWhole
<1>6. QED
  BY <1>2, <1>4, <1>5 DEF CInv

LEMMA LeaveStep ==
    ASSUME CInv, NEW w \in User, Leave(w)
    PROVE  CInv'
<1>1. UNCHANGED <<keys, used, table, parted>> /\ desk' = [desk EXCEPT ![w] = NoRow]
  BY DEF Leave
<1>2. QED
  BY <1>1 DEF CInv, CatTypeOK, NoDangling, CollectedWhole, In

(* The pages come down to five kinds of steps.                             *)
LEMMA CatSteps ==
    ASSUME CatTypeOK, CatNext
    PROVE  \E w \in User :
              \/ \E k \in keys, parents \in SUBSET Row :
                     /\ parents \in Choices(k)
                     /\ LoadForm(w, k, parents) \/ ApiBooking(w, k, parents)
              \/ \E k \in keys : MarkClean(w, k)
              \/ \E roots \in SUBSET Row : Collect(w, roots)
              \/ SaveForm(w) \/ Remove(w) \/ Leave(w)
<1> DEFINE Opened(w) == \E k \in keys, parents \in SUBSET Row :
                            /\ parents \in Choices(k)
                            /\ LoadForm(w, k, parents) \/ ApiBooking(w, k, parents)
           Collected(w) == \E roots \in SUBSET Row : Collect(w, roots)
<1>1. keys \subseteq Row
  BY CatalogueAssumption DEF CatTypeOK
<1>2. \A k : Choices(k) \subseteq SUBSET Row
  BY <1>1 DEF Choices
<1>3. \A t : OfKind(t) \subseteq keys /\ OfKind(t) \subseteq Row
  BY <1>1 DEF OfKind
<1>4. ASSUME NEW w \in User, NEW t, FormViews(w, t) PROVE Opened(w)
  BY <1>2, <1>3, <1>4 DEF FormViews
<1>5. ASSUME NEW w \in User, NEW t, DeleteView(w, t) \/ BulkDelete(w, t) PROVE Collected(w)
  BY <1>3, <1>5 DEF DeleteView, BulkDelete
<1>6. ASSUME NEW w \in User, NEW t, Views(w, t) PROVE Opened(w) \/ Collected(w)
  BY <1>4, <1>5, <1>6 DEF Views
<1>7. ASSUME NEW w \in User, Seed(w) PROVE Collected(w)
  BY <1>3, <1>7 DEF Seed
<1>8. ASSUME NEW w \in User, \E k \in keys : \E parents \in Choices(k) : ApiBooking(w, k, parents)
      PROVE  Opened(w)
  BY <1>2, <1>8
<1> HIDE DEF Opened, Collected
<1>9. \E w \in User : \/ Opened(w) \/ Collected(w) \/ \E k \in keys : MarkClean(w, k)
                      \/ SaveForm(w) \/ Remove(w) \/ Leave(w)
  BY <1>4, <1>5, <1>6, <1>7, <1>8
     DEF CatNext, HotelViews, RoomTypeViews, RoomViews, ExtraViews, AmenityViews,
         TypeAmenityViews, SeasonViews, OfferViews, CategoryViews, HighlightViews,
         BookingViews, PolicyView, ApplicationView
<1>10. QED
  BY <1>9 DEF Opened, Collected

LEMMA CInvInit == CatInit => CInv
  BY CatalogueAssumption DEF CatInit, CInv, CatTypeOK, NoDangling, In

LEMMA CInvNext == CInv /\ [CatNext]_catVars => CInv'
<1> SUFFICES ASSUME CInv, [CatNext]_catVars PROVE CInv'
  OBVIOUS
<1>1. CASE UNCHANGED catVars
  BY <1>1 DEF CInv, CatTypeOK, NoDangling, CollectedWhole, In, catVars
<1>2. CASE CatNext
  <2>1. keys \subseteq Row /\ CatTypeOK
    BY CatalogueAssumption DEF CInv, CatTypeOK
  <2>2. PICK w \in User :
              \/ \E k \in keys, parents \in SUBSET Row :
                     /\ parents \in Choices(k)
                     /\ LoadForm(w, k, parents) \/ ApiBooking(w, k, parents)
              \/ \E k \in keys : MarkClean(w, k)
              \/ \E roots \in SUBSET Row : Collect(w, roots)
              \/ SaveForm(w) \/ Remove(w) \/ Leave(w)
    BY <2>1, <1>2, CatSteps
  <2>3. ASSUME NEW k \in keys, NEW parents \in SUBSET Row,
               LoadForm(w, k, parents) \/ ApiBooking(w, k, parents)
        PROVE  CInv'
    <3>1. \E parts \in BOOLEAN : Load(w, k, parents, parts)
      BY <2>3 DEF LoadForm, ApiBooking
    <3>2. QED
      BY <3>1, <2>1, LoadStep
  <2>4. ASSUME NEW k \in keys, MarkClean(w, k) PROVE CInv'
    <3>1. table[k] \in SUBSET Row
      BY <2>1, <2>4 DEF MarkClean, CatTypeOK
    <3>2. Load(w, k, table[k], FALSE)
      BY <2>4 DEF MarkClean
    <3>3. QED
      BY <3>1, <3>2, <2>1, LoadStep
  <2>5. QED
    BY <2>2, <2>3, <2>4, SaveStep, CollectStep, RemoveStep, LeaveStep
<1>3. QED
  BY <1>1, <1>2

(* Catalogue.tla's types.                                                  *)
THEOREM CatalogueTyped == CatSpec => []CatTypeOK
<1>1. CInv => CatTypeOK
  BY DEF CInv
<1>2. QED
  BY CInvInit, CInvNext, <1>1, PTL DEF CatSpec

(* No row refers to one that is gone, for any tables, rows and requests of *)
(* the desk, whatever is deleted while forms are open (manager/views_cbv,  *)
(* core/models).                                                           *)
THEOREM NothingDangles == CatSpec => []NoDangling
<1>1. CInv => NoDangling
  BY DEF CInv
<1>2. QED
  BY CInvInit, CInvNext, <1>1, PTL DEF CatSpec

----------------------------------------------------------------------------
(* The catalogue: deletions.                                               *)

(* The step of a deletion, the only one that takes rows.                   *)
LEMMA RemoveTakes ==
    ASSUME CInv, NEW w \in User, Remove(w), NEW k \in Row, In(k), table'[k] = NoRow
    PROVE  /\ desk[w] # NoRow /\ desk[w].op = "delete" /\ desk'[w] = NoRow
           /\ \/ k \in desk[w].roots \cup desk[w].touched
              \/ \E p \in table[k] : table'[p] = NoRow
<1>1. /\ desk[w] # NoRow /\ desk[w].op = "delete"
      /\ table' = [x \in Row |-> IF x \in desk[w].doomed THEN NoRow ELSE table[x]]
      /\ desk' = [desk EXCEPT ![w] = NoRow]
  BY DEF Remove
<1>2. k \in desk[w].doomed
  BY <1>1 DEF In
<1>3. k \in desk[w].roots \cup desk[w].touched \/ table[k] \cap desk[w].doomed # {}
  BY <1>1, <1>2 DEF CInv, CollectedWhole
<1>4. desk'[w] = NoRow /\ table[k] \subseteq Row
  BY <1>1 DEF CInv, CatTypeOK
<1>5. QED
  BY <1>1, <1>3, <1>4

(* A row goes because it was selected, with a row it refers to, or because *)
(* it was moved while the deletion was under way.                          *)
THEOREM DeletionsFollowReferences == CatSpec => RowsGoWithParents
<1> DEFINE Follows == \A k \in Row : (In(k) /\ table'[k] = NoRow) =>
              \E w \in User :
                  /\ desk[w] # NoRow /\ desk[w].op = "delete" /\ desk'[w] = NoRow
                  /\ \/ k \in desk[w].roots \cup desk[w].touched
                     \/ \E p \in table[k] : table'[p] = NoRow
<1>1. CInv /\ [CatNext]_catVars => [Follows]_catVars
  <2> SUFFICES ASSUME CInv, CatNext, NEW k \in Row, In(k), table'[k] = NoRow
               PROVE  \E w \in User : Remove(w)
    BY RemoveTakes
  <2>1. PICK w \in User :
              \/ \E l \in keys, parents \in SUBSET Row :
                     /\ parents \in Choices(l)
                     /\ LoadForm(w, l, parents) \/ ApiBooking(w, l, parents)
              \/ \E l \in keys : MarkClean(w, l)
              \/ \E roots \in SUBSET Row : Collect(w, roots)
              \/ SaveForm(w) \/ Remove(w) \/ Leave(w)
    BY CatSteps DEF CInv
  <2>2. table' # table
    BY DEF In
  <2>3. SaveForm(w) \/ Remove(w)
    BY <2>1, <2>2 DEF LoadForm, ApiBooking, MarkClean, Load, Collect, Leave
  <2>4. ~SaveForm(w)
    <3> SUFFICES ASSUME SaveForm(w) PROVE FALSE
      OBVIOUS
    <3>1. desk[w].copy \in SUBSET Row /\ table' = [table EXCEPT ![desk[w].key] = desk[w].copy]
      BY SavingTypes DEF SaveForm, CInv
    <3>2. QED
      BY <3>1, Rows DEF In, CInv, CatTypeOK
  <2>5. QED
    BY <2>3, <2>4
<1>2. QED
  BY CInvInit, CInvNext, <1>1, PTL DEF CatSpec, RowsGoWithParents

----------------------------------------------------------------------------
(* The catalogue: a booking's hotel and its room's.                        *)

Saves(w) == desk[w] # NoRow /\ desk[w].op = "save"

(* A request that will save k without having chosen its hotel.             *)
Keeps(w, k) == Saves(w) /\ desk[w].key = k /\ ~desk[w].parts

(* The desk has not moved room r: whoever saves it saves what it is.       *)
Unmoved(r) ==
    \A w \in User : Keeps(w, r) =>
        /\ In(r) => desk[w].copy = table[r]
        /\ \A v \in User : Keeps(v, r) => desk[v].copy = desk[w].copy

(* A booking with these parents agrees with its room r, whatever request   *)
(* brings the room back that has been deleted.                             *)
Agrees(r, parents) ==
    /\ r \in used
    /\ In(r) => table[r] \cap parents # {}
    /\ \A w \in User : Keeps(w, r) => desk[w].copy \cap parents # {}

HInv ==
    /\ CInv
    /\ \A k \in Row : In(k) => k \in used
    /\ \A w \in User : Saves(w) => desk[w].key \in used
    /\ \A r \in OfKind("room") : r \in parted \/ Unmoved(r)
    /\ \A w \in User : \A b \in OfKind("booking") : Keeps(w, b) =>
           \E r \in desk[w].copy \cap OfKind("room") : r \in parted \/ Agrees(r, desk[w].copy)
    /\ HotelOfRoom

LEMMA HInvInit == CatInit => HInv
<1> SUFFICES ASSUME CatInit PROVE HInv
  OBVIOUS
<1>1. \A k \in Row : ~In(k)
  BY DEF CatInit, In
<1>2. \A w \in User : ~Saves(w)
  BY DEF CatInit, Saves
<1>3. OfKind("booking") \subseteq Row /\ OfKind("room") \subseteq Row
  BY CatalogueAssumption DEF CatInit, OfKind
<1>4. QED
  BY <1>1, <1>2, <1>3, CInvInit DEF HInv, HotelOfRoom, Unmoved, Keeps

LEMMA KindsOfRows ==
    ASSUME CatTypeOK
    PROVE  \A t : OfKind(t) \subseteq keys /\ OfKind(t) \subseteq Row
  BY CatalogueAssumption DEF CatTypeOK, OfKind

(* A request that does not change the table and saves nothing later.       *)
LEMMA IdleStep ==
    ASSUME HInv, CInv', NEW w \in User, UNCHANGED <<keys, used, table, parted>>,
           ~Saves(w)', \A v \in User : v # w => desk'[v] = desk[v]
    PROVE  HInv'
<1>1. \A v \in User : Saves(v)' => Saves(v) /\ desk'[v] = desk[v]
  BY DEF Saves
<1>2. \A v \in User, k \in Row : Keeps(v, k)' => Keeps(v, k) /\ desk'[v] = desk[v]
  BY <1>1 DEF Keeps, Saves
<1>3. \A t : OfKind(t)' = OfKind(t) /\ OfKind(t) \subseteq Row
  BY KindsOfRows DEF OfKind, HInv, CInv
<1>4. \A k \in Row : In(k)' <=> In(k)
  BY DEF In
<1>5. \A r \in Row : Unmoved(r) => Unmoved(r)'
  BY <1>2, <1>4 DEF Unmoved
<1>6. ASSUME NEW v \in User, desk'[v] = desk[v], NEW r \in Row, Agrees(r, desk[v].copy)
      PROVE  Agrees(r, desk[v].copy)'
  BY <1>2, <1>4, <1>6 DEF Agrees
<1>7. \A r \in OfKind("room")' : (r \in parted \/ Unmoved(r))'
  BY <1>3, <1>5 DEF HInv
<1>8. ASSUME NEW v \in User, NEW b \in OfKind("booking")', Keeps(v, b)'
      PROVE  (\E r \in desk[v].copy \cap OfKind("room") : r \in parted \/ Agrees(r, desk[v].copy))'
  <2>1. b \in OfKind("booking") /\ b \in Row
    BY <1>3, <1>8
  <2>2. Keeps(v, b) /\ desk'[v] = desk[v]
    BY <2>1, <1>2, <1>8
  <2>3. PICK r \in desk[v].copy \cap OfKind("room") : r \in parted \/ Agrees(r, desk[v].copy)
    BY <2>1, <2>2 DEF HInv
  <2>4. r \in parted' \/ Agrees(r, desk[v].copy)'
    BY <2>2, <2>3, <1>3, <1>6
  <2>5. QED
    BY <2>2, <2>3, <2>4, <1>3
<1>9. HotelOfRoom'
  BY <1>3, <1>4 DEF HInv, HotelOfRoom
<1>10. QED
  BY <1>1, <1>4, <1>7, <1>8, <1>9 DEF HInv

(* A form is opened: on a room as it is, or with the desk's own choice; or *)
(* on a booking whose room is one of its hotel's.                          *)
LEMMA FormStep ==
    ASSUME HInv, CInv', NEW w \in User, NEW k \in keys, NEW copy \in SUBSET Row,
           NEW parts \in BOOLEAN, Load(w, k, copy, parts),
           Kind[k] = "room" /\ In(k) /\ ~parts => copy = table[k],
           Kind[k] = "booking" /\ ~parts =>
               \E r \in copy \cap OfKind("room") : In(r) /\ table[r] \cap copy # {}
    PROVE  HInv'
<1> DEFINE j == [op |-> "save", key |-> k, copy |-> copy, parts |-> parts]
<1>1. /\ UNCHANGED <<keys, table, parted>> /\ used' = used \cup {k}
      /\ desk' = [desk EXCEPT ![w] = j] /\ desk[w] = NoRow
      /\ In(k) \/ k \notin used
  BY DEF Load
<1>2. /\ desk'[w] = j /\ j # NoRow /\ j.op = "save" /\ j.key = k /\ j.copy = copy /\ j.parts = parts
      /\ \A v \in User : v # w => desk'[v] = desk[v]
  <2>1. j \in Saving
    <3>1. k \in Row
      BY CatalogueAssumption DEF HInv, CInv, CatTypeOK
    <3>2. QED
      BY <3>1 DEF Saving
  <2>2. j.op = "save" /\ j.key = k /\ j.copy = copy /\ j.parts = parts
    OBVIOUS
  <2> HIDE DEF j
  <2>3. j # NoRow
    BY <2>1, Rows
  <2>4. desk'[w] = j /\ \A v \in User : v # w => desk'[v] = desk[v]
    BY <1>1 DEF HInv, CInv, CatTypeOK
  <2>5. QED
    BY <2>2, <2>3, <2>4
<1> HIDE DEF j
<1>3. /\ \A v \in User, x \in Row : v # w => (Keeps(v, x)' <=> Keeps(v, x))
      /\ \A x \in Row : Keeps(w, x)' <=> x = k /\ ~parts
      /\ \A x \in Row : ~Keeps(w, x)
  BY <1>1, <1>2 DEF Keeps, Saves
<1>4. \A t : OfKind(t)' = OfKind(t) /\ OfKind(t) \subseteq Row /\ OfKind(t) \subseteq keys
  BY <1>1, KindsOfRows DEF OfKind, HInv, CInv
<1>5. (\A x \in Row : In(x)' <=> In(x)) /\ k \in Row
  BY <1>1, CatalogueAssumption DEF In, HInv, CInv, CatTypeOK
<1>6. ASSUME k \notin used PROVE \A v \in User : ~Keeps(v, k)
  BY <1>6 DEF HInv, Keeps
<1>7. ASSUME NEW r \in OfKind("room"), Unmoved(r) PROVE Unmoved(r)'
  <2>0. r \in Row
    BY <1>4
  <2>1. CASE r # k \/ parts
    <3>1. \A v \in User : Keeps(v, r)' => Keeps(v, r) /\ desk'[v] = desk[v]
      BY <2>0, <2>1, <1>2, <1>3
    <3>2. QED
      BY <3>1, <2>0, <1>1, <1>5, <1>7 DEF Unmoved
  <2>2. CASE r = k /\ ~parts /\ In(k)
    <3>1. copy = table[k]
      BY <2>2, <1>7 DEF OfKind
    <3>2. \A v \in User : Keeps(v, r)' => desk'[v].copy = table[r]
      BY <3>1, <2>0, <2>2, <1>2, <1>3, <1>7 DEF Unmoved
    <3>3. QED
      BY <3>2, <1>1 DEF Unmoved
  <2>3. CASE r = k /\ ~parts /\ ~In(k)
    <3>1. \A v \in User : Keeps(v, r)' => v = w
      BY <2>0, <2>3, <1>1, <1>3, <1>6
    <3>2. ~In(r)'
      BY <2>3, <1>5
    <3>3. QED
      BY <3>1, <3>2 DEF Unmoved
  <2>4. QED
    BY <2>1, <2>2, <2>3
<1>8. ASSUME NEW v \in User, NEW r \in OfKind("room"), v # w, Agrees(r, desk[v].copy)
      PROVE  Agrees(r, desk[v].copy)'
  <2>1. r \in Row /\ r \in used' /\ desk'[v] = desk[v]
    BY <1>1, <1>2, <1>4, <1>8 DEF Agrees
  <2>2. In(r)' => table'[r] \cap desk'[v].copy # {}
    BY <2>1, <1>1, <1>5, <1>8 DEF Agrees
  <2>3. ASSUME NEW u \in User, Keeps(u, r)' PROVE desk'[u].copy \cap desk'[v].copy # {}
    <3>1. CASE u # w
      BY <3>1, <2>1, <2>3, <1>2, <1>3, <1>8 DEF Agrees
    <3>2. CASE u = w
      <4>1. r = k /\ ~parts
        BY <3>2, <2>1, <2>3, <1>3
      <4>2. In(k)
        BY <4>1, <1>1, <1>8 DEF Agrees
      <4>3. copy = table[r]
        BY <4>1, <4>2, <1>8 DEF OfKind
      <4>4. QED
        BY <4>1, <4>2, <4>3, <3>2, <2>1, <1>2, <1>8 DEF Agrees
    <3>3. QED
      BY <3>1, <3>2
  <2>4. QED
    BY <2>1, <2>2, <2>3 DEF Agrees
<1>9. ASSUME NEW v \in User, NEW b \in OfKind("booking")', Keeps(v, b)'
      PROVE  (\E r \in desk[v].copy \cap OfKind("room") : r \in parted \/ Agrees(r, desk[v].copy))'
  <2>1. b \in OfKind("booking") /\ b \in Row
    BY <1>4, <1>9
  <2>2. CASE v # w
    <3>1. Keeps(v, b) /\ desk'[v] = desk[v]
      BY <2>1, <2>2, <1>2, <1>3, <1>9
    <3>2. PICK r \in desk[v].copy \cap OfKind("room") : r \in parted \/ Agrees(r, desk[v].copy)
      BY <2>1, <3>1 DEF HInv
    <3>3. r \in parted' \/ Agrees(r, desk[v].copy)'
      BY <2>2, <3>2, <1>1, <1>8
    <3>4. QED
      BY <3>1, <3>2, <3>3, <1>4
  <2>3. CASE v = w
    <3>1. b = k /\ ~parts /\ Kind[k] = "booking"
      BY <2>1, <2>3, <1>3, <1>9 DEF OfKind
    <3>2. PICK r \in copy \cap OfKind("room") : In(r) /\ table[r] \cap copy # {}
      BY <3>1
    <3>3. r \in Row /\ r # k /\ r \in used
      BY <3>1, <3>2, <1>4 DEF OfKind, HInv
    <3>4. ASSUME Unmoved(r), NEW u \in User, Keeps(u, r)' PROVE desk'[u].copy \cap copy # {}
      <4>1. Keeps(u, r) /\ desk'[u] = desk[u]
        BY <3>3, <3>4, <1>2, <1>3
      <4>2. QED
        BY <4>1, <3>2, <3>4 DEF Unmoved
    <3>5. Unmoved(r) => Agrees(r, desk[v].copy)'
      BY <3>2, <3>3, <3>4, <2>3, <1>1, <1>2 DEF Agrees
    <3>6. r \in parted \/ Unmoved(r)
      BY <3>2 DEF HInv
    <3>7. QED
      BY <3>2, <3>5, <3>6, <2>3, <1>1, <1>2, <1>4
  <2>4. QED
    BY <2>2, <2>3
<1>10. HotelOfRoom'
  BY <1>1, <1>4, <1>5 DEF HInv, HotelOfRoom
<1>11. \A r \in OfKind("room")' : (r \in parted \/ Unmoved(r))'
  BY <1>1, <1>4, <1>7 DEF HInv
<1>12. \A v \in User : Saves(v)' => desk'[v].key \in used'
  BY <1>1, <1>2 DEF HInv, Saves
<1>13. \A x \in Row : In(x)' => x \in used'
  BY <1>1, <1>5 DEF HInv
<1>14. QED
  BY <1>9, <1>10, <1>11, <1>12, <1>13 DEF HInv

(* A form is saved.                                                        *)
LEMMA FormSaveStep ==
    ASSUME HInv, CInv', NEW w \in User, SaveForm(w)
    PROVE  HInv'
<1> DEFINE k == desk[w].key
           c == desk[w].copy
<1>1. /\ desk[w] # NoRow /\ desk[w].op = "save"
      /\ \A p \in c : In(p)
      /\ table' = [table EXCEPT ![k] = c]
      /\ desk' = [Saved(k) EXCEPT ![w] = NoRow]
      /\ UNCHANGED <<keys, used>>
      /\ parted' = IF desk[w].parts THEN parted \cup {k} ELSE parted
  BY DEF SaveForm, Parted
<1>2. k \in Row /\ c \in SUBSET Row /\ desk[w].parts \in BOOLEAN /\ c # NoRow /\ k \in used
  BY <1>1, SavingTypes, Rows DEF CInv, HInv, Saves
<1>3. \A x \in Row : table'[x] = IF x = k THEN c ELSE table[x]
  BY <1>1, <1>2 DEF HInv, CInv, CatTypeOK
<1>4. ASSUME NEW v \in User
      PROVE  Saves(v)' => Saves(v) /\ v # w /\ desk'[v] = desk[v]
  <2>1. CASE v = w
    BY <2>1, <1>1 DEF Saves, Saved
  <2>2. CASE v # w /\ desk[v] # NoRow /\ desk[v].op = "delete"
    <3>1. desk[v] \in Deleting
      BY <2>2, DeletingTypes DEF HInv, CInv
    <3>2. desk'[v] = [desk[v] EXCEPT !.touched = @ \cup {k}]
      BY <2>2, <1>1 DEF Saved
    <3>3. desk'[v].op = "delete"
      BY <3>1, <3>2 DEF Deleting
    <3>4. QED
      BY <3>3 DEF Saves
  <2>3. CASE v # w /\ ~(desk[v] # NoRow /\ desk[v].op = "delete")
    <3>1. desk'[v] = desk[v]
      BY <2>3, <1>1 DEF Saved
    <3>2. QED
      BY <3>1, <2>3 DEF Saves
  <2>4. QED
    BY <2>1, <2>2, <2>3
<1>5. \A v \in User, x \in Row : Keeps(v, x)' => Keeps(v, x) /\ desk'[v] = desk[v]
  BY <1>4 DEF Keeps
<1>6. \A t : OfKind(t)' = OfKind(t) /\ OfKind(t) \subseteq Row
  BY <1>1, KindsOfRows DEF OfKind, HInv, CInv
<1>7. parted \subseteq parted' /\ (k \notin parted' => Keeps(w, k))
  BY <1>1, <1>2 DEF Keeps, Saves
<1>8. ASSUME NEW r \in OfKind("room"), r \notin parted' PROVE Unmoved(r)'
  <2>1. r \in Row /\ Unmoved(r)
    BY <1>6, <1>7, <1>8 DEF HInv
  <2>2. CASE r # k
    BY <2>1, <2>2, <1>3, <1>5 DEF Unmoved, In
  <2>3. CASE r = k
    <3>1. \A v \in User : Keeps(v, r) => desk[v].copy = c
      BY <2>1, <2>3, <1>7, <1>8 DEF Unmoved
    <3>2. \A v \in User : Keeps(v, r)' => desk'[v].copy = c
      BY <3>1, <2>1, <1>5
    <3>3. table'[r] = c
      BY <2>1, <2>3, <1>3
    <3>4. QED
      BY <3>2, <3>3 DEF Unmoved
  <2>4. QED
    BY <2>2, <2>3
<1>9. ASSUME NEW v \in User, NEW b \in OfKind("booking")', Keeps(v, b)'
      PROVE  (\E r \in desk[v].copy \cap OfKind("room") : r \in parted \/ Agrees(r, desk[v].copy))'
  <2>1. Keeps(v, b) /\ desk'[v] = desk[v] /\ b \in OfKind("booking")
    BY <1>5, <1>6, <1>9
  <2>2. PICK r \in desk[v].copy \cap OfKind("room") : r \in parted \/ Agrees(r, desk[v].copy)
    BY <2>1 DEF HInv
  <2>3. r \in Row
    BY <2>2, <1>6
  <2>4. ASSUME r \notin parted' PROVE Agrees(r, desk[v].copy)'
    <3>1. Agrees(r, desk[v].copy)
      BY <2>2, <2>4, <1>7
    <3>2. In(r)' => table'[r] \cap desk'[v].copy # {}
      BY <3>1, <2>1, <2>3, <2>4, <1>3, <1>7 DEF Agrees, In
    <3>3. \A u \in User : Keeps(u, r)' => desk'[u].copy \cap desk'[v].copy # {}
      BY <3>1, <2>1, <2>3, <1>5 DEF Agrees
    <3>4. QED
      BY <3>1, <3>2, <3>3, <1>1 DEF Agrees
  <2>5. QED
    BY <2>1, <2>2, <2>4, <1>6
<1>10. HotelOfRoom'
  <2> SUFFICES ASSUME NEW b \in OfKind("booking"), In(b)', b \notin parted'
               PROVE  \E r \in table'[b] \cap OfKind("room") :
                          r \in parted' \/ table'[r] \cap table'[b] # {}
    BY <1>6 DEF HotelOfRoom
  <2>1. b \in Row
    BY <1>6
  <2>2. CASE b # k
    <3>1. In(b) /\ table'[b] = table[b] /\ b \notin parted
      BY <2>1, <2>2, <1>3, <1>7 DEF In
    <3>2. PICK r \in table[b] \cap OfKind("room") : r \in parted \/ table[r] \cap table[b] # {}
      BY <3>1 DEF HInv, HotelOfRoom
    <3>3. r \in Row /\ In(r)
      BY <3>1, <3>2, <2>1, <1>6 DEF HInv, CInv, NoDangling
    <3>4. r \notin parted' => table'[r] = table[r]
      <4>1. CASE r # k
        BY <4>1, <3>3, <1>3
      <4>2. CASE r = k /\ r \notin parted'
        <5>1. Unmoved(r) /\ Keeps(w, r)
          BY <4>2, <3>2, <1>7 DEF HInv
        <5>2. QED
          BY <5>1, <4>2, <3>3, <1>3 DEF Unmoved
      <4>3. QED
        BY <4>1, <4>2
    <3>5. QED
      BY <3>1, <3>2, <3>4, <1>7
  <2>3. CASE b = k
    <3>1. Keeps(w, b) /\ table'[b] = c
      BY <2>1, <2>3, <1>3, <1>7
    <3>2. PICK r \in c \cap OfKind("room") : r \in parted \/ Agrees(r, c)
      BY <3>1 DEF HInv
    <3>3. r \in Row /\ In(r) /\ r # k
      BY <3>2, <2>3, <1>1, <1>6 DEF OfKind
    <3>4. r \in parted \/ table'[r] \cap table'[b] # {}
      BY <3>1, <3>2, <3>3, <1>3 DEF Agrees
    <3>5. QED
      BY <3>1, <3>2, <3>4, <1>7
  <2>4. QED
    BY <2>2, <2>3
<1>11. \A x \in Row : In(x)' => x \in used'
  BY <1>1, <1>2, <1>3 DEF HInv, In
<1>12. \A v \in User : Saves(v)' => desk'[v].key \in used'
  BY <1>1, <1>4 DEF HInv
<1>13. \A r \in OfKind("room")' : (r \in parted \/ Unmoved(r))'
  BY <1>6, <1>8
<1>14. QED
  BY <1>9, <1>10, <1>11, <1>12, <1>13 DEF HInv

(* A deletion ends.                                                        *)
LEMMA FormsAfterDeletion ==
    ASSUME HInv, CInv', NEW w \in User, Remove(w)
    PROVE  HInv'
<1> DEFINE doomed == desk[w].doomed
<1>1. /\ desk[w] # NoRow /\ desk[w].op = "delete"
      /\ table' = [k \in Row |-> IF k \in doomed THEN NoRow ELSE table[k]]
      /\ desk' = [desk EXCEPT ![w] = NoRow]
      /\ UNCHANGED <<keys, used, parted>>
  BY DEF Remove
<1>2. \A v \in User : Saves(v)' => Saves(v) /\ desk'[v] = desk[v]
  BY <1>1 DEF Saves, HInv, CInv, CatTypeOK
<1>3. \A v \in User, x \in Row : Keeps(v, x)' => Keeps(v, x) /\ desk'[v] = desk[v]
  BY <1>2 DEF Keeps
<1>4. \A t : OfKind(t)' = OfKind(t) /\ OfKind(t) \subseteq Row
  BY <1>1, KindsOfRows DEF OfKind, HInv, CInv
<1>5. \A x \in Row : In(x)' => In(x) /\ table'[x] = table[x]
  BY <1>1 DEF In
<1>6. \A r \in Row : Unmoved(r) => Unmoved(r)'
  BY <1>3, <1>5 DEF Unmoved
<1>7. ASSUME NEW v \in User, desk'[v] = desk[v], NEW r \in Row, Agrees(r, desk[v].copy)
      PROVE  Agrees(r, desk[v].copy)'
  BY <1>1, <1>3, <1>5, <1>7 DEF Agrees
<1>8. ASSUME NEW v \in User, NEW b \in OfKind("booking")', Keeps(v, b)'
      PROVE  (\E r \in desk[v].copy \cap OfKind("room") : r \in parted \/ Agrees(r, desk[v].copy))'
  <2>1. Keeps(v, b) /\ desk'[v] = desk[v] /\ b \in OfKind("booking")
    BY <1>3, <1>4, <1>8
  <2>2. PICK r \in desk[v].copy \cap OfKind("room") : r \in parted \/ Agrees(r, desk[v].copy)
    BY <2>1 DEF HInv
  <2>3. r \in parted' \/ Agrees(r, desk[v].copy)'
    BY <2>1, <2>2, <1>1, <1>4, <1>7
  <2>4. QED
    BY <2>1, <2>2, <2>3, <1>4
<1>9. HotelOfRoom'
  <2> SUFFICES ASSUME NEW b \in OfKind("booking"), In(b)', b \notin parted
               PROVE  \E r \in table'[b] \cap OfKind("room") :
                          r \in parted \/ table'[r] \cap table'[b] # {}
    BY <1>1, <1>4 DEF HotelOfRoom
  <2>1. b \in Row /\ In(b) /\ table'[b] = table[b]
    BY <1>4, <1>5
  <2>2. PICK r \in table[b] \cap OfKind("room") : r \in parted \/ table[r] \cap table[b] # {}
    BY <2>1 DEF HInv, HotelOfRoom
  <2>3. In(r)' /\ r \in Row
    BY <2>1, <2>2, <1>4 DEF CInv, NoDangling
  <2>4. QED
    BY <2>1, <2>2, <2>3, <1>5
<1>10. QED
  BY <1>1, <1>2, <1>4, <1>5, <1>6, <1>8, <1>9 DEF HInv

LEMMA HInvNext == HInv /\ [CatNext]_catVars => HInv'
<1> SUFFICES ASSUME HInv, [CatNext]_catVars PROVE HInv'
  OBVIOUS
<1>1. CInv'
  BY CInvNext DEF HInv
<1>2. CASE UNCHANGED catVars
  BY <1>1, <1>2 DEF HInv, HotelOfRoom, OfKind, In, Saves, Keeps, Unmoved, Agrees, catVars
<1>3. CASE CatNext
  <2>1. keys \subseteq Row /\ CatTypeOK
    BY CatalogueAssumption DEF HInv, CInv, CatTypeOK
  <2>2. PICK w \in User :
              \/ \E k \in keys, parents \in SUBSET Row :
                     /\ parents \in Choices(k)
                     /\ LoadForm(w, k, parents) \/ ApiBooking(w, k, parents)
              \/ \E k \in keys : MarkClean(w, k)
              \/ \E roots \in SUBSET Row : Collect(w, roots)
              \/ SaveForm(w) \/ Remove(w) \/ Leave(w)
    BY <2>1, <1>3, CatSteps
  <2>3. ASSUME NEW k \in keys, NEW parents \in SUBSET Row, LoadForm(w, k, parents)
        PROVE  HInv'
    <3> DEFINE parts == \/ Kind[k] = "booking"
                        \/ Kind[k] = "room" /\ In(k) /\ table[k] # parents
    <3>1. Load(w, k, parents, parts) /\ parts \in BOOLEAN
      BY <2>3 DEF LoadForm
    <3>2. /\ Kind[k] = "room" /\ In(k) /\ ~parts => parents = table[k]
          /\ ~(Kind[k] = "booking" /\ ~parts)
      OBVIOUS
    <3> HIDE DEF parts
    <3>3. QED
      BY <3>1, <3>2, <1>1, FormStep
  <2>4. ASSUME NEW k \in keys, NEW parents \in SUBSET Row, parents \in Choices(k),
               ApiBooking(w, k, parents)
        PROVE  HInv'
    <3>1. Kind[k] = "booking" /\ Load(w, k, parents, FALSE)
      BY <2>4 DEF ApiBooking
    <3>2. Refs["booking"] = {"hotel", "room"}
      BY DEF Refs, BookingRefs
    <3>3. Cardinality(parents \cap OfKind("room")) = 1 /\ \A p \in parents : In(p)
      BY <3>1, <3>2, <2>4 DEF Choices
    <3>4. PICK r : r \in parents \cap OfKind("room")
      BY <3>3, FS_EmptySet
    <3>5. In(r) /\ table[r] \cap parents # {}
      BY <3>3, <3>4, <2>4 DEF ApiBooking
    <3>6. QED
      BY <3>1, <3>4, <3>5, <1>1, FormStep
  <2>5. ASSUME NEW k \in keys, MarkClean(w, k) PROVE HInv'
    <3>1. table[k] \in SUBSET Row /\ Kind[k] = "room" /\ Load(w, k, table[k], FALSE)
      BY <2>1, <2>5 DEF MarkClean, CatTypeOK
    <3>2. QED
      BY <3>1, <1>1, FormStep
  <2>6. ASSUME NEW roots \in SUBSET Row, Collect(w, roots) PROVE HInv'
    BY <2>6, <1>1, IdleStep DEF Collect, Saves, HInv, CInv, CatTypeOK
  <2>7. CASE Leave(w)
    BY <2>7, <1>1, IdleStep DEF Leave, Saves, HInv, CInv, CatTypeOK
  <2>8. QED
    BY <2>2, <2>3, <2>4, <2>5, <2>6, <2>7, <1>1, FormSaveStep, FormsAfterDeletion
<1>4. QED
  BY <1>2, <1>3

(* A booking's hotel is its room's, unless the desk parted the two, also   *)
(* where rooms are deleted and saved again by a form that was open         *)
(* (bookings/serializers.py, manager/forms.py).                            *)
THEOREM BookingsInTheirHotel == CatSpec => []HotelOfRoom
<1>1. HInv => HotelOfRoom
  BY DEF HInv
<1>2. QED
  BY HInvInit, HInvNext, <1>1, PTL DEF CatSpec

----------------------------------------------------------------------------
(* The primary pictures.                                                   *)

(* The picture a request is about to save as the primary one of a place.   *)
Claims(e, place) ==
    /\ edit[e] # Nothing /\ edit[e].at = "save"
    /\ edit[e].copy.primary /\ edit[e].copy.place = place

Claimed(place) == {edit[e].key : e \in {f \in Editor : Claims(f, place)}}

(* Pictures that are primary or about to be: no more than requests, for    *)
(* whoever claims a place has first taken it from all others.              *)
FewClaims ==
    \A place \in Place :
        /\ IsFiniteSet(Primaries(place) \cup Claimed(place))
        /\ Cardinality(Primaries(place) \cup Claimed(place)) <= Cardinality(Editor)

GInv == GalleryTypeOK /\ FewClaims

LEMMA EditTypes ==
    ASSUME GalleryTypeOK, NEW e \in Editor, edit[e] # Nothing
    PROVE  /\ edit[e] \in Edit /\ edit[e].key \in Image /\ edit[e].copy \in Picture
           /\ edit[e].at \in {"clear", "save"}
           /\ edit[e].copy.primary \in BOOLEAN /\ edit[e].copy.place \in Place
  BY DEF GalleryTypeOK, Edit, Picture

LEMMA ClaimsBounded ==
    ASSUME NEW place
    PROVE  IsFiniteSet(Claimed(place)) /\ Cardinality(Claimed(place)) <= Cardinality(Editor)
<1> DEFINE S == {f \in Editor : Claims(f, place)}
           key == [e \in S |-> edit[e].key]
<1>1. /\ IsFiniteSet(S) /\ Cardinality(S) <= Cardinality(Editor)
      /\ Cardinality(S) \in Nat /\ Cardinality(Editor) \in Nat
  BY EditorAssumption, FS_Subset, FS_CardinalityType
<1>2. key \in Surjection(S, Claimed(place))
  BY DEF Surjection, Claimed
<1>3. /\ IsFiniteSet(Claimed(place)) /\ Cardinality(Claimed(place)) <= Cardinality(S)
      /\ Cardinality(Claimed(place)) \in Nat
  BY <1>1, <1>2, FS_Surjection, FS_CardinalityType
<1>4. QED
  BY <1>1, <1>3

LEMMA GInvInit == GalleryInit => GInv
<1> SUFFICES ASSUME GalleryInit PROVE GInv
  OBVIOUS
<1>1. GalleryTypeOK
  BY DEF GalleryInit, GalleryTypeOK
<1>2. ASSUME NEW place \in Place PROVE Primaries(place) \cup Claimed(place) = {}
  BY DEF GalleryInit, Primaries, Claimed, Claims
<1>3. IsFiniteSet({}) /\ Cardinality({}) = 0 /\ 0 <= Cardinality(Editor)
  BY FS_EmptySet, FS_CardinalityType, EditorAssumption
<1>4. FewClaims
  BY <1>2, <1>3 DEF FewClaims
<1>5. QED
  BY <1>1, <1>4 DEF GInv

(* The claims on a place shrink, or all are those of requests.             *)
LEMMA FewerClaims ==
    ASSUME FewClaims,
           \A place \in Place :
               \/ (Primaries(place) \cup Claimed(place))' \subseteq Primaries(place) \cup Claimed(place)
               \/ Primaries(place)' \subseteq Claimed(place)'
    PROVE  FewClaims'
<1> SUFFICES ASSUME NEW place \in Place
             PROVE  /\ IsFiniteSet(Primaries(place)' \cup Claimed(place)')
                    /\ Cardinality(Primaries(place)' \cup Claimed(place)') <= Cardinality(Editor)
  BY DEF FewClaims
<1> DEFINE before == Primaries(place) \cup Claimed(place)
           after == Primaries(place)' \cup Claimed(place)'
<1>1. CASE after \subseteq before
  <2>1. IsFiniteSet(before) /\ Cardinality(before) <= Cardinality(Editor)
    BY DEF FewClaims
  <2>2. IsFiniteSet(after) /\ Cardinality(after) <= Cardinality(before)
    BY <1>1, <2>1, FS_Subset
  <2>3. Cardinality(after) \in Nat /\ Cardinality(before) \in Nat /\ Cardinality(Editor) \in Nat
    BY <2>1, <2>2, EditorAssumption, FS_CardinalityType
  <2>4. QED
    BY <2>1, <2>2, <2>3
<1>2. CASE Primaries(place)' \subseteq Claimed(place)'
  <2>1. after = Claimed(place)'
    BY <1>2
  <2>2. (IsFiniteSet(Claimed(place)) /\ Cardinality(Claimed(place)) <= Cardinality(Editor))'
    BY ClaimsBounded, PTL
  <2>3. QED
    BY <2>1, <2>2
<1>3. QED
  BY <1>1, <1>2

LEMMA GInvNext == GInv /\ [GalleryNext]_galleryVars => GInv'
<1> SUFFICES ASSUME GInv, [GalleryNext]_galleryVars PROVE GInv'
  OBVIOUS
<1> USE DEF GInv
<1>1. ASSUME NEW e \in Editor, NEW i \in Image, NEW copy \in Picture, Open(e, i, copy)
      PROVE  GInv'
  <2> DEFINE j == [key |-> i, copy |-> copy, at |-> IF copy.primary THEN "clear" ELSE "save"]
  <2>1. /\ picture' = picture /\ edit' = [edit EXCEPT ![e] = j]
        /\ j \in Edit /\ (j.at = "save" => ~j.copy.primary)
    BY <1>1 DEF Open, Edit, Picture
  <2>2. GalleryTypeOK'
    BY <2>1 DEF GalleryTypeOK
  <2>3. ASSUME NEW place \in Place
        PROVE  Primaries(place)' = Primaries(place) /\ Claimed(place)' \subseteq Claimed(place)
    <3>1. \A f \in Editor : Claims(f, place)' => Claims(f, place) /\ edit'[f] = edit[f]
      BY <2>1 DEF Claims, GalleryTypeOK
    <3>2. QED
      BY <3>1, <2>1 DEF Primaries, Claimed
  <2>4. QED
    BY <2>2, <2>3, FewerClaims
<1>2. ASSUME NEW e \in Editor, ClearOthers(e) PROVE GInv'
  <2>0. PICK j : j = edit[e]
    OBVIOUS
  <2>1. /\ j # Nothing /\ j.at = "clear" /\ j \in Edit
        /\ edit' = [edit EXCEPT ![e] = [j EXCEPT !.at = "save"]]
        /\ picture' = [i \in Image |-> IF i \in Primaries(j.copy.place) \ {j.key}
                           THEN [picture[i] EXCEPT !.primary = FALSE] ELSE picture[i]]
    BY <2>0, <1>2, EditTypes DEF ClearOthers
  <2>2. [j EXCEPT !.at = "save"] \in Edit /\ [j EXCEPT !.at = "save"] # Nothing
    BY <2>1, NothingAssumption DEF Edit
  <2>3. GalleryTypeOK'
    <3>1. \A i \in Image : picture'[i] \in Picture \cup {Nothing}
      BY <2>1 DEF GalleryTypeOK, Primaries, Picture
    <3>2. QED
      BY <3>1, <2>1, <2>2 DEF GalleryTypeOK
  <2>4. \A place : Primaries(place)' \subseteq Primaries(place)
    <3> SUFFICES ASSUME NEW place, NEW i \in Primaries(place)' PROVE i \in Primaries(place)
      OBVIOUS
    <3>1. i \in Image /\ picture'[i] # Nothing /\ picture'[i].place = place /\ picture'[i].primary
      BY DEF Primaries
    <3>2. CASE picture'[i] = picture[i]
      BY <3>1, <3>2 DEF Primaries
    <3>3. CASE i \in Primaries(j.copy.place) \ {j.key}
      <4>1. picture'[i] = [picture[i] EXCEPT !.primary = FALSE] /\ picture[i] \in Picture
        BY <2>1, <3>1, <3>3 DEF Primaries, GalleryTypeOK
      <4>2. QED
        BY <4>1, <3>1 DEF Picture
    <3>4. QED
      BY <2>1, <3>1, <3>2, <3>3
  <2>5. Primaries(j.copy.place)' \subseteq {j.key}
    <3> SUFFICES ASSUME NEW i \in Primaries(j.copy.place), i # j.key
                 PROVE  i \notin Primaries(j.copy.place)'
      BY <2>4
    <3>1. i \in Image /\ picture[i] \in Picture
      BY DEF Primaries, GalleryTypeOK
    <3>2. picture'[i] = [picture[i] EXCEPT !.primary = FALSE]
      BY <3>1, <2>1
    <3>3. ~picture'[i].primary
      BY <3>1, <3>2 DEF Picture
    <3>4. QED
      BY <3>3 DEF Primaries
  <2>6. /\ edit'[e] # Nothing /\ edit'[e].at = "save" /\ edit'[e].key = j.key
        /\ edit'[e].copy = j.copy /\ \A f \in Editor : f # e => edit'[f] = edit[f]
    BY <2>1, <2>2 DEF GalleryTypeOK, Edit
  <2>7. ASSUME NEW place \in Place, place # j.copy.place \/ ~j.copy.primary
        PROVE  Claimed(place)' \subseteq Claimed(place)
    <3>1. \A f \in Editor : Claims(f, place)' => Claims(f, place) /\ edit'[f] = edit[f]
      BY <2>6, <2>7 DEF Claims
    <3>2. QED
      BY <3>1 DEF Claimed
  <2>8. ASSUME j.copy.primary PROVE j.key \in Claimed(j.copy.place)'
    BY <2>6, <2>8 DEF Claimed, Claims
  <2>9. QED
    BY <2>3, <2>4, <2>5, <2>7, <2>8, FewerClaims
<1>3. ASSUME NEW e \in Editor, SavePicture(e) PROVE GInv'
  <2> DEFINE j == edit[e]
  <2>1. /\ j # Nothing /\ j.at = "save" /\ j \in Edit /\ j.key \in Image /\ j.copy \in Picture
        /\ picture' = [picture EXCEPT ![j.key] = j.copy] /\ edit' = [edit EXCEPT ![e] = Nothing]
    BY <1>3, EditTypes DEF SavePicture
  <2>2. GalleryTypeOK'
    BY <2>1 DEF GalleryTypeOK
  <2>3. ASSUME NEW place \in Place PROVE Claimed(place)' \subseteq Claimed(place)
    <3>1. \A f \in Editor : Claims(f, place)' => Claims(f, place) /\ edit'[f] = edit[f]
      BY <2>1 DEF Claims, GalleryTypeOK
    <3>2. QED
      BY <3>1 DEF Claimed
  <2>4. ASSUME NEW place \in Place, NEW i \in Primaries(place)'
        PROVE  i \in Primaries(place) \cup Claimed(place)
    <3>1. CASE i = j.key
      <4>1. Claims(e, place)
        BY <2>1, <2>4, <3>1 DEF Primaries, Claims, GalleryTypeOK
      <4>2. QED
        BY <4>1, <3>1 DEF Claimed
    <3>2. CASE i # j.key
      BY <2>1, <2>4, <3>2 DEF Primaries, GalleryTypeOK
    <3>3. QED
      BY <3>1, <3>2
  <2>5. QED
    BY <2>2, <2>3, <2>4, FewerClaims
<1>4. ASSUME NEW e \in Editor, Close(e) PROVE GInv'
  <2>1. picture' = picture /\ edit' = [edit EXCEPT ![e] = Nothing]
    BY <1>4 DEF Close
  <2>2. GalleryTypeOK'
    BY <2>1 DEF GalleryTypeOK
  <2>3. ASSUME NEW place \in Place
        PROVE  Primaries(place)' = Primaries(place) /\ Claimed(place)' \subseteq Claimed(place)
    <3>1. \A f \in Editor : Claims(f, place)' => Claims(f, place) /\ edit'[f] = edit[f]
      BY <2>1 DEF Claims, GalleryTypeOK
    <3>2. QED
      BY <3>1, <2>1 DEF Primaries, Claimed
  <2>4. QED
    BY <2>2, <2>3, FewerClaims
<1>5. ASSUME NEW i \in Image, DeletePicture(i) PROVE GInv'
  <2>1. picture' = [picture EXCEPT ![i] = Nothing] /\ edit' = edit
    BY <1>5 DEF DeletePicture
  <2>2. GalleryTypeOK'
    BY <2>1 DEF GalleryTypeOK
  <2>3. ASSUME NEW place \in Place
        PROVE  Primaries(place)' \subseteq Primaries(place) /\ Claimed(place)' = Claimed(place)
    BY <2>1 DEF Primaries, Claimed, Claims, GalleryTypeOK
  <2>4. QED
    BY <2>2, <2>3, FewerClaims
<1>6. CASE UNCHANGED galleryVars
  BY <1>6 DEF GalleryTypeOK, FewClaims, Primaries, Claimed, Claims, galleryVars
<1>7. QED
  BY <1>1, <1>2, <1>3, <1>4, <1>5, <1>6 DEF GalleryNext, RoomImageViews, OfferImageViews

(* A place has no more primary pictures than there are requests that save  *)
(* pictures at the same time, however many of each: one, if they come one  *)
(* after the other (core/models.py 662, offers/models.py 518).             *)
THEOREM PrimariesPerEditor == GallerySpec => []PrimariesBounded
<1>1. GInv => PrimariesBounded
  <2> SUFFICES ASSUME GInv, NEW place \in Place
               PROVE  Cardinality(Primaries(place)) <= Cardinality(Editor)
    BY DEF PrimariesBounded
  <2> DEFINE all == Primaries(place) \cup Claimed(place)
  <2>1. IsFiniteSet(all) /\ Cardinality(all) <= Cardinality(Editor)
    BY DEF GInv, FewClaims
  <2>2. IsFiniteSet(Primaries(place)) /\ Cardinality(Primaries(place)) <= Cardinality(all)
    BY <2>1, FS_Subset
  <2>3. /\ Cardinality(Primaries(place)) \in Nat /\ Cardinality(all) \in Nat
        /\ Cardinality(Editor) \in Nat
    BY <2>1, <2>2, EditorAssumption, FS_CardinalityType
  <2>4. QED
    BY <2>1, <2>2, <2>3
<1>2. QED
  BY GInvInit, GInvNext, <1>1, PTL DEF GallerySpec

----------------------------------------------------------------------------
(* The numbers of a profile.                                               *)

(* What a request holds is one of the sets that were right, and is right   *)
(* now if nothing has changed since its first query.                       *)
SyncHolds(q) ==
    LET s == syncing[q] IN
    /\ s.at \in {"sum", "save", "copied"} => s.copy.total_bookings \in exact
    /\ s.at \in {"save", "copied"} => s.copy.total_spent \in exact
    /\ s.at \in {"sum", "save"} /\ q \notin disturbed => s.copy.total_bookings = Counted(stay)
    /\ s.at = "save" /\ q \notin disturbed => s.copy.total_spent = Counted(stay)

PInv ==
    /\ StatsTypeOK
    /\ Counted(stay) \in exact
    /\ NumbersWereExact
    /\ \A q \in Request : syncing[q] # Idle => SyncHolds(q)

LEMMA SyncTypes ==
    ASSUME StatsTypeOK, NEW q \in Request, syncing[q] # Idle
    PROVE  /\ syncing[q] \in [at : Phase, copy : Numbers] /\ syncing[q].copy \in Numbers
           /\ syncing[q].copy.total_bookings \in SUBSET Stay
           /\ syncing[q].copy.total_spent \in SUBSET Stay
  BY DEF StatsTypeOK, Numbers

LEMMA PInvInit == StatsInit => PInv
<1> SUFFICES ASSUME StatsInit PROVE PInv
  OBVIOUS
<1>1. StatsTypeOK
  BY DEF StatsInit, StatsTypeOK, StayRow, StayStatus, Numbers
<1>2. Counted(stay) = {}
  BY DEF StatsInit, Counted
<1>3. QED
  BY <1>1, <1>2 DEF StatsInit, PInv, NumbersWereExact

(* The requests when a booking changes.                                    *)
LEMMA ChangeStep ==
    ASSUME PInv, NEW b \in Stay, NEW row \in StayRow, Change(b, row), profile' = profile,
           \/ syncing' = syncing
           \/ \E q \in Request : StartSync(q)
    PROVE  PInv'
<1>1. /\ stay' = [stay EXCEPT ![b] = row] /\ exact' = exact \cup {Counted(stay')}
      /\ disturbed' = IF Counted(stay') = Counted(stay) THEN disturbed
                      ELSE disturbed \cup {q \in Request : /\ syncing[q] # Idle
                                                           /\ syncing[q].at \in {"sum", "save"}}
  BY DEF Change
<1>2. Counted(stay') \in SUBSET Stay /\ Counted(stay)' = Counted(stay')
  BY DEF Counted
<1>3. ASSUME NEW q \in Request, syncing'[q] # Idle
      PROVE  \/ syncing'[q] = syncing[q]
             \/ /\ syncing'[q] \in [at : Phase, copy : Numbers]
                /\ syncing'[q].at = "count"
  BY <1>3 DEF StartSync, PInv, StatsTypeOK, Phase, Numbers
<1>4. StatsTypeOK'
  <2>1. syncing' \in [Request -> [at : Phase, copy : Numbers] \cup {Idle}]
    BY DEF StartSync, PInv, StatsTypeOK, Phase, Numbers
  <2>2. QED
    BY <2>1, <1>1, <1>2 DEF PInv, StatsTypeOK
<1>5. NumbersWereExact'
  BY <1>1 DEF PInv, NumbersWereExact
<1>6. ASSUME NEW q \in Request, syncing'[q] # Idle PROVE SyncHolds(q)'
  <2>1. CASE syncing'[q] = syncing[q]
    <3>1. SyncHolds(q)
      BY <2>1, <1>6 DEF PInv
    <3>2. q \notin disturbed' /\ syncing[q].at \in {"sum", "save"} =>
             q \notin disturbed /\ Counted(stay') = Counted(stay)
      BY <2>1, <1>1, <1>6
    <3>3. QED
      BY <2>1, <3>1, <3>2, <1>1, <1>2 DEF SyncHolds
  <2>2. CASE syncing'[q].at = "count"
    BY <2>2 DEF SyncHolds
  <2>3. QED
    BY <2>1, <2>2, <1>3, <1>6
<1>7. QED
  BY <1>1, <1>2, <1>4, <1>5, <1>6 DEF PInv

(* The requests when one of them goes on.                                  *)
LEMMA SyncStep ==
    ASSUME PInv, NEW q \in Request, NEW s \in [at : Phase, copy : Numbers] \cup {Idle},
           syncing' = [syncing EXCEPT ![q] = s], UNCHANGED <<stay, exact>>,
           disturbed' = disturbed \/ (disturbed' = disturbed \ {q} /\ s = Idle),
           NumbersWereExact', profile' \in Numbers, s # Idle => SyncHolds(q)'
    PROVE  PInv'
<1>1. StatsTypeOK'
  BY DEF PInv, StatsTypeOK
<1>2. ASSUME NEW p \in Request, syncing'[p] # Idle PROVE SyncHolds(p)'
  <2>1. CASE p = q
    BY <2>1, <1>2 DEF PInv, StatsTypeOK
  <2>2. CASE p # q
    <3>1. syncing'[p] = syncing[p] /\ SyncHolds(p)
      BY <2>2, <1>2 DEF PInv, StatsTypeOK
    <3>2. QED
      BY <2>2, <3>1 DEF SyncHolds, Counted
  <2>3. QED
    BY <2>1, <2>2
<1>3. (Counted(stay) \in exact)'
  BY DEF PInv, Counted
<1>4. QED
  BY <1>1, <1>2, <1>3 DEF PInv

LEMMA PInvNext == PInv /\ [StatsNext]_statsVars => PInv'
<1> SUFFICES ASSUME PInv, [StatsNext]_statsVars PROVE PInv'
  OBVIOUS
<1>0. Counted(stay) \in SUBSET Stay /\ Counted(stay) \in exact
  BY DEF Counted, PInv
<1>1. ASSUME NEW q \in Request, NEW b \in Stay, NEW row \in StayRow, SaveStay(q, b, row)
      PROVE  PInv'
  BY <1>1, ChangeStep DEF SaveStay
<1>2. ASSUME NEW b \in Stay, UpdateStay(b) PROVE PInv'
  <2>1. stay[b] \in StayRow
    BY DEF PInv, StatsTypeOK
  <2>2. PICK row \in StayRow : Change(b, row)
    <3>1. CASE stay[b].status = "pending" /\ Change(b, [stay[b] EXCEPT !.status = "confirmed"])
      <4>1. [stay[b] EXCEPT !.status = "confirmed"] \in StayRow
        BY <2>1 DEF StayRow, StayStatus
      <4>2. QED
        BY <3>1, <4>1
    <3>2. CASE Change(b, [status |-> "cancelled", paid |-> FALSE])
      BY <3>2 DEF StayRow, StayStatus
    <3>3. CASE /\ stay[b].status \notin {"none", "cancelled"} /\ ~stay[b].paid
               /\ Change(b, [stay[b] EXCEPT !.paid = TRUE])
      <4>1. [stay[b] EXCEPT !.paid = TRUE] \in StayRow
        BY <2>1, <3>3 DEF StayRow, StayStatus
      <4>2. QED
        BY <3>3, <4>1
    <3>4. QED
      BY <1>2, <3>1, <3>2, <3>3 DEF UpdateStay
  <2>3. QED
    BY <2>2, <1>2, ChangeStep DEF UpdateStay
<1>3. ASSUME NEW q \in Request, CountStays(q) PROVE PInv'
  <2> DEFINE s == [at |-> "sum", copy |-> [syncing[q].copy EXCEPT !.total_bookings = Counted(stay)]]
  <2>1. /\ syncing[q] # Idle /\ syncing' = [syncing EXCEPT ![q] = s]
        /\ UNCHANGED <<stay, profile, exact, disturbed>>
    BY <1>3 DEF CountStays, PInv, StatsTypeOK
  <2>2. /\ s \in [at : Phase, copy : Numbers] /\ s.at = "sum"
        /\ s.copy.total_bookings = Counted(stay)
    BY <2>1, <1>0, SyncTypes DEF PInv, Phase, Numbers
  <2> HIDE DEF s
  <2>3. SyncHolds(q)' /\ NumbersWereExact' /\ profile' \in Numbers
    BY <2>1, <2>2, <1>0 DEF SyncHolds, PInv, StatsTypeOK, NumbersWereExact, Counted
  <2>4. QED
    BY <2>1, <2>2, <2>3, SyncStep
<1>4. ASSUME NEW q \in Request, SumStays(q) PROVE PInv'
  <2> DEFINE s == [at |-> "save", copy |-> [syncing[q].copy EXCEPT !.total_spent = Counted(stay)]]
  <2>1. /\ syncing[q] # Idle /\ syncing[q].at = "sum" /\ syncing' = [syncing EXCEPT ![q] = s]
        /\ UNCHANGED <<stay, profile, exact, disturbed>>
    BY <1>4 DEF SumStays, PInv, StatsTypeOK
  <2>2. /\ s \in [at : Phase, copy : Numbers] /\ s.at = "save"
        /\ s.copy.total_bookings = syncing[q].copy.total_bookings
        /\ s.copy.total_spent = Counted(stay)
    BY <2>1, <1>0, SyncTypes DEF PInv, Phase, Numbers
  <2>3. SyncHolds(q)
    BY <2>1 DEF PInv
  <2> HIDE DEF s
  <2>4. SyncHolds(q)' /\ NumbersWereExact' /\ profile' \in Numbers
    BY <2>1, <2>2, <2>3, <1>0 DEF SyncHolds, PInv, StatsTypeOK, NumbersWereExact, Counted
  <2>5. QED
    BY <2>1, <2>2, <2>4, SyncStep
<1>5. ASSUME NEW q \in Request, CopyProfile(q) PROVE PInv'
  <2> DEFINE s == [at |-> "copied", copy |-> profile]
  <2>1. /\ syncing' = [syncing EXCEPT ![q] = s] /\ UNCHANGED <<stay, profile, exact, disturbed>>
    BY <1>5 DEF CopyProfile
  <2>2. s \in [at : Phase, copy : Numbers]
    BY DEF PInv, StatsTypeOK, Phase
  <2>3. SyncHolds(q)' /\ NumbersWereExact' /\ profile' \in Numbers
    BY <2>1 DEF SyncHolds, PInv, StatsTypeOK, NumbersWereExact
  <2> HIDE DEF s
  <2>4. QED
    BY <2>1, <2>2, <2>3, SyncStep
<1>6. ASSUME NEW q \in Request, SaveProfile(q) PROVE PInv'
  <2>1. /\ syncing[q] # Idle /\ syncing[q].at \in {"save", "copied"} /\ profile' = syncing[q].copy
        /\ syncing' = [syncing EXCEPT ![q] = Idle] /\ disturbed' = disturbed \ {q}
        /\ UNCHANGED <<stay, exact>>
    BY <1>6 DEF SaveProfile
  <2>2. NumbersWereExact' /\ profile' \in Numbers
    BY <2>1, SyncTypes DEF PInv, SyncHolds, NumbersWereExact
  <2>3. QED
    BY <2>1, <2>2, SyncStep
<1>7. ASSUME NEW q \in Request, AbandonSync(q) PROVE PInv'
  <2>1. NumbersWereExact' /\ profile' \in Numbers
    BY <1>7 DEF AbandonSync, PInv, StatsTypeOK, NumbersWereExact
  <2>2. QED
    BY <2>1, <1>7, SyncStep DEF AbandonSync
<1>8. CASE UNCHANGED statsVars
  BY <1>8 DEF PInv, StatsTypeOK, NumbersWereExact, SyncHolds, Counted, statsVars
<1>9. QED
  BY <1>1, <1>2, <1>3, <1>4, <1>5, <1>6, <1>7, <1>8 DEF StatsNext

(* However many bookings, recounts and late copies: each number of the     *)
(* profile was right at some moment (accounts/signals.py).                 *)
THEOREM NumbersOnceRight == StatsSpec => []NumbersWereExact
<1>1. PInv => NumbersWereExact
  BY DEF PInv
<1>2. QED
  BY PInvInit, PInvNext, <1>1, PTL DEF StatsSpec

(* A recount nobody disturbs stores two numbers that are right.            *)
THEOREM QuietRecounts == StatsSpec => QuietRecountIsExact
<1> DEFINE Exact == \A q \in Request :
          (/\ syncing[q] # Idle /\ syncing'[q] = Idle
           /\ syncing[q].at = "save" /\ profile' = syncing[q].copy
           /\ q \notin disturbed)
          => profile' = [total_bookings |-> Counted(stay), total_spent |-> Counted(stay)]
<1>1. PInv /\ [StatsNext]_statsVars => [Exact]_statsVars
  <2> SUFFICES ASSUME PInv, NEW q \in Request, syncing[q] # Idle,
                      syncing[q].at = "save", profile' = syncing[q].copy, q \notin disturbed
               PROVE  profile' = [total_bookings |-> Counted(stay), total_spent |-> Counted(stay)]
    OBVIOUS
  <2>1. /\ profile' \in Numbers /\ profile'.total_bookings = Counted(stay)
        /\ profile'.total_spent = Counted(stay)
    BY SyncTypes DEF PInv, SyncHolds
  <2>2. QED
    BY <2>1 DEF Numbers
<1>2. QED
  BY PInvInit, PInvNext, <1>1, PTL DEF StatsSpec, QuietRecountIsExact

----------------------------------------------------------------------------
(* The three together.                                                     *)

(* A behaviour of the three, of which one moves, is one of each of them.   *)
THEOREM CatalogueImplementsComponents ==
    CatalogueSpec => CatSpec /\ GallerySpec /\ StatsSpec
<1>1. Init => CatInit /\ GalleryInit /\ StatsInit
  BY DEF Init
<1>2. [Next]_<<topic, catVars, galleryVars, statsVars>> =>
          [CatNext]_catVars /\ [GalleryNext]_galleryVars /\ [StatsNext]_statsVars
  BY DEF Next
<1>3. QED
  BY <1>1, <1>2, PTL DEF CatalogueSpec, CatSpec, GallerySpec, StatsSpec

(* The rows, pictures, numbers and requests have their types, for any      *)
(* tables and any number of requests.                                      *)
THEOREM CatalogueComponentsTyped == CatalogueSpec => []CatalogueTypeOK
<1>1. CInv /\ GInv /\ PInv => CatalogueTypeOK
  BY DEF CatalogueTypeOK, CInv, GInv, PInv
<1>2. CatSpec => []CInv
  BY CInvInit, CInvNext, PTL DEF CatSpec
<1>3. GallerySpec => []GInv
  BY GInvInit, GInvNext, PTL DEF GallerySpec
<1>4. StatsSpec => []PInv
  BY PInvInit, PInvNext, PTL DEF StatsSpec
<1>5. QED
  BY <1>1, <1>2, <1>3, <1>4, CatalogueImplementsComponents, PTL

(* Whatever the run checks of the catalogue holds of every instance.       *)
THEOREM CatalogueSafe ==
    CatalogueSpec => /\ []NoDangling /\ []HotelOfRoom /\ RowsGoWithParents
                     /\ []PrimariesBounded
                     /\ []NumbersWereExact /\ QuietRecountIsExact
  BY CatalogueImplementsComponents, NothingDangles, BookingsInTheirHotel,
     DeletionsFollowReferences, PrimariesPerEditor, NumbersOnceRight, QuietRecounts, PTL
=============================================================================
