------------------------- MODULE ReservationProofs -------------------------
(***************************************************************************)
(* Proofs about Reservation.tla, for every number of clients, rooms, days  *)
(* and keys.  The inductive invariant IInv joins the type invariant to     *)
(* HoldsWhatItNeeds (the lock protocol), CheckStaysValid (the check of     *)
(* step 2 cannot go stale while the lock is held) and NoDoubleBooking.     *)
(***************************************************************************)
EXTENDS Reservation, TLAPS

IInv ==
    /\ TypeOK
    /\ HoldsWhatItNeeds
    /\ CheckStaysValid
    /\ NoDoubleBooking
    /\ CreationAudited

----------------------------------------------------------------------------
(* Two stays overlap as the code tests it exactly when they share a room   *)
(* and a night: check_in_date__lt / check_out_date__gt is the right test.  *)
THEOREM OverlapIsSharedNight ==
    ASSUME NEW s \in Stay, NEW t \in Stay
    PROVE  Overlaps(s, t) <=>
             s.room = t.room /\ \E n \in Int : n \in Nights(s) /\ n \in Nights(t)
<1> /\ s.checkIn \in Int /\ s.checkOut \in Int /\ s.checkIn < s.checkOut
    /\ t.checkIn \in Int /\ t.checkOut \in Int /\ t.checkIn < t.checkOut
  BY DayAssumption DEF Stay
<1>1. ASSUME Overlaps(s, t)
      PROVE  \E n \in Int : n \in Nights(s) /\ n \in Nights(t)
  <2>1. CASE s.checkIn <= t.checkIn
    BY <1>1, <2>1 DEF Overlaps, Nights
  <2>2. CASE t.checkIn < s.checkIn
    BY <1>1, <2>2 DEF Overlaps, Nights
  <2>3. QED
    BY <2>1, <2>2
<1>2. ASSUME s.room = t.room, NEW n \in Int, n \in Nights(s), n \in Nights(t)
      PROVE  Overlaps(s, t)
  BY <1>2 DEF Overlaps, Nights
<1>3. QED
  BY <1>1, <1>2 DEF Overlaps

(* The test is symmetric, so it does not matter which row is looked up.    *)
LEMMA OverlapSymmetric ==
    ASSUME NEW s \in Stay, NEW t \in Stay
    PROVE  Overlaps(s, t) <=> Overlaps(t, s)
<1> /\ s.checkIn \in Int /\ s.checkOut \in Int
    /\ t.checkIn \in Int /\ t.checkOut \in Int
  BY DayAssumption DEF Stay
<1> QED
  BY DEF Overlaps

LEMMA RowFields ==
    ASSUME NEW r \in Row
    PROVE  /\ r # NoRow
           /\ r.stay \in Stay
           /\ r.status \in Status
           /\ r.deleted \in BOOLEAN
BY NoRowAssumption DEF Row

----------------------------------------------------------------------------
(* What a single-statement writer leaves of the calendar: a row that is    *)
(* live after it was live before, for the same stay.                       *)
OnlyReleases ==
    \A x \in Booking :
        Live(table'[x]) => Live(table[x]) /\ table'[x].stay = table[x].stay

LEMMA WritersOnlyRelease ==
    ASSUME TypeOK, NEW b \in Booking, WriterNext(b)
    PROVE  /\ OnlyReleases
           /\ table' \in [Booking -> Row \cup {NoRow}]
           /\ \A x \in Booking \ {b} : table'[x] = table[x]
           /\ UNCHANGED <<lock, pc, request, draft>>
           /\ table[b] # NoRow
           /\ \/ created' = created /\ table'[b] # NoRow
              \/ created' = created \ {b} /\ table'[b] = NoRow
<1> USE DEF TypeOK
<1> table[b] \in Row \cup {NoRow}
  OBVIOUS
<1>1. ASSUME Visible(table[b]), NEW r \in Row, Write(b, r), r.stay = table[b].stay,
             Live(r) => Live(table[b])
      PROVE  /\ OnlyReleases
             /\ table' \in [Booking -> Row \cup {NoRow}]
             /\ \A x \in Booking \ {b} : table'[x] = table[x]
             /\ UNCHANGED <<created, lock, pc, request, draft>>
             /\ table[b] # NoRow
             /\ table'[b] # NoRow
  BY <1>1, RowFields DEF OnlyReleases, Write, Visible
<1>2. Visible(table[b]) => table[b] \in Row
  BY DEF Visible
<1>3. CASE ExpirePending(b)
  <2> DEFINE r == [table[b] EXCEPT !.status = "cancelled"]
  <2>1. r \in Row /\ r.stay = table[b].stay /\ ~Live(r)
    BY <1>2, <1>3 DEF ExpirePending, Row, Live, Status, LiveStatus
  <2>2. QED
    BY <1>1, <1>3, <2>1 DEF ExpirePending
<1>4. CASE MarkConfirmed(b)
  <2> DEFINE r == [table[b] EXCEPT !.status = "confirmed"]
  <2>1. r \in Row /\ r.stay = table[b].stay /\ Live(table[b])
    BY <1>2, <1>4 DEF MarkConfirmed, Row, Live, Status, LiveStatus
  <2>2. QED
    BY <1>1, <1>4, <2>1 DEF MarkConfirmed
<1>5. CASE MarkCancelled(b)
  <2> DEFINE r == [table[b] EXCEPT !.status = "cancelled"]
  <2>1. r \in Row /\ r.stay = table[b].stay /\ ~Live(r)
    BY <1>2, <1>5 DEF MarkCancelled, Row, Live, Status, LiveStatus
  <2>2. QED
    BY <1>1, <1>5, <2>1 DEF MarkCancelled
<1>6. CASE SoftDelete(b)
  <2> DEFINE r == [table[b] EXCEPT !.deleted = TRUE]
  <2>1. r \in Row /\ r.stay = table[b].stay /\ ~Live(r)
    BY <1>2, <1>6 DEF SoftDelete, Row, Live, Visible
  <2>2. QED
    BY <1>1, <1>6, <2>1 DEF SoftDelete
<1>7. CASE HardDelete(b)
  BY <1>7 DEF HardDelete, OnlyReleases, Live, Visible
<1>8. QED
  BY <1>3, <1>4, <1>5, <1>6, <1>7 DEF WriterNext

----------------------------------------------------------------------------
(* The end of a transaction keeps the types and frees only its own lock.   *)
LEMMA EndFacts ==
    ASSUME TypeOK, NEW c \in Client, End(c)
    PROVE  /\ lock' \in [Room -> Client \cup {NoClient}]
           /\ pc' \in [Client -> {"idle", "waiting"} \cup InTransaction]
           /\ request' \in [Client -> Stay \cup {NoStay}]
           /\ draft' \in [Client -> Booking \cup {NoBooking}]
           /\ pc'[c] = "idle" /\ draft'[c] = NoBooking
           /\ \A d \in Client \ {c} : /\ pc'[d] = pc[d]
                                      /\ request'[d] = request[d]
                                      /\ draft'[d] = draft[d]
           /\ \A r \in Room, d \in Client \ {c} : lock[r] = d => lock'[r] = d
BY DEF TypeOK, End

LEMMA StayFields ==
    ASSUME NEW s \in Stay
    PROVE  s.room \in Room
BY DEF Stay

LEMMA InitInvariant == Init => IInv
BY NoRowAssumption
   DEF Init, IInv, TypeOK, HoldsWhatItNeeds, CheckStaysValid, NoDoubleBooking,
       CreationAudited, Live, Visible, InTransaction

(* The end of one transaction takes nothing from the others.               *)
LEMMA EndKeepsHoldings ==
    ASSUME TypeOK, HoldsWhatItNeeds, NEW c \in Client, End(c),
           \A d \in Client \ {c} :
                pc[d] \in {"inserted", "logged"} => table'[draft[d]] = table[draft[d]]
    PROVE  HoldsWhatItNeeds'
<1> SUFFICES ASSUME NEW d \in Client
             PROVE  /\ pc'[d] # "idle" => request'[d] \in Stay
                    /\ pc'[d] \in InTransaction => lock'[request'[d].room] = d
                    /\ IF pc'[d] \in {"inserted", "logged"}
                       THEN /\ draft'[d] \in Booking
                            /\ table'[draft'[d]] = NoRow
                            /\ \A e \in Client : e # d => draft'[e] # draft'[d]
                       ELSE draft'[d] = NoBooking
  BY DEF HoldsWhatItNeeds
<1>1. CASE d = c
  BY <1>1, EndFacts DEF InTransaction
<1>2. CASE d # c
  <2>1. pc'[d] = pc[d] /\ request'[d] = request[d] /\ draft'[d] = draft[d]
    BY <1>2, EndFacts
  <2>2. pc'[d] \in InTransaction => lock'[request'[d].room] = d
    BY <1>2, <2>1, EndFacts, StayFields DEF HoldsWhatItNeeds, InTransaction
  <2>3. ASSUME pc[d] \in {"inserted", "logged"}, NEW e \in Client, e # d
        PROVE  draft'[e] # draft'[d]
    BY <1>2, <2>1, <2>3, EndFacts, NoValues DEF HoldsWhatItNeeds
  <2>4. QED
    BY <1>2, <2>1, <2>2, <2>3 DEF HoldsWhatItNeeds
<1>3. QED
  BY <1>1, <1>2

(* A transaction that ends without writing (Refuse, Fail) keeps IInv.      *)
LEMMA EndWithoutWriting ==
    ASSUME IInv, NEW c \in Client, End(c), UNCHANGED <<table, created>>
    PROVE  IInv'
<1> USE DEF IInv
<1>1. TypeOK'
  BY EndFacts DEF TypeOK
<1>2. HoldsWhatItNeeds'
  BY EndKeepsHoldings
<1>3. CheckStaysValid'
  BY EndFacts DEF CheckStaysValid, Conflicting
<1>4. NoDoubleBooking' /\ CreationAudited'
  BY DEF NoDoubleBooking, CreationAudited
<1>5. QED
  BY <1>1, <1>2, <1>3, <1>4

----------------------------------------------------------------------------
(* One step of one client.                                                 *)
LEMMA ClientStep ==
    ASSUME IInv, NEW c \in Client, ClientNext(c)
    PROVE  IInv'
<1> USE DEF IInv
<1>1. ASSUME NEW s \in Stay, Submit(c, s)
      PROVE  IInv'
  <2>1. TypeOK'
    BY <1>1 DEF Submit, TypeOK, InTransaction
  <2>2. HoldsWhatItNeeds'
    BY <1>1 DEF Submit, TypeOK, HoldsWhatItNeeds, InTransaction
  <2>3. CheckStaysValid'
    BY <1>1 DEF Submit, TypeOK, CheckStaysValid, Conflicting
  <2>4. QED
    BY <1>1, <2>1, <2>2, <2>3 DEF Submit, NoDoubleBooking, CreationAudited
<1>2. CASE LockRoom(c)
  <2>1. request[c] \in Stay /\ request[c].room \in Room
    BY <1>2, StayFields DEF LockRoom, HoldsWhatItNeeds
  <2>2. TypeOK'
    BY <1>2, <2>1 DEF LockRoom, TypeOK, InTransaction
  <2>3. HoldsWhatItNeeds'
    BY <1>2, <2>1, StayFields, NoValues
       DEF LockRoom, TypeOK, HoldsWhatItNeeds, InTransaction
  <2>4. CheckStaysValid'
    BY <1>2 DEF LockRoom, TypeOK, CheckStaysValid, Conflicting
  <2>5. QED
    BY <1>2, <2>2, <2>3, <2>4 DEF LockRoom, NoDoubleBooking, CreationAudited
<1>3. CASE Refuse(c)
  BY <1>3, EndWithoutWriting DEF Refuse
<1>4. ASSUME NEW b \in Booking, Insert(c, b)
      PROVE  IInv'
  <2>1. TypeOK'
    BY <1>4 DEF Insert, TypeOK, InTransaction
  <2>2. HoldsWhatItNeeds'
    BY <1>4, NoValues DEF Insert, TypeOK, HoldsWhatItNeeds, InTransaction
  <2>3. CheckStaysValid'
    BY <1>4 DEF Insert, TypeOK, CheckStaysValid, Conflicting
  <2>4. QED
    BY <1>4, <2>1, <2>2, <2>3 DEF Insert, NoDoubleBooking, CreationAudited
<1>5. CASE LogCreation(c)
  <2>1. TypeOK'
    BY <1>5 DEF LogCreation, TypeOK, InTransaction
  <2>2. HoldsWhatItNeeds'
    BY <1>5 DEF LogCreation, TypeOK, HoldsWhatItNeeds, InTransaction
  <2>3. CheckStaysValid'
    BY <1>5 DEF LogCreation, TypeOK, CheckStaysValid, Conflicting
  <2>4. QED
    BY <1>5, <2>1, <2>2, <2>3 DEF LogCreation, NoDoubleBooking, CreationAudited
<1>6. CASE Commit(c)
  <2> DEFINE b == draft[c]
             r == [stay |-> request[c], status |-> "pending", deleted |-> FALSE]
  <2>1. /\ b \in Booking /\ request[c] \in Stay /\ table[b] = NoRow
        /\ ~Conflicting(request[c])
        /\ lock[request[c].room] = c
    BY <1>6 DEF Commit, HoldsWhatItNeeds, CheckStaysValid, InTransaction
  <2>2. r \in Row /\ r.stay = request[c] /\ r # NoRow
    BY <2>1, RowFields DEF Row, Status
  <2>3. /\ table' = [table EXCEPT ![b] = r]
        /\ created' = created \cup {b}
        /\ End(c)
    BY <1>6 DEF Commit
  <2>4. TypeOK'
    BY <2>1, <2>2, <2>3, EndFacts DEF TypeOK
  <2>5. \A x \in Booking : table'[x] = IF x = b THEN r ELSE table[x]
    BY <2>1, <2>3 DEF TypeOK
  <2>6. HoldsWhatItNeeds'
    <3>1. \A d \in Client \ {c} : pc[d] \in {"inserted", "logged"} =>
              table'[draft[d]] = table[draft[d]]
      BY <1>6, <2>1, <2>5 DEF Commit, HoldsWhatItNeeds
    <3>2. QED
      BY <2>3, <3>1, EndKeepsHoldings
  <2>7. CheckStaysValid'
    <3> SUFFICES ASSUME NEW d \in Client, pc'[d] \in {"inserted", "logged"},
                        NEW x \in Booking, Live(table'[x])
                 PROVE  ~Overlaps(table'[x].stay, request'[d])
      BY DEF CheckStaysValid, Conflicting
    <3>1. d # c /\ pc[d] = pc'[d] /\ request[d] = request'[d]
      BY <2>3, EndFacts
    <3>2. CASE x = b
      <4>1. request[d].room # request[c].room
        BY <2>1, <3>1 DEF HoldsWhatItNeeds, InTransaction
      <4>2. QED
        BY <2>2, <2>5, <3>1, <3>2, <4>1 DEF Overlaps
    <3>3. CASE x # b
      BY <2>5, <3>1, <3>3 DEF CheckStaysValid, Conflicting
    <3>4. QED
      BY <3>2, <3>3
  <2>8. NoDoubleBooking'
    <3> SUFFICES ASSUME NEW x \in Booking, NEW y \in Booking, x # y,
                        Live(table'[x]), Live(table'[y])
                 PROVE  ~Overlaps(table'[x].stay, table'[y].stay)
      BY DEF NoDoubleBooking
    <3>1. CASE x # b /\ y # b
      BY <2>5, <3>1 DEF NoDoubleBooking
    <3>2. ASSUME NEW z \in Booking, z # b, Live(table'[z])
          PROVE  /\ ~Overlaps(table'[z].stay, table'[b].stay)
                 /\ ~Overlaps(table'[b].stay, table'[z].stay)
      <4>1. Live(table[z]) /\ table'[z].stay = table[z].stay /\ table[z].stay \in Stay
        BY <2>5, <3>2, RowFields DEF TypeOK, Live, Visible
      <4>2. ~Overlaps(table[z].stay, request[c])
        BY <2>1, <4>1 DEF Conflicting
      <4>3. QED
        BY <2>1, <2>2, <2>5, <4>1, <4>2, OverlapSymmetric
    <3>3. QED
      BY <3>1, <3>2
  <2>9. CreationAudited'
    BY <2>1, <2>2, <2>3, <2>5 DEF CreationAudited
  <2>10. QED
    BY <2>4, <2>6, <2>7, <2>8, <2>9
<1>7. CASE Fail(c)
  BY <1>7, EndWithoutWriting DEF Fail
<1>8. QED
  BY <1>1, <1>2, <1>3, <1>4, <1>5, <1>6, <1>7 DEF ClientNext

(* One step of one single-statement writer.                                *)
LEMMA WriterStep ==
    ASSUME IInv, NEW b \in Booking, WriterNext(b)
    PROVE  IInv'
<1> USE DEF IInv
<1>1. /\ OnlyReleases
      /\ table' \in [Booking -> Row \cup {NoRow}]
      /\ \A x \in Booking \ {b} : table'[x] = table[x]
      /\ UNCHANGED <<lock, pc, request, draft>>
      /\ table[b] # NoRow
      /\ \/ created' = created /\ table'[b] # NoRow
         \/ created' = created \ {b} /\ table'[b] = NoRow
  BY WritersOnlyRelease
<1>2. TypeOK'
  BY <1>1 DEF TypeOK
<1>3. HoldsWhatItNeeds'
  BY <1>1 DEF HoldsWhatItNeeds
<1>4. CheckStaysValid'
  BY <1>1 DEF CheckStaysValid, Conflicting, OnlyReleases
<1>5. NoDoubleBooking'
  BY <1>1 DEF NoDoubleBooking, OnlyReleases
<1>6. CreationAudited'
  BY <1>1 DEF CreationAudited
<1>7. QED
  BY <1>2, <1>3, <1>4, <1>5, <1>6

LEMMA StepInvariant == IInv /\ [Next]_vars => IInv'
<1> SUFFICES ASSUME IInv, [Next]_vars PROVE IInv'
  OBVIOUS
<1>1. CASE UNCHANGED vars
  BY <1>1 DEF vars, IInv, TypeOK, HoldsWhatItNeeds, CheckStaysValid, Conflicting,
              NoDoubleBooking, CreationAudited
<1>2. CASE Next
  BY <1>2, ClientStep, WriterStep DEF Next
<1>3. QED
  BY <1>1, <1>2

(* The inductive invariant holds of every reachable state.                 *)
THEOREM Invariance == Spec => []IInv
<1>1. QED
  BY InitInvariant, StepInvariant, PTL DEF Spec

(* Every reachable state is well typed.                                    *)
THEOREM TypeCorrect == Spec => []TypeOK
BY Invariance, PTL DEF IInv

(* No interleaving of reservation requests and single-statement writers    *)
(* gives one night of a room to two live bookings.                         *)
THEOREM NoDoubleBookingHolds == Spec => []NoDoubleBooking
BY Invariance, PTL DEF IInv

(* The availability check of step 2 still holds when the row is committed. *)
THEOREM CheckStaysValidHolds == Spec => []CheckStaysValid
BY Invariance, PTL DEF IInv

(* A request inside its transaction holds the lock of its room, and the    *)
(* key of the row it has inserted is its own.                              *)
THEOREM HoldsWhatItNeedsHolds == Spec => []HoldsWhatItNeeds
BY Invariance, PTL DEF IInv

(* Bookings and their audit entry 'created' come and go together.          *)
THEOREM CreationAuditedHolds == Spec => []CreationAudited
BY Invariance, PTL DEF IInv

----------------------------------------------------------------------------
(* Refinement: the committed table, read as the set of nights of its live  *)
(* rows, is RoomLedger's ledger.                                           *)

LEMMA EnteredIs ==
    ASSUME NEW e
    PROVE  e \in Entered <=>
             \E x \in Booking :
                /\ Live(table[x])
                /\ \E n \in Nights(table[x].stay) : e = <<x, table[x].stay.room, n>>
BY DEF Entered

LEMMA EnteredIsPrimed ==
    ASSUME NEW e
    PROVE  e \in Entered' <=>
             \E x \in Booking :
                /\ Live(table'[x])
                /\ \E n \in Nights(table'[x].stay) : e = <<x, table'[x].stay.room, n>>
BY DEF Entered

LEMMA InitEmptiesLedger == Init => Ledger!Init
BY NoRowAssumption DEF Init, Ledger!Init, Entered, Live, Visible

(* A commit takes all the nights of the stay, and they were free.          *)
LEMMA CommitTakes ==
    ASSUME IInv, NEW c \in Client, Commit(c)
    PROVE  Ledger!Next
<1> DEFINE b == draft[c]
           s == request[c]
           r == [stay |-> s, status |-> "pending", deleted |-> FALSE]
<1>1. b \in Booking /\ s \in Stay /\ table[b] = NoRow /\ ~Conflicting(s)
  BY DEF Commit, IInv, HoldsWhatItNeeds, CheckStaysValid, InTransaction
<1>2. r \in Row /\ Live(r) /\ r.stay = s
  BY <1>1, RowFields DEF Row, Status, Live, Visible, LiveStatus
<1>3. \A x \in Booking : table'[x] = IF x = b THEN r ELSE table[x]
  BY <1>1 DEF Commit, IInv, TypeOK
<1>4. \A e \in Entered : e[1] # b
  <2> SUFFICES ASSUME NEW e \in Entered PROVE e[1] # b
    OBVIOUS
  <2>1. PICK x \in Booking :
            Live(table[x]) /\ \E n \in Nights(table[x].stay) : e = <<x, table[x].stay.room, n>>
    BY EnteredIs
  <2>2. x # b
    BY <1>1, <2>1 DEF Live, Visible
  <2>3. e[1] = x
    BY <2>1
  <2>4. QED
    BY <2>2, <2>3
<1>5. Ledger!Free(s.room, Nights(s))
  <2> SUFFICES ASSUME NEW e \in Entered, e[2] = s.room, e[3] \in Nights(s)
               PROVE  FALSE
    BY DEF Ledger!Free
  <2>1. PICK x \in Booking :
            /\ Live(table[x])
            /\ \E n \in Nights(table[x].stay) : e = <<x, table[x].stay.room, n>>
    BY EnteredIs
  <2>2. /\ table[x].stay.room = s.room
        /\ e[3] \in Nights(table[x].stay)
    BY <2>1
  <2>3. table[x].stay \in Stay
    BY <2>1, RowFields DEF IInv, TypeOK, Live, Visible
  <2>4. e[3] \in Int
    BY <1>1, DayAssumption DEF Nights, Stay
  <2>5. Overlaps(table[x].stay, s)
    BY <1>1, <2>2, <2>3, <2>4, OverlapIsSharedNight
  <2>6. QED
    BY <1>1, <2>1, <2>5 DEF Conflicting
<1>6. Entered' = Entered \cup ({b} \X {s.room} \X Nights(s))
  <2>1. ASSUME NEW e
        PROVE  e \in Entered' <=>
                 e \in Entered \/ \E n \in Nights(s) : e = <<b, s.room, n>>
    <3>1. ~Live(table[b])
      BY <1>1 DEF Live, Visible
    <3>2. table'[b] = r /\ \A x \in Booking : x # b => table'[x] = table[x]
      BY <1>1, <1>3
    <3>3. ASSUME e \in Entered'
          PROVE  e \in Entered \/ \E n \in Nights(s) : e = <<b, s.room, n>>
      <4>1. PICK x \in Booking :
               Live(table'[x]) /\ \E n \in Nights(table'[x].stay) : e = <<x, table'[x].stay.room, n>>
        BY <3>3, EnteredIsPrimed
      <4>2. CASE x = b
        BY <1>2, <3>2, <4>1, <4>2
      <4>3. CASE x # b
        BY <3>2, <4>1, <4>3, EnteredIs
      <4>4. QED
        BY <4>2, <4>3
    <3>4. ASSUME e \in Entered
          PROVE  e \in Entered'
      <4>1. PICK x \in Booking :
               Live(table[x]) /\ \E n \in Nights(table[x].stay) : e = <<x, table[x].stay.room, n>>
        BY <3>4, EnteredIs
      <4>2. x # b
        BY <3>1, <4>1
      <4>3. QED
        BY <3>2, <4>1, <4>2, EnteredIsPrimed
    <3>5. ASSUME NEW n \in Nights(s), e = <<b, s.room, n>>
          PROVE  e \in Entered'
      <4>1. Live(table'[b]) /\ table'[b].stay = s
        BY <1>2, <3>2
      <4>2. QED
        BY <1>1, <3>5, <4>1, EnteredIsPrimed
    <3>6. QED
      BY <3>3, <3>4, <3>5
  <2>2. ASSUME NEW e
        PROVE  e \in {b} \X {s.room} \X Nights(s) <=>
                 \E n \in Nights(s) : e = <<b, s.room, n>>
    OBVIOUS
  <2>3. QED
    BY <2>1, <2>2
<1>7. Nights(s) = s.checkIn .. (s.checkOut - 1)
  BY DEF Nights
<1>8. s.room \in Room /\ s.checkIn \in Day /\ s.checkOut \in Day
  BY <1>1 DEF Stay
<1>9. Ledger!Take(b, s.room, s.checkIn .. (s.checkOut - 1))
  BY <1>4, <1>5, <1>6, <1>7 DEF Ledger!Take
<1>10. QED
  BY <1>1, <1>8, <1>9 DEF Ledger!Next

(* A single-statement writer gives back the nights of its row, or none.    *)
LEMMA WriterGivesBack ==
    ASSUME IInv, NEW b \in Booking, WriterNext(b)
    PROVE  Ledger!Next \/ Entered' = Entered
<1>1. OnlyReleases /\ \A x \in Booking \ {b} : table'[x] = table[x]
  BY WritersOnlyRelease DEF IInv
<1>2. CASE Live(table'[b]) \/ ~Live(table[b])
  <2>1. ASSUME NEW e PROVE e \in Entered' <=> e \in Entered
    BY <1>1, <1>2, EnteredIs, EnteredIsPrimed DEF OnlyReleases
  <2>2. QED
    BY <2>1
<1>3. CASE Live(table[b]) /\ ~Live(table'[b])
  <2>1. ASSUME NEW e PROVE e \in Entered' <=> e \in Entered /\ e[1] # b
    BY <1>1, <1>3, EnteredIs, EnteredIsPrimed
  <2>2. Entered' = {e \in Entered : e[1] # b}
    BY <2>1
  <2>3. QED
    BY <2>2 DEF Ledger!Next, Ledger!GiveBack
<1>4. QED
  BY <1>2, <1>3

LEMMA LedgerStep == IInv /\ [Next]_vars => [Ledger!Next]_Entered
<1> SUFFICES ASSUME IInv, [Next]_vars PROVE Ledger!Next \/ Entered' = Entered
  OBVIOUS
<1>1. CASE UNCHANGED table
  BY <1>1 DEF Entered
<1>2. ASSUME NEW c \in Client, ClientNext(c), ~UNCHANGED table
      PROVE  Commit(c)
  BY <1>2 DEF ClientNext, Submit, LockRoom, Refuse, Insert, LogCreation, Fail
<1>3. QED
  BY <1>1, <1>2, CommitTakes, WriterGivesBack DEF Next, vars

(* reserve_room, beside the single-statement writers, implements the       *)
(* ledger: every stay is taken whole, in one step, and only where free.    *)
THEOREM RefinesLedger == Spec => ImplementsLedger
<1>1. Spec => []IInv
  BY Invariance
<1>2. QED
  BY <1>1, InitEmptiesLedger, LedgerStep, PTL DEF Spec, ImplementsLedger, Ledger!Spec
=============================================================================
