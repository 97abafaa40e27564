----------------------- MODULE BookingLifecycleProofs -----------------------
(***************************************************************************)
(* Requests that only release nights are harmless, for any number of       *)
(* bookings, rooms, days and concurrent requests, although they save whole *)
(* copies of any age.  The argument: whatever such a request saves is not  *)
(* live, and a new reservation, which is, holds the lock of its room from  *)
(* its look-up to its commit.                                              *)
(*                                                                         *)
(* Then requests of every kind: types; that a booking is cancelled once,   *)
(* which the refund record's one-to-one key ensures although nothing locks *)
(* the booking; what is marked completed when.  Then requests one at a     *)
(* time, and the ledger of room nights that the releasing ones implement.  *)
(***************************************************************************)
EXTENDS BookingLifecycle, TLAPS

(* What worker w will save takes no night.                                 *)
OnlyReleases(w) ==
    /\ job[w].op \in {"cancel", "destroy", "softdelete"}
    /\ job[w].op # "softdelete" => job[w].row.status = "cancelled"

(* What worker w will save is a new row, whose nights are free.            *)
HoldsRoom(w) ==
    /\ job[w].op = "reserve"
    /\ job[w].row.status = "pending" /\ job[w].row.deleted = FALSE
    /\ table[job[w].key] = NoRow
    /\ ~ConflictsBeside(job[w].row.stay, job[w].key)
    /\ \A v \in Worker : v # w /\ job[v] # Idle =>
          /\ job[v].key # job[w].key
          /\ job[v].op = "reserve" => job[v].row.stay.room # job[w].row.stay.room

JobsHarmless ==
    \A w \in Worker : job[w] # Idle => OnlyReleases(w) \/ HoldsRoom(w)

(* The inductive invariant.                                                *)
IInv == TypeOK /\ NoDoubleBooking /\ JobsHarmless

----------------------------------------------------------------------------
(* Types.                                                                  *)

LEMMA JobFields ==
    ASSUME TypeOK, NEW w \in Worker, job[w] # Idle
    PROVE  /\ job[w] \in Job
           /\ job[w].op \in Ops /\ job[w].key \in Booking /\ job[w].row \in Row
<1>1. job[w] \in Job
  BY DEF TypeOK
<1>2. QED
  BY <1>1 DEF Job

LEMMA RowFields ==
    ASSUME NEW r \in Row
    PROVE  /\ r.stay \in Stay /\ r.status \in Status /\ r.deleted \in BOOLEAN
           /\ r # NoRow
BY NoRowAssumption DEF Row

LEMMA VisibleIsRow ==
    ASSUME TypeOK, NEW b \in Booking, Visible(table[b])
    PROVE  table[b] \in Row
BY DEF TypeOK, Visible

LEMMA StatusChange ==
    ASSUME NEW r \in Row, NEW st \in Status
    PROVE  /\ WithStatus(r, st) \in Row
           /\ WithStatus(r, st).stay = r.stay
           /\ WithStatus(r, st).status = st
           /\ WithStatus(r, st).deleted = r.deleted
BY DEF WithStatus, Row

LEMMA SymmetricOverlap ==
    ASSUME NEW s \in Stay, NEW t \in Stay
    PROVE  Overlaps(s, t) <=> Overlaps(t, s)
BY DayAssumption DEF Overlaps, Stay

----------------------------------------------------------------------------
(* Steps that begin no request and make no row live.                       *)

(* Row b may change, others do not; a live row keeps its nights or loses   *)
(* them; requests go on with what they have or end.                        *)
LEMMA NothingTaken ==
    ASSUME IInv, TypeOK', NEW b \in Booking,
           \A x \in Booking : x # b => table'[x] = table[x],
           Live(table'[b]) => Live(table[b]) /\ table'[b].stay = table[b].stay,
           \A w \in Worker : job'[w] # Idle =>
                /\ job[w] # Idle
                /\ job'[w].op = job[w].op
                /\ job'[w].key = job[w].key /\ job'[w].row = job[w].row,
           \A w \in Worker : job'[w] # Idle /\ job'[w].op = "reserve"
                => table'[job'[w].key] = NoRow
    PROVE  IInv'
<1>1. \A x \in Booking : Live(table'[x]) => Live(table[x]) /\ table'[x].stay = table[x].stay
  OBVIOUS
<1>2. NoDoubleBooking'
  BY <1>1 DEF IInv, NoDoubleBooking
<1>3. ASSUME NEW w \in Worker, job'[w] # Idle
      PROVE  OnlyReleases(w)' \/ HoldsRoom(w)'
  <2>1. OnlyReleases(w) \/ HoldsRoom(w)
    BY <1>3 DEF IInv, JobsHarmless
  <2>2. CASE OnlyReleases(w)
    BY <1>3, <2>2 DEF OnlyReleases
  <2>3. CASE HoldsRoom(w)
    <3>1. ~ConflictsBeside(job[w].row.stay, job[w].key)'
      BY <1>1, <1>3, <2>3 DEF HoldsRoom, ConflictsBeside
    <3>2. \A v \in Worker : v # w /\ job'[v] # Idle =>
            /\ job'[v].key # job'[w].key
            /\ job'[v].op = "reserve" => job'[v].row.stay.room # job'[w].row.stay.room
      BY <1>3, <2>3 DEF HoldsRoom
    <3>3. QED
      BY <1>3, <2>3, <3>1, <3>2 DEF HoldsRoom
  <2>4. QED
    BY <2>1, <2>2, <2>3
<1>4. QED
  BY <1>2, <1>3 DEF IInv, JobsHarmless

(* The row of a new reservation is not there yet.                          *)
LEMMA ReservedKey ==
    ASSUME IInv, NEW w \in Worker, job[w] # Idle, job[w].op = "reserve"
    PROVE  HoldsRoom(w)
BY DEF IInv, JobsHarmless, OnlyReleases

(* Requests that only change the other tables, stop, or wait.              *)
LEMMA TableUnchanged ==
    ASSUME IInv, TypeOK', UNCHANGED table,
           \A w \in Worker : job'[w] # Idle =>
                /\ job[w] # Idle
                /\ job'[w].op = job[w].op
                /\ job'[w].key = job[w].key /\ job'[w].row = job[w].row
    PROVE  IInv'
<1>1. NoDoubleBooking'
  BY DEF IInv, NoDoubleBooking
<1>2. \A w \in Worker : job'[w] # Idle /\ job'[w].op = "reserve"
            => table'[job'[w].key] = NoRow
  BY ReservedKey DEF HoldsRoom
<1>3. CASE Booking = {}
  <2>1. \A w \in Worker : job'[w] = Idle
    BY <1>3, JobFields DEF IInv
  <2>2. QED
    BY <1>1, <2>1 DEF IInv, JobsHarmless
<1>4. CASE Booking # {}
  <2>1. PICK b \in Booking : TRUE
    BY <1>4
  <2>2. QED
    BY <1>2, <2>1, NothingTaken
<1>5. QED
  BY <1>3, <1>4

LEMMA AdvanceKeeps ==
    ASSUME TypeOK, NEW w \in Worker, job[w] # Idle, NEW at \in Stage, Advance(w, at)
    PROVE  /\ job' \in [Worker -> Job \cup {Idle}]
           /\ \A v \in Worker : job'[v] # Idle =>
                /\ job[v] # Idle
                /\ job'[v].op = job[v].op
                /\ job'[v].key = job[v].key /\ job'[v].row = job[v].row
<1>1. job[w] \in Job
  BY JobFields
<1>2. [job[w] EXCEPT !.at = at] \in Job
  BY <1>1 DEF Job
<1>3. job' = [job EXCEPT ![w] = [job[w] EXCEPT !.at = at]]
  BY DEF Advance
<1>4. QED
  BY <1>1, <1>2, <1>3 DEF TypeOK, Job

LEMMA EndKeeps ==
    ASSUME TypeOK, NEW w \in Worker, End(w)
    PROVE  /\ job' \in [Worker -> Job \cup {Idle}]
           /\ \A v \in Worker : job'[v] # Idle => v # w /\ job'[v] = job[v]
BY DEF End, TypeOK

LEMMA QuietTypes ==
    ASSUME TypeOK, NEW w \in Worker,
           CheckForm(w) \/ CreateRefund(w) \/ RecordCancellation(w) \/ Break(w)
    PROVE  /\ TypeOK' /\ UNCHANGED table
           /\ \A v \in Worker : job'[v] # Idle =>
                /\ job[v] # Idle
                /\ job'[v].op = job[v].op
                /\ job'[v].key = job[v].key /\ job'[v].row = job[v].row
<1>1. CASE CheckForm(w)
  <2>1. job[w] # Idle /\ Advance(w, "checked") /\ UNCHANGED <<table, refunded, recorded, today>>
    BY <1>1 DEF CheckForm
  <2>2. "checked" \in Stage
    BY DEF Stage
  <2>3. TypeOK'
    BY <2>1, <2>2, AdvanceKeeps DEF TypeOK
  <2>4. QED
    BY <2>1, <2>2, <2>3, AdvanceKeeps
<1>2. CASE CreateRefund(w)
  <2>1. /\ job[w] # Idle /\ Advance(w, "refunded")
        /\ refunded' = refunded \cup {job[w].key}
        /\ UNCHANGED <<table, recorded, today>>
    BY <1>2 DEF CreateRefund
  <2>2. "refunded" \in Stage
    BY DEF Stage
  <2>3. TypeOK'
    BY <2>1, <2>2, AdvanceKeeps, JobFields DEF TypeOK
  <2>4. QED
    BY <2>1, <2>2, <2>3, AdvanceKeeps
<1>3. CASE RecordCancellation(w)
  <2>1. /\ job[w] # Idle /\ End(w)
        /\ recorded' = [recorded EXCEPT ![job[w].key] = @ + 1]
        /\ UNCHANGED <<table, refunded, today>>
    BY <1>3 DEF RecordCancellation
  <2>2. recorded' \in [Booking -> Nat]
    BY <2>1, JobFields DEF TypeOK
  <2>3. TypeOK'
    BY <2>1, <2>2, EndKeeps DEF TypeOK
  <2>4. QED
    BY <2>1, <2>3, EndKeeps
<1>4. CASE Break(w)
  <2>1. End(w) /\ UNCHANGED <<table, refunded, recorded, today>>
    BY <1>4 DEF Break
  <2>2. TypeOK'
    BY <2>1, EndKeeps DEF TypeOK
  <2>3. QED
    BY <2>1, <2>2, EndKeeps
<1>5. QED
  BY <1>1, <1>2, <1>3, <1>4

LEMMA QuietSteps ==
    ASSUME IInv, NEW w \in Worker,
           CheckForm(w) \/ CreateRefund(w) \/ RecordCancellation(w) \/ Break(w)
    PROVE  IInv'
BY QuietTypes, TableUnchanged DEF IInv

----------------------------------------------------------------------------
(* Requests that begin.                                                    *)

LEMMA BeginKeeps ==
    ASSUME TypeOK, NEW w \in Worker, NEW op, NEW at \in Stage, NEW b \in Booking,
           NEW r \in Row, Begin(w, op, at, b, r)
    PROVE  /\ TypeOK' /\ UNCHANGED table
           /\ job'[w] # Idle
           /\ job'[w].op = op /\ job'[w].key = b /\ job'[w].row = r
           /\ \A v \in Worker : v # w => job'[v] = job[v]
<1> DEFINE j == [op |-> op, at |-> at, key |-> b, row |-> r]
<1>1. /\ op \in Ops
      /\ job' = [job EXCEPT ![w] = j]
      /\ UNCHANGED <<table, refunded, recorded, today>>
  BY DEF Begin
<1>2. j \in Job
  BY <1>1 DEF Job
<1>3. j # Idle
  BY <1>2, OpsAssumption
<1>4. job'[w] = j /\ \A v \in Worker : v # w => job'[v] = job[v]
  BY <1>1 DEF TypeOK
<1>5. TypeOK'
  BY <1>1, <1>2 DEF TypeOK
<1>6. QED
  BY <1>1, <1>3, <1>4, <1>5

LEMMA BeginToRelease ==
    ASSUME IInv, NEW w \in Worker, NEW b \in Booking, Visible(table[b]),
           NEW op \in {"cancel", "destroy", "softdelete"}, NEW at \in Stage, NEW r \in Row,
           op # "softdelete" => r.status = "cancelled",
           Begin(w, op, at, b, r)
    PROVE  IInv'
<1>1. /\ TypeOK' /\ UNCHANGED table
      /\ job'[w] # Idle
      /\ job'[w].op = op /\ job'[w].key = b /\ job'[w].row = r
      /\ \A v \in Worker : v # w => job'[v] = job[v]
  BY BeginKeeps DEF IInv
<1>2. NoDoubleBooking'
  BY <1>1 DEF IInv, NoDoubleBooking
<1>3. OnlyReleases(w)'
  BY <1>1 DEF OnlyReleases
<1>4. ASSUME NEW v \in Worker, v # w, job'[v] # Idle
      PROVE  OnlyReleases(v)' \/ HoldsRoom(v)'
  <2>1. job'[v] = job[v] /\ job[v] # Idle
    BY <1>1, <1>4
  <2>2. CASE OnlyReleases(v)
    BY <2>1, <2>2 DEF OnlyReleases
  <2>3. CASE HoldsRoom(v)
    <3>1. job[v].key # b
      BY <2>3 DEF HoldsRoom, Visible
    <3>2. ~ConflictsBeside(job[v].row.stay, job[v].key)'
      BY <1>1, <2>1, <2>3 DEF HoldsRoom, ConflictsBeside
    <3>3. \A u \in Worker : u # v /\ job'[u] # Idle =>
            /\ job'[u].key # job'[v].key
            /\ job'[u].op = "reserve" => job'[u].row.stay.room # job'[v].row.stay.room
      BY <1>1, <2>1, <2>3, <3>1 DEF HoldsRoom
    <3>4. QED
      BY <1>1, <2>1, <2>3, <3>2, <3>3 DEF HoldsRoom
  <2>4. QED
    BY <2>1, <2>2, <2>3 DEF IInv, JobsHarmless
<1>5. QED
  BY <1>1, <1>2, <1>3, <1>4 DEF IInv, JobsHarmless

LEMMA LoadSteps ==
    ASSUME IInv, Ops \subseteq Releasing, NEW w \in Worker, NEW b \in Booking,
           \/ LoadToConfirm(w, b) \/ LoadToCancel(w, b)
           \/ LoadToDestroy(w, b) \/ LoadToSoftDelete(w, b)
           \/ \E st \in Status : LoadToUpdate(w, b, st) \/ LoadToBulk(w, b, st)
           \/ \E s \in Stay, st \in Status : LoadToEdit(w, b, s, st) \/ OpenCreate(w, b, s, st)
    PROVE  IInv'
<1>1. "loaded" \in Stage /\ "checked" \in Stage /\ "cancelled" \in Status
  BY DEF Stage, Status
<1>2. ASSUME NEW op, NEW at, NEW r, Begin(w, op, at, b, r)
      PROVE  op \notin {"confirm", "update", "bulk", "edit", "create"}
  BY <1>2 DEF Begin, Releasing
<1>3. CASE LoadToCancel(w, b) \/ LoadToDestroy(w, b)
  <2>1. /\ Visible(table[b])
        /\ \/ Begin(w, "cancel", "checked", b, WithStatus(table[b], "cancelled"))
           \/ Begin(w, "destroy", "checked", b, WithStatus(table[b], "cancelled"))
    BY <1>3 DEF LoadToCancel, LoadToDestroy
  <2>2. /\ WithStatus(table[b], "cancelled") \in Row
        /\ WithStatus(table[b], "cancelled").status = "cancelled"
    BY <1>1, <2>1, VisibleIsRow, StatusChange DEF IInv
  <2>3. QED
    BY <1>1, <2>1, <2>2, BeginToRelease
<1>4. CASE LoadToSoftDelete(w, b)
  <2>1. /\ Visible(table[b])
        /\ Begin(w, "softdelete", "checked", b, [table[b] EXCEPT !.deleted = TRUE])
    BY <1>4 DEF LoadToSoftDelete
  <2>2. [table[b] EXCEPT !.deleted = TRUE] \in Row
    BY <2>1, VisibleIsRow DEF IInv, Row
  <2>3. QED
    BY <1>1, <2>1, <2>2, BeginToRelease
<1>5. QED
  BY <1>2, <1>3, <1>4 DEF LoadToConfirm, LoadToUpdate, LoadToBulk, LoadToEdit, OpenCreate

LEMMA ReserveStep ==
    ASSUME IInv, NEW w \in Worker, NEW b \in Booking, NEW s \in Stay, Reserve(w, b, s)
    PROVE  IInv'
<1> DEFINE r == [stay |-> s, status |-> "pending", deleted |-> FALSE]
<1>1. /\ Unused(b) /\ ~RoomLocked(s.room) /\ ~ConflictsBeside(s, b)
      /\ Begin(w, "reserve", "checked", b, r)
  BY DEF Reserve
<1>2. r \in Row /\ "checked" \in Stage
  BY DEF Row, Status, Stage
<1>3. r.stay = s /\ r.status = "pending" /\ r.deleted = FALSE
  OBVIOUS
<1> HIDE DEF r
<1>4. /\ TypeOK' /\ UNCHANGED table
      /\ job'[w] # Idle
      /\ job'[w].op = "reserve" /\ job'[w].key = b /\ job'[w].row = r
      /\ \A v \in Worker : v # w => job'[v] = job[v]
  BY <1>1, <1>2, BeginKeeps DEF IInv
<1>5. NoDoubleBooking'
  BY <1>4 DEF IInv, NoDoubleBooking
<1>6. \A v \in Worker : v # w /\ job[v] # Idle =>
          /\ job[v].key # b
          /\ job[v].op = "reserve" => job[v].row.stay.room # s.room
  BY <1>1 DEF Unused, RoomLocked
<1>7. HoldsRoom(w)'
  <2>1. ~ConflictsBeside(s, b)'
    BY <1>1, <1>4 DEF ConflictsBeside
  <2>2. QED
    BY <1>1, <1>3, <1>4, <1>6, <2>1 DEF HoldsRoom, Unused
<1>8. ASSUME NEW v \in Worker, v # w, job'[v] # Idle
      PROVE  OnlyReleases(v)' \/ HoldsRoom(v)'
  <2>1. job'[v] = job[v] /\ job[v] # Idle
    BY <1>4, <1>8
  <2>2. CASE OnlyReleases(v)
    BY <2>1, <2>2 DEF OnlyReleases
  <2>3. CASE HoldsRoom(v)
    <3>1. ~ConflictsBeside(job[v].row.stay, job[v].key)'
      <4>1. table' = table /\ job'[v] = job[v] /\ ~ConflictsBeside(job[v].row.stay, job[v].key)
        BY <1>4, <2>1, <2>3 DEF HoldsRoom
      <4>2. QED
        BY <4>1 DEF ConflictsBeside
    <3>2. \A u \in Worker : u # v /\ job'[u] # Idle =>
            /\ job'[u].key # job'[v].key
            /\ job'[u].op = "reserve" => job'[u].row.stay.room # job'[v].row.stay.room
      BY <1>3, <1>4, <1>6, <1>8, <2>1, <2>3 DEF HoldsRoom
    <3>3. QED
      BY <1>4, <2>1, <2>3, <3>1, <3>2 DEF HoldsRoom
  <2>4. QED
    BY <2>1, <2>2, <2>3 DEF IInv, JobsHarmless
<1>9. QED
  BY <1>4, <1>5, <1>7, <1>8 DEF IInv, JobsHarmless

----------------------------------------------------------------------------
(* The save, whose copy may be of any age.                                 *)

LEMMA SaveFacts ==
    ASSUME TypeOK, NEW w \in Worker, Save(w), Saved(job[w]) \in Row
    PROVE  /\ job[w] # Idle /\ job[w].key \in Booking
           /\ table' = [table EXCEPT ![job[w].key] = Saved(job[w])]
           /\ TypeOK'
           /\ \A v \in Worker : job'[v] # Idle =>
                /\ job[v] # Idle
                /\ job'[v].op = job[v].op
                /\ job'[v].key = job[v].key /\ job'[v].row = job[v].row
           /\ job[w].op # "cancel" => \A v \in Worker : job'[v] # Idle => v # w
<1>1. /\ job[w] # Idle
      /\ table' = [table EXCEPT ![job[w].key] = Saved(job[w])]
      /\ IF job[w].op = "cancel" THEN Advance(w, "saved") ELSE End(w)
      /\ UNCHANGED <<refunded, recorded, today>>
  BY DEF Save
<1>2. job[w].key \in Booking
  BY <1>1, JobFields
<1>3. table' \in [Booking -> Row \cup {NoRow}]
  BY <1>1, <1>2 DEF TypeOK
<1>4. CASE job[w].op = "cancel"
  <2>1. "saved" \in Stage /\ Advance(w, "saved")
    BY <1>1, <1>4 DEF Stage
  <2>2. TypeOK'
    BY <1>1, <1>3, <2>1, AdvanceKeeps DEF TypeOK
  <2>3. QED
    BY <1>1, <1>2, <1>4, <2>1, <2>2, AdvanceKeeps
<1>5. CASE job[w].op # "cancel"
  <2>1. End(w)
    BY <1>1, <1>5
  <2>2. TypeOK'
    BY <1>1, <1>3, <2>1, EndKeeps DEF TypeOK
  <2>3. QED
    BY <1>1, <1>2, <2>1, <2>2, EndKeeps
<1>6. QED
  BY <1>4, <1>5

(* What a releasing request writes is a row, and is not live.              *)
LEMMA SavesNothingLive ==
    ASSUME IInv, NEW w \in Worker, Save(w), OnlyReleases(w)
    PROVE  Saved(job[w]) \in Row /\ ~Live(Saved(job[w]))
<1>1. job[w] # Idle /\ (job[w].op \in {"bulk", "softdelete"} => table[job[w].key] # NoRow)
  BY DEF Save
<1>2. job[w].key \in Booking /\ job[w].row \in Row
  BY <1>1, JobFields DEF IInv
<1>3. CASE job[w].op = "softdelete"
  <2>1. table[job[w].key] \in Row
    BY <1>1, <1>2, <1>3 DEF IInv, TypeOK
  <2>2. Saved(job[w]) = [table[job[w].key] EXCEPT !.deleted = TRUE]
    BY <1>3 DEF Saved
  <2>3. Saved(job[w]) \in Row /\ Saved(job[w]).deleted = TRUE
    BY <2>1, <2>2 DEF Row
  <2>4. QED
    BY <2>3 DEF Live, Visible
<1>4. CASE job[w].op # "softdelete"
  <2>1. Saved(job[w]) = job[w].row /\ job[w].row.status = "cancelled"
    BY <1>4 DEF Saved, OnlyReleases
  <2>2. QED
    BY <1>2, <2>1 DEF Live, LiveStatus
<1>5. QED
  BY <1>3, <1>4

LEMMA SaveReleases ==
    ASSUME IInv, NEW w \in Worker, Save(w), OnlyReleases(w)
    PROVE  IInv'
<1> DEFINE b == job[w].key
           r == Saved(job[w])
<1>1. r \in Row /\ ~Live(r)
  BY SavesNothingLive
<1>2. /\ job[w] # Idle /\ b \in Booking
      /\ table' = [table EXCEPT ![b] = r]
      /\ TypeOK'
      /\ \A v \in Worker : job'[v] # Idle =>
           /\ job[v] # Idle
           /\ job'[v].op = job[v].op
           /\ job'[v].key = job[v].key /\ job'[v].row = job[v].row
  BY <1>1, SaveFacts DEF IInv
<1>3. table'[b] = r /\ \A x \in Booking : x # b => table'[x] = table[x]
  BY <1>2 DEF IInv, TypeOK
<1>4. ASSUME NEW v \in Worker, job'[v] # Idle, job'[v].op = "reserve"
      PROVE  table'[job'[v].key] = NoRow
  <2>1. job[v] # Idle /\ job[v].op = "reserve" /\ job'[v].key = job[v].key
    BY <1>2, <1>4
  <2>2. HoldsRoom(v)
    BY <2>1, ReservedKey
  <2>3. v # w
    BY <2>1 DEF OnlyReleases
  <2>4. job[v].key # b /\ table[job[v].key] = NoRow
    BY <1>2, <2>2, <2>3 DEF HoldsRoom
  <2>5. job[v].key \in Booking
    BY <2>1, JobFields DEF IInv
  <2>6. QED
    BY <1>3, <2>1, <2>4, <2>5
<1>5. ~Live(table'[b])
  BY <1>1, <1>3
<1> HIDE DEF b, r
<1>6. QED
  BY <1>2, <1>3, <1>4, <1>5, NothingTaken

LEMMA SaveTakes ==
    ASSUME IInv, NEW w \in Worker, Save(w), HoldsRoom(w)
    PROVE  IInv'
<1> DEFINE b == job[w].key
           r == job[w].row
<1>1. Saved(job[w]) = r
  BY DEF Saved, HoldsRoom
<1>2. job[w] # Idle /\ b \in Booking /\ r \in Row /\ r.stay \in Stay
  BY JobFields, RowFields DEF Save, IInv
<1>3. /\ table' = [table EXCEPT ![b] = r]
      /\ TypeOK'
      /\ \A v \in Worker : job'[v] # Idle =>
           /\ job[v] # Idle
           /\ job'[v].op = job[v].op
           /\ job'[v].key = job[v].key /\ job'[v].row = job[v].row
      /\ \A v \in Worker : job'[v] # Idle => v # w
  BY <1>1, <1>2, SaveFacts DEF IInv, HoldsRoom
<1>4. table'[b] = r /\ \A x \in Booking : x # b => table'[x] = table[x]
  BY <1>2, <1>3 DEF IInv, TypeOK
<1>5. \A x \in Booking : x # b /\ Live(table[x]) => ~Overlaps(table[x].stay, r.stay)
  BY DEF HoldsRoom, ConflictsBeside
<1>6. \A v \in Worker : v # w /\ job[v] # Idle =>
          /\ job[v].key # b
          /\ job[v].op = "reserve" => job[v].row.stay.room # r.stay.room
  BY DEF HoldsRoom
<1> HIDE DEF b, r
<1>7. NoDoubleBooking'
  <2> SUFFICES ASSUME NEW x \in Booking, NEW y \in Booking, x # y,
                      Live(table'[x]), Live(table'[y])
               PROVE  ~Overlaps(table'[x].stay, table'[y].stay)
    BY DEF NoDoubleBooking
  <2>1. CASE x # b /\ y # b
    <3>1. table'[x] = table[x] /\ table'[y] = table[y]
      BY <1>4, <2>1
    <3>2. QED
      BY <3>1 DEF IInv, NoDoubleBooking
  <2>2. CASE x # b /\ y = b
    BY <1>4, <1>5, <2>2
  <2>3. CASE x = b /\ y # b
    <3>1. table'[y] = table[y] /\ Live(table[y]) /\ table'[x] = r
      BY <1>4, <2>3
    <3>2. table[y].stay \in Stay
      BY <3>1, VisibleIsRow, RowFields DEF IInv, Live
    <3>3. ~Overlaps(table[y].stay, r.stay)
      BY <1>5, <2>3, <3>1
    <3>4. QED
      BY <1>2, <3>1, <3>2, <3>3, SymmetricOverlap
  <2>4. QED
    BY <2>1, <2>2, <2>3
<1>8. ASSUME NEW v \in Worker, job'[v] # Idle
      PROVE  OnlyReleases(v)' \/ HoldsRoom(v)'
  <2>1. /\ v # w /\ job[v] # Idle
        /\ job'[v].op = job[v].op
        /\ job'[v].key = job[v].key /\ job'[v].row = job[v].row
    BY <1>3, <1>8
  <2>2. CASE OnlyReleases(v)
    BY <2>1, <2>2 DEF OnlyReleases
  <2>3. CASE HoldsRoom(v)
    <3>1. job[v].key \in Booking /\ job[v].key # b
      BY <1>6, <2>1, JobFields DEF IInv
    <3>2. table'[job[v].key] = NoRow
      BY <1>4, <2>3, <3>1 DEF HoldsRoom
    <3>3. job[v].row.stay.room # r.stay.room
      BY <1>6, <2>1, <2>3 DEF HoldsRoom
    <3>4. \A x \in Booking \ {job[v].key} :
              Live(table'[x]) => ~Overlaps(table'[x].stay, job[v].row.stay)
      BY <1>4, <2>3, <3>3 DEF HoldsRoom, ConflictsBeside, Overlaps
    <3>5. ~ConflictsBeside(job[v].row.stay, job[v].key)'
      BY <2>1, <3>4 DEF ConflictsBeside
    <3>6. \A u \in Worker : u # v /\ job'[u] # Idle =>
            /\ job'[u].key # job'[v].key
            /\ job'[u].op = "reserve" => job'[u].row.stay.room # job'[v].row.stay.room
      BY <1>3, <2>1, <2>3 DEF HoldsRoom
    <3>7. QED
      BY <2>1, <2>3, <3>2, <3>5, <3>6 DEF HoldsRoom
  <2>4. QED
    BY <2>1, <2>2, <2>3 DEF IInv, JobsHarmless
<1>9. QED
  BY <1>3, <1>7, <1>8 DEF IInv, JobsHarmless

----------------------------------------------------------------------------
(* The writers with one statement, and the calendar.                       *)

LEMMA StatementRows ==
    ASSUME TypeOK, NEW b \in Booking, StatementNext(b)
    PROVE  /\ TypeOK' /\ job' = job /\ table[b] # NoRow
           /\ \A x \in Booking : x # b => table'[x] = table[x]
           /\ Live(table'[b]) => Live(table[b]) /\ table'[b].stay = table[b].stay
<1>1. /\ Visible(table[b])
      /\ job' = job /\ today' = today
      /\ table[b] # NoRow /\ table[b] \in Row
  BY VisibleIsRow
     DEF StatementNext, MarkConfirmed, MarkCancelled, ExpirePending, HardDelete, Write,
         Visible
<1>2. ASSUME NEW st \in {"confirmed", "cancelled"}, Write(b, WithStatus(table[b], st)),
             st = "confirmed" => Live(table[b])
      PROVE  /\ TypeOK'
             /\ \A x \in Booking : x # b => table'[x] = table[x]
             /\ Live(table'[b]) => Live(table[b]) /\ table'[b].stay = table[b].stay
  <2>1. WithStatus(table[b], st) \in Row
    BY <1>1, StatusChange DEF Status
  <2>2. table' = [table EXCEPT ![b] = WithStatus(table[b], st)]
    BY <1>2 DEF Write
  <2>3. TypeOK'
    BY <1>1, <1>2, <2>1, <2>2 DEF Write, TypeOK
  <2>4. table'[b] = WithStatus(table[b], st)
    BY <2>2 DEF TypeOK
  <2>5. WithStatus(table[b], st).stay = table[b].stay /\ WithStatus(table[b], st).status = st
    BY <1>1, StatusChange DEF Status
  <2>6. st = "cancelled" => ~Live(table'[b])
    BY <2>4, <2>5 DEF Live, LiveStatus
  <2>7. QED
    BY <1>2, <2>2, <2>3, <2>4, <2>5, <2>6 DEF TypeOK
<1>3. /\ TypeOK'
      /\ \A x \in Booking : x # b => table'[x] = table[x]
      /\ Live(table'[b]) => Live(table[b]) /\ table'[b].stay = table[b].stay
  <2>1. CASE MarkConfirmed(b)
    BY <1>2, <2>1 DEF MarkConfirmed, Live, LiveStatus
  <2>2. CASE MarkCancelled(b) \/ ExpirePending(b)
    BY <1>2, <2>2 DEF MarkCancelled, ExpirePending
  <2>3. CASE HardDelete(b)
    <3>1. /\ table' = [table EXCEPT ![b] = NoRow]
          /\ refunded' = refunded \ {b}
          /\ recorded' = [recorded EXCEPT ![b] = 0]
      BY <2>3 DEF HardDelete
    <3>2. TypeOK'
      BY <1>1, <3>1 DEF TypeOK
    <3>3. table'[b] = NoRow /\ \A x \in Booking : x # b => table'[x] = table[x]
      BY <3>1 DEF TypeOK
    <3>4. QED
      BY <3>2, <3>3 DEF Live, Visible
  <2>4. QED
    BY <2>1, <2>2, <2>3 DEF StatementNext
<1>4. QED
  BY <1>1, <1>3

LEMMA StatementStep ==
    ASSUME IInv, NEW b \in Booking, StatementNext(b)
    PROVE  IInv'
<1>1. ASSUME NEW v \in Worker, job'[v] # Idle, job'[v].op = "reserve"
      PROVE  table'[job'[v].key] = NoRow
  <2>1. job'[v] = job[v] /\ table[job[v].key] = NoRow
    BY <1>1, StatementRows, ReservedKey DEF HoldsRoom, IInv
  <2>2. job[v].key \in Booking /\ job[v].key # b
    BY <1>1, <2>1, StatementRows, JobFields DEF IInv
  <2>3. QED
    BY <2>1, <2>2, StatementRows DEF IInv
<1>2. QED
  BY <1>1, StatementRows, NothingTaken DEF IInv

LEMMA MidnightStep ==
    ASSUME IInv, Midnight
    PROVE  IInv'
<1>1. today' \in Day /\ UNCHANGED <<table, refunded, recorded, job>>
  BY DEF Midnight
<1>2. TypeOK'
  BY <1>1 DEF IInv, TypeOK
<1>3. QED
  BY <1>1, <1>2, TableUnchanged

----------------------------------------------------------------------------
(* The theorems.                                                           *)

LEMMA InitInvariant ==
    Init => IInv
<1> SUFFICES ASSUME Init PROVE IInv
  OBVIOUS
<1>1. TypeOK
  BY DEF Init, TypeOK
<1>2. NoDoubleBooking
  BY DEF Init, NoDoubleBooking, Live, Visible
<1>3. JobsHarmless
  BY DEF Init, JobsHarmless
<1>4. QED
  BY <1>1, <1>2, <1>3 DEF IInv

LEMMA SaveStep ==
    ASSUME IInv, NEW w \in Worker, Save(w)
    PROVE  OnlyReleases(w) \/ HoldsRoom(w)
BY DEF Save, IInv, JobsHarmless

LEMMA StepInvariant ==
    ASSUME Ops \subseteq Releasing
    PROVE  IInv /\ [Next]_vars => IInv'
<1> SUFFICES ASSUME IInv, [Next]_vars PROVE IInv'
  OBVIOUS
<1>1. CASE UNCHANGED vars
  <2>1. UNCHANGED <<table, refunded, recorded, today, job>>
    BY <1>1 DEF vars
  <2>2. TypeOK'
    BY <2>1 DEF IInv, TypeOK
  <2>3. QED
    BY <2>1, <2>2, TableUnchanged
<1>2. ASSUME NEW w \in Worker, WorkerNext(w)
      PROVE  IInv'
  <2>1. CASE \E b \in Booking : Request(w, b)
    BY <2>1, LoadSteps, ReserveStep DEF Request
  <2>2. CASE CheckForm(w) \/ CreateRefund(w) \/ RecordCancellation(w) \/ Break(w)
    BY <2>2, QuietSteps
  <2>3. CASE Save(w)
    BY <2>3, SaveStep, SaveReleases, SaveTakes
  <2>4. QED
    BY <1>2, <2>1, <2>2, <2>3 DEF WorkerNext
<1>3. QED
  BY <1>1, <1>2, StatementStep, MidnightStep DEF Next

(* The table is written by a save or by one statement, and nothing else.   *)
LEMMA Writes ==
    ASSUME [Next]_vars, table' # table
    PROVE  (\E w \in Worker : Save(w)) \/ (\E b \in Booking : StatementNext(b))
<1>1. ASSUME NEW v \in Worker, NEW x \in Booking, Request(v, x)
      PROVE  table' = table
  <2>1. ASSUME NEW op, NEW at, NEW r, Begin(v, op, at, x, r)
        PROVE  table' = table
    BY <2>1 DEF Begin
  <2>2. QED
    BY <1>1, <2>1
       DEF Request, LoadToConfirm, LoadToCancel, LoadToDestroy, LoadToSoftDelete,
           LoadToUpdate, LoadToBulk, LoadToEdit, OpenCreate, Reserve
<1>2. ASSUME NEW v \in Worker,
             CheckForm(v) \/ CreateRefund(v) \/ RecordCancellation(v) \/ Break(v)
      PROVE  table' = table
  BY <1>2 DEF CheckForm, CreateRefund, RecordCancellation, Break
<1>3. Midnight \/ UNCHANGED vars => table' = table
  BY DEF Midnight, vars
<1>4. QED
  BY <1>1, <1>2, <1>3 DEF Next, WorkerNext

(* A row becomes live only as the new row of a reservation.                *)
LEMMA TakingStep ==
    ASSUME IInv, [Next]_vars, NEW b \in Booking, Live(table'[b]), ~Live(table[b])
    PROVE  table[b] = NoRow /\ table'[b].status = "pending"
<1>1. table' # table
  OBVIOUS
<1>2. ASSUME NEW x \in Booking, StatementNext(x)
      PROVE  FALSE
  <2>1. CASE x = b
    BY <1>2, <2>1, StatementRows DEF IInv
  <2>2. CASE x # b
    BY <1>2, <2>2, StatementRows DEF IInv
  <2>3. QED
    BY <2>1, <2>2
<1>3. PICK w \in Worker : Save(w)
  BY <1>1, <1>2, Writes
<1>4. CASE OnlyReleases(w)
  <2>1. Saved(job[w]) \in Row /\ ~Live(Saved(job[w]))
    BY <1>3, <1>4, SavesNothingLive
  <2>2. table' = [table EXCEPT ![job[w].key] = Saved(job[w])]
    BY <1>3, <2>1, SaveFacts DEF IInv
  <2>3. QED
    BY <2>1, <2>2 DEF IInv, TypeOK
<1>5. CASE HoldsRoom(w)
  <2>1. Saved(job[w]) = job[w].row
    BY <1>5 DEF Saved, HoldsRoom
  <2>2. table' = [table EXCEPT ![job[w].key] = job[w].row]
    BY <1>3, <2>1 DEF Save
  <2>3. b = job[w].key
    BY <2>2 DEF IInv, TypeOK
  <2>4. QED
    BY <1>5, <2>2, <2>3 DEF HoldsRoom, IInv, TypeOK
<1>6. QED
  BY <1>3, <1>4, <1>5, SaveStep

(* However many requests run at once and however old their copies are,     *)
(* those that only release nights never make a double booking beside       *)
(* reserve_room: cancel_booking, the DELETE endpoint, the manager's        *)
(* deletion, the admin's actions, the expiry and the purge.                *)
THEOREM ReleasingIsHarmless ==
    ASSUME Ops \subseteq Releasing
    PROVE  Spec => []NoDoubleBooking
<1>1. Init => IInv
  BY InitInvariant
<1>2. IInv /\ [Next]_vars => IInv'
  BY StepInvariant
<1>3. IInv => NoDoubleBooking
  BY DEF IInv
<1>4. QED
  BY <1>1, <1>2, <1>3, PTL DEF Spec

(* The same requests never bring a booking back to life, not even one that *)
(* was deleted while they held a copy of it.                               *)
THEOREM ReleasedForGood ==
    ASSUME Ops \subseteq Releasing
    PROVE  Spec => NightsStayReleased
<1>1. Init => IInv
  BY InitInvariant
<1>2. IInv /\ [Next]_vars => IInv'
  BY StepInvariant
<1>3. IInv /\ [Next]_vars =>
        [\A b \in Booking :
            Live(table'[b]) /\ ~Live(table[b])
              => table[b] = NoRow /\ table'[b].status = "pending"]_vars
  BY TakingStep
<1>4. QED
  BY <1>1, <1>2, <1>3, PTL DEF Spec, NightsStayReleased

----------------------------------------------------------------------------
(* Requests of every kind: types, and the refund record of a cancellation. *)

(* Every request begins with a row and at a stage of its own.              *)
LEMMA RequestBegins ==
    ASSUME TypeOK, NEW w \in Worker, NEW b \in Booking, Request(w, b)
    PROVE  \E op, at, r : /\ at \in {"loaded", "checked"} /\ r \in Row
                          /\ Begin(w, op, at, b, r)
<1>1. CASE \/ LoadToConfirm(w, b) \/ LoadToCancel(w, b) \/ LoadToDestroy(w, b)
           \/ \E st \in Status : LoadToUpdate(w, b, st) \/ LoadToBulk(w, b, st)
  <2>1. ASSUME NEW op, NEW st \in Status, Visible(table[b]),
               Begin(w, op, "checked", b, WithStatus(table[b], st))
        PROVE  \E o, at, r : /\ at \in {"loaded", "checked"} /\ r \in Row
                             /\ Begin(w, o, at, b, r)
    BY <2>1, VisibleIsRow, StatusChange
  <2>2. "confirmed" \in Status /\ "cancelled" \in Status
    BY DEF Status
  <2>3. QED
    BY <1>1, <2>1, <2>2
       DEF LoadToConfirm, LoadToCancel, LoadToDestroy, LoadToUpdate, LoadToBulk
<1>2. CASE LoadToSoftDelete(w, b)
  <2>1. /\ Visible(table[b])
        /\ Begin(w, "softdelete", "checked", b, [table[b] EXCEPT !.deleted = TRUE])
    BY <1>2 DEF LoadToSoftDelete
  <2>2. [table[b] EXCEPT !.deleted = TRUE] \in Row
    BY <2>1, VisibleIsRow DEF Row
  <2>3. QED
    BY <2>1, <2>2
<1>3. ASSUME NEW s \in Stay, NEW st \in Status
      PROVE  [stay |-> s, status |-> st, deleted |-> FALSE] \in Row
  BY DEF Row
<1>4. CASE \E s \in Stay, st \in Status : LoadToEdit(w, b, s, st) \/ OpenCreate(w, b, s, st)
  BY <1>3, <1>4 DEF LoadToEdit, OpenCreate
<1>5. CASE \E s \in Stay : Reserve(w, b, s)
  <2>1. "pending" \in Status
    BY DEF Status
  <2>2. QED
    BY <1>3, <1>5, <2>1 DEF Reserve
<1>6. QED
  BY <1>1, <1>2, <1>4, <1>5 DEF Request

LEMMA SavedIsRow ==
    ASSUME TypeOK, NEW w \in Worker, Save(w)
    PROVE  Saved(job[w]) \in Row
<1>1. job[w] # Idle /\ (job[w].op \in {"bulk", "softdelete"} => table[job[w].key] # NoRow)
  BY DEF Save
<1>2. job[w].key \in Booking /\ job[w].row \in Row /\ job[w].row.status \in Status
  BY <1>1, JobFields, RowFields
<1>3. CASE job[w].op \in {"bulk", "softdelete"}
  <2>1. table[job[w].key] \in Row
    BY <1>1, <1>2, <1>3 DEF TypeOK
  <2>2. \/ Saved(job[w]) = [table[job[w].key] EXCEPT !.status = job[w].row.status]
        \/ Saved(job[w]) = [table[job[w].key] EXCEPT !.deleted = TRUE]
    BY <1>3 DEF Saved
  <2>3. QED
    BY <1>2, <2>1, <2>2 DEF Row
<1>4. CASE job[w].op \notin {"bulk", "softdelete"}
  BY <1>2, <1>4 DEF Saved
<1>5. QED
  BY <1>3, <1>4

(* Where a cancellation stands between its refund record and its audit     *)
(* entry, it alone may make that entry.                                    *)
RefundedAlone ==
    \A w \in Worker : job[w] # Idle /\ job[w].at = "refunded" =>
        /\ job[w].key \in refunded
        /\ recorded[job[w].key] = 0
        /\ \A v \in Worker : v # w /\ job[v] # Idle /\ job[v].at = "refunded"
              => job[v].key # job[w].key

(* The inductive invariant of the cancellation.                            *)
CInv == CancelledOnce /\ RefundedAlone

(* Steps that leave the refund records and the audit entries alone.        *)
LEMMA NothingRefunded ==
    ASSUME CInv, UNCHANGED <<refunded, recorded>>,
           \A v \in Worker : job'[v] # Idle /\ job'[v].at = "refunded"
                => job'[v] = job[v]
    PROVE  CInv'
<1>1. CancelledOnce'
  BY DEF CInv, CancelledOnce
<1>2. RefundedAlone'
  BY DEF CInv, RefundedAlone
<1>3. QED
  BY <1>1, <1>2 DEF CInv

LEMMA TypeStep ==
    ASSUME TypeOK, [Next]_vars
    PROVE  TypeOK'
<1>1. CASE UNCHANGED vars
  BY <1>1 DEF vars, TypeOK
<1>2. ASSUME NEW w \in Worker, NEW b \in Booking, Request(w, b)
      PROVE  TypeOK'
  <2>1. PICK op, at, r : /\ at \in {"loaded", "checked"} /\ r \in Row
                         /\ Begin(w, op, at, b, r)
    BY <1>2, RequestBegins
  <2>2. at \in Stage
    BY <2>1 DEF Stage
  <2>3. QED
    BY <2>1, <2>2, BeginKeeps
<1>3. ASSUME NEW w \in Worker, Save(w)
      PROVE  TypeOK'
  BY <1>3, SavedIsRow, SaveFacts
<1>4. ASSUME NEW w \in Worker,
             CheckForm(w) \/ CreateRefund(w) \/ RecordCancellation(w) \/ Break(w)
      PROVE  TypeOK'
  BY <1>4, QuietTypes
<1>5. ASSUME NEW b \in Booking, StatementNext(b)
      PROVE  TypeOK'
  BY <1>5, StatementRows
<1>6. CASE Midnight
  BY <1>6 DEF Midnight, TypeOK
<1>7. QED
  BY <1>1, <1>2, <1>3, <1>4, <1>5, <1>6 DEF Next, WorkerNext

LEMMA CreateRefundStep ==
    ASSUME TypeOK, CInv, NEW w \in Worker, CreateRefund(w)
    PROVE  CInv'
<1> DEFINE b == job[w].key
<1>1. /\ job[w] # Idle /\ b \notin refunded
      /\ refunded' = refunded \cup {b} /\ recorded' = recorded
      /\ Advance(w, "refunded")
  BY DEF CreateRefund
<1>2. job[w] \in Job /\ b \in Booking
  BY <1>1, JobFields
<1>3. job' = [job EXCEPT ![w] = [job[w] EXCEPT !.at = "refunded"]]
  BY <1>1 DEF Advance
<1>4. /\ job'[w].key = b
      /\ \A v \in Worker : v # w => job'[v] = job[v]
  BY <1>2, <1>3 DEF TypeOK, Job
<1>5. recorded[b] = 0
  BY <1>1, <1>2 DEF CInv, CancelledOnce, TypeOK
<1> HIDE DEF b
<1>6. CancelledOnce'
  BY <1>1 DEF CInv, CancelledOnce
<1>7. RefundedAlone'
  <2>1. \A v \in Worker : v # w /\ job'[v] # Idle /\ job'[v].at = "refunded" =>
          /\ job'[v] = job[v] /\ job[v].key \in refunded /\ job[v].key # b
          /\ recorded[job[v].key] = 0
    BY <1>1, <1>4 DEF CInv, RefundedAlone
  <2>2. \A v, u \in Worker : /\ v # w /\ job'[v] # Idle /\ job'[v].at = "refunded"
                             /\ u # v /\ job'[u] # Idle /\ job'[u].at = "refunded"
                             => job'[u].key # job'[v].key
    BY <1>4, <2>1 DEF CInv, RefundedAlone
  <2>3. QED
    BY <1>1, <1>4, <1>5, <2>1, <2>2 DEF RefundedAlone
<1>8. QED
  BY <1>6, <1>7 DEF CInv

LEMMA RecordStep ==
    ASSUME TypeOK, CInv, NEW w \in Worker, RecordCancellation(w)
    PROVE  CInv'
<1> DEFINE b == job[w].key
<1>1. /\ job[w] # Idle /\ job[w].at = "refunded"
      /\ recorded' = [recorded EXCEPT ![b] = @ + 1] /\ refunded' = refunded
      /\ End(w)
  BY DEF RecordCancellation
<1>2. b \in Booking
  BY <1>1, JobFields
<1>3. \A v \in Worker : job'[v] # Idle => v # w /\ job'[v] = job[v]
  BY <1>1, EndKeeps
<1>4. b \in refunded /\ recorded[b] = 0
  BY <1>1 DEF CInv, RefundedAlone
<1>5. recorded'[b] = 1 /\ \A x \in Booking : x # b => recorded'[x] = recorded[x]
  BY <1>1, <1>2, <1>4 DEF TypeOK
<1>6. \A v \in Worker : job'[v] # Idle /\ job'[v].at = "refunded" =>
          job[v].key \in Booking /\ job[v].key # b
  BY <1>1, <1>3, JobFields DEF CInv, RefundedAlone
<1> HIDE DEF b
<1>7. CancelledOnce'
  BY <1>1, <1>4, <1>5 DEF CInv, CancelledOnce
<1>8. RefundedAlone'
  BY <1>1, <1>3, <1>5, <1>6 DEF CInv, RefundedAlone
<1>9. QED
  BY <1>7, <1>8 DEF CInv

LEMMA CancellationStep ==
    ASSUME "purge" \notin Ops
    PROVE  TypeOK /\ CInv /\ [Next]_vars => CInv'
<1> SUFFICES ASSUME TypeOK, CInv, [Next]_vars PROVE CInv'
  OBVIOUS
<1>1. CASE UNCHANGED vars \/ Midnight
  BY <1>1, NothingRefunded DEF vars, Midnight
<1>2. ASSUME NEW w \in Worker, NEW b \in Booking, Request(w, b)
      PROVE  CInv'
  <2>1. PICK op, at, r : /\ at \in {"loaded", "checked"} /\ r \in Row
                         /\ Begin(w, op, at, b, r)
    BY <1>2, RequestBegins
  <2>2. /\ UNCHANGED <<refunded, recorded>>
        /\ job' = [job EXCEPT ![w] = [op |-> op, at |-> at, key |-> b, row |-> r]]
    BY <2>1 DEF Begin
  <2>3. job'[w].at = at /\ \A v \in Worker : v # w => job'[v] = job[v]
    BY <2>2 DEF TypeOK
  <2>4. QED
    BY <2>1, <2>2, <2>3, NothingRefunded
<1>3. ASSUME NEW w \in Worker, NEW at \in {"saved", "checked"},
             job[w] # Idle, Advance(w, at) \/ End(w), UNCHANGED <<refunded, recorded>>
      PROVE  CInv'
  <2>1. job[w] \in Job
    BY <1>3, JobFields
  <2>2. /\ job'[w] = Idle \/ job'[w].at = at
        /\ \A v \in Worker : v # w => job'[v] = job[v]
    BY <1>3, <2>1 DEF Advance, End, TypeOK, Job
  <2>3. QED
    BY <1>3, <2>2, NothingRefunded
<1>4. ASSUME NEW w \in Worker, Save(w) \/ CheckForm(w) \/ Break(w)
      PROVE  CInv'
  BY <1>3, <1>4 DEF Save, CheckForm, Break
<1>5. ASSUME NEW b \in Booking, StatementNext(b)
      PROVE  CInv'
  BY <1>5, NothingRefunded
     DEF StatementNext, MarkConfirmed, MarkCancelled, ExpirePending, HardDelete, Write
<1>6. QED
  BY <1>1, <1>2, <1>4, <1>5, CreateRefundStep, RecordStep DEF Next, WorkerNext

(* Tables and requests keep their types, whichever requests run: a save of *)
(* any copy, forms and bulk changes included, leaves a row of the table.   *)
THEOREM LifecycleTyped == Spec => []TypeOK
<1>1. Init => TypeOK
  BY InitInvariant DEF IInv
<1>2. TypeOK /\ [Next]_vars => TypeOK'
  BY TypeStep
<1>3. QED
  BY <1>1, <1>2, PTL DEF Spec

(* Where bookings are not deleted for good, cancel_booking succeeds at     *)
(* most once for each, and its success comes with a refund record, with    *)
(* requests of every kind around it, also those that revive the booking.   *)
THEOREM CancelledOnceHolds ==
    ASSUME "purge" \notin Ops
    PROVE  Spec => []CancelledOnce
<1>1. Init => CInv
  BY DEF Init, CInv, CancelledOnce, RefundedAlone
<1>2. TypeOK /\ CInv /\ [Next]_vars => CInv'
  BY CancellationStep
<1>3. CInv => CancelledOnce
  BY DEF CInv
<1>4. QED
  BY <1>1, <1>2, <1>3, LifecycleTyped, PTL DEF Spec

(* A statement never marks a booking completed.                            *)
LEMMA StatementsComplete ==
    ASSUME TypeOK, NEW b \in Booking, StatementNext(b)
    PROVE  table'[b] = NoRow \/ table'[b].status \in {"confirmed", "cancelled"}
<1>1. table[b] \in Row
  BY VisibleIsRow
     DEF StatementNext, MarkConfirmed, MarkCancelled, ExpirePending, HardDelete
<1>2. ASSUME NEW st \in {"confirmed", "cancelled"}, Write(b, WithStatus(table[b], st))
      PROVE  table'[b].status \in {"confirmed", "cancelled"}
  BY <1>1, <1>2, StatusChange DEF Write, TypeOK, Status
<1>3. HardDelete(b) => table'[b] = NoRow
  BY DEF HardDelete, TypeOK
<1>4. QED
  BY <1>2, <1>3 DEF StatementNext, MarkConfirmed, MarkCancelled, ExpirePending

(* A save that marks a booking completed saves the copy it has validated,  *)
(* stay and status, unless it is the save of a bulk change.                *)
LEMMA CompletingStep ==
    ASSUME TypeOK, [Next]_vars, NEW b \in Booking,
           table'[b] # NoRow, table'[b].status = "completed",
           table[b] = NoRow \/ table[b].status # "completed"
    PROVE  \/ today <= table'[b].stay.checkIn
           \/ \E w \in Worker :
                 /\ job[w] # Idle /\ job[w].key = b /\ job[w].op = "bulk"
                 /\ job'[w] = Idle /\ today <= job[w].row.stay.checkIn
<1>1. ASSUME NEW x \in Booking, StatementNext(x)
      PROVE  FALSE
  BY <1>1, StatementRows, StatementsComplete
<1>2. PICK w \in Worker : Save(w)
  BY <1>1, Writes
<1>3. /\ job[w] # Idle /\ today <= job[w].row.stay.checkIn
      /\ job[w].op \in {"bulk", "softdelete"} => table[job[w].key] # NoRow
      /\ job[w].op # "cancel" => End(w)
  BY <1>2 DEF Save, Clean
<1>4. table' = [table EXCEPT ![job[w].key] = Saved(job[w])] /\ Saved(job[w]) \in Row
  BY <1>2, SavedIsRow, SaveFacts
<1>5. b = job[w].key /\ table'[b] = Saved(job[w])
  BY <1>4 DEF TypeOK
<1>6. CASE job[w].op = "bulk"
  <2>1. job'[w] = Idle
    BY <1>3, <1>6 DEF End, TypeOK
  <2>2. QED
    BY <1>3, <1>5, <1>6, <2>1
<1>7. CASE job[w].op = "softdelete"
  <2>1. table[b] \in Row /\ table'[b] = [table[b] EXCEPT !.deleted = TRUE]
    BY <1>3, <1>5, <1>7 DEF TypeOK, Saved
  <2>2. table'[b].status = table[b].status
    BY <2>1 DEF Row
  <2>3. QED
    BY <2>1, <2>2, RowFields
<1>8. CASE job[w].op \notin {"bulk", "softdelete"}
  BY <1>3, <1>5, <1>8 DEF Saved
<1>9. QED
  BY <1>6, <1>7, <1>8

(* Whichever requests run, a booking is marked completed up to the day its *)
(* guest arrives and not after, but for the bulk change, which validates   *)
(* the stay of its copy and leaves the one in the table.                   *)
THEOREM CompletedBeforeArrival == Spec => CompletedOnlyBeforeArrival
<1>1. TypeOK /\ [Next]_vars =>
        [\A b \in Booking :
            /\ table'[b] # NoRow /\ table'[b].status = "completed"
            /\ table[b] = NoRow \/ table[b].status # "completed"
            => \/ today <= table'[b].stay.checkIn
               \/ \E w \in Worker :
                     /\ job[w] # Idle /\ job[w].key = b /\ job[w].op = "bulk"
                     /\ job'[w] = Idle /\ today <= job[w].row.stay.checkIn]_vars
  BY CompletingStep
<1>2. QED
  BY <1>1, LifecycleTyped, PTL DEF Spec, CompletedOnlyBeforeArrival

----------------------------------------------------------------------------
(* One request at a time.  Every way of making a double booking with the   *)
(* API and the forms needs a second request between the look-up and the    *)
(* save of the first; only the bulk change manages alone.                  *)

(* What a request will save after its check still has its nights.          *)
FitsBeside ==
    \A w \in Worker :
        job[w] # Idle /\ job[w].at = "checked" /\ Live(job[w].row)
            => ~ConflictsBeside(job[w].row.stay, job[w].key)

(* The inductive invariant where requests follow each other.               *)
AloneInv == NoDoubleBooking /\ FitsBeside

(* Rows of the table lose their nights at most.                            *)
LEMMA OthersGiveBack ==
    ASSUME AloneInv,
           \A x \in Booking :
                Live(table'[x]) => Live(table[x]) /\ table'[x].stay = table[x].stay,
           \A w \in Worker : job'[w] # Idle /\ job'[w].at = "checked"
                => job'[w] = job[w]
    PROVE  AloneInv'
<1>1. NoDoubleBooking'
  BY DEF AloneInv, NoDoubleBooking
<1>2. FitsBeside'
  BY DEF AloneInv, FitsBeside, ConflictsBeside
<1>3. QED
  BY <1>1, <1>2 DEF AloneInv

(* The row of a live booking lies beside the other live rows.              *)
LEMMA OwnNights ==
    ASSUME NoDoubleBooking, NEW b \in Booking, Live(table[b])
    PROVE  ~ConflictsBeside(table[b].stay, b)
BY DEF NoDoubleBooking, ConflictsBeside

(* A copy that is live when it is loaded was loaded from a live row, as no *)
(* transition of a status revives a booking.                               *)
LEMMA LoadedFits ==
    ASSUME TypeOK, NoDoubleBooking, "bulk" \notin Ops,
           NEW w \in Worker, NEW b \in Booking, Request(w, b),
           NEW op, NEW r \in Row, Begin(w, op, "checked", b, r), Live(r)
    PROVE  ~ConflictsBeside(r.stay, b)
<1>1. /\ job' = [job EXCEPT ![w] = [op |-> op, at |-> "checked", key |-> b, row |-> r]]
      /\ op \in Ops
  BY DEF Begin
<1>2. job'[w].op = op /\ job'[w].at = "checked" /\ job'[w].row = r
  BY <1>1 DEF TypeOK
<1>3. ASSUME NEW o, NEW at, NEW q, Begin(w, o, at, b, q)
      PROVE  o = op /\ at = "checked" /\ q = r
  <2>1. job' = [job EXCEPT ![w] = [op |-> o, at |-> at, key |-> b, row |-> q]]
    BY <1>3 DEF Begin
  <2>2. job'[w] = [op |-> o, at |-> at, key |-> b, row |-> q]
    BY <2>1 DEF TypeOK
  <2>3. QED
    BY <1>2, <2>2
<1>4. ASSUME NEW st \in Status, Visible(table[b]), r = WithStatus(table[b], st),
             st \in LiveStatus => table[b].status \in LiveStatus
      PROVE  ~ConflictsBeside(r.stay, b)
  <2>1. table[b] \in Row
    BY <1>4, VisibleIsRow
  <2>2. r.stay = table[b].stay /\ r.status = st
    BY <1>4, <2>1, StatusChange
  <2>3. Live(table[b])
    BY <1>4, <2>2 DEF Live
  <2>4. QED
    BY <2>2, <2>3, OwnNights
<1>5. "confirmed" \in Status /\ "cancelled" \in Status
  BY DEF Status
<1>6. CASE LoadToConfirm(w, b)
  <2>1. Visible(table[b]) /\ table[b].status = "pending"
        /\ r = WithStatus(table[b], "confirmed")
    BY <1>3, <1>6 DEF LoadToConfirm
  <2>2. QED
    BY <1>4, <1>5, <2>1 DEF LiveStatus
<1>7. CASE LoadToCancel(w, b) \/ LoadToDestroy(w, b)
  <2>1. Visible(table[b]) /\ r = WithStatus(table[b], "cancelled")
    BY <1>3, <1>7 DEF LoadToCancel, LoadToDestroy
  <2>2. QED
    BY <1>4, <1>5, <2>1 DEF LiveStatus
<1>8. ASSUME NEW st \in Status, LoadToUpdate(w, b, st)
      PROVE  ~ConflictsBeside(r.stay, b)
  <2>1. /\ Visible(table[b]) /\ r = WithStatus(table[b], st)
        /\ st = table[b].status \/ <<table[b].status, st>> \in ValidTransition
    BY <1>3, <1>8 DEF LoadToUpdate
  <2>2. st \in LiveStatus => table[b].status \in LiveStatus
    BY <2>1 DEF ValidTransition, LiveStatus
  <2>3. QED
    BY <1>4, <2>1, <2>2
<1>9. ASSUME NEW st \in Status, LoadToBulk(w, b, st)
      PROVE  FALSE
  BY <1>1, <1>3, <1>9 DEF LoadToBulk
<1>10. CASE LoadToSoftDelete(w, b)
  <2>1. Visible(table[b]) /\ r = [table[b] EXCEPT !.deleted = TRUE]
    BY <1>3, <1>10 DEF LoadToSoftDelete
  <2>2. r.deleted = TRUE
    BY <2>1, VisibleIsRow DEF Row
  <2>3. QED
    BY <2>2 DEF Live, Visible
<1>11. ASSUME NEW s \in Stay, NEW st \in Status,
              LoadToEdit(w, b, s, st) \/ OpenCreate(w, b, s, st)
       PROVE  FALSE
  BY <1>3, <1>11 DEF LoadToEdit, OpenCreate
<1>12. ASSUME NEW s \in Stay, Reserve(w, b, s)
       PROVE  ~ConflictsBeside(r.stay, b)
  <2>1. ~ConflictsBeside(s, b) /\ r = [stay |-> s, status |-> "pending", deleted |-> FALSE]
    BY <1>3, <1>12 DEF Reserve
  <2>2. QED
    BY <2>1
<1>13. QED
  BY <1>6, <1>7, <1>8, <1>9, <1>10, <1>11, <1>12 DEF Request

(* A save of the only request writes its copy where it still fits.         *)
LEMMA SaveAlone ==
    ASSUME TypeOK, AloneInv, "bulk" \notin Ops, \A v, u \in Worker : v = u,
           NEW w \in Worker, Save(w)
    PROVE  AloneInv'
<1> DEFINE b == job[w].key
           r == Saved(job[w])
<1>1. /\ job[w] # Idle /\ job[w].at = "checked"
      /\ job[w].op \in {"bulk", "softdelete"} => table[b] # NoRow
      /\ IF job[w].op = "cancel" THEN Advance(w, "saved") ELSE End(w)
  BY DEF Save
<1>2. /\ b \in Booking /\ r \in Row /\ r.stay \in Stay
      /\ table' = [table EXCEPT ![b] = r]
  BY SavedIsRow, SaveFacts, RowFields
<1>3. table'[b] = r /\ \A x \in Booking : x # b => table'[x] = table[x]
  BY <1>2 DEF TypeOK
<1>4. Live(r) => ~ConflictsBeside(r.stay, b)
  <2>1. CASE job[w].op = "softdelete"
    <3>1. table[b] \in Row /\ r = [table[b] EXCEPT !.deleted = TRUE]
      BY <1>1, <1>2, <2>1 DEF TypeOK, Saved
    <3>2. r.deleted = TRUE
      BY <3>1 DEF Row
    <3>3. QED
      BY <3>2 DEF Live, Visible
  <2>2. CASE job[w].op # "softdelete"
    <3>1. r = job[w].row
      BY <1>1, <2>2, JobFields DEF Saved
    <3>2. QED
      BY <1>1, <3>1 DEF AloneInv, FitsBeside
  <2>3. QED
    BY <2>1, <2>2
<1>5. job'[w] = Idle \/ job'[w].at = "saved"
  <2>1. job[w] \in Job
    BY <1>1, JobFields
  <2>2. QED
    BY <1>1, <2>1 DEF Advance, End, TypeOK, Job
<1> HIDE DEF b, r
<1>6. NoDoubleBooking'
  <2> SUFFICES ASSUME NEW x \in Booking, NEW y \in Booking, x # y,
                      Live(table'[x]), Live(table'[y])
               PROVE  ~Overlaps(table'[x].stay, table'[y].stay)
    BY DEF NoDoubleBooking
  <2>1. CASE x # b /\ y # b
    BY <1>3, <2>1 DEF AloneInv, NoDoubleBooking
  <2>2. CASE x # b /\ y = b
    BY <1>3, <1>4, <2>2 DEF ConflictsBeside
  <2>3. CASE x = b /\ y # b
    <3>1. table'[y] = table[y] /\ Live(table[y]) /\ table'[x] = r /\ Live(r)
      BY <1>3, <2>3
    <3>2. table[y].stay \in Stay
      BY <3>1, VisibleIsRow, RowFields DEF Live
    <3>3. ~Overlaps(table[y].stay, r.stay)
      BY <1>4, <2>3, <3>1 DEF ConflictsBeside
    <3>4. QED
      BY <1>2, <3>1, <3>2, <3>3, SymmetricOverlap
  <2>4. QED
    BY <2>1, <2>2, <2>3
<1>7. FitsBeside'
  BY <1>5 DEF FitsBeside
<1>8. QED
  BY <1>6, <1>7 DEF AloneInv

LEMMA AloneStep ==
    ASSUME TypeOK, AloneInv, [Next]_vars, "bulk" \notin Ops,
           \A v, u \in Worker : v = u
    PROVE  AloneInv'
<1>1. CASE UNCHANGED vars \/ Midnight
  BY <1>1, OthersGiveBack DEF vars, Midnight
<1>2. ASSUME NEW w \in Worker, NEW b \in Booking, Request(w, b)
      PROVE  AloneInv'
  <2>1. PICK op, at, r : /\ at \in {"loaded", "checked"} /\ r \in Row
                         /\ Begin(w, op, at, b, r)
    BY <1>2, RequestBegins
  <2>2. /\ UNCHANGED table
        /\ job'[w].key = b /\ job'[w].row = r
        /\ \A v \in Worker : v # w => job'[v] = job[v]
    <3>1. at \in Stage
      BY <2>1 DEF Stage
    <3>2. QED
      BY <2>1, <3>1, BeginKeeps
  <2>3. job'[w].at = at
    BY <2>1 DEF Begin, TypeOK
  <2>4. at = "checked" /\ Live(r) => ~ConflictsBeside(r.stay, b)
    BY <1>2, <2>1, LoadedFits DEF AloneInv
  <2>5. NoDoubleBooking'
    BY <2>2 DEF AloneInv, NoDoubleBooking
  <2>6. FitsBeside'
    BY <2>2, <2>3, <2>4 DEF FitsBeside, ConflictsBeside
  <2>7. QED
    BY <2>5, <2>6 DEF AloneInv
<1>3. ASSUME NEW w \in Worker, CheckForm(w)
      PROVE  AloneInv'
  <2>1. /\ job[w] # Idle /\ ~ConflictsBeside(job[w].row.stay, job[w].key)
        /\ UNCHANGED table
    BY <1>3 DEF CheckForm
  <2>2. \A v \in Worker : job'[v] # Idle =>
            job'[v].key = job[v].key /\ job'[v].row = job[v].row
    BY <1>3, QuietTypes
  <2>3. NoDoubleBooking'
    BY <2>1 DEF AloneInv, NoDoubleBooking
  <2>4. FitsBeside'
    BY <2>1, <2>2 DEF FitsBeside, ConflictsBeside
  <2>5. QED
    BY <2>3, <2>4 DEF AloneInv
<1>4. ASSUME NEW w \in Worker, CreateRefund(w) \/ RecordCancellation(w) \/ Break(w)
      PROVE  AloneInv'
  <2>1. UNCHANGED table /\ job[w] # Idle /\ (Advance(w, "refunded") \/ End(w))
    BY <1>4 DEF CreateRefund, RecordCancellation, Break
  <2>2. job[w] \in Job
    BY <2>1, JobFields
  <2>3. job'[w] = Idle \/ job'[w].at = "refunded"
    BY <2>1, <2>2 DEF Advance, End, TypeOK, Job
  <2>4. QED
    BY <2>1, <2>3, OthersGiveBack
<1>5. ASSUME NEW b \in Booking, StatementNext(b)
      PROVE  AloneInv'
  BY <1>5, StatementRows, OthersGiveBack
<1>6. QED
  BY <1>1, <1>2, <1>3, <1>4, <1>5, SaveAlone DEF Next, WorkerNext

(* Requests that follow each other never make a double booking, forms and  *)
(* whole saves included, with the admin's actions, the jobs and the purge  *)
(* at any moment between them: it takes two requests at once, or the bulk  *)
(* change, which revives a cancelled booking without a look.               *)
THEOREM OneAtATimeIsHarmless ==
    ASSUME \A v, w \in Worker : v = w, "bulk" \notin Ops
    PROVE  Spec => []NoDoubleBooking
<1>1. Init => AloneInv
  BY DEF Init, AloneInv, NoDoubleBooking, FitsBeside, Live, Visible
<1>2. TypeOK /\ AloneInv /\ [Next]_vars => AloneInv'
  BY AloneStep
<1>3. AloneInv => NoDoubleBooking
  BY DEF AloneInv
<1>4. QED
  BY <1>1, <1>2, <1>3, LifecycleTyped, PTL DEF Spec

----------------------------------------------------------------------------
(* Refinement: beside the requests that only release nights, reserve_room  *)
(* keeps the promise of RoomLedger, as it does in Reservation.tla; here    *)
(* the rows are saved from copies and the save is a step of its own.       *)

(* The ledger entries of the table: the nights of every live row.          *)
Entered ==
    UNION {{b} \X {table[b].stay.room} \X Nights(table[b].stay) :
              b \in {x \in Booking : Live(table[x])}}

Ledger == INSTANCE RoomLedger WITH ledger <- Entered

LEMMA InLedger ==
    ASSUME NEW e
    PROVE  e \in Entered <=>
             \E x \in Booking : /\ Live(table[x])
                                /\ \E n \in Nights(table[x].stay) :
                                      e = <<x, table[x].stay.room, n>>
BY DEF Entered

LEMMA InLedgerPrimed ==
    ASSUME NEW e
    PROVE  e \in Entered' <=>
             \E x \in Booking : /\ Live(table'[x])
                                /\ \E n \in Nights(table'[x].stay) :
                                      e = <<x, table'[x].stay.room, n>>
BY DEF Entered

(* Two stays that share a night of a room overlap.                         *)
LEMMA SharedNightOverlaps ==
    ASSUME NEW s \in Stay, NEW t \in Stay, s.room = t.room,
           NEW n \in Nights(s), n \in Nights(t)
    PROVE  Overlaps(s, t)
<1>1. /\ s.checkIn \in Int /\ s.checkOut \in Int
      /\ t.checkIn \in Int /\ t.checkOut \in Int
  BY DayAssumption DEF Stay
<1>2. QED
  BY <1>1 DEF Overlaps, Nights

(* The save of a new reservation enters the nights of its stay, all in one *)
(* step, and nobody had any of them.                                       *)
LEMMA SaveEnters ==
    ASSUME IInv, NEW w \in Worker, Save(w), HoldsRoom(w)
    PROVE  Ledger!Next
<1> DEFINE b == job[w].key
           r == job[w].row
           s == r.stay
<1>1. b \in Booking /\ r \in Row /\ s \in Stay /\ Live(r)
  BY JobFields, RowFields DEF Save, IInv, HoldsRoom, Live, Visible, LiveStatus
<1>2. table[b] = NoRow /\ \A x \in Booking \ {b} : Live(table[x]) => ~Overlaps(table[x].stay, s)
  BY DEF HoldsRoom, ConflictsBeside
<1>3. table'[b] = r /\ \A x \in Booking : x # b => table'[x] = table[x]
  <2>1. Saved(job[w]) = r
    BY DEF Saved, HoldsRoom
  <2>2. QED
    BY <1>1, <2>1 DEF Save, IInv, TypeOK
<1> HIDE DEF b, r
<1>4. \A e \in Entered : e[1] # b
  <2> SUFFICES ASSUME NEW e \in Entered PROVE e[1] # b
    OBVIOUS
  <2>1. PICK x \in Booking :
            Live(table[x]) /\ \E n \in Nights(table[x].stay) : e = <<x, table[x].stay.room, n>>
    BY InLedger
  <2>2. x # b /\ e[1] = x
    BY <1>2, <2>1 DEF Live, Visible
  <2>3. QED
    BY <2>2
<1>5. Ledger!Free(s.room, Nights(s))
  <2> SUFFICES ASSUME NEW e \in Entered, e[2] = s.room, e[3] \in Nights(s)
               PROVE  FALSE
    BY DEF Ledger!Free
  <2>1. PICK x \in Booking :
            /\ Live(table[x])
            /\ \E n \in Nights(table[x].stay) : e = <<x, table[x].stay.room, n>>
    BY InLedger
  <2>2. table[x].stay.room = s.room /\ e[3] \in Nights(table[x].stay)
    BY <2>1
  <2>3. x # b /\ table[x].stay \in Stay
    BY <1>2, <2>1, VisibleIsRow, RowFields DEF IInv, Live, Visible
  <2>4. Overlaps(table[x].stay, s)
    BY <1>1, <2>2, <2>3, SharedNightOverlaps
  <2>5. QED
    BY <1>2, <2>1, <2>3, <2>4
<1>6. Entered' = Entered \cup ({b} \X {s.room} \X Nights(s))
  <2>1. ASSUME NEW e
        PROVE  e \in Entered' <=> e \in Entered \/ \E n \in Nights(s) : e = <<b, s.room, n>>
    <3>1. ~Live(table[b])
      BY <1>2 DEF Live, Visible
    <3>2. ASSUME NEW x \in Booking, Live(table'[x]),
                 NEW n \in Nights(table'[x].stay), e = <<x, table'[x].stay.room, n>>
          PROVE  e \in Entered \/ \E m \in Nights(s) : e = <<b, s.room, m>>
      <4>1. CASE x = b
        BY <1>3, <3>2, <4>1
      <4>2. CASE x # b
        BY <1>3, <3>2, <4>2, InLedger
      <4>3. QED
        BY <4>1, <4>2
    <3>3. ASSUME NEW x \in Booking, Live(table[x]),
                 NEW n \in Nights(table[x].stay), e = <<x, table[x].stay.room, n>>
          PROVE  e \in Entered'
      BY <1>3, <3>1, <3>3, InLedgerPrimed
    <3>4. ASSUME NEW n \in Nights(s), e = <<b, s.room, n>>
          PROVE  e \in Entered'
      BY <1>1, <1>3, <3>4, InLedgerPrimed
    <3>5. QED
      BY <3>2, <3>3, <3>4, InLedger, InLedgerPrimed
  <2>2. ASSUME NEW e
        PROVE  e \in {b} \X {s.room} \X Nights(s) <=> \E n \in Nights(s) : e = <<b, s.room, n>>
    OBVIOUS
  <2>3. QED
    BY <2>1, <2>2
<1>7. s.room \in Room /\ s.checkIn \in Day /\ s.checkOut \in Day
  BY <1>1 DEF Stay
<1>8. Ledger!Take(b, s.room, s.checkIn .. (s.checkOut - 1))
  BY <1>4, <1>5, <1>6 DEF Ledger!Take, Nights
<1>9. QED
  BY <1>1, <1>7, <1>8 DEF Ledger!Next

(* A step that keeps or takes back the nights of one row.                  *)
LEMMA GivesBack ==
    ASSUME NEW b \in Booking,
           \A x \in Booking : x # b => table'[x] = table[x],
           Live(table'[b]) => Live(table[b]) /\ table'[b].stay = table[b].stay
    PROVE  Ledger!Next \/ Entered' = Entered
<1>1. CASE Live(table'[b]) \/ ~Live(table[b])
  <2>1. ASSUME NEW e PROVE e \in Entered' <=> e \in Entered
    BY <1>1, InLedger, InLedgerPrimed
  <2>2. QED
    BY <2>1
<1>2. CASE Live(table[b]) /\ ~Live(table'[b])
  <2>1. ASSUME NEW e PROVE e \in Entered' <=> e \in Entered /\ e[1] # b
    BY <1>2, InLedger, InLedgerPrimed
  <2>2. Entered' = {e \in Entered : e[1] # b}
    BY <2>1
  <2>3. QED
    BY <2>2 DEF Ledger!Next, Ledger!GiveBack
<1>3. QED
  BY <1>1, <1>2

LEMMA ReleasingLedgerStep ==
    ASSUME IInv, [Next]_vars
    PROVE  [Ledger!Next]_Entered
<1>1. CASE UNCHANGED table
  BY <1>1 DEF Entered
<1>2. ASSUME NEW w \in Worker, Save(w), OnlyReleases(w)
      PROVE  Ledger!Next \/ Entered' = Entered
  <2>1. Saved(job[w]) \in Row /\ ~Live(Saved(job[w]))
    BY <1>2, SavesNothingLive
  <2>2. job[w].key \in Booking /\ table' = [table EXCEPT ![job[w].key] = Saved(job[w])]
    BY <1>2, <2>1, SaveFacts DEF IInv
  <2>3. QED
    BY <2>1, <2>2, GivesBack DEF IInv, TypeOK
<1>3. ASSUME NEW b \in Booking, StatementNext(b)
      PROVE  Ledger!Next \/ Entered' = Entered
  BY <1>3, StatementRows, GivesBack DEF IInv
<1>4. QED
  BY <1>1, <1>2, <1>3, Writes, SaveStep, SaveEnters

(* With the requests of Releasing alone, the life of the bookings is the   *)
(* life of a ledger: nights are taken whole, by a booking that had none,   *)
(* and only where they are free, and they are given back together.         *)
THEOREM ReleasingImplementsLedger ==
    ASSUME Ops \subseteq Releasing
    PROVE  Spec => Ledger!Spec
<1>1. Init => IInv
  BY InitInvariant
<1>2. IInv /\ [Next]_vars => IInv'
  BY StepInvariant
<1>3. Init => Ledger!Init
  BY DEF Init, Ledger!Init, Entered, Live, Visible
<1>4. IInv /\ [Next]_vars => [Ledger!Next]_Entered
  BY ReleasingLedgerStep
<1>5. QED
  BY <1>1, <1>2, <1>3, <1>4, PTL DEF Spec, Ledger!Spec
=============================================================================
