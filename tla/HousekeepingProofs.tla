------------------------- MODULE HousekeepingProofs -------------------------
(***************************************************************************)
(* The types of the housekeeping model, and the theorem that a guest's     *)
(* cancellation is kept for its period, for any period, clock and number   *)
(* of bookings.  The argument: a save of the whole row leaves "updated_at" *)
(* no earlier than the cancellation, so a row that looks old is old; and   *)
(* a row the running purge has selected stays old, unless it is revived.   *)
(* By its creation it stays old even then, which the last section proves.  *)
(***************************************************************************)
EXTENDS Housekeeping, TLAPS

LEMMA DivMonotone ==
    ASSUME NEW k \in Nat \ {0}, NEW a \in Nat, NEW b \in Nat, a <= b
    PROVE  a \div k <= b \div k
<1>1. /\ a \div k \in Int /\ b \div k \in Int
      /\ a = k * (a \div k) + (a % k) /\ a % k \in 0 .. k - 1
      /\ b = k * (b \div k) + (b % k) /\ b % k \in 0 .. k - 1
  OBVIOUS
<1>2. SUFFICES ASSUME a \div k > b \div k PROVE FALSE
  BY <1>1
<1> DEFINE q == a \div k
           p == b \div k
<1>3. q >= p + 1
  BY <1>1, <1>2
<1>4. k * q >= k * (p + 1)
  BY <1>1, <1>3, Z3
<1>5. k * (p + 1) = k * p + k
  BY <1>1, Z3
<1>6. QED
  BY <1>1, <1>4, <1>5, SMT

----------------------------------------------------------------------------
(* The inductive invariant.                                                *)

(* A row's status did not change in the future, and a cancellation that    *)
(* was a save of the whole row is no younger than "updated_at" says.       *)
Aged(r) ==
    /\ r.since <= now
    /\ r.status = "cancelled" /\ r.saved => r.since <= r.updated

(* What a purge has selected may go, unless it was revived since.          *)
MayGo(r) ==
    /\ r.status = "cancelled"
    /\ r.saved => DayOf(r.since) + Retention < Today

(* A selected key had a row; it is gone, or may go.                        *)
Going(b) == table[b] # NoRow /\ (Exists(b) => MayGo(table[b]))

IInv ==
    /\ TypeOK
    /\ \A b \in Booking : Exists(b) => Aged(table[b])
    /\ \A b \in doomed \ revived : Going(b)

LEMMA RowTypes ==
    ASSUME TypeOK, NEW b \in Booking, Exists(b)
    PROVE  /\ table[b] \in Row
           /\ table[b].status \in Status /\ table[b].saved \in BOOLEAN
           /\ table[b].since \in Tick /\ table[b].updated \in Tick
<1>1. table[b] \in Row
  BY DEF TypeOK, Exists
<1>2. QED
  BY <1>1 DEF Row

LEMMA ChangedTypes ==
    ASSUME NEW r \in Row, NEW st \in Status, NEW whole \in BOOLEAN, now \in Tick
    PROVE  /\ Changed(r, st, whole) \in Row
           /\ Changed(r, st, whole).status = st
           /\ Changed(r, st, whole).updated = IF whole THEN now ELSE r.updated
           /\ r.status = st => /\ Changed(r, st, whole).since = r.since
                               /\ Changed(r, st, whole).saved = r.saved
           /\ r.status # st => /\ Changed(r, st, whole).since = now
                               /\ Changed(r, st, whole).saved = whole
BY DEF Changed, Row

----------------------------------------------------------------------------
(* Steps that write one row.                                               *)

LEMMA RowWritten ==
    ASSUME IInv, NEW b \in Booking, NEW r \in Row, Aged(r),
           table' = [table EXCEPT ![b] = r],
           UNCHANGED <<now, doomed>>,
           revived \subseteq revived', revived' \subseteq Booking,
           b \in doomed \ revived' =>
                /\ Exists(b)
                /\ r.status = "cancelled"
                /\ r.since = table[b].since /\ r.saved = table[b].saved
    PROVE  IInv'
<1>1. TypeOK'
  BY DEF IInv, TypeOK
<1>2. table'[b] = r /\ \A x \in Booking : x # b => table'[x] = table[x]
  BY DEF IInv, TypeOK
<1>3. \A x \in Booking : Exists(x)' => Aged(table[x])'
  BY <1>2 DEF IInv, Aged, Exists
<1>4. ASSUME NEW x \in doomed' \ revived'
      PROVE  Going(x)'
  <2>1. x \in doomed \ revived /\ x \in Booking
    BY <1>4 DEF IInv, TypeOK
  <2>2. Going(x)
    BY <2>1 DEF IInv
  <2>3. CASE x = b
    <3>1. r # NoRow /\ r # Purged
      BY HousekeepingAssumption
    <3>2. QED
      BY <1>2, <1>4, <2>2, <2>3, <3>1 DEF Going, Exists, MayGo, Today
  <2>4. CASE x # b
    BY <1>2, <2>1, <2>2, <2>4 DEF Going, Exists, MayGo, Today
  <2>5. QED
    BY <2>3, <2>4
<1>5. QED
  BY <1>1, <1>3, <1>4 DEF IInv

LEMMA ChangedAged ==
    ASSUME TypeOK, NEW b \in Booking, Exists(b), Aged(table[b]), NEW st \in Status,
           NEW whole \in BOOLEAN
    PROVE  Aged(Changed(table[b], st, whole))
<1>1. table[b] \in Row /\ now \in Tick /\ now \in Int
  BY RowTypes, HousekeepingAssumption DEF TypeOK, Tick
<1>2. table[b].since \in Int /\ table[b].updated \in Int
  BY RowTypes, HousekeepingAssumption DEF Tick
<1>3. QED
  BY <1>1, <1>2, ChangedTypes DEF Aged

LEMMA SetStatusStep ==
    ASSUME IInv, NEW b \in Booking, Exists(b), NEW st \in Status, NEW whole \in BOOLEAN,
           SetStatus(b, st, whole)
    PROVE  IInv'
<1> DEFINE r == Changed(table[b], st, whole)
<1>1. table[b] \in Row /\ now \in Tick /\ Aged(table[b])
  BY RowTypes DEF IInv, TypeOK
<1>2. r \in Row /\ r.status = st /\ Aged(r)
  BY <1>1, ChangedTypes, ChangedAged DEF IInv
<1>3. /\ table' = [table EXCEPT ![b] = r]
      /\ UNCHANGED <<now, doomed>>
      /\ revived \subseteq revived' /\ revived' \subseteq Booking
      /\ table[b].status = "cancelled" /\ st # "cancelled" => b \in revived'
  BY DEF SetStatus, IInv, TypeOK
<1>4. ASSUME b \in doomed \ revived'
      PROVE  /\ Exists(b)
             /\ r.status = "cancelled"
             /\ r.since = table[b].since /\ r.saved = table[b].saved
  <2>1. table[b].status = "cancelled"
    BY <1>3, <1>4 DEF IInv, Going, MayGo
  <2>2. st = "cancelled"
    BY <1>3, <1>4, <2>1
  <2>3. QED
    BY <1>1, <2>1, <2>2, ChangedTypes
<1> HIDE DEF r
<1>5. QED
  BY <1>2, <1>3, <1>4, RowWritten

LEMMA ReserveStep ==
    ASSUME IInv, NEW b \in Booking, NEW d \in Day, Reserve(b, d)
    PROVE  IInv'
<1> DEFINE r == [status |-> "pending", paid |-> FALSE, checkIn |-> d,
                 created |-> now, updated |-> now, since |-> now, saved |-> TRUE]
<1>1. now \in Tick /\ now \in Int
  BY HousekeepingAssumption DEF IInv, TypeOK, Tick
<1>2. r \in Row /\ Aged(r)
  BY <1>1 DEF Row, Status, Aged
<1>3. /\ table[b] = NoRow /\ table' = [table EXCEPT ![b] = r]
      /\ UNCHANGED <<now, doomed, revived>>
  BY DEF Reserve
<1>4. b \notin doomed \ revived
  BY <1>3 DEF IInv, Going
<1>5. revived \subseteq revived' /\ revived' \subseteq Booking
  BY <1>3 DEF IInv, TypeOK
<1> HIDE DEF r
<1>6. QED
  BY <1>2, <1>3, <1>4, <1>5, RowWritten

LEMMA CaptureStep ==
    ASSUME IInv, NEW b \in Booking, Capture(b)
    PROVE  IInv'
<1> DEFINE c == Changed(table[b], "confirmed", TRUE)
           r == [c EXCEPT !.paid = TRUE]
<1>1. /\ Exists(b) /\ table' = [table EXCEPT ![b] = r]
      /\ revived' = IF table[b].status = "cancelled" THEN revived \cup {b} ELSE revived
      /\ UNCHANGED <<now, doomed>>
  BY DEF Capture
<1>2. table[b] \in Row /\ now \in Tick /\ Aged(table[b])
  BY <1>1, RowTypes DEF IInv, TypeOK
<1>3. c \in Row /\ Aged(c) /\ "confirmed" \in Status
  BY <1>1, <1>2, ChangedTypes, ChangedAged DEF IInv, Status
<1> HIDE DEF c
<1>4. r \in Row /\ Aged(r)
  BY <1>3 DEF Row, Aged
<1>5. b \notin doomed \ revived'
  BY <1>1 DEF IInv, Going, MayGo
<1>6. revived \subseteq revived' /\ revived' \subseteq Booking
  BY <1>1 DEF IInv, TypeOK
<1> HIDE DEF r
<1>7. QED
  BY <1>1, <1>4, <1>5, <1>6, RowWritten

LEMMA MarkPaidStep ==
    ASSUME IInv, NEW b \in Booking, MarkPaid(b)
    PROVE  IInv'
<1> DEFINE r == [table[b] EXCEPT !.paid = TRUE]
<1>1. /\ Exists(b) /\ table' = [table EXCEPT ![b] = r]
      /\ UNCHANGED <<now, doomed, revived>>
  BY DEF MarkPaid
<1>2. table[b] \in Row /\ Aged(table[b])
  BY <1>1, RowTypes DEF IInv
<1>3. /\ r \in Row /\ Aged(r)
      /\ r.status = table[b].status
      /\ r.since = table[b].since /\ r.saved = table[b].saved
  BY <1>2 DEF Row, Aged
<1>4. b \in doomed \ revived => table[b].status = "cancelled"
  BY <1>1 DEF IInv, Going, MayGo
<1>5. revived \subseteq revived' /\ revived' \subseteq Booking
  BY <1>1 DEF IInv, TypeOK
<1> HIDE DEF r
<1>6. QED
  BY <1>1, <1>3, <1>4, <1>5, RowWritten

LEMMA HardDeleteStep ==
    ASSUME IInv, NEW b \in Booking, HardDelete(b)
    PROVE  IInv'
<1>1. /\ table' = [table EXCEPT ![b] = Purged]
      /\ UNCHANGED <<now, doomed, revived>>
  BY DEF HardDelete
<1>2. table'[b] = Purged /\ \A x \in Booking : x # b => table'[x] = table[x]
  BY <1>1 DEF IInv, TypeOK
<1>3. TypeOK'
  BY <1>1 DEF IInv, TypeOK
<1>4. \A x \in Booking : Exists(x)' => Aged(table[x])'
  BY <1>1, <1>2 DEF IInv, Aged, Exists
<1>5. ASSUME NEW x \in doomed' \ revived'
      PROVE  Going(x)'
  <2>1. x \in Booking /\ Going(x)
    BY <1>1, <1>5 DEF IInv, TypeOK
  <2>2. CASE x = b
    BY <1>2, <2>2, HousekeepingAssumption DEF Going, Exists
  <2>3. CASE x # b
    BY <1>1, <1>2, <2>1, <2>3 DEF Going, Exists, MayGo, Today
  <2>4. QED
    BY <2>2, <2>3
<1>6. QED
  BY <1>3, <1>4, <1>5 DEF IInv

LEMMA RequestStep ==
    ASSUME IInv, NEW b \in Booking, Request(b)
    PROVE  IInv'
<1>1. "confirmed" \in Status /\ "cancelled" \in Status
  BY DEF Status
<1>2. CASE Confirm(b) \/ CancelByGuest(b) \/ Destroy(b) \/ MarkConfirmed(b) \/ MarkCancelled(b)
  BY <1>1, <1>2, SetStatusStep DEF Confirm, CancelByGuest, Destroy, MarkConfirmed, MarkCancelled
<1>3. CASE \E st \in Status : BulkStatus(b, st)
  BY <1>3, SetStatusStep DEF BulkStatus
<1>4. QED
  BY <1>2, <1>3, ReserveStep, CaptureStep, MarkPaidStep, HardDeleteStep DEF Request

----------------------------------------------------------------------------
(* The Celery jobs and the clock.                                          *)

LEMMA ExpireStep ==
    ASSUME IInv, ExpirePending
    PROVE  IInv'
<1>1. /\ table' = [b \in Booking |->
              IF Overdue(b) THEN Changed(table[b], "cancelled", FALSE) ELSE table[b]]
      /\ UNCHANGED <<now, doomed, revived>>
  BY DEF ExpirePending
<1>2. ASSUME NEW b \in Booking, Overdue(b)
      PROVE  Changed(table[b], "cancelled", FALSE) \in Row /\ Aged(Changed(table[b], "cancelled", FALSE))
  <2>1. /\ Exists(b) /\ table[b] \in Row /\ now \in Tick /\ Aged(table[b])
        /\ "cancelled" \in Status
    BY <1>2, RowTypes DEF Overdue, IInv, TypeOK, Status
  <2>2. QED
    BY <2>1, ChangedTypes, ChangedAged DEF IInv
<1>3. TypeOK'
  BY <1>1, <1>2 DEF IInv, TypeOK
<1>4. \A b \in Booking : Exists(b)' => Aged(table[b])'
  BY <1>1, <1>2 DEF IInv, Aged, Exists
<1>5. ASSUME NEW b \in doomed' \ revived'
      PROVE  Going(b)'
  <2>1. b \in Booking /\ Going(b)
    BY <1>1, <1>5 DEF IInv, TypeOK
  <2>2. table'[b] = table[b]
    BY <1>1, <2>1 DEF Going, MayGo, Overdue
  <2>3. QED
    BY <1>1, <2>1, <2>2 DEF Going, Exists, MayGo, Today
<1>6. QED
  BY <1>3, <1>4, <1>5 DEF IInv

LEMMA SelectStep ==
    ASSUME IInv, SelectForPurge
    PROVE  IInv'
<1>1. /\ doomed' = {b \in Booking : Purgeable(b)} /\ revived' = {}
      /\ UNCHANGED <<table, now>>
  BY DEF SelectForPurge
<1>2. TypeOK'
  BY <1>1 DEF IInv, TypeOK
<1>3. ASSUME NEW b \in Booking, Purgeable(b)
      PROVE  Exists(b) /\ MayGo(table[b])
  <2>1. /\ Exists(b) /\ table[b].status = "cancelled"
        /\ DayOf(table[b].updated) < Today - Retention
    BY <1>3 DEF Purgeable
  <2>2. ASSUME table[b].saved
        PROVE  DayOf(table[b].since) + Retention < Today
    <3>1. /\ table[b].since \in Nat /\ table[b].updated \in Nat /\ now \in Nat
          /\ TicksPerDay \in Nat \ {0} /\ Retention \in Nat
      BY <2>1, RowTypes, HousekeepingAssumption DEF IInv, TypeOK, Tick
    <3>2. table[b].since <= table[b].updated
      BY <2>1, <2>2 DEF IInv, Aged
    <3>3. DayOf(table[b].since) <= DayOf(table[b].updated)
      BY <3>1, <3>2, DivMonotone DEF DayOf
    <3>4. /\ DayOf(table[b].since) \in Int /\ DayOf(table[b].updated) \in Int
          /\ Today \in Int
      BY <3>1 DEF DayOf, Today
    <3>5. QED
      BY <2>1, <3>1, <3>3, <3>4
  <2>3. QED
    BY <2>1, <2>2 DEF MayGo
<1>4. \A b \in doomed' \ revived' : Going(b)'
  BY <1>1, <1>3 DEF Going, Exists, MayGo, Today
<1>5. \A b \in Booking : Exists(b)' => Aged(table[b])'
  BY <1>1 DEF IInv, Exists, Aged
<1>6. QED
  BY <1>2, <1>4, <1>5 DEF IInv

LEMMA PurgeStep ==
    ASSUME IInv, Purge \/ PurgeFails
    PROVE  IInv'
<1>1. /\ table' = [b \in Booking |-> IF b \in doomed THEN Purged ELSE table[b]]
         \/ table' = table
      /\ doomed' = {} /\ UNCHANGED <<now, revived>>
  BY DEF Purge, PurgeFails
<1>2. TypeOK'
  BY <1>1 DEF IInv, TypeOK
<1>3. \A b \in Booking : Exists(b)' => Aged(table[b])'
  BY <1>1 DEF IInv, Exists, Aged
<1>4. QED
  BY <1>1, <1>2, <1>3 DEF IInv

LEMMA TimeStep ==
    ASSUME IInv, TimePasses
    PROVE  IInv'
<1>1. now < LastTick /\ now' = now + 1 /\ UNCHANGED <<table, doomed, revived>>
  BY DEF TimePasses
<1>2. now \in Nat /\ now' \in Nat /\ LastTick \in Nat /\ TicksPerDay \in Nat \ {0}
  BY <1>1, HousekeepingAssumption DEF IInv, TypeOK, Tick
<1>3. TypeOK'
  BY <1>1, <1>2 DEF IInv, TypeOK, Tick
<1>4. \A b \in Booking : Exists(b)' => Aged(table[b])'
  <2> SUFFICES ASSUME NEW b \in Booking, Exists(b)' PROVE Aged(table[b])'
    OBVIOUS
  <2>1. Exists(b) /\ Aged(table[b])
    BY <1>1 DEF IInv, Exists
  <2>2. table[b].since \in Nat
    BY <2>1, RowTypes, <1>2 DEF IInv, Tick
  <2>3. QED
    BY <1>1, <1>2, <2>1, <2>2 DEF Aged
<1>5. now \div TicksPerDay <= now' \div TicksPerDay
  BY <1>1, <1>2, DivMonotone
<1>6. \A b \in doomed' \ revived' : Going(b)'
  <2> SUFFICES ASSUME NEW b \in doomed \ revived, Exists(b) PROVE MayGo(table[b])'
    BY <1>1 DEF IInv, Going, Exists
  <2>1. b \in Booking /\ Exists(b) /\ MayGo(table[b])
    BY DEF IInv, Going, TypeOK
  <2>2. table[b].since \in Nat /\ Retention \in Nat
    BY <2>1, RowTypes, <1>2, HousekeepingAssumption DEF IInv, Tick
  <2>3. /\ table[b].since \div TicksPerDay \in Int
        /\ now \div TicksPerDay \in Int /\ now' \div TicksPerDay \in Int
    BY <1>2, <2>2
  <2>4. table[b].saved =>
            (table[b].since \div TicksPerDay) + Retention < now' \div TicksPerDay
    BY <1>5, <2>1, <2>2, <2>3 DEF MayGo, Today, DayOf
  <2>5. QED
    BY <1>1, <2>1, <2>4 DEF MayGo, Today, DayOf
<1>7. QED
  BY <1>3, <1>4, <1>6 DEF IInv

----------------------------------------------------------------------------
(* The theorems.                                                           *)

LEMMA InitInvariant ==
    Init => IInv
<1> SUFFICES ASSUME Init PROVE IInv
  OBVIOUS
<1>1. TypeOK
  BY HousekeepingAssumption DEF Init, TypeOK, Tick
<1>2. QED
  BY <1>1 DEF Init, IInv, Exists

LEMMA StepInvariant ==
    IInv /\ [Next]_vars => IInv'
<1> SUFFICES ASSUME IInv, [Next]_vars PROVE IInv'
  OBVIOUS
<1>1. CASE UNCHANGED vars
  BY <1>1 DEF vars, IInv, TypeOK, Exists, Aged, Going, MayGo, Today
<1>2. QED
  BY <1>1, RequestStep, ExpireStep, SelectStep, PurgeStep, TimeStep DEF Next, Job

(* But for persons only the purge deletes rows for good, and only rows it  *)
(* had selected.                                                           *)
LEMMA PurgingStep ==
    ASSUME IInv, [Next]_vars, NEW b \in Booking, PurgedNow(b)
    PROVE  b \in doomed
<1>1. table[b] # Purged /\ table'[b] = Purged
  BY DEF PurgedNow, Exists
<1>2. ASSUME NEW x \in Booking, NEW r, r # Purged,
             table' = [table EXCEPT ![x] = r]
      PROVE  FALSE
  BY <1>1, <1>2 DEF IInv, TypeOK
<1>3. ASSUME NEW x \in Booking, Request(x)
      PROVE  FALSE
  <2>1. \A r \in Row : r # Purged
    BY HousekeepingAssumption
  <2>2. "confirmed" \in Status /\ "cancelled" \in Status
    BY DEF Status
  <2>3. now \in Tick /\ (Exists(x) => table[x] \in Row)
    BY RowTypes DEF IInv, TypeOK
  <2>4. ASSUME Exists(x), NEW st \in Status, NEW whole \in BOOLEAN, SetStatus(x, st, whole)
        PROVE  FALSE
    <3>1. Changed(table[x], st, whole) \in Row
      BY <2>3, <2>4, ChangedTypes
    <3>2. QED
      BY <1>2, <2>1, <2>4, <3>1 DEF SetStatus
  <2>5. CASE \E d \in Day : Reserve(x, d)
    <3>1. PICK d \in Day : Reserve(x, d)
      BY <2>5
    <3>2. [status |-> "pending", paid |-> FALSE, checkIn |-> d,
           created |-> now, updated |-> now, since |-> now, saved |-> TRUE] \in Row
      BY <2>3 DEF Row, Status
    <3>3. QED
      BY <1>2, <2>1, <3>1, <3>2 DEF Reserve
  <2>6. CASE Capture(x)
    <3>1. Changed(table[x], "confirmed", TRUE) \in Row
      BY <2>2, <2>3, <2>6, ChangedTypes DEF Capture
    <3>2. [Changed(table[x], "confirmed", TRUE) EXCEPT !.paid = TRUE] \in Row
      BY <3>1 DEF Row
    <3>3. QED
      BY <1>2, <2>1, <2>6, <3>2 DEF Capture
  <2>7. CASE MarkPaid(x)
    <3>1. [table[x] EXCEPT !.paid = TRUE] \in Row
      BY <2>3, <2>7 DEF MarkPaid, Row
    <3>2. QED
      BY <1>2, <2>1, <2>7, <3>1 DEF MarkPaid
  <2>8. CASE HardDelete(x)
    <3>1. x = b
      BY <1>1, <2>8 DEF HardDelete, IInv, TypeOK
    <3>2. QED
      BY <2>8, <3>1 DEF PurgedNow
  <2>9. QED
    BY <1>3, <2>2, <2>4, <2>5, <2>6, <2>7, <2>8
       DEF Request, Confirm, CancelByGuest, Destroy, BulkStatus, MarkConfirmed, MarkCancelled
<1>4. CASE ExpirePending
  <2>1. Overdue(b) /\ table'[b] = Changed(table[b], "cancelled", FALSE)
    BY <1>1, <1>4 DEF ExpirePending
  <2>2. table[b] \in Row /\ now \in Tick /\ "cancelled" \in Status
    BY <2>1, RowTypes DEF Overdue, IInv, TypeOK, Status
  <2>3. Changed(table[b], "cancelled", FALSE) \in Row
    BY <2>2, ChangedTypes
  <2>4. Purged \notin Row
    BY HousekeepingAssumption
  <2>5. QED
    BY <1>1, <2>1, <2>3, <2>4
<1>5. CASE Purge
  BY <1>1, <1>5 DEF Purge
<1>6. CASE SelectForPurge \/ PurgeFails \/ TimePasses \/ UNCHANGED vars
  BY <1>1, <1>6 DEF SelectForPurge, PurgeFails, TimePasses, vars
<1>7. QED
  BY <1>3, <1>4, <1>5, <1>6 DEF Next, Job

(* The table, the clock and the selection of the purge keep their types.   *)
THEOREM HousekeepingTyped == Spec => []TypeOK
<1>1. IInv => TypeOK
  BY DEF IInv
<1>2. QED
  BY <1>1, InitInvariant, StepInvariant, PTL DEF Spec

(* cleanup_cancelled_bookings deletes no booking within the retention      *)
(* period of a cancellation by cancel_booking or the DELETE endpoint,      *)
(* except one that was brought back to life while the purge was running.   *)
THEOREM GuestCancellationIsKept == Spec => GuestCancellationKept
<1>1. IInv /\ [Next]_vars =>
        [\A b \in Booking :
            PurgedNow(b) /\ b \notin revived /\ table[b].saved
              => DayOf(table[b].since) + Retention < Today]_vars
  BY PurgingStep DEF IInv, Going, MayGo, PurgedNow
<1>2. QED
  BY <1>1, InitInvariant, StepInvariant, PTL DEF Spec, GuestCancellationKept

----------------------------------------------------------------------------
(* What holds of every deletion, revived bookings included.                *)

(* "created_at" is the oldest of the times of a row.                       *)
CreatedFirst(r) == r.created <= r.updated /\ r.created <= now

(* A selected key had a row, which is gone or old by its creation.         *)
Old(b) ==
    /\ table[b] # NoRow
    /\ Exists(b) => DayOf(table[b].created) + Retention < Today

(* The inductive invariant: what a purge has selected is old, and no later *)
(* write changes the time of creation.                                     *)
OldInv ==
    /\ \A b \in Booking : Exists(b) => CreatedFirst(table[b])
    /\ \A b \in doomed : Old(b)

(* A request but for a deletion writes one row: the first of its key, or   *)
(* one that keeps the time of creation and has a time of update of its own *)
(* or the present.                                                         *)
LEMMA RequestWrites ==
    ASSUME TypeOK, NEW b \in Booking, Request(b), ~HardDelete(b)
    PROVE  /\ UNCHANGED <<now, doomed>>
           /\ \E r \in Row :
                /\ table' = [table EXCEPT ![b] = r]
                /\ \/ table[b] = NoRow /\ r.created = now /\ r.updated = now
                   \/ /\ Exists(b) /\ r.created = table[b].created
                      /\ r.updated \in {table[b].updated, now}
<1>1. now \in Tick /\ "confirmed" \in Status /\ "cancelled" \in Status
  BY DEF TypeOK, Status
<1>2. ASSUME NEW st \in Status, NEW whole \in BOOLEAN, Exists(b)
      PROVE  /\ Changed(table[b], st, whole) \in Row
             /\ Changed(table[b], st, whole).created = table[b].created
             /\ Changed(table[b], st, whole).updated \in {table[b].updated, now}
  BY <1>1, <1>2, RowTypes DEF Changed, Row
<1>3. CASE \E d \in Day : Reserve(b, d)
  <2>1. PICK d \in Day : Reserve(b, d)
    BY <1>3
  <2> DEFINE r == [status |-> "pending", paid |-> FALSE, checkIn |-> d,
                   created |-> now, updated |-> now, since |-> now, saved |-> TRUE]
  <2>2. r \in Row /\ r.created = now /\ r.updated = now
    BY <1>1 DEF Row, Status
  <2>3. /\ table[b] = NoRow /\ table' = [table EXCEPT ![b] = r]
        /\ UNCHANGED <<now, doomed>>
    BY <2>1 DEF Reserve
  <2> HIDE DEF r
  <2>4. QED
    BY <2>2, <2>3
<1>4. CASE Capture(b)
  <2> DEFINE c == Changed(table[b], "confirmed", TRUE)
             r == [c EXCEPT !.paid = TRUE]
  <2>1. /\ Exists(b) /\ table' = [table EXCEPT ![b] = r]
        /\ UNCHANGED <<now, doomed>>
    BY <1>4 DEF Capture
  <2>2. /\ c \in Row /\ c.created = table[b].created
        /\ c.updated \in {table[b].updated, now}
    BY <1>1, <1>2, <2>1
  <2> HIDE DEF c
  <2>3. r \in Row /\ r.created = c.created /\ r.updated = c.updated
    BY <2>2 DEF Row
  <2> HIDE DEF r
  <2>4. QED
    BY <2>1, <2>2, <2>3
<1>5. CASE MarkPaid(b)
  <2> DEFINE r == [table[b] EXCEPT !.paid = TRUE]
  <2>1. /\ Exists(b) /\ table' = [table EXCEPT ![b] = r]
        /\ UNCHANGED <<now, doomed>>
    BY <1>5 DEF MarkPaid
  <2>2. r \in Row /\ r.created = table[b].created /\ r.updated = table[b].updated
    BY <2>1, RowTypes DEF Row
  <2> HIDE DEF r
  <2>3. QED
    BY <2>1, <2>2
<1>6. ASSUME NEW st \in Status, NEW whole \in BOOLEAN, Exists(b), SetStatus(b, st, whole)
      PROVE  /\ UNCHANGED <<now, doomed>>
             /\ \E r \in Row :
                  /\ table' = [table EXCEPT ![b] = r]
                  /\ Exists(b) /\ r.created = table[b].created
                  /\ r.updated \in {table[b].updated, now}
  BY <1>2, <1>6 DEF SetStatus
<1>7. CASE Confirm(b) \/ CancelByGuest(b) \/ Destroy(b) \/ MarkConfirmed(b) \/ MarkCancelled(b)
  BY <1>1, <1>6, <1>7 DEF Confirm, CancelByGuest, Destroy, MarkConfirmed, MarkCancelled
<1>8. CASE \E st \in Status : BulkStatus(b, st)
  BY <1>6, <1>8 DEF BulkStatus
<1>9. QED
  BY <1>3, <1>4, <1>5, <1>7, <1>8 DEF Request

LEMMA OldHardDeleteStep ==
    ASSUME TypeOK, OldInv, NEW b \in Booking, HardDelete(b)
    PROVE  OldInv'
<1>1. /\ table'[b] = Purged /\ \A x \in Booking : x # b => table'[x] = table[x]
      /\ UNCHANGED <<now, doomed>>
  BY DEF HardDelete, TypeOK
<1>2. \A x \in Booking : Exists(x)' => CreatedFirst(table[x])'
  BY <1>1 DEF OldInv, CreatedFirst, Exists
<1>3. \A x \in doomed' : Old(x)'
  BY <1>1, HousekeepingAssumption DEF OldInv, Old, Exists, Today, DayOf, TypeOK
<1>4. QED
  BY <1>2, <1>3 DEF OldInv

LEMMA OldRequestStep ==
    ASSUME TypeOK, OldInv, NEW b \in Booking, Request(b), ~HardDelete(b)
    PROVE  OldInv'
<1>1. PICK r \in Row :
        /\ table' = [table EXCEPT ![b] = r]
        /\ \/ table[b] = NoRow /\ r.created = now /\ r.updated = now
           \/ /\ Exists(b) /\ r.created = table[b].created
              /\ r.updated \in {table[b].updated, now}
  BY RequestWrites
<1>2. UNCHANGED <<now, doomed>> /\ now \in Int
  BY RequestWrites, HousekeepingAssumption DEF TypeOK, Tick
<1>3. table'[b] = r /\ \A x \in Booking : x # b => table'[x] = table[x]
  BY <1>1 DEF TypeOK
<1>4. r # NoRow /\ r # Purged
  BY HousekeepingAssumption
<1>5. CreatedFirst(r)
  BY <1>1, <1>2 DEF OldInv, CreatedFirst
<1>6. \A x \in Booking : Exists(x)' => CreatedFirst(table[x])'
  BY <1>2, <1>3, <1>5 DEF OldInv, CreatedFirst, Exists
<1>7. b \in doomed => Exists(b) /\ r.created = table[b].created
  BY <1>1 DEF OldInv, Old
<1>8. \A x \in doomed' : Old(x)'
  BY <1>2, <1>3, <1>4, <1>7 DEF OldInv, Old, Exists, Today, DayOf, TypeOK
<1>9. QED
  BY <1>6, <1>8 DEF OldInv

(* Days do not run backwards.                                              *)
LEMMA DaysOf ==
    ASSUME NEW s \in Tick, NEW t \in Tick
    PROVE  /\ DayOf(s) \in Int /\ DayOf(t) \in Int
           /\ s <= t => DayOf(s) <= DayOf(t)
<1>1. s \in Nat /\ t \in Nat /\ TicksPerDay \in Nat \ {0}
  BY HousekeepingAssumption DEF Tick
<1>2. s \div TicksPerDay \in Int /\ t \div TicksPerDay \in Int
  BY <1>1
<1>3. s <= t => s \div TicksPerDay <= t \div TicksPerDay
  BY <1>1, DivMonotone
<1>4. QED
  BY <1>2, <1>3 DEF DayOf

LEMMA OldJobStep ==
    ASSUME TypeOK, TypeOK', OldInv, Job \/ TimePasses
    PROVE  OldInv'
<1>1. now \in Int /\ Retention \in Int
  BY HousekeepingAssumption DEF TypeOK, Tick
<1>2. \A b \in Booking : Exists(b) => table[b] \in Row /\ table[b].created \in Tick
                                    /\ table[b].updated \in Tick
  BY DEF TypeOK, Exists, Row
<1>3. CASE ExpirePending
  <2>1. /\ table' = [b \in Booking |->
                IF Overdue(b) THEN Changed(table[b], "cancelled", FALSE) ELSE table[b]]
        /\ UNCHANGED <<now, doomed>>
    BY <1>3 DEF ExpirePending
  <2>2. ASSUME NEW b \in Booking
        PROVE  /\ Exists(b) => /\ Exists(b)'
                               /\ table'[b].created = table[b].created
                               /\ table'[b].updated = table[b].updated
               /\ ~Exists(b) => table'[b] = table[b]
    <3>1. CASE Overdue(b)
      <4>1. table'[b] = Changed(table[b], "cancelled", FALSE) /\ Exists(b) /\ table[b] \in Row
        BY <1>2, <2>1, <3>1 DEF Overdue
      <4>2. /\ Changed(table[b], "cancelled", FALSE) \in Row
            /\ Changed(table[b], "cancelled", FALSE).created = table[b].created
            /\ Changed(table[b], "cancelled", FALSE).updated = table[b].updated
        BY <4>1 DEF Changed, Row, Status, TypeOK
      <4>3. QED
        BY <4>1, <4>2, HousekeepingAssumption DEF Exists
    <3>2. CASE ~Overdue(b)
      BY <2>1, <3>2 DEF Exists
    <3>3. QED
      BY <3>1, <3>2
  <2>3. QED
    BY <2>1, <2>2 DEF OldInv, Old, Exists, CreatedFirst, Today, DayOf, TypeOK
<1>4. CASE SelectForPurge
  <2>1. doomed' = {b \in Booking : Purgeable(b)} /\ UNCHANGED <<table, now>>
    BY <1>4 DEF SelectForPurge
  <2>2. ASSUME NEW b \in Booking, Purgeable(b)
        PROVE  Exists(b) /\ DayOf(table[b].created) + Retention < Today
    <3>1. Exists(b) /\ DayOf(table[b].updated) < Today - Retention
      BY <2>2 DEF Purgeable
    <3>2. DayOf(table[b].created) <= DayOf(table[b].updated)
      BY <1>2, <3>1, DaysOf DEF OldInv, CreatedFirst
    <3>3. /\ DayOf(table[b].created) \in Int /\ DayOf(table[b].updated) \in Int
          /\ Today \in Int
      BY <1>2, <3>1, DaysOf DEF Today, TypeOK
    <3>4. QED
      BY <1>1, <3>1, <3>2, <3>3
  <2>3. QED
    BY <2>1, <2>2 DEF OldInv, Old, Exists, CreatedFirst, Today
<1>5. CASE Purge \/ PurgeFails
  <2>1. /\ table' = [b \in Booking |-> IF b \in doomed THEN Purged ELSE table[b]]
           \/ table' = table
        /\ doomed' = {} /\ now' = now
    BY <1>5 DEF Purge, PurgeFails
  <2>2. QED
    BY <2>1 DEF OldInv, Exists, CreatedFirst
<1>6. CASE TimePasses
  <2>1. now' = now + 1 /\ UNCHANGED <<table, doomed>> /\ now' \in Tick
    BY <1>6 DEF TimePasses, TypeOK
  <2>2. Today <= Today' /\ Today \in Int /\ Today' \in Int
    BY <1>1, <2>1, DaysOf DEF Today, TypeOK
  <2>3. \A b \in Booking : Exists(b) => CreatedFirst(table[b])'
    BY <1>1, <1>2, <2>1, HousekeepingAssumption DEF OldInv, CreatedFirst, Tick
  <2>4. ASSUME NEW b \in doomed, Exists(b)
        PROVE  DayOf(table[b].created) + Retention < Today'
    <3>1. DayOf(table[b].created) + Retention < Today
      BY <2>4 DEF OldInv, Old
    <3>2. DayOf(table[b].created) \in Int
      BY <1>2, <2>4, DaysOf DEF TypeOK
    <3>3. QED
      BY <1>1, <2>2, <3>1, <3>2
  <2>5. QED
    BY <2>1, <2>3, <2>4 DEF OldInv, Old, Exists, DayOf
<1>7. QED
  BY <1>3, <1>4, <1>5, <1>6 DEF Job

(* The nightly purge deletes no booking within the retention period of its *)
(* creation, whichever way it was cancelled, also by the jobs that leave   *)
(* "updated_at" alone, and also if it was revived while the purge ran: a   *)
(* booking that goes earlier was deleted by a person (HardDelete).         *)
THEOREM NonePurgedEarly ==
    Spec => [][\A b \in Booking :
                  PurgedNow(b) => DayOf(table[b].created) + Retention < Today]_vars
<1>1. Init => OldInv
  BY DEF Init, OldInv, Exists
<1>2. IInv /\ IInv' /\ OldInv /\ [Next]_vars => OldInv'
  <2>1. UNCHANGED vars /\ OldInv => OldInv'
    BY DEF vars, OldInv, Old, Exists, CreatedFirst, Today
  <2>2. QED
    BY <2>1, OldRequestStep, OldHardDeleteStep, OldJobStep DEF Next, IInv
<1>3. IInv /\ OldInv /\ [Next]_vars =>
        [\A b \in Booking :
            PurgedNow(b) => DayOf(table[b].created) + Retention < Today]_vars
  BY PurgingStep DEF OldInv, Old, PurgedNow
<1>4. QED
  BY <1>1, <1>2, <1>3, InitInvariant, StepInvariant, PTL DEF Spec
=============================================================================
