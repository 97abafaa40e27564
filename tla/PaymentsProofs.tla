--------------------------- MODULE PaymentsProofs ---------------------------
(***************************************************************************)
(* What the tables say of money is true unless a person entered it, for    *)
(* any number of bookings, charges and concurrent requests, those in which *)
(* persons enter something included.  The argument: the gateway never      *)
(* forgets (a charge keeps its booking, and captured or returned money     *)
(* stays so), hence what a request knew when it was answered still holds   *)
(* whenever it saves, however old its copies of the rows are.              *)
(***************************************************************************)
EXTENDS Payments, TLAPS

(* What the gateway knows in cs is at least what a row claims.             *)
PaidIn(cs, b) ==
    \E c \in Charge : cs[c].for = b /\ cs[c].state \in {"captured", "returned"}

ReturnedIn(cs, b) ==
    \E c \in Charge : cs[c].for = b /\ cs[c].state = "returned"

Backs(cs, c, b, status) ==
    /\ c \in Charge
    /\ cs[c].for = b
    /\ cs[c].state # "unused"
    /\ status = "completed" => cs[c].state \in {"captured", "returned"}
    /\ status = "refunded" => cs[c].state = "returned"

RowBacked(cs, r, b) ==
    /\ r.pay = "paid" /\ ~r.entered => PaidIn(cs, b)
    /\ r.pay = "refunded" /\ ~r.entered => ReturnedIn(cs, b)

(* A request in progress may save what it holds, except while it still     *)
(* waits for the gateway's answer.  The edit of a booking has no charge.   *)
JobBacked(cs, j) ==
    /\ j.at # "asking" => RowBacked(cs, j.booking, j.key)
    /\ j.kind = "edit" => j.at = "loaded"
    /\ j.kind = "refund" =>
         /\ Backs(cs, j.charge, j.key, "processing")
         /\ j.status = "refunded"
    /\ j.kind = "webhook" =>
         /\ j.at # "asking"
         /\ j.status \in {"failed", "completed"}
         /\ j.at # "answered" => j.status = "completed"
    /\ j.kind # "edit" /\ j.at # "asking" => Backs(cs, j.charge, j.key, j.status)

(* The inductive invariant.                                                *)
IInv ==
    /\ TypeOK
    /\ \A b \in Booking : RowBacked(charges, booking[b], b)
    /\ \A b \in Booking : payment[b] # NoPayment =>
            Backs(charges, payment[b].charge, b, payment[b].status)
    /\ \A w \in Worker : job[w] # Idle => JobBacked(charges, job[w])

----------------------------------------------------------------------------
(* The gateway never forgets.                                              *)

Remembers(cs, ds) ==
    \A c \in Charge : cs[c].state # "unused" =>
        /\ ds[c].for = cs[c].for
        /\ ds[c].state # "unused"
        /\ cs[c].state \in {"captured", "returned"} => ds[c].state \in {"captured", "returned"}
        /\ cs[c].state = "returned" => ds[c].state = "returned"

LEMMA BackingLasts ==
    ASSUME NEW cs, NEW ds, Remembers(cs, ds)
    PROVE  /\ \A b : PaidIn(cs, b) => PaidIn(ds, b)
           /\ \A b : ReturnedIn(cs, b) => ReturnedIn(ds, b)
           /\ \A c, b, st : Backs(cs, c, b, st) => Backs(ds, c, b, st)
           /\ \A r, b : RowBacked(cs, r, b) => RowBacked(ds, r, b)
           /\ \A j : JobBacked(cs, j) => JobBacked(ds, j)
<1>1. \A b : PaidIn(cs, b) => PaidIn(ds, b)
  BY DEF Remembers, PaidIn
<1>2. \A b : ReturnedIn(cs, b) => ReturnedIn(ds, b)
  BY DEF Remembers, ReturnedIn
<1>3. \A c, b, st : Backs(cs, c, b, st) => Backs(ds, c, b, st)
  BY DEF Remembers, Backs
<1>4. \A r, b : RowBacked(cs, r, b) => RowBacked(ds, r, b)
  BY <1>1, <1>2 DEF RowBacked
<1>5. \A j : JobBacked(cs, j) => JobBacked(ds, j)
  BY <1>3, <1>4 DEF JobBacked
<1>6. QED
  BY <1>1, <1>2, <1>3, <1>4, <1>5

LEMMA GatewayRemembers ==
    ASSUME TypeOK, [Next]_vars
    PROVE  Remembers(charges, charges')
<1>1. CASE UNCHANGED charges
  BY <1>1 DEF Remembers
<1>2. ASSUME NEW w \in Worker, NEW c \in Charge, MakeCharge(w, c)
      PROVE  Remembers(charges, charges')
  BY <1>2 DEF MakeCharge, Remembers, TypeOK, ChargeState
<1>3. ASSUME NEW c \in Charge, Settle(c)
      PROVE  Remembers(charges, charges')
  BY <1>3 DEF Settle, Remembers, TypeOK, ChargeState
<1>4. ASSUME NEW w \in Worker, ReturnMoney(w)
      PROVE  Remembers(charges, charges')
  BY <1>4 DEF ReturnMoney, Remembers, TypeOK, ChargeState
<1>5. CASE UNCHANGED vars
  BY <1>1, <1>5 DEF vars
<1>6. CASE \E w \in Worker : WorkerNext(w)
  BY <1>1, <1>2, <1>4, <1>6
     DEF WorkerNext, Initiate, AskRefund, Callback, StoreCharge, SaveInitiated,
         StoreOutcome, LoadBooking, SaveConfirmed, StoreRefund, SaveCancelled,
         Edit, SaveEdited, Break, SaveBooking
<1>7. CASE \E b \in Booking : CancelElsewhere(b) \/ MarkPaid(b) \/ CompleteRefund(b)
  BY <1>1, <1>7 DEF CancelElsewhere, MarkPaid, CompleteRefund
<1>8. QED
  BY <1>3, <1>5, <1>6, <1>7 DEF Next

(* A step need only show what it changes.                                  *)
LEMMA Changed ==
    ASSUME IInv, TypeOK', Remembers(charges, charges'),
           \A x \in Worker : job'[x] # job[x] =>
                job'[x] = Idle \/ JobBacked(charges', job'[x]),
           \A b \in Booking : payment'[b] # payment[b] =>
                Backs(charges', payment'[b].charge, b, payment'[b].status),
           \A b \in Booking : booking'[b] # booking[b] =>
                RowBacked(charges', booking'[b], b)
    PROVE  IInv'
<1>1. \A b \in Booking : RowBacked(charges', booking'[b], b)
  BY BackingLasts DEF IInv
<1>2. \A b \in Booking : payment'[b] # NoPayment =>
            Backs(charges', payment'[b].charge, b, payment'[b].status)
  BY BackingLasts DEF IInv
<1>3. \A w \in Worker : job'[w] # Idle => JobBacked(charges', job'[w])
  BY BackingLasts DEF IInv
<1>4. QED
  BY <1>1, <1>2, <1>3 DEF IInv

----------------------------------------------------------------------------
(* Types.                                                                  *)

LEMMA JobFields ==
    ASSUME TypeOK, NEW w \in Worker, job[w] # Idle
    PROVE  /\ job[w] \in Job
           /\ job[w].key \in Booking
           /\ job[w].booking \in BookingRow
           /\ job[w].charge \in Charge \cup {NoCharge}
           /\ job[w].status \in {"processing", "completed", "failed", "refunded"}
<1>1. job[w] \in Job
  BY DEF TypeOK
<1>2. QED
  BY <1>1 DEF Job

LEMMA StagesAreJobs ==
    ASSUME NEW j \in Job, NEW at \in {"asking", "answered", "stored", "loaded"}
    PROVE  [j EXCEPT !.at = at] \in Job
BY DEF Job

----------------------------------------------------------------------------
(* The requests, one lemma per action.                                     *)

LEMMA InitiateStep ==
    ASSUME IInv, NEW w \in Worker, NEW b \in Booking, Initiate(w, b)
    PROVE  IInv'
<1> DEFINE j == [kind |-> "initiate", at |-> "asking", key |-> b, charge |-> NoCharge,
                 status |-> "processing",
                 booking |-> [NewRow EXCEPT !.status = booking[b].status]]
<1>1. UNCHANGED <<booking, payment, charges>> /\ job' = [job EXCEPT ![w] = j]
  BY DEF Initiate
<1>2. j \in Job
  BY DEF Job, IInv, TypeOK, NewRow, BookingRow, Pay
<1>3. TypeOK'
  BY <1>1, <1>2 DEF IInv, TypeOK
<1>4. JobBacked(charges', j)
  BY <1>1 DEF JobBacked
<1>5. \A x \in Worker : job'[x] # job[x] => job'[x] = j
  BY <1>1 DEF IInv, TypeOK
<1>6. Remembers(charges, charges')
  BY <1>1 DEF Remembers
<1> HIDE DEF j
<1>7. QED
  BY <1>1, <1>3, <1>4, <1>5, <1>6, Changed

LEMMA MakeChargeStep ==
    ASSUME IInv, NEW w \in Worker, NEW c \in Charge, MakeCharge(w, c)
    PROVE  IInv'
<1> PICK s \in {"open", "captured", "failed"} :
        /\ charges' = [charges EXCEPT ![c] = [for |-> job[w].key, state |-> s]]
        /\ job' = [job EXCEPT ![w] =
              [job[w] EXCEPT !.at = "answered", !.charge = c, !.status = PaymentStatus(s),
                             !.booking = AfterCharge(job[w].booking, PaymentStatus(s))]]
  BY DEF MakeCharge
<1> DEFINE st == PaymentStatus(s)
           r == AfterCharge(job[w].booking, st)
           j == [job[w] EXCEPT !.at = "answered", !.charge = c, !.status = st,
                               !.booking = r]
<1>1. /\ charges[c].state = "unused"
      /\ job[w] # Idle /\ job[w].kind = "initiate"
      /\ UNCHANGED <<booking, payment>>
  BY DEF MakeCharge, Doing
<1>2. /\ job[w] \in Job
      /\ job[w].key \in Booking
      /\ job[w].booking \in BookingRow
  BY <1>1, JobFields DEF IInv
<1>3. /\ st \in {"completed", "processing", "failed"}
      /\ st = "completed" => s = "captured"
  BY DEF PaymentStatus
<1>4. /\ r \in BookingRow
      /\ r.pay = "paid" => st = "completed"
      /\ r.pay # "refunded"
  BY <1>2, <1>3 DEF AfterCharge, BookingRow, Pay, Status
<1> HIDE DEF st, r
<1>5. /\ j \in Job /\ j.at = "answered" /\ j.kind = "initiate" /\ j.charge = c
      /\ j.status = st /\ j.booking = r /\ j.key = job[w].key
  BY <1>1, <1>2, <1>3, <1>4 DEF Job
<1>6. job' = [job EXCEPT ![w] = j]
  BY DEF r, st
<1> HIDE DEF j
<1>7. charges'[c].for = job[w].key /\ charges'[c].state = s
  BY DEF IInv, TypeOK
<1>8. TypeOK'
  BY <1>1, <1>2, <1>5, <1>6 DEF IInv, TypeOK, ChargeState
<1>9. Backs(charges', c, job[w].key, st)
  BY <1>3, <1>7 DEF Backs
<1>10. RowBacked(charges', r, job[w].key)
  BY <1>3, <1>4, <1>7 DEF RowBacked, PaidIn
<1>11. JobBacked(charges', j)
  BY <1>5, <1>9, <1>10 DEF JobBacked
<1>12. \A x \in Worker : job'[x] # job[x] => job'[x] = j
  BY <1>6 DEF IInv, TypeOK
<1>13. Remembers(charges, charges')
  BY <1>1 DEF Remembers, IInv, TypeOK
<1>14. QED
  BY <1>1, <1>8, <1>11, <1>12, <1>13, Changed

LEMMA CallbackStep ==
    ASSUME IInv, NEW w \in Worker, NEW b \in Booking, NEW c \in Charge, Callback(w, b, c)
    PROVE  IInv'
<1> DEFINE st == IF charges[c].state = "failed" THEN "failed" ELSE "completed"
           j == [kind |-> "webhook", at |-> "answered", key |-> b, charge |-> c,
                 status |-> st, booking |-> NewRow]
<1>1. /\ UNCHANGED <<booking, payment, charges>>
      /\ job' = [job EXCEPT ![w] = j]
      /\ charges[c].state \in {"captured", "returned", "failed"}
      /\ payment[b] # NoPayment /\ payment[b].charge = c
  BY DEF Callback
<1>2. j \in Job
  BY DEF Job, NewRow, BookingRow, Pay, Status
<1>3. TypeOK'
  BY <1>1, <1>2 DEF IInv, TypeOK
<1>4. Backs(charges, c, b, st)
  BY <1>1 DEF IInv, Backs
<1>5. RowBacked(charges, NewRow, b)
  BY DEF RowBacked, NewRow
<1>6. JobBacked(charges', j)
  BY <1>1, <1>4, <1>5 DEF JobBacked
<1>7. \A x \in Worker : job'[x] # job[x] => job'[x] = j
  BY <1>1 DEF IInv, TypeOK
<1>8. Remembers(charges, charges')
  BY <1>1 DEF Remembers
<1> HIDE DEF j, st
<1>9. QED
  BY <1>1, <1>3, <1>6, <1>7, <1>8, Changed

LEMMA AskRefundStep ==
    ASSUME IInv, NEW w \in Worker, NEW b \in Booking, AskRefund(w, b)
    PROVE  IInv'
<1> DEFINE j == [kind |-> "refund", at |-> "asking", key |-> b, charge |-> payment[b].charge,
                 status |-> "refunded",
                 booking |-> [status |-> "cancelled", pay |-> "refunded",
                              entered |-> FALSE]]
<1>1. /\ UNCHANGED <<booking, payment, charges>>
      /\ job' = [job EXCEPT ![w] = j]
      /\ payment[b] # NoPayment
  BY DEF AskRefund
<1>2. payment[b] \in Payment /\ payment[b].charge \in Charge
  BY <1>1 DEF IInv, TypeOK, Payment
<1>3. j \in Job
  BY <1>2 DEF Job, BookingRow, Pay, Status
<1>4. TypeOK'
  BY <1>1, <1>3 DEF IInv, TypeOK
<1>5. Backs(charges, payment[b].charge, b, "processing")
  BY <1>1 DEF IInv, Backs
<1>6. JobBacked(charges', j)
  BY <1>1, <1>5 DEF JobBacked
<1>7. \A x \in Worker : job'[x] # job[x] => job'[x] = j
  BY <1>1 DEF IInv, TypeOK
<1>8. Remembers(charges, charges')
  BY <1>1 DEF Remembers
<1> HIDE DEF j
<1>9. QED
  BY <1>1, <1>4, <1>6, <1>7, <1>8, Changed

LEMMA ReturnMoneyStep ==
    ASSUME IInv, NEW w \in Worker, ReturnMoney(w)
    PROVE  IInv'
<1> DEFINE c == job[w].charge
           b == job[w].key
           j == [job[w] EXCEPT !.at = "answered"]
<1>1. /\ job[w] # Idle /\ job[w].kind = "refund"
      /\ charges[c].state = "captured"
      /\ charges' = [charges EXCEPT ![c].state = "returned"]
      /\ UNCHANGED <<booking, payment>>
  BY DEF ReturnMoney, Doing
<1>2. job' = [job EXCEPT ![w].at = "answered"]
  BY DEF ReturnMoney, Advance
<1>3. job[w] \in Job
  BY <1>1, JobFields DEF IInv
<1>4. Backs(charges, c, b, "processing") /\ job[w].status = "refunded"
  BY <1>1 DEF IInv, JobBacked
<1>5. /\ j \in Job /\ j.at = "answered" /\ j.kind = "refund" /\ j.charge = c
      /\ j.status = "refunded" /\ j.booking = job[w].booking /\ j.key = b
  BY <1>1, <1>3, <1>4 DEF Job
<1>6. job' = [job EXCEPT ![w] = j]
  BY <1>2
<1> HIDE DEF j
<1>7. c \in Charge /\ charges[c].for = b
  BY <1>4 DEF Backs
<1>8. charges[c] \in ChargeState
  BY <1>7 DEF IInv, TypeOK
<1>9. charges'[c].for = b /\ charges'[c].state = "returned"
  BY <1>1, <1>7, <1>8 DEF IInv, TypeOK, ChargeState
<1>10. TypeOK'
  BY <1>1, <1>5, <1>6, <1>7, <1>8 DEF IInv, TypeOK, ChargeState
<1>11. Backs(charges', c, b, "refunded")
  BY <1>7, <1>9 DEF Backs
<1>12. RowBacked(charges', job[w].booking, b)
  BY <1>7, <1>9 DEF RowBacked, PaidIn, ReturnedIn
<1>13. Backs(charges', c, b, "processing")
  BY <1>11 DEF Backs
<1> HIDE DEF b, c
<1>14. JobBacked(charges', j)
  BY <1>5, <1>11, <1>12, <1>13 DEF JobBacked
<1>15. \A x \in Worker : job'[x] # job[x] => job'[x] = j
  BY <1>6 DEF IInv, TypeOK
<1>16. Remembers(charges, charges')
  BY <1>1, <1>8, <1>9 DEF Remembers, IInv, TypeOK, ChargeState
<1>17. QED
  BY <1>1, <1>10, <1>14, <1>15, <1>16, Changed

LEMMA LoadBookingStep ==
    ASSUME IInv, NEW w \in Worker, LoadBooking(w)
    PROVE  IInv'
<1> DEFINE r == [status |-> "confirmed", pay |-> "paid", entered |-> FALSE]
           j == [job[w] EXCEPT !.at = "loaded", !.booking = r]
<1>1. /\ job[w] # Idle /\ job[w].kind = "webhook" /\ job[w].at = "stored"
      /\ UNCHANGED <<booking, payment, charges>>
      /\ job' = [job EXCEPT ![w].at = "loaded", ![w].booking = r]
  BY DEF LoadBooking, Doing
<1>2. job[w] \in Job
  BY <1>1, JobFields DEF IInv
<1>3. r \in BookingRow
  BY DEF BookingRow, Pay, Status
<1>4. /\ j \in Job /\ j.at = "loaded" /\ j.kind = "webhook" /\ j.charge = job[w].charge
      /\ j.status = job[w].status /\ j.booking = r /\ j.key = job[w].key
  BY <1>1, <1>2, <1>3 DEF Job
<1>5. job' = [job EXCEPT ![w] = j]
  BY <1>1 DEF IInv, TypeOK
<1> HIDE DEF j
<1>6. TypeOK'
  BY <1>1, <1>4, <1>5 DEF IInv, TypeOK
<1>7. Backs(charges, job[w].charge, job[w].key, job[w].status) /\ job[w].status = "completed"
  BY <1>1 DEF IInv, JobBacked
<1>8. RowBacked(charges, r, job[w].key)
  BY <1>7 DEF RowBacked, Backs, PaidIn
<1>9. JobBacked(charges', j)
  BY <1>1, <1>4, <1>7, <1>8 DEF JobBacked
<1>10. \A x \in Worker : job'[x] # job[x] => job'[x] = j
  BY <1>5 DEF IInv, TypeOK
<1>11. Remembers(charges, charges')
  BY <1>1 DEF Remembers
<1>12. QED
  BY <1>1, <1>6, <1>9, <1>10, <1>11, Changed

(* payment.save() of any request the gateway has answered.                 *)
LEMMA StoreStep ==
    ASSUME IInv, NEW w \in Worker, job[w] # Idle,
           job[w].kind # "edit", job[w].at = "answered", StorePayment(job[w]), UNCHANGED <<booking, charges>>,
           IF job[w].status = "failed" THEN End(w) ELSE Advance(w, "stored")
    PROVE  IInv'
<1> DEFINE j == [job[w] EXCEPT !.at = "stored"]
           p == [charge |-> job[w].charge, status |-> job[w].status]
<1>1. /\ job[w] \in Job
      /\ job[w].key \in Booking
      /\ job[w].status \in {"processing", "completed", "failed", "refunded"}
  BY JobFields DEF IInv
<1>2. JobBacked(charges, job[w])
  BY DEF IInv
<1>3. /\ Backs(charges, job[w].charge, job[w].key, job[w].status)
      /\ job[w].charge \in Charge
  BY <1>2 DEF JobBacked, Backs
<1>4. p \in Payment
  BY <1>1, <1>3 DEF Payment
<1>5. payment' = [payment EXCEPT ![job[w].key] = p]
  BY DEF StorePayment
<1>6. /\ j \in Job /\ j.at = "stored" /\ j.kind = job[w].kind /\ j.charge = job[w].charge
      /\ j.status = job[w].status /\ j.booking = job[w].booking /\ j.key = job[w].key
  BY <1>1 DEF Job
<1>7. \/ job' = [job EXCEPT ![w] = Idle]
      \/ job' = [job EXCEPT ![w] = j] /\ job[w].status # "failed"
  BY DEF End, Advance
<1> HIDE DEF j
<1>8. TypeOK'
  <2>1. payment' \in [Booking -> Payment \cup {NoPayment}]
    BY <1>4, <1>5 DEF IInv, TypeOK
  <2>2. job' \in [Worker -> Job \cup {Idle}]
    BY <1>6, <1>7 DEF IInv, TypeOK
  <2>3. QED
    BY <2>1, <2>2 DEF IInv, TypeOK
<1>9. \A b \in Booking : payment'[b] # payment[b] =>
          Backs(charges', payment'[b].charge, b, payment'[b].status)
  BY <1>3, <1>5 DEF IInv, TypeOK
<1>10. job[w].status # "failed" => JobBacked(charges', j)
  BY <1>2, <1>6 DEF JobBacked
<1>11. \A x \in Worker : job'[x] # job[x] => job'[x] = Idle \/ JobBacked(charges', job'[x])
  BY <1>7, <1>10 DEF IInv, TypeOK
<1>12. Remembers(charges, charges')
  BY DEF Remembers
<1>13. QED
  BY <1>8, <1>9, <1>11, <1>12, Changed

LEMMA EditStep ==
    ASSUME IInv, NEW w \in Worker, NEW b \in Booking, Edit(w, b)
    PROVE  IInv'
<1> PICK s \in Posted, p \in Pay :
        job' = [job EXCEPT ![w] =
          [kind |-> "edit", at |-> "loaded", key |-> b, charge |-> NoCharge,
           status |-> "processing", booking |-> Entered(booking[b], s, p)]]
  BY DEF Edit
<1> DEFINE r == Entered(booking[b], s, p)
           j == [kind |-> "edit", at |-> "loaded", key |-> b, charge |-> NoCharge,
                 status |-> "processing", booking |-> r]
<1>1. UNCHANGED <<booking, payment, charges>> /\ job' = [job EXCEPT ![w] = j]
  BY DEF Edit
<1>2. booking[b] \in BookingRow /\ s \in Status
  BY PaymentsAssumption DEF IInv, TypeOK
<1>3. r \in BookingRow
  BY <1>2 DEF Entered, BookingRow
<1>4. r.pay # "pending" /\ ~r.entered => r.pay = booking[b].pay /\ ~booking[b].entered
  BY DEF Entered
<1>5. RowBacked(charges, r, b)
  BY <1>4 DEF RowBacked, IInv
<1> HIDE DEF r
<1>6. j \in Job
  BY <1>3 DEF Job
<1>7. TypeOK'
  BY <1>1, <1>6 DEF IInv, TypeOK
<1>8. JobBacked(charges', j)
  BY <1>1, <1>5 DEF JobBacked
<1>9. \A x \in Worker : job'[x] # job[x] => job'[x] = j
  BY <1>1 DEF IInv, TypeOK
<1>10. Remembers(charges, charges')
  BY <1>1 DEF Remembers
<1> HIDE DEF j
<1>11. QED
  BY <1>1, <1>7, <1>8, <1>9, <1>10, Changed

(* booking.save(), the last step of a request.                             *)
LEMMA SaveStep ==
    ASSUME IInv, NEW w \in Worker, job[w] # Idle, job[w].at # "asking", SaveBooking(w)
    PROVE  IInv'
<1>1. /\ booking' = [booking EXCEPT ![job[w].key] = job[w].booking]
      /\ job' = [job EXCEPT ![w] = Idle]
      /\ UNCHANGED <<payment, charges>>
  BY DEF SaveBooking, End
<1>2. job[w].key \in Booking /\ job[w].booking \in BookingRow
  BY JobFields DEF IInv
<1>3. RowBacked(charges, job[w].booking, job[w].key)
  BY DEF IInv, JobBacked
<1>4. TypeOK'
  BY <1>1, <1>2 DEF IInv, TypeOK
<1>5. \A b \in Booking : booking'[b] # booking[b] => RowBacked(charges', booking'[b], b)
  BY <1>1, <1>3 DEF IInv, TypeOK
<1>6. \A x \in Worker : job'[x] # job[x] => job'[x] = Idle
  BY <1>1 DEF IInv, TypeOK
<1>7. Remembers(charges, charges')
  BY <1>1 DEF Remembers
<1>8. QED
  BY <1>1, <1>4, <1>5, <1>6, <1>7, Changed

LEMMA BreakStep ==
    ASSUME IInv, NEW w \in Worker, Break(w)
    PROVE  IInv'
<1>1. job' = [job EXCEPT ![w] = Idle] /\ UNCHANGED <<booking, payment, charges>>
  BY DEF Break, End
<1>2. TypeOK'
  BY <1>1 DEF IInv, TypeOK
<1>3. \A x \in Worker : job'[x] # job[x] => job'[x] = Idle
  BY <1>1 DEF IInv, TypeOK
<1>4. Remembers(charges, charges')
  BY <1>1 DEF Remembers
<1>5. QED
  BY <1>1, <1>2, <1>3, <1>4, Changed

----------------------------------------------------------------------------
(* The steps of the gateway and of the other parts of the system.          *)

LEMMA SettleStep ==
    ASSUME IInv, [Next]_vars, NEW c \in Charge, Settle(c)
    PROVE  IInv'
<1>1. UNCHANGED <<booking, payment, job>>
  BY DEF Settle
<1>2. charges' \in [Charge -> ChargeState]
  BY DEF Settle, IInv, TypeOK, ChargeState
<1>3. TypeOK'
  BY <1>1, <1>2 DEF IInv, TypeOK
<1>4. Remembers(charges, charges')
  BY GatewayRemembers DEF IInv
<1>5. QED
  BY <1>1, <1>3, <1>4, Changed

LEMMA CancelElsewhereStep ==
    ASSUME IInv, NEW b \in Booking, CancelElsewhere(b)
    PROVE  IInv'
<1>1. /\ booking' = [booking EXCEPT ![b].status = "cancelled"]
      /\ UNCHANGED <<payment, charges, job>>
  BY DEF CancelElsewhere
<1>2. booking[b] \in BookingRow
  BY DEF IInv, TypeOK
<1>3. booking'[b].pay = booking[b].pay /\ booking'[b].entered = booking[b].entered
  BY <1>1, <1>2 DEF IInv, TypeOK, BookingRow
<1>4. TypeOK'
  BY <1>1, <1>2 DEF IInv, TypeOK, BookingRow, Status
<1>5. RowBacked(charges', booking'[b], b)
  BY <1>1, <1>3 DEF IInv, RowBacked
<1>6. \A x \in Booking : booking'[x] # booking[x] => RowBacked(charges', booking'[x], x)
  BY <1>1, <1>5 DEF IInv, TypeOK
<1>7. Remembers(charges, charges')
  BY <1>1 DEF Remembers
<1>8. QED
  BY <1>1, <1>4, <1>6, <1>7, Changed

(* Whatever a person enters backs itself.                                  *)
LEMMA EnterStep ==
    ASSUME IInv, NEW b \in Booking, MarkPaid(b) \/ CompleteRefund(b)
    PROVE  IInv'
<1>1. PICK p \in Pay : /\ booking' = [booking EXCEPT ![b].pay = p, ![b].entered = TRUE]
                       /\ UNCHANGED <<payment, charges, job>>
  BY DEF MarkPaid, CompleteRefund, Pay
<1>2. booking[b] \in BookingRow
  BY DEF IInv, TypeOK
<1>3. booking'[b] \in BookingRow /\ booking'[b].entered
  BY <1>1, <1>2 DEF IInv, TypeOK, BookingRow
<1>4. TypeOK'
  BY <1>1, <1>2 DEF IInv, TypeOK, BookingRow
<1>5. \A x \in Booking : booking'[x] # booking[x] => RowBacked(charges', booking'[x], x)
  BY <1>1, <1>3 DEF IInv, TypeOK, RowBacked
<1>6. Remembers(charges, charges')
  BY <1>1 DEF Remembers
<1>7. QED
  BY <1>1, <1>4, <1>5, <1>6, Changed

----------------------------------------------------------------------------
(* The theorems.                                                           *)

LEMMA InitInvariant ==
    Init => IInv
<1> SUFFICES ASSUME Init PROVE IInv
  OBVIOUS
<1>1. TypeOK
  BY DEF Init, TypeOK, NewRow, BookingRow, Pay, Status, ChargeState
<1>2. \A b \in Booking : RowBacked(charges, booking[b], b)
  BY DEF Init, NewRow, RowBacked
<1>3. QED
  BY <1>1, <1>2 DEF Init, IInv

LEMMA StepInvariant ==
    IInv /\ [Next]_vars => IInv'
<1> SUFFICES ASSUME IInv, [Next]_vars PROVE IInv'
  OBVIOUS
<1>1. CASE UNCHANGED vars
  <2>1. UNCHANGED <<booking, payment, charges, job>>
    BY <1>1 DEF vars
  <2>2. TypeOK' /\ Remembers(charges, charges')
    BY <2>1 DEF IInv, TypeOK, Remembers
  <2>3. QED
    BY <2>1, <2>2, Changed
<1>2. ASSUME NEW w \in Worker, WorkerNext(w)
      PROVE  IInv'
  <2>1. CASE \E b \in Booking : Initiate(w, b) \/ AskRefund(w, b) \/ Edit(w, b)
    BY <2>1, InitiateStep, AskRefundStep, EditStep
  <2>2. CASE \E c \in Charge : MakeCharge(w, c) \/ \E b \in Booking : Callback(w, b, c)
    BY <2>2, MakeChargeStep, CallbackStep
  <2>3. CASE StoreCharge(w)
    BY <2>3, StoreStep DEF StoreCharge, Doing
  <2>4. CASE StoreOutcome(w)
    BY <2>4, StoreStep DEF StoreOutcome, Doing
  <2>5. CASE StoreRefund(w)
    <3>1. /\ job[w] # Idle /\ job[w].kind = "refund" /\ job[w].at = "answered"
          /\ StorePayment(job[w]) /\ Advance(w, "stored")
          /\ UNCHANGED <<booking, charges>>
      BY <2>5 DEF StoreRefund, Doing
    <3>2. job[w].status = "refunded"
      BY <3>1 DEF IInv, JobBacked
    <3>3. QED
      BY <3>1, <3>2, StoreStep
  <2>6. CASE SaveInitiated(w) \/ SaveConfirmed(w) \/ SaveCancelled(w) \/ SaveEdited(w)
    BY <2>6, SaveStep DEF SaveInitiated, SaveConfirmed, SaveCancelled, SaveEdited, Doing
  <2>7. CASE LoadBooking(w)
    BY <2>7, LoadBookingStep
  <2>8. CASE ReturnMoney(w)
    BY <2>8, ReturnMoneyStep
  <2>9. CASE Break(w)
    BY <2>9, BreakStep
  <2>10. QED
    BY <1>2, <2>1, <2>2, <2>3, <2>4, <2>5, <2>6, <2>7, <2>8, <2>9 DEF WorkerNext
<1>3. QED
  BY <1>1, <1>2, SettleStep, CancelElsewhereStep, EnterStep DEF Next

(* The inductive invariant holds of every reachable state.                 *)
THEOREM PaymentsInvariance == Spec => []IInv
BY InitInvariant, StepInvariant, PTL DEF Spec

(* The tables and the requests in progress keep their types: no request    *)
(* ever writes a payment without the transaction it was answered with.     *)
THEOREM PaymentsTyped == Spec => []TypeOK
<1>1. IInv => TypeOK
  BY DEF IInv
<1>2. QED
  BY <1>1, PaymentsInvariance, PTL

(* initiate_payment and the webhook mark a booking paid only when a charge *)
(* made for it was captured, whatever ran in between: where the row says   *)
(* paid without such a charge, a person entered that.                      *)
THEOREM PaidMeansCapturedHolds == Spec => []PaidMeansCaptured
<1>1. IInv => PaidMeansCaptured
  BY DEF IInv, RowBacked, PaidIn, PaidMeansCaptured
<1>2. QED
  BY <1>1, PaymentsInvariance, PTL

(* The status of a payment row is true of the very transaction it names,   *)
(* which is the booking's own.                                             *)
THEOREM PaymentBackedHolds == Spec => []PaymentBacked
<1>1. IInv => PaymentBacked
  BY DEF IInv, Backs, PaymentBacked
<1>2. QED
  BY <1>1, PaymentsInvariance, PTL

(* The refund request marks a booking refunded only when the gateway has   *)
(* returned money of a charge made for it: where the row says refunded     *)
(* without that, a person entered it, by a form or at the refund desk.     *)
THEOREM RefundedMeansReturnedHolds == Spec => []RefundedMeansReturned
<1>1. IInv => RefundedMeansReturned
  BY DEF IInv, RowBacked, ReturnedIn, RefundedMeansReturned
<1>2. QED
  BY <1>1, PaymentsInvariance, PTL
=============================================================================
