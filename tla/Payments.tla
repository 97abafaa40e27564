------------------------------ MODULE Payments ------------------------------
(***************************************************************************)
(* Online payment of bookings through Tap (payments/services.py and        *)
(* payments/views.py): the request that charges a card, the webhook that   *)
(* reports what became of the charge, and the request that refunds it.     *)
(* Each talks to the gateway between a load and a save, and each saves     *)
(* two rows, payment and booking, one after the other.  The gateway        *)
(* delivers a webhook late, twice, or never; an answer may be lost.        *)
(*                                                                         *)
(* Persons write the payment status of a booking as well: the PATCH        *)
(* request, the manager's form, the administrator's mark_paid and the      *)
(* refund desk.  A row remembers whether its payment status was entered in *)
(* one of these ways.                                                      *)
(*                                                                         *)
(* Rows of table payment that a manager types in (cash, bank transfer) are *)
(* not part of it.                                                         *)
(***************************************************************************)
EXTENDS Integers, FiniteSets

CONSTANTS
    Booking,    \* primary keys of table booking
    Charge,     \* identifiers the gateway gives to charges
    Worker,     \* requests that may be in progress at the same time
    Posted,     \* statuses that a form posts; the code's forms offer all of Status
    Idle,       \* the job of a worker that has none
    NoPayment,  \* the payment of a booking that has none
    Nobody,     \* the booking of a charge that was never made
    NoCharge    \* the charge of a request that has not made it yet

Status == {"pending", "confirmed", "cancelled", "completed"}
Pay == {"pending", "paid", "refunded"}

(* entered is no column but history: pay was entered by a person, not by a *)
(* request of payments/views.py.                                           *)
BookingRow == [status : Status, pay : Pay, entered : BOOLEAN]

(* The row of a new booking; also that of a request that has read none yet. *)
NewRow == [status |-> "pending", pay |-> "pending", entered |-> FALSE]

(* The row of table payment; charge is its transaction_id.                 *)
Payment == [charge : Charge,
            status : {"processing", "completed", "failed", "refunded"}]

(* What the gateway knows of a charge; "returned" is refunded in full.     *)
ChargeState == [for : Booking \cup {Nobody},
                state : {"unused", "open", "captured", "failed", "returned"}]

(* A request in progress: the row of the booking as it will save it, and   *)
(* the status it will give the payment.                                    *)
Job == [kind : {"initiate", "webhook", "refund", "edit"},
        at : {"asking", "answered", "stored", "loaded"},
        key : Booking, charge : Charge \cup {NoCharge},
        status : {"processing", "completed", "failed", "refunded"},
        booking : BookingRow]

ASSUME PaymentsAssumption ==
    /\ Idle \notin Job /\ NoPayment \notin Payment
    /\ Nobody \notin Booking /\ NoCharge \notin Charge
    /\ Posted \subseteq Status

VARIABLES
    booking,    \* rows of table booking
    payment,    \* the payment of each booking (OneToOneField)
    charges,    \* the gateway's charges
    job         \* what each worker is doing

vars == <<booking, payment, charges, job>>

TypeOK ==
    /\ booking \in [Booking -> BookingRow]
    /\ payment \in [Booking -> Payment \cup {NoPayment}]
    /\ charges \in [Charge -> ChargeState]
    /\ job \in [Worker -> Job \cup {Idle}]

Init ==
    /\ booking = [b \in Booking |-> NewRow]
    /\ payment = [b \in Booking |-> NoPayment]
    /\ charges = [c \in Charge |-> [for |-> Nobody, state |-> "unused"]]
    /\ job = [w \in Worker |-> Idle]

----------------------------------------------------------------------------

Doing(w, kind, at) == job[w] # Idle /\ job[w].kind = kind /\ job[w].at = at

Advance(w, at) == job' = [job EXCEPT ![w].at = at]

End(w) == job' = [job EXCEPT ![w] = Idle]

(* payment.save(): every column, the transaction_id included.              *)
StorePayment(j) ==
    payment' = [payment EXCEPT ![j.key] = [charge |-> j.charge, status |-> j.status]]

(* booking.save(): every column of the copy.                               *)
SaveBooking(w) ==
    /\ booking' = [booking EXCEPT ![job[w].key] = job[w].booking]
    /\ End(w)
    /\ UNCHANGED <<payment, charges>>

----------------------------------------------------------------------------
(* The gateway (external).                                                 *)

(* The customer completes an open charge, or does not.                     *)
Settle(c) ==
    /\ charges[c].state = "open"
    /\ \E s \in {"captured", "failed"} : charges' = [charges EXCEPT ![c].state = s]
    /\ UNCHANGED <<booking, payment, job>>

----------------------------------------------------------------------------
(* POST /payments/initiate/                                                *)

(* Mutant: a status no request of this module writes.                      *)
PaymentStatus_Pending(state) ==
    CASE state = "captured" -> "completed"
      [] state = "open" -> "pending"
      [] state = "failed" -> "failed"

(* status CHARGED or COMPLETED, INITIATED or PENDING, anything else.       *)
PaymentStatus(state) ==
    CASE state = "captured" -> "completed"
      [] state = "open" -> "processing"
      [] state = "failed" -> "failed"

(* Mutant: a charge that is still in progress counts as paid.              *)
AfterCharge_Optimistic(r, status) ==
    [r EXCEPT !.entered = FALSE,
              !.pay = IF status # "failed" THEN "paid" ELSE "pending",
              !.status = IF status # "failed" THEN "confirmed" ELSE @]

(* What the view makes of the booking once the charge is stored.           *)
AfterCharge(r, status) ==
    [r EXCEPT !.entered = FALSE,
              !.pay = IF status = "completed" THEN "paid" ELSE "pending",
              !.status = IF status = "completed" THEN "confirmed" ELSE @]

(* The booking is loaded; neither its status nor its payment is looked at. *)
(* The payment status of the copy is always set before it is saved, so the *)
(* copy need not keep it.                                                  *)
Initiate(w, b) ==
    /\ job[w] = Idle
    /\ job' = [job EXCEPT ![w] =
         [kind |-> "initiate", at |-> "asking", key |-> b, charge |-> NoCharge,
          status |-> "processing",
          booking |-> [NewRow EXCEPT !.status = booking[b].status]]]
    /\ UNCHANGED <<booking, payment, charges>>

(* The charge is made under an Idempotency-Key drawn anew: for the gateway *)
(* every request is a charge of its own.                                   *)
MakeCharge(w, c) ==
    /\ Doing(w, "initiate", "asking")
    /\ charges[c].state = "unused"
    /\ \E s \in {"open", "captured", "failed"} :
         /\ charges' = [charges EXCEPT ![c] = [for |-> job[w].key, state |-> s]]
         /\ job' = [job EXCEPT ![w] =
              [job[w] EXCEPT !.at = "answered", !.charge = c, !.status = PaymentStatus(s),
                             !.booking = AfterCharge(job[w].booking, PaymentStatus(s))]]
    /\ UNCHANGED <<booking, payment>>

(* Payment.objects.update_or_create; a refused charge ends the request.    *)
StoreCharge(w) ==
    /\ Doing(w, "initiate", "answered")
    /\ StorePayment(job[w])
    /\ IF job[w].status = "failed" THEN End(w) ELSE Advance(w, "stored")
    /\ UNCHANGED <<booking, charges>>

SaveInitiated(w) ==
    /\ Doing(w, "initiate", "stored")
    /\ SaveBooking(w)

----------------------------------------------------------------------------
(* POST /payments/callback/                                                *)

(* Mutant: the payment is looked up by the booking of the event alone.     *)
Callback_AnyCharge(w, b, c) ==
    /\ job[w] = Idle
    /\ charges[c].state \in {"captured", "returned", "failed"}
    /\ payment[b] # NoPayment
    /\ job' = [job EXCEPT ![w] =
         [kind |-> "webhook", at |-> "answered", key |-> b, charge |-> c,
          status |-> IF charges[c].state = "failed" THEN "failed" ELSE "completed",
          booking |-> NewRow]]
    /\ UNCHANGED <<booking, payment, charges>>

(* The event of charge c, whenever and however often it arrives, finds the *)
(* payment with that transaction_id.  Without one it is acknowledged and   *)
(* forgotten, which changes nothing.                                       *)
Callback(w, b, c) ==
    /\ job[w] = Idle
    /\ charges[c].state \in {"captured", "returned", "failed"}
    /\ payment[b] # NoPayment /\ payment[b].charge = c
    /\ job' = [job EXCEPT ![w] =
         [kind |-> "webhook", at |-> "answered", key |-> b, charge |-> c,
          status |-> IF charges[c].state = "failed" THEN "failed" ELSE "completed",
          booking |-> NewRow]]
    /\ UNCHANGED <<booking, payment, charges>>

(* The payment is saved; for a captured charge the booking comes next.     *)
StoreOutcome(w) ==
    /\ Doing(w, "webhook", "answered")
    /\ StorePayment(job[w])
    /\ IF job[w].status = "failed" THEN End(w) ELSE Advance(w, "stored")
    /\ UNCHANGED <<booking, charges>>

(* payment.booking is read, and marked paid and confirmed whatever it is.  *)
LoadBooking(w) ==
    /\ Doing(w, "webhook", "stored")
    /\ job' = [job EXCEPT ![w].at = "loaded",
                          ![w].booking = [status |-> "confirmed", pay |-> "paid",
                                          entered |-> FALSE]]
    /\ UNCHANGED <<booking, payment, charges>>

SaveConfirmed(w) ==
    /\ Doing(w, "webhook", "loaded")
    /\ SaveBooking(w)

----------------------------------------------------------------------------
(* POST /payments/<id>/refund/                                             *)

(* The payment is completed and its booking can be cancelled.  Both rows   *)
(* are loaded here and saved after the gateway has answered.               *)
AskRefund(w, b) ==
    /\ job[w] = Idle
    /\ payment[b] # NoPayment /\ payment[b].status = "completed"
    /\ booking[b].status \notin {"cancelled", "completed"}
    /\ job' = [job EXCEPT ![w] =
         [kind |-> "refund", at |-> "asking", key |-> b, charge |-> payment[b].charge,
          status |-> "refunded",
          booking |-> [status |-> "cancelled", pay |-> "refunded", entered |-> FALSE]]]
    /\ UNCHANGED <<booking, payment, charges>>

(* Mutant: the answer of the gateway is not looked at.                     *)
ReturnMoney_Unchecked(w) ==
    /\ Doing(w, "refund", "asking")
    /\ Advance(w, "answered")
    /\ UNCHANGED <<booking, payment, charges>>

(* The gateway returns the money of a captured charge, once.               *)
ReturnMoney(w) ==
    /\ Doing(w, "refund", "asking")
    /\ charges[job[w].charge].state = "captured"
    /\ charges' = [charges EXCEPT ![job[w].charge].state = "returned"]
    /\ Advance(w, "answered")
    /\ UNCHANGED <<booking, payment>>

StoreRefund(w) ==
    /\ Doing(w, "refund", "answered")
    /\ StorePayment(job[w])
    /\ Advance(w, "stored")
    /\ UNCHANGED <<booking, charges>>

SaveCancelled(w) ==
    /\ Doing(w, "refund", "stored")
    /\ SaveBooking(w)

----------------------------------------------------------------------------

(* A timeout, a refusal of the gateway, a failed save, the end of the      *)
(* process: what was done before stays, at the gateway too.                *)
Break(w) ==
    /\ job[w] # Idle
    /\ End(w)
    /\ UNCHANGED <<booking, payment, charges>>

----------------------------------------------------------------------------
(* The other writers of a booking.                                         *)

(* The row with a payment status as a person left it on a form.            *)
Entered(r, status, pay) ==
    [status |-> status, pay |-> pay,
     entered |-> pay # "pending" /\ (pay = r.pay => r.entered)]

(* A request of another part that loads the booking and saves all of it    *)
(* later: PATCH and the manager's form may post any payment status with    *)
(* any status, confirm_booking and cancel_booking change the status only.  *)
Edit(w, b) ==
    /\ job[w] = Idle
    /\ \E s \in Posted, p \in Pay :
         job' = [job EXCEPT ![w] =
           [kind |-> "edit", at |-> "loaded", key |-> b, charge |-> NoCharge,
            status |-> "processing", booking |-> Entered(booking[b], s, p)]]
    /\ UNCHANGED <<booking, payment, charges>>

SaveEdited(w) ==
    /\ Doing(w, "edit", "loaded")
    /\ SaveBooking(w)

(* The booking is cancelled by a statement: the expiry job, mark_cancelled.*)
CancelElsewhere(b) ==
    /\ booking[b].status \in {"pending", "confirmed"}
    /\ booking' = [booking EXCEPT ![b].status = "cancelled"]
    /\ UNCHANGED <<payment, charges, job>>

(* The administrator's action, one statement on the rows selected.         *)
MarkPaid(b) ==
    /\ booking[b].pay = "pending"
    /\ booking' = [booking EXCEPT ![b].pay = "paid", ![b].entered = TRUE]
    /\ UNCHANGED <<payment, charges, job>>

(* The refund desk completes a refund: save(update_fields=['payment_status']) *)
(* of the refund's booking, with nothing asked of the gateway.             *)
CompleteRefund(b) ==
    /\ booking' = [booking EXCEPT ![b].pay = "refunded", ![b].entered = TRUE]
    /\ UNCHANGED <<payment, charges, job>>

WorkerNext(w) ==
    \/ \E b \in Booking : Initiate(w, b) \/ AskRefund(w, b) \/ Edit(w, b)
    \/ \E c \in Charge : MakeCharge(w, c) \/ \E b \in Booking : Callback(w, b, c)
    \/ StoreCharge(w)
    \/ SaveInitiated(w)
    \/ StoreOutcome(w)
    \/ LoadBooking(w)
    \/ SaveConfirmed(w)
    \/ ReturnMoney(w)
    \/ StoreRefund(w)
    \/ SaveCancelled(w)
    \/ SaveEdited(w)
    \/ Break(w)

Next ==
    \/ \E w \in Worker : WorkerNext(w)
    \/ \E c \in Charge : Settle(c)
    \/ \E b \in Booking : CancelElsewhere(b) \/ MarkPaid(b) \/ CompleteRefund(b)

Spec == Init /\ [][Next]_vars

----------------------------------------------------------------------------
(* Properties.                                                             *)

(* A booking marked paid was paid, unless a person entered that: a charge  *)
(* made for it was captured.  Copies of any age are saved by requests of   *)
(* both kinds and carry what was paid, or entered, when they were loaded.  *)
PaidMeansCaptured ==
    \A b \in Booking :
        booking[b].pay = "paid" /\ ~booking[b].entered =>
            \E c \in Charge : charges[c].for = b /\ charges[c].state \in {"captured", "returned"}

(* The payment's own transaction backs its status: a completed payment     *)
(* names a charge that was captured, a refunded one a charge whose money   *)
(* went back, and neither names another booking's charge, although charge  *)
(* and status are written together by requests with copies of any age.     *)
PaymentBacked ==
    \A b \in Booking : payment[b] # NoPayment =>
        LET c == charges[payment[b].charge]
        IN  /\ c.for = b
            /\ payment[b].status = "completed" => c.state \in {"captured", "returned"}
            /\ payment[b].status = "refunded" => c.state = "returned"

(* A booking marked refunded, unless a person entered that, has had money  *)
(* returned for it by the gateway.                                         *)
RefundedMeansReturned ==
    \A b \in Booking :
        booking[b].pay = "refunded" /\ ~booking[b].entered =>
            \E c \in Charge : charges[c].for = b /\ charges[c].state = "returned"

(* A guest is not charged twice for one booking: the "idempotency" that    *)
(* services.py:24 lists, for a request that is made twice.                 *)
ChargedOnce ==
    \A b \in Booking :
        Cardinality({c \in Charge : charges[c].for = b /\ charges[c].state = "captured"}) <= 1
=============================================================================
