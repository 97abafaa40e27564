----------------------------- MODULE RefundDesk -----------------------------
(***************************************************************************)
(* What the desk does with a refund that a cancellation has recorded:      *)
(* approve, complete or reject it (BookingRefundDetailView.post).  The     *)
(* request loads the refund and saves it whole; completing it first sets   *)
(* the booking's payment status, then saves the refund, then writes the    *)
(* audit entry, each in a transaction of its own.  No action looks at the  *)
(* status the refund is in.                                                *)
(*                                                                         *)
(* History: marked and finished hold the bookings whose payment status the *)
(* desk has set to refunded, and whose refund was saved as completed, with *)
(* the row they had then.                                                  *)
(***************************************************************************)
CONSTANTS
    Case,           \* keys of bookings
    Clerk,          \* desk requests that may be in progress at the same time
    Absent          \* no row, no request

PayStatus == {"pending", "paid", "refunded"}
RefundStatus == {"pending", "processing", "completed", "failed"}

(* BookingRefund; dated: refund_processed_at is set.                       *)
Refund == [status : RefundStatus, dated : BOOLEAN]

Step == {"booking", "refund", "audit"}

(* A request: the row it will save, whether it found it dated (saw), and   *)
(* its next step.                                                          *)
DeskJob == [key : Case, row : Refund, saw : BOOLEAN, next : Step]

ASSUME AbsentAssumption == Absent \notin Refund \cup DeskJob \cup PayStatus

VARIABLES
    payment_status, \* of each booking; Absent once it is purged
    refund,         \* row of booking_refund
    issued,         \* bookings with an audit entry refund_issued
    clerk,
    marked, finished

deskVars == <<payment_status, refund, issued, clerk, marked, finished>>

DeskTypeOK ==
    /\ payment_status \in [Case -> PayStatus \cup {Absent}]
    /\ refund \in [Case -> Refund \cup {Absent}]
    /\ issued \subseteq Case
    /\ clerk \in [Clerk -> DeskJob \cup {Absent}]
    /\ marked \subseteq Case
    /\ finished \subseteq Case

DeskInit ==
    /\ payment_status \in [Case -> {"pending", "paid"}]
    /\ refund = [b \in Case |-> Absent]
    /\ issued = {}
    /\ clerk = [c \in Clerk |-> Absent]
    /\ marked = {}
    /\ finished = {}

----------------------------------------------------------------------------
(* cancel_booking, BookingRefund.objects.create: one per booking.          *)
RecordRefund(b) ==
    /\ payment_status[b] # Absent /\ refund[b] = Absent
    /\ refund' = [refund EXCEPT ![b] = [status |-> "pending", dated |-> FALSE]]
    /\ UNCHANGED <<payment_status, issued, clerk, marked, finished>>

(* The other ways to the payment status: mark_paid in the admin, a PATCH,  *)
(* the desk's form, a booking saved whole.                                 *)
SetPayment(b, pay) ==
    /\ payment_status[b] # Absent
    /\ payment_status' = [payment_status EXCEPT ![b] = pay]
    /\ UNCHANGED <<refund, issued, clerk, marked, finished>>

(* The purge takes the booking's refund and audit entries with it.         *)
PurgeCase(b) ==
    /\ payment_status[b] # Absent
    /\ payment_status' = [payment_status EXCEPT ![b] = Absent]
    /\ refund' = [refund EXCEPT ![b] = Absent]
    /\ issued' = issued \ {b}
    /\ UNCHANGED <<clerk, marked, finished>>

----------------------------------------------------------------------------
LoadRefund(c, b, row, next) ==
    /\ clerk[c] = Absent
    /\ refund[b] # Absent
    /\ clerk' = [clerk EXCEPT ![c] = [key |-> b, row |-> row,
                                     saw |-> refund[b].dated, next |-> next]]
    /\ UNCHANGED <<payment_status, refund, issued, marked, finished>>

Approve(c, b) == LoadRefund(c, b, [refund[b] EXCEPT !.status = "processing"], "refund")

(* Mutant: a rejected refund is not a processed one.                       *)
Reject_ClearsDate(c, b) ==
    LoadRefund(c, b, [status |-> "failed", dated |-> FALSE], "refund")

Reject(c, b) == LoadRefund(c, b, [refund[b] EXCEPT !.status = "failed"], "refund")

(* Mutant: the refund is saved before the booking.                         *)
Complete_RefundFirst(c, b) ==
    LoadRefund(c, b, [status |-> "completed", dated |-> TRUE], "refund")

Complete(c, b) == LoadRefund(c, b, [status |-> "completed", dated |-> TRUE], "booking")

(* booking.save(update_fields=['payment_status']); without a row to update *)
(* it raises, which is a Drop.                                             *)
MarkRefunded(c) ==
    /\ clerk[c] # Absent /\ clerk[c].next = "booking"
    /\ payment_status[clerk[c].key] # Absent
    /\ payment_status' = [payment_status EXCEPT ![clerk[c].key] = "refunded"]
    /\ marked' = marked \cup {clerk[c].key}
    /\ clerk' = [clerk EXCEPT ![c].next = "refund"]
    /\ UNCHANGED <<refund, issued, finished>>

(* refund.save(): all columns, as a new row if it is gone; a refund of no  *)
(* booking is refused by the database, which is a Drop.                    *)
SaveRefund(c) ==
    LET j == clerk[c] IN
    /\ j # Absent /\ j.next = "refund"
    /\ payment_status[j.key] # Absent
    /\ refund' = [refund EXCEPT ![j.key] = j.row]
    /\ IF j.row.status = "completed"
       THEN /\ finished' = finished \cup {j.key}
            /\ clerk' = [clerk EXCEPT ![c].next = "audit"]
       ELSE /\ clerk' = [clerk EXCEPT ![c] = Absent]
            /\ UNCHANGED finished
    /\ UNCHANGED <<payment_status, issued, marked>>

(* The guest's mail may fail silently; the entry is written after it.      *)
WriteAudit(c) ==
    /\ clerk[c] # Absent /\ clerk[c].next = "audit"
    /\ payment_status[clerk[c].key] # Absent
    /\ issued' = issued \cup {clerk[c].key}
    /\ clerk' = [clerk EXCEPT ![c] = Absent]
    /\ UNCHANGED <<payment_status, refund, marked, finished>>

(* An exception, or the end of the process, between two of these steps.    *)
Drop(c) ==
    /\ clerk[c] # Absent
    /\ clerk' = [clerk EXCEPT ![c] = Absent]
    /\ UNCHANGED <<payment_status, refund, issued, marked, finished>>

DeskNext ==
    \/ \E b \in Case : \/ RecordRefund(b)
                       \/ PurgeCase(b)
                       \/ \E pay \in PayStatus : SetPayment(b, pay)
    \/ \E c \in Clerk :
           \/ \E b \in Case : Approve(c, b) \/ Complete(c, b) \/ Reject(c, b)
           \/ MarkRefunded(c)
           \/ SaveRefund(c)
           \/ WriteAudit(c)
           \/ Drop(c)

DeskSpec == DeskInit /\ [][DeskNext]_deskVars

----------------------------------------------------------------------------
(* Properties.                                                             *)

(* Wherever the three steps of a completion are cut, and whichever other   *)
(* request is between them: a refund that says completed has its date, and *)
(* the payment status of its booking was set before; an audit entry means  *)
(* the refund was completed before.                                        *)
RefundsInOrder ==
    \A b \in Case :
        /\ refund[b] # Absent /\ refund[b].status = "completed" =>
               refund[b].dated /\ b \in marked
        /\ b \in issued => b \in finished

(* The date of a completed refund is lost only with the row, or by a       *)
(* request that loaded the refund before it was completed: no request that *)
(* starts afterwards makes it look as if nobody had refunded anything,     *)
(* although it may set any status.                                         *)
DateLostOnlyByStaleCopies ==
    [][\A b \in Case :
          (/\ refund[b] # Absent /\ refund[b].dated
           /\ refund'[b] # Absent /\ ~refund'[b].dated)
          => \E c \in Clerk : /\ clerk[c] # Absent /\ clerk[c].key = b
                              /\ clerk[c].next = "refund" /\ ~clerk[c].saw]_deskVars
=============================================================================
