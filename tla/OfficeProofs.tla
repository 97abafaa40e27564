---------------------------- MODULE OfficeProofs ----------------------------
(***************************************************************************)
(* For any bookings, requests, tasks, clerks, offers and rooms: refunds    *)
(* complete in order, what a guest was told of a mail stays true and the   *)
(* mails are bounded, the two readings of an offer agree, and so do the    *)
(* search of rooms and the reservation.  The four components of MCOffice,  *)
(* one after the other.                                                    *)
(***************************************************************************)
EXTENDS MCOffice, TLAPS

----------------------------------------------------------------------------
(* The refund desk.                                                        *)

(* What a clerk's request is about to do was prepared by its earlier steps.*)
ClerkHolds(j) ==
    /\ j.row.status = "completed" => j.row.dated
    /\ j.saw => j.row.dated
    /\ j.next \in {"refund", "audit"} /\ j.row.status = "completed" => j.key \in marked
    /\ j.next = "audit" => j.key \in finished

DInv ==
    /\ DeskTypeOK
    /\ RefundsInOrder
    /\ \A c \in Clerk : clerk[c] # Absent => ClerkHolds(clerk[c])

LEMMA ClerkTypes ==
    ASSUME DeskTypeOK, NEW c \in Clerk, clerk[c] # Absent
    PROVE  /\ clerk[c] \in DeskJob /\ clerk[c].key \in Case /\ clerk[c].row \in Refund
           /\ clerk[c].row.status \in RefundStatus /\ clerk[c].row.dated \in BOOLEAN
           /\ clerk[c].row # Absent /\ clerk[c].saw \in BOOLEAN /\ clerk[c].next \in Step
  BY AbsentAssumption DEF DeskTypeOK, DeskJob, Refund

LEMMA DInvInit == DeskInit => DInv
  BY DEF DeskInit, DInv, DeskTypeOK, RefundsInOrder, PayStatus

(* The requests when nothing they rely on has been taken back.             *)
LEMMA ClerksGoOn ==
    ASSUME DInv, DeskTypeOK', RefundsInOrder', marked \subseteq marked', finished \subseteq finished',
           \A c \in Clerk : clerk'[c] # Absent => clerk'[c] = clerk[c] \/ ClerkHolds(clerk[c])'
    PROVE  DInv'
<1>1. ASSUME NEW c \in Clerk, clerk'[c] # Absent PROVE ClerkHolds(clerk[c])'
  BY <1>1 DEF DInv, ClerkHolds
<1>2. QED
  BY <1>1 DEF DInv

LEMMA LoadRefundStep ==
    ASSUME DInv, NEW c \in Clerk, NEW b \in Case, NEW row \in Refund, NEW next \in Step,
           refund[b] # Absent => /\ row.status = "completed" => row.dated /\ next = "booking"
                                 /\ refund[b].dated => row.dated
                                 /\ next # "audit",
           LoadRefund(c, b, row, next)
    PROVE  DInv'
<1> DEFINE j == [key |-> b, row |-> row, saw |-> refund[b].dated, next |-> next]
<1>1. /\ refund[b] # Absent /\ clerk' = [clerk EXCEPT ![c] = j]
      /\ UNCHANGED <<payment_status, refund, issued, marked, finished>>
  BY DEF LoadRefund
<1>2. refund[b] \in Refund /\ refund[b].dated \in BOOLEAN
  BY <1>1 DEF DInv, DeskTypeOK, Refund
<1>3. j \in DeskJob
  BY <1>2 DEF DeskJob
<1>4. DeskTypeOK' /\ RefundsInOrder'
  BY <1>1, <1>3 DEF DInv, DeskTypeOK, RefundsInOrder
<1>5. /\ j.row = row /\ j.saw = refund[b].dated /\ j.next = next /\ j.key = b
  OBVIOUS
<1>6. ASSUME NEW d \in Clerk, clerk'[d] # Absent
      PROVE  clerk'[d] = clerk[d] \/ ClerkHolds(clerk[d])'
  <2>1. CASE d # c
    BY <2>1, <1>1 DEF DInv, DeskTypeOK
  <2>2. CASE d = c
    <3>1. clerk'[d] = j
      BY <2>2, <1>1 DEF DInv, DeskTypeOK
    <3> HIDE DEF j
    <3>2. QED
      BY <3>1, <1>1, <1>5 DEF ClerkHolds
  <2>3. QED
    BY <2>1, <2>2
<1>7. QED
  BY <1>1, <1>4, <1>6, ClerksGoOn

LEMMA DInvNext == DInv /\ [DeskNext]_deskVars => DInv'
<1> SUFFICES ASSUME DInv, [DeskNext]_deskVars PROVE DInv'
  OBVIOUS
<1>1. ASSUME NEW b \in Case, RecordRefund(b) PROVE DInv'
  <2>1. DeskTypeOK' /\ RefundsInOrder'
    BY <1>1 DEF RecordRefund, DInv, DeskTypeOK, RefundsInOrder, Refund, RefundStatus
  <2>2. QED
    BY <2>1, <1>1, ClerksGoOn DEF RecordRefund
<1>2. ASSUME NEW b \in Case, NEW pay \in PayStatus, SetPayment(b, pay) PROVE DInv'
  <2>1. DeskTypeOK' /\ RefundsInOrder'
    BY <1>2 DEF SetPayment, DInv, DeskTypeOK, RefundsInOrder
  <2>2. QED
    BY <2>1, <1>2, ClerksGoOn DEF SetPayment
<1>3. ASSUME NEW b \in Case, PurgeCase(b) PROVE DInv'
  <2>1. DeskTypeOK' /\ RefundsInOrder'
    BY <1>3 DEF PurgeCase, DInv, DeskTypeOK, RefundsInOrder
  <2>2. QED
    BY <2>1, <1>3, ClerksGoOn DEF PurgeCase
<1>4. ASSUME NEW c \in Clerk, NEW b \in Case, Approve(c, b) \/ Complete(c, b) \/ Reject(c, b)
      PROVE  DInv'
  <2>1. refund[b] # Absent => refund[b] \in Refund
    BY DEF DInv, DeskTypeOK
  <2>2. refund[b] # Absent
    BY <1>4 DEF Approve, Complete, Reject, LoadRefund
  <2>3. CASE Approve(c, b)
    <3> DEFINE row == [refund[b] EXCEPT !.status = "processing"]
    <3>1. row \in Refund /\ row.status = "processing" /\ row.dated = refund[b].dated
      BY <2>1, <2>2 DEF Refund, RefundStatus
    <3>2. LoadRefund(c, b, row, "refund") /\ "refund" \in Step
      BY <2>3 DEF Approve, Step
    <3> HIDE DEF row
    <3>3. QED
      BY <3>1, <3>2, LoadRefundStep
  <2>4. CASE Reject(c, b)
    <3> DEFINE row == [refund[b] EXCEPT !.status = "failed"]
    <3>1. row \in Refund /\ row.status = "failed" /\ row.dated = refund[b].dated
      BY <2>1, <2>2 DEF Refund, RefundStatus
    <3>2. LoadRefund(c, b, row, "refund") /\ "refund" \in Step
      BY <2>4 DEF Reject, Step
    <3> HIDE DEF row
    <3>3. QED
      BY <3>1, <3>2, LoadRefundStep
  <2>5. CASE Complete(c, b)
    <3> DEFINE row == [status |-> "completed", dated |-> TRUE]
    <3>1. row \in Refund /\ row.dated = TRUE
      BY DEF Refund, RefundStatus
    <3>2. LoadRefund(c, b, row, "booking") /\ "booking" \in Step
      BY <2>5 DEF Complete, Step
    <3> HIDE DEF row
    <3>3. QED
      BY <3>1, <3>2, LoadRefundStep
  <2>6. QED
    BY <1>4, <2>3, <2>4, <2>5
<1>5. ASSUME NEW c \in Clerk, MarkRefunded(c) PROVE DInv'
  <2> DEFINE j == clerk[c]
  <2>1. /\ j # Absent /\ payment_status' = [payment_status EXCEPT ![j.key] = "refunded"]
        /\ marked' = marked \cup {j.key} /\ clerk' = [clerk EXCEPT ![c] = [j EXCEPT !.next = "refund"]]
        /\ UNCHANGED <<refund, issued, finished>>
    BY <1>5 DEF MarkRefunded
  <2>2. /\ j \in DeskJob /\ j.key \in Case /\ ClerkHolds(j)
    BY <2>1, ClerkTypes DEF DInv
  <2>3. [j EXCEPT !.next = "refund"] \in DeskJob
    BY <2>2 DEF DeskJob, Step
  <2>4. DeskTypeOK' /\ RefundsInOrder'
    BY <2>1, <2>2, <2>3 DEF DInv, DeskTypeOK, RefundsInOrder, PayStatus
  <2>5. clerk'[c] = [j EXCEPT !.next = "refund"] /\ \A d \in Clerk : d # c => clerk'[d] = clerk[d]
    BY <2>1 DEF DInv, DeskTypeOK
  <2>6. /\ clerk'[c].key = j.key /\ clerk'[c].row = j.row /\ clerk'[c].saw = j.saw
        /\ clerk'[c].next = "refund"
    BY <2>2, <2>5 DEF DeskJob
  <2>7. ClerkHolds(clerk[c])'
    BY <2>1, <2>2, <2>6 DEF ClerkHolds
  <2>8. QED
    BY <2>1, <2>4, <2>5, <2>7, ClerksGoOn
<1>6. ASSUME NEW c \in Clerk, SaveRefund(c) PROVE DInv'
  <2> DEFINE j == clerk[c]
  <2>1. /\ j # Absent /\ j.next = "refund" /\ refund' = [refund EXCEPT ![j.key] = j.row]
        /\ UNCHANGED <<payment_status, issued, marked>>
    BY <1>6 DEF SaveRefund
  <2>2. /\ j \in DeskJob /\ j.key \in Case /\ j.row \in Refund /\ j.row # Absent /\ ClerkHolds(j)
    BY <2>1, ClerkTypes DEF DInv
  <2>3. CASE j.row.status = "completed"
    <3>1. finished' = finished \cup {j.key} /\ clerk' = [clerk EXCEPT ![c] = [j EXCEPT !.next = "audit"]]
      BY <2>3, <1>6 DEF SaveRefund
    <3>2. [j EXCEPT !.next = "audit"] \in DeskJob
      BY <2>2 DEF DeskJob, Step
    <3>3. DeskTypeOK'
      BY <2>1, <2>2, <3>1, <3>2 DEF DInv, DeskTypeOK
    <3>4. RefundsInOrder'
      BY <2>1, <2>2, <2>3, <3>1 DEF DInv, DeskTypeOK, RefundsInOrder, ClerkHolds
    <3>5. clerk'[c] = [j EXCEPT !.next = "audit"] /\ \A d \in Clerk : d # c => clerk'[d] = clerk[d]
      BY <3>1 DEF DInv, DeskTypeOK
    <3>6. /\ clerk'[c].key = j.key /\ clerk'[c].row = j.row /\ clerk'[c].saw = j.saw
          /\ clerk'[c].next = "audit"
      BY <2>2, <3>5 DEF DeskJob
    <3>7. ClerkHolds(clerk[c])'
      BY <2>1, <2>2, <3>1, <3>6 DEF ClerkHolds
    <3>8. QED
      BY <2>1, <3>1, <3>3, <3>4, <3>5, <3>7, ClerksGoOn
  <2>4. CASE j.row.status # "completed"
    <3>1. finished' = finished /\ clerk' = [clerk EXCEPT ![c] = Absent]
      BY <2>4, <1>6 DEF SaveRefund
    <3>2. DeskTypeOK' /\ RefundsInOrder'
      BY <2>1, <2>2, <2>4, <3>1 DEF DInv, DeskTypeOK, RefundsInOrder
    <3>3. \A d \in Clerk : clerk'[d] # Absent => clerk'[d] = clerk[d]
      BY <3>1 DEF DInv, DeskTypeOK
    <3>4. QED
      BY <2>1, <3>1, <3>2, <3>3, ClerksGoOn
  <2>5. QED
    BY <2>3, <2>4
<1>7. ASSUME NEW c \in Clerk, WriteAudit(c) PROVE DInv'
  <2>1. /\ clerk[c] # Absent /\ clerk[c].next = "audit" /\ issued' = issued \cup {clerk[c].key}
        /\ clerk' = [clerk EXCEPT ![c] = Absent]
        /\ UNCHANGED <<payment_status, refund, marked, finished>>
    BY <1>7 DEF WriteAudit
  <2>2. clerk[c].key \in Case /\ clerk[c].key \in finished
    BY <2>1, ClerkTypes DEF DInv, ClerkHolds
  <2>3. DeskTypeOK' /\ RefundsInOrder'
    BY <2>1, <2>2 DEF DInv, DeskTypeOK, RefundsInOrder
  <2>4. \A d \in Clerk : clerk'[d] # Absent => clerk'[d] = clerk[d]
    BY <2>1 DEF DInv, DeskTypeOK
  <2>5. QED
    BY <2>1, <2>3, <2>4, ClerksGoOn
<1>8. ASSUME NEW c \in Clerk, Drop(c) PROVE DInv'
  <2>1. /\ clerk' = [clerk EXCEPT ![c] = Absent]
        /\ UNCHANGED <<payment_status, refund, issued, marked, finished>>
    BY <1>8 DEF Drop
  <2>2. DeskTypeOK' /\ RefundsInOrder'
    BY <2>1 DEF DInv, DeskTypeOK, RefundsInOrder
  <2>3. \A d \in Clerk : clerk'[d] # Absent => clerk'[d] = clerk[d]
    BY <2>1 DEF DInv, DeskTypeOK
  <2>4. QED
    BY <2>1, <2>2, <2>3, ClerksGoOn
<1>9. CASE UNCHANGED deskVars
  BY <1>9 DEF DInv, DeskTypeOK, RefundsInOrder, ClerkHolds, deskVars
<1>10. QED
  BY <1>1, <1>2, <1>3, <1>4, <1>5, <1>6, <1>7, <1>8, <1>9 DEF DeskNext

(* A completed refund has its date and was preceded by the booking's       *)
(* payment status, an audit entry by the completion (manager/views_cbv     *)
(* 1718).                                                                  *)
THEOREM RefundsComplete == DeskSpec => []RefundsInOrder
<1>1. DInv => RefundsInOrder
  BY DEF DInv
<1>2. QED
  BY DInvInit, DInvNext, <1>1, PTL DEF DeskSpec

(* Only a request that was open before the completion takes back its date. *)
THEOREM DatesLostByStaleCopies == DeskSpec => DateLostOnlyByStaleCopies
<1> DEFINE Kept == \A b \in Case :
          (/\ refund[b] # Absent /\ refund[b].dated
           /\ refund'[b] # Absent /\ ~refund'[b].dated)
          => \E c \in Clerk : /\ clerk[c] # Absent /\ clerk[c].key = b
                              /\ clerk[c].next = "refund" /\ ~clerk[c].saw
<1>1. DInv /\ [DeskNext]_deskVars => [Kept]_deskVars
  <2> SUFFICES ASSUME DInv, DeskNext, NEW b \in Case,
                      refund[b] # Absent, refund[b].dated, refund'[b] # Absent, ~refund'[b].dated
               PROVE  \E c \in Clerk : /\ clerk[c] # Absent /\ clerk[c].key = b
                                       /\ clerk[c].next = "refund" /\ ~clerk[c].saw
    OBVIOUS
  <2>1. refund'[b] # refund[b] /\ refund \in [Case -> Refund \cup {Absent}]
    BY DEF DInv, DeskTypeOK
  <2>2. ASSUME NEW d \in Case, RecordRefund(d) \/ PurgeCase(d) \/ \E pay \in PayStatus : SetPayment(d, pay)
        PROVE  FALSE
    BY <2>1, <2>2 DEF RecordRefund, PurgeCase, SetPayment
  <2>3. ASSUME NEW c \in Clerk, \E d \in Case : Approve(c, d) \/ Complete(c, d) \/ Reject(c, d)
        PROVE  FALSE
    BY <2>1, <2>3 DEF Approve, Complete, Reject, LoadRefund
  <2>4. ASSUME NEW c \in Clerk, MarkRefunded(c) \/ WriteAudit(c) \/ Drop(c) PROVE FALSE
    BY <2>1, <2>4 DEF MarkRefunded, WriteAudit, Drop
  <2>5. PICK c \in Clerk : SaveRefund(c)
    BY <2>2, <2>3, <2>4 DEF DeskNext
  <2>6. /\ clerk[c] # Absent /\ clerk[c].next = "refund"
        /\ refund' = [refund EXCEPT ![clerk[c].key] = clerk[c].row]
    BY <2>5 DEF SaveRefund
  <2>7. clerk[c].key = b /\ ~clerk[c].row.dated
    BY <2>1, <2>6
  <2>8. ~clerk[c].saw
    BY <2>6, <2>7 DEF DInv, ClerkHolds
  <2>9. QED
    BY <2>6, <2>7, <2>8
<1>2. QED
  BY DInvInit, DInvNext, <1>1, PTL DEF DeskSpec, DateLostOnlyByStaleCopies

----------------------------------------------------------------------------
(* The mails: types.                                                       *)

LEMMA RequestTypes ==
    ASSUME MailRowsOK, NEW w \in Worker, request[w] # Nil
    PROVE  /\ request[w] \in Request /\ request[w].op \in Op /\ request[w].at \in Stage
           /\ request[w].key \in Booking /\ request[w].was \in Status
           /\ KindOf(request[w].op) \in Kind
  BY DEF MailRowsOK, Request, KindOf, Kind

LEMMA TaskTypes ==
    ASSUME MailRowsOK, NEW t \in Task, Queued(t)
    PROVE  /\ task[t] \in Message /\ task[t].key \in Booking /\ task[t].kind \in Kind
           /\ task[t].tries \in 0..MaxRetries /\ task[t] # Nil /\ task[t] # Ended
  BY NilAssumption DEF Queued, Message

LEMMA Delivered ==
    ASSUME MailRowsOK, NEW b \in Booking, NEW k \in Kind, Deliver(b, k)
    PROVE  /\ delivered' \in [Booking -> [Kind -> Nat]]
           /\ \A c \in Booking, l \in Kind :
                  delivered'[c][l] = IF c = b /\ l = k THEN delivered[c][l] + 1 ELSE delivered[c][l]
<1>1. delivered' = [delivered EXCEPT ![b] = [delivered[b] EXCEPT ![k] = delivered[b][k] + 1]]
  BY DEF Deliver
<1>2. [delivered[b] EXCEPT ![k] = delivered[b][k] + 1] \in [Kind -> Nat]
  BY DEF MailRowsOK
<1>3. QED
  BY <1>1, <1>2 DEF MailRowsOK

LEMMA Replied ==
    ASSUME MailRowsOK, NEW w \in Worker, request[w] # Nil, NEW a \in Answer, Reply(w, a)
    PROVE  /\ answers' \in [Booking -> [Kind -> SUBSET Answer]]
           /\ \A c \in Booking, l \in Kind : answers'[c][l] =
                  IF c = request[w].key /\ l = KindOf(request[w].op)
                  THEN answers[c][l] \cup {a} ELSE answers[c][l]
           /\ request' = [request EXCEPT ![w] = Nil]
<1> DEFINE b == request[w].key
           k == KindOf(request[w].op)
<1>1. b \in Booking /\ k \in Kind
  BY RequestTypes
<1>2. /\ answers' = [answers EXCEPT ![b] = [answers[b] EXCEPT ![k] = answers[b][k] \cup {a}]]
      /\ request' = [request EXCEPT ![w] = Nil]
  BY DEF Reply
<1> HIDE DEF b, k
<1>3. [answers[b] EXCEPT ![k] = answers[b][k] \cup {a}] \in [Kind -> SUBSET Answer]
  BY <1>1 DEF MailRowsOK
<1>4. /\ answers' \in [Booking -> [Kind -> SUBSET Answer]]
      /\ \A c \in Booking, l \in Kind : answers'[c][l] =
             IF c = b /\ l = k THEN answers[c][l] \cup {a} ELSE answers[c][l]
  BY <1>1, <1>2, <1>3 DEF MailRowsOK
<1>5. QED
  BY <1>2, <1>4 DEF b, k

LEMMA Answers == {"sent", "queued", "failed", "no mail", "error"} \subseteq Answer
  BY DEF Answer

----------------------------------------------------------------------------
(* The mails: what was told, and how many.                                 *)

Making(w, b) == request[w] # Nil /\ request[w].op = "create" /\ request[w].key = b

Confirming(t, b) == Queued(t) /\ task[t].kind = "confirmation" /\ task[t].key = b

Confirmed(b) == delivered[b]["confirmation"]

(* At most one request or one task is at work on a booking's confirmation, *)
(* and each has had as many attempts as it says.                           *)
OneMaker(b) ==
    /\ status[b] = "none" => /\ Confirmed(b) = 0
                             /\ \A w \in Worker : ~Making(w, b)
                             /\ \A t \in Task : ~Confirming(t, b)
    /\ \A w \in Worker : Making(w, b) =>
           /\ request[w].at \in {"changed", "unsent"}
           /\ \A v \in Worker : Making(v, b) => v = w
           /\ \A t \in Task : ~Confirming(t, b)
           /\ Confirmed(b) <= IF request[w].at = "changed" THEN 0 ELSE 1
    /\ \A t \in Task : Confirming(t, b) =>
           /\ \A s \in Task : Confirming(s, b) => s = t
           /\ Confirmed(b) <= 1 + task[t].tries
    /\ Confirmed(b) <= MaxRetries + 2

MInv ==
    /\ MailRowsOK
    /\ AnswerKept
    /\ \A b \in Booking : OneMaker(b)

LEMMA Attempts == MaxRetries \in Nat /\ "confirmation" \in Kind /\ "cancellation" \in Kind
  BY NotificationsAssumption DEF Kind

LEMMA MInvInit == MailInit => MInv
<1> SUFFICES ASSUME MailInit PROVE MInv
  OBVIOUS
<1>1. MailRowsOK
  BY DEF MailInit, MailRowsOK, Status
<1>2. \A t \in Task : ~Queued(t)
  BY NilAssumption DEF MailInit, Queued
<1>3. AnswerKept
  BY DEF MailInit, AnswerKept
<1>4. \A b \in Booking : OneMaker(b)
  BY <1>2, Attempts DEF MailInit, OneMaker, Making, Confirming, Confirmed
<1>5. QED
  BY <1>1, <1>3, <1>4 DEF MInv

(* What was told stays true.                                               *)
LEMMA AnswersStay ==
    ASSUME MInv, MailRowsOK',
           \A b \in Booking, k \in Kind :
               /\ delivered'[b][k] >= delivered[b][k]
               /\ "sent" \in answers'[b][k] => "sent" \in answers[b][k] \/ delivered'[b][k] > 0
               /\ "queued" \in answers'[b][k] =>
                     \/ "queued" \in answers[b][k]
                     \/ \E t \in Task : Queued(t)' /\ task'[t].key = b /\ task'[t].kind = k,
           \A t \in Task : Queued(t) =>
               \/ Queued(t)' /\ task'[t].key = task[t].key /\ task'[t].kind = task[t].kind
               \/ delivered'[task[t].key][task[t].kind] > 0
               \/ <<task[t].key, task[t].kind>> \in given',
           given \subseteq given'
    PROVE  AnswerKept'
<1> SUFFICES ASSUME NEW b \in Booking, NEW k \in Kind
             PROVE  /\ "sent" \in answers'[b][k] => delivered'[b][k] > 0
                    /\ "queued" \in answers'[b][k] =>
                          \/ delivered'[b][k] > 0
                          \/ \E t \in Task : Queued(t)' /\ task'[t].key = b /\ task'[t].kind = k
                          \/ <<b, k>> \in given'
  BY DEF AnswerKept
<1>1. delivered[b][k] \in Nat /\ delivered'[b][k] \in Nat
  BY DEF MInv, MailRowsOK
<1>2. "sent" \in answers[b][k] => delivered[b][k] > 0
  BY DEF MInv, AnswerKept
<1>3. "queued" \in answers[b][k] =>
          \/ delivered[b][k] > 0
          \/ \E t \in Task : Queued(t) /\ task[t].key = b /\ task[t].kind = k
          \/ <<b, k>> \in given
  BY DEF MInv, AnswerKept
<1>4. QED
  BY <1>1, <1>2, <1>3

(* Nobody starts work on a confirmation and none is accepted.              *)
LEMMA FewerMakers ==
    ASSUME NEW b \in Booking, OneMaker(b), Confirmed(b)' = Confirmed(b),
           status'[b] = "none" => status[b] = "none",
           \A w \in Worker : Making(w, b)' => Making(w, b) /\ request'[w] = request[w],
           \A t \in Task : Confirming(t, b)' => Confirming(t, b) /\ task'[t] = task[t]
    PROVE  OneMaker(b)'
  BY DEF OneMaker

(* A step of a task: an attempt that was or was not accepted, after which  *)
(* it waits for the next one or has ended.                                 *)
LEMMA TaskMakers ==
    ASSUME MInv, NEW t \in Task, Queued(t), UNCHANGED <<status, request>>,
           delivered' = delivered \/ Deliver(task[t].key, task[t].kind),
           \/ task' = [task EXCEPT ![t] = Ended]
           \/ /\ task[t].tries < MaxRetries
              /\ task' = [task EXCEPT ![t] = [task[t] EXCEPT !.tries = task[t].tries + 1]]
    PROVE  \A b \in Booking : OneMaker(b)'
<1> SUFFICES ASSUME NEW b \in Booking PROVE OneMaker(b)'
  OBVIOUS
<1>1. /\ task[t] \in Message /\ task[t].key \in Booking /\ task[t].kind \in Kind
      /\ task[t].tries \in 0..MaxRetries /\ OneMaker(b) /\ Confirmed(b) \in Nat
  BY TaskTypes, Attempts DEF MInv, MailRowsOK, Confirmed
<1>2. \A s \in Task : s # t => task'[s] = task[s]
  BY DEF MInv, MailRowsOK
<1>3. \/ task'[t] = Ended
      \/ task'[t] = [task[t] EXCEPT !.tries = task[t].tries + 1] /\ task[t].tries < MaxRetries
  BY DEF MInv, MailRowsOK
<1>4. task'[t] # Ended => /\ task'[t].key = task[t].key /\ task'[t].kind = task[t].kind
                          /\ task'[t].tries = task[t].tries + 1 /\ task[t].tries < MaxRetries
  BY <1>1, <1>3 DEF Message
<1>5. \A s \in Task : Confirming(s, b)' => Confirming(s, b) /\ (s = t => task'[t] # Ended)
  BY <1>2, <1>4, NilAssumption DEF Confirming, Queued
<1>6. \A w \in Worker : Making(w, b)' <=> Making(w, b)
  BY DEF Making
<1>7. CASE ~Confirming(t, b)
  <2>1. Confirmed(b)' = Confirmed(b)
    BY <1>1, <1>7, Delivered, Attempts DEF Confirmed, Confirming, MInv
  <2>2. QED
    BY <2>1, <1>1, <1>2, <1>5, <1>6, <1>7, FewerMakers
<1>8. CASE Confirming(t, b)
  <2>1. Confirmed(b)' \in {Confirmed(b), Confirmed(b) + 1}
    BY <1>1, <1>8, Delivered, Attempts DEF Confirmed, Confirming, MInv
  <2>2. /\ Confirmed(b) <= 1 + task[t].tries /\ status[b] # "none"
        /\ \A w \in Worker : ~Making(w, b)
        /\ \A s \in Task : Confirming(s, b) => s = t
    BY <1>1, <1>8 DEF OneMaker
  <2>3. Confirmed(b)' <= 2 + task[t].tries /\ Confirmed(b)' <= MaxRetries + 2
    BY <2>1, <2>2, <1>1, Attempts
  <2>4. \A s \in Task : Confirming(s, b)' => s = t /\ Confirmed(b)' <= 1 + task'[s].tries
    BY <2>2, <2>3, <1>1, <1>4, <1>5
  <2>5. QED
    BY <2>2, <2>3, <2>4, <1>6 DEF OneMaker
<1>9. QED
  BY <1>7, <1>8

(* A request begins, goes on or goes away without a word about its mail,   *)
(* and none begins to create.                                              *)
LEMMA QuietRequest ==
    ASSUME MInv, NEW w \in Worker, NEW r \in Request \cup {Nil},
           request' = [request EXCEPT ![w] = r], r # Nil => r.op # "create",
           status' \in [Booking -> Status],
           \A b \in Booking : status'[b] = "none" => status[b] = "none",
           UNCHANGED <<delivered, answers, task, given>>
    PROVE  MInv'
<1>1. MailRowsOK'
  BY DEF MInv, MailRowsOK
<1>2. \A t \in Task : Queued(t)' <=> Queued(t)
  BY DEF Queued
<1>3. AnswerKept'
  BY <1>2 DEF MInv, AnswerKept
<1>4. ASSUME NEW b \in Booking PROVE OneMaker(b)'
  <2>1. \A v \in Worker : Making(v, b)' => Making(v, b) /\ request'[v] = request[v]
    BY DEF Making, MInv, MailRowsOK
  <2>2. \A t \in Task : Confirming(t, b)' => Confirming(t, b) /\ task'[t] = task[t]
    BY <1>2 DEF Confirming
  <2>3. QED
    BY <2>1, <2>2, FewerMakers DEF Confirmed, MInv
<1>5. QED
  BY <1>1, <1>3, <1>4 DEF MInv

LEMMA NewRequest ==
    ASSUME MInv, NEW w \in Worker, NEW op \in Op, NEW at \in Stage, NEW b \in Booking
    PROVE  [op |-> op, at |-> at, key |-> b, was |-> status[b]] \in Request
  BY DEF Request, MInv, MailRowsOK

LEMMA CreateStep ==
    ASSUME MInv, NEW w \in Worker, NEW b \in Booking, Create(w, b)
    PROVE  MInv'
<1> DEFINE r == [op |-> "create", at |-> "changed", key |-> b, was |-> status[b]]
<1>1. /\ status[b] = "none" /\ status' = [status EXCEPT ![b] = "active"]
      /\ request' = [request EXCEPT ![w] = r] /\ UNCHANGED <<delivered, answers, task, given>>
  BY DEF Create, Start
<1>2. r \in Request
  BY NewRequest DEF Op, Stage
<1>3. r.op = "create" /\ r.at = "changed" /\ r.key = b
  OBVIOUS
<1> HIDE DEF r
<1>4. MailRowsOK'
  BY <1>1, <1>2 DEF MInv, MailRowsOK, Status
<1>5. \A t \in Task : Queued(t)' <=> Queued(t)
  BY <1>1 DEF Queued
<1>6. AnswerKept'
  BY <1>1, <1>5 DEF MInv, AnswerKept
<1>7. request'[w] = r /\ \A v \in Worker : v # w => request'[v] = request[v]
  BY <1>1 DEF MInv, MailRowsOK
<1>8. ASSUME NEW c \in Booking, c # b PROVE OneMaker(c)'
  <2>1. \A v \in Worker : Making(v, c)' => Making(v, c) /\ request'[v] = request[v]
    BY <1>3, <1>7, <1>8 DEF Making
  <2>2. \A t \in Task : Confirming(t, c)' => Confirming(t, c) /\ task'[t] = task[t]
    BY <1>1, <1>5 DEF Confirming
  <2>3. status'[c] = status[c]
    BY <1>1, <1>8 DEF MInv, MailRowsOK
  <2>4. QED
    BY <2>1, <2>2, <2>3, <1>1, FewerMakers DEF Confirmed, MInv
<1>9. OneMaker(b)'
  <2>1. /\ Confirmed(b) = 0 /\ \A v \in Worker : ~Making(v, b)
        /\ \A t \in Task : ~Confirming(t, b)
    BY <1>1 DEF MInv, OneMaker
  <2>2. /\ Confirmed(b)' = 0 /\ status'[b] = "active"
        /\ \A v \in Worker : Making(v, b)' => v = w
        /\ \A t \in Task : ~Confirming(t, b)'
    BY <2>1, <1>1, <1>5, <1>7 DEF Confirmed, Making, Confirming, MInv, MailRowsOK
  <2>3. QED
    BY <2>2, <1>3, <1>7, Attempts DEF OneMaker
<1>10. QED
  BY <1>4, <1>6, <1>8, <1>9 DEF MInv

(* A request answers and is gone; it may have had its mail accepted.       *)
LEMMA ReplyStep ==
    ASSUME MInv, NEW w \in Worker, request[w] # Nil, NEW a \in Answer, a # "queued", Reply(w, a),
           status' \in [Booking -> Status],
           \A b \in Booking : status'[b] = "none" => status[b] = "none",
           delivered' = delivered \/ Deliver(request[w].key, KindOf(request[w].op)),
           a = "sent" => delivered' # delivered,
           delivered' # delivered => \/ request[w].op # "create"
                                     \/ request[w].at = "changed",
           UNCHANGED <<task, given>>
    PROVE  MInv'
<1> DEFINE d == request[w].key
           k == KindOf(request[w].op)
<1>1. d \in Booking /\ k \in Kind /\ request[w].op \in Op
  BY RequestTypes DEF MInv
<1>2. /\ delivered' \in [Booking -> [Kind -> Nat]]
      /\ \A c \in Booking, l \in Kind :
             \/ delivered'[c][l] = delivered[c][l]
             \/ c = d /\ l = k /\ delivered'[c][l] = delivered[c][l] + 1
      /\ delivered' # delivered => delivered'[d][k] = delivered[d][k] + 1
  BY <1>1, Delivered DEF MInv, MailRowsOK
<1>3. /\ answers' \in [Booking -> [Kind -> SUBSET Answer]]
      /\ \A c \in Booking, l \in Kind : answers'[c][l] =
             IF c = d /\ l = k THEN answers[c][l] \cup {a} ELSE answers[c][l]
      /\ request' = [request EXCEPT ![w] = Nil]
  BY Replied DEF MInv
<1> HIDE DEF d, k
<1>4. MailRowsOK'
  BY <1>2, <1>3 DEF MInv, MailRowsOK
<1>5. \A t \in Task : Queued(t)' <=> Queued(t)
  BY DEF Queued
<1>6. \A c \in Booking, l \in Kind : delivered[c][l] \in Nat
  BY DEF MInv, MailRowsOK
<1>7. AnswerKept'
  <2>1. \A c \in Booking, l \in Kind :
            /\ delivered'[c][l] >= delivered[c][l]
            /\ "sent" \in answers'[c][l] => "sent" \in answers[c][l] \/ delivered'[c][l] > 0
            /\ "queued" \in answers'[c][l] => "queued" \in answers[c][l]
    <3> SUFFICES ASSUME NEW c \in Booking, NEW l \in Kind
                 PROVE  /\ delivered'[c][l] >= delivered[c][l]
                        /\ "sent" \in answers'[c][l] => "sent" \in answers[c][l] \/ delivered'[c][l] > 0
                        /\ "queued" \in answers'[c][l] => "queued" \in answers[c][l]
      OBVIOUS
    <3>1. delivered'[c][l] >= delivered[c][l]
      BY <1>2, <1>6
    <3>2. "queued" \in answers'[c][l] => "queued" \in answers[c][l]
      BY <1>3
    <3>3. "sent" \in answers'[c][l] /\ "sent" \notin answers[c][l] => a = "sent" /\ c = d /\ l = k
      BY <1>3
    <3>4. a = "sent" => delivered'[d][k] > 0
      BY <1>1, <1>2, <1>6
    <3>5. QED
      BY <3>1, <3>2, <3>3, <3>4
  <2>2. QED
    BY <2>1, <1>4, <1>5, AnswersStay
<1>8. \A v \in Worker : /\ request'[v] # Nil => v # w /\ request'[v] = request[v]
  BY <1>3 DEF MInv, MailRowsOK
<1>9. ASSUME NEW b \in Booking PROVE OneMaker(b)'
  <2>1. \A v \in Worker : Making(v, b)' => v # w /\ Making(v, b) /\ request'[v] = request[v]
    BY <1>8 DEF Making
  <2>2. \A t \in Task : Confirming(t, b)' <=> Confirming(t, b)
    BY <1>5 DEF Confirming
  <2>3. OneMaker(b) /\ Confirmed(b) \in Nat
    BY <1>6, Attempts DEF MInv, Confirmed
  <2>4. CASE Confirmed(b)' = Confirmed(b)
    BY <2>1, <2>2, <2>3, <2>4, FewerMakers
  <2>5. CASE Confirmed(b)' # Confirmed(b)
    <3>1. /\ b = d /\ k = "confirmation" /\ delivered' # delivered
          /\ Confirmed(b)' = Confirmed(b) + 1
      BY <2>5, <1>2, Attempts DEF Confirmed
    <3>2. request[w].op = "create" /\ request[w].at = "changed"
      BY <3>1 DEF k, KindOf
    <3>3. Making(w, b)
      BY <3>1, <3>2 DEF Making, d
    <3>4. /\ Confirmed(b) <= 0 /\ status[b] # "none"
          /\ \A v \in Worker : Making(v, b) => v = w
          /\ \A t \in Task : ~Confirming(t, b)
      BY <3>2, <3>3, <2>3 DEF OneMaker
    <3>5. Confirmed(b)' <= MaxRetries + 2
      BY <3>1, <3>4, <2>3, Attempts
    <3>6. QED
      BY <3>4, <3>5, <2>1, <2>2 DEF OneMaker
  <2>6. QED
    BY <2>4, <2>5
<1>10. QED
  BY <1>4, <1>7, <1>9 DEF MInv

(* The confirmation raised an exception, accepted or not.                  *)
LEMMA UnsentStep ==
    ASSUME MInv, NEW w \in Worker, Doing(w, {"create"}, "changed"),
           request' = [request EXCEPT ![w].at = "unsent"],
           delivered' = delivered \/ Deliver(request[w].key, "confirmation"),
           UNCHANGED <<status, answers, task, given>>
    PROVE  MInv'
<1>1. /\ request[w] # Nil /\ request[w].op = "create" /\ request[w].at = "changed"
      /\ request[w] \in Request /\ request[w].key \in Booking
  BY RequestTypes DEF Doing, MInv
<1>2. PICK d \in Booking : d = request[w].key
  BY <1>1
<1>3. /\ delivered' \in [Booking -> [Kind -> Nat]]
      /\ \A c \in Booking, l \in Kind :
             \/ delivered'[c][l] = delivered[c][l]
             \/ c = d /\ l = "confirmation" /\ delivered'[c][l] = delivered[c][l] + 1
  BY <1>2, Delivered, Attempts DEF MInv, MailRowsOK
<1>4. \A c \in Booking, l \in Kind : delivered[c][l] \in Nat
  BY DEF MInv, MailRowsOK
<1>5. [request[w] EXCEPT !.at = "unsent"] \in Request
  BY <1>1 DEF Request, Stage
<1>6. /\ request'[w] = [request[w] EXCEPT !.at = "unsent"]
      /\ \A v \in Worker : v # w => request'[v] = request[v]
  BY DEF MInv, MailRowsOK
<1>7. /\ request'[w].op = "create" /\ request'[w].key = d /\ request'[w].at = "unsent"
  BY <1>1, <1>2, <1>6 DEF Request
<1>8. MailRowsOK'
  BY <1>3, <1>5 DEF MInv, MailRowsOK
<1>9. \A t \in Task : Queued(t)' <=> Queued(t)
  BY DEF Queued
<1>10. AnswerKept'
  <2>1. \A c \in Booking, l \in Kind : delivered'[c][l] >= delivered[c][l]
    BY <1>3, <1>4
  <2>2. QED
    BY <2>1, <1>8, <1>9, AnswersStay
<1>11. ASSUME NEW b \in Booking PROVE OneMaker(b)'
  <2>1. OneMaker(b) /\ Confirmed(b) \in Nat
    BY <1>4, Attempts DEF MInv, Confirmed
  <2>2. \A t \in Task : Confirming(t, b)' <=> Confirming(t, b)
    BY <1>9 DEF Confirming
  <2>3. CASE b # d
    <3>1. \A v \in Worker : Making(v, b)' => Making(v, b) /\ request'[v] = request[v]
      BY <2>3, <1>6, <1>7 DEF Making
    <3>2. Confirmed(b)' = Confirmed(b)
      BY <2>3, <1>3, Attempts DEF Confirmed
    <3>3. QED
      BY <3>1, <3>2, <2>1, <2>2, FewerMakers
  <2>4. CASE b = d
    <3>1. Making(w, b)
      BY <2>4, <1>1, <1>2 DEF Making
    <3>2. /\ Confirmed(b) <= 0 /\ status[b] # "none"
          /\ \A v \in Worker : Making(v, b) => v = w
          /\ \A t \in Task : ~Confirming(t, b)
      BY <3>1, <2>1, <1>1 DEF OneMaker
    <3>3. Confirmed(b)' <= 1 /\ 1 <= MaxRetries + 2
      BY <2>1, <3>2, <1>3, Attempts DEF Confirmed
    <3>4. \A v \in Worker : Making(v, b)' => v = w
      BY <3>2, <1>6 DEF Making
    <3>5. Confirmed(b)' <= MaxRetries + 2
      BY <3>3, <1>3, <1>4, Attempts DEF Confirmed
    <3>6. QED
      BY <3>2, <3>3, <3>4, <3>5, <2>2, <1>7 DEF OneMaker
  <2>5. QED
    BY <2>3, <2>4
<1>12. QED
  BY <1>8, <1>10, <1>11 DEF MInv

LEMMA EnqueueStep ==
    ASSUME MInv, NEW w \in Worker, NEW t \in Task, Enqueue(w, t)
    PROVE  MInv'
<1> DEFINE k == KindOf(request[w].op)
           m == [key |-> request[w].key, kind |-> k, tries |-> 0]
<1>1. /\ request[w] # Nil /\ request[w].at = "unsent" /\ task[t] = Nil
      /\ task' = [task EXCEPT ![t] = m] /\ Reply(w, "queued")
      /\ UNCHANGED <<status, delivered, given>>
  BY DEF Enqueue, Doing
<1>2. PICK d \in Booking : d = request[w].key
  BY <1>1, RequestTypes DEF MInv
<1>3. k \in Kind /\ m \in Message /\ m.key = d /\ m.kind = k /\ m.tries = 0
  BY <1>1, <1>2, RequestTypes, Attempts DEF MInv, Message
<1>4. /\ answers' \in [Booking -> [Kind -> SUBSET Answer]]
      /\ \A c \in Booking, l \in Kind : answers'[c][l] =
             IF c = d /\ l = k THEN answers[c][l] \cup {"queued"} ELSE answers[c][l]
      /\ request' = [request EXCEPT ![w] = Nil]
  <2>1. "queued" \in Answer /\ MailRowsOK
    BY Answers DEF MInv
  <2>2. /\ answers' \in [Booking -> [Kind -> SUBSET Answer]]
        /\ \A c \in Booking, l \in Kind : answers'[c][l] =
               IF c = request[w].key /\ l = KindOf(request[w].op)
               THEN answers[c][l] \cup {"queued"} ELSE answers[c][l]
        /\ request' = [request EXCEPT ![w] = Nil]
    BY <1>1, <2>1, Replied
  <2>3. QED
    BY <2>2, <1>2
<1>5. k = "confirmation" => request[w].op = "create"
  BY DEF KindOf
<1> HIDE DEF m, k
<1>6. MailRowsOK'
  BY <1>1, <1>3, <1>4 DEF MInv, MailRowsOK
<1>7. /\ task'[t] = m /\ ~Queued(t) /\ \A s \in Task : s # t => task'[s] = task[s]
  BY <1>1, NilAssumption DEF MInv, MailRowsOK, Queued
<1>8. AnswerKept'
  <2>1. ASSUME NEW c \in Booking, NEW l \in Kind
        PROVE  /\ delivered'[c][l] >= delivered[c][l]
               /\ "sent" \in answers'[c][l] => "sent" \in answers[c][l]
               /\ "queued" \in answers'[c][l] =>
                     \/ "queued" \in answers[c][l]
                     \/ Queued(t)' /\ task'[t].key = c /\ task'[t].kind = l
    <3>1. delivered'[c][l] = delivered[c][l] /\ delivered[c][l] \in Nat
      BY <1>1 DEF MInv, MailRowsOK
    <3>0. answers'[c][l] = IF c = d /\ l = k THEN answers[c][l] \cup {"queued"} ELSE answers[c][l]
      BY <1>4
    <3>2. "sent" \in answers'[c][l] => "sent" \in answers[c][l]
      BY <3>0
    <3>3. "queued" \in answers'[c][l] => "queued" \in answers[c][l] \/ (c = d /\ l = k)
      BY <3>0
    <3>4. Queued(t)' /\ task'[t].key = d /\ task'[t].kind = k
      BY <1>3, <1>7 DEF Queued
    <3>5. QED
      BY <3>1, <3>2, <3>3, <3>4
  <2>2. \A s \in Task : Queued(s) => Queued(s)' /\ task'[s] = task[s]
    BY <1>7 DEF Queued
  <2>3. QED
    BY <2>1, <2>2, <1>1, <1>6, AnswersStay
<1>9. ASSUME NEW b \in Booking PROVE OneMaker(b)'
  <2>1. OneMaker(b) /\ Confirmed(b)' = Confirmed(b) /\ Confirmed(b) \in Nat /\ status' = status
    BY <1>1, Attempts DEF MInv, MailRowsOK, Confirmed
  <2>2. \A v \in Worker : Making(v, b)' => Making(v, b) /\ v # w /\ request'[v] = request[v]
    BY <1>4 DEF Making, MInv, MailRowsOK
  <2>3. \A s \in Task : Confirming(s, b)' =>
            \/ Confirming(s, b) /\ task'[s] = task[s]
            \/ s = t /\ b = d /\ k = "confirmation"
    BY <1>3, <1>7 DEF Confirming, Queued
  <2>4. CASE b = d /\ k = "confirmation"
    <3>1. Making(w, b)
      BY <2>4, <1>1, <1>2, <1>5 DEF Making
    <3>2. /\ Confirmed(b) <= 1 /\ status[b] # "none" /\ Confirmed(b) <= MaxRetries + 2
          /\ \A v \in Worker : Making(v, b) => v = w
          /\ \A s \in Task : ~Confirming(s, b)
      BY <3>1, <2>1, <1>1 DEF OneMaker
    <3>3. \A s \in Task : Confirming(s, b)' => s = t /\ task'[s].tries = 0
      BY <3>2, <2>3, <1>3, <1>7
    <3>4. Confirmed(b)' <= 1 + 0
      BY <3>2, <2>1
    <3>5. QED
      BY <3>2, <3>3, <3>4, <2>1, <2>2 DEF OneMaker
  <2>5. CASE ~(b = d /\ k = "confirmation")
    BY <2>1, <2>2, <2>3, <2>5, FewerMakers
  <2>6. QED
    BY <2>4, <2>5
<1>10. QED
  BY <1>6, <1>8, <1>9 DEF MInv

LEMMA TaskStep ==
    ASSUME MInv, NEW t \in Task, RunTask(t)
    PROVE  MInv'
<1> DEFINE b == task[t].key
           k == task[t].kind
<1>1. /\ Queued(t) /\ task[t] \in Message /\ b \in Booking /\ k \in Kind
      /\ task[t].tries \in 0..MaxRetries
  BY TaskTypes DEF RunTask, SendByTask, FindNothing, Retry, Lose, MInv
<1>2. UNCHANGED <<status, answers, request>>
  BY DEF RunTask, SendByTask, FindNothing, Retry, Lose
<1>3. delivered' = delivered \/ Deliver(b, k)
  BY DEF RunTask, SendByTask, FindNothing, Retry, Lose
<1>4. given \subseteq given' /\ given' \subseteq given \cup {<<b, k>>}
  BY DEF RunTask, SendByTask, FindNothing, Retry, Lose, GiveUp
<1>5. \/ /\ task' = [task EXCEPT ![t] = Ended]
         /\ <<b, k>> \in given' \/ Deliver(b, k)
      \/ /\ task[t].tries < MaxRetries
         /\ task' = [task EXCEPT ![t] = [task[t] EXCEPT !.tries = task[t].tries + 1]]
  BY DEF RunTask, SendByTask, FindNothing, Retry, Lose, GiveUp, EndTask
<1>6. \A c \in Booking : OneMaker(c)'
  BY <1>1, <1>2, <1>3, <1>5, TaskMakers
<1>7. /\ delivered' \in [Booking -> [Kind -> Nat]]
      /\ \A c \in Booking, l \in Kind : delivered'[c][l] >= delivered[c][l]
      /\ Deliver(b, k) => delivered'[b][k] > 0
  <2>1. MailRowsOK /\ \A c \in Booking, l \in Kind : delivered[c][l] \in Nat
    BY DEF MInv, MailRowsOK
  <2>2. CASE Deliver(b, k)
    <3> HIDE DEF b, k
    <3>1. /\ delivered' \in [Booking -> [Kind -> Nat]]
          /\ \A c \in Booking, l \in Kind :
                 delivered'[c][l] = IF c = b /\ l = k THEN delivered[c][l] + 1 ELSE delivered[c][l]
      BY <1>1, <2>1, <2>2, Delivered
    <3>2. QED
      BY <1>1, <2>1, <3>1
  <2>3. CASE ~Deliver(b, k)
    <3>1. delivered' = delivered
      BY <1>3, <2>3
    <3>2. QED
      BY <2>1, <2>3, <3>1 DEF MailRowsOK
  <2>4. QED
    BY <2>2, <2>3
<1>8. task[t].tries < MaxRetries =>
          /\ [task[t] EXCEPT !.tries = task[t].tries + 1] \in Message
          /\ [task[t] EXCEPT !.tries = task[t].tries + 1].key = b
          /\ [task[t] EXCEPT !.tries = task[t].tries + 1].kind = k
  BY <1>1, Attempts DEF Message
<1>9. task' \in [Task -> Message \cup {Nil, Ended}]
  <2>1. CASE task' = [task EXCEPT ![t] = Ended]
    BY <2>1 DEF MInv, MailRowsOK
  <2>2. CASE /\ task[t].tries < MaxRetries
             /\ task' = [task EXCEPT ![t] = [task[t] EXCEPT !.tries = task[t].tries + 1]]
    BY <2>2, <1>8 DEF MInv, MailRowsOK
  <2>3. QED
    BY <2>1, <2>2, <1>5
<1>10. MailRowsOK'
  BY <1>1, <1>2, <1>4, <1>7, <1>9 DEF MInv, MailRowsOK
<1>11. ASSUME NEW s \in Task, Queued(s)
       PROVE  \/ Queued(s)' /\ task'[s].key = task[s].key /\ task'[s].kind = task[s].kind
              \/ delivered'[task[s].key][task[s].kind] > 0
              \/ <<task[s].key, task[s].kind>> \in given'
  <2>1. CASE s # t
    BY <2>1, <1>5, <1>11 DEF Queued, MInv, MailRowsOK
  <2>2. CASE s = t /\ task' = [task EXCEPT ![t] = Ended] /\ (<<b, k>> \in given' \/ Deliver(b, k))
    BY <2>2, <1>7
  <2>3. CASE s = t /\ task[t].tries < MaxRetries
             /\ task' = [task EXCEPT ![t] = [task[t] EXCEPT !.tries = task[t].tries + 1]]
    <3>1. task'[t] = [task[t] EXCEPT !.tries = task[t].tries + 1]
      BY <2>3 DEF MInv, MailRowsOK
    <3>2. QED
      BY <3>1, <2>3, <1>8 DEF Queued
  <2>4. QED
    BY <2>1, <2>2, <2>3, <1>5
<1>12. AnswerKept'
  BY <1>2, <1>4, <1>7, <1>10, <1>11, AnswersStay
<1>13. QED
  BY <1>6, <1>10, <1>12 DEF MInv

LEMMA MInvNext == MInv /\ [MailNext]_mailVars => MInv'
<1> SUFFICES ASSUME MInv, [MailNext]_mailVars PROVE MInv'
  OBVIOUS
<1>0. status \in [Booking -> Status] /\ \A w \in Worker : request[w] \in Request \cup {Nil}
  BY DEF MInv, MailRowsOK
<1>1. ASSUME NEW w \in Worker, NEW b \in Booking, Cancel(w, b) PROVE MInv'
  <2> DEFINE r == [op |-> "cancel", at |-> "changed", key |-> b, was |-> status[b]]
  <2>1. /\ request' = [request EXCEPT ![w] = r] /\ status' = [status EXCEPT ![b] = "cancelled"]
        /\ UNCHANGED <<delivered, answers, task, given>>
    BY <1>1 DEF Cancel, Start
  <2>2. r \in Request /\ r.op = "cancel"
    BY NewRequest DEF Op, Stage
  <2> HIDE DEF r
  <2>3. status' \in [Booking -> Status] /\ \A c \in Booking : status'[c] = "none" => status[c] = "none"
    BY <2>1, <1>0 DEF Status
  <2>4. QED
    BY <2>1, <2>2, <2>3, QuietRequest
<1>2. ASSUME NEW w \in Worker, NEW b \in Booking, LoadDestroy(w, b) PROVE MInv'
  <2> DEFINE r == [op |-> "destroy", at |-> "read", key |-> b, was |-> status[b]]
  <2>1. request' = [request EXCEPT ![w] = r] /\ UNCHANGED <<status, delivered, answers, task, given>>
    BY <1>2 DEF LoadDestroy, Start
  <2>2. r \in Request /\ r.op = "destroy"
    BY NewRequest DEF Op, Stage
  <2> HIDE DEF r
  <2>3. QED
    BY <2>1, <2>2, <1>0, QuietRequest
<1>3. ASSUME NEW w \in Worker, NEW b \in Booking, LoadUpdate(w, b) PROVE MInv'
  <2> DEFINE r == [op |-> "update", at |-> "loaded", key |-> b, was |-> status[b]]
  <2>1. request' = [request EXCEPT ![w] = r] /\ UNCHANGED <<status, delivered, answers, task, given>>
    BY <1>3 DEF LoadUpdate, Start
  <2>2. r \in Request /\ r.op = "update"
    BY NewRequest DEF Op, Stage
  <2> HIDE DEF r
  <2>3. QED
    BY <2>1, <2>2, <1>0, QuietRequest
<1>4. ASSUME NEW w \in Worker, SendConfirmation(w) PROVE MInv'
  <2>1. /\ Doing(w, {"create"}, "changed") /\ request[w] # Nil /\ request[w].op = "create"
        /\ request[w].at = "changed" /\ KindOf(request[w].op) = "confirmation"
        /\ UNCHANGED <<status, task, given>>
    BY <1>4 DEF SendConfirmation, Doing, KindOf
  <2>2. CASE Deliver(request[w].key, "confirmation") /\ Reply(w, "sent")
    <3>1. delivered' # delivered
      <4>1. request[w].key \in Booking
        BY <2>1, RequestTypes DEF MInv
      <4>2. delivered[request[w].key]["confirmation"] \in Nat
        BY <4>1, Attempts DEF MInv, MailRowsOK
      <4>3. delivered'[request[w].key]["confirmation"] = delivered[request[w].key]["confirmation"] + 1
        BY <4>1, <2>2, Delivered, Attempts DEF MInv
      <4>4. QED
        BY <4>2, <4>3
    <3>2. QED
      BY <3>1, <2>1, <2>2, <1>0, Answers, ReplyStep
  <2>3. CASE /\ request' = [request EXCEPT ![w].at = "unsent"] /\ UNCHANGED answers
             /\ Deliver(request[w].key, "confirmation") \/ UNCHANGED delivered
    BY <2>1, <2>3, UnsentStep
  <2>4. QED
    BY <2>2, <2>3, <1>4 DEF SendConfirmation
<1>5. ASSUME NEW w \in Worker, SendCancellation(w) PROVE MInv'
  <2>1. /\ request[w] # Nil /\ request[w].op = "cancel" /\ KindOf(request[w].op) = "cancellation"
        /\ Deliver(request[w].key, "cancellation") \/ UNCHANGED delivered
        /\ Reply(w, "error") /\ UNCHANGED <<status, task, given>>
    BY <1>5 DEF SendCancellation, Doing, KindOf
  <2>2. QED
    BY <2>1, <1>0, Answers, ReplyStep
<1>6. ASSUME NEW w \in Worker, ReadAgain(w) PROVE MInv'
  <2>1. /\ request[w] # Nil /\ request[w].op = "update" /\ request[w] \in Request
        /\ request[w].key \in Booking
        /\ request' = [request EXCEPT ![w] = [request[w] EXCEPT !.at = "read",
                                                              !.was = status[request[w].key]]]
        /\ UNCHANGED <<status, delivered, answers, task, given>>
    BY <1>6, RequestTypes DEF ReadAgain, Doing, MInv
  <2>2. PICK r \in Request : r = [request[w] EXCEPT !.at = "read", !.was = status[request[w].key]]
    BY <2>1, <1>0 DEF Request, Stage
  <2>3. r.op = "update"
    BY <2>1, <2>2 DEF Request
  <2>4. QED
    BY <2>1, <2>2, <2>3, <1>0, QuietRequest
<1>7. ASSUME NEW w \in Worker, SaveCancelled(w) PROVE MInv'
  <2>1. /\ request[w] # Nil /\ request[w].op \in {"destroy", "update"} /\ request[w] \in Request
        /\ request[w].key \in Booking
        /\ status' = [status EXCEPT ![request[w].key] = "cancelled"]
        /\ UNCHANGED <<delivered, task, given>>
        /\ \/ Reply(w, "no mail")
           \/ /\ request' = [request EXCEPT ![w] = [request[w] EXCEPT !.at = "unsent"]]
              /\ UNCHANGED answers
    BY <1>7, RequestTypes DEF SaveCancelled, Doing, MInv
  <2>2. status' \in [Booking -> Status] /\ \A c \in Booking : status'[c] = "none" => status[c] = "none"
    BY <2>1, <1>0 DEF Status
  <2>3. CASE Reply(w, "no mail")
    BY <2>1, <2>2, <2>3, Answers, ReplyStep
  <2>4. CASE /\ request' = [request EXCEPT ![w] = [request[w] EXCEPT !.at = "unsent"]]
             /\ UNCHANGED answers
    <3>1. PICK r \in Request : r = [request[w] EXCEPT !.at = "unsent"]
      BY <2>1 DEF Request, Stage
    <3>2. r.op # "create"
      BY <2>1, <3>1 DEF Request
    <3>3. QED
      BY <2>1, <2>2, <2>4, <3>1, <3>2, QuietRequest
  <2>5. QED
    BY <2>1, <2>3, <2>4
<1>8. ASSUME NEW w \in Worker, EnqueueFails(w) PROVE MInv'
  <2>1. PICK a \in {"failed", "error"} : Reply(w, a)
    BY <1>8 DEF EnqueueFails
  <2>2. request[w] # Nil /\ UNCHANGED <<status, delivered, task, given>>
    BY <1>8 DEF EnqueueFails, Doing
  <2>3. QED
    BY <2>1, <2>2, <1>0, Answers, ReplyStep
<1>9. ASSUME NEW w \in Worker, Abandon(w) PROVE MInv'
  BY <1>0, <1>9, QuietRequest DEF Abandon
<1>10. ASSUME NEW b \in Booking, CreateRolledBack(b) \/ Elsewhere(b) \/ SavedElsewhere(b)
       PROVE  MInv'
  <2>1. UNCHANGED <<delivered, answers, task, request, given>>
    BY <1>10 DEF CreateRolledBack, Elsewhere, SavedElsewhere
  <2>2. PICK st \in Status \ {"none"} : status' = [status EXCEPT ![b] = st]
    BY <1>10 DEF CreateRolledBack, Elsewhere, SavedElsewhere, Status, Stored
  <2>3. /\ status' \in [Booking -> Status]
        /\ \A c \in Booking : status'[c] = "none" => status[c] = "none"
    BY <1>0, <2>2
  <2>4. MailRowsOK'
    BY <2>1, <2>3 DEF MInv, MailRowsOK
  <2>5. AnswerKept'
    BY <2>1 DEF MInv, AnswerKept, Queued
  <2>6. \A c \in Booking : OneMaker(c)'
    BY <2>1, <2>3, FewerMakers DEF MInv, Confirmed, Making, Confirming, Queued
  <2>7. QED
    BY <2>4, <2>5, <2>6 DEF MInv
<1>11. CASE UNCHANGED mailVars
  <2>1. MailRowsOK' /\ AnswerKept'
    BY <1>11 DEF MInv, MailRowsOK, AnswerKept, Queued, mailVars
  <2>2. \A c \in Booking : OneMaker(c)'
    BY <1>11 DEF MInv, OneMaker, Confirmed, Making, Confirming, Queued, mailVars
  <2>3. QED
    BY <2>1, <2>2 DEF MInv
<1>12. QED
  BY <1>1, <1>2, <1>3, <1>4, <1>5, <1>6, <1>7, <1>8, <1>9, <1>10, <1>11,
     CreateStep, EnqueueStep, TaskStep DEF MailNext, RequestNext

(* What a client was told of its mail stays true, for any bookings,        *)
(* requests, tasks and failures (bookings/views.py, bookings/tasks.py).    *)
THEOREM AnswersKept == MailSpec => []AnswerKept
<1>1. MInv => AnswerKept
  BY DEF MInv
<1>2. QED
  BY MInvInit, MInvNext, <1>1, PTL DEF MailSpec

----------------------------------------------------------------------------
(* The mails of the receiver: at most one for each save.                   *)

NInv ==
    /\ noticed \in [Booking -> [Kind -> Nat]]
    /\ saves \in [Booking -> [Kind -> Nat]]
    /\ \A b \in Booking, k \in Kind : noticed[b][k] <= saves[b][k]

LEMMA NInvInit == MailInit => NInv
  BY DEF MailInit, NInv

LEMMA AnnounceStep ==
    ASSUME NInv, NEW b \in Booking, NEW st, Announce(b, st)
    PROVE  NInv'
<1> DEFINE k == IF st = "active" THEN "confirmation" ELSE "cancellation"
<1>1. k \in Kind
  BY DEF Kind
<1>2. \/ /\ saves' = [saves EXCEPT ![b][k] = @ + 1]
         /\ noticed' = [noticed EXCEPT ![b][k] = @ + 1] \/ UNCHANGED noticed
      \/ UNCHANGED <<noticed, saves>>
  BY DEF Announce, noticeVars
<1> HIDE DEF k
<1>3. ASSUME NEW f \in [Booking -> [Kind -> Nat]]
      PROVE  /\ [f EXCEPT ![b][k] = @ + 1] \in [Booking -> [Kind -> Nat]]
             /\ \A c \in Booking, l \in Kind : [f EXCEPT ![b][k] = @ + 1][c][l] =
                    IF c = b /\ l = k THEN f[c][l] + 1 ELSE f[c][l]
  <2>1. [f[b] EXCEPT ![k] = f[b][k] + 1] \in [Kind -> Nat]
    BY <1>1
  <2>2. QED
    BY <1>1, <2>1
<1>4. CASE UNCHANGED <<noticed, saves>>
  BY <1>4 DEF NInv
<1>5. CASE /\ saves' = [saves EXCEPT ![b][k] = @ + 1]
           /\ noticed' = [noticed EXCEPT ![b][k] = @ + 1] \/ UNCHANGED noticed
  <2>1. /\ saves' \in [Booking -> [Kind -> Nat]]
        /\ \A c \in Booking, l \in Kind : saves'[c][l] =
               IF c = b /\ l = k THEN saves[c][l] + 1 ELSE saves[c][l]
    BY <1>3, <1>5 DEF NInv
  <2>2. /\ noticed' \in [Booking -> [Kind -> Nat]]
        /\ \A c \in Booking, l \in Kind :
               \/ noticed'[c][l] = noticed[c][l]
               \/ c = b /\ l = k /\ noticed'[c][l] = noticed[c][l] + 1
    <3>1. CASE noticed' = [noticed EXCEPT ![b][k] = @ + 1]
      BY <1>3, <3>1 DEF NInv
    <3>2. QED
      BY <1>5, <3>1 DEF NInv
  <2>3. \A c \in Booking, l \in Kind : noticed[c][l] \in Nat /\ saves[c][l] \in Nat
    BY DEF NInv
  <2>4. QED
    BY <2>1, <2>2, <2>3 DEF NInv
<1>6. QED
  BY <1>2, <1>4, <1>5

LEMMA NInvNext == MInv /\ NInv /\ [MailNext]_mailVars => NInv'
<1> SUFFICES ASSUME MInv, NInv, [MailNext]_mailVars PROVE NInv'
  OBVIOUS
<1>1. \/ UNCHANGED noticeVars
      \/ \E b \in Booking, st \in Status : Announce(b, st)
  <2>1. ASSUME NEW w \in Worker, RequestNext(w)
        PROVE  UNCHANGED noticeVars \/ \E b \in Booking, st \in Status : Announce(b, st)
    <3>1. \A b \in Booking : Create(w, b) => Announce(b, "active")
      BY DEF Create
    <3>2. \A b \in Booking : Cancel(w, b) => Announce(b, "cancelled")
      BY DEF Cancel
    <3>3. \A b \in Booking : LoadDestroy(w, b) \/ LoadUpdate(w, b) => UNCHANGED noticeVars
      BY DEF LoadDestroy, LoadUpdate
    <3>4. SendConfirmation(w) \/ SendCancellation(w) \/ ReadAgain(w) \/ EnqueueFails(w)
              \/ Abandon(w) \/ (\E t \in Task : Enqueue(w, t)) => UNCHANGED noticeVars
      BY DEF SendConfirmation, SendCancellation, ReadAgain, EnqueueFails, Abandon, Enqueue
    <3>5. SaveCancelled(w) => \E b \in Booking : Announce(b, "cancelled")
      BY RequestTypes DEF SaveCancelled, Doing, MInv
    <3>6. QED
      BY <2>1, <3>1, <3>2, <3>3, <3>4, <3>5 DEF RequestNext, Status
  <2>2. ASSUME NEW t \in Task, RunTask(t) PROVE UNCHANGED noticeVars
    BY <2>2 DEF RunTask, SendByTask, FindNothing, Retry, Lose
  <2>3. ASSUME NEW b \in Booking, CreateRolledBack(b) \/ Elsewhere(b) \/ SavedElsewhere(b)
        PROVE  UNCHANGED noticeVars \/ \E st \in Status : Announce(b, st)
    BY <2>3 DEF CreateRolledBack, Elsewhere, SavedElsewhere, Status, Stored
  <2>4. QED
    BY <2>1, <2>2, <2>3 DEF MailNext, mailVars
<1>2. QED
  BY <1>1, AnnounceStep DEF NInv, noticeVars

LEMMA MailsTyped == MInv /\ NInv => MailTypeOK
  BY DEF MInv, NInv, MailTypeOK

(* A request and its task send at most two mails more than the task's      *)
(* retries to confirm a booking, and the receiver one for each save.       *)
THEOREM FewConfirmations == MailSpec => []ConfirmationsBounded
<1>1. MInv /\ NInv => ConfirmationsBounded
  <2> SUFFICES ASSUME MInv, NInv, NEW b \in Booking
               PROVE  delivered[b]["confirmation"] + noticed[b]["confirmation"]
                          <= MaxRetries + 2 + saves[b]["confirmation"]
    BY DEF ConfirmationsBounded
  <2>1. delivered[b]["confirmation"] \in Nat /\ delivered[b]["confirmation"] <= MaxRetries + 2
    BY Attempts DEF MInv, MailRowsOK, OneMaker, Confirmed
  <2>2. /\ noticed[b]["confirmation"] \in Nat /\ saves[b]["confirmation"] \in Nat
        /\ noticed[b]["confirmation"] <= saves[b]["confirmation"]
    BY Attempts DEF NInv
  <2>3. QED
    BY <2>1, <2>2, Attempts
<1>2. QED
  BY MInvInit, MInvNext, NInvInit, NInvNext, <1>1, PTL DEF MailSpec

----------------------------------------------------------------------------
(* The offers.                                                             *)

(* A row that was last checked whole passes the rules.                     *)
FInv ==
    /\ OffersTypeOK
    /\ checked => offer # NoOffer /\ Clean(offer)

LEMMA OfferTypes ==
    ASSUME OffersTypeOK, offer # NoOffer
    PROVE  /\ offer \in Offer /\ offer.pricing \in Pricing /\ offer.period \in Period
           /\ offer.stay \in StayLimits /\ offer.switches \in Switches
           /\ offer.days \in SUBSET Weekday
  BY DEF OffersTypeOK, Offer

LEMMA FInvInit == OffersInit => FInv
  BY DEF OffersInit, FInv, OffersTypeOK

LEMMA WriteStep ==
    ASSUME FInv, NEW o \in Offer \cup {NoOffer}, NEW whole \in BOOLEAN, Write(o, whole),
           whole => o # NoOffer /\ Clean(o)
    PROVE  FInv'
<1>1. offer' = o /\ checked' = whole /\ today' = today
  BY DEF Write
<1>2. QED
  BY <1>1 DEF FInv, OffersTypeOK, Clean, PeriodOrdered, StayOrdered, Priced

LEMMA FInvNext == FInv /\ [OffersNext]_offerVars => FInv'
<1> SUFFICES ASSUME FInv, [OffersNext]_offerVars PROVE FInv'
  OBVIOUS
<1>0. offer # NoOffer => /\ offer \in Offer /\ offer.pricing \in Pricing /\ offer.period \in Period
                         /\ offer.stay \in StayLimits /\ offer.switches \in Switches
                         /\ offer.days \in SUBSET Weekday
  BY OfferTypes DEF FInv
<1>1. ASSUME NEW o \in Offer, DeskCreate(o) PROVE FInv'
  BY <1>1, WriteStep, NoOfferAssumption DEF DeskCreate
<1>2. ASSUME NEW o \in Offer, NEW named \in BOOLEAN, ApiCreate(o, named) PROVE FInv'
  BY <1>2, WriteStep, NoOfferAssumption DEF ApiCreate, Clean
<1>3. ASSUME NEW day \in Day, NEW end \in BOOLEAN, PatchPeriod(day, end) PROVE FInv'
  <2> DEFINE p == IF end THEN [offer.period EXCEPT !.to = day] ELSE [offer.period EXCEPT !.from = day]
  <2>1. offer # NoOffer /\ Write([offer EXCEPT !.period = p], FALSE)
    BY <1>3 DEF PatchPeriod
  <2>2. p \in Period
    BY <2>1, <1>0 DEF Period
  <2> HIDE DEF p
  <2>3. [offer EXCEPT !.period = p] \in Offer
    BY <2>1, <2>2, <1>0 DEF Offer
  <2>4. QED
    BY <2>1, <2>3, WriteStep
<1>4. ASSUME NEW n \in Length \cup {Null}, NEW most \in BOOLEAN, PatchStay(n, most) PROVE FInv'
  <2> DEFINE l == IF most THEN [offer.stay EXCEPT !.maximum = n] ELSE [offer.stay EXCEPT !.minimum = n]
  <2>1. offer # NoOffer /\ Write([offer EXCEPT !.stay = l], FALSE)
    BY <1>4 DEF PatchStay
  <2>2. l \in StayLimits
    BY <2>1, <1>0 DEF StayLimits
  <2> HIDE DEF l
  <2>3. [offer EXCEPT !.stay = l] \in Offer
    BY <2>1, <2>2, <1>0 DEF Offer
  <2>4. QED
    BY <2>1, <2>3, WriteStep
<1>5. ASSUME NEW p \in Pricing, PatchPricing(p) PROVE FInv'
  <2>1. [offer EXCEPT !.pricing = p] \in Offer
    BY <1>0, <1>5 DEF PatchPricing, Offer
  <2>2. QED
    BY <2>1, <1>5, WriteStep DEF PatchPricing
<1>6. ASSUME NEW s \in Switches, NEW days \in SUBSET Weekday, PatchRest(s, days) PROVE FInv'
  <2>1. [offer EXCEPT !.switches = s, !.days = days] \in Offer
    BY <1>0, <1>6 DEF PatchRest, Offer
  <2>2. QED
    BY <2>1, <1>6, WriteStep DEF PatchRest
<1>7. ASSUME offer # NoOffer, NEW p \in Pricing, NEW d \in Period, NEW l \in StayLimits,
             NEW s \in Switches, DeskEdit(p, d, l, s)
      PROVE  FInv'
  <2> DEFINE o == [offer EXCEPT !.pricing = p, !.period = d, !.stay = l, !.switches = s]
  <2>1. o \in Offer
    BY <1>0, <1>7 DEF Offer
  <2>2. Clean(o) /\ Write(o, TRUE)
    BY <1>7 DEF DeskEdit
  <2> HIDE DEF o
  <2>3. QED
    BY <2>1, <2>2, WriteStep, NoOfferAssumption
<1>8. CASE Delete
  BY <1>8, WriteStep DEF Delete
<1>9. CASE Midnight
  <2>1. today' = today + 1 /\ today < LastToday /\ UNCHANGED <<offer, checked>>
    BY <1>9 DEF Midnight
  <2>2. LastToday \in Nat
    BY OffersAssumption
  <2>3. today' \in 0..LastToday
    BY <2>1, <2>2 DEF FInv, OffersTypeOK
  <2>4. QED
    BY <2>1, <2>3 DEF FInv, OffersTypeOK, Clean, PeriodOrdered, StayOrdered, Priced
<1>10. CASE UNCHANGED offerVars
  BY <1>10 DEF FInv, OffersTypeOK, Clean, PeriodOrdered, StayOrdered, Priced, offerVars
<1>11. QED
  BY <1>0, <1>1, <1>2, <1>3, <1>4, <1>5, <1>6, <1>7, <1>8, <1>9, <1>10 DEF OffersNext

(* A calculation fails only on an offer without a minimum stay or one that *)
(* was last written in parts (offers/views.py 428).                        *)
THEOREM CheckedOffersCalculate == OffersSpec => []FailsOnlyIncomplete
<1>1. FInv => FailsOnlyIncomplete
  <2> SUFFICES ASSUME FInv, NEW q \in Query, offer # NoOffer, Raises(offer, q),
                      offer.stay.minimum # Null, checked
               PROVE  FALSE
    BY DEF FInv, FailsOnlyIncomplete
  <2>1. Rate(offer.pricing) = Null
    BY DEF Raises
  <2>2. offer.pricing \in Pricing /\ Priced(offer.pricing)
    BY OfferTypes DEF FInv, Clean
  <2>3. CASE offer.pricing.type = "percentage"
    BY <2>1, <2>2, <2>3 DEF Rate, Priced, Truthy
  <2>4. CASE offer.pricing.type = "fixed_amount"
    BY <2>1, <2>2, <2>4 DEF Rate, Priced, Truthy
  <2>5. CASE offer.pricing.type = "package"
    <3>1. Applicable(offer, q)
      BY DEF Raises
    <3>2. QED
      BY <2>1, <2>5, <3>1, NullAssumption DEF Rate
  <2>6. QED
    BY <2>2, <2>3, <2>4, <2>5 DEF Pricing
<1>2. QED
  BY FInvInit, FInvNext, <1>1, PTL DEF OffersSpec

(* The search and the calculation agree, up to the edges of the period and *)
(* the longest stay, on every row the table can hold.                      *)
THEOREM SearchAndCalculationAgree == OffersSpec => []SearchAgrees
<1>1. FInv => SearchAgrees
  <2> SUFFICES ASSUME FInv, offer # NoOffer, NEW q \in Query
               PROVE  /\ Applicable(offer, q) /\ today <= q.checkIn => Matched(offer, q)
                      /\ Matched(offer, q) /\ ~Applicable(offer, q) =>
                            \/ ~WithinPeriod(offer, q)
                            \/ offer.stay.maximum # Null /\ Stayed(q) > offer.stay.maximum
    BY DEF SearchAgrees
  <2>1. /\ offer.period \in Period /\ offer.stay \in StayLimits /\ offer.switches \in Switches
    BY OfferTypes DEF FInv
  <2>2. /\ offer.period.from \in Int /\ offer.period.to \in Int /\ today \in Int
        /\ offer.switches.limit \in Limit
        /\ offer.stay.maximum # Null => offer.stay.maximum \in Int
    <3>1. LastDay \in Nat /\ LastToday \in Nat /\ Length \subseteq Nat
      BY OffersAssumption
    <3>2. offer.period.from \in Day /\ offer.period.to \in Day /\ today \in 0..LastToday
      BY <2>1 DEF Period, FInv, OffersTypeOK
    <3>3. offer.period.from \in Int /\ offer.period.to \in Int /\ today \in Int
      BY <3>1, <3>2 DEF Day
    <3>4. offer.switches.limit \in Limit /\ offer.stay.maximum \in Length \cup {Null}
      BY <2>1 DEF Switches, StayLimits
    <3>5. \A n \in Length : n \in Int
      BY <3>1
    <3>6. offer.stay.maximum # Null => offer.stay.maximum \in Int
      BY <3>4, <3>5
    <3>7. QED
      BY <3>3, <3>4, <3>6
  <2>3. /\ q.checkIn \in Int /\ q.checkOut \in Int /\ Stayed(q) \in Int
        /\ q.checkIn < q.checkOut
    BY OffersAssumption DEF Query, Day, Stayed
  <2>4. WithinPeriod(offer, q) =>
            /\ offer.period.from <= q.checkIn /\ q.checkIn <= offer.period.to
            /\ offer.period.from <= q.checkOut /\ q.checkOut <= offer.period.to
    BY <2>2, <2>3 DEF WithinPeriod
  <2>5. \A day \in NightsOf(q) : day \in Int /\ q.checkIn <= day /\ day < q.checkOut
    BY <2>3 DEF NightsOf
  <2>6. ASSUME Applicable(offer, q), today <= q.checkIn PROVE Matched(offer, q)
    BY <2>4, <2>6 DEF Applicable, Reached, IsAvailable, AppliesTo, Matched
  <2>7. ASSUME Matched(offer, q), WithinPeriod(offer, q),
               offer.stay.maximum = Null \/ ~(Stayed(q) > offer.stay.maximum)
        PROVE  Applicable(offer, q)
    <3>1. IsAvailable(offer)
      <4>1. offer.switches.limit \in Nat \cup {Null}
        BY <2>2, OffersAssumption
      <4>2. Truthy(offer.switches.limit) => 0 < offer.switches.limit
        BY <4>1 DEF Truthy
      <4>3. QED
        BY <4>2, <2>7 DEF Matched, IsAvailable
    <3>2. offer.stay.maximum = Null \/ Stayed(q) <= offer.stay.maximum
      BY <2>2, <2>3, <2>7
    <3>3. \A day \in NightsOf(q) : day \in offer.period.from .. offer.period.to
      BY <2>2, <2>3, <2>4, <2>5, <2>7
    <3>4. \A day \in NightsOf(q) : AppliesTo(offer, day)
      BY <3>3, <2>7 DEF AppliesTo, Matched
    <3>5. QED
      BY <3>1, <3>2, <3>4, <2>7 DEF Applicable, Reached, Matched
  <2>8. QED
    BY <2>6, <2>7
<1>2. QED
  BY FInvInit, FInvNext, <1>1, PTL DEF OffersSpec

(* A percentage of a sum is between nothing and the sum.                   *)
LEMMA PartOfSum ==
    ASSUME NEW x \in Int, NEW p \in 0..100
    PROVE  /\ (x * p) \div 100 \in Int
           /\ x >= 0 => (x * p) \div 100 \in 0..x
           /\ x < 0 => (x * p) \div 100 \in x..0
<1>1. x * p \in Int
  BY SMTT(30)
<1>2. x >= 0 => 0 <= x * p /\ x * p <= x * 100
  BY SMTT(30)
<1>3. x < 0 => x * 100 <= x * p /\ x * p <= 0
  BY SMTT(30)
<1>4. QED
  BY <1>1, <1>2, <1>3, SMTT(30)

(* A computed price is between nothing and the price without the offer,    *)
(* and nothing where that price is negative.                               *)
THEOREM QuotesBounded == OffersSpec => []QuoteBounded
<1>1. FInv => QuoteBounded
  <2> SUFFICES ASSUME FInv, NEW q \in Query, Computed(q)
               PROVE  /\ Discounted(offer, q) \in 0..(IF Original(q) < 0 THEN 0 ELSE Original(q))
                      /\ \/ Discounted(offer, q) + Discount(offer.pricing, q) = Original(q)
                         \/ /\ offer.pricing.type = "fixed_amount" \/ q.price < 0
                            /\ Discounted(offer, q) = 0 /\ Discount(offer.pricing, q) > Original(q)
    BY DEF QuoteBounded
  <2> DEFINE p == offer.pricing
             x == Original(q)
             d == Discount(p, q)
  <2>1. p \in Pricing /\ Rate(p) # Null
    BY OfferTypes DEF FInv, Computed, Raises
  <2>2. Stayed(q) \in Nat \ {0} /\ q.price \in Int
    <3>1. LastDay \in Nat /\ BasePrice \subseteq Int
      BY OffersAssumption
    <3>2. q.price \in BasePrice /\ q.checkIn \in Day /\ q.checkOut \in Day /\ q.checkIn < q.checkOut
      BY DEF Query
    <3>3. (\A price \in BasePrice : price \in Int) /\ (\A day \in Day : day \in Int)
      BY <3>1 DEF Day
    <3>4. q.checkIn \in Int /\ q.checkOut \in Int /\ q.price \in Int
      BY <3>2, <3>3
    <3>5. QED
      BY <3>2, <3>4 DEF Stayed
  <2>3. x \in Int /\ x = q.price * Stayed(q)
    BY <2>2 DEF Original
  <2>0. x < 0 => q.price < 0
    <3>1. \A n \in Nat, m \in Int : n >= 0 /\ (m >= 0 => m * n >= 0)
      OBVIOUS
    <3>2. QED
      BY <3>1, <2>2, <2>3
  <2>4. CASE p.type = "percentage"
    <3>1. p.percent \in 0..100
      BY <2>1, <2>4, OffersAssumption DEF Rate, Pricing
    <3>2. d = (x * p.percent) \div 100
      BY <2>3, <2>4 DEF Discount
    <3>3. d \in Int /\ (x >= 0 => d \in 0..x) /\ (x < 0 => d \in x..0)
      BY <3>1, <3>2, <2>3, PartOfSum
    <3>4. Discounted(offer, q) = IF x - d < 0 THEN 0 ELSE x - d
      BY DEF Discounted
    <3>5. CASE x >= 0
      BY <3>3, <3>4, <3>5, <2>3
    <3>6. CASE x < 0
      BY <3>3, <3>4, <3>6, <2>3, <2>0
    <3>7. QED
      BY <3>5, <3>6, <2>3
  <2>5. CASE p.type = "fixed_amount"
    <3>1. p.amount \in Nat
      BY <2>1, <2>5, OffersAssumption DEF Rate, Pricing
    <3>2. d = p.amount * (IF p.perNight THEN Stayed(q) ELSE 1)
      BY <2>5 DEF Discount
    <3>3. d \in Nat
      BY <3>1, <3>2, <2>2
    <3>4. QED
      BY <3>3, <2>3, <2>5, <2>0 DEF Discounted
  <2>6. CASE p.type = "package"
    <3>1. d = 0
      BY <2>6 DEF Discount
    <3>2. QED
      BY <3>1, <2>3, <2>0 DEF Discounted
  <2>7. QED
    BY <2>1, <2>4, <2>5, <2>6 DEF Pricing
<1>2. QED
  BY FInvInit, FInvNext, <1>1, PTL DEF OffersSpec

----------------------------------------------------------------------------
(* The room search.                                                        *)

(* Rooms are checked against their type when they are saved.               *)
RInv ==
    /\ Rooms!SearchTypeOK
    /\ lowered \/ \A r \in Room : room[r].capacity <= typeMax

LEMMA RInvInit == Rooms!SearchInit => RInv
<1> SUFFICES ASSUME Rooms!SearchInit PROVE RInv
  OBVIOUS
<1>1. MaxCapacity \in Nat \ {0} /\ LastToday \in Nat
  BY SlotAssumption, OffersAssumption
<1>2. MaxCapacity \in Rooms!Guests
  BY <1>1 DEF Rooms!Guests
<1>3. QED
  <2>1. 0 \in 0..LastToday
    BY <1>1
  <2>2. Rooms!SearchTypeOK
    BY <1>2, <2>1 DEF Rooms!SearchInit, Rooms!SearchTypeOK, Rooms!RoomRow
  <2>3. \A r \in Room : room[r].capacity <= typeMax
    BY <1>1 DEF Rooms!SearchInit
  <2>4. QED
    BY <2>2, <2>3 DEF RInv

LEMMA PutStep ==
    ASSUME RInv, NEW b \in Slot, NEW r \in Rooms!Row, Rooms!Put(b, r)
    PROVE  RInv'
  BY DEF Rooms!Put, RInv, Rooms!SearchTypeOK

LEMMA RInvNext == RInv /\ [Rooms!SearchNext]_(Rooms!searchVars) => RInv'
<1> SUFFICES ASSUME RInv, [Rooms!SearchNext]_(Rooms!searchVars) PROVE RInv'
  OBVIOUS
<1>0. \A n \in Rooms!Guests : n \in Int
  BY SlotAssumption DEF Rooms!Guests
<1>1. ASSUME NEW b \in Slot, NEW s \in Rooms!Stay, NEW guests, Rooms!ApiReserve(b, s, guests)
      PROVE  RInv'
  BY <1>1, PutStep DEF Rooms!ApiReserve, Rooms!Row, Rooms!Status
<1>2. ASSUME NEW b \in Slot, NEW s \in Rooms!Stay, NEW status_ \in Rooms!Status,
             Rooms!DeskSave(b, s, status_)
      PROVE  RInv'
  BY <1>2, PutStep DEF Rooms!DeskSave, Rooms!Row
<1>3. ASSUME NEW b \in Slot, NEW status_ \in Rooms!Status, Rooms!SetStatus(b, status_) PROVE RInv'
  <2>1. table[b] \in Rooms!Row
    BY <1>3 DEF Rooms!SetStatus, Rooms!Visible, RInv, Rooms!SearchTypeOK
  <2>2. [table[b] EXCEPT !.status = status_] \in Rooms!Row
    BY <2>1 DEF Rooms!Row
  <2>3. QED
    BY <2>2, <1>3, PutStep DEF Rooms!SetStatus
<1>4. ASSUME NEW b \in Slot, Rooms!Remove(b) PROVE RInv'
  <2>1. table[b] \in Rooms!Row
    BY <1>4 DEF Rooms!Remove, Rooms!Visible, RInv, Rooms!SearchTypeOK
  <2>2. [table[b] EXCEPT !.deleted = TRUE] \in Rooms!Row
    BY <2>1 DEF Rooms!Row
  <2>3. QED
    BY <2>2, <1>4, PutStep DEF Rooms!Remove
<1>5. ASSUME NEW r \in Room, NEW row \in Rooms!RoomRow, Rooms!SaveRoom(r, row) PROVE RInv'
  BY <1>5 DEF Rooms!SaveRoom, RInv, Rooms!SearchTypeOK
<1>6. ASSUME NEW r \in Room, NEW active \in BOOLEAN, NEW maintenance \in BOOLEAN,
              Rooms!SetFlags(r, active, maintenance)
       PROVE  RInv'
  <2>1. /\ room' = [room EXCEPT ![r].active = active, ![r].maintenance = maintenance]
        /\ UNCHANGED <<today, openHotel, typeMax, lowered, table>>
    BY <1>6 DEF Rooms!SetFlags
  <2>2. room' \in [Room -> Rooms!RoomRow]
    BY <2>1 DEF RInv, Rooms!SearchTypeOK, Rooms!RoomRow
  <2>3. \A x \in Room : room'[x].capacity = room[x].capacity
    BY <2>1 DEF RInv, Rooms!SearchTypeOK, Rooms!RoomRow
  <2>4. QED
    BY <2>1, <2>2, <2>3 DEF RInv, Rooms!SearchTypeOK
<1>7. ASSUME NEW max \in Rooms!Guests, Rooms!SaveType(max) PROVE RInv'
  <2>1. /\ typeMax' = max /\ lowered' = (lowered \/ max < typeMax)
        /\ UNCHANGED <<today, openHotel, room, table>>
    BY <1>7 DEF Rooms!SaveType
  <2>2. typeMax \in Int /\ max \in Int /\ \A r \in Room : room[r].capacity \in Int
    BY <1>0 DEF RInv, Rooms!SearchTypeOK, Rooms!RoomRow
  <2>3. lowered' \/ \A r \in Room : room'[r].capacity <= typeMax'
    <3>1. CASE lowered \/ max < typeMax
      BY <3>1, <2>1
    <3>2. CASE ~lowered /\ ~(max < typeMax)
      <4>1. \A r \in Room : room[r].capacity <= typeMax
        BY <3>2 DEF RInv
      <4>2. typeMax <= max
        BY <3>2, <2>2
      <4>3. \A r \in Room : room[r].capacity <= max
        BY <4>1, <4>2, <2>2
      <4>4. QED
        BY <4>3, <2>1
    <3>3. QED
      BY <3>1, <3>2
  <2>4. Rooms!SearchTypeOK'
    BY <2>1 DEF RInv, Rooms!SearchTypeOK
  <2>5. QED
    BY <2>3, <2>4 DEF RInv
<1>8. ASSUME NEW active \in BOOLEAN, Rooms!SaveHotel(active) PROVE RInv'
  BY <1>8 DEF Rooms!SaveHotel, RInv, Rooms!SearchTypeOK
<1>9. CASE Rooms!NextDay
  <2>1. /\ today < LastToday /\ today' = today + 1
        /\ UNCHANGED <<openHotel, typeMax, lowered, room, table>>
    BY <1>9 DEF Rooms!NextDay
  <2>2. LastToday \in Nat
    BY OffersAssumption
  <2>3. today' \in 0..LastToday
    BY <2>1, <2>2 DEF RInv, Rooms!SearchTypeOK
  <2>4. QED
    BY <2>1, <2>3 DEF RInv, Rooms!SearchTypeOK
<1>10. CASE UNCHANGED Rooms!searchVars
  BY <1>10 DEF RInv, Rooms!SearchTypeOK, Rooms!searchVars
<1>11. QED
  BY <1>1, <1>2, <1>3, <1>4, <1>5, <1>6, <1>7, <1>8, <1>9, <1>10 DEF Rooms!SearchNext

(* What the search shows and what the reservation accepts differ only      *)
(* where SearchMatchesReserve says, for any rooms, bookings and capacities *)
(* (core/views.py 1459, bookings/booking_services.py 50).                  *)
THEOREM SearchesMatchReservations == Rooms!SearchSpec => []SearchMatchesReserve
<1>1. RInv => SearchMatchesReserve
  <2> SUFFICES ASSUME RInv, NEW s \in Rooms!Stay, NEW guests \in Rooms!Guests
               PROVE  /\ Rooms!Accepted(s, guests) /\ Rooms!Listed(s.room) =>
                             Rooms!Found(s, guests) \/ (lowered /\ guests > typeMax)
                      /\ Rooms!Found(s, guests) /\ ~Rooms!Accepted(s, guests) =>
                             \/ Rooms!Holding(s, {"pending"}) # {}
                             \/ guests > room[s.room].capacity
                             \/ s.checkIn < today
                      /\ Rooms!Found(s, guests) /\ guests <= room[s.room].capacity =>
                             Rooms!FoundFlexibly(s.room, guests) /\ Rooms!FoundByCapacity(s.room, guests)
    BY DEF SearchMatchesReserve, Rooms!SearchMatchesReserve
  <2>1. /\ \A n \in Rooms!Guests : n \in Int
        /\ \A day \in Day : day \in Int
        /\ \A n \in 0..LastToday : n \in Int
    BY SlotAssumption, OffersAssumption DEF Rooms!Guests, Day
  <2>2. s.room \in Room /\ s.checkIn \in Day
    BY DEF Rooms!Stay
  <2>3. /\ guests \in Int /\ typeMax \in Int /\ room[s.room].capacity \in Int
        /\ today \in Int /\ s.checkIn \in Int
    BY <2>1, <2>2 DEF RInv, Rooms!SearchTypeOK, Rooms!RoomRow
  <2>4. \A b \in Slot : Rooms!Visible(table[b]) => table[b].status \in Rooms!Status
    BY DEF RInv, Rooms!SearchTypeOK, Rooms!Visible, Rooms!Row
  <2>5. Rooms!Holding(s, {"confirmed", "checked_in"}) \subseteq Rooms!Holding(s, Rooms!LiveStatus)
    BY <2>4 DEF Rooms!Holding, Rooms!LiveStatus, Rooms!Status
  <2>6. Rooms!Holding(s, Rooms!LiveStatus) \subseteq
            Rooms!Holding(s, {"confirmed", "checked_in"}) \cup Rooms!Holding(s, {"pending"})
    BY DEF Rooms!Holding, Rooms!LiveStatus
  <2>7. lowered \/ room[s.room].capacity <= typeMax
    BY <2>2 DEF RInv
  <2>8. Rooms!Accepted(s, guests) /\ Rooms!Listed(s.room) =>
            Rooms!Found(s, guests) \/ (lowered /\ guests > typeMax)
    BY <2>3, <2>5, <2>7 DEF Rooms!Accepted, Rooms!Listed, Rooms!Found
  <2>9. Rooms!Found(s, guests) /\ ~Rooms!Accepted(s, guests) =>
            \/ Rooms!Holding(s, {"pending"}) # {}
            \/ guests > room[s.room].capacity
            \/ s.checkIn < today
    BY <2>3, <2>6 DEF Rooms!Accepted, Rooms!Found
  <2>10. Rooms!Found(s, guests) /\ guests <= room[s.room].capacity =>
             Rooms!FoundFlexibly(s.room, guests) /\ Rooms!FoundByCapacity(s.room, guests)
    BY DEF Rooms!Found, Rooms!FoundFlexibly, Rooms!FoundByCapacity, Rooms!Bookable
  <2>11. QED
    BY <2>8, <2>9, <2>10
<1>2. QED
  BY RInvInit, RInvNext, <1>1, PTL DEF Rooms!SearchSpec

----------------------------------------------------------------------------
(* The four together.  They share the clock only, and a midnight of the    *)
(* one is a midnight of the other.                                         *)

(* A step of any of them, in any order.  A behaviour of OfficeSpec moves   *)
(* only the one it has chosen at the start.                                *)
SideBySideNext ==
    \/ MailNext /\ UNCHANGED <<deskVars, offerVars, searchRest>>
    \/ DeskNext /\ UNCHANGED <<mailVars, offerVars, searchRest>>
    \/ OffersNext /\ UNCHANGED <<mailVars, deskVars, searchRest>>
    \/ Rooms!SearchNext /\ UNCHANGED <<mailVars, deskVars, offerRest>>

sideVars == <<mailVars, deskVars, offerVars, searchRest>>

SideBySide ==
    /\ MailInit /\ DeskInit /\ OffersInit /\ Rooms!SearchInit
    /\ [][SideBySideNext]_sideVars /\ MailFairness

LEMMA OffersClock == OffersNext => Midnight \/ UNCHANGED today
<1>1. \A o \in Offer, named \in BOOLEAN : DeskCreate(o) \/ ApiCreate(o, named) => UNCHANGED today
  BY DEF DeskCreate, ApiCreate, Write
<1>2. \A day, end : PatchPeriod(day, end) => UNCHANGED today
  BY DEF PatchPeriod, Write
<1>3. \A n, most : PatchStay(n, most) => UNCHANGED today
  BY DEF PatchStay, Write
<1>4. \A p : PatchPricing(p) => UNCHANGED today
  BY DEF PatchPricing, Write
<1>5. \A x, days : PatchRest(x, days) => UNCHANGED today
  BY DEF PatchRest, Write
<1>6. \A p, d, l, x : DeskEdit(p, d, l, x) => UNCHANGED today
  BY DEF DeskEdit, Write
<1>7. Delete => UNCHANGED today
  BY DEF Delete, Write
<1>8. QED
  BY <1>1, <1>2, <1>3, <1>4, <1>5, <1>6, <1>7 DEF OffersNext

LEMMA RoomsClock == Rooms!SearchNext => Rooms!NextDay \/ UNCHANGED today
  BY DEF Rooms!SearchNext, Rooms!ApiReserve, Rooms!DeskSave, Rooms!SetStatus,
     Rooms!Remove, Rooms!SaveRoom, Rooms!SetFlags, Rooms!SaveType, Rooms!SaveHotel,
     Rooms!Put

LEMMA SideBySideStep ==
    ASSUME [SideBySideNext]_sideVars
    PROVE  /\ [MailNext]_mailVars
           /\ [DeskNext]_deskVars
           /\ [OffersNext]_offerVars
           /\ [Rooms!SearchNext]_(Rooms!searchVars)
<1>1. CASE MailNext /\ UNCHANGED <<deskVars, offerVars, searchRest>>
  BY <1>1 DEF offerVars, searchRest, Rooms!searchVars
<1>2. CASE DeskNext /\ UNCHANGED <<mailVars, offerVars, searchRest>>
  BY <1>2 DEF offerVars, searchRest, Rooms!searchVars
<1>3. CASE OffersNext /\ UNCHANGED <<mailVars, deskVars, searchRest>>
  <2>1. Midnight \/ UNCHANGED today
    BY <1>3, OffersClock
  <2>2. Rooms!NextDay \/ UNCHANGED Rooms!searchVars
    BY <1>3, <2>1 DEF Midnight, Rooms!NextDay, Rooms!searchVars, searchRest
  <2>3. QED
    BY <1>3, <2>2 DEF Rooms!SearchNext
<1>4. CASE Rooms!SearchNext /\ UNCHANGED <<mailVars, deskVars, offerRest>>
  <2>1. Rooms!NextDay \/ UNCHANGED today
    BY <1>4, RoomsClock
  <2>2. Midnight \/ UNCHANGED offerVars
    BY <1>4, <2>1 DEF Midnight, Rooms!NextDay, offerVars, offerRest
  <2>3. QED
    BY <1>4, <2>2 DEF OffersNext
<1>5. CASE UNCHANGED sideVars
  BY <1>5 DEF sideVars, offerVars, searchRest, Rooms!searchVars
<1>6. QED
  BY <1>1, <1>2, <1>3, <1>4, <1>5 DEF SideBySideNext

(* A behaviour of the four side by side, their steps in any order, is one  *)
(* of each of them: what is proved of a component holds beside the others. *)
THEOREM SideBySideImplementsComponents ==
    SideBySide => MailSpec /\ DeskSpec /\ OffersSpec /\ Rooms!SearchSpec
<1>1. [SideBySideNext]_sideVars => /\ [MailNext]_mailVars
                                   /\ [DeskNext]_deskVars
                                   /\ [OffersNext]_offerVars
                                   /\ [Rooms!SearchNext]_(Rooms!searchVars)
  BY SideBySideStep
<1>2. QED
  BY <1>1, PTL DEF SideBySide, MailSpec, DeskSpec, OffersSpec, Rooms!SearchSpec

(* The composition that is model-checked is one of its cases.              *)
LEMMA OfficeIsSideBySide == OfficeSpec => SideBySide
<1>1. OfficeInit => MailInit /\ DeskInit /\ OffersInit /\ Rooms!SearchInit
  BY DEF OfficeInit
<1>2. [OfficeNext]_officeVars => [SideBySideNext]_sideVars
  BY DEF OfficeNext, SideBySideNext, officeVars, sideVars
<1>3. QED
  BY <1>1, <1>2, PTL DEF OfficeSpec, SideBySide

(* The tables of the four components have their types, for any number of   *)
(* bookings, tasks, clerks, offers and rooms.                              *)
THEOREM OfficeTyped == SideBySide => []OfficeTypeOK
<1>1. MInv /\ NInv /\ DInv /\ FInv /\ RInv => OfficeTypeOK
  BY MailsTyped DEF OfficeTypeOK, DInv, FInv, RInv
<1>2. MailSpec => [](MInv /\ NInv)
  BY MInvInit, MInvNext, NInvInit, NInvNext, PTL DEF MailSpec
<1>3. DeskSpec => []DInv
  BY DInvInit, DInvNext, PTL DEF DeskSpec
<1>4. OffersSpec => []FInv
  BY FInvInit, FInvNext, PTL DEF OffersSpec
<1>5. Rooms!SearchSpec => []RInv
  BY RInvInit, RInvNext, PTL DEF Rooms!SearchSpec
<1>6. QED
  BY <1>1, <1>2, <1>3, <1>4, <1>5, SideBySideImplementsComponents, PTL

(* Whatever the run checks of the office's safety holds of every instance: *)
(* the components keep beside the others what each of them keeps alone.    *)
THEOREM OfficeSafe ==
    OfficeSpec => /\ []OfficeTypeOK
                  /\ []AnswerKept /\ []ConfirmationsBounded
                  /\ []RefundsInOrder /\ DateLostOnlyByStaleCopies
                  /\ []FailsOnlyIncomplete /\ []SearchAgrees /\ []QuoteBounded
                  /\ []SearchMatchesReserve
  BY OfficeIsSideBySide, SideBySideImplementsComponents, OfficeTyped, AnswersKept,
     FewConfirmations, RefundsComplete, DatesLostByStaleCopies, CheckedOffersCalculate,
     SearchAndCalculationAgree, QuotesBounded, SearchesMatchReservations, PTL
=============================================================================
