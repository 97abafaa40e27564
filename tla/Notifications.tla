---------------------------- MODULE Notifications ---------------------------
(***************************************************************************)
(* The mails that tell a guest of a confirmed reservation and of a         *)
(* cancellation: sent by the request itself, through Celery when that      *)
(* fails or by choice, and retried by the task.  The request answers with  *)
(* what became of the mail.  The mail server may fail before or after it   *)
(* has accepted a mail, the broker may be down, a worker may die with the  *)
(* task it has taken (Celery acknowledges a task when it is taken).        *)
(*                                                                         *)
(* Beside them the receiver of post_save (bookings/signals.py) mails the   *)
(* guest at every save of a booking, whoever saves it, inside the saver's  *)
(* transaction and without a word to anybody when the mail fails.          *)
(*                                                                         *)
(* History: given is the set of <<booking, kind>> whose task ended without *)
(* a mail, saves counts the saves that made the receiver mail; nothing in  *)
(* the program reads them.                                                 *)
(***************************************************************************)
EXTENDS Integers, FiniteSets

CONSTANTS
    Booking,        \* keys of table booking
    Worker,         \* API requests that may be in progress at the same time
    Task,           \* Celery messages
    MaxRetries,     \* max_retries of both mail tasks: 3
    MaxSaves,       \* bound: no save elsewhere after that many of a booking
    Nil,            \* no request, no message
    Ended           \* a message that has been taken for the last time

ASSUME NotificationsAssumption == MaxRetries \in Nat /\ MaxSaves \in Nat

Kind == {"confirmation", "cancellation"}

(* "active" stands for pending and confirmed, "purged" for a row that      *)
(* Booking.objects does not see any more.  A creation that was rolled back *)
(* has used up its key: "undone".                                          *)
Status == {"none", "active", "completed", "cancelled", "purged", "undone"}

Stored == {"active", "completed", "cancelled"}

(* What a request tells its client of the mail.                            *)
Answer == {"sent", "queued", "failed", "no mail", "error"}

Op == {"create", "cancel", "destroy", "update"}
Stage == {"loaded", "read", "changed", "unsent"}

(* A request in progress; was is the status its decision to mail rests on. *)
Request == [op : Op, at : Stage, key : Booking, was : Status]

(* A message on its way; tries counts the retries so far.                  *)
Message == [key : Booking, kind : Kind, tries : 0..MaxRetries]

ASSUME NilAssumption ==
    /\ Nil \notin Request \cup Message
    /\ Ended \notin Message \cup {Nil}

VARIABLES
    status,         \* column status of each booking
    delivered,      \* mails of requests and tasks the mail server accepted
    noticed,        \* mails of the receiver the mail server accepted
    answers,        \* answers given, per booking and kind of mail
    task,           \* messages: Nil, in the queue, or Ended
    request,
    given,          \* history, see above
    saves           \* history, see above

noticeVars == <<noticed, saves>>

mailVars == <<status, delivered, answers, task, request, given, noticeVars>>

MailRowsOK ==
    /\ status \in [Booking -> Status]
    /\ delivered \in [Booking -> [Kind -> Nat]]
    /\ answers \in [Booking -> [Kind -> SUBSET Answer]]
    /\ task \in [Task -> Message \cup {Nil, Ended}]
    /\ request \in [Worker -> Request \cup {Nil}]
    /\ given \subseteq Booking \X Kind

MailTypeOK ==
    /\ MailRowsOK
    /\ noticed \in [Booking -> [Kind -> Nat]]
    /\ saves \in [Booking -> [Kind -> Nat]]

MailInit ==
    /\ status = [b \in Booking |-> "none"]
    /\ delivered = [b \in Booking |-> [k \in Kind |-> 0]]
    /\ answers = [b \in Booking |-> [k \in Kind |-> {}]]
    /\ task = [t \in Task |-> Nil]
    /\ request = [w \in Worker |-> Nil]
    /\ given = {}
    /\ noticed = [b \in Booking |-> [k \in Kind |-> 0]]
    /\ saves = noticed

----------------------------------------------------------------------------
KindOf(op) == IF op = "create" THEN "confirmation" ELSE "cancellation"

Doing(w, ops, stage) ==
    request[w] # Nil /\ request[w].op \in ops /\ request[w].at = stage

Start(w, op, at, b) ==
    /\ request[w] = Nil
    /\ request' = [request EXCEPT ![w] =
            [op |-> op, at |-> at, key |-> b, was |-> status[b]]]

Reply(w, answer) ==
    /\ answers' = [answers EXCEPT ![request[w].key][KindOf(request[w].op)] = @ \cup {answer}]
    /\ request' = [request EXCEPT ![w] = Nil]

Deliver(b, k) == delivered' = [delivered EXCEPT ![b][k] = @ + 1]

(* send_booking_email_notification at a save with status st: the subject   *)
(* is chosen by the status, the mail fails silently.  A save of a pending  *)
(* booking that is not its creation says 'Booking Updated' instead.  The   *)
(* thanks for a completed stay are not counted.                            *)
Announce(b, st) ==
    \/ /\ st \in {"active", "cancelled"}
       /\ LET k == IF st = "active" THEN "confirmation" ELSE "cancellation" IN
          /\ saves' = [saves EXCEPT ![b][k] = @ + 1]
          /\ \/ noticed' = [noticed EXCEPT ![b][k] = @ + 1]
             \/ UNCHANGED noticed
    \/ st \notin {"active", "cancelled"} /\ UNCHANGED noticeVars

----------------------------------------------------------------------------
(* The requests.                                                           *)

(* BookingCreateAPIView: reserve_room has committed the booking.           *)
Create(w, b) ==
    /\ status[b] = "none"
    /\ Start(w, "create", "changed", b)
    /\ status' = [status EXCEPT ![b] = "active"]
    /\ Announce(b, "active")
    /\ UNCHANGED <<delivered, answers, task, given>>

(* The booking was inserted and announced, then the audit entry or the     *)
(* commit failed: reserve_room rolls back and the view answers an error.   *)
CreateRolledBack(b) ==
    /\ status[b] = "none"
    /\ status' = [status EXCEPT ![b] = "undone"]
    /\ Announce(b, "active")
    /\ UNCHANGED <<delivered, answers, task, request, given>>

(* send_booking_confirmation_email: accepted and reported so, or an        *)
(* exception, which does not say whether the server accepted the mail.     *)
SendConfirmation(w) ==
    /\ Doing(w, {"create"}, "changed")
    /\ \/ Deliver(request[w].key, "confirmation") /\ Reply(w, "sent")
       \/ /\ request' = [request EXCEPT ![w].at = "unsent"]
          /\ UNCHANGED answers
          /\ \/ Deliver(request[w].key, "confirmation")
             \/ UNCHANGED delivered
    /\ UNCHANGED <<status, task, given, noticeVars>>

(* BookingCancellationAPIView: cancel_booking has saved the cancellation.  *)
Cancel(w, b) ==
    /\ status[b] = "active"
    /\ Start(w, "cancel", "changed", b)
    /\ status' = [status EXCEPT ![b] = "cancelled"]
    /\ Announce(b, "cancelled")
    /\ UNCHANGED <<delivered, answers, task, given>>

(* Mutant: a flag is returned beside an error message, as the view expects.*)
SendCancellation_Pair(w) ==
    /\ Doing(w, {"cancel"}, "changed")
    /\ Deliver(request[w].key, "cancellation") \/ UNCHANGED delivered
    /\ Reply(w, "sent")
    /\ UNCHANGED <<status, task, given, noticeVars>>

(* send_booking_cancellation_email returns a bool where the view unpacks a *)
(* pair: whether or not the mail went out the view answers 500.            *)
SendCancellation(w) ==
    /\ Doing(w, {"cancel"}, "changed")
    /\ Deliver(request[w].key, "cancellation") \/ UNCHANGED delivered
    /\ Reply(w, "error")
    /\ UNCHANGED <<status, task, given, noticeVars>>

(* BookingDeleteAPIView.destroy: was_active is read from the instance.     *)
LoadDestroy(w, b) ==
    /\ status[b] \in {"active", "completed"}
    /\ Start(w, "destroy", "read", b)
    /\ UNCHANGED <<status, delivered, answers, task, given, noticeVars>>

(* BookingUpdateAPIView, with status=cancelled: the serializer's instance  *)
(* must be active; perform_update then reads the row a second time.        *)
LoadUpdate(w, b) ==
    /\ status[b] = "active"
    /\ Start(w, "update", "loaded", b)
    /\ UNCHANGED <<status, delivered, answers, task, given, noticeVars>>

ReadAgain(w) ==
    /\ Doing(w, {"update"}, "loaded")
    /\ status[request[w].key] # "purged"
    /\ request' = [request EXCEPT ![w].at = "read", ![w].was = status[request[w].key]]
    /\ UNCHANGED <<status, delivered, answers, task, given, noticeVars>>

(* The cancellation is saved (the whole row, a purged one anew).  Without  *)
(* an active status before there is no mail.                               *)
SaveCancelled(w) ==
    LET r == request[w] IN
    /\ Doing(w, {"destroy", "update"}, "read")
    /\ status' = [status EXCEPT ![r.key] = "cancelled"]
    /\ Announce(r.key, "cancelled")
    /\ IF r.was = "active" \/ (r.op = "update" /\ r.was = "completed")
       THEN request' = [request EXCEPT ![w].at = "unsent"] /\ UNCHANGED answers
       ELSE Reply(w, "no mail")
    /\ UNCHANGED <<delivered, task, given>>

(* The mail task is queued.                                                *)
Enqueue(w, t) ==
    /\ Doing(w, {"create", "destroy", "update"}, "unsent")
    /\ task[t] = Nil
    /\ task' = [task EXCEPT ![t] = [key |-> request[w].key,
                                    kind |-> KindOf(request[w].op), tries |-> 0]]
    /\ Reply(w, "queued")
    /\ UNCHANGED <<status, delivered, given, noticeVars>>

(* The broker does not answer: only the create view catches that.          *)
EnqueueFails(w) ==
    /\ Doing(w, {"create", "destroy", "update"}, "unsent")
    /\ Reply(w, IF request[w].op = "create" THEN "failed" ELSE "error")
    /\ UNCHANGED <<status, delivered, task, given, noticeVars>>

(* The client or the process goes away; what was done stays.               *)
Abandon(w) ==
    /\ request[w] # Nil
    /\ request' = [request EXCEPT ![w] = Nil]
    /\ UNCHANGED <<status, delivered, answers, task, given, noticeVars>>

----------------------------------------------------------------------------
(* The tasks.                                                              *)

EndTask(t) == task' = [task EXCEPT ![t] = Ended]

GiveUp(t) ==
    /\ EndTask(t)
    /\ given' = given \cup {<<task[t].key, task[t].kind>>}

Queued(t) == task[t] \in Message

Found(t) == status[task[t].key] # "purged"

SendByTask(t) ==
    /\ Queued(t) /\ Found(t)
    /\ Deliver(task[t].key, task[t].kind)
    /\ EndTask(t)
    /\ UNCHANGED <<status, answers, request, given, noticeVars>>

(* send_confirmation_email_async of a booking that is gone just returns.   *)
FindNothing(t) ==
    /\ Queued(t) /\ ~Found(t) /\ task[t].kind = "confirmation"
    /\ GiveUp(t)
    /\ UNCHANGED <<status, delivered, answers, request, noticeVars>>

(* Mutant: the count of retries starts again when it has reached its limit.*)
Retry_CountsAnew(t) ==
    /\ Queued(t)
    /\ task[t].kind = "cancellation" \/ Found(t)
    /\ \/ Found(t) /\ Deliver(task[t].key, task[t].kind)
       \/ UNCHANGED delivered
    /\ task' = [task EXCEPT ![t].tries = (@ + 1) % (MaxRetries + 1)]
    /\ UNCHANGED <<status, answers, request, given, noticeVars>>

(* Mutant: a booking that is missing is waited for.                        *)
Retry_WaitsForBooking(t) ==
    /\ Queued(t)
    /\ task[t].tries < MaxRetries \/ ~Found(t)
    /\ task[t].kind = "cancellation" \/ Found(t)
    /\ \/ Found(t) /\ Deliver(task[t].key, task[t].kind)
       \/ UNCHANGED delivered
    /\ task' = [task EXCEPT ![t].tries = (@ + 1) % (MaxRetries + 1)]
    /\ UNCHANGED <<status, answers, request, given, noticeVars>>

(* An exception, with or without the mail having been accepted: retried,   *)
(* MaxRetries times.  The cancellation task also retries when the booking  *)
(* is gone.                                                                *)
Retry(t) ==
    /\ Queued(t)
    /\ task[t].tries < MaxRetries
    /\ task[t].kind = "cancellation" \/ Found(t)
    /\ \/ Found(t) /\ Deliver(task[t].key, task[t].kind)
       \/ UNCHANGED delivered
    /\ task' = [task EXCEPT ![t].tries = @ + 1]
    /\ UNCHANGED <<status, answers, request, given, noticeVars>>

(* The last attempt fails, or the worker dies with the task.               *)
Lose(t) ==
    /\ Queued(t)
    /\ \/ /\ Found(t) /\ task[t].tries = MaxRetries
          /\ Deliver(task[t].key, task[t].kind)
       \/ UNCHANGED delivered
    /\ GiveUp(t)
    /\ UNCHANGED <<status, answers, request, noticeVars>>

RunTask(t) == SendByTask(t) \/ FindNothing(t) \/ Retry(t) \/ Lose(t)

----------------------------------------------------------------------------
(* The rest of the system.                                                 *)

(* Statements that save no instance and announce nothing: the expiry of    *)
(* pending bookings and mark_cancelled, the deletions for good.            *)
Elsewhere(b) ==
    /\ \/ status[b] = "active" /\ status' = [status EXCEPT ![b] = "cancelled"]
       \/ status[b] \in Stored /\ status' = [status EXCEPT ![b] = "purged"]
    /\ UNCHANGED <<delivered, answers, task, request, given, noticeVars>>

(* A save of a new row or of a row once loaded, whatever became of it:     *)
(* confirm_booking, the update endpoint, the manager's form and bulk       *)
(* change, a payment's answer, Booking.soft_delete.                        *)
SavedElsewhere(b) ==
    /\ status[b] # "undone"
    /\ saves[b]["confirmation"] + saves[b]["cancellation"] < MaxSaves
    /\ \/ \E st \in Stored :
             status' = [status EXCEPT ![b] = st] /\ Announce(b, st)
       \/ /\ status[b] \in Stored
          /\ status' = [status EXCEPT ![b] = "purged"]
          /\ Announce(b, status[b])
    /\ UNCHANGED <<delivered, answers, task, request, given>>

RequestNext(w) ==
    \/ \E b \in Booking : Create(w, b) \/ Cancel(w, b) \/ LoadDestroy(w, b) \/ LoadUpdate(w, b)
    \/ SendConfirmation(w)
    \/ SendCancellation(w)
    \/ ReadAgain(w)
    \/ SaveCancelled(w)
    \/ \E t \in Task : Enqueue(w, t)
    \/ EnqueueFails(w)
    \/ Abandon(w)

MailNext ==
    \/ \E w \in Worker : RequestNext(w)
    \/ \E t \in Task : RunTask(t)
    \/ \E b \in Booking : CreateRolledBack(b) \/ Elsewhere(b) \/ SavedElsewhere(b)

(* Celery's workers take the messages of the queue one after the other.    *)
MailFairness == \A t \in Task : WF_mailVars(RunTask(t))

MailSpec == MailInit /\ [][MailNext]_mailVars /\ MailFairness

----------------------------------------------------------------------------
(* Properties.                                                             *)

(* What a client was told of its mail is true as far as the program can    *)
(* know: "sent" was accepted by the mail server; "queued" was accepted, or *)
(* is still in the queue, or its task ended without success.               *)
AnswerKept ==
    \A b \in Booking, k \in Kind :
        /\ "sent" \in answers[b][k] => delivered[b][k] > 0
        /\ "queued" \in answers[b][k] =>
               \/ delivered[b][k] > 0
               \/ \E t \in Task : Queued(t) /\ task[t].key = b /\ task[t].kind = k
               \/ <<b, k>> \in given

(* However often mail server and broker fail, a guest gets at most five    *)
(* confirmations of one booking from the view and its task, one from the   *)
(* request that could not tell it was accepted and one for each of the     *)
(* task's four attempts; and one more at each save of the booking as a     *)
(* pending or confirmed one, the rolled back ones included.                *)
ConfirmationsBounded ==
    \A b \in Booking :
        delivered[b]["confirmation"] + noticed[b]["confirmation"]
            <= MaxRetries + 2 + saves[b]["confirmation"]

(* A task that was queued ends, also one whose booking has been purged.    *)
TasksEnd == \A t \in Task : Queued(t) ~> task[t] = Ended
=============================================================================
