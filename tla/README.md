# Hotel booking engine: specification and verification

TLA+ models of the booking engine under `src/hotel_booking` (Django, Django REST
Framework, PostgreSQL, Celery, the Tap payment gateway), the TLC runs that check
them on small instances, and TLAPS proofs of what matters most for every size.
Paths below are relative to `src/hotel_booking/`. `PROJECT.json` names, for each
definition, the lines it models.

## 1. The system

The program is a set of Django applications over one PostgreSQL database. It keeps
no state in memory between requests: everything is rows of tables, changed by
gunicorn workers (the public API and the manager's site), by Celery workers, and by
the Django admin. `ATOMIC_REQUESTS` is off unless a deployment sets `DB_ATOMIC_REQUESTS`
(`hotel_booking/production.py:39`), and off is what is modelled: a statement commits on
its own unless the code opens a transaction. The isolation level is PostgreSQL's default,
READ COMMITTED.

### Components

| Component | State | Operations | Modelled by |
|---|---|---|---|
| Room reservation (`bookings/booking_services.py`, `RoomReservationService`) | `booking`, the row locks on `room`, `booking_audit_log` | `reserve_room`: lock the room, look for overlaps, insert booking and audit entry, commit | `Reservation`, over `BookingRecord`; promises `RoomLedger` |
| Booking lifecycle (`booking_services.py`, `views.py`, `serializers.py`, `models.py` of `bookings`) | `booking.status`, soft-delete columns, `booking_refund`, audit log | confirm, cancel with refund, PATCH update, DELETE; `Booking.save/clean/soft_delete` | `BookingLifecycle` |
| Manager's booking desk (`manager/views_cbv.py`, `manager/forms.py`) | the same rows, `booking_refund` | create and edit forms, soft delete, bulk delete, bulk status; approve, complete, reject a refund | `BookingLifecycle`, `RefundDesk` |
| Scheduled jobs (`bookings/tasks.py`, `hotel_booking/celery.py`) and admin actions (`bookings/admin.py`) | `booking.created_at`, `updated_at` | expire after 24 h, purge after 30 days; mark confirmed, cancelled, paid; delete for good | `Housekeeping`; also as writers in the other modules |
| Refund policy (`bookings/models.py`, `RefundPolicy`) | `refund_policy` | `calculate_refund` | `Housekeeping` |
| Online payment (`payments/services.py`, `payments/views.py`) and the payment status persons enter (`bookings/serializers.py`, `manager/forms.py`, `bookings/admin.py`, the refund desk) | `payment`, `booking.payment_status`; at the gateway: charges | initiate, webhook, refund; forms, `mark_paid`, a completed refund | `Payments` |
| Notifications (`bookings/views.py`, `bookings/tasks.py`, `bookings/signals.py`) | messages in the broker; mails at the mail server | mail at once, queue, retry, give up; mail at every save of a booking | `Notifications` |
| Accounts (`accounts/*`, manager's login) | `user`, verification and reset links, `failed_login_attempts` | register, log in, verify, reset, change a profile or password | `Accounts` |
| Profile statistics (`accounts/signals.py`) | `total_bookings`, `total_spent` of `user_profile` | recount after some saves, copy with every save of the user | `ProfileStats` |
| Offers (`offers/*`, `OfferForm`) | `offer` | create, PATCH, form, delete; search, calculate | `Offers` |
| Room search (`core/views.py`) | reads `hotel`, `room_type`, `room`, `booking` | three searches, list of rooms; beside them what a reservation accepts | `RoomSearch` |
| Catalogue (`core/models.py`, `manager/*`, `offers/models.py`, `seed_demo.py`) | hotels, room types, rooms and all that refers to them | forms, deletion with its cascades, bulk deletion, seeding; primary pictures | `Catalogue`, `Gallery` |
| Availability service, pricing service, reports, deployment | | | not modelled, see section 7 |

### How they interact

Everything meets in the table `booking`. Components do not call each other to change
it: the API, the manager's forms, the webhook, the Celery jobs and the admin actions
all write its rows directly. Only `reserve_room` takes a lock, and only on the
*room*; nothing locks a booking, and the column `version` ("optimistic locking") is
never incremented nor compared. There are therefore three kinds of writers, and which kind
a writer is decides what can go wrong:

1. **the locked transaction**, `reserve_room`;
2. **single statements**: `queryset.update(...)` of the expiry job and the admin
   actions, `queryset.delete()` of the purge and of bulk deletion, `save(update_fields=...)`
   of a soft delete (as a statement it writes its own columns only);
3. **load, decide, save**: confirm, cancel, PATCH, DELETE, the manager's forms, the
   webhook, the payment requests, and nearly everything that changes a user. Django's `save()` without `update_fields` writes *every*
   column of the instance, so a copy that has become stale undoes what others wrote:
   it revives a cancelled booking, un-deletes a soft-deleted one, and re-inserts one that was
   deleted for good (UPDATE of no row is followed by INSERT).

### Hard behaviours, and what makes each component correct

- *Room reservation*: interleaved requests for one room, a check that is used two
  statements later, rollback at any point, requests waiting on a lock.
  Correct: no night is sold twice; a booking and its audit entry come together or
  not at all; every waiter gets an answer.
- *Lifecycle and desk*: stale copies, requests that straddle midnight (`Booking.clean`
  refuses a past check-in date at every save), a cancellation that stops half-way.
  Correct: a request that only gives nights back never makes a double booking, a booking is
  cancelled once and has its refund record.
- *Scheduled jobs*: age measured by a column that some writers touch and others do
  not; a purge that selects first and deletes later.
  Correct: overdue bookings do expire; what was cancelled is kept for its period.
- *Refund policy*: boundaries of the schedule. Correct: a guest gets what the schedule
  promises.
- *Payments*: webhooks late, repeated or lost, lost answers, two saves per request; persons
  who enter the same column on forms. Correct: what the tables say about money is true at the
  gateway or was entered by a person; nobody is charged twice.
- *Notifications*: a mail server that fails after it has accepted a mail, a broker that is
  down, a worker that dies with its task; a receiver that mails inside the transactions of
  others. Correct: what a client was told of its mail is true; few mails, and every task ends.
- *Accounts*: a counter read, incremented and saved; links looked up before the
  transaction that uses them; saves of whole rows.
  Correct: guessing stays bounded; verifications and passwords have a source; only stale
  copies undo them.
- *Refund desk*: three statements, two clerks, no look at the state of the refund.
  Correct: "completed" is only ever said of what was completed.
- *Offers, search*: two or three readings of the same rows that were written apart, and two
  sets of rules for writing them. Correct: they differ in named cases only.
- *Catalogue*: rows added and moved while others are deleted with what hangs below them.
  Correct: nothing dangles, nothing goes that nobody selected.

The list `hazards` in `PROJECT.json` has all of them with their lines.

## 2. The modules

```
RoomLedger          what a reservation system promises (abstract)
   ^ implemented by
Reservation   ----+
                  +-- BookingRecord   row of table booking, Overlaps, Live
BookingLifecycle -+
RoomSearch -------+
Housekeeping        ages, purge, refunds         (a row type with dates of change)
Payments            payment, webhook, refund     (a row type with payment status)
Notifications       what a guest is mailed       (a row type with the status only)
RefundDesk          refund records at the desk
Accounts            users, links, logins
ProfileStats        numbers of a profile
Offers              one offer: rules, search, calculation
Catalogue, Gallery  hotels, rooms and what refers to them; primary pictures

MCReservation, MCBookingLifecycle, MCHousekeeping, MCPayments, MCAccounts
                    instances for TLC
MCOffice            Notifications, RefundDesk, Offers and RoomSearch in one instance
MCCatalogue         Catalogue, Gallery and ProfileStats in one instance

ReservationProofs, RoomLedgerProofs, BookingLifecycleProofs, HousekeepingProofs,
PaymentsProofs, AccountsProofs, OfficeProofs, CatalogueProofs          theorems
```

`MCOffice` and `MCCatalogue` put components that share no state, but for the clock of `Offers` and
`RoomSearch`, into one instance. A
variable `topic`, chosen at the start and never changed, says which of them moves, so their
state spaces add up rather than multiply. The proofs are about each component's own
specification first, and carry over to the compositions.

Definitions named `X_Something` with a comment "Mutant" are deliberately wrong
variants of `X`. Nothing uses them; they exist so that one can see each property fail
when the code has the corresponding mistake (`mutants` in `PROJECT.json`).

### BookingRecord, Reservation, RoomLedger

`BookingRecord` reduces the row of `booking` to room, stay, status and `is_deleted`,
and defines `Overlaps` exactly as the query does (two strict comparisons).

`Reservation` has one action per step of `reserve_room`. `pc` is the request's place,
`lock` the row locks on rooms, `draft` the key it has inserted but not committed:

| Action | Code |
|---|---|
| `Submit` | the create view, after its serializer accepted the dates |
| `LockRoom` | step 1, `Room.objects.select_for_update().get(...)` |
| `Refuse`, `Insert` | step 2 finds a conflict and returns; finds none, step 3 |
| `LogCreation` | step 4, `BookingAuditLog` |
| `Commit` | the end of `transaction.atomic()` |
| `Fail` | any exception, at any point: rollback |
| `ExpirePending`, `MarkConfirmed`, `MarkCancelled`, `SoftDelete`, `HardDelete` | kind 2 writers, one statement each |

The look-up reads committed rows only, as READ COMMITTED does; drafts of other
transactions are invisible to it. It is the lock that makes this safe, and the model lets
one remove it (`LockRoom_NoLock`).
`SoftDelete` is a single statement here because it writes its own columns only; that
the view loads the row first is in `BookingLifecycle`.

`RoomLedger` is the abstract specification: a set of (booking, room, night), from which a
booking takes all its nights at once, each free until then, and gives them back
together. The refinement mapping `Entered` enters the nights of every live row.
So committing is the only step that takes nights, and everything else either stutters or gives
them back.

### BookingLifecycle

Every kind 3 request is a *job*: the in-memory instance (`row`), its key, and its place.
`LoadTo...` actions are load and decision (the guards are the code's conditions),
`Save` is `Booking.save()` with `clean()`: it writes all columns, or those of `update_fields`
(`bulk`, `softdelete`), and re-inserts a missing row if it saves in full.
`cancel_booking` goes on with `CreateRefund` (one-to-one: a second record is an
IntegrityError) and `RecordCancellation`. `Break` is an error or the end of the
process between any two steps; what was saved stays. Kind 2 writers are single steps.
`Midnight` advances `today`, which `clean()` and the cancellation window read.

`Reserve` is `reserve_room` up to the insertion; the job in progress *is* its lock
(`RoomLocked`). An insertion or a change of room by others waits for that lock as well,
because PostgreSQL's foreign-key check takes `FOR KEY SHARE` on the room, which conflicts
with `FOR UPDATE`. This is modelled in the guard of `Save`, since otherwise the forms would
look worse than they are.

The constant `Ops` selects the requests of a run: the interesting question about this
code is *which* combinations are harmless.

### Housekeeping

Rows with `created`, `updated`, check-in day and payment flag; a clock in ticks.
The parameter `whole` of `SetStatus` says whether a write is a save of the whole row
(then `auto_now` sets `updated_at`) or not. `since` and `saved` are history variables:
when the status last changed, and whether by a whole save. The purge is two steps,
because Django's collector selects the rows and then deletes by key; `revived` records what
was brought back to life in between. `HardDelete` is what persons delete for good (the bulk
deletion, the admin's `delete_selected`, the cascade of a hotel, room or user), in any state
and at any age; the properties are about the purge and except it by name. `calculate_refund` is in percent; its
tier branch raises, as in the code (`Decimal * float`).
Requests are atomic here: their stale copies are the subject of the other module.

### Payments

The gateway (external) knows charges: for which booking, and open, captured, failed or returned.
Requests are jobs again. `Initiate`, `MakeCharge`, `StoreCharge`,
`SaveInitiated` are `POST /payments/initiate/`; `Callback`, `StoreOutcome`,
`LoadBooking`, `SaveConfirmed` the webhook, which may come at any time and any number of times;
`AskRefund`, `ReturnMoney`, `StoreRefund`, `SaveCancelled` the
refund. `Break` is a lost answer, a failed save or the end of a process.

The column `payment_status` has other writers, who ask the gateway nothing. PATCH and the
manager's form load a booking and save all of it later, with any payment status
(`Edit`, `SaveEdited`; with the payment status as it was they are also `confirm_booking` and
`cancel_booking`); `MarkPaid` and `CompleteRefund` are the statements of the admin's action and
of the refund desk, `CancelElsewhere` those of the expiry job and of `mark_cancelled`. The
history field `entered` of a row, copied and saved with it, says that its payment status is
one a person chose. A person who leaves the status on the form as it was enters nothing.

### Notifications

A request is a job with its place: `Create` and `Cancel` start where `reserve_room` and
`cancel_booking` have committed, `LoadDestroy` and `LoadUpdate` where the views have read the
status their decision to mail rests on (PATCH reads the row a second time, `ReadAgain`).
`SendConfirmation` is the mail the create view sends itself: accepted, or an exception that
does not tell whether it was. `SendCancellation` always ends in an error,
because `send_booking_cancellation_email` returns a bool and the view unpacks a pair
(`bookings/views.py:979`); the cancellation is committed by then.
A task is sent, retried up to `MaxRetries` times, or lost with its worker (Celery
acknowledges early). A task may find its booking gone: the confirmation task then returns,
the cancellation task retries.

`Announce` is the receiver of `post_save` that `BookingsConfig.ready` connects
(`bookings/signals.py`, 8-86): each save of an instance mails the guest once more, with a
subject chosen by the status, and fails silently. `noticed` counts the mails the server
accepted, the history variable `saves` the saves. It runs in every action that saves an
instance: `Create`, `Cancel`, `SaveCancelled`, and `SavedElsewhere`, which stands for all the
other saves (`confirm_booking`, PATCH, forms, bulk change, webhook, refund desk,
`soft_delete`), of a new row, a present one or one that is gone. `CreateRolledBack` is the
creation that fails after its insertion: the mail is out, the booking never was.
`Elsewhere` is left with the statements that save no instance: expiry, `mark_cancelled`,
and deletions for good.

### RefundDesk

`Approve`, `Complete` and `Reject` load a refund; `MarkRefunded`, `SaveRefund` and
`WriteAudit` are the three statements of a completion, `Drop` an interruption between them.
`saw` records whether the request found the refund dated, which is what the
property about stale copies is about.

### Accounts

One action per step of a request. A login loads the row and checks the lock (`LoadLogin`,
`LoadManagerLogin`), `Authenticate` reads the row a second time for the password, and
`SaveFailure`, `SaveLogin` and `SaveManagerLogin` write the counter alone
(`update_fields`); the failure is counted from the *first* copy. Everything else that
changes a user saves the whole row: profile and password changes of the API and of the
manager's pages, the admin's page, the verification (`SaveWhole`, `SaveVerified`). A reset
(`LoadReset`, `ConfirmReset`) looks its link up before the transaction that sets the
password and closes every open link of the account. The history variables count what
no column keeps: failures since the counter was last reset, passwords set by links that were
closed, accounts an administrator set out to verify.

### ProfileStats

A number is modelled by the set of bookings it counts, which is more than the number
tells: two different sets of the same size are a difference. `SaveStay` is `Booking.save()`, which
recounts only after some changes (`Signals`); `UpdateStay` is `queryset.update()`,
which never does. A recount is two queries and a save of the whole profile
(`CountStays`, `SumStays`, `SaveProfile`), and every save of the *user* copies the profile
and saves it back (`CopyProfile`, `SaveProfile`).

### Offers

The API checks what was sent and only that (`ApiCreate`, `Patch...`): a column sent alone is
compared with nothing, and `offer_type` has a default, so a creation that leaves it out is a percentage
offer without a percentage. The desk's form runs `Offer.clean` on the row as it would
become (`DeskCreate`, `DeskEdit`). `Matched` is the offer search, `Applicable`, `Raises`
and `Discounted` the price calculation, `Refused` the answer that its own serializer
rejects: a percentage yields four decimal places where two are admitted.
`checked` is history: the last write was checked as a whole.

### RoomSearch

`Found`, `FoundByCapacity`, `FoundFlexibly` and `Listed` are the public searches, `Accepted`
what `POST bookings/create/` asks. All writers of what they read are single steps: bookings
(`ApiReserve`, `DeskSave`, `SetStatus`, `Remove`), rooms (`SaveRoom` with
`Room.clean`, `SetFlags` without), room types and the hotel.

### Catalogue and Gallery

`Catalogue` reduces a row to the rows it refers to. `Refs` has the foreign keys with
`on_delete=CASCADE` of each table. A form loads and saves (`LoadForm`, `SaveForm`; a parent
that went meanwhile is an IntegrityError), a deletion collects what hangs below its roots
and then removes it (`Collect`, `Remove`; a row that was added meanwhile makes it fail as a
whole). `...Views` say which pages exist for which table, `Seed` is `seed_demo.py`.
`ApiBooking` is the API's check that the room is one of the hotel, which the desk's form lacks.

`Gallery` is the primary picture: `ClearOthers` and `SavePicture` are two statements
(`RoomImage.save`, `OfferImage.save`); `Close` in between leaves the place without one.

## 3. Runs

| Run | Instance | Question and answer | Distinct states |
|---|---|---|---|
| `reservation` | 2 bookings, 2 rooms, 2 nights, 2 clients | No night sold twice; the check of step 2 is still true at commit; audit entry together with the booking; refinement of `RoomLedger`; every waiting request is answered. Holds. | 213,927 |
| `lifecycle` | 1 booking, 3 days, 2 workers, every request but `purge` | `cancel_booking` succeeds once for a booking, and has its refund record then. Holds. | 450,849 |
| `lifecycle_release` | 2 bookings, 1 night, 3 workers, `Releasing` | With `reserve`, `cancel`, `destroy`, `softdelete`, admin, expiry and purge in any interleaving, no double booking, and nights given back stay given back. Holds. | 622,450 |
| `housekeeping` | 1 booking, 4 days of 2 ticks | Overdue bookings expire; what a guest cancelled is kept by the purge. Holds. | 20,074 |
| `payments` | 2 bookings, 2 charges, 2 workers | Paid, completed and refunded are backed at the gateway, or were entered by a person. Holds. | 2,426,951 |
| `accounts` | 1 account, 2 passwords, 2 links, 2 workers, 2 ticks | The counter never passes the lock and at most n(n+3)/2 attempts fail where n should; verifications have a source; a closed link sets at most one password more; only stale copies undo. Holds. | 802,559 |
| `office` | 1 booking, 2 requests, 2 mail tasks; 1 refund, 2 clerks; 1 offer, 3 days; 1 room, 2 bookings, 3 days | Answers about mails are true, confirmations at most those of view and task and one per save, tasks end; refunds complete in order and lose their date to stale copies only; quotes are bounded, and offer search, calculation, room search and reservation differ in named cases only. Holds. | 527,446 |
| `catalogue` | 14 rows of 13 tables in five batches, 2 requests; 3 pictures, 2 places, 2 editors; 2 bookings, 2 recounts | Nothing dangles, nothing goes that was not selected or below; a booking's hotel is its room's unless the desk parted them; as many primaries as editors at most; the numbers were right once. Holds. | 534,486 |
| `stale_confirm` | 2 bookings, 1 night, 2 workers, `reserve`, `confirm`, `cancel` | No double booking? **Violated.** | |
| `cancel_atomic` | 1 booking, 2 workers, `reserve`, `cancel` | A cancelled booking has its refund record? **Violated.** | |
| `refund_schedule` | as `housekeeping` | The refund is what the schedule says? **Violated.** | |
| `double_charge` | 1 booking, 2 charges, 2 workers | One captured charge per booking? **Violated.** | |

### Bounds, and why they are enough

- *Keys* (`Booking`, `Charge`): conflicts are between two bookings, or two charges
  of one booking; two of each let every such conflict occur. The real tables
  have sequences that do not run out; a run out of keys stops, so deadlock is not
  checked where that is possible. `reservation` needs no such exemption: `Fail` and
  deletion always leave a step.
- *Days*: three days give two nights, hence stays that are apart,
  adjacent, nested and equal. Two days (one night) suffice where only whether the
  stays collide matters.
- *Clients, workers*: every hazard is between two requests; `lifecycle_release` has a
  third worker so that two stale copies can meet a new reservation.
- *Clock*: `LastTick = 7`, two ticks a day, expiry after 2 ticks (24 hours is one
  day), retention 1 day instead of 30. Four days let a booking expire, be cancelled, be
  brought back, and be purged, on both sides of each strict comparison.

- *Limits of accounts*: an account locks at 2 failures instead of 5 and the second limit is
  3 instead of 10. What counts is that several requests can load a counter
  below the limit and that the second limit lies above the first. With one request at a
  time the bound n(n+3)/2 of the failures is never approached; with two it is reached,
  because one of them may hold each value of the counter while the other runs up to the limit.
  The clock has two instants an hour or more apart: a link of either kind works in the one
  it was made in and has expired in the next, so requests that follow it straddle the end of
  its life. The five minutes within which no second reset link is made are shorter than that
  and do not bind in the instance; both links of the account may be open at once.
- *Tasks*: two messages and one retry instead of three; every place at which a
  mail can be lost or sent twice occurs. The bound of `ConfirmationsBounded` is in terms of `MaxRetries`.
- *Saves*: `SavedElsewhere` stops when a booking has been announced `MaxSaves = 2` times, so
  that one save elsewhere may precede or follow a creation or a cancellation, and revive what
  was cancelled or purged. The proofs do not use the bound.
- *Forms*: `Posted` has the status confirmed only, which revives a cancelled booking and opens
  it to a refund; cancelling is what `CancelElsewhere` does. All payment statuses are posted.
- *Tables*: the batches of `catalogue` put those tables together that refer to one another,
  with a second hotel for rows to be moved to. A chain of foreign keys has at most three links
  (hotel, room, booking), and the first batch has one of that length.
- *Offers*: three days, a week of three days (every pattern of weekdays), percentages of
  0 and 100, one amount that is larger than the stay's price, one price and its negative; a
  null for each column that admits one.
- *Rooms, capacities*: one room, capacities 1 and 2, so that a party can be too large for
  the room, for its type, and for neither.

*Symmetry*: in `accounts`, passwords, workers and links are interchangeable; in `payments` and
`double_charge` bookings, charges and workers, where the instance has two of them. In `catalogue`,
`w1` and `w2` are requests of whichever topic moves, and `h1` and `h2` are the two hotels, places
or bookings, so the two permutations apply to all topics at once. None of these runs checks liveness.

Left out of runs: `bulk` is not in `lifecycle_release` because it makes a double booking
with no interleaving at all: it sets any status on any selected row and asks neither the
transitions nor availability. `destroy` is not in `cancel_atomic` because it cancels
without a refund record by design. `purge` is not in `lifecycle`: after a deletion for
good the key starts anew.

### Fairness

- `SF(LockRoom)`: PostgreSQL queues the waiters of a row lock, so a waiter is
  not passed over for ever while the lock keeps being released. Weak fairness would not do:
  the lock is taken again and again by others.
- `WF` of the steps inside the transaction: a worker that has got its lock runs on.
  It includes no fairness of `Fail`, and none of `Submit`: nobody has to ask.
- `WF(ExpirePending)`: Celery Beat starts the job every 30 minutes, for ever.
- `MailFairness`, `WF(RunTask(t))` for every message: Celery's workers take the messages of
  the queue one after the other. It does not say that a task succeeds: `Lose` and `Retry` are
  ways of running it.

`EveryRequestAnswered` excepts states in which the model's keys are all used up
(`KeysExhausted`), which the real table does not have. With two keys and two clients
a request can still be overtaken by another one for the same room, which expires or is deleted and
asks again, so the exception does not swallow the contention.

## 4. Findings

| Run | What the code does | What the repository says |
|---|---|---|
| `stale_confirm` | `confirm_booking` (`booking_services.py:174`) saves all columns of a copy loaded before someone cancelled the booking. Trace: reserve, load to confirm, cancel, another guest reserves the night, the confirmation is saved. Two live bookings of one night. | `models.py:32` and `162`: optimistic locking; `booking_services.py:3`: prevents double booking |
| `cancel_atomic` | A failure after `booking.save()` and before `BookingRefund.objects.create` leaves a cancelled booking without a refund record; a retry is refused. | `booking_services.py:2`: transactional safety |
| `refund_schedule` | `Decimal * float` raises: a paid booking inside the schedule's period cannot be cancelled. | `models.py:435`: refund percentage by days |
| `double_charge` | A new idempotency key at every call, and no look at an earlier payment. | `payments/services.py:23`: idempotency |

More disagreements, which have no run of their own because they show without
interleaving, repeat one of the above, or lie in code that is not modelled:

- *Completed stays*: `bookings/signals.py:31` mails the guest "Thank You for Staying" when a
  booking is saved as completed, and the PATCH endpoint offers confirmed to completed at any
  time (`bookings/serializers.py:284`). `Booking.clean` (`bookings/models.py:261`), which every save
  runs, refuses a check-in date in the past: the guest is thanked on or before the day of
  arrival, by a reservation, confirmation and completion within one day, and once the stay has
  begun nobody can complete it. That is so in every instance (`CompletedBeforeArrival`, section 5).
- *Bookings*: the manager's create and edit forms race `reserve_room` and each other, as
  `stale_confirm` does. The bulk status change revives a cancelled booking with no race.
  The form never compares a room with the booking's hotel, nor an amount with a price.
- *Early purge*: `bookings/tasks.py:307` says "older than 30 days", but the age is read from
  `updated_at`, which the expiry job, the admin's `mark_cancelled` and the bulk change leave
  alone: what they cancel today may be purged today. `GuestCancellationKept` is the
  part that holds, and `NonePurgedEarly`: nothing is purged within 30 days of its creation. A
  manager may delete any booking for good at any time.
- *Payment status*: PATCH, the manager's form, `mark_paid` and the refund desk set `paid` or
  `refunded` with no charge and no return; only the payment requests ask the gateway.
- *Mails*: a creation mails "Booking Confirmation" twice, from the receiver of `post_save`
  (`bookings/signals.py:74`) and from the view, where `bookings/tests.py:920` expects one mail.
  The first is sent inside `reserve_room`'s transaction, so a creation that is rolled back has
  been confirmed.
- *Primary pictures*: `core/models.py:663` says "only one primary"; with saves that overlap there may
  be as many as there are requests (`PrimariesBounded` is what holds).
- *Statistics*: `accounts/signals.py:27` says "in sync automatically"; a booking that is
  confirmed and paid, or changed by `queryset.update()`, is counted at the next signal only.
- *Demo data*: `seed_demo.py:14` says "Idempotent"; it deletes every other hotel with its
  bookings, and the bookings of its own rooms.
- *Hotels*: the page that deletes one hotel turns staff away (`manager/views_cbv.py:825`),
  the deletion of a selection from the list does not.
- *Offers*: a percentage offer that applies is always answered with 400 (four decimal
  places, `offers/serializers.py:364`), an offer without a minimum stay with an error; an offer
  created without a type passes no price rule. The calculation accepts a negative price
  per night (`offers/serializers.py:321` has no `min_value`) and answers 0 for it, which is more
  than the price without the offer.
- *Searches*: `hotel_search` asks for the status `checked_in`, which no booking can have, and not
  for `pending`, so it shows rooms that a reservation then refuses. The flexible search
  with dates, the search by capacity with a hotel, and the availability endpoints
  (`core/views.py` 566-604, 686-724, 956-1010) fail for every request.
- *Cancellation*: the view answers 500 after every cancellation (`bookings/views.py:979`).

## 5. What is proved

The proofs are checked by TLAPS for any sets of bookings, rooms, days, clients,
charges and workers. The assumptions are those stated in the modules: days are integers
(`DayAssumption`), the null values are not values (`NoRowAssumption`, `NoValues`,
`OpsAssumption`, `PaymentsAssumption`, `NoneAssumption`, `NilAssumption`, `AbsentAssumption`,
`NullAssumption`, `NoOfferAssumption`, `NothingAssumption`, `IdleAssumption`), forms post
statuses (`PaymentsAssumption`), clocks, periods, limits and amounts are natural numbers, prices
per night integers (`HousekeepingAssumption`, `AccountsAssumption`,
`NotificationsAssumption`, `OffersAssumption`, `SlotAssumption`), every row of the catalogue has a
table (`CatalogueAssumption`), the requests that save a picture are finitely many
(`EditorAssumption`), and so are the requests of `Accounts` that run at a time, of which there
is at least one (`WorkerAssumption`): a server has a finite pool of threads. TLC evaluates each
of them in the runs.

### ReservationProofs

| Theorem | Statement |
|---|---|
| `TypeCorrect` | `Spec => []TypeOK` |
| `NoDoubleBookingHolds` | `Spec => []NoDoubleBooking` |
| `CheckStaysValidHolds` | `Spec => []CheckStaysValid` |
| `HoldsWhatItNeedsHolds` | `Spec => []HoldsWhatItNeeds` |
| `CreationAuditedHolds` | `Spec => []CreationAudited` |
| `RefinesLedger` | `Spec => Ledger!Spec` |
| `OverlapIsSharedNight` | two stays overlap, as the query compares them, iff they share a room and a night |

`NoDoubleBooking` alone is not inductive: a commit makes a row live, and nothing in
`NoDoubleBooking` says that the room was still free. The invariant is

    IInv == TypeOK /\ HoldsWhatItNeeds /\ CheckStaysValid /\ NoDoubleBooking /\ CreationAudited

and the argument goes round: a transaction past its check has a stay without conflicts
(`CheckStaysValid`), so its commit keeps `NoDoubleBooking`; a commit could disturb the
check of *another* transaction only if both asked for the same room, and then both
would hold that room's lock (`HoldsWhatItNeeds`, which is proved but is no property of a run: it is what a
transaction needs, not what anybody was promised). The other writers only release nights
(lemma `WritersOnlyRelease`) or leave them with the row that has them, so they disturb
neither. `HoldsWhatItNeeds` also says that a draft's key has no row, without which a
commit could overwrite one.

`RefinesLedger` maps a step of `Reservation` to `Take` (commit), `GiveBack` (a row that
was live is cancelled or deleted) or a stutter; for `Take` it needs `CheckStaysValid`
and `OverlapIsSharedNight`, which turns the code's two comparisons into disjoint nights.

### RoomLedgerProofs

`LedgerIsExclusive`: `Spec => []Exclusive`. Together with `RefinesLedger` it is what the
guest is promised.

### BookingLifecycleProofs

| Theorem | Statement |
|---|---|
| `LifecycleTyped` | `Spec => []TypeOK`, for every `Ops` |
| `ReleasingIsHarmless` | `Ops \subseteq Releasing` implies `Spec => []NoDoubleBooking` |
| `ReleasedForGood` | `Ops \subseteq Releasing` implies `Spec => NightsStayReleased` |
| `CancelledOnceHolds` | `"purge" \notin Ops` implies `Spec => []CancelledOnce` |
| `CompletedBeforeArrival` | `Spec => CompletedOnlyBeforeArrival`, for every `Ops` |
| `OneAtATimeIsHarmless` | one worker and `"bulk" \notin Ops` imply `Spec => []NoDoubleBooking` |
| `ReleasingImplementsLedger` | `Ops \subseteq Releasing` implies `Spec => Ledger!Spec` |

`ReleasingIsHarmless` and `ReleasedForGood` say which part of the code is safe although it saves stale copies. `IInv` adds
to `NoDoubleBooking` what each request in progress will write (`JobsHarmless`): a
releasing request writes a row that is not live (`OnlyReleases`); a reservation writes a
row whose nights are free, whose key has no row, and whose room no other reservation has
locked (`HoldsRoom`). That a stale copy may re-insert a row deleted in between is the case
a reader would worry about: the row comes back cancelled. The condition on `Ops` cannot be
dropped; `stale_confirm` is the counterexample with `confirm`.

`CancelledOnceHolds` is about requests of every kind. Two cancellations can both pass
the check of the status, and the status can be revived in between; it is the one-to-one
key of the refund record that admits only one of them to its audit entry
(`RefundedAlone`). With `purge` the refund record goes with the booking and a request
between its two records is no longer alone.

`CompletedBeforeArrival` is the disagreement about completed stays of section 4: nobody can mark a
stay completed when it is over. It is no property of a run, because it describes what the
program does and not what it should do. The proof needs the types only: the table is written by saves and by
statements (lemma `Writes`), no statement writes `completed`, and a save writes the stay it
has validated together with the status, except in a soft delete, which leaves the status, and
in a bulk change, which the property exempts.

`OneAtATimeIsHarmless` complements `ReleasingIsHarmless`: the forms, the
transitions of the PATCH endpoint and the saves of whole copies are all harmless if no
second request comes between a look-up and its save, although statements and jobs may.
Its invariant `AloneInv` adds to `NoDoubleBooking` that what a request will save after its
check, if live, lies beside the other live rows (`FitsBeside`). Both hypotheses are
needed: with two workers `stale_confirm` is the counterexample, and the bulk change revives a
cancelled booking without a look at the others.

`ReleasingImplementsLedger` is `RefinesLedger` once more where the rows are saved from
copies: the save of a reservation is `Take`, every other save or statement `GiveBack` or a
stutter. The mapping `Entered` is that of `Reservation`; it is stated in the proof module.

### HousekeepingProofs

| Theorem | Statement |
|---|---|
| `HousekeepingTyped` | `Spec => []TypeOK` |
| `GuestCancellationIsKept` | `Spec => GuestCancellationKept` |
| `NonePurgedEarly` | the purge deletes no booking within `Retention` days of its creation |

`IInv` says that a cancellation by a save of the whole row is no younger than
`updated_at` (`Aged`), and that what the running purge has selected may go unless it was revived
(`MayGo`). The first turns the purge's comparison of `updated_at` into one of the
cancellation (by monotony of the division of instants into days); the second bridges
the gap between selecting and deleting. For a writer that leaves `updated_at` alone the first fails.

Both are about the purge: a step in which a person deletes the booking is excepted
(`PurgedNow`), as no period binds it.

`NonePurgedEarly` says what is left for those writers, and for a booking that was revived
while the purge ran: `updated_at` is never before `created_at`, and `created_at` never changes
(`OldInv`, lemma `RequestWrites`), so what a purge has selected stays old by its creation,
whatever is done to it before it is deleted.

### PaymentsProofs

| Theorem | Statement |
|---|---|
| `PaymentsTyped` | `Spec => []TypeOK` |
| `PaidMeansCapturedHolds` | `Spec => []PaidMeansCaptured` |
| `PaymentBackedHolds` | `Spec => []PaymentBacked` |
| `RefundedMeansReturnedHolds` | `Spec => []RefundedMeansReturned` |

The second and the fourth speak of rows whose payment status nobody has `entered`. The field is
part of the copies that requests hold, so an old copy that is saved brings both the status and
its origin back, and the invariant says of each copy that it is backed or was entered.

None of these is inductive, since what a request will save depends on copies it loaded
long before. The strengthening `IInv` says of every request in progress what it may
rely on (`JobBacked`): what it holds is backed by the gateway already, except while it
waits for an answer. The one reason why old copies are harmless here is lemma
`GatewayRemembers`: no step of the system makes the gateway forget a captured or a
returned charge; with `BackingLasts`, whatever was backed once stays backed, so
every step needs to justify only what it changes itself (lemma `Changed`).

### AccountsProofs

| Theorem | Statement |
|---|---|
| `AccountsTyped` | `Spec => []TypeOK` |
| `LockNeverPassed` | `Spec => []CounterAtMostLimit`, the first half of `TriesBounded` |
| `FailedAttemptsBounded` | `Spec => []TriesBounded` |
| `VerifiedOnlyByLink` | `Spec => []VerifiedByLink` |
| `StaleCopiesOnly` | `Spec => UndoneOnlyByStaleCopies` |
| `ClosedLinksBounded` | `Spec => []ClosedLinksSetNoPassword` |

`IInv` says what the copy of each request in progress is worth (`Held`): a login that was
let in has loaded a counter below the limit, so the one it saves is at most the limit; a
whole row that will be saved as verified was loaded from a row that had a source, and
sources do not go away. `StaleCopiesOnly` needs it for the counter only; that at most one
row changes in a step (`OneRowChanges`) does the rest.

`ClosedLinksBounded` counts. A request follows a link only if it found it open. So once a reset
has closed a link nobody new follows it, and the passwords set late through it together with
the requests that still follow it (`Followers`) are fewer than the workers, since the request
that closed it counts in neither (`LinkInv`). A late password moves its request from one side
to the other.

`FailedAttemptsBounded` rests on a potential. With the stored counter at `n` and no older copy
about, `Left(n) / 2` attempts may still fail, where `Left(n) = (L - n) * (L - n + 3)` for the
limit `L`: one request keeps `n` while the other runs up to the lock, then saves `n + 1`, and so
on. Saving an old copy sets the counter back, so the budget is kept three times over: for the
stored counter, for the copy of each request that may still count a failure, and for each
pair of such copies (`Spent`, `Budget`, `TriesInv`). `LeftStep` and `LeftFalls` say how much of
it a failure uses up.

### OfficeProofs

| Theorem | Statement |
|---|---|
| `RefundsComplete`, `DatesLostByStaleCopies` | `DeskSpec => []RefundsInOrder`, `DeskSpec => DateLostOnlyByStaleCopies` |
| `AnswersKept`, `FewConfirmations` | `MailSpec => []AnswerKept`, `MailSpec => []ConfirmationsBounded` |
| `CheckedOffersCalculate`, `SearchAndCalculationAgree`, `QuotesBounded` | `OffersSpec => []FailsOnlyIncomplete`, `[]SearchAgrees`, `[]QuoteBounded` |
| `SearchesMatchReservations` | `Rooms!SearchSpec => []SearchMatchesReserve` |
| `SideBySideImplementsComponents` | `SideBySide => MailSpec /\ DeskSpec /\ OffersSpec /\ Rooms!SearchSpec` |
| `OfficeTyped`, `OfficeSafe` | `SideBySide => []OfficeTypeOK`; `OfficeSpec` implies every safety property of the run `office` |

The first four lines are about each component's own specification, with its own invariant. Refunds: a
clerk past the first statement has marked the booking, past the second has finished the
refund (`ClerkHolds`). Mails: for each booking at most one request *or* one task is at
work on the confirmation, and it has had as many attempts as it says (`OneMaker`); counting
deliveries alone is not inductive, since nothing in it stops two makers. The mails of the
receiver are counted beside them, at most one for each save (`NInv`, lemma `AnnounceStep`), and
`ConfirmationsBounded` is the sum of the two bounds. Offers: what was last
checked whole passes the rules (`FInv`); `SearchAgrees` and `QuoteBounded` then hold in
every well-typed state, for all prices, negative ones included, percentages and lengths of stay. Rooms: no room
is larger than its type unless the type was lowered (`RInv`).

The last two lines carry them to compositions. In `SideBySide` the four take steps in any order,
unlike in the run, where one of them moves (`OfficeIsSideBySide`: the run's behaviours are a
case of it). The one thing components share is the clock: both that read it let it advance by the
same rule (`OffersClock`, `RoomsClock`), so a midnight of one is a midnight of the other.

### CatalogueProofs

| Theorem | Statement |
|---|---|
| `CatalogueTyped`, `NothingDangles` | `CatSpec => []CatTypeOK`, `CatSpec => []NoDangling` |
| `DeletionsFollowReferences` | `CatSpec => RowsGoWithParents` |
| `BookingsInTheirHotel` | `CatSpec => []HotelOfRoom` |
| `PrimariesPerEditor` | `GallerySpec => []PrimariesBounded` |
| `NumbersOnceRight`, `QuietRecounts` | `StatsSpec => []NumbersWereExact`, `StatsSpec => QuietRecountIsExact` |
| `CatalogueImplementsComponents` | `CatalogueSpec => CatSpec /\ GallerySpec /\ StatsSpec` |
| `CatalogueComponentsTyped`, `CatalogueSafe` | `CatalogueSpec => []CatalogueTypeOK`, and every property of the run `catalogue` |

`NoDangling` is inductive with the types. For `RowsGoWithParents` one needs what a deletion
has collected: each collected row is a root, was saved since, or refers to another
collected row (`CollectedWhole`). `HotelOfRoom` is the hard one: a request that loaded a
room or booking may save it after the row was deleted, and bring it back. Hence all copies
of a room that nobody has moved are the same and equal its row (`Unmoved`), and a booking
about to be saved agrees with its room's row *and* with every copy of it in progress (`Agrees`);
that keys are never handed out twice is needed too. `PrimariesBounded` counts: the pictures
that are primary *or about to be* are never more than the requests (`FewClaims`), because whoever
claims a place has first taken it from all others. The numbers of a profile: what a recount
holds was right once, and is right now unless it was disturbed (`SyncHolds`).
The last two lines say that the run's composition, in which one of the three moves and the
others stand still, has every property of its components.

## 6. What is only model-checked

Every safety and action property of a passing run is stated by a theorem of section 5;
`NoDoubleBooking` of the lifecycle and `CancelledOnce` under conditions on `Ops`, which the runs
that check them meet. What is left to TLC:

- Liveness (`EveryRequestAnswered`, `OverdueExpires`, `TasksEnd`): it rests on fairness and on
  `ENABLED`, which TLAPS does not treat.
- The four violations are traces on the instances of section 3.

## 7. What is left out

*Inside the modelled parts*

- Guest data, prices, currency amounts, wording of answers and mails, and who may call what.
- Mails: the receiver's "Thank You" and "Booking Updated" are not counted (the latter is a
  save that was not `noticed`); its alerts to the manager about audit entries
  (`bookings/signals.py` 89-148) and the refund desk's "Refund processed" change nothing. The
  receivers of `payments/signals.py` are connected to signals nobody sends.
- `BookingRecord.Row` has no payment columns, `Payments` has no stays: what a
  full save does to the columns of the other module is the same lost update again.
- `Reservation` and `Payments` have no calendar, so writers there are not refused after the
  arrival day (`Booking.clean`, `can_be_cancelled`). The models have more behaviours than
  the code; what holds of them holds of it.
- `Booking.restore` (called by nobody), the change form of the Django admin, which saves
  like the manager's form but without its check.
- A bulk action works on its rows one after the other, each as a worker of its own.
- `TapPaymentTransaction` (a copy of the gateway's answer that nothing reads), the
  retries of one HTTP request (they carry one idempotency key, so they are one charge),
  and the rows of table `payment` a manager types in.
- The non-refundable deposit lies behind the `TypeError` of `calculate_refund` and is
  never reached.
- `Accounts`: sessions, API tokens and logout; deleting an account and resending
  a verification link, which have no route; `TokenBlacklistService`, used by the admin
  and tests only. Profile columns that nothing decides on.
- `Offers`: texts, slug, limits of advance booking (read by nobody), and `package_price`, which
  the rules ask for and nothing reads. The type `package` stands for every type
  that is neither a percentage nor a fixed amount. `bookings_used` is never incremented, so
  the limit of bookings never binds.
- `RoomSearch`: one hotel and one room type; prices and sorting.
- `Catalogue`: descriptive columns, contact messages, uniqueness of names and numbers.
- The check-in reminders (`bookings/tasks.py`), which send mail and change nothing.

*Whole components*

- `bookings/services/__init__.py` (availability service): imported, called by nobody.
- `core/services.py` (prices, room combinations, available rooms): called by no routed
  endpoint but the availability endpoints, which call it with arguments it does not have.
  Its own search, which has no route, filters bookings by `check_in` and
  `check_out`, where the columns are `check_in_date` and `check_out_date`; the prices and
  combinations lie behind that error. The mail about contact messages is I/O.
- Reports, exports, dashboards: read-only queries. Deployment: outside the program.

## 8. Plan

Done: all modules of section 2 with their runs and proofs. What remains:

1. `HotelOfRoom` composed with `RoomSearch`: what a search of one hotel shows of bookings
   that name another.
2. A condition on the customer's and the gateway's behaviour under which `ChargedOnce` holds;
   nothing in the code of `initiate_payment` supplies one.
